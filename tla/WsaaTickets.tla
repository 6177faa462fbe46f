----------------------------- MODULE WsaaTickets -----------------------------
(***************************************************************************)
(* An ARCA certificate and the WSAA access tickets obtained with it: the   *)
(* life of the certificate's row, the cache of tickets in that row, and    *)
(* the callers that share it.                                              *)
(*                                                                         *)
(* ARCA grants one ticket per certificate and service and refuses another  *)
(* while it lives, so a ticket the database loses is an outage until it    *)
(* dies.  Time is counted in units far longer than WSAA_TIMEOUT.  Row      *)
(* writes follow REPEATABLE READ: a transaction whose row was rewritten    *)
(* since its snapshot (dirty) cannot commit.                               *)
(***************************************************************************)
EXTENDS Naturals

CONSTANTS
  Callers,     \* processes that need credentials
  Services,    \* ARCA services: wsfe, wsfex
  Keys,        \* RSA key pairs
  Lifetime,    \* how long ARCA grants a ticket for
  ShortLife,   \* what is assumed when ARCA does not say (one hour)
  Margin,      \* TOKEN_RENEWAL_MARGIN_MINUTES
  Validity,    \* the longest validity of a certificate; bounds time
  None

ASSUME TimesAssumption ==
  /\ Lifetime \in Nat /\ ShortLife \in Nat /\ Margin \in Nat /\ Validity \in Nat
  /\ Margin < ShortLife
  /\ ShortLife <= Lifetime
ASSUME NoneAssumption == None \notin Keys \cup Services \cup Callers

VARIABLES
  \* the certificate's row
  certState,   \* state
  key,         \* private_key
  cert,        \* the key pair the stored certificate belongs to
  certLeft,    \* time until cert_date_end
  cache,       \* l10n_ar_arca_token_cache: time left of each ticket, 0 if none
  \* the callers
  lock,        \* holder of the advisory lock of each service
  pc,          \* where each caller is
  job,         \* the service it wants
  dirty,       \* its transaction can no longer write the row
  \* ARCA
  live         \* time left of the ticket ARCA granted for each service

rowVars    == <<certState, key, cert, certLeft, cache>>
callerVars == <<lock, pc, job, dirty>>
vars       == <<rowVars, callerVars, live>>

CertStates == {"draft", "csr_generated", "active", "expired", "revoked"}

NoTickets == [s \in Services |-> 0]

Init ==
  /\ certState = "draft"
  /\ key = None
  /\ cert = None
  /\ certLeft = 0
  /\ cache = NoTickets
  /\ lock = [s \in Services |-> None]
  /\ pc = [c \in Callers |-> "idle"]
  /\ job = [c \in Callers |-> None]
  /\ dirty = [c \in Callers |-> FALSE]
  /\ live = NoTickets

-----------------------------------------------------------------------------
(* The certificate *)

\* Callers whose transaction read the row and may still write it.
Snapshotted(c) == pc[c] \in {"asking", "granted", "refused"}

\* A commit rewrote the row: those of the others can no longer.
Rewrite == dirty' = [c \in Callers |-> dirty[c] \/ Snapshotted(c)]

\* Bug: generating again replaces the key of a CSR already handed to ARCA.
BugGenerateAgain(k) ==
  /\ certState \in {"draft", "csr_generated"}
  /\ key' = k
  /\ certState' = "csr_generated"
  /\ Rewrite
  /\ UNCHANGED <<cert, certLeft, cache, lock, pc, job, live>>

\* Bug: a state the selection does not have.
BugGenerateWrongState(k) ==
  /\ certState = "draft"
  /\ key' = k
  /\ certState' = "pending"
  /\ Rewrite
  /\ UNCHANGED <<cert, certLeft, cache, lock, pc, job, live>>

\* action_generate_key_and_csr
GenerateKeyAndCsr(k) ==
  /\ certState = "draft"
  /\ key' = k
  /\ certState' = "csr_generated"
  /\ Rewrite
  /\ UNCHANGED <<cert, certLeft, cache, lock, pc, job, live>>

\* The stored certificate is replaced; a new one has no tickets at ARCA yet,
\* uploading the same one again leaves ARCA's as they are.
Install(k, left) ==
  /\ cert' = k
  /\ certLeft' = left
  /\ certState' = "active"
  /\ cache' = NoTickets
  /\ \/ live' = NoTickets
     \/ cert = k /\ certLeft = left /\ UNCHANGED live
  /\ Rewrite
  /\ UNCHANGED <<key, lock, pc, job>>

\* Bug: the certificate's public key not compared with the private key.
BugProcessAnyKey(k, left) == key # None /\ left > 0 /\ Install(k, left)

\* action_process_certificate: a certificate of this key, in force.  Whatever
\* the state: only revoking, which removes the key, ends it.
ProcessCertificate(k, left) == key = k /\ left > 0 /\ Install(k, left)

\* Bug: the private key stays.
BugRevokeKeepsKey ==
  /\ certState' = "revoked"
  /\ cache' = NoTickets
  /\ Rewrite
  /\ UNCHANGED <<key, cert, certLeft, lock, pc, job, live>>

\* action_revoke
Revoke ==
  /\ certState' = "revoked"
  /\ key' = None
  /\ cache' = NoTickets
  /\ Rewrite
  /\ UNCHANGED <<cert, certLeft, lock, pc, job, live>>

\* _cron_check_certificate_expiration
CronExpire ==
  /\ certState = "active"
  /\ certLeft = 0
  /\ certState' = "expired"
  /\ cache' = NoTickets
  /\ Rewrite
  /\ UNCHANGED <<key, cert, certLeft, lock, pc, job, live>>

-----------------------------------------------------------------------------
(* _get_or_refresh_token *)

\* _check_usable.  Its own write of "expired" never lasts: the exception that
\* follows rolls it back.
CheckUsable ==
  /\ certState = "active"
  /\ certLeft > 0
  /\ key # None
  /\ cert # None

\* Bug: no renewal margin.
BugCachedUntilDead(s) == cache[s] > 0

\* _read_cached_token: the cached ticket is still comfortably valid.
Cached(s) == cache[s] > Margin

GoTo(c, from, to) == pc[c] = from /\ pc' = [pc EXCEPT ![c] = to]

\* fiscal_transaction's exit, committed or not: the lock is dropped.
Leave(c, to) ==
  /\ pc' = [pc EXCEPT ![c] = to]
  /\ lock' = [s \in Services |-> IF lock[s] = c THEN None ELSE lock[s]]

Abandon(c) ==
  /\ Leave(c, "idle")
  /\ job' = [job EXCEPT ![c] = None]
  /\ dirty' = [dirty EXCEPT ![c] = FALSE]
  /\ UNCHANGED <<rowVars, live>>

\* The caller's own cursor: the cache has the ticket.
ServeCached(c, s) ==
  /\ CheckUsable
  /\ Cached(s)
  /\ GoTo(c, "idle", "served")
  /\ job' = [job EXCEPT ![c] = s]
  /\ UNCHANGED <<rowVars, lock, dirty, live>>

Miss(c, s) ==
  /\ CheckUsable
  /\ ~Cached(s)
  /\ GoTo(c, "idle", "missed")
  /\ job' = [job EXCEPT ![c] = s]
  /\ UNCHANGED <<rowVars, lock, dirty, live>>

\* Another process is obtaining this service's ticket: ArcaAborted.
Busy(c) ==
  /\ pc[c] = "missed"
  /\ lock[job[c]] # None
  /\ Abandon(c)

\* Another worker obtained it while this one was on its way to the lock.
ServeAfterAll(c) ==
  /\ GoTo(c, "missed", "served")
  /\ lock[job[c]] = None
  /\ Cached(job[c])
  /\ UNCHANGED <<rowVars, lock, job, dirty, live>>

\* Bug: the cache not read again under the lock.
BugAskAtOnce(c) ==
  /\ GoTo(c, "missed", "asking")
  /\ lock[job[c]] = None
  /\ key # None /\ cert # None
  /\ lock' = [lock EXCEPT ![job[c]] = c]
  /\ UNCHANGED <<rowVars, job, dirty, live>>

\* _authenticate signs the request from the row as it is now and sends it.
Ask(c) ==
  /\ GoTo(c, "missed", "asking")
  /\ lock[job[c]] = None
  /\ ~Cached(job[c])
  /\ key # None /\ cert # None
  /\ lock' = [lock EXCEPT ![job[c]] = c]
  /\ UNCHANGED <<rowVars, job, dirty, live>>

\* The certificate was revoked since the caller checked it.
CannotSign(c) ==
  /\ pc[c] = "missed"
  /\ lock[job[c]] = None
  /\ ~Cached(job[c])
  /\ key = None \/ cert = None
  /\ Abandon(c)

\* A fault, no connection, no answer in time, or an answer without credentials.
LoginFails(c) ==
  /\ pc[c] \in {"asking", "granted"}
  /\ Abandon(c)

\* The ticket's cache entry is committed and the credentials returned.
Store(c, left) ==
  /\ pc[c] = "granted"
  /\ ~dirty[c]
  /\ cache' = [cache EXCEPT ![job[c]] = left]
  /\ Leave(c, "served")
  /\ dirty' = [v \in Callers |-> v # c /\ (dirty[v] \/ Snapshotted(v))]
  /\ UNCHANGED <<certState, key, cert, certLeft, job, live>>

\* Bug: the row written whatever was committed since the snapshot.
BugStoreBlindly(c) ==
  /\ pc[c] = "granted"
  /\ cache' = [cache EXCEPT ![job[c]] = live[job[c]]]
  /\ Leave(c, "served")
  /\ dirty' = [v \in Callers |-> v # c /\ (dirty[v] \/ Snapshotted(v))]
  /\ UNCHANGED <<certState, key, cert, certLeft, job, live>>

\* Bug: the cache rides on the caller's transaction, which may roll back.
BugStoreWithCaller(c) ==
  \/ Store(c, live[job[c]])
  \/ pc[c] = "granted" /\ Leave(c, "served") /\ UNCHANGED <<rowVars, job, dirty, live>>

StoreTicket(c) == Store(c, live[job[c]])

\* Bug: a ticket without an expiry kept for longer than ARCA grants.
BugStoreForLonger(c) == Store(c, Lifetime + 1)

\* ARCA's expirationTime is missing or unreadable: one hour is assumed.
StoreWithoutExpiry(c) == Store(c, ShortLife)

\* The row was rewritten since the snapshot: the ticket is lost.
StoreRefused(c) ==
  /\ pc[c] = "granted"
  /\ dirty[c]
  /\ Abandon(c)

\* ArcaBusinessError: ARCA says a valid ticket exists already.
GiveUp(c) == pc[c] = "refused" /\ Abandon(c)

\* The caller makes its call with the credentials and returns.
Use(c) == pc[c] = "served" /\ Abandon(c)

\* The process dies.
Crash(c) == pc[c] # "idle" /\ Abandon(c)

-----------------------------------------------------------------------------
(* WSAA (external) and time *)

WsaaGrants(c) ==
  /\ GoTo(c, "asking", "granted")
  /\ certLeft > 0
  /\ live[job[c]] = 0
  /\ live' = [live EXCEPT ![job[c]] = Lifetime]
  /\ UNCHANGED <<rowVars, lock, job, dirty>>

\* "El CEE ya posee un TA valido"
WsaaAlready(c) ==
  /\ GoTo(c, "asking", "refused")
  /\ live[job[c]] > 0
  /\ UNCHANGED <<rowVars, lock, job, dirty, live>>

Less(n) == IF n = 0 THEN 0 ELSE n - 1

\* A unit of time passes.  An answer on its way arrives or times out first.
Tick ==
  /\ \A c \in Callers : pc[c] # "granted"
  /\ certLeft' = Less(certLeft)
  /\ cache' = [s \in Services |-> Less(cache[s])]
  /\ live' = [s \in Services |-> Less(live[s])]
  /\ UNCHANGED <<certState, key, cert, callerVars>>

-----------------------------------------------------------------------------
CertificateStep ==
  \/ \E k \in Keys : GenerateKeyAndCsr(k)
  \/ \E k \in Keys, left \in 0..Validity : ProcessCertificate(k, left)
  \/ Revoke
  \/ CronExpire

TicketStep(c) ==
  \/ \E s \in Services : ServeCached(c, s) \/ Miss(c, s)
  \/ Busy(c) \/ ServeAfterAll(c) \/ Ask(c) \/ CannotSign(c)
  \/ WsaaGrants(c) \/ WsaaAlready(c)
  \/ StoreTicket(c) \/ StoreRefused(c) \/ GiveUp(c) \/ Use(c)

Next ==
  \/ CertificateStep
  \/ \E c \in Callers :
       TicketStep(c) \/ StoreWithoutExpiry(c) \/ LoginFails(c) \/ Crash(c)
  \/ Tick

Spec == Init /\ [][Next]_vars

\* Nothing fails: no crash, no lost answer, no change of certificate.
NextCalm ==
  \/ \E k \in Keys : GenerateKeyAndCsr(k)
  \/ certState = "csr_generated" /\ \E k \in Keys : ProcessCertificate(k, Validity)
  \/ \E c \in Callers : TicketStep(c)
  \/ Tick
SpecCalm == Init /\ [][NextCalm]_vars

-----------------------------------------------------------------------------
(* Properties *)

TypeOK ==
  /\ certState \in CertStates
  /\ key \in Keys \cup {None}
  /\ cert \in Keys \cup {None}
  /\ certLeft \in 0..Validity
  /\ cache \in [Services -> Nat]
  /\ lock \in [Services -> Callers \cup {None}]
  /\ pc \in [Callers -> {"idle", "missed", "asking", "granted", "refused", "served"}]
  /\ job \in [Callers -> Services \cup {None}]
  /\ dirty \in [Callers -> BOOLEAN]
  /\ live \in [Services -> 0..Lifetime]

\* A caller never asks WSAA for a ticket the cache already has, however many
\* missed it at the same time.
NoNeedlessLogin == \A c \in Callers : pc[c] = "asking" => ~Cached(job[c])

\* The cache never believes a ticket longer-lived than ARCA does, through
\* renewals, new certificates and answers without an expiry.
CacheWithinTicket == \A s \in Services : cache[s] <= live[s]

\* A certificate out of use holds no tickets, and a revoked one no key, even
\* when it leaves use while a login is under way.
SecretsGoWithUse ==
  /\ certState \in {"expired", "revoked"} => cache = NoTickets
  /\ certState = "revoked" => key = None

\* A certificate in use has the key it was issued for.
PairMatches == certState \in {"active", "expired"} => key # None /\ cert = key

\* The key ARCA was given a CSR for is never replaced, only removed for good.
KeyIsKept == [][key # None => key' = key \/ certState' = "revoked"]_vars

\* A revoked certificate never comes back, not even by uploading one again.
RevokedIsFinal == [][certState = "revoked" => certState' = "revoked"]_vars

\* Credentials are handed out only of a ticket that outlives the margin.
ServedIsLive ==
  [][\A c \in Callers : pc[c] # "served" /\ pc'[c] = "served" =>
       live[job'[c]] > Margin]_vars

\* The database has the ticket ARCA considers live, or a login is about to store it.
Known(s) ==
  \/ cache[s] = live[s]
  \/ \E c \in Callers : pc[c] = "granted" /\ job[c] = s

\* The login that obtained the ticket ends without it, or is not told its expiry.
LoginLosesIt(s) ==
  \E c \in Callers :
    pc[c] = "granted" /\ job[c] = s /\ (pc'[c] = "idle" \/ cache'[s] = ShortLife)

\* The certificate goes out of use, or the same one is uploaded again.
RowLosesIt ==
  cache' = NoTickets /\ (certState' \in {"expired", "revoked"} \/ cert' = cert)

\* The database loses a ticket that ARCA still considers live in two ways only:
\* with the login that obtained it, before anybody used it, or with all the
\* others of its certificate.  A ticket once stored survives the callers that
\* use it, their crashes, and the logins of the other service, which write the
\* same row.
TicketIsKept ==
  [][\A s \in Services : Known(s) /\ ~Known(s)' => LoginLosesIt(s) \/ RowLosesIt]_vars

-----------------------------------------------------------------------------
(* What the repository says and the code does not do *)

\* A ticket about to expire is renewed early, without anybody's intervention:
\* as long as nothing fails, ARCA grants every login.
LoginIsGranted == \A c \in Callers : pc[c] # "refused"
=============================================================================
