---------------------------- MODULE ArcaProtocol ----------------------------
(***************************************************************************)
(* The fiscal protocol of l10n_ar_arca_edi: how an Odoo invoice asks ARCA  *)
(* (the Argentine tax agency) for its CAE, and how a request whose answer  *)
(* was lost is settled afterwards.                                         *)
(*                                                                         *)
(* One step of the model is what happens between two moments at which the  *)
(* code can be interrupted: a commit, an exchange with ARCA, a lock        *)
(* attempt.  A PostgreSQL transaction runs under Odoo's REPEATABLE READ:   *)
(* its writes appear at its commit, and the commit fails when another      *)
(* transaction has rewritten the row since the snapshot (dirty).           *)
(***************************************************************************)
EXTENDS Naturals

CONSTANTS
  Moves,       \* the electronic invoices (account.move)
  Attempts,    \* identities of l10n_ar.arca.attempt rows; bounds the requests
  Workers,     \* RPCs, cron jobs and after-commit hooks that may run at once
  Sequences,   \* numbering sequences: issuing CUIT, point of sale, type
  Companies,   \* Odoo companies
  SeqOf,       \* the sequence an invoice is numbered in
  NumberOf,    \* its number in that sequence
  CompanyOf,   \* its company
  None         \* no worker, no attempt, no voucher

ASSUME ConstantsAssumption ==
  /\ SeqOf \in [Moves -> Sequences]
  /\ NumberOf \in [Moves -> Nat \ {0}]
  /\ CompanyOf \in [Moves -> Companies]
  /\ None \notin Moves \cup Attempts \cup Workers

VARIABLES
  \* the database, as committed
  doc,         \* account.move state: draft or posted
  arcaState,   \* account.move l10n_ar_arca_state
  moveCae,     \* account.move l10n_ar_arca_cae
  attState,    \* attempt state; "none" while the row does not exist
  attMove,     \* attempt move_id
  attCae,      \* attempt cae
  stale,       \* the attempt's sent_at is older than STALE_ATTEMPT_MINUTES
  \* the processes that run the protocol
  lock,        \* holder of each sequence's advisory lock
  pc,          \* where each worker is
  job,         \* the invoice it works for
  tried,       \* the attempt it works on
  found,       \* the voucher its FECompConsultar returned
  dirty,       \* its transaction can no longer commit a write to its invoice
  \* ARCA and the network
  flight,      \* requests on their way to ARCA
  reply,       \* ARCA's verdict on a request: none, A(pproved), R(ejected)
  issued,      \* requests ARCA authorized; a voucher's CAE is its request
  last         \* FECompUltimoAutorizado of each sequence

dbVars     == <<doc, arcaState, moveCae, attState, attMove, attCae, stale>>
workerVars == <<lock, pc, job, tried, found, dirty>>
arcaVars   == <<flight, reply, issued, last>>
vars       == <<dbVars, workerVars, arcaVars>>

MoveStates    == {"not_required", "pending", "processing", "authorized",
                  "rejected", "uncertain"}
AttemptStates == {"sent", "authorized", "rejected", "uncertain", "aborted"}
OpenStates    == {"sent", "uncertain"}

-----------------------------------------------------------------------------
(* What the code asks of a state *)

\* Bug: an uncertain invoice counted among AUTHORIZABLE_STATES.
BugUncertainIsReady(m) ==
  doc[m] = "posted" /\ arcaState[m] \in {"pending", "rejected", "uncertain"}

\* _l10n_ar_arca_check_ready: posted, and in one of AUTHORIZABLE_STATES.
CheckReady(m) == doc[m] = "posted" /\ arcaState[m] \in {"pending", "rejected"}

\* Attempts whose outcome is still unknown.
IsOpen(a) == attState[a] \in OpenStates

\* Bug: the number left out of the voucher's key.
BugSameSequence(m, n) == SeqOf[m] = SeqOf[n]

SameCoordinates(m, n) == SeqOf[m] = SeqOf[n] /\ NumberOf[m] = NumberOf[n]

\* _authorized_document_uniq: writing "authorized" on attempt a breaks no
\* index entry.  The index is scoped by company.
IndexAllows(a) ==
  \A b \in Attempts \ {a} :
    ~ /\ attState[b] = "authorized"
      /\ SameCoordinates(attMove[a], attMove[b])
      /\ CompanyOf[attMove[a]] = CompanyOf[attMove[b]]

\* The program points at which a worker has a transaction with a snapshot that
\* it will write from.  At "evidence" the checkpoint has just ended one
\* transaction and the next has read nothing yet.
Snapshotted(w) == pc[w] \in {"locked", "checked", "waiting", "consult", "apply"}

\* A commit of worker w (None: a user's own request) rewrote invoice m: every
\* other transaction that read it before can no longer write it.
Rewrite(m, w) ==
  dirty' = [v \in Workers |->
              v # w /\ (dirty[v] \/ (Snapshotted(v) /\ job[v] = m))]

\* Bug: a session lock that survives the rollback of its connection.
BugKeepLock(w) == lock' = lock

\* fiscal_transaction's exit: the worker's connections close, PostgreSQL
\* drops its advisory lock.
FreeLock(w) == lock' = [s \in Sequences |-> IF lock[s] = w THEN None ELSE lock[s]]

Finish(w) ==
  /\ pc' = [pc EXCEPT ![w] = "idle"]
  /\ job' = [job EXCEPT ![w] = None]
  /\ tried' = [tried EXCEPT ![w] = None]
  /\ found' = [found EXCEPT ![w] = None]
  /\ FreeLock(w)

\* The worker ends without committing anything more.
Abandon(w) ==
  /\ Finish(w)
  /\ dirty' = [dirty EXCEPT ![w] = FALSE]
  /\ UNCHANGED <<dbVars, arcaVars>>

GoTo(w, from, to) == pc[w] = from /\ pc' = [pc EXCEPT ![w] = to]

\* Bug: the result of pg_try_advisory_xact_lock not looked at.
BugLockResultIgnored(w) == TRUE

\* pg_try_advisory_xact_lock on the sequence of the worker's invoice.
LockFree(w) == lock[SeqOf[job[w]]] = None
Lock(w)     == lock' = [lock EXCEPT ![SeqOf[job[w]]] = w]

Init ==
  /\ doc = [m \in Moves |-> "draft"]
  /\ arcaState = [m \in Moves |-> "not_required"]
  /\ moveCae = [m \in Moves |-> None]
  /\ attState = [a \in Attempts |-> "none"]
  /\ attMove = [a \in Attempts |-> None]
  /\ attCae = [a \in Attempts |-> None]
  /\ stale = [a \in Attempts |-> FALSE]
  /\ lock = [s \in Sequences |-> None]
  /\ pc = [w \in Workers |-> "idle"]
  /\ job = [w \in Workers |-> None]
  /\ tried = [w \in Workers |-> None]
  /\ found = [w \in Workers |-> None]
  /\ dirty = [w \in Workers |-> FALSE]
  /\ flight = {}
  /\ reply = [a \in Attempts |-> "none"]
  /\ issued = {}
  /\ last = [s \in Sequences |-> 0]

-----------------------------------------------------------------------------
(* The user's accounting actions *)

\* _post: the invoice becomes a committed document, pending if it is new.
Post(m) ==
  /\ doc[m] = "draft"
  /\ doc' = [doc EXCEPT ![m] = "posted"]
  /\ arcaState' = [arcaState EXCEPT ![m] = IF @ = "not_required" THEN "pending" ELSE @]
  /\ Rewrite(m, None)
  /\ UNCHANGED <<moveCae, attState, attMove, attCae, stale,
                 lock, pc, job, tried, found, arcaVars>>

\* Bug: reopening resets the fiscal status, of authorized invoices too.
BugDraftResets(m) ==
  /\ doc[m] = "posted"
  /\ arcaState[m] # "uncertain"
  /\ doc' = [doc EXCEPT ![m] = "draft"]
  /\ arcaState' = [arcaState EXCEPT ![m] = "not_required"]
  /\ Rewrite(m, None)
  /\ UNCHANGED <<moveCae, attState, attMove, attCae, stale,
                 lock, pc, job, tried, found, arcaVars>>

\* button_draft: refused for authorized and uncertain invoices only.
Draft(m) ==
  /\ doc[m] = "posted"
  /\ arcaState[m] \notin {"authorized", "uncertain"}
  /\ doc' = [doc EXCEPT ![m] = "draft"]
  /\ Rewrite(m, None)
  /\ UNCHANGED <<arcaState, moveCae, attState, attMove, attCae, stale,
                 lock, pc, job, tried, found, arcaVars>>

-----------------------------------------------------------------------------
(* _l10n_ar_arca_request_cae and _l10n_ar_arca_authorize: the button, the  *)
(* scheduled action and the after-commit hook all run these steps.         *)

\* The first check, on the caller's cursor.
Request(w, m) ==
  /\ CheckReady(m)
  /\ GoTo(w, "idle", "ready")
  /\ job' = [job EXCEPT ![w] = m]
  /\ UNCHANGED <<dbVars, lock, tried, found, dirty, arcaVars>>

\* The lock is taken and the state checked again under it.
StartProtocol(w) ==
  /\ GoTo(w, "ready", "locked")
  /\ LockFree(w)
  /\ CheckReady(job[w])
  /\ Lock(w)
  /\ UNCHANGED <<dbVars, job, tried, found, dirty, arcaVars>>

\* The second check refuses: another worker has finished since the first.
RefuseAgain(w) ==
  /\ pc[w] = "ready"
  /\ LockFree(w)
  /\ ~CheckReady(job[w])
  /\ Abandon(w)

\* ArcaSequenceBusy: pg_try_advisory_xact_lock does not wait.
SequenceBusy(w) ==
  /\ pc[w] \in {"ready", "listed"}
  /\ ~LockFree(w)
  /\ Abandon(w)

\* Bug: the number is not compared with ARCA's.
BugCheckSequenceSkipped(w) ==
  /\ GoTo(w, "locked", "checked")
  /\ UNCHANGED <<dbVars, lock, job, tried, found, dirty, arcaVars>>

\* fe_comp_ultimo_autorizado, then _l10n_ar_arca_check_sequence.
CheckSequence(w) ==
  LET m == job[w] IN
  /\ GoTo(w, "locked", "checked")
  /\ NumberOf[m] = last[SeqOf[m]] + 1
  /\ UNCHANGED <<dbVars, lock, job, tried, found, dirty, arcaVars>>

WrongNumber(w) ==
  /\ pc[w] = "locked"
  /\ NumberOf[job[w]] # last[SeqOf[job[w]]] + 1
  /\ Abandon(w)

\* Bug: only the attempt is committed before the request, or the attempt's
\* state is written on the invoice.
BugRecord(w, a, moveState) ==
  LET m == job[w] IN
  /\ GoTo(w, "checked", "evidence")
  /\ ~dirty[w]
  /\ attState[a] = "none"
  /\ attState' = [attState EXCEPT ![a] = "sent"]
  /\ attMove' = [attMove EXCEPT ![a] = m]
  /\ arcaState' = [arcaState EXCEPT ![m] = moveState]
  /\ tried' = [tried EXCEPT ![w] = a]
  /\ Rewrite(m, w)
  /\ UNCHANGED <<doc, moveCae, attCae, stale, lock, job, found, arcaVars>>
BugRecordAttemptOnly(w, a)  == BugRecord(w, a, arcaState[job[w]])
BugRecordWrongState(w, a)   == BugRecord(w, a, "sent")

\* The attempt and "processing" are committed before anything is sent.
RecordAttempt(w, a) ==
  LET m == job[w] IN
  /\ GoTo(w, "checked", "evidence")
  /\ ~dirty[w]
  /\ attState[a] = "none"
  /\ attState' = [attState EXCEPT ![a] = "sent"]
  /\ attMove' = [attMove EXCEPT ![a] = m]
  /\ arcaState' = [arcaState EXCEPT ![m] = "processing"]
  /\ tried' = [tried EXCEPT ![w] = a]
  /\ Rewrite(m, w)
  /\ UNCHANGED <<doc, moveCae, attCae, stale, lock, job, found, arcaVars>>

\* fe_cae_solicitar hands the request to the network.  The transaction takes
\* its snapshot here, reading the certificate.
Send(w) ==
  /\ GoTo(w, "evidence", "waiting")
  /\ flight' = flight \cup {tried[w]}
  /\ UNCHANGED <<dbVars, lock, job, tried, found, dirty, reply, issued, last>>

\* What the protocol commits about its own attempt and invoice at the end.
Conclude(w, attempt, move) ==
  /\ attState' = [attState EXCEPT ![tried[w]] = attempt]
  /\ arcaState' = [arcaState EXCEPT ![job[w]] = move]
  /\ Rewrite(job[w], w)
  /\ Finish(w)
  /\ UNCHANGED <<doc, attMove, stale, arcaVars>>

\* ArcaAborted (no connection, no ticket) or ArcaBusinessError (WSAA fault)
\* before the request leaves.
NeverSent(w) ==
  /\ pc[w] = "evidence"
  /\ \/ Conclude(w, "aborted", "rejected")
     \/ Conclude(w, "rejected", "rejected")
  /\ UNCHANGED <<moveCae, attCae>>

ReceiveCae(w) ==
  LET a == tried[w] IN
  /\ pc[w] = "waiting"
  /\ reply[a] = "A"
  /\ ~dirty[w]
  /\ IndexAllows(a)
  /\ attCae' = [attCae EXCEPT ![a] = a]
  /\ moveCae' = [moveCae EXCEPT ![job[w]] = a]
  /\ Conclude(w, "authorized", "authorized")

\* ArcaBusinessError: ARCA refused the invoice.
ReceiveRefusal(w) ==
  /\ pc[w] = "waiting"
  /\ reply[tried[w]] = "R"
  /\ ~dirty[w]
  /\ Conclude(w, "rejected", "rejected")
  /\ UNCHANGED <<moveCae, attCae>>

\* Bug: a lost answer taken for a refusal.
BugLostIsRefused(w) ==
  /\ pc[w] = "waiting"
  /\ tried[w] \notin flight
  /\ ~dirty[w]
  /\ Conclude(w, "rejected", "rejected")
  /\ UNCHANGED <<moveCae, attCae>>

\* ArcaUncertain: no usable answer, whether or not ARCA acted.
AnswerLost(w) ==
  /\ pc[w] = "waiting"
  /\ tried[w] \notin flight
  /\ ~dirty[w]
  /\ Conclude(w, "uncertain", "uncertain")
  /\ UNCHANGED <<moveCae, attCae>>

\* The same, while ARCA has still to act on the request.
AnswerLostInFlight(w) ==
  /\ pc[w] = "waiting"
  /\ tried[w] \in flight
  /\ ~dirty[w]
  /\ Conclude(w, "uncertain", "uncertain")
  /\ UNCHANGED <<moveCae, attCae>>

-----------------------------------------------------------------------------
(* Reconciliation: _reconcile, and the ways it is started *)

\* Bugs: the age of a sent attempt not looked at; uncertain ones forgotten.
BugList(w, a, condition) ==
  /\ condition
  /\ GoTo(w, "idle", "listed")
  /\ tried' = [tried EXCEPT ![w] = a]
  /\ job' = [job EXCEPT ![w] = attMove[a]]
  /\ UNCHANGED <<dbVars, lock, found, dirty, arcaVars>>
BugListAnyAge(w, a)   == BugList(w, a, IsOpen(a))
BugListOnlySent(w, a) == BugList(w, a, attState[a] = "sent" /\ stale[a])

\* _cron_reconcile_open_attempts selects an attempt.
ListAttempt(w, a) ==
  /\ attState[a] = "uncertain" \/ (attState[a] = "sent" /\ stale[a])
  /\ GoTo(w, "idle", "listed")
  /\ tried' = [tried EXCEPT ![w] = a]
  /\ job' = [job EXCEPT ![w] = attMove[a]]
  /\ UNCHANGED <<dbVars, lock, found, dirty, arcaVars>>

\* Bug: the attempt's state not read again under the lock.
BugReconcileUnchecked(w) ==
  /\ GoTo(w, "listed", "consult")
  /\ LockFree(w)
  /\ Lock(w)
  /\ UNCHANGED <<dbVars, job, tried, found, dirty, arcaVars>>

\* _reconcile_isolated: under the sequence lock, on a fresh snapshot.
StartReconcile(w) ==
  /\ GoTo(w, "listed", "consult")
  /\ LockFree(w)
  /\ IsOpen(tried[w])
  /\ Lock(w)
  /\ UNCHANGED <<dbVars, job, tried, found, dirty, arcaVars>>

\* _reconcile finds the attempt already in a final state.
AlreadySettled(w) ==
  /\ pc[w] = "listed"
  /\ LockFree(w)
  /\ ~IsOpen(tried[w])
  /\ Abandon(w)

\* action_l10n_ar_arca_reconcile and the attempt's action_reconcile: on the
\* caller's cursor, whatever the attempt's age, without the lock.
ManualReconcile(w, a) ==
  /\ IsOpen(a)
  /\ GoTo(w, "idle", "consult")
  /\ tried' = [tried EXCEPT ![w] = a]
  /\ job' = [job EXCEPT ![w] = attMove[a]]
  /\ UNCHANGED <<dbVars, lock, found, dirty, arcaVars>>

\* fe_comp_consultar for the attempt's coordinates.
Consult(w) ==
  LET vouchers == {x \in issued : SameCoordinates(attMove[x], job[w])} IN
  /\ GoTo(w, "consult", "apply")
  /\ \/ vouchers = {} /\ found' = [found EXCEPT ![w] = None]
     \/ \E x \in vouchers : found' = [found EXCEPT ![w] = x]
  /\ UNCHANGED <<dbVars, lock, job, tried, dirty, arcaVars>>

\* ARCA has no such voucher: the attempt is closed, the invoice may try again.
SettleAbsent(w) ==
  /\ pc[w] = "apply"
  /\ found[w] = None
  /\ ~dirty[w]
  /\ Conclude(w, "aborted", "pending")
  /\ UNCHANGED <<moveCae, attCae>>

\* ARCA has the voucher: its CAE is adopted.
SettleFound(w) ==
  /\ pc[w] = "apply"
  /\ found[w] # None
  /\ ~dirty[w]
  /\ IndexAllows(tried[w])
  /\ attCae' = [attCae EXCEPT ![tried[w]] = found[w]]
  /\ moveCae' = [moveCae EXCEPT ![job[w]] = found[w]]
  /\ Conclude(w, "authorized", "authorized")

-----------------------------------------------------------------------------
(* Failures and time *)

\* A process dies, or an exception the protocol does not handle unwinds it:
\* the work transaction rolls back to its last checkpoint.
Crash(w) ==
  /\ pc[w] # "idle"
  /\ Abandon(w)

\* PostgreSQL refuses the commit: the row was rewritten since the snapshot, or
\* the unique index would be broken.
CommitRefused(w) ==
  /\ \/ pc[w] \in {"checked", "waiting", "apply"} /\ dirty[w]
     \/ /\ (pc[w] = "waiting" /\ reply[tried[w]] = "A") \/
           (pc[w] = "apply" /\ found[w] # None)
        /\ ~IndexAllows(tried[w])
  /\ Abandon(w)

\* STALE_ATTEMPT_MINUTES pass.  The window is longer than the timeouts of a
\* request, so by then it has been sent and ARCA has acted on it or lost it.
GoStale(a) ==
  /\ attState[a] = "sent"
  /\ ~stale[a]
  /\ a \notin flight
  /\ \A w \in Workers : ~(pc[w] = "evidence" /\ tried[w] = a)
  /\ stale' = [stale EXCEPT ![a] = TRUE]
  /\ UNCHANGED <<doc, arcaState, moveCae, attState, attMove, attCae,
                 workerVars, arcaVars>>

-----------------------------------------------------------------------------
(* ARCA (external): it authorizes only the next number of a sequence *)

ArcaApproves(a) ==
  LET m == attMove[a] IN
  /\ a \in flight
  /\ NumberOf[m] = last[SeqOf[m]] + 1
  /\ flight' = flight \ {a}
  /\ reply' = [reply EXCEPT ![a] = "A"]
  /\ issued' = issued \cup {a}
  /\ last' = [last EXCEPT ![SeqOf[m]] = NumberOf[m]]
  /\ UNCHANGED <<dbVars, workerVars>>

ArcaRejects(a) ==
  /\ a \in flight
  /\ flight' = flight \ {a}
  /\ reply' = [reply EXCEPT ![a] = "R"]
  /\ UNCHANGED <<dbVars, workerVars, issued, last>>

\* The connection breaks before ARCA acts on the request.
RequestLost(a) ==
  /\ a \in flight
  /\ flight' = flight \ {a}
  /\ UNCHANGED <<dbVars, workerVars, reply, issued, last>>

-----------------------------------------------------------------------------
UserStep == \E m \in Moves : Post(m) \/ Draft(m)

AuthorizeStep(w) ==
  \/ \E m \in Moves : Request(w, m)
  \/ StartProtocol(w) \/ RefuseAgain(w) \/ SequenceBusy(w)
  \/ CheckSequence(w) \/ WrongNumber(w)
  \/ \E a \in Attempts : RecordAttempt(w, a)
  \/ Send(w) \/ NeverSent(w)
  \/ ReceiveCae(w) \/ ReceiveRefusal(w) \/ AnswerLost(w)

ReconcileStep(w) ==
  \/ \E a \in Attempts : ListAttempt(w, a)
  \/ StartReconcile(w) \/ AlreadySettled(w)
  \/ Consult(w) \/ SettleAbsent(w) \/ SettleFound(w)

WorkerStep(w) ==
  AuthorizeStep(w) \/ ReconcileStep(w) \/ Crash(w) \/ CommitRefused(w)

ArcaStep == \E a \in Attempts : ArcaApproves(a) \/ ArcaRejects(a) \/ RequestLost(a)

Next ==
  \/ UserStep
  \/ \E w \in Workers : WorkerStep(w)
  \/ \E a \in Attempts : GoStale(a)
  \/ ArcaStep

\* The protocol as the scheduled actions and the authorization run it.
Spec == Init /\ [][Next]_vars

\* With the two "Reconcile with ARCA" buttons.
NextManual == Next \/ \E w \in Workers, a \in Attempts : ManualReconcile(w, a)
SpecManual == Init /\ [][NextManual]_vars

\* The same, with an ARCA that may act on a request after its sender stopped
\* waiting.
NextFull == NextManual \/ \E w \in Workers : AnswerLostInFlight(w)
SpecFull == Init /\ [][NextFull]_vars

(***************************************************************************)
(* The fairness of the unattended part.  A worker inside the protocol goes *)
(* on, times out or dies (every exchange has a timeout); ARCA or the       *)
(* network disposes of every request; and the reconciler, which the        *)
(* scheduler starts again every 15 minutes whatever became of its last     *)
(* run, is not struck by a failure every single time: strong fairness.     *)
(***************************************************************************)
Fairness ==
  /\ \A w \in Workers :
       /\ WF_vars(pc[w] # "idle" /\ WorkerStep(w))
       /\ SF_vars(StartReconcile(w))
       /\ SF_vars(Consult(w))
       /\ SF_vars(SettleAbsent(w) \/ SettleFound(w))
  /\ \A a \in Attempts :
       /\ SF_vars(\E w \in Workers : ListAttempt(w, a))
       /\ WF_vars(ArcaApproves(a) \/ ArcaRejects(a) \/ RequestLost(a))
       /\ WF_vars(GoStale(a))

FairSpec == Spec /\ Fairness

-----------------------------------------------------------------------------
(* Properties *)

TypeOK ==
  /\ doc \in [Moves -> {"draft", "posted"}]
  /\ arcaState \in [Moves -> MoveStates]
  /\ moveCae \in [Moves -> Attempts \cup {None}]
  /\ attState \in [Attempts -> AttemptStates \cup {"none"}]
  /\ attMove \in [Attempts -> Moves \cup {None}]
  /\ attCae \in [Attempts -> Attempts \cup {None}]
  /\ stale \in [Attempts -> BOOLEAN]
  /\ lock \in [Sequences -> Workers \cup {None}]
  /\ pc \in [Workers -> {"idle", "ready", "locked", "checked", "evidence",
                         "waiting", "listed", "consult", "apply"}]
  /\ job \in [Workers -> Moves \cup {None}]
  /\ tried \in [Workers -> Attempts \cup {None}]
  /\ found \in [Workers -> Attempts \cup {None}]
  /\ dirty \in [Workers -> BOOLEAN]
  /\ flight \subseteq Attempts
  /\ reply \in [Attempts -> {"none", "A", "R"}]
  /\ issued \subseteq Attempts
  /\ last \in [Sequences -> Nat]

Unresolved(m) == arcaState[m] \in {"processing", "uncertain"}

InProtocol(w) ==
  pc[w] \in {"locked", "checked", "evidence", "waiting", "consult", "apply"}

\* At most one worker at a time authorizes or reconciles in a sequence, from
\* before FECompUltimoAutorizado until its outcome is committed, whichever of
\* the others crash, time out or are refused their commit.
MutualExclusion ==
  \A v, w \in Workers :
    InProtocol(v) /\ InProtocol(w) /\ v # w => SeqOf[job[v]] # SeqOf[job[w]]

\* An invoice is "processing" or "uncertain" exactly while the database holds
\* an open attempt for it, and never two: a crash at any point leaves neither
\* an invoice stuck with nothing to reconcile, nor an open attempt on an
\* invoice that may be sent again.
EvidenceOfUnresolved ==
  /\ \A m \in Moves : Unresolved(m) <=> \E a \in Attempts : IsOpen(a) /\ attMove[a] = m
  /\ \A a, b \in Attempts :
       IsOpen(a) /\ IsOpen(b) /\ attMove[a] = attMove[b] => a = b

\* A request that ARCA authorized is never written off: its attempt is open,
\* so it will be reconciled, or says authorized.
VoucherIsTracked ==
  \A a \in issued : attState[a] \in {"sent", "uncertain", "authorized"}

\* An authorized invoice, and no other, carries a CAE, and that CAE is of a
\* voucher that ARCA issued to a request of this very invoice.
CaeIsOwn ==
  \A m \in Moves :
    /\ arcaState[m] = "authorized" => moveCae[m] \in issued /\ attMove[moveCae[m]] = m
    /\ moveCae[m] # None => arcaState[m] = "authorized"

\* Whatever is on its way to ARCA asks for the next number of its sequence:
\* a request delayed past the death of its sender is not overtaken.
RequestsInOrder ==
  \A a \in flight : NumberOf[attMove[a]] = last[SeqOf[attMove[a]]] + 1

\* Once authorized, an invoice stays authorized with the same CAE.
AuthorizedIsFinal ==
  [][\A m \in Moves : arcaState[m] = "authorized" =>
       arcaState'[m] = "authorized" /\ moveCae'[m] = moveCae[m]]_vars

\* A resolved attempt is never resolved a second time, by a late answer or by
\* a reconciler that selected it earlier.
SettledIsFinal ==
  [][\A a \in Attempts : attState[a] \in {"authorized", "rejected", "aborted"} =>
       attState'[a] = attState[a]]_vars

\* The CAE of an authorized invoice is that of a voucher with its number.
CaeIsGenuine ==
  \A m \in Moves : arcaState[m] = "authorized" =>
    LET voucher == attMove[moveCae[m]] IN
    moveCae[m] \in issued /\ SeqOf[voucher] = SeqOf[m] /\ NumberOf[voucher] = NumberOf[m]

\* Users stop reopening invoices and asking for new authorizations.
Quiet == <>[][~(UserStep \/ \E w \in Workers, m \in Moves : Request(w, m))]_vars

\* Every attempt is eventually resolved without anybody pressing a button:
\* after a crash, a lost request or a lost answer.
EveryRequestSettles == Quiet => \A a \in Attempts : []<>~IsOpen(a)

\* No death of a holder leaves a sequence locked for ever.
LockIsReleased == \A s \in Sequences : []<>(lock[s] = None)

\* The invoices as FiscalPromise sees them.
StatusOf(state) == IF state \in {"processing", "uncertain"} THEN "unknown"
                   ELSE IF state = "authorized" THEN "authorized" ELSE "open"
BookStatus == [m \in Moves |-> StatusOf(arcaState[m])]
Vouchers   == {attMove[a] : a \in issued}
Promise    == INSTANCE FiscalPromise WITH status <- BookStatus, vouchers <- Vouchers

\* The protocol keeps the promise of FiscalPromise.
KeepsPromise == Promise!Spec

-----------------------------------------------------------------------------
(* What the repository says of the program and its code does not do *)

\* An invoice ARCA has already authorized is not reopened (button_draft).
AuthorizedIsNeverDraft == \A a \in issued : doc[attMove[a]] = "posted"
=============================================================================
