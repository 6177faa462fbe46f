---------------------------- MODULE Homologation ----------------------------
(***************************************************************************)
(* The configuration of one database: its certificates, which of them each *)
(* company uses, and what prepares it for homologation.                    *)
(*                                                                         *)
(* tools/arca_homologation_bootstrap.py is one transaction that reads the  *)
(* database as it was when it began (REPEATABLE READ), aborts or writes,   *)
(* and commits at its very end.  It is two steps here: StartBootstrap      *)
(* reads and decides what is to be written, its plan; CommitBootstrap      *)
(* writes it, unless a row of the plan was rewritten meanwhile.  Users and *)
(* the expiry job act in between, and so does another bootstrap.  What     *)
(* tools/arca_homologation_runner.py requires is Preflight.                *)
(***************************************************************************)
EXTENDS Naturals, FiniteSets

CONSTANTS
  Certs,      \* ids of l10n_ar.arca.certificate, each used once
  Companies,
  Keys,       \* private keys; a certificate is named by its key
  Codes,      \* commit ids of the addon
  Runs,       \* runs of the bootstrap
  None,
  MaxActs     \* bounds what users and time do

ASSUME HomologationAssumption ==
  /\ None \notin Certs \cup Companies \cup Keys \cup Codes
  /\ MaxActs \in Nat

VARIABLES
  schema,  \* "old": 19.0.2, material in attachments; "columns": 19.0.3 on
  cert,    \* the certificates' rows
  legacy,  \* certificates whose material is still in attachments
  link,    \* l10n_ar_arca_certificate_id of a company
  auto,    \* companies with l10n_ar_arca_auto_request_cae
  pin,     \* what __arca_homologation__.certificate names
  sha,     \* l10n_ar_arca_edi.installed_sha
  plan,    \* what a bootstrap under way will write
  touched, \* rows rewritten since a bootstrap began
  seeded,  \* certificates the bootstrap created (history)
  acts

config == <<schema, cert, legacy, link, auto, pin, sha>>
vars   == <<config, plan, touched, seeded, acts>>

CertStates == {"none", "draft", "csr_generated", "active", "expired", "revoked",
               "deleted"}
Row == [state : CertStates, owner : Companies \cup {None}, env : {"testing", "production"},
        key : Keys \cup {None}, crt : Keys \cup {None}, ticket : BOOLEAN,
        hand : BOOLEAN]  \* its certificate was saved in the form (history)

\* The rows transactions conflict on; the parameter has one too.
ShaRow == "installed_sha"
Rows   == Certs \cup Companies \cup {ShaRow}

Plan == [company : Companies, cert : Certs, new : BOOLEAN,
         key : Keys \cup {None}, crt : Keys \cup {None},
         link : BOOLEAN, quiet : SUBSET Companies, sha : Codes,
         writes : SUBSET Rows]

Exists(c) == cert[c].state \notin {"none", "deleted"}
Existing  == {c \in Certs : Exists(c)}
Under     == {b \in Runs : plan[b] # None}
Fresh     == {c \in Certs : cert[c].state = "none" /\ \A b \in Under : plan[b].cert # c}
Free      == {k \in Keys : \A c \in Certs : k \notin {cert[c].key, cert[c].crt}}

\* Rows R are rewritten: the bootstraps under way cannot write them any more.
Touch(R) == touched' = [b \in Runs |-> IF plan[b] = None THEN {} ELSE touched[b] \cup R]

\* A database that had the addon before its material moved to columns, with at
\* most one certificate, or one that never had it.
Init ==
  /\ schema \in {"old", "columns"}
  /\ cert \in [Certs -> {[state |-> s, owner |-> o, env |-> "testing",
                          key |-> None, crt |-> None, ticket |-> FALSE, hand |-> FALSE] :
                         s \in {"none", "draft", "csr_generated", "active"},
                         o \in Companies \cup {None}}]
  /\ \A c \in Certs : Exists(c) <=> cert[c].owner # None
  /\ \A c, d \in Existing : c = d
  /\ schema = "columns" => Existing = {}
  /\ legacy = {c \in Certs : cert[c].state \in {"csr_generated", "active"}}
  /\ link = [o \in Companies |-> None]
  /\ auto \in SUBSET Companies
  /\ pin = None
  /\ sha = None
  /\ plan = [b \in Runs |-> None]
  /\ touched = [b \in Runs |-> {}]
  /\ seeded = {}
  /\ acts = 0

-----------------------------------------------------------------------------
(* The upgrade to 19.0.3.0.0 *)

\* Bug: the upgrade does not look for attachments.
BugUpgrade ==
  /\ schema = "old"
  /\ schema' = "columns"
  /\ Touch({})
  /\ UNCHANGED <<cert, legacy, link, auto, pin, sha, plan, seeded, acts>>

\* pre-migrate.py: refused while any attachment holds material.  The new
\* columns are empty.
Upgrade ==
  /\ schema = "old"
  /\ legacy = {}
  /\ schema' = "columns"
  /\ Touch({})
  /\ UNCHANGED <<cert, legacy, link, auto, pin, sha, plan, seeded, acts>>

-----------------------------------------------------------------------------
(* The bootstrap *)

\* find_or_create_certificate: the pinned certificate, whoever's it is; or a
\* new one, if the company has none.
Seed(o, c) ==
  \/ c = pin
  \/ /\ pin = None
     /\ \A d \in Existing : cert[d].owner # o
     /\ c \in Fresh

\* Bug: verify_key_pair is left to action_process_certificate.
BugMaterial(c, k, x, key, crt) ==
  /\ key = IF cert[c].key = None THEN k ELSE None
  /\ crt = IF cert[c].crt = None THEN x ELSE None
  /\ crt # None => crt \in {cert[c].key, key}
  /\ cert[c].key # None \/ key # None
  /\ cert[c].crt # None \/ crt # None

\* Bug: what the operator brings replaces what is there.
BugOverwrite(c, k, x, key, crt) ==
  /\ key = k /\ crt = x
  /\ k = x /\ k # None

\* load_material and verify_key_pair: of what the operator brings, key k and
\* certificate x, only what is absent is loaded; the outcome is a pair.
Material(c, k, x, key, crt) ==
  /\ key = IF cert[c].key = None THEN k ELSE None
  /\ crt = IF cert[c].crt = None THEN x ELSE None
  /\ LET finalKey == IF key = None THEN cert[c].key ELSE key
         finalCrt == IF crt = None THEN cert[c].crt ELSE crt
     IN  finalKey # None /\ finalKey = finalCrt

\* link_company: set unless it is already so, and only to one's own.
Linking(o, c, new) ==
  /\ link[o] \in {None, c}
  /\ ~new /\ link[o] = None => cert[c].owner = o

\* disable_auto_request: every company where it is on.
ToSilence(o) == auto

\* What a bootstrap for company o writes: everything the script decides, from
\* one snapshot.
PlanFor(o, c, key, crt, v) ==
  LET new == pin = None
  IN  [company |-> o, cert |-> c, new |-> new, key |-> key, crt |-> crt,
       link |-> link[o] = None, quiet |-> ToSilence(o), sha |-> v,
       writes |-> ToSilence(o)
                  \cup {o2 \in {o} : link[o] = None}
                  \cup {c2 \in {c} : new \/ key # None \/ crt # None}
                  \cup {r \in {ShaRow} : sha # v}]

\* The certificate, the key and the certificate file that a run for company o
\* by code v settles on, from what the operator brings: key k, certificate x.
\* Refused with a certificate that is not for testing, or with attachments.
Decide(b, o, c, k, x, v) ==
  \E key, crt \in Keys \cup {None} :
    /\ Seed(o, c)
    /\ pin # None => cert[c].env = "testing"
    /\ Material(c, k, x, key, crt)
    /\ Linking(o, c, pin = None)
    /\ c \notin legacy
    /\ plan' = [plan EXCEPT ![b] = PlanFor(o, c, key, crt, v)]

\* main, up to the commit: refused before the upgrade.
StartBootstrap(b) ==
  /\ plan[b] = None
  /\ schema = "columns"
  /\ \E o \in Companies, c \in Certs, v \in Codes :
       \E k, x \in Keys \cup {None} : Decide(b, o, c, k, x, v)
  /\ UNCHANGED <<config, touched, seeded, acts>>

NewDraft(o, e) == [state |-> "draft", owner |-> o, env |-> e,
                   key |-> None, crt |-> None, ticket |-> FALSE, hand |-> FALSE]

\* The row of a plan's certificate as it leaves it.  Processing a certificate
\* makes it active and drops its tickets; loading a key does neither.
Seeded(p) ==
  LET old == IF p.new THEN NewDraft(p.company, "testing") ELSE cert[p.cert]
  IN  [old EXCEPT !.key = IF p.key = None THEN @ ELSE p.key,
                  !.crt = IF p.crt = None THEN @ ELSE p.crt,
                  !.state = IF p.crt = None THEN @ ELSE "active",
                  !.ticket = IF p.crt = None THEN @ ELSE FALSE,
                  !.hand = IF p.crt = None THEN @ ELSE FALSE]

\* A commit is refused if a row it writes was rewritten, if the external
\* identifier it creates exists, if the certificate it links is gone.
Committable(b) ==
  /\ plan[b].writes \cap touched[b] = {}
  /\ plan[b].new => pin = None
  /\ plan[b].link /\ ~plan[b].new => Exists(plan[b].cert)

\* Bug: the certificate is created and not pinned.
BugPinned(p) == pin

\* The external identifier after a plan.
Pinned(p) == IF p.new THEN p.cert ELSE pin

CommitBootstrap(b) ==
  LET p == plan[b]
  IN  /\ p # None
      /\ Committable(b)
      /\ cert' = [cert EXCEPT ![p.cert] = IF p.cert \in p.writes THEN Seeded(p) ELSE @]
      /\ link' = IF p.link THEN [link EXCEPT ![p.company] = p.cert] ELSE link
      /\ auto' = auto \ p.quiet
      /\ pin' = Pinned(p)
      /\ sha' = IF ShaRow \in p.writes THEN p.sha ELSE sha
      /\ seeded' = IF p.new THEN seeded \cup {p.cert} ELSE seeded
      /\ plan' = [plan EXCEPT ![b] = None]
      /\ touched' = [b2 \in Runs |-> IF b2 = b \/ plan[b2] = None THEN {}
                                     ELSE touched[b2] \cup p.writes]
      /\ UNCHANGED <<schema, legacy, acts>>

\* Refused, aborted or killed: nothing is written.
DropBootstrap(b) ==
  /\ plan[b] # None
  /\ plan' = [plan EXCEPT ![b] = None]
  /\ touched' = [touched EXCEPT ![b] = {}]
  /\ UNCHANGED <<config, seeded, acts>>

-----------------------------------------------------------------------------
(* Users, the expiry job and the services, with the addon in columns *)

Act(R) == /\ schema = "columns"
          /\ acts < MaxActs
          /\ acts' = acts + 1
          /\ Touch(R)
          /\ UNCHANGED <<schema, legacy, sha, plan, seeded>>

\* A certificate made in its form, or by duplicating another.
CreateCertificate(c, o, e) ==
  /\ c \in Fresh
  /\ Act({c})
  /\ cert' = [cert EXCEPT ![c] = NewDraft(o, e)]
  /\ UNCHANGED <<link, auto, pin>>

\* action_create of the wizard: the company uses it at once.
CreateInWizard(c, o, e) ==
  /\ c \in Fresh
  /\ Act({c, o})
  /\ cert' = [cert EXCEPT ![c] = NewDraft(o, e)]
  /\ link' = [link EXCEPT ![o] = c]
  /\ UNCHANGED <<auto, pin>>

\* The form of a draft: another company, another environment.
EditDraft(c, o, e) ==
  /\ cert[c].state = "draft"
  /\ Act({c})
  /\ cert' = [cert EXCEPT ![c].owner = o, ![c].env = e]
  /\ UNCHANGED <<link, auto, pin>>

\* Bug: the state does not follow the key.
BugGenerateKey(c) ==
  /\ cert[c].state = "draft"
  /\ Act({c})
  /\ \E k \in Free : cert' = [cert EXCEPT ![c].key = k]
  /\ UNCHANGED <<link, auto, pin>>

\* action_generate_key_and_csr.
GenerateKey(c) ==
  /\ cert[c].state = "draft"
  /\ Act({c})
  /\ \E k \in Free : cert' = [cert EXCEPT ![c].key = k, ![c].state = "csr_generated"]
  /\ UNCHANGED <<link, auto, pin>>

\* action_process_certificate, from its wizard: in any state that has a key.
ProcessCertificate(c) ==
  /\ Exists(c) /\ cert[c].key # None
  /\ Act({c})
  /\ cert' = [cert EXCEPT ![c].crt = cert[c].key, ![c].state = "active",
                          ![c].ticket = FALSE, ![c].hand = FALSE]
  /\ UNCHANGED <<link, auto, pin>>

\* The form of any certificate: its file is replaced, or emptied, and compared
\* with nothing.
SaveInForm(c, x) ==
  /\ Exists(c)
  /\ x # cert[c].crt
  /\ Act({c})
  /\ cert' = [cert EXCEPT ![c].crt = x, ![c].hand = TRUE]
  /\ UNCHANGED <<link, auto, pin>>

\* action_revoke drops the key, not the certificate.
Revoke(c) ==
  /\ Exists(c)
  /\ Act({c})
  /\ cert' = [cert EXCEPT ![c].state = "revoked", ![c].key = None, ![c].ticket = FALSE]
  /\ UNCHANGED <<link, auto, pin>>

\* _cron_check_certificate_expiration.
Expire(c) ==
  /\ cert[c].state = "active"
  /\ Act({c})
  /\ cert' = [cert EXCEPT ![c].state = "expired", ![c].ticket = FALSE]
  /\ UNCHANGED <<link, auto, pin>>

\* A login whose ticket is cached (WsaaTickets): WSAA grants it to a pair.
CacheTicket(c) ==
  /\ cert[c].state = "active" /\ cert[c].key # None /\ cert[c].crt = cert[c].key
  /\ Act({c})
  /\ cert' = [cert EXCEPT ![c].ticket = TRUE]
  /\ UNCHANGED <<link, auto, pin>>

\* An administrator deletes it; its external identifier goes with it, and the
\* companies that used it use none.
Delete(c) ==
  /\ Exists(c)
  /\ Act({c} \cup {o \in Companies : link[o] = c})
  /\ cert' = [cert EXCEPT ![c] = [@ EXCEPT !.state = "deleted", !.key = None,
                                           !.crt = None, !.ticket = FALSE, !.hand = FALSE]]
  /\ link' = [o \in Companies |-> IF link[o] = c THEN None ELSE link[o]]
  /\ pin' = IF pin = c THEN None ELSE pin
  /\ UNCHANGED auto

\* The settings: a certificate of the company's (the constraint of res.company),
\* or none.
Choose(o, c) ==
  /\ c # None => Exists(c) /\ cert[c].owner = o
  /\ c # link[o]
  /\ Act({o})
  /\ link' = [link EXCEPT ![o] = c]
  /\ UNCHANGED <<cert, auto, pin>>

\* The settings: automatic requests on or off.
SwitchAuto(o) ==
  /\ Act({o})
  /\ auto' = IF o \in auto THEN auto \ {o} ELSE auto \cup {o}
  /\ UNCHANGED <<cert, link, pin>>

-----------------------------------------------------------------------------
Next ==
  \/ Upgrade
  \/ \E b \in Runs : StartBootstrap(b) \/ CommitBootstrap(b) \/ DropBootstrap(b)
  \/ \E c \in Certs, o \in Companies, e \in {"testing", "production"} :
       CreateCertificate(c, o, e) \/ CreateInWizard(c, o, e) \/ EditDraft(c, o, e)
  \/ \E c \in Certs : \/ GenerateKey(c) \/ ProcessCertificate(c) \/ Revoke(c)
                      \/ Expire(c) \/ CacheTicket(c) \/ Delete(c)
                      \/ \E x \in Keys \cup {None} : SaveInForm(c, x)
  \/ \E o \in Companies : SwitchAuto(o) \/ (\E c \in Certs \cup {None} : Choose(o, c))

Spec == Init /\ [][Next]_vars

-----------------------------------------------------------------------------
(* The runner *)

\* run_preflight, of a process that runs code v over an encrypted connection.
Preflight(v) ==
  /\ schema = "columns"
  /\ sha = v
  /\ auto = {}
  /\ \E c \in Certs : /\ Existing = {c}
                      /\ cert[c].env = "testing"
                      /\ cert[c].key # None /\ cert[c].crt # None
                      /\ c \notin legacy

-----------------------------------------------------------------------------
(* Properties *)

TypeOK ==
  /\ schema \in {"old", "columns"}
  /\ cert \in [Certs -> Row]
  /\ legacy \subseteq Certs
  /\ link \in [Companies -> Certs \cup {None}]
  /\ auto \subseteq Companies
  /\ pin \in Certs \cup {None}
  /\ sha \in Codes \cup {None}
  /\ plan \in [Runs -> Plan \cup {None}]
  /\ touched \in [Runs -> SUBSET Rows]
  /\ seeded \subseteq Certs
  /\ acts \in 0..MaxActs
  /\ \A c \in Certs : cert[c].state \in {"none", "draft", "deleted"} /\ ~cert[c].hand =>
       cert[c].key = None /\ cert[c].crt = None /\ ~cert[c].ticket

\* The certificate that the bootstrap created is the one its external identifier
\* names, as long as it exists: two bootstraps at once, or one after the other,
\* do not leave a certificate beside it.
SeedIsPinned == \A c \in seeded : Exists(c) => pin = c

\* "Re-running must never cost a ticket": whatever happened since it read the
\* database, a bootstrap that commits replaces no key and no certificate, and
\* takes no cached ticket away, but that of a certificate emptied in the form.
NothingOverwritten ==
  [][\A b \in Runs, c \in Existing : CommitBootstrap(b) =>
       /\ cert[c].key # None => cert'[c].key = cert[c].key
       /\ cert[c].crt # None => cert'[c].crt = cert[c].crt
       /\ cert[c].ticket /\ ~cert[c].hand => cert'[c].ticket]_vars

\* Through the upgrade, the wizards and the bootstrap: a certificate that says
\* it is active has both halves where the addon reads them; and two halves in
\* one row are always a pair, whatever the state says.  Only the form, which
\* compares nothing, makes it otherwise.
ActiveCanSign ==
  schema = "columns" =>
    \A c \in Certs : ~cert[c].hand =>
      /\ cert[c].state = "active" => cert[c].key # None /\ cert[c].crt # None
      /\ cert[c].key # None /\ cert[c].crt # None => cert[c].key = cert[c].crt

\* The two scripts agree: a bootstrap with which nobody interfered leaves a
\* database that the runner accepts for the same code, if no certificate was
\* there but the bootstrap's; and then its key and certificate are a pair,
\* whatever the form had left there.
ReadyIsAccepted ==
  [][\A b \in Runs, v \in Codes :
       /\ CommitBootstrap(b)
       /\ plan[b].sha = v /\ touched[b] = {} /\ Existing \subseteq {plan[b].cert}
       => /\ Preflight(v)'
          /\ cert'[plan[b].cert].key = cert'[plan[b].cert].crt]_vars
=============================================================================
