---------------------------- MODULE ScheduledJobs ----------------------------
(***************************************************************************)
(* The lists of invoices that l10n_ar_arca_edi works through unattended:   *)
(* the scheduled authorization of pending invoices, the scheduled          *)
(* reconciliation of unknown ones, and the hook that runs after the commit *)
(* of a posting.  Each takes a list, at most Limit long when scheduled,    *)
(* and goes through it one by one; a failure concerns its invoice alone.   *)
(*                                                                         *)
(* One step is one invoice: ArcaProtocol is what happens inside it.  An    *)
(* invoice has at most one open attempt (EvidenceOfUnresolved there), so   *)
(* an attempt is named by its invoice, and its age by its turn.            *)
(***************************************************************************)
EXTENDS Naturals, FiniteSets

CONSTANTS
  Moves,         \* the electronic invoices
  Sequences,     \* numbering sequences
  Certificates,  \* l10n_ar.arca.certificate records of the company
  SeqOf,         \* the sequence of an invoice
  NumberOf,      \* its number there: 1, 2, 3...
  RankOf,        \* its place by invoice_date, then name
  Limit,         \* how many records a scheduled job takes: 50
  MaxUpsets      \* bounds what users do, and how often a process dies

ASSUME JobsAssumption ==
  /\ IsFiniteSet(Moves)
  /\ SeqOf \in [Moves -> Sequences]
  /\ NumberOf \in [Moves -> Nat \ {0}]
  /\ RankOf \in [Moves -> Nat]
  /\ Certificates # {}
  /\ Limit \in Nat \ {0}
  /\ MaxUpsets \in Nat

VARIABLES
  posted,     \* invoices in state "posted"
  state,      \* l10n_ar_arca_state
  turn,       \* the open attempt's place among the open ones by id; 0: none
  due,        \* invoices whose open attempt is uncertain, or sent long ago
  askedWith,  \* certificate_id of the invoice's last attempt
  issued,     \* invoices of which ARCA has a voucher
  blocked,    \* invoices whose request cannot be built
  usable,     \* certificates that pass _check_usable
  current,    \* the company's certificate
  list,       \* what each job has still to visit
  upsets      \* what users did and deaths of processes so far

invoiceVars == <<posted, state, turn, due, askedWith, issued>>
setupVars   == <<blocked, usable, current>>
vars        == <<invoiceVars, setupVars, list, upsets>>

\* The two scheduled jobs and the after-commit hook.
Senders == {"authorize", "hook"}
Jobs    == Senders \cup {"reconcile"}

MoveStates == {"not_required", "pending", "processing", "authorized",
               "rejected", "uncertain"}

-----------------------------------------------------------------------------
(* What the code asks of a state *)

Upset == upsets < MaxUpsets /\ upsets' = upsets + 1

IsOpen(m) == turn[m] # 0
Open      == {m \in Moves : IsOpen(m)}

\* _l10n_ar_arca_check_sequence: ARCA issues 1, 2, 3... in each sequence.
IsNext(m) == NumberOf[m] = Cardinality({n \in issued : SeqOf[n] = SeqOf[m]}) + 1

\* Bug: a job trusts its list: the state is not read again under the lock.
BugStateNotRead(m) == /\ m \notin blocked
                      /\ current \in usable
                      /\ IsNext(m)

\* What must hold for the request to leave: _l10n_ar_arca_check_ready under the
\* lock, a certificate that can be used, the next number, a request that can
\* be built.
Sendable(m) == /\ m \in posted
               /\ state[m] \in {"pending", "rejected"}
               /\ m \notin blocked
               /\ current \in usable
               /\ IsNext(m)

\* Bug: the attempts in the order of their model, newest first.
BugNewestFirst(S, key) ==
  {m \in S : Cardinality({n \in S : key[n] > key[m]}) < Limit}

\* search(..., order, limit): the first Limit of S.
Oldest(S, key) == {m \in S : Cardinality({n \in S : key[n] < key[m]}) < Limit}

Init ==
  /\ posted \in SUBSET Moves
  /\ state = [m \in Moves |-> IF m \in posted THEN "pending" ELSE "not_required"]
  /\ turn = [m \in Moves |-> 0]
  /\ due = {}
  /\ askedWith = [m \in Moves |-> CHOOSE c \in Certificates : TRUE]
  /\ issued = {}
  /\ blocked \in SUBSET Moves
  /\ usable = Certificates
  /\ current = CHOOSE c \in Certificates : TRUE
  /\ list = [j \in Jobs |-> {}]
  /\ upsets = 0

-----------------------------------------------------------------------------
(* One invoice asked for, one invoice reconciled *)

\* Bug: the reconciliation answers for the invoice and leaves its attempt
\* among those to be reconciled.
BugStillDue(m) ==
  /\ turn' = [turn EXCEPT ![m] = 0]
  /\ UNCHANGED due

\* The attempt of m is settled: those after it move up, and the reconciler
\* that has it on its list will find nothing to do.
Close(m) ==
  /\ turn' = [n \in Moves |-> IF n = m THEN 0
                              ELSE IF turn[n] > turn[m] THEN turn[n] - 1 ELSE turn[n]]
  /\ due' = due \ {m}

\* A new attempt is the last by id, and remembers its certificate.
OpenAttempt(m) ==
  /\ turn' = [turn EXCEPT ![m] = Cardinality(Open) + 1]
  /\ askedWith' = [askedWith EXCEPT ![m] = current]

SetState(m, s) == state' = [state EXCEPT ![m] = s]

\* ARCA answers: with a CAE, or with a refusal (as does a request that never
\* left).  The attempt is opened and settled within the step.
Answered(m) ==
  /\ Sendable(m)
  /\ \/ SetState(m, "authorized") /\ issued' = issued \cup {m}
     \/ SetState(m, "rejected") /\ UNCHANGED issued
  /\ UNCHANGED <<posted, turn, due, askedWith, setupVars>>

\* Bug: no answer is taken for a refusal.
BugLostIsRefusal(m) ==
  /\ Sendable(m)
  /\ SetState(m, "rejected")
  /\ issued' \in {issued, issued \cup {m}}
  /\ UNCHANGED <<posted, turn, due, askedWith, setupVars>>

\* The answer is lost, whatever ARCA did.
Lost(m) ==
  /\ Sendable(m)
  /\ SetState(m, "uncertain")
  /\ OpenAttempt(m)
  /\ due' = due \cup {m}
  /\ issued' \in {issued, issued \cup {m}}
  /\ UNCHANGED <<posted, setupVars>>

\* The process dies between the checkpoint and the answer.
Interrupted(m) ==
  /\ Sendable(m)
  /\ SetState(m, "processing")
  /\ OpenAttempt(m)
  /\ issued' \in {issued, issued \cup {m}}
  /\ UNCHANGED <<posted, due, setupVars>>

\* Bug: the attempt is aborted and the invoice left as it was.
BugAbsentForgotten(m) ==
  /\ IsOpen(m)
  /\ askedWith[m] \in usable
  /\ IF m \in issued THEN SetState(m, "authorized") ELSE UNCHANGED state
  /\ Close(m)
  /\ UNCHANGED <<posted, askedWith, issued, setupVars>>

\* _reconcile asks with the attempt's certificate, not the company's;
\* _l10n_ar_arca_apply_reconciliation brings the invoice in line.
Reconciled(m) ==
  /\ IsOpen(m)
  /\ askedWith[m] \in usable
  /\ SetState(m, IF m \in issued THEN "authorized" ELSE "pending")
  /\ Close(m)
  /\ UNCHANGED <<posted, askedWith, issued, setupVars>>

-----------------------------------------------------------------------------
(* The jobs *)

\* Whose turn it is in a list.  A hook goes by the order of the posting.
IsFirst(j, m) ==
  /\ m \in list[j]
  /\ j = "authorize" => \A n \in list[j] : RankOf[m] <= RankOf[n]
  /\ j = "reconcile" => \A n \in list[j] : turn[m] <= turn[n]

Pending == {m \in posted : state[m] = "pending"}

\* _cron_l10n_ar_arca_authorize_pending: the search.
StartAuthorizing ==
  /\ list["authorize"] = {}
  /\ Pending # {}
  /\ list' = [list EXCEPT !["authorize"] = Oldest(Pending, RankOf)]
  /\ UNCHANGED <<invoiceVars, setupVars, upsets>>

\* _cron_reconcile_open_attempts: the search.
StartReconciling ==
  /\ list["reconcile"] = {}
  /\ due # {}
  /\ list' = [list EXCEPT !["reconcile"] = Oldest(due, turn)]
  /\ UNCHANGED <<invoiceVars, setupVars, upsets>>

\* The invoice just visited leaves the list; an attempt that was settled
\* leaves the reconciler's too.
Visited(j, m) == list' = [list EXCEPT ![j] = @ \ {m}]

AnswerVisit(j, m) ==
  /\ j \in Senders /\ IsFirst(j, m)
  /\ Answered(m)
  /\ Visited(j, m)
  /\ UNCHANGED upsets

LostVisit(j, m) ==
  /\ j \in Senders /\ IsFirst(j, m)
  /\ Lost(m)
  /\ Visited(j, m)
  /\ UNCHANGED upsets

ReconcileVisit(m) ==
  /\ IsFirst("reconcile", m)
  /\ Reconciled(m)
  /\ Visited("reconcile", m)
  /\ UNCHANGED upsets

\* Bug: a failure ends the batch.
BugFailureEndsBatch(j, m) ==
  /\ IsFirst(j, m)
  /\ list' = [list EXCEPT ![j] = {}]
  /\ UNCHANGED <<invoiceVars, setupVars, upsets>>

\* Whatever else happens to one invoice changes nothing and the job goes on:
\* not electronic after all, no longer ready, wrong number, no usable
\* certificate, sequence busy, no connection, an error of ARCA.
FailedVisit(j, m) ==
  /\ IsFirst(j, m)
  /\ Visited(j, m)
  /\ UNCHANGED <<invoiceVars, setupVars, upsets>>

\* The process dies, between two invoices or within one.
Dies(j) ==
  /\ Upset
  /\ list[j] # {}
  /\ \/ UNCHANGED <<invoiceVars, setupVars>>
     \/ j \in Senders /\ \E m \in list[j] : IsFirst(j, m) /\ Interrupted(m)
  /\ list' = [list EXCEPT ![j] = {}]

\* STALE_ATTEMPT_MINUTES pass since a request whose sender died.
GoStale(m) ==
  /\ IsOpen(m)
  /\ m \notin due
  /\ due' = due \cup {m}
  /\ UNCHANGED <<posted, state, turn, askedWith, issued, setupVars, list, upsets>>

\* A certificate expires, or is revoked.
Expire(c) ==
  /\ c \in usable
  /\ usable' = usable \ {c}
  /\ UNCHANGED <<invoiceVars, blocked, current, list, upsets>>

-----------------------------------------------------------------------------
(* The users *)

\* _post of several invoices at once.  Where the company requests the CAE
\* automatically, the hook takes those that are pending.
Post(S) ==
  /\ Upset
  /\ S # {} /\ S \cap posted = {}
  /\ posted' = posted \cup S
  /\ state' = [m \in Moves |-> IF m \in S /\ state[m] = "not_required"
                               THEN "pending" ELSE state[m]]
  /\ \/ UNCHANGED list
     \/ /\ list["hook"] = {}
        /\ list' = [list EXCEPT !["hook"] = {m \in S : state'[m] = "pending"}]
  /\ UNCHANGED <<turn, due, askedWith, issued, setupVars>>

\* button_draft.
Draft(m) ==
  /\ Upset
  /\ m \in posted
  /\ state[m] \notin {"authorized", "uncertain"}
  /\ posted' = posted \ {m}
  /\ UNCHANGED <<state, turn, due, askedWith, issued, setupVars, list>>

\* The authorize button.
Ask(m) ==
  /\ Upset
  /\ Answered(m) \/ Lost(m) \/ Interrupted(m)
  /\ UNCHANGED list

\* The reconcile buttons.  The reconciler that has the attempt on its list
\* will find it settled.
AskWhatHappened(m) ==
  /\ Reconciled(m)
  /\ Visited("reconcile", m)
  /\ UNCHANGED upsets

\* The customer or the invoice's data is spoiled, or put right.
Edit(m) ==
  /\ Upset
  /\ blocked' = IF m \in blocked THEN blocked \ {m} ELSE blocked \cup {m}
  /\ UNCHANGED <<invoiceVars, usable, current, list>>

\* A certificate that was no longer usable is loaded again.
Reload(c) ==
  /\ Upset
  /\ c \notin usable
  /\ usable' = usable \cup {c}
  /\ UNCHANGED <<invoiceVars, blocked, current, list>>

\* Another certificate is chosen in the settings.
Choose(c) ==
  /\ Upset
  /\ c # current
  /\ current' = c
  /\ UNCHANGED <<invoiceVars, blocked, usable, list>>

-----------------------------------------------------------------------------
JobStep(j, m) ==
  \/ AnswerVisit(j, m) \/ LostVisit(j, m) \/ FailedVisit(j, m)
  \/ j = "reconcile" /\ ReconcileVisit(m)

UserStep ==
  \/ \E S \in SUBSET Moves : Post(S)
  \/ \E m \in Moves : Draft(m) \/ Ask(m) \/ AskWhatHappened(m) \/ Edit(m)
  \/ \E c \in Certificates : Reload(c) \/ Choose(c)

Next ==
  \/ StartAuthorizing \/ StartReconciling
  \/ \E j \in Jobs : Dies(j) \/ \E m \in Moves : JobStep(j, m)
  \/ \E m \in Moves : GoStale(m)
  \/ \E c \in Certificates : Expire(c)
  \/ UserStep

Spec == Init /\ [][Next]_vars

(***************************************************************************)
(* Fairness.  The scheduler starts both jobs again and again, and a job    *)
(* that lives goes on to its next invoice: it dies MaxUpsets times at      *)
(* most.  ARCA answers sometimes: not every visit that could succeed       *)
(* fails.  Attempts grow old.                                              *)
(***************************************************************************)
Fairness ==
  /\ WF_vars(StartAuthorizing)
  /\ WF_vars(StartReconciling)
  /\ WF_vars(\E m \in Moves : JobStep("authorize", m))
  /\ WF_vars(\E m \in Moves : JobStep("reconcile", m))
  /\ SF_vars(\E m \in Moves : AnswerVisit("authorize", m))
  /\ SF_vars(\E m \in Moves : ReconcileVisit(m))
  /\ WF_vars(\E m \in Moves : GoStale(m))

FairSpec == Spec /\ Fairness

-----------------------------------------------------------------------------
(* Properties *)

TypeOK ==
  /\ posted \subseteq Moves
  /\ state \in [Moves -> MoveStates]
  /\ turn \in [Moves -> Nat]
  /\ due \subseteq Open
  /\ askedWith \in [Moves -> Certificates]
  /\ issued \subseteq Moves
  /\ blocked \subseteq Moves
  /\ usable \subseteq Certificates
  /\ current \in Certificates
  /\ list \in [Jobs -> SUBSET Moves]
  /\ list["reconcile"] \subseteq due
  /\ upsets \in 0..MaxUpsets

\* An invoice in an unknown state has an attempt that the reconciler's search
\* can find, and no other invoice has: through any interleaving of the jobs,
\* their deaths, the hook and the buttons.
UnknownIsQueued ==
  \A m \in Moves : state[m] \in {"processing", "uncertain"} <=> IsOpen(m)

\* The jobs' lists are stale when they are worked through, and an invoice can
\* be on two of them and under a button: it is never asked for again while
\* an earlier request of it is open, which would send its attempt to the end
\* of the reconciler's order.
KeepsItsTurn ==
  [][\A m \in Moves : turn[m] # 0 => turn'[m] <= turn[m]]_vars

\* What ARCA issued is never forgotten by the batches: the invoice says so,
\* or it is queued to be asked about.
IssuedIsKnown ==
  \A m \in issued : state[m] = "authorized" \/ IsOpen(m)

Able(m)   == m \in Pending /\ Sendable(m)
Hopeless(m) == {n \in Pending : ~Sendable(n) /\ RankOf[n] < RankOf[m]}

\* An invoice that can be authorized does not wait for ever, whatever becomes of
\* the others: unless Limit older ones, none of which can be, fill the list.
AuthorizedInTurn ==
  \A m \in Moves :
    []<>(~Able(m) \/ Cardinality(Hopeless(m)) >= Limit)

Answerable(m) == m \in due /\ askedWith[m] \in usable
HopelessAttempts(m) == {n \in due : askedWith[n] \notin usable /\ turn[n] < turn[m]}

\* An attempt that can be reconciled is, with no button pressed: unless Limit
\* older ones, whose certificates cannot be used any more, fill the list.
UnknownIsSettled ==
  \A m \in Moves :
    []<>(~Answerable(m) \/ Cardinality(HopelessAttempts(m)) >= Limit)

=============================================================================
