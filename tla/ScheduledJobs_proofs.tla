------------------------ MODULE ScheduledJobs_proofs ------------------------
(***************************************************************************)
(* For any invoices, sequences, certificates and limit: the type invariant *)
(* of ScheduledJobs, that what is unknown is queued and what is issued is  *)
(* known, and that no attempt loses its turn.  The two invariants are      *)
(* inductive together: an invoice that may be sent is in a state that has  *)
(* no open attempt, so sending it overwrites none, and it is not issued,   *)
(* so refusing it forgets nothing.                                         *)
(***************************************************************************)
EXTENDS ScheduledJobs, FiniteSetTheorems, TLAPS

\* The part of the invariant that one invoice's step can disturb.
InvoiceInv ==
  /\ posted \subseteq Moves
  /\ state \in [Moves -> MoveStates]
  /\ turn \in [Moves -> Nat]
  /\ due \subseteq Open
  /\ askedWith \in [Moves -> Certificates]
  /\ issued \subseteq Moves
  /\ UnknownIsQueued
  /\ IssuedIsKnown

IInv == TypeOK /\ UnknownIsQueued /\ IssuedIsKnown

\* The open attempts can be counted: a new one has a place after them.
LEMMA OpenAreCounted == Cardinality(Open) \in Nat
<1>1. IsFiniteSet(Open)
  BY JobsAssumption, FS_Subset DEF JobsAssumption, Open
<1> QED
  BY <1>1, FS_CardinalityType

\* What may be sent has no open attempt, and ARCA no voucher of it.
LEMMA SendableIsFree ==
  ASSUME InvoiceInv, NEW m \in Moves, Sendable(m)
  PROVE  turn[m] = 0 /\ m \notin due /\ m \notin issued
<1>1. state[m] \notin {"processing", "uncertain", "authorized"}
  BY DEF Sendable
<1>2. ~IsOpen(m)
  BY <1>1 DEF InvoiceInv, UnknownIsQueued
<1>3. m \notin due
  BY <1>2 DEF InvoiceInv, Open
<1> QED
  BY <1>1, <1>2, <1>3 DEF InvoiceInv, IssuedIsKnown, IsOpen

\* An answer settles the invoice and touches no open attempt.
LEMMA AnsweredKeeps ==
  ASSUME InvoiceInv, NEW m \in Moves, Answered(m)
  PROVE  InvoiceInv' /\ UNCHANGED <<turn, due>>
<1>1. turn[m] = 0 /\ m \notin issued
  BY SendableIsFree DEF Answered
<1>2. \E s \in {"authorized", "rejected"} :
        /\ state' = [state EXCEPT ![m] = s]
        /\ issued' = IF s = "authorized" THEN issued \cup {m} ELSE issued
  BY DEF Answered, SetState
<1>3. PICK s \in {"authorized", "rejected"} :
        /\ state' = [state EXCEPT ![m] = s]
        /\ issued' = IF s = "authorized" THEN issued \cup {m} ELSE issued
  BY <1>2
<1>4. UNCHANGED <<posted, turn, due, askedWith>>
  BY DEF Answered
<1>5. UnknownIsQueued'
  BY <1>1, <1>3, <1>4 DEF InvoiceInv, UnknownIsQueued, IsOpen, MoveStates
<1>6. IssuedIsKnown'
  BY <1>1, <1>3, <1>4 DEF InvoiceInv, IssuedIsKnown, IsOpen, MoveStates
<1>7. state' \in [Moves -> MoveStates] /\ issued' \subseteq Moves /\ due' \subseteq Open'
  BY <1>3, <1>4 DEF InvoiceInv, MoveStates, Open, IsOpen
<1> QED
  BY <1>4, <1>5, <1>6, <1>7 DEF InvoiceInv

\* A request without an answer, whether its sender lives or not, leaves an
\* open attempt, the last of all.
LEMMA SentKeeps ==
  ASSUME InvoiceInv, current \in Certificates, NEW m \in Moves,
         Lost(m) \/ Interrupted(m)
  PROVE  /\ InvoiceInv'
         /\ due \subseteq due'
         /\ turn[m] = 0
         /\ \A n \in Moves : n # m => turn'[n] = turn[n]
<1>1. turn[m] = 0 /\ m \notin issued
  BY SendableIsFree DEF Lost, Interrupted
<1>2. PICK s \in {"uncertain", "processing"} : state' = [state EXCEPT ![m] = s]
  BY DEF Lost, Interrupted, SetState
<1>3. /\ turn' = [turn EXCEPT ![m] = Cardinality(Open) + 1]
      /\ askedWith' = [askedWith EXCEPT ![m] = current]
  BY DEF Lost, Interrupted, OpenAttempt
<1>4. /\ due' \in {due, due \cup {m}}
      /\ issued' \in {issued, issued \cup {m}}
      /\ posted' = posted
  BY DEF Lost, Interrupted
<1>5. Cardinality(Open) + 1 \in Nat \ {0}
  BY OpenAreCounted
<1>6. \A n \in Moves : turn'[n] = IF n = m THEN Cardinality(Open) + 1 ELSE turn[n]
  BY <1>3 DEF InvoiceInv
<1>7. IsOpen(m)' /\ \A n \in Moves : n # m => (IsOpen(n)' <=> IsOpen(n))
  BY <1>5, <1>6 DEF IsOpen
<1>8. UnknownIsQueued'
  BY <1>2, <1>7 DEF InvoiceInv, UnknownIsQueued, MoveStates
<1>9. IssuedIsKnown'
  BY <1>2, <1>4, <1>7 DEF InvoiceInv, IssuedIsKnown, MoveStates
<1>10. due' \subseteq Open'
  BY <1>4, <1>7 DEF InvoiceInv, Open
<1>11. /\ state' \in [Moves -> MoveStates]
       /\ turn' \in [Moves -> Nat]
       /\ askedWith' \in [Moves -> Certificates]
       /\ issued' \subseteq Moves
       /\ posted' \subseteq Moves
  BY <1>2, <1>3, <1>4, <1>5 DEF InvoiceInv, MoveStates
<1> QED
  BY <1>1, <1>4, <1>6, <1>8, <1>9, <1>10, <1>11 DEF InvoiceInv

\* A reconciliation settles its attempt, and the younger ones move up.
LEMMA ReconciledKeeps ==
  ASSUME InvoiceInv, NEW m \in Moves, Reconciled(m)
  PROVE  /\ InvoiceInv'
         /\ due' = due \ {m}
         /\ \A n \in Moves : turn'[n] <= turn[n]
<1>1. /\ turn[m] # 0
      /\ state' = [state EXCEPT ![m] = IF m \in issued THEN "authorized" ELSE "pending"]
      /\ UNCHANGED <<posted, askedWith, issued>>
      /\ due' = due \ {m}
  BY DEF Reconciled, Close, SetState, IsOpen
<1>2. turn' = [n \in Moves |-> IF n = m THEN 0
                               ELSE IF turn[n] > turn[m] THEN turn[n] - 1 ELSE turn[n]]
  BY DEF Reconciled, Close
<1>3. \A n \in Moves : turn[n] \in Nat
  BY DEF InvoiceInv
<1>4. turn' \in [Moves -> Nat] /\ \A n \in Moves : turn'[n] <= turn[n]
  BY <1>1, <1>2, <1>3
<1>5. ~IsOpen(m)' /\ \A n \in Moves : n # m => (IsOpen(n)' <=> IsOpen(n))
  BY <1>1, <1>2, <1>3 DEF IsOpen
<1>6. UnknownIsQueued'
  BY <1>1, <1>5 DEF InvoiceInv, UnknownIsQueued, MoveStates
<1>7. IssuedIsKnown'
  BY <1>1, <1>5 DEF InvoiceInv, IssuedIsKnown, MoveStates
<1>8. due' \subseteq Open' /\ state' \in [Moves -> MoveStates]
  BY <1>1, <1>5 DEF InvoiceInv, Open, MoveStates
<1> QED
  BY <1>1, <1>4, <1>6, <1>7, <1>8 DEF InvoiceInv

-----------------------------------------------------------------------------
(* The steps *)

\* What a step owes: the invariant after it, and the turn of every attempt.
Kept == IInv' /\ \A m \in Moves : turn[m] # 0 => turn'[m] <= turn[m]

\* A step that touches no invoice owes the rest of the type invariant only.
LEMMA QuietStep ==
  ASSUME IInv, UNCHANGED invoiceVars,
         blocked' \subseteq Moves, usable' \subseteq Certificates,
         current' \in Certificates, list' \in [Jobs -> SUBSET Moves],
         list'["reconcile"] \subseteq due, upsets' \in 0..MaxUpsets
  PROVE  Kept
<1>1. TypeOK'
  BY DEF IInv, TypeOK, invoiceVars, Open, IsOpen
<1>2. UnknownIsQueued' /\ IssuedIsKnown'
  BY DEF IInv, UnknownIsQueued, IssuedIsKnown, IsOpen, invoiceVars
<1>3. \A m \in Moves : turn'[m] <= turn[m]
  BY DEF IInv, TypeOK, invoiceVars
<1> QED
  BY <1>1, <1>2, <1>3 DEF Kept, IInv

LEMMA InvoicePart == IInv <=> /\ InvoiceInv
                              /\ blocked \subseteq Moves
                              /\ usable \subseteq Certificates
                              /\ current \in Certificates
                              /\ list \in [Jobs -> SUBSET Moves]
                              /\ list["reconcile"] \subseteq due
                              /\ upsets \in 0..MaxUpsets
BY DEF IInv, InvoiceInv, TypeOK

\* A list that only gets shorter stays a list.
LEMMA VisitedKeeps ==
  ASSUME list \in [Jobs -> SUBSET Moves], NEW j \in Jobs, NEW m \in Moves, Visited(j, m)
  PROVE  /\ list' \in [Jobs -> SUBSET Moves]
         /\ list'["reconcile"] \subseteq list["reconcile"]
         /\ j = "reconcile" => m \notin list'["reconcile"]
BY DEF Visited, Jobs

\* One invoice asked for, by a job or a button.
LEMMA SenderStep ==
  ASSUME IInv, NEW m \in Moves, Answered(m) \/ Lost(m) \/ Interrupted(m),
         list' \in [Jobs -> SUBSET Moves],
         list'["reconcile"] \subseteq list["reconcile"], upsets' \in 0..MaxUpsets
  PROVE  Kept
<1>1. InvoiceInv /\ current \in Certificates /\ list["reconcile"] \subseteq due
  BY InvoicePart
<1>2. UNCHANGED setupVars
  BY DEF Answered, Lost, Interrupted
<1>3. InvoiceInv' /\ due \subseteq due' /\ \A n \in Moves : turn[n] # 0 => turn'[n] <= turn[n]
  <2>1. CASE Answered(m)
    BY <1>1, <2>1, AnsweredKeeps DEF InvoiceInv
  <2>2. CASE Lost(m) \/ Interrupted(m)
    BY <1>1, <2>2, SentKeeps DEF InvoiceInv
  <2> QED
    BY <2>1, <2>2
<1>4. IInv'
  BY <1>1, <1>2, <1>3, InvoicePart DEF setupVars, IInv, InvoiceInv, TypeOK
<1> QED
  BY <1>3, <1>4 DEF Kept

\* One attempt reconciled, by the job or a button.
LEMMA ReconcileStep ==
  ASSUME IInv, NEW m \in Moves, Reconciled(m), Visited("reconcile", m), UNCHANGED upsets
  PROVE  Kept
<1>1. InvoiceInv /\ list \in [Jobs -> SUBSET Moves] /\ list["reconcile"] \subseteq due
  BY InvoicePart
<1>2. InvoiceInv' /\ due' = due \ {m} /\ \A n \in Moves : turn'[n] <= turn[n]
  BY <1>1, ReconciledKeeps
<1>3. list' \in [Jobs -> SUBSET Moves] /\ list'["reconcile"] \subseteq due'
  BY <1>1, <1>2, VisitedKeeps DEF Jobs
<1>4. UNCHANGED setupVars
  BY DEF Reconciled
<1>5. IInv'
  BY <1>2, <1>3, <1>4 DEF setupVars, IInv, InvoiceInv, TypeOK
<1> QED
  BY <1>2, <1>5 DEF Kept

\* Posting marks as pending only what had no request.
LEMMA PostStep ==
  ASSUME IInv, NEW S \in SUBSET Moves, Post(S)
  PROVE  Kept
<1>1. state' = [m \in Moves |-> IF m \in S /\ state[m] = "not_required"
                                THEN "pending" ELSE state[m]]
  BY DEF Post
<1>2. /\ posted' = posted \cup S
      /\ UNCHANGED <<turn, due, askedWith, issued, setupVars>>
  BY DEF Post
<1>3. upsets' \in 0..MaxUpsets
  BY JobsAssumption DEF Post, Upset, IInv, TypeOK, JobsAssumption
<1>4. list' \in [Jobs -> SUBSET Moves] /\ list'["reconcile"] \subseteq due'
  BY <1>2 DEF Post, IInv, TypeOK, Jobs
<1>5. UnknownIsQueued'
  BY <1>1, <1>2 DEF IInv, UnknownIsQueued, IsOpen
<1>6. IssuedIsKnown'
  BY <1>1, <1>2 DEF IInv, TypeOK, IssuedIsKnown, IsOpen
<1>7. TypeOK'
  BY <1>1, <1>2, <1>3, <1>4 DEF IInv, TypeOK, MoveStates, setupVars, Open, IsOpen
<1>8. \A m \in Moves : turn'[m] <= turn[m]
  BY <1>2 DEF IInv, TypeOK
<1> QED
  BY <1>5, <1>6, <1>7, <1>8 DEF Kept, IInv

\* A draft, or an attempt grown old, changes neither state nor turn.
LEMMA ShelfStep ==
  ASSUME IInv, posted' \subseteq Moves, due \subseteq due', due' \subseteq Open,
         UNCHANGED <<state, turn, askedWith, issued, setupVars, list>>,
         upsets' \in 0..MaxUpsets
  PROVE  Kept
<1>1. TypeOK'
  BY DEF IInv, TypeOK, setupVars, Open, IsOpen
<1>2. UnknownIsQueued' /\ IssuedIsKnown'
  BY DEF IInv, UnknownIsQueued, IssuedIsKnown, IsOpen
<1>3. \A m \in Moves : turn'[m] <= turn[m]
  BY DEF IInv, TypeOK
<1> QED
  BY <1>1, <1>2, <1>3 DEF Kept, IInv

\* One step of a job that lives.
LEMMA JobStepKeeps ==
  ASSUME IInv, NEW j \in Jobs, NEW m \in Moves, JobStep(j, m)
  PROVE  Kept
<1>1. list \in [Jobs -> SUBSET Moves] /\ upsets \in 0..MaxUpsets
  BY InvoicePart
<1>2. Visited(j, m) /\ UNCHANGED upsets
  BY DEF JobStep, AnswerVisit, LostVisit, FailedVisit, ReconcileVisit
<1>3. list' \in [Jobs -> SUBSET Moves] /\ list'["reconcile"] \subseteq list["reconcile"]
  BY <1>1, <1>2, VisitedKeeps
<1>4. CASE AnswerVisit(j, m) \/ LostVisit(j, m)
  BY <1>1, <1>2, <1>3, <1>4, SenderStep DEF AnswerVisit, LostVisit
<1>5. CASE FailedVisit(j, m)
  <2>1. UNCHANGED <<invoiceVars, setupVars>>
    BY <1>5 DEF FailedVisit
  <2> QED
    BY <1>1, <1>2, <1>3, <2>1, QuietStep, InvoicePart DEF setupVars
<1>6. CASE j = "reconcile" /\ ReconcileVisit(m)
  BY <1>2, <1>6, ReconcileStep DEF ReconcileVisit
<1> QED
  BY <1>4, <1>5, <1>6 DEF JobStep

\* A job that dies leaves its list, and perhaps a request without an answer.
LEMMA DeathKeeps ==
  ASSUME IInv, NEW j \in Jobs, Dies(j)
  PROVE  Kept
<1>1. upsets' \in 0..MaxUpsets
  BY JobsAssumption DEF Dies, Upset, IInv, TypeOK, JobsAssumption
<1>2. list' \in [Jobs -> SUBSET Moves] /\ list'["reconcile"] \subseteq list["reconcile"]
  BY DEF Dies, IInv, TypeOK, Jobs
<1>3. CASE UNCHANGED <<invoiceVars, setupVars>>
  BY <1>1, <1>2, <1>3, QuietStep, InvoicePart DEF setupVars
<1>4. CASE \E m \in list[j] : Interrupted(m)
  <2>1. PICK m \in Moves : Interrupted(m)
    BY <1>4 DEF IInv, TypeOK
  <2> QED
    BY <1>1, <1>2, <2>1, SenderStep
<1> QED
  BY <1>3, <1>4 DEF Dies

\* What users do.
LEMMA UserStepKeeps ==
  ASSUME IInv, UserStep
  PROVE  Kept
<1>1. Upset => upsets' \in 0..MaxUpsets
  BY JobsAssumption DEF Upset, IInv, TypeOK, JobsAssumption
<1>2. CASE \E S \in SUBSET Moves : Post(S)
  BY <1>2, PostStep
<1>3. ASSUME NEW m \in Moves, Draft(m) PROVE Kept
  BY <1>1, <1>3, ShelfStep DEF Draft, IInv, TypeOK
<1>4. ASSUME NEW m \in Moves, Ask(m) PROVE Kept
  BY <1>1, <1>4, SenderStep DEF Ask, IInv, TypeOK
<1>5. ASSUME NEW m \in Moves, AskWhatHappened(m) PROVE Kept
  BY <1>5, ReconcileStep DEF AskWhatHappened
<1>6. ASSUME NEW m \in Moves, Edit(m) PROVE Kept
  BY <1>1, <1>6, QuietStep DEF Edit, IInv, TypeOK
<1>7. ASSUME NEW c \in Certificates, Reload(c) \/ Choose(c) PROVE Kept
  BY <1>1, <1>7, QuietStep DEF Reload, Choose, IInv, TypeOK
<1> QED
  BY <1>2, <1>3, <1>4, <1>5, <1>6, <1>7 DEF UserStep

\* Every step keeps what it owes.
LEMMA StepKeeps == IInv /\ [Next]_vars => Kept
<1> SUFFICES ASSUME IInv, [Next]_vars PROVE Kept
  OBVIOUS
<1>1. CASE StartAuthorizing
  <2>1. Oldest(Pending, RankOf) \subseteq Moves
    BY DEF Oldest, Pending, IInv, TypeOK
  <2> QED
    BY <1>1, <2>1, QuietStep DEF StartAuthorizing, IInv, TypeOK, setupVars, Jobs, Senders
<1>2. CASE StartReconciling
  <2>1. Oldest(due, turn) \subseteq due /\ due \subseteq Moves
    BY DEF Oldest, IInv, TypeOK, Open
  <2> QED
    BY <1>2, <2>1, QuietStep DEF StartReconciling, IInv, TypeOK, setupVars, Jobs, Senders
<1>3. CASE \E j \in Jobs : Dies(j) \/ \E m \in Moves : JobStep(j, m)
  BY <1>3, DeathKeeps, JobStepKeeps
<1>4. ASSUME NEW m \in Moves, GoStale(m) PROVE Kept
  BY <1>4, ShelfStep DEF GoStale, IInv, TypeOK, Open
<1>5. ASSUME NEW c \in Certificates, Expire(c) PROVE Kept
  BY <1>5, QuietStep DEF Expire, IInv, TypeOK
<1>6. CASE UserStep
  BY <1>6, UserStepKeeps
<1>7. CASE UNCHANGED vars
  BY <1>7, QuietStep DEF vars, setupVars, IInv, TypeOK
<1> QED
  BY <1>1, <1>2, <1>3, <1>4, <1>5, <1>6, <1>7 DEF Next

LEMMA InitHolds == Init => IInv
<1> SUFFICES ASSUME Init PROVE IInv
  OBVIOUS
<1>1. (CHOOSE c \in Certificates : TRUE) \in Certificates
  BY JobsAssumption DEF JobsAssumption
<1>2. TypeOK
  BY <1>1, JobsAssumption DEF Init, TypeOK, JobsAssumption, MoveStates, Open, IsOpen, Jobs
<1> QED
  BY <1>2 DEF Init, IInv, UnknownIsQueued, IssuedIsKnown, IsOpen

LEMMA Invariance == Spec => []IInv
<1>1. IInv /\ [Next]_vars => IInv'
  BY StepKeeps DEF Kept
<1> QED
  BY InitHolds, <1>1, PTL DEF Spec

-----------------------------------------------------------------------------
(* The theorems *)

\* The variables of the three jobs and of the invoices they work through keep
\* their types, the reconciler's list being of attempts not yet settled.
THEOREM TypeCorrect == Spec => []TypeOK
<1>1. IInv => TypeOK
  BY DEF IInv
<1> QED
  BY Invariance, <1>1, PTL

\* Whatever the jobs, the hook and the buttons do, and whenever they die: an
\* invoice is in an unknown state exactly when the reconciler can find its attempt.
THEOREM UnknownQueued == Spec => []UnknownIsQueued
<1>1. IInv => UnknownIsQueued
  BY DEF IInv
<1> QED
  BY Invariance, <1>1, PTL

\* No voucher of ARCA's is lost to the batches.
THEOREM IssuedKnown == Spec => []IssuedIsKnown
<1>1. IInv => IssuedIsKnown
  BY DEF IInv
<1> QED
  BY Invariance, <1>1, PTL

\* An attempt only moves up in the reconciler's order: none is asked for
\* again from a stale list.
THEOREM TurnKept == Spec => KeepsItsTurn
<1>1. IInv /\ [Next]_vars => [\A m \in Moves : turn[m] # 0 => turn'[m] <= turn[m]]_vars
  BY StepKeeps DEF Kept
<1> QED
  BY Invariance, <1>1, PTL DEF Spec, KeepsItsTurn
=============================================================================
