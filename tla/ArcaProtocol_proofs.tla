------------------------- MODULE ArcaProtocol_proofs -------------------------
(***************************************************************************)
(* Proofs about ArcaProtocol, for any invoices, attempts and workers.      *)
(*                                                                         *)
(* The safety properties are not inductive by themselves: a worker acts on *)
(* what it read earlier.  WorkerInv says what is still true, at each point *)
(* of the protocol, of what a worker read; AttemptInv relates an attempt   *)
(* to ARCA's side of it.                                                   *)
(***************************************************************************)
EXTENDS ArcaProtocol, TLAPS

AttemptInv == \A a \in Attempts :
  /\ attState[a] = "none" => a \notin flight /\ a \notin issued /\ reply[a] = "none" /\ ~stale[a]
  /\ attState[a] # "none" => attMove[a] \in Moves
  /\ a \in flight => attState[a] = "sent" /\ ~stale[a] /\ reply[a] = "none" /\ a \notin issued
  /\ reply[a] = "A" => a \in issued
  /\ reply[a] = "R" => a \notin issued
  /\ a \in issued => attState[a] \in {"sent", "uncertain", "authorized"}
  /\ attState[a] = "authorized" => arcaState[attMove[a]] = "authorized"

\* The worker has an attempt in hand.
HasAttempt(w) == pc[w] \in {"evidence", "waiting", "listed", "consult", "apply"}

WorkerInv == \A w \in Workers :
  /\ pc[w] # "idle" => job[w] \in Moves
  /\ HasAttempt(w) =>
       tried[w] \in Attempts /\ attState[tried[w]] # "none" /\ attMove[tried[w]] = job[w]
  /\ InProtocol(w) => lock[SeqOf[job[w]]] = w
  /\ pc[w] \in {"locked", "checked"} /\ ~dirty[w] => arcaState[job[w]] \in {"pending", "rejected"}
  /\ pc[w] \in {"evidence", "waiting"} => attState[tried[w]] = "sent"
  /\ pc[w] = "evidence" =>
       /\ tried[w] \notin flight /\ tried[w] \notin issued
       /\ reply[tried[w]] = "none" /\ ~stale[tried[w]]
  /\ pc[w] \in {"listed", "consult", "apply"} => attState[tried[w]] # "sent" \/ stale[tried[w]]
  /\ pc[w] \in {"consult", "apply"} => IsOpen(tried[w])
  /\ pc[w] = "apply" /\ found[w] = None => tried[w] \notin issued
  /\ pc[w] = "apply" /\ found[w] # None =>
       found[w] \in issued /\ SameCoordinates(attMove[found[w]], job[w])

IInv == TypeOK /\ WorkerInv /\ AttemptInv /\ EvidenceOfUnresolved

-----------------------------------------------------------------------------
(* The steps of the specification *)

\* The disjuncts of [Next]_vars; a worker that ends without a commit abandons.
LEMMA NextCases ==
  ASSUME [Next]_vars
  PROVE  \/ \E m \in Moves : Post(m) \/ Draft(m)
         \/ \E w \in Workers, m \in Moves : Request(w, m)
         \/ \E w \in Workers, a \in Attempts : RecordAttempt(w, a) \/ ListAttempt(w, a)
         \/ \E w \in Workers :
              \/ Abandon(w)
              \/ StartProtocol(w) \/ CheckSequence(w) \/ Send(w) \/ NeverSent(w)
              \/ ReceiveCae(w) \/ ReceiveRefusal(w) \/ AnswerLost(w)
              \/ StartReconcile(w) \/ Consult(w) \/ SettleAbsent(w) \/ SettleFound(w)
         \/ \E a \in Attempts : GoStale(a) \/ ArcaApproves(a) \/ ArcaRejects(a) \/ RequestLost(a)
         \/ UNCHANGED vars
  BY DEF Next, UserStep, WorkerStep, AuthorizeStep, ReconcileStep, ArcaStep, RefuseAgain,
         SequenceBusy, WrongNumber, AlreadySettled, Crash, CommitRefused

-----------------------------------------------------------------------------
(* Types *)

\* Every step of the protocol keeps each variable in its type.
LEMMA TypeStep == IInv /\ [Next]_vars => TypeOK'
<1> SUFFICES ASSUME IInv, [Next]_vars PROVE TypeOK'
  OBVIOUS
<1> USE ConstantsAssumption DEF IInv, TypeOK, MoveStates, AttemptStates, dbVars, workerVars, arcaVars
<1>1. ASSUME NEW m \in Moves, Post(m) PROVE TypeOK'
  BY <1>1 DEF Post, Rewrite
<1>2. ASSUME NEW m \in Moves, Draft(m) PROVE TypeOK'
  BY <1>2 DEF Draft, Rewrite
<1>3. ASSUME NEW w \in Workers, NEW m \in Moves, Request(w, m) PROVE TypeOK'
  BY <1>3 DEF Request, GoTo
<1>4. ASSUME NEW w \in Workers, StartProtocol(w) PROVE TypeOK'
  BY <1>4 DEF StartProtocol, GoTo, Lock, LockFree
<1>5. ASSUME NEW w \in Workers, Abandon(w) PROVE TypeOK'
  BY <1>5 DEF Abandon, Finish, FreeLock
<1>6. ASSUME NEW w \in Workers, CheckSequence(w) PROVE TypeOK'
  BY <1>6 DEF CheckSequence, GoTo
<1>7. ASSUME NEW w \in Workers, NEW a \in Attempts, RecordAttempt(w, a) PROVE TypeOK'
  BY <1>7 DEF RecordAttempt, GoTo, Rewrite
<1>8. ASSUME NEW w \in Workers, Send(w) PROVE TypeOK'
  BY <1>8 DEF Send, GoTo, WorkerInv, HasAttempt
<1>9. ASSUME NEW w \in Workers, NeverSent(w) PROVE TypeOK'
  <2>1. CASE Conclude(w, "aborted", "rejected")
    BY <1>9, <2>1 DEF NeverSent, Conclude, Rewrite, Finish, FreeLock
  <2>2. CASE Conclude(w, "rejected", "rejected")
    BY <1>9, <2>2 DEF NeverSent, Conclude, Rewrite, Finish, FreeLock
  <2>3. QED
    BY <1>9, <2>1, <2>2 DEF NeverSent
<1>10. ASSUME NEW w \in Workers, ReceiveCae(w) PROVE TypeOK'
  BY <1>10 DEF ReceiveCae, Conclude, Rewrite, Finish, FreeLock
<1>11. ASSUME NEW w \in Workers, ReceiveRefusal(w) PROVE TypeOK'
  BY <1>11 DEF ReceiveRefusal, Conclude, Rewrite, Finish, FreeLock
<1>12. ASSUME NEW w \in Workers, AnswerLost(w) PROVE TypeOK'
  BY <1>12 DEF AnswerLost, Conclude, Rewrite, Finish, FreeLock
<1>13. ASSUME NEW w \in Workers, NEW a \in Attempts, ListAttempt(w, a) PROVE TypeOK'
  BY <1>13 DEF ListAttempt, GoTo
<1>14. ASSUME NEW w \in Workers, StartReconcile(w) PROVE TypeOK'
  BY <1>14 DEF StartReconcile, GoTo, Lock, LockFree
<1>15. ASSUME NEW w \in Workers, Consult(w) PROVE TypeOK'
  BY <1>15 DEF Consult, GoTo
<1>16. ASSUME NEW w \in Workers, SettleAbsent(w) PROVE TypeOK'
  BY <1>16 DEF SettleAbsent, Conclude, Rewrite, Finish, FreeLock
<1>17. ASSUME NEW w \in Workers, SettleFound(w) PROVE TypeOK'
  BY <1>17 DEF SettleFound, Conclude, Rewrite, Finish, FreeLock
<1>18. ASSUME NEW a \in Attempts, GoStale(a) PROVE TypeOK'
  BY <1>18 DEF GoStale
<1>19. ASSUME NEW a \in Attempts, ArcaApproves(a) PROVE TypeOK'
  BY <1>19 DEF ArcaApproves, AttemptInv
<1>20. ASSUME NEW a \in Attempts, ArcaRejects(a) PROVE TypeOK'
  BY <1>20 DEF ArcaRejects
<1>21. ASSUME NEW a \in Attempts, RequestLost(a) PROVE TypeOK'
  BY <1>21 DEF RequestLost
<1>22. ASSUME UNCHANGED vars PROVE TypeOK'
  BY <1>22 DEF vars
<1>23. QED
  BY <1>1, <1>2, <1>3, <1>4, <1>5, <1>6, <1>7, <1>8, <1>9, <1>10, <1>11, <1>12, <1>13, <1>14, <1>15, <1>16, <1>17, <1>18, <1>19, <1>20, <1>21, <1>22, NextCases

\* Every step keeps what the workers rely on: whoever is inside the protocol of
\* a sequence holds its lock, and what a worker has read under the lock is still
\* what the database says unless its commit will be refused.
LEMMA WorkerStepInv == IInv /\ [Next]_vars => WorkerInv'
<1> SUFFICES ASSUME IInv, [Next]_vars PROVE WorkerInv'
  OBVIOUS
<1> USE ConstantsAssumption
    DEF IInv, TypeOK, WorkerInv, AttemptInv, InProtocol, HasAttempt, IsOpen, OpenStates,
        Snapshotted, CheckReady, dbVars, workerVars, arcaVars
<1>1. ASSUME NEW m \in Moves, Post(m) PROVE WorkerInv'
  BY <1>1 DEF Post, Rewrite
<1>2. ASSUME NEW m \in Moves, Draft(m) PROVE WorkerInv'
  BY <1>2 DEF Draft, Rewrite
<1>3. ASSUME NEW w \in Workers, NEW m \in Moves, Request(w, m) PROVE WorkerInv'
  BY <1>3 DEF Request, GoTo
<1>4. ASSUME NEW w \in Workers, StartProtocol(w) PROVE WorkerInv'
  BY <1>4 DEF StartProtocol, GoTo, Lock, LockFree
<1>5. ASSUME NEW w \in Workers, Abandon(w) PROVE WorkerInv'
  BY <1>5 DEF Abandon, Finish, FreeLock
<1>6. ASSUME NEW w \in Workers, CheckSequence(w) PROVE WorkerInv'
  BY <1>6 DEF CheckSequence, GoTo
<1>7. ASSUME NEW w \in Workers, NEW a \in Attempts, RecordAttempt(w, a) PROVE WorkerInv'
  BY <1>7 DEF RecordAttempt, GoTo, Rewrite
<1>8. ASSUME NEW w \in Workers, Send(w) PROVE WorkerInv'
  BY <1>8 DEF Send, GoTo
<1>9. ASSUME NEW w \in Workers, NeverSent(w) PROVE WorkerInv'
  BY <1>9 DEF NeverSent, Conclude, Rewrite, Finish, FreeLock
<1>10. ASSUME NEW w \in Workers, ReceiveCae(w) PROVE WorkerInv'
  BY <1>10 DEF ReceiveCae, Conclude, Rewrite, Finish, FreeLock
<1>11. ASSUME NEW w \in Workers, ReceiveRefusal(w) PROVE WorkerInv'
  BY <1>11 DEF ReceiveRefusal, Conclude, Rewrite, Finish, FreeLock
<1>12. ASSUME NEW w \in Workers, AnswerLost(w) PROVE WorkerInv'
  BY <1>12 DEF AnswerLost, Conclude, Rewrite, Finish, FreeLock
<1>13. ASSUME NEW w \in Workers, NEW a \in Attempts, ListAttempt(w, a) PROVE WorkerInv'
  BY <1>13 DEF ListAttempt, GoTo
<1>14. ASSUME NEW w \in Workers, StartReconcile(w) PROVE WorkerInv'
  BY <1>14 DEF StartReconcile, GoTo, Lock, LockFree
<1>15. ASSUME NEW w \in Workers, Consult(w) PROVE WorkerInv'
  BY <1>15 DEF Consult, GoTo, SameCoordinates
<1>16. ASSUME NEW w \in Workers, SettleAbsent(w) PROVE WorkerInv'
  BY <1>16 DEF SettleAbsent, Conclude, Rewrite, Finish, FreeLock
<1>17. ASSUME NEW w \in Workers, SettleFound(w) PROVE WorkerInv'
  BY <1>17 DEF SettleFound, Conclude, Rewrite, Finish, FreeLock
<1>18. ASSUME NEW a \in Attempts, GoStale(a) PROVE WorkerInv'
  BY <1>18 DEF GoStale
<1>19. ASSUME NEW a \in Attempts, ArcaApproves(a) PROVE WorkerInv'
  BY <1>19 DEF ArcaApproves
<1>20. ASSUME NEW a \in Attempts, ArcaRejects(a) PROVE WorkerInv'
  BY <1>20 DEF ArcaRejects
<1>21. ASSUME NEW a \in Attempts, RequestLost(a) PROVE WorkerInv'
  BY <1>21 DEF RequestLost
<1>22. ASSUME UNCHANGED vars PROVE WorkerInv'
  BY <1>22 DEF vars
<1>23. QED
  BY <1>1, <1>2, <1>3, <1>4, <1>5, <1>6, <1>7, <1>8, <1>9, <1>10, <1>11, <1>12, <1>13, <1>14, <1>15, <1>16, <1>17, <1>18, <1>19, <1>20, <1>21, <1>22, NextCases

\* Every step keeps the attempts consistent with ARCA: a request in flight or
\* authorized by ARCA belongs to an attempt that is still open or authorized, and
\* no reply arrives for an attempt whose request was never sent.
LEMMA AttemptStepInv == IInv /\ [Next]_vars => AttemptInv'
<1> SUFFICES ASSUME IInv, [Next]_vars PROVE AttemptInv'
  OBVIOUS
<1> USE ConstantsAssumption
    DEF IInv, TypeOK, WorkerInv, AttemptInv, InProtocol, HasAttempt, IsOpen, OpenStates,
        EvidenceOfUnresolved, Unresolved, Snapshotted, CheckReady, dbVars, workerVars, arcaVars
<1>1. ASSUME NEW m \in Moves, Post(m) PROVE AttemptInv'
  BY <1>1 DEF Post, Rewrite
<1>2. ASSUME NEW m \in Moves, Draft(m) PROVE AttemptInv'
  BY <1>2 DEF Draft, Rewrite
<1>3. ASSUME NEW w \in Workers, NEW m \in Moves, Request(w, m) PROVE AttemptInv'
  BY <1>3 DEF Request, GoTo
<1>4. ASSUME NEW w \in Workers, StartProtocol(w) PROVE AttemptInv'
  BY <1>4 DEF StartProtocol, GoTo, Lock, LockFree
<1>5. ASSUME NEW w \in Workers, Abandon(w) PROVE AttemptInv'
  BY <1>5 DEF Abandon, Finish, FreeLock
<1>6. ASSUME NEW w \in Workers, CheckSequence(w) PROVE AttemptInv'
  BY <1>6 DEF CheckSequence, GoTo
<1>7. ASSUME NEW w \in Workers, NEW a \in Attempts, RecordAttempt(w, a) PROVE AttemptInv'
  BY <1>7 DEF RecordAttempt, GoTo, Rewrite
<1>8. ASSUME NEW w \in Workers, Send(w) PROVE AttemptInv'
  BY <1>8 DEF Send, GoTo
<1>9. ASSUME NEW w \in Workers, NeverSent(w) PROVE AttemptInv'
  BY <1>9 DEF NeverSent, Conclude, Rewrite, Finish, FreeLock
<1>10. ASSUME NEW w \in Workers, ReceiveCae(w) PROVE AttemptInv'
  BY <1>10 DEF ReceiveCae, Conclude, Rewrite, Finish, FreeLock
<1>11. ASSUME NEW w \in Workers, ReceiveRefusal(w) PROVE AttemptInv'
  BY <1>11 DEF ReceiveRefusal, Conclude, Rewrite, Finish, FreeLock
<1>12. ASSUME NEW w \in Workers, AnswerLost(w) PROVE AttemptInv'
  BY <1>12 DEF AnswerLost, Conclude, Rewrite, Finish, FreeLock
<1>13. ASSUME NEW w \in Workers, NEW a \in Attempts, ListAttempt(w, a) PROVE AttemptInv'
  BY <1>13 DEF ListAttempt, GoTo
<1>14. ASSUME NEW w \in Workers, StartReconcile(w) PROVE AttemptInv'
  BY <1>14 DEF StartReconcile, GoTo, Lock, LockFree
<1>15. ASSUME NEW w \in Workers, Consult(w) PROVE AttemptInv'
  BY <1>15 DEF Consult, GoTo
<1>16. ASSUME NEW w \in Workers, SettleAbsent(w) PROVE AttemptInv'
  BY <1>16 DEF SettleAbsent, Conclude, Rewrite, Finish, FreeLock
<1>17. ASSUME NEW w \in Workers, SettleFound(w) PROVE AttemptInv'
  BY <1>17 DEF SettleFound, Conclude, Rewrite, Finish, FreeLock
<1>18. ASSUME NEW a \in Attempts, GoStale(a) PROVE AttemptInv'
  BY <1>18 DEF GoStale
<1>19. ASSUME NEW a \in Attempts, ArcaApproves(a) PROVE AttemptInv'
  BY <1>19 DEF ArcaApproves
<1>20. ASSUME NEW a \in Attempts, ArcaRejects(a) PROVE AttemptInv'
  BY <1>20 DEF ArcaRejects
<1>21. ASSUME NEW a \in Attempts, RequestLost(a) PROVE AttemptInv'
  BY <1>21 DEF RequestLost
<1>22. ASSUME UNCHANGED vars PROVE AttemptInv'
  BY <1>22 DEF vars
<1>23. QED
  BY <1>1, <1>2, <1>3, <1>4, <1>5, <1>6, <1>7, <1>8, <1>9, <1>10, <1>11, <1>12, <1>13, <1>14, <1>15, <1>16, <1>17, <1>18, <1>19, <1>20, <1>21, <1>22, NextCases

\* Every step keeps invoices and open attempts in step with each other: each
\* commit of the protocol or of a reconciliation writes both rows.
LEMMA EvidenceStep == IInv /\ [Next]_vars => EvidenceOfUnresolved'
<1> SUFFICES ASSUME IInv, [Next]_vars PROVE EvidenceOfUnresolved'
  OBVIOUS
<1> USE ConstantsAssumption
    DEF IInv, TypeOK, WorkerInv, AttemptInv, InProtocol, HasAttempt, IsOpen, OpenStates,
        EvidenceOfUnresolved, Unresolved, dbVars, workerVars, arcaVars
<1>1. ASSUME NEW m \in Moves, Post(m) PROVE EvidenceOfUnresolved'
  BY <1>1 DEF Post, Rewrite
<1>2. ASSUME NEW m \in Moves, Draft(m) PROVE EvidenceOfUnresolved'
  BY <1>2 DEF Draft, Rewrite
<1>3. ASSUME NEW w \in Workers, NEW m \in Moves, Request(w, m) PROVE EvidenceOfUnresolved'
  BY <1>3 DEF Request, GoTo
<1>4. ASSUME NEW w \in Workers, StartProtocol(w) PROVE EvidenceOfUnresolved'
  BY <1>4 DEF StartProtocol, GoTo, Lock, LockFree
<1>5. ASSUME NEW w \in Workers, Abandon(w) PROVE EvidenceOfUnresolved'
  BY <1>5 DEF Abandon, Finish, FreeLock
<1>6. ASSUME NEW w \in Workers, CheckSequence(w) PROVE EvidenceOfUnresolved'
  BY <1>6 DEF CheckSequence, GoTo
<1>7. ASSUME NEW w \in Workers, NEW a \in Attempts, RecordAttempt(w, a) PROVE EvidenceOfUnresolved'
  <2> DEFINE m == job[w]
  <2>1. m \in Moves /\ ~Unresolved(m)
    BY <1>7 DEF RecordAttempt, GoTo
  <2>2. \A b \in Attempts : IsOpen(b)' <=> IsOpen(b) \/ b = a
    BY <1>7 DEF RecordAttempt
  <2>3. \A b \in Attempts : attMove'[b] = IF b = a THEN m ELSE attMove[b]
    BY <1>7 DEF RecordAttempt
  <2>4. \A n \in Moves : Unresolved(n)' <=> Unresolved(n) \/ n = m
    BY <1>7 DEF RecordAttempt
  <2>5. /\ ~IsOpen(a)
        /\ \A b \in Attempts : IsOpen(b) => attMove[b] # m
    BY <1>7, <2>1 DEF RecordAttempt
  <2> HIDE DEF WorkerInv, AttemptInv
  <2>6. ASSUME NEW n \in Moves
        PROVE  Unresolved(n)' <=> \E b \in Attempts : IsOpen(b)' /\ attMove'[b] = n
    <3>1. CASE n = m
      BY <2>2, <2>3, <2>4, <3>1
    <3>2. CASE n # m
      BY <2>2, <2>3, <2>4, <2>5, <3>2
    <3>3. QED
      BY <3>1, <3>2
  <2>7. ASSUME NEW b \in Attempts, NEW c \in Attempts,
               IsOpen(b)', IsOpen(c)', attMove'[b] = attMove'[c]
        PROVE  b = c
    BY <2>2, <2>3, <2>5, <2>7
  <2>8. QED
    BY <2>6, <2>7
<1>8. ASSUME NEW w \in Workers, Send(w) PROVE EvidenceOfUnresolved'
  BY <1>8 DEF Send, GoTo
<1>9. ASSUME NEW w \in Workers, NeverSent(w) PROVE EvidenceOfUnresolved'
  <2>1. CASE Conclude(w, "aborted", "rejected")
    BY <1>9, <2>1 DEF NeverSent, Conclude, Rewrite, Finish, FreeLock
  <2>2. CASE Conclude(w, "rejected", "rejected")
    BY <1>9, <2>2 DEF NeverSent, Conclude, Rewrite, Finish, FreeLock
  <2>3. QED
    BY <1>9, <2>1, <2>2 DEF NeverSent
<1>10. ASSUME NEW w \in Workers, ReceiveCae(w) PROVE EvidenceOfUnresolved'
  BY <1>10 DEF ReceiveCae, Conclude, Rewrite, Finish, FreeLock
<1>11. ASSUME NEW w \in Workers, ReceiveRefusal(w) PROVE EvidenceOfUnresolved'
  BY <1>11 DEF ReceiveRefusal, Conclude, Rewrite, Finish, FreeLock
<1>12. ASSUME NEW w \in Workers, AnswerLost(w) PROVE EvidenceOfUnresolved'
  BY <1>12 DEF AnswerLost, Conclude, Rewrite, Finish, FreeLock
<1>13. ASSUME NEW w \in Workers, NEW a \in Attempts, ListAttempt(w, a) PROVE EvidenceOfUnresolved'
  BY <1>13 DEF ListAttempt, GoTo
<1>14. ASSUME NEW w \in Workers, StartReconcile(w) PROVE EvidenceOfUnresolved'
  BY <1>14 DEF StartReconcile, GoTo, Lock, LockFree
<1>15. ASSUME NEW w \in Workers, Consult(w) PROVE EvidenceOfUnresolved'
  BY <1>15 DEF Consult, GoTo
<1>16. ASSUME NEW w \in Workers, SettleAbsent(w) PROVE EvidenceOfUnresolved'
  BY <1>16 DEF SettleAbsent, Conclude, Rewrite, Finish, FreeLock
<1>17. ASSUME NEW w \in Workers, SettleFound(w) PROVE EvidenceOfUnresolved'
  BY <1>17 DEF SettleFound, Conclude, Rewrite, Finish, FreeLock
<1>18. ASSUME NEW a \in Attempts, GoStale(a) PROVE EvidenceOfUnresolved'
  BY <1>18 DEF GoStale
<1>19. ASSUME NEW a \in Attempts, ArcaApproves(a) PROVE EvidenceOfUnresolved'
  BY <1>19 DEF ArcaApproves
<1>20. ASSUME NEW a \in Attempts, ArcaRejects(a) PROVE EvidenceOfUnresolved'
  BY <1>20 DEF ArcaRejects
<1>21. ASSUME NEW a \in Attempts, RequestLost(a) PROVE EvidenceOfUnresolved'
  BY <1>21 DEF RequestLost
<1>22. ASSUME UNCHANGED vars PROVE EvidenceOfUnresolved'
  BY <1>22 DEF vars
<1>23. QED
  BY <1>1, <1>2, <1>3, <1>4, <1>5, <1>6, <1>7, <1>8, <1>9, <1>10, <1>11, <1>12, <1>13, <1>14, <1>15, <1>16, <1>17, <1>18, <1>19, <1>20, <1>21, <1>22, NextCases

-----------------------------------------------------------------------------
(* The theorems about every instance *)

\* Nothing has been asked of ARCA in a new database.
LEMMA InitInv == Init => IInv
  BY ConstantsAssumption
     DEF Init, IInv, TypeOK, WorkerInv, AttemptInv, EvidenceOfUnresolved, IsOpen, OpenStates,
         Unresolved, InProtocol, HasAttempt, MoveStates, AttemptStates

\* The inductive invariant holds in every reachable state, for any number of
\* invoices, attempts and workers, however many of them crash.
THEOREM Invariance == Spec => []IInv
<1>1. IInv /\ [Next]_vars => IInv'
  BY TypeStep, WorkerStepInv, AttemptStepInv, EvidenceStep DEF IInv
<1>2. QED
  BY InitInv, <1>1, PTL DEF Spec

\* The fields of invoices and attempts only ever hold the values their
\* selections declare, and every worker is at a point of the protocol.
THEOREM TypeCorrect == Spec => []TypeOK
<1>1. IInv => TypeOK
  BY DEF IInv
<1>2. QED
  BY Invariance, <1>1, PTL

\* The advisory lock of fiscal_transaction excludes: two workers in the protocol
\* of one sequence would both be its holder.
THEOREM SequenceExclusion == Spec => []MutualExclusion
<1>1. IInv => MutualExclusion
  BY DEF IInv, WorkerInv, MutualExclusion
<1>2. QED
  BY Invariance, <1>1, PTL

\* The attempt and "processing" are committed together, and every later commit
\* closes both or neither, so an unresolved invoice has exactly one open attempt
\* and a settled one has none.
THEOREM UnresolvedHasEvidence == Spec => []EvidenceOfUnresolved
<1>1. IInv => EvidenceOfUnresolved
  BY DEF IInv
<1>2. QED
  BY Invariance, <1>1, PTL

\* A voucher that ARCA issued belongs to an attempt that the reconciler will
\* still look at, or that already carries it: no step that closes an attempt as
\* refused or aborted is possible once ARCA has authorized its request.
THEOREM VouchersAreTracked == Spec => []VoucherIsTracked
<1>1. IInv => VoucherIsTracked
  BY DEF IInv, TypeOK, AttemptInv, VoucherIsTracked
<1>2. QED
  BY Invariance, <1>1, PTL

\* No step takes an attempt out of a final state: a worker that would write one
\* either found it open under the lock or cannot commit.
LEMMA SettledStep ==
  ASSUME IInv, [Next]_vars, NEW b \in Attempts,
         attState[b] \in {"authorized", "rejected", "aborted"}
  PROVE  attState'[b] = attState[b]
<1> USE DEF IInv, TypeOK, WorkerInv, HasAttempt, IsOpen, OpenStates, dbVars
<1>1. ASSUME NEW m \in Moves, Post(m) PROVE attState'[b] = attState[b]
  BY <1>1 DEF Post, Rewrite
<1>2. ASSUME NEW m \in Moves, Draft(m) PROVE attState'[b] = attState[b]
  BY <1>2 DEF Draft, Rewrite
<1>3. ASSUME NEW w \in Workers, NEW m \in Moves, Request(w, m) PROVE attState'[b] = attState[b]
  BY <1>3 DEF Request, GoTo
<1>4. ASSUME NEW w \in Workers, StartProtocol(w) PROVE attState'[b] = attState[b]
  BY <1>4 DEF StartProtocol, GoTo, Lock, LockFree
<1>5. ASSUME NEW w \in Workers, Abandon(w) PROVE attState'[b] = attState[b]
  BY <1>5 DEF Abandon, Finish, FreeLock
<1>6. ASSUME NEW w \in Workers, CheckSequence(w) PROVE attState'[b] = attState[b]
  BY <1>6 DEF CheckSequence, GoTo
<1>7. ASSUME NEW w \in Workers, NEW a \in Attempts, RecordAttempt(w, a) PROVE attState'[b] = attState[b]
  BY <1>7 DEF RecordAttempt, GoTo, Rewrite
<1>8. ASSUME NEW w \in Workers, Send(w) PROVE attState'[b] = attState[b]
  BY <1>8 DEF Send, GoTo
<1>9. ASSUME NEW w \in Workers, NeverSent(w) PROVE attState'[b] = attState[b]
  BY <1>9 DEF NeverSent, Conclude, Rewrite, Finish, FreeLock
<1>10. ASSUME NEW w \in Workers, ReceiveCae(w) PROVE attState'[b] = attState[b]
  BY <1>10 DEF ReceiveCae, Conclude, Rewrite, Finish, FreeLock
<1>11. ASSUME NEW w \in Workers, ReceiveRefusal(w) PROVE attState'[b] = attState[b]
  BY <1>11 DEF ReceiveRefusal, Conclude, Rewrite, Finish, FreeLock
<1>12. ASSUME NEW w \in Workers, AnswerLost(w) PROVE attState'[b] = attState[b]
  BY <1>12 DEF AnswerLost, Conclude, Rewrite, Finish, FreeLock
<1>13. ASSUME NEW w \in Workers, NEW a \in Attempts, ListAttempt(w, a) PROVE attState'[b] = attState[b]
  BY <1>13 DEF ListAttempt, GoTo
<1>14. ASSUME NEW w \in Workers, StartReconcile(w) PROVE attState'[b] = attState[b]
  BY <1>14 DEF StartReconcile, GoTo, Lock, LockFree
<1>15. ASSUME NEW w \in Workers, Consult(w) PROVE attState'[b] = attState[b]
  BY <1>15 DEF Consult, GoTo
<1>16. ASSUME NEW w \in Workers, SettleAbsent(w) PROVE attState'[b] = attState[b]
  BY <1>16 DEF SettleAbsent, Conclude, Rewrite, Finish, FreeLock
<1>17. ASSUME NEW w \in Workers, SettleFound(w) PROVE attState'[b] = attState[b]
  BY <1>17 DEF SettleFound, Conclude, Rewrite, Finish, FreeLock
<1>18. ASSUME NEW a \in Attempts, GoStale(a) PROVE attState'[b] = attState[b]
  BY <1>18 DEF GoStale
<1>19. ASSUME NEW a \in Attempts, ArcaApproves(a) PROVE attState'[b] = attState[b]
  BY <1>19 DEF ArcaApproves
<1>20. ASSUME NEW a \in Attempts, ArcaRejects(a) PROVE attState'[b] = attState[b]
  BY <1>20 DEF ArcaRejects
<1>21. ASSUME NEW a \in Attempts, RequestLost(a) PROVE attState'[b] = attState[b]
  BY <1>21 DEF RequestLost
<1>22. ASSUME UNCHANGED vars PROVE attState'[b] = attState[b]
  BY <1>22 DEF vars
<1>23. QED
  BY <1>1, <1>2, <1>3, <1>4, <1>5, <1>6, <1>7, <1>8, <1>9, <1>10, <1>11, <1>12, <1>13, <1>14, <1>15, <1>16, <1>17, <1>18, <1>19, <1>20, <1>21, <1>22, NextCases

\* _mark_authorized, _mark_rejected and _mark_aborted are never applied to an
\* attempt that one of them has already closed.
THEOREM SettledStaysSettled == Spec => SettledIsFinal
<1>1. IInv /\ [Next]_vars =>
        [\A a \in Attempts : attState[a] \in {"authorized", "rejected", "aborted"} =>
           attState'[a] = attState[a]]_vars
  BY SettledStep
<1>2. QED
  BY Invariance, <1>1, PTL DEF Spec, SettledIsFinal

\* No step takes an invoice out of "authorized" or changes its CAE.
LEMMA AuthorizedStep ==
  ASSUME IInv, [Next]_vars, NEW n \in Moves, arcaState[n] = "authorized"
  PROVE  arcaState'[n] = "authorized" /\ moveCae'[n] = moveCae[n]
<1> USE DEF IInv, TypeOK, WorkerInv, HasAttempt, IsOpen, OpenStates, dbVars,
            EvidenceOfUnresolved, Unresolved
<1>1. ASSUME NEW m \in Moves, Post(m) PROVE arcaState'[n] = "authorized" /\ moveCae'[n] = moveCae[n]
  BY <1>1 DEF Post, Rewrite
<1>2. ASSUME NEW m \in Moves, Draft(m) PROVE arcaState'[n] = "authorized" /\ moveCae'[n] = moveCae[n]
  BY <1>2 DEF Draft, Rewrite
<1>3. ASSUME NEW w \in Workers, NEW m \in Moves, Request(w, m) PROVE arcaState'[n] = "authorized" /\ moveCae'[n] = moveCae[n]
  BY <1>3 DEF Request, GoTo
<1>4. ASSUME NEW w \in Workers, StartProtocol(w) PROVE arcaState'[n] = "authorized" /\ moveCae'[n] = moveCae[n]
  BY <1>4 DEF StartProtocol, GoTo, Lock, LockFree
<1>5. ASSUME NEW w \in Workers, Abandon(w) PROVE arcaState'[n] = "authorized" /\ moveCae'[n] = moveCae[n]
  BY <1>5 DEF Abandon, Finish, FreeLock
<1>6. ASSUME NEW w \in Workers, CheckSequence(w) PROVE arcaState'[n] = "authorized" /\ moveCae'[n] = moveCae[n]
  BY <1>6 DEF CheckSequence, GoTo
<1>7. ASSUME NEW w \in Workers, NEW a \in Attempts, RecordAttempt(w, a) PROVE arcaState'[n] = "authorized" /\ moveCae'[n] = moveCae[n]
  BY <1>7 DEF RecordAttempt, GoTo, Rewrite
<1>8. ASSUME NEW w \in Workers, Send(w) PROVE arcaState'[n] = "authorized" /\ moveCae'[n] = moveCae[n]
  BY <1>8 DEF Send, GoTo
<1>9. ASSUME NEW w \in Workers, NeverSent(w) PROVE arcaState'[n] = "authorized" /\ moveCae'[n] = moveCae[n]
  BY <1>9 DEF NeverSent, Conclude, Rewrite, Finish, FreeLock
<1>10. ASSUME NEW w \in Workers, ReceiveCae(w) PROVE arcaState'[n] = "authorized" /\ moveCae'[n] = moveCae[n]
  BY <1>10 DEF ReceiveCae, Conclude, Rewrite, Finish, FreeLock
<1>11. ASSUME NEW w \in Workers, ReceiveRefusal(w) PROVE arcaState'[n] = "authorized" /\ moveCae'[n] = moveCae[n]
  BY <1>11 DEF ReceiveRefusal, Conclude, Rewrite, Finish, FreeLock
<1>12. ASSUME NEW w \in Workers, AnswerLost(w) PROVE arcaState'[n] = "authorized" /\ moveCae'[n] = moveCae[n]
  BY <1>12 DEF AnswerLost, Conclude, Rewrite, Finish, FreeLock
<1>13. ASSUME NEW w \in Workers, NEW a \in Attempts, ListAttempt(w, a) PROVE arcaState'[n] = "authorized" /\ moveCae'[n] = moveCae[n]
  BY <1>13 DEF ListAttempt, GoTo
<1>14. ASSUME NEW w \in Workers, StartReconcile(w) PROVE arcaState'[n] = "authorized" /\ moveCae'[n] = moveCae[n]
  BY <1>14 DEF StartReconcile, GoTo, Lock, LockFree
<1>15. ASSUME NEW w \in Workers, Consult(w) PROVE arcaState'[n] = "authorized" /\ moveCae'[n] = moveCae[n]
  BY <1>15 DEF Consult, GoTo
<1>16. ASSUME NEW w \in Workers, SettleAbsent(w) PROVE arcaState'[n] = "authorized" /\ moveCae'[n] = moveCae[n]
  BY <1>16 DEF SettleAbsent, Conclude, Rewrite, Finish, FreeLock
<1>17. ASSUME NEW w \in Workers, SettleFound(w) PROVE arcaState'[n] = "authorized" /\ moveCae'[n] = moveCae[n]
  BY <1>17 DEF SettleFound, Conclude, Rewrite, Finish, FreeLock
<1>18. ASSUME NEW a \in Attempts, GoStale(a) PROVE arcaState'[n] = "authorized" /\ moveCae'[n] = moveCae[n]
  BY <1>18 DEF GoStale
<1>19. ASSUME NEW a \in Attempts, ArcaApproves(a) PROVE arcaState'[n] = "authorized" /\ moveCae'[n] = moveCae[n]
  BY <1>19 DEF ArcaApproves
<1>20. ASSUME NEW a \in Attempts, ArcaRejects(a) PROVE arcaState'[n] = "authorized" /\ moveCae'[n] = moveCae[n]
  BY <1>20 DEF ArcaRejects
<1>21. ASSUME NEW a \in Attempts, RequestLost(a) PROVE arcaState'[n] = "authorized" /\ moveCae'[n] = moveCae[n]
  BY <1>21 DEF RequestLost
<1>22. ASSUME UNCHANGED vars PROVE arcaState'[n] = "authorized" /\ moveCae'[n] = moveCae[n]
  BY <1>22 DEF vars
<1>23. QED
  BY <1>1, <1>2, <1>3, <1>4, <1>5, <1>6, <1>7, <1>8, <1>9, <1>10, <1>11, <1>12, <1>13, <1>14, <1>15, <1>16, <1>17, <1>18, <1>19, <1>20, <1>21, <1>22, NextCases

\* Once an invoice says authorized, no reopening, late answer, reconciliation or
\* second request alters that or its CAE.
THEOREM AuthorizedStaysAuthorized == Spec => AuthorizedIsFinal
<1>1. IInv /\ [Next]_vars =>
        [\A m \in Moves : arcaState[m] = "authorized" =>
           arcaState'[m] = "authorized" /\ moveCae'[m] = moveCae[m]]_vars
  BY AuthorizedStep
<1>2. QED
  BY Invariance, <1>1, PTL DEF Spec, AuthorizedIsFinal


=============================================================================
