----------------------- MODULE ArcaProtocolOrder_proofs -----------------------
(***************************************************************************)
(* What holds of ArcaProtocol when no two invoices share a number of a     *)
(* sequence, as in a database where one company issues under each CUIT     *)
(* (Odoo keeps the names of a journal's posted invoices distinct):         *)
(* requests reach ARCA in order, a CAE belongs to its invoice, and the     *)
(* protocol keeps the promise of FiscalPromise.  With two companies on one *)
(* CUIT the assumption fails, and so do these theorems.                    *)
(***************************************************************************)
EXTENDS ArcaProtocol_proofs

DistinctNumbers == \A m, n \in Moves : SameCoordinates(m, n) => m = n

\* The number a worker has checked is still ARCA's next one when it sends.
NumberInv == \A w \in Workers :
  pc[w] = "evidence" \/ (pc[w] = "checked" /\ ~dirty[w]) =>
    NumberOf[job[w]] = last[SeqOf[job[w]]] + 1

OInv == IInv /\ NumberInv /\ RequestsInOrder /\ CaeIsOwn

-----------------------------------------------------------------------------
(* Order *)

\* Two attempts in flight with the same coordinates are one attempt.
LEMMA OneInFlight ==
  ASSUME DistinctNumbers, IInv, NEW a \in flight, NEW b \in flight,
         SameCoordinates(attMove[a], attMove[b])
  PROVE  a = b
  BY DEF DistinctNumbers, IInv, TypeOK, AttemptInv, EvidenceOfUnresolved, IsOpen, OpenStates

\* Nothing is in flight under the number a worker is about to send: the request
\* would be of an earlier attempt of the same invoice, still open, and the invoice
\* would not have passed the readiness check.
LEMMA NumberIsFree ==
  ASSUME DistinctNumbers, IInv, NEW a \in flight, NEW w \in Workers,
         pc[w] = "evidence" \/ (pc[w] = "checked" /\ ~dirty[w])
  PROVE  ~SameCoordinates(attMove[a], job[w])
<1> SUFFICES ASSUME SameCoordinates(attMove[a], job[w]) PROVE FALSE
  OBVIOUS
<1> USE DEF IInv, TypeOK, AttemptInv, WorkerInv, HasAttempt, EvidenceOfUnresolved, IsOpen, OpenStates
<1>1. a \in Attempts /\ IsOpen(a) /\ attMove[a] \in Moves
  OBVIOUS
<1>2. attMove[a] = job[w]
  BY <1>1 DEF DistinctNumbers
<1>3. CASE pc[w] = "evidence"
  BY <1>1, <1>2, <1>3
<1>4. CASE pc[w] = "checked" /\ ~dirty[w]
  BY <1>1, <1>2, <1>4 DEF Unresolved
<1>5. QED
  BY <1>3, <1>4

\* From FECompUltimoAutorizado to its answer, a worker's number stays the next
\* one of its sequence: ARCA can only advance the sequence by a request in flight.
LEMMA NumberStep ==
  ASSUME DistinctNumbers, OInv, [Next]_vars
  PROVE  NumberInv'
<1> USE ConstantsAssumption
    DEF OInv, IInv, TypeOK, NumberInv, WorkerInv, HasAttempt, Snapshotted,
        dbVars, workerVars, arcaVars
<1>1. ASSUME NEW m \in Moves, Post(m) PROVE NumberInv'
  BY <1>1 DEF Post, Rewrite
<1>2. ASSUME NEW m \in Moves, Draft(m) PROVE NumberInv'
  BY <1>2 DEF Draft, Rewrite
<1>3. ASSUME NEW w \in Workers, NEW m \in Moves, Request(w, m) PROVE NumberInv'
  BY <1>3 DEF Request, GoTo
<1>4. ASSUME NEW w \in Workers, StartProtocol(w) PROVE NumberInv'
  BY <1>4 DEF StartProtocol, GoTo, Lock, LockFree
<1>5. ASSUME NEW w \in Workers, Abandon(w) PROVE NumberInv'
  BY <1>5 DEF Abandon, Finish, FreeLock
<1>6. ASSUME NEW w \in Workers, CheckSequence(w) PROVE NumberInv'
  BY <1>6 DEF CheckSequence, GoTo
<1>7. ASSUME NEW w \in Workers, NEW a \in Attempts, RecordAttempt(w, a) PROVE NumberInv'
  BY <1>7 DEF RecordAttempt, GoTo, Rewrite
<1>8. ASSUME NEW w \in Workers, Send(w) PROVE NumberInv'
  BY <1>8 DEF Send, GoTo
<1>9. ASSUME NEW w \in Workers, NeverSent(w) PROVE NumberInv'
  <2>1. CASE Conclude(w, "aborted", "rejected")
    BY <1>9, <2>1 DEF NeverSent, Conclude, Rewrite, Finish, FreeLock
  <2>2. CASE Conclude(w, "rejected", "rejected")
    BY <1>9, <2>2 DEF NeverSent, Conclude, Rewrite, Finish, FreeLock
  <2>3. QED
    BY <1>9, <2>1, <2>2 DEF NeverSent
<1>10. ASSUME NEW w \in Workers, ReceiveCae(w) PROVE NumberInv'
  BY <1>10 DEF ReceiveCae, Conclude, Rewrite, Finish, FreeLock
<1>11. ASSUME NEW w \in Workers, ReceiveRefusal(w) PROVE NumberInv'
  BY <1>11 DEF ReceiveRefusal, Conclude, Rewrite, Finish, FreeLock
<1>12. ASSUME NEW w \in Workers, AnswerLost(w) PROVE NumberInv'
  BY <1>12 DEF AnswerLost, Conclude, Rewrite, Finish, FreeLock
<1>13. ASSUME NEW w \in Workers, NEW a \in Attempts, ListAttempt(w, a) PROVE NumberInv'
  BY <1>13 DEF ListAttempt, GoTo
<1>14. ASSUME NEW w \in Workers, StartReconcile(w) PROVE NumberInv'
  BY <1>14 DEF StartReconcile, GoTo, Lock, LockFree
<1>15. ASSUME NEW w \in Workers, Consult(w) PROVE NumberInv'
  BY <1>15 DEF Consult, GoTo
<1>16. ASSUME NEW w \in Workers, SettleAbsent(w) PROVE NumberInv'
  BY <1>16 DEF SettleAbsent, Conclude, Rewrite, Finish, FreeLock
<1>17. ASSUME NEW w \in Workers, SettleFound(w) PROVE NumberInv'
  BY <1>17 DEF SettleFound, Conclude, Rewrite, Finish, FreeLock
<1>18. ASSUME NEW a \in Attempts, GoStale(a) PROVE NumberInv'
  BY <1>18 DEF GoStale
<1>19. ASSUME NEW a \in Attempts, ArcaApproves(a) PROVE NumberInv'
  <2>1. a \in Attempts /\ attMove[a] \in Moves
    BY <1>19 DEF ArcaApproves, AttemptInv
  <2>2. SUFFICES ASSUME NEW w \in Workers,
                        (pc[w] = "evidence" \/ (pc[w] = "checked" /\ ~dirty[w]))'
                 PROVE  (NumberOf[job[w]] = last[SeqOf[job[w]]] + 1)'
    BY DEF NumberInv
  <2>3. job[w] \in Moves /\ NumberOf[job[w]] = last[SeqOf[job[w]]] + 1
    BY <1>19, <2>2 DEF ArcaApproves
  <2>4. ~SameCoordinates(attMove[a], job[w])
    BY <1>19, <2>2, NumberIsFree DEF ArcaApproves
  <2>5. SeqOf[attMove[a]] # SeqOf[job[w]]
    BY <1>19, <2>3, <2>4 DEF ArcaApproves, SameCoordinates
  <2>6. QED
    BY <1>19, <2>1, <2>3, <2>5 DEF ArcaApproves
<1>20. ASSUME NEW a \in Attempts, ArcaRejects(a) PROVE NumberInv'
  BY <1>20 DEF ArcaRejects
<1>21. ASSUME NEW a \in Attempts, RequestLost(a) PROVE NumberInv'
  BY <1>21 DEF RequestLost
<1>22. ASSUME UNCHANGED vars PROVE NumberInv'
  BY <1>22 DEF vars
<1>23. QED
  BY <1>1, <1>2, <1>3, <1>4, <1>5, <1>6, <1>7, <1>8, <1>9, <1>10, <1>11, <1>12, <1>13, <1>14, <1>15, <1>16, <1>17, <1>18, <1>19, <1>20, <1>21, <1>22, NextCases

\* Every step keeps the requests in flight at the next number of their sequence.
LEMMA OrderStep ==
  ASSUME DistinctNumbers, OInv, [Next]_vars
  PROVE  RequestsInOrder'
<1> USE ConstantsAssumption
    DEF OInv, IInv, TypeOK, AttemptInv, NumberInv, WorkerInv, HasAttempt, RequestsInOrder,
        dbVars, workerVars, arcaVars
<1>1. ASSUME NEW m \in Moves, Post(m) PROVE RequestsInOrder'
  BY <1>1 DEF Post, Rewrite
<1>2. ASSUME NEW m \in Moves, Draft(m) PROVE RequestsInOrder'
  BY <1>2 DEF Draft, Rewrite
<1>3. ASSUME NEW w \in Workers, NEW m \in Moves, Request(w, m) PROVE RequestsInOrder'
  BY <1>3 DEF Request, GoTo
<1>4. ASSUME NEW w \in Workers, StartProtocol(w) PROVE RequestsInOrder'
  BY <1>4 DEF StartProtocol, GoTo, Lock, LockFree
<1>5. ASSUME NEW w \in Workers, Abandon(w) PROVE RequestsInOrder'
  BY <1>5 DEF Abandon, Finish, FreeLock
<1>6. ASSUME NEW w \in Workers, CheckSequence(w) PROVE RequestsInOrder'
  BY <1>6 DEF CheckSequence, GoTo
<1>7. ASSUME NEW w \in Workers, NEW a \in Attempts, RecordAttempt(w, a) PROVE RequestsInOrder'
  BY <1>7 DEF RecordAttempt, GoTo, Rewrite
<1>8. ASSUME NEW w \in Workers, Send(w) PROVE RequestsInOrder'
  BY <1>8 DEF Send, GoTo
<1>9. ASSUME NEW w \in Workers, NeverSent(w) PROVE RequestsInOrder'
  <2>1. CASE Conclude(w, "aborted", "rejected")
    BY <1>9, <2>1 DEF NeverSent, Conclude, Rewrite, Finish, FreeLock
  <2>2. CASE Conclude(w, "rejected", "rejected")
    BY <1>9, <2>2 DEF NeverSent, Conclude, Rewrite, Finish, FreeLock
  <2>3. QED
    BY <1>9, <2>1, <2>2 DEF NeverSent
<1>10. ASSUME NEW w \in Workers, ReceiveCae(w) PROVE RequestsInOrder'
  BY <1>10 DEF ReceiveCae, Conclude, Rewrite, Finish, FreeLock
<1>11. ASSUME NEW w \in Workers, ReceiveRefusal(w) PROVE RequestsInOrder'
  BY <1>11 DEF ReceiveRefusal, Conclude, Rewrite, Finish, FreeLock
<1>12. ASSUME NEW w \in Workers, AnswerLost(w) PROVE RequestsInOrder'
  BY <1>12 DEF AnswerLost, Conclude, Rewrite, Finish, FreeLock
<1>13. ASSUME NEW w \in Workers, NEW a \in Attempts, ListAttempt(w, a) PROVE RequestsInOrder'
  BY <1>13 DEF ListAttempt, GoTo
<1>14. ASSUME NEW w \in Workers, StartReconcile(w) PROVE RequestsInOrder'
  BY <1>14 DEF StartReconcile, GoTo, Lock, LockFree
<1>15. ASSUME NEW w \in Workers, Consult(w) PROVE RequestsInOrder'
  BY <1>15 DEF Consult, GoTo
<1>16. ASSUME NEW w \in Workers, SettleAbsent(w) PROVE RequestsInOrder'
  BY <1>16 DEF SettleAbsent, Conclude, Rewrite, Finish, FreeLock
<1>17. ASSUME NEW w \in Workers, SettleFound(w) PROVE RequestsInOrder'
  BY <1>17 DEF SettleFound, Conclude, Rewrite, Finish, FreeLock
<1>18. ASSUME NEW a \in Attempts, GoStale(a) PROVE RequestsInOrder'
  BY <1>18 DEF GoStale
<1>19. ASSUME NEW a \in Attempts, ArcaApproves(a) PROVE RequestsInOrder'
  <2>1. a \in Attempts /\ attMove[a] \in Moves
    BY <1>19 DEF ArcaApproves
  <2>2. SUFFICES ASSUME NEW b \in flight, b # a
                 PROVE  (NumberOf[attMove[b]] = last[SeqOf[attMove[b]]] + 1)'
    BY <1>19 DEF ArcaApproves
  <2>3. attMove[b] \in Moves /\ NumberOf[attMove[b]] = last[SeqOf[attMove[b]]] + 1
    OBVIOUS
  <2>4. ~SameCoordinates(attMove[a], attMove[b])
    BY <1>19, <2>2, OneInFlight DEF ArcaApproves
  <2>5. SeqOf[attMove[a]] # SeqOf[attMove[b]]
    BY <1>19, <2>3, <2>4 DEF ArcaApproves, SameCoordinates
  <2>6. QED
    BY <1>19, <2>1, <2>3, <2>5 DEF ArcaApproves
<1>20. ASSUME NEW a \in Attempts, ArcaRejects(a) PROVE RequestsInOrder'
  BY <1>20 DEF ArcaRejects
<1>21. ASSUME NEW a \in Attempts, RequestLost(a) PROVE RequestsInOrder'
  BY <1>21 DEF RequestLost
<1>22. ASSUME UNCHANGED vars PROVE RequestsInOrder'
  BY <1>22 DEF vars
<1>23. QED
  BY <1>1, <1>2, <1>3, <1>4, <1>5, <1>6, <1>7, <1>8, <1>9, <1>10, <1>11, <1>12, <1>13, <1>14, <1>15, <1>16, <1>17, <1>18, <1>19, <1>20, <1>21, <1>22, NextCases

-----------------------------------------------------------------------------
(* A CAE belongs to its invoice *)

\* Every step keeps each CAE with the invoice it was issued to.
LEMMA CaeStep ==
  ASSUME DistinctNumbers, OInv, [Next]_vars
  PROVE  CaeIsOwn'
<1> USE ConstantsAssumption
    DEF OInv, IInv, TypeOK, AttemptInv, WorkerInv, HasAttempt, CaeIsOwn, IsOpen, OpenStates,
        EvidenceOfUnresolved, Unresolved, dbVars, workerVars, arcaVars
<1>1. ASSUME NEW m \in Moves, Post(m) PROVE CaeIsOwn'
  BY <1>1 DEF Post, Rewrite
<1>2. ASSUME NEW m \in Moves, Draft(m) PROVE CaeIsOwn'
  BY <1>2 DEF Draft, Rewrite
<1>3. ASSUME NEW w \in Workers, NEW m \in Moves, Request(w, m) PROVE CaeIsOwn'
  BY <1>3 DEF Request, GoTo
<1>4. ASSUME NEW w \in Workers, StartProtocol(w) PROVE CaeIsOwn'
  BY <1>4 DEF StartProtocol, GoTo, Lock, LockFree
<1>5. ASSUME NEW w \in Workers, Abandon(w) PROVE CaeIsOwn'
  BY <1>5 DEF Abandon, Finish, FreeLock
<1>6. ASSUME NEW w \in Workers, CheckSequence(w) PROVE CaeIsOwn'
  BY <1>6 DEF CheckSequence, GoTo
<1>7. ASSUME NEW w \in Workers, NEW a \in Attempts, RecordAttempt(w, a) PROVE CaeIsOwn'
  BY <1>7 DEF RecordAttempt, GoTo, Rewrite
<1>8. ASSUME NEW w \in Workers, Send(w) PROVE CaeIsOwn'
  BY <1>8 DEF Send, GoTo
<1>9. ASSUME NEW w \in Workers, NeverSent(w) PROVE CaeIsOwn'
  <2>1. CASE Conclude(w, "aborted", "rejected")
    BY <1>9, <2>1 DEF NeverSent, Conclude, Rewrite, Finish, FreeLock
  <2>2. CASE Conclude(w, "rejected", "rejected")
    BY <1>9, <2>2 DEF NeverSent, Conclude, Rewrite, Finish, FreeLock
  <2>3. QED
    BY <1>9, <2>1, <2>2 DEF NeverSent
<1>10. ASSUME NEW w \in Workers, ReceiveCae(w) PROVE CaeIsOwn'
  BY <1>10 DEF ReceiveCae, Conclude, Rewrite, Finish, FreeLock
<1>11. ASSUME NEW w \in Workers, ReceiveRefusal(w) PROVE CaeIsOwn'
  BY <1>11 DEF ReceiveRefusal, Conclude, Rewrite, Finish, FreeLock
<1>12. ASSUME NEW w \in Workers, AnswerLost(w) PROVE CaeIsOwn'
  BY <1>12 DEF AnswerLost, Conclude, Rewrite, Finish, FreeLock
<1>13. ASSUME NEW w \in Workers, NEW a \in Attempts, ListAttempt(w, a) PROVE CaeIsOwn'
  BY <1>13 DEF ListAttempt, GoTo
<1>14. ASSUME NEW w \in Workers, StartReconcile(w) PROVE CaeIsOwn'
  BY <1>14 DEF StartReconcile, GoTo, Lock, LockFree
<1>15. ASSUME NEW w \in Workers, Consult(w) PROVE CaeIsOwn'
  BY <1>15 DEF Consult, GoTo
<1>16. ASSUME NEW w \in Workers, SettleAbsent(w) PROVE CaeIsOwn'
  BY <1>16 DEF SettleAbsent, Conclude, Rewrite, Finish, FreeLock
<1>17. ASSUME NEW w \in Workers, SettleFound(w) PROVE CaeIsOwn'
  <2>1. found[w] \in issued /\ attMove[found[w]] = job[w]
    BY <1>17 DEF SettleFound, DistinctNumbers
  <2>2. QED
    BY <1>17, <2>1 DEF SettleFound, Conclude, Rewrite, Finish, FreeLock
<1>18. ASSUME NEW a \in Attempts, GoStale(a) PROVE CaeIsOwn'
  BY <1>18 DEF GoStale
<1>19. ASSUME NEW a \in Attempts, ArcaApproves(a) PROVE CaeIsOwn'
  BY <1>19 DEF ArcaApproves
<1>20. ASSUME NEW a \in Attempts, ArcaRejects(a) PROVE CaeIsOwn'
  BY <1>20 DEF ArcaRejects
<1>21. ASSUME NEW a \in Attempts, RequestLost(a) PROVE CaeIsOwn'
  BY <1>21 DEF RequestLost
<1>22. ASSUME UNCHANGED vars PROVE CaeIsOwn'
  BY <1>22 DEF vars
<1>23. QED
  BY <1>1, <1>2, <1>3, <1>4, <1>5, <1>6, <1>7, <1>8, <1>9, <1>10, <1>11, <1>12, <1>13, <1>14, <1>15, <1>16, <1>17, <1>18, <1>19, <1>20, <1>21, <1>22, NextCases

\* Nothing is in flight in a new database.
LEMMA InitOrder == Init => OInv
  BY InitInv, ConstantsAssumption DEF Init, OInv, NumberInv, RequestsInOrder, CaeIsOwn

\* With distinct numbers, the strengthened invariant holds in every state.
THEOREM OrderInvariance == ASSUME DistinctNumbers PROVE Spec => []OInv
<1>1. OInv /\ [Next]_vars => OInv'
  BY NumberStep, OrderStep, CaeStep, TypeStep, WorkerStepInv, AttemptStepInv, EvidenceStep
     DEF OInv, IInv
<1>2. QED
  BY InitOrder, <1>1, PTL DEF Spec

\* _l10n_ar_arca_check_sequence is enough: although it compares the number with
\* ARCA's counter before the request is recorded and sent, no request ever travels
\* under another number than the next one.
THEOREM RequestsGoInOrder == ASSUME DistinctNumbers PROVE Spec => []RequestsInOrder
<1>1. OInv => RequestsInOrder
  BY DEF OInv
<1>2. QED
  BY OrderInvariance, <1>1, PTL

\* The CAE an authorized invoice carries, received directly or adopted by a
\* reconciliation, is that of a voucher ARCA issued to a request of this invoice.
THEOREM CaesAreOwn == ASSUME DistinctNumbers PROVE Spec => []CaeIsOwn
<1>1. OInv => CaeIsOwn
  BY DEF OInv
<1>2. QED
  BY OrderInvariance, <1>1, PTL

-----------------------------------------------------------------------------
(***************************************************************************)
(* ArcaProtocol implements FiscalPromise when no two invoices share a      *)
(* number.  Only the commits that open or close an attempt, and ARCA's     *)
(* authorization, are steps of the promise; everything else stutters.      *)
(***************************************************************************)

\* The promise's view of a step that changes nothing it can see.
Silent == UNCHANGED <<BookStatus, Vouchers>>

\* A voucher of an invoice that is not authorized is of its open attempt.
LEMMA VoucherIsOpen ==
  ASSUME IInv, NEW m \in Moves, m \in Vouchers, arcaState[m] # "authorized"
  PROVE  \E x \in issued : attMove[x] = m /\ IsOpen(x)
  BY DEF IInv, TypeOK, AttemptInv, Vouchers, IsOpen, OpenStates

\* An invoice whose books say "open" has no voucher: an issued request would
\* leave it processing, uncertain or authorized.
LEMMA OpenHasNoVoucher ==
  ASSUME IInv, NEW m \in Moves, ~Unresolved(m), arcaState[m] # "authorized"
  PROVE  m \notin Vouchers
  BY VoucherIsOpen DEF IInv, TypeOK, EvidenceOfUnresolved

\* An invoice with an open attempt that ARCA has not authorized has no voucher.
LEMMA UnissuedHasNoVoucher ==
  ASSUME IInv, NEW a \in Attempts, IsOpen(a), a \notin issued
  PROVE  /\ attMove[a] \in Moves
         /\ Unresolved(attMove[a])
         /\ attMove[a] \notin Vouchers
<1>1. attMove[a] \in Moves
  BY DEF IInv, AttemptInv, IsOpen, OpenStates
<1>2. Unresolved(attMove[a])
  BY <1>1 DEF IInv, EvidenceOfUnresolved
<1>3. attMove[a] \notin Vouchers
  <2> SUFFICES ASSUME attMove[a] \in Vouchers PROVE FALSE
    OBVIOUS
  <2>1. PICK x \in issued : attMove[x] = attMove[a] /\ IsOpen(x)
    BY <1>1, <1>2, VoucherIsOpen DEF Unresolved
  <2>2. x = a
    BY <2>1 DEF IInv, TypeOK, EvidenceOfUnresolved
  <2>3. QED
    BY <2>2
<1>4. QED
  BY <1>1, <1>2, <1>3

\* A worker's conclusion changes the books of its own invoice only.
LEMMA ConcludeStatus ==
  ASSUME IInv, NEW w \in Workers, pc[w] \in {"evidence", "waiting", "consult", "apply"},
         NEW attempt, NEW move, Conclude(w, attempt, move)
  PROVE  /\ job[w] \in Moves
         /\ Vouchers' = Vouchers
         /\ BookStatus' = [BookStatus EXCEPT ![job[w]] = StatusOf(move)]
<1>1. arcaState' = [arcaState EXCEPT ![job[w]] = move] /\ UNCHANGED <<attMove, issued>>
  BY DEF Conclude, arcaVars
<1>2. job[w] \in Moves
  BY DEF IInv, WorkerInv
<1>3. arcaState \in [Moves -> MoveStates]
  BY DEF IInv, TypeOK
<1>4. \A m \in Moves : StatusOf(arcaState'[m]) =
                         IF m = job[w] THEN StatusOf(move) ELSE StatusOf(arcaState[m])
  BY <1>1, <1>2, <1>3
<1>5. BookStatus' = [BookStatus EXCEPT ![job[w]] = StatusOf(move)]
  BY <1>2, <1>4 DEF BookStatus
<1>6. Vouchers' = Vouchers
  BY <1>1 DEF Vouchers
<1>7. QED
  BY <1>2, <1>5, <1>6

-----------------------------------------------------------------------------
(* The steps the promise can see *)

\* A commit of the attempt and "processing" asks.
LEMMA RecordAsks ==
  ASSUME IInv, NEW w \in Workers, NEW a \in Attempts, RecordAttempt(w, a)
  PROVE  \E m \in Moves : Promise!Ask(m)
<1> DEFINE m == job[w]
<1>1. m \in Moves /\ arcaState[m] \in {"pending", "rejected"}
  BY DEF RecordAttempt, GoTo, IInv, WorkerInv
<1>2. m \notin Vouchers /\ BookStatus[m] = "open"
  BY <1>1, OpenHasNoVoucher DEF Unresolved, BookStatus, StatusOf
<1>3. a \notin issued /\ Vouchers' = Vouchers
  BY DEF RecordAttempt, IInv, TypeOK, AttemptInv, Vouchers, arcaVars
<1>4. \A n \in Moves : StatusOf(arcaState'[n]) =
                         IF n = m THEN "unknown" ELSE StatusOf(arcaState[n])
  BY <1>1 DEF RecordAttempt, IInv, TypeOK, StatusOf
<1>5. BookStatus' = [BookStatus EXCEPT ![m] = "unknown"]
  BY <1>1, <1>4 DEF BookStatus
<1>6. QED
  BY <1>1, <1>2, <1>3, <1>5 DEF Promise!Ask

\* ARCA's authorization of a request issues the voucher of its invoice.
LEMMA ApprovalIssues ==
  ASSUME IInv, NEW a \in Attempts, ArcaApproves(a)
  PROVE  \E m \in Moves : Promise!Issue(m)
<1> DEFINE m == attMove[a]
<1>1. IsOpen(a) /\ a \notin issued
  BY DEF ArcaApproves, IInv, AttemptInv, IsOpen, OpenStates
<1>2. m \in Moves /\ Unresolved(m) /\ m \notin Vouchers
  BY <1>1, UnissuedHasNoVoucher
<1>3. BookStatus[m] = "unknown"
  BY <1>2 DEF BookStatus, StatusOf, Unresolved
<1>4. Vouchers' = Vouchers \cup {m} /\ UNCHANGED BookStatus
  BY DEF ArcaApproves, Vouchers, BookStatus, dbVars
<1>5. QED
  BY <1>2, <1>3, <1>4 DEF Promise!Issue

\* An outcome "authorized" is committed only of an invoice that has a voucher.
LEMMA AuthorizationLearns ==
  ASSUME DistinctNumbers, IInv, NEW w \in Workers, ReceiveCae(w) \/ SettleFound(w)
  PROVE  \E m \in Moves : Promise!Learn(m)
<1> DEFINE m == job[w]
<1>1. pc[w] \in {"waiting", "apply"} /\ Conclude(w, "authorized", "authorized")
  BY DEF ReceiveCae, SettleFound
<1>2. /\ m \in Moves /\ Vouchers' = Vouchers
      /\ BookStatus' = [BookStatus EXCEPT ![m] = "authorized"]
  BY <1>1, ConcludeStatus DEF StatusOf
<1>3. IsOpen(tried[w]) /\ tried[w] \in Attempts /\ attMove[tried[w]] = m
  BY <1>1 DEF IInv, WorkerInv, HasAttempt, IsOpen, OpenStates
<1>4. m \in Vouchers
  <2>1. CASE ReceiveCae(w)
    BY <2>1, <1>3 DEF ReceiveCae, IInv, AttemptInv, Vouchers
  <2>2. CASE SettleFound(w)
    <3>1. found[w] \in issued /\ SameCoordinates(attMove[found[w]], m)
      BY <2>2 DEF SettleFound, IInv, WorkerInv
    <3>2. attMove[found[w]] \in Moves
      BY <3>1 DEF IInv, TypeOK, AttemptInv
    <3>3. QED
      BY <3>1, <3>2, <1>2 DEF DistinctNumbers, Vouchers
  <2>3. QED
    BY <2>1, <2>2
<1>5. BookStatus[m] = "unknown"
  BY <1>2, <1>3 DEF IInv, EvidenceOfUnresolved, Unresolved, BookStatus, StatusOf
<1>6. QED
  BY <1>2, <1>4, <1>5 DEF Promise!Learn

\* An invoice is given back for another request only without a voucher.
LEMMA RefusalReopens ==
  ASSUME IInv, NEW w \in Workers, ReceiveRefusal(w) \/ NeverSent(w) \/ SettleAbsent(w)
  PROVE  \E m \in Moves : Promise!Reopen(m)
<1> DEFINE m == job[w]
<1>1. PICK attempt \in {"rejected", "aborted"}, move \in {"rejected", "pending"} :
        Conclude(w, attempt, move)
  BY Zenon DEF ReceiveRefusal, NeverSent, SettleAbsent
<1>2. pc[w] \in {"evidence", "waiting", "apply"}
  BY DEF ReceiveRefusal, NeverSent, SettleAbsent
<1>3. /\ m \in Moves /\ Vouchers' = Vouchers
      /\ BookStatus' = [BookStatus EXCEPT ![m] = "open"]
  BY <1>1, <1>2, ConcludeStatus DEF StatusOf
<1>4. IsOpen(tried[w]) /\ tried[w] \in Attempts /\ attMove[tried[w]] = m
  BY <1>2 DEF IInv, WorkerInv, HasAttempt, IsOpen, OpenStates
<1>5. tried[w] \notin issued
  BY <1>4 DEF ReceiveRefusal, NeverSent, SettleAbsent, IInv, WorkerInv, AttemptInv
<1>6. Unresolved(m) /\ m \notin Vouchers
  BY <1>4, <1>5, UnissuedHasNoVoucher
<1>7. BookStatus[m] = "unknown"
  BY <1>3, <1>6 DEF Unresolved, BookStatus, StatusOf
<1>8. QED
  BY <1>3, <1>6, <1>7 DEF Promise!Reopen

\* A lost answer leaves the books where they were: still unknown.
LEMMA LostIsSilent ==
  ASSUME IInv, NEW w \in Workers, AnswerLost(w)
  PROVE  Silent
<1> DEFINE m == job[w]
<1>1. /\ m \in Moves /\ Vouchers' = Vouchers
      /\ BookStatus' = [BookStatus EXCEPT ![m] = "unknown"]
  BY ConcludeStatus DEF AnswerLost, StatusOf
<1>2. IsOpen(tried[w]) /\ tried[w] \in Attempts /\ attMove[tried[w]] = m
  BY DEF AnswerLost, IInv, WorkerInv, HasAttempt, IsOpen, OpenStates
<1>3. BookStatus[m] = "unknown"
  BY <1>1, <1>2 DEF IInv, EvidenceOfUnresolved, Unresolved, BookStatus, StatusOf
<1>4. QED
  BY <1>1, <1>3 DEF Silent, BookStatus

\* Neither posting nor reopening changes what the books say of ARCA.
LEMMA AccountingIsSilent ==
  ASSUME IInv, NEW m \in Moves, Post(m) \/ Draft(m)
  PROVE  Silent
<1>1. \A n \in Moves : StatusOf(arcaState'[n]) = StatusOf(arcaState[n])
  BY DEF Post, Draft, IInv, TypeOK, StatusOf
<1>2. UNCHANGED <<attMove, issued>>
  BY DEF Post, Draft, arcaVars
<1>3. QED
  BY <1>1, <1>2 DEF Silent, BookStatus, Vouchers

\* Everything else leaves invoices' status, attempts' invoices and vouchers alone.
LEMMA UnseenIsSilent ==
  ASSUME UNCHANGED <<arcaState, attMove, issued>>
  PROVE  Silent
  BY DEF Silent, BookStatus, Vouchers

-----------------------------------------------------------------------------
(* The refinement *)

\* Every step of the protocol is a step of the promise, or one it cannot see.
LEMMA PromiseStep ==
  ASSUME DistinctNumbers, IInv, [Next]_vars
  PROVE  Promise!Next \/ Silent
<1>1. CASE \E m \in Moves : Post(m) \/ Draft(m)
  BY <1>1, AccountingIsSilent
<1>2. CASE \E w \in Workers, m \in Moves : Request(w, m)
  BY <1>2, UnseenIsSilent DEF Request, dbVars, arcaVars
<1>3. CASE \E w \in Workers, a \in Attempts : RecordAttempt(w, a)
  BY <1>3, RecordAsks DEF Promise!Next
<1>4. CASE \E w \in Workers, a \in Attempts : ListAttempt(w, a)
  BY <1>4, UnseenIsSilent DEF ListAttempt, dbVars, arcaVars
<1>5. CASE \E w \in Workers : \/ Abandon(w) \/ StartProtocol(w) \/ CheckSequence(w)
                              \/ StartReconcile(w) \/ Consult(w)
  BY <1>5, UnseenIsSilent
     DEF Abandon, StartProtocol, CheckSequence, StartReconcile, Consult, dbVars, arcaVars
<1>6. CASE \E w \in Workers : Send(w)
  BY <1>6, UnseenIsSilent DEF Send, dbVars
<1>7. CASE \E w \in Workers : ReceiveCae(w) \/ SettleFound(w)
  BY <1>7, AuthorizationLearns DEF Promise!Next
<1>8. CASE \E w \in Workers : ReceiveRefusal(w) \/ NeverSent(w) \/ SettleAbsent(w)
  BY <1>8, RefusalReopens DEF Promise!Next
<1>9. CASE \E w \in Workers : AnswerLost(w)
  BY <1>9, LostIsSilent
<1>10. CASE \E a \in Attempts : ArcaApproves(a)
  BY <1>10, ApprovalIssues DEF Promise!Next
<1>11. CASE \E a \in Attempts : GoStale(a) \/ ArcaRejects(a) \/ RequestLost(a)
  BY <1>11, UnseenIsSilent DEF GoStale, ArcaRejects, RequestLost, dbVars, arcaVars
<1>12. CASE UNCHANGED vars
  BY <1>12, UnseenIsSilent DEF vars, dbVars, arcaVars
<1>13. QED
  BY NextCases, <1>1, <1>2, <1>3, <1>4, <1>5, <1>6, <1>7, <1>8, <1>9, <1>10, <1>11, <1>12

\* The fiscal protocol keeps the promise: ARCA is asked for an invoice again
\* only when it certainly holds no voucher for it, issues at most one, and an
\* invoice becomes authorized only with a voucher of its own, whatever crashes
\* and whatever answer is lost.
THEOREM PromiseIsKept == ASSUME DistinctNumbers PROVE Spec => KeepsPromise
<1>1. Init => Promise!Init
  BY DEF Init, Promise!Init, BookStatus, StatusOf, Vouchers
<1>2. IInv /\ [Next]_vars => [Promise!Next]_(Promise!vars)
  BY PromiseStep DEF Silent, Promise!vars
<1>3. QED
  BY <1>1, <1>2, Invariance, PTL DEF Spec, KeepsPromise, Promise!Spec
=============================================================================
