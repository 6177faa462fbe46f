------------------------ MODULE ArcaProtocolFull_proofs ------------------------
(***************************************************************************)
(* What is left of ArcaProtocol's guarantees when users press "Reconcile   *)
(* with ARCA", which takes no lock, and ARCA may act on a request whose    *)
(* sender has stopped waiting (SpecFull).                                  *)
(*                                                                         *)
(* IInv of ArcaProtocol_proofs is lost: a reconciler no longer excludes    *)
(* the author of the attempt it settles, and "ARCA has no such voucher"    *)
(* may be overtaken by the authorization.  What remains rests on two       *)
(* things: authorizers still exclude each other, and a reconciler commits  *)
(* only if nothing has rewritten the invoice since it read it.             *)
(***************************************************************************)
EXTENDS ArcaProtocol_proofs

\* The worker authorizes: it got the sequence's lock before it read anything.
Authorizing(w) == pc[w] \in {"locked", "checked", "evidence", "waiting"}

AttemptFull == \A a \in Attempts :
  /\ attState[a] # "none" => attMove[a] \in Moves
  /\ a \in flight \cup issued \/ reply[a] # "none" => attState[a] # "none"
  /\ reply[a] = "A" => a \in issued

\* What is still true of what a worker read.
WorkerIsSafe(w) ==
  /\ pc[w] # "idle" => job[w] \in Moves
  /\ HasAttempt(w) =>
       tried[w] \in Attempts /\ attState[tried[w]] # "none" /\ attMove[tried[w]] = job[w]
  /\ Authorizing(w) => lock[SeqOf[job[w]]] = w
  /\ pc[w] \in {"locked", "checked"} /\ ~dirty[w] => arcaState[job[w]] \in {"pending", "rejected"}
  /\ pc[w] \in {"evidence", "waiting"} =>
       \A b \in Attempts : IsOpen(b) /\ attMove[b] = job[w] => b = tried[w]
  /\ pc[w] \in {"consult", "apply"} /\ ~dirty[w] => IsOpen(tried[w])
  /\ pc[w] = "apply" /\ found[w] # None =>
       found[w] \in issued /\ SameCoordinates(attMove[found[w]], job[w])
WorkerFull == \A w \in Workers : WorkerIsSafe(w)

FullInv == TypeOK /\ WorkerFull /\ AttemptFull /\ EvidenceOfUnresolved /\ CaeIsGenuine

-----------------------------------------------------------------------------
(* The steps of the specification *)

\* The worker's last commit: how it leaves its attempt and its invoice.
Settle(w, attempt, move) ==
  /\ pc[w] \in {"evidence", "waiting", "apply"}
  /\ pc[w] = "apply" => ~dirty[w]
  /\ Conclude(w, attempt, move)
  /\ \/ /\ attempt = "authorized" /\ move = "authorized"
        /\ \E x \in issued : /\ SameCoordinates(attMove[x], job[w])
                             /\ moveCae' = [moveCae EXCEPT ![job[w]] = x]
                             /\ attCae' = [attCae EXCEPT ![tried[w]] = x]
     \/ /\ \/ attempt = "uncertain" /\ move = "uncertain"
           \/ attempt \in {"aborted", "rejected"} /\ move \in {"pending", "rejected"}
        /\ UNCHANGED <<moveCae, attCae>>

\* The commits that close an attempt, or declare it uncertain, are all alike to
\* the invariant; those that authorize carry a CAE of the invoice's number.
LEMMA SettleCases ==
  ASSUME FullInv, NEW w \in Workers,
         \/ NeverSent(w) \/ ReceiveCae(w) \/ ReceiveRefusal(w) \/ AnswerLost(w)
         \/ AnswerLostInFlight(w) \/ SettleAbsent(w) \/ SettleFound(w)
  PROVE  \E attempt, move : Settle(w, attempt, move)
<1>1. CASE NeverSent(w)
  <2>1. Settle(w, "aborted", "rejected") \/ Settle(w, "rejected", "rejected")
    BY <1>1, Zenon DEF NeverSent, Settle
  <2>2. QED
    BY <2>1
<1>2. CASE ReceiveRefusal(w)
  <2>1. Settle(w, "rejected", "rejected")
    BY <1>2, Zenon DEF ReceiveRefusal, Settle
  <2>2. QED
    BY <2>1
<1>3. CASE AnswerLost(w) \/ AnswerLostInFlight(w)
  <2>1. Settle(w, "uncertain", "uncertain")
    BY <1>3, Zenon DEF AnswerLost, AnswerLostInFlight, Settle
  <2>2. QED
    BY <2>1
<1>4. CASE SettleAbsent(w)
  <2>1. Settle(w, "aborted", "pending")
    BY <1>4, Zenon DEF SettleAbsent, Settle
  <2>2. QED
    BY <2>1
<1>5. CASE ReceiveCae(w)
  <2>1. tried[w] \in issued /\ SameCoordinates(attMove[tried[w]], job[w])
    BY <1>5 DEF ReceiveCae, FullInv, WorkerFull, WorkerIsSafe, AttemptFull, HasAttempt,
                SameCoordinates
  <2>2. Settle(w, "authorized", "authorized")
    BY <1>5, <2>1 DEF ReceiveCae, Settle
  <2>3. QED
    BY <2>2
<1>6. CASE SettleFound(w)
  <2>1. found[w] \in issued /\ SameCoordinates(attMove[found[w]], job[w])
    BY <1>6 DEF SettleFound, FullInv, WorkerFull, WorkerIsSafe
  <2>2. Settle(w, "authorized", "authorized")
    BY <1>6, <2>1 DEF SettleFound, Settle
  <2>3. QED
    BY <2>2
<1>7. QED
  BY <1>1, <1>2, <1>3, <1>4, <1>5, <1>6

\* The disjuncts of [NextFull]_vars.
LEMMA FullCases ==
  ASSUME FullInv, [NextFull]_vars
  PROVE  \/ \E m \in Moves : Post(m) \/ Draft(m)
         \/ \E w \in Workers, m \in Moves : Request(w, m)
         \/ \E w \in Workers, a \in Attempts :
              RecordAttempt(w, a) \/ ListAttempt(w, a) \/ ManualReconcile(w, a)
         \/ \E w \in Workers :
              \/ Abandon(w) \/ StartProtocol(w) \/ CheckSequence(w) \/ Send(w)
              \/ StartReconcile(w) \/ Consult(w)
         \/ \E w \in Workers : \E attempt, move : Settle(w, attempt, move)
         \/ \E a \in Attempts : GoStale(a) \/ ArcaApproves(a) \/ ArcaRejects(a) \/ RequestLost(a)
         \/ UNCHANGED vars
<1>1. CASE [Next]_vars
  BY <1>1, NextCases, SettleCases
<1>2. CASE \E w \in Workers, a \in Attempts : ManualReconcile(w, a)
  BY <1>2
<1>3. CASE \E w \in Workers : AnswerLostInFlight(w)
  BY <1>3, SettleCases
<1>4. QED
  BY <1>1, <1>2, <1>3 DEF NextFull, NextManual

-----------------------------------------------------------------------------
(* The steps keep each part of the invariant *)

\* Every step keeps each variable in its type.
LEMMA FullTypeStep == FullInv /\ [NextFull]_vars => TypeOK'
<1> SUFFICES ASSUME FullInv, [NextFull]_vars PROVE TypeOK'
  OBVIOUS
<1> USE ConstantsAssumption
    DEF FullInv, TypeOK, MoveStates, AttemptStates, dbVars, workerVars, arcaVars
<1>1. ASSUME NEW m \in Moves, Post(m) PROVE TypeOK'
  BY <1>1 DEF Post, Rewrite
<1>2. ASSUME NEW m \in Moves, Draft(m) PROVE TypeOK'
  BY <1>2 DEF Draft, Rewrite
<1>3. ASSUME NEW w \in Workers, NEW m \in Moves, Request(w, m) PROVE TypeOK'
  BY <1>3 DEF Request, GoTo
<1>4. ASSUME NEW w \in Workers, StartProtocol(w) PROVE TypeOK'
  BY <1>4 DEF StartProtocol, GoTo, Lock, LockFree
<1>5. ASSUME NEW w \in Workers, Abandon(w) PROVE TypeOK'
  BY <1>5 DEF Abandon, Finish, FreeLock
<1>6. ASSUME NEW w \in Workers, CheckSequence(w) PROVE TypeOK'
  BY <1>6 DEF CheckSequence, GoTo
<1>7. ASSUME NEW w \in Workers, NEW a \in Attempts, RecordAttempt(w, a) PROVE TypeOK'
  BY <1>7 DEF RecordAttempt, GoTo, Rewrite
<1>8. ASSUME NEW w \in Workers, Send(w) PROVE TypeOK'
  BY <1>8 DEF Send, GoTo, WorkerFull, WorkerIsSafe, HasAttempt
<1>9. ASSUME NEW w \in Workers, NEW attempt, NEW move, Settle(w, attempt, move)
      PROVE  TypeOK'
  <2>1. attempt \in AttemptStates /\ move \in MoveStates
    BY <1>9 DEF Settle
  <2>2. /\ moveCae' \in [Moves -> Attempts \cup {None}]
        /\ attCae' \in [Attempts -> Attempts \cup {None}]
    BY <1>9 DEF Settle
  <2>3. Conclude(w, attempt, move)
    BY <1>9 DEF Settle
  <2>4. QED
    BY <2>1, <2>2, <2>3 DEF Conclude, Rewrite, Finish, FreeLock
<1>10. ASSUME NEW w \in Workers, NEW a \in Attempts, ListAttempt(w, a) PROVE TypeOK'
  BY <1>10 DEF ListAttempt, GoTo
<1>11. ASSUME NEW w \in Workers, NEW a \in Attempts, ManualReconcile(w, a) PROVE TypeOK'
  BY <1>11 DEF ManualReconcile, GoTo
<1>12. ASSUME NEW w \in Workers, StartReconcile(w) PROVE TypeOK'
  BY <1>12 DEF StartReconcile, GoTo, Lock, LockFree
<1>13. ASSUME NEW w \in Workers, Consult(w) PROVE TypeOK'
  BY <1>13 DEF Consult, GoTo
<1>14. ASSUME NEW a \in Attempts, GoStale(a) PROVE TypeOK'
  BY <1>14 DEF GoStale
<1>15. ASSUME NEW a \in Attempts, ArcaApproves(a) PROVE TypeOK'
  BY <1>15 DEF ArcaApproves, AttemptFull
<1>16. ASSUME NEW a \in Attempts, ArcaRejects(a) PROVE TypeOK'
  BY <1>16 DEF ArcaRejects
<1>17. ASSUME NEW a \in Attempts, RequestLost(a) PROVE TypeOK'
  BY <1>17 DEF RequestLost
<1>18. ASSUME UNCHANGED vars PROVE TypeOK'
  BY <1>18 DEF vars
<1>19. QED
  BY FullCases, <1>1, <1>2, <1>3, <1>4, <1>5, <1>6, <1>7, <1>8, <1>9, <1>10,
     <1>11, <1>12, <1>13, <1>14, <1>15, <1>16, <1>17, <1>18

\* Every step keeps what the workers rely on: an authorizer holds the lock of its
\* sequence, so no other opens an attempt of its invoice; a reconciler that may
\* still commit has an open attempt in hand.
LEMMA FullWorkerStep == FullInv /\ [NextFull]_vars => WorkerFull'
<1> SUFFICES ASSUME FullInv, [NextFull]_vars PROVE WorkerFull'
  OBVIOUS
<1> USE ConstantsAssumption
    DEF FullInv, TypeOK, WorkerFull, WorkerIsSafe, AttemptFull, Authorizing, HasAttempt,
        IsOpen, OpenStates, EvidenceOfUnresolved, Unresolved, Snapshotted, CheckReady, dbVars, workerVars, arcaVars
<1>1. ASSUME NEW m \in Moves, Post(m) PROVE WorkerFull'
  BY <1>1 DEF Post, Rewrite
<1>2. ASSUME NEW m \in Moves, Draft(m) PROVE WorkerFull'
  BY <1>2 DEF Draft, Rewrite
<1>3. ASSUME NEW w \in Workers, NEW m \in Moves, Request(w, m) PROVE WorkerFull'
  BY <1>3 DEF Request, GoTo
<1>4. ASSUME NEW w \in Workers, StartProtocol(w) PROVE WorkerFull'
  BY <1>4 DEF StartProtocol, GoTo, Lock, LockFree
<1>5. ASSUME NEW w \in Workers, Abandon(w) PROVE WorkerFull'
  BY <1>5 DEF Abandon, Finish, FreeLock
<1>6. ASSUME NEW w \in Workers, CheckSequence(w) PROVE WorkerFull'
  BY <1>6 DEF CheckSequence, GoTo
<1>7. ASSUME NEW w \in Workers, NEW a \in Attempts, RecordAttempt(w, a) PROVE WorkerFull'
  <2>1. SUFFICES ASSUME NEW v \in Workers PROVE WorkerIsSafe(v)'
    BY DEF WorkerFull
  <2>2. CASE v = w
    <3>1. job[w] \in Moves /\ arcaState[job[w]] \in {"pending", "rejected"} /\ attState[a] = "none"
      BY <1>7 DEF RecordAttempt, GoTo
    <3>2. \A b \in Attempts : IsOpen(b) => attMove[b] # job[w]
      BY <3>1 DEF EvidenceOfUnresolved, Unresolved
    <3>3. QED
      BY <1>7, <2>2, <3>1, <3>2 DEF RecordAttempt, GoTo, Rewrite
  <2>3. CASE v # w
    BY <1>7, <2>3 DEF RecordAttempt, GoTo, Rewrite
  <2>4. QED
    BY <2>2, <2>3
<1>8. ASSUME NEW w \in Workers, Send(w) PROVE WorkerFull'
  BY <1>8 DEF Send, GoTo
<1>9. ASSUME NEW w \in Workers, NEW attempt, NEW move, Settle(w, attempt, move)
      PROVE  WorkerFull'
  <2>1. SUFFICES ASSUME NEW v \in Workers PROVE WorkerIsSafe(v)'
    BY DEF WorkerFull
  <2>2. CASE v = w
    BY <1>9, <2>2 DEF Settle, Conclude, Finish
  <2>3. CASE v # w
    <3>1. Conclude(w, attempt, move) /\ job[w] \in Moves /\ tried[w] \in Attempts
      BY <1>9 DEF Settle
    <3>2. attempt # "none"
      BY <1>9 DEF Settle
    <3>3. UNCHANGED <<pc[v], job[v], tried[v], found[v], attMove, issued>>
      BY <2>3, <3>1 DEF Conclude, Finish
    <3>4. CASE pc[v] = "idle"
      BY <3>3, <3>4
    <3>5. CASE pc[v] # "idle"
      <4>1. job[v] \in Moves /\ SeqOf[job[v]] \in Sequences
        BY <3>5
      <4>2. lock[SeqOf[job[v]]] = v => lock'[SeqOf[job[v]]] = v
        BY <2>3, <3>1, <4>1 DEF Conclude, Finish, FreeLock
      <4>3. Snapshotted(v) /\ ~dirty'[v] => ~dirty[v] /\ job[v] # job[w]
        BY <2>3, <3>1 DEF Conclude, Rewrite
      <4>4. job[v] # job[w] => arcaState'[job[v]] = arcaState[job[v]]
        BY <3>1, <4>1 DEF Conclude
      <4>5. \A b \in Attempts : attMove[b] # job[w] => attState'[b] = attState[b]
        BY <1>9, <3>1 DEF Conclude, Settle
      <4>6. \A b \in Attempts : attState[b] # "none" => attState'[b] # "none"
        BY <3>1, <3>2 DEF Conclude
      <4>7. HasAttempt(v) =>
              tried[v] \in Attempts /\ attState'[tried[v]] # "none" /\ attMove[tried[v]] = job[v]
        BY <4>6
      <4>8. Authorizing(v) => lock'[SeqOf[job[v]]] = v
        BY <4>2
      <4>9. pc[v] \in {"locked", "checked"} /\ ~dirty'[v] =>
              arcaState'[job[v]] \in {"pending", "rejected"}
        BY <4>3, <4>4
      <4>10. ASSUME pc[v] \in {"evidence", "waiting"}, NEW b \in Attempts,
                    IsOpen(b)', attMove[b] = job[v]
             PROVE  b = tried[v]
        <5>1. CASE job[v] = job[w]
          <6>1. pc[w] = "apply" /\ ~dirty[w]
            BY <1>9, <2>3, <4>10, <5>1 DEF Settle
          <6>2. tried[w] = tried[v]
            BY <6>1, <3>1, <4>10, <5>1
          <6>3. b # tried[w] => attState'[b] = attState[b]
            BY <3>1 DEF Conclude
          <6>4. QED
            BY <6>2, <6>3, <4>10
        <5>2. CASE job[v] # job[w]
          BY <4>5, <4>10, <5>2
        <5>3. QED
          BY <5>1, <5>2
      <4>11. pc[v] \in {"consult", "apply"} /\ ~dirty'[v] => IsOpen(tried[v])'
        BY <3>3, <4>3, <4>5, <4>7
      <4>12. QED
        BY <3>3, <4>1, <4>7, <4>8, <4>9, <4>10, <4>11
    <3>6. QED
      BY <3>4, <3>5
  <2>4. QED
    BY <2>2, <2>3
<1>10. ASSUME NEW w \in Workers, NEW a \in Attempts, ListAttempt(w, a) PROVE WorkerFull'
  BY <1>10 DEF ListAttempt, GoTo
<1>11. ASSUME NEW w \in Workers, NEW a \in Attempts, ManualReconcile(w, a) PROVE WorkerFull'
  BY <1>11 DEF ManualReconcile, GoTo
<1>12. ASSUME NEW w \in Workers, StartReconcile(w) PROVE WorkerFull'
  BY <1>12 DEF StartReconcile, GoTo, Lock, LockFree
<1>13. ASSUME NEW w \in Workers, Consult(w) PROVE WorkerFull'
  BY <1>13 DEF Consult, GoTo, SameCoordinates
<1>14. ASSUME NEW a \in Attempts, GoStale(a) PROVE WorkerFull'
  BY <1>14 DEF GoStale
<1>15. ASSUME NEW a \in Attempts, ArcaApproves(a) PROVE WorkerFull'
  BY <1>15 DEF ArcaApproves
<1>16. ASSUME NEW a \in Attempts, ArcaRejects(a) PROVE WorkerFull'
  BY <1>16 DEF ArcaRejects
<1>17. ASSUME NEW a \in Attempts, RequestLost(a) PROVE WorkerFull'
  BY <1>17 DEF RequestLost
<1>18. ASSUME UNCHANGED vars PROVE WorkerFull'
  BY <1>18 DEF vars
<1>19. QED
  BY FullCases, <1>1, <1>2, <1>3, <1>4, <1>5, <1>6, <1>7, <1>8, <1>9, <1>10,
     <1>11, <1>12, <1>13, <1>14, <1>15, <1>16, <1>17, <1>18

\* Every step keeps requests, replies and vouchers with attempts on record.
LEMMA FullAttemptStep == FullInv /\ [NextFull]_vars => AttemptFull'
<1> SUFFICES ASSUME FullInv, [NextFull]_vars PROVE AttemptFull'
  OBVIOUS
<1> USE ConstantsAssumption
    DEF FullInv, TypeOK, WorkerFull, WorkerIsSafe, AttemptFull, HasAttempt,
        dbVars, workerVars, arcaVars
<1>1. ASSUME NEW m \in Moves, Post(m) PROVE AttemptFull'
  BY <1>1 DEF Post, Rewrite
<1>2. ASSUME NEW m \in Moves, Draft(m) PROVE AttemptFull'
  BY <1>2 DEF Draft, Rewrite
<1>3. ASSUME NEW w \in Workers, NEW m \in Moves, Request(w, m) PROVE AttemptFull'
  BY <1>3 DEF Request, GoTo
<1>4. ASSUME NEW w \in Workers, StartProtocol(w) PROVE AttemptFull'
  BY <1>4 DEF StartProtocol, GoTo, Lock, LockFree
<1>5. ASSUME NEW w \in Workers, Abandon(w) PROVE AttemptFull'
  BY <1>5 DEF Abandon, Finish, FreeLock
<1>6. ASSUME NEW w \in Workers, CheckSequence(w) PROVE AttemptFull'
  BY <1>6 DEF CheckSequence, GoTo
<1>7. ASSUME NEW w \in Workers, NEW a \in Attempts, RecordAttempt(w, a) PROVE AttemptFull'
  BY <1>7 DEF RecordAttempt, GoTo, Rewrite
<1>8. ASSUME NEW w \in Workers, Send(w) PROVE AttemptFull'
  BY <1>8 DEF Send, GoTo
<1>9. ASSUME NEW w \in Workers, NEW attempt, NEW move, Settle(w, attempt, move)
      PROVE  AttemptFull'
  BY <1>9 DEF Settle, Conclude, Rewrite, Finish, FreeLock
<1>10. ASSUME NEW w \in Workers, NEW a \in Attempts, ListAttempt(w, a) PROVE AttemptFull'
  BY <1>10 DEF ListAttempt, GoTo
<1>11. ASSUME NEW w \in Workers, NEW a \in Attempts, ManualReconcile(w, a) PROVE AttemptFull'
  BY <1>11 DEF ManualReconcile, GoTo
<1>12. ASSUME NEW w \in Workers, StartReconcile(w) PROVE AttemptFull'
  BY <1>12 DEF StartReconcile, GoTo, Lock, LockFree
<1>13. ASSUME NEW w \in Workers, Consult(w) PROVE AttemptFull'
  BY <1>13 DEF Consult, GoTo
<1>14. ASSUME NEW a \in Attempts, GoStale(a) PROVE AttemptFull'
  BY <1>14 DEF GoStale
<1>15. ASSUME NEW a \in Attempts, ArcaApproves(a) PROVE AttemptFull'
  BY <1>15 DEF ArcaApproves
<1>16. ASSUME NEW a \in Attempts, ArcaRejects(a) PROVE AttemptFull'
  BY <1>16 DEF ArcaRejects
<1>17. ASSUME NEW a \in Attempts, RequestLost(a) PROVE AttemptFull'
  BY <1>17 DEF RequestLost
<1>18. ASSUME UNCHANGED vars PROVE AttemptFull'
  BY <1>18 DEF vars
<1>19. QED
  BY FullCases, <1>1, <1>2, <1>3, <1>4, <1>5, <1>6, <1>7, <1>8, <1>9, <1>10,
     <1>11, <1>12, <1>13, <1>14, <1>15, <1>16, <1>17, <1>18

\* Every step keeps invoices and open attempts in step with each other.
LEMMA FullEvidenceStep == FullInv /\ [NextFull]_vars => EvidenceOfUnresolved'
<1> SUFFICES ASSUME FullInv, [NextFull]_vars PROVE EvidenceOfUnresolved'
  OBVIOUS
<1> USE ConstantsAssumption
    DEF FullInv, TypeOK, WorkerFull, WorkerIsSafe, AttemptFull, HasAttempt, IsOpen, OpenStates,
        EvidenceOfUnresolved, Unresolved, dbVars, workerVars, arcaVars
<1>1. ASSUME NEW m \in Moves, Post(m) PROVE EvidenceOfUnresolved'
  BY <1>1 DEF Post, Rewrite
<1>2. ASSUME NEW m \in Moves, Draft(m) PROVE EvidenceOfUnresolved'
  BY <1>2 DEF Draft, Rewrite
<1>3. ASSUME NEW w \in Workers, NEW m \in Moves, Request(w, m) PROVE EvidenceOfUnresolved'
  BY <1>3 DEF Request, GoTo
<1>4. ASSUME NEW w \in Workers, StartProtocol(w) PROVE EvidenceOfUnresolved'
  BY <1>4 DEF StartProtocol, GoTo, Lock, LockFree
<1>5. ASSUME NEW w \in Workers, Abandon(w) PROVE EvidenceOfUnresolved'
  BY <1>5 DEF Abandon, Finish, FreeLock
<1>6. ASSUME NEW w \in Workers, CheckSequence(w) PROVE EvidenceOfUnresolved'
  BY <1>6 DEF CheckSequence, GoTo
<1>7. ASSUME NEW w \in Workers, NEW a \in Attempts, RecordAttempt(w, a) PROVE EvidenceOfUnresolved'
  BY <1>7 DEF RecordAttempt, GoTo, Rewrite
<1>8. ASSUME NEW w \in Workers, Send(w) PROVE EvidenceOfUnresolved'
  BY <1>8 DEF Send, GoTo
<1>9. ASSUME NEW w \in Workers, NEW attempt, NEW move, Settle(w, attempt, move)
      PROVE  EvidenceOfUnresolved'
  BY <1>9 DEF Settle, Conclude, Rewrite, Finish, FreeLock
<1>10. ASSUME NEW w \in Workers, NEW a \in Attempts, ListAttempt(w, a) PROVE EvidenceOfUnresolved'
  BY <1>10 DEF ListAttempt, GoTo
<1>11. ASSUME NEW w \in Workers, NEW a \in Attempts, ManualReconcile(w, a)
       PROVE  EvidenceOfUnresolved'
  BY <1>11 DEF ManualReconcile, GoTo
<1>12. ASSUME NEW w \in Workers, StartReconcile(w) PROVE EvidenceOfUnresolved'
  BY <1>12 DEF StartReconcile, GoTo, Lock, LockFree
<1>13. ASSUME NEW w \in Workers, Consult(w) PROVE EvidenceOfUnresolved'
  BY <1>13 DEF Consult, GoTo
<1>14. ASSUME NEW a \in Attempts, GoStale(a) PROVE EvidenceOfUnresolved'
  BY <1>14 DEF GoStale
<1>15. ASSUME NEW a \in Attempts, ArcaApproves(a) PROVE EvidenceOfUnresolved'
  BY <1>15 DEF ArcaApproves
<1>16. ASSUME NEW a \in Attempts, ArcaRejects(a) PROVE EvidenceOfUnresolved'
  BY <1>16 DEF ArcaRejects
<1>17. ASSUME NEW a \in Attempts, RequestLost(a) PROVE EvidenceOfUnresolved'
  BY <1>17 DEF RequestLost
<1>18. ASSUME UNCHANGED vars PROVE EvidenceOfUnresolved'
  BY <1>18 DEF vars
<1>19. QED
  BY FullCases, <1>1, <1>2, <1>3, <1>4, <1>5, <1>6, <1>7, <1>8, <1>9, <1>10,
     <1>11, <1>12, <1>13, <1>14, <1>15, <1>16, <1>17, <1>18

\* Every step keeps the CAE of an authorized invoice that of a voucher with its
\* number.
LEMMA FullCaeStep == FullInv /\ [NextFull]_vars => CaeIsGenuine'
<1> SUFFICES ASSUME FullInv, [NextFull]_vars PROVE CaeIsGenuine'
  OBVIOUS
<1> USE ConstantsAssumption
    DEF FullInv, TypeOK, WorkerFull, WorkerIsSafe, AttemptFull, HasAttempt,
        CaeIsGenuine, SameCoordinates, dbVars, workerVars, arcaVars
<1>1. ASSUME NEW m \in Moves, Post(m) PROVE CaeIsGenuine'
  BY <1>1 DEF Post, Rewrite
<1>2. ASSUME NEW m \in Moves, Draft(m) PROVE CaeIsGenuine'
  BY <1>2 DEF Draft, Rewrite
<1>3. ASSUME NEW w \in Workers, NEW m \in Moves, Request(w, m) PROVE CaeIsGenuine'
  BY <1>3 DEF Request, GoTo
<1>4. ASSUME NEW w \in Workers, StartProtocol(w) PROVE CaeIsGenuine'
  BY <1>4 DEF StartProtocol, GoTo, Lock, LockFree
<1>5. ASSUME NEW w \in Workers, Abandon(w) PROVE CaeIsGenuine'
  BY <1>5 DEF Abandon, Finish, FreeLock
<1>6. ASSUME NEW w \in Workers, CheckSequence(w) PROVE CaeIsGenuine'
  BY <1>6 DEF CheckSequence, GoTo
<1>7. ASSUME NEW w \in Workers, NEW a \in Attempts, RecordAttempt(w, a) PROVE CaeIsGenuine'
  BY <1>7 DEF RecordAttempt, GoTo, Rewrite
<1>8. ASSUME NEW w \in Workers, Send(w) PROVE CaeIsGenuine'
  BY <1>8 DEF Send, GoTo
<1>9. ASSUME NEW w \in Workers, NEW attempt, NEW move, Settle(w, attempt, move)
      PROVE  CaeIsGenuine'
  BY <1>9 DEF Settle, Conclude, Rewrite, Finish, FreeLock
<1>10. ASSUME NEW w \in Workers, NEW a \in Attempts, ListAttempt(w, a) PROVE CaeIsGenuine'
  BY <1>10 DEF ListAttempt, GoTo
<1>11. ASSUME NEW w \in Workers, NEW a \in Attempts, ManualReconcile(w, a) PROVE CaeIsGenuine'
  BY <1>11 DEF ManualReconcile, GoTo
<1>12. ASSUME NEW w \in Workers, StartReconcile(w) PROVE CaeIsGenuine'
  BY <1>12 DEF StartReconcile, GoTo, Lock, LockFree
<1>13. ASSUME NEW w \in Workers, Consult(w) PROVE CaeIsGenuine'
  BY <1>13 DEF Consult, GoTo
<1>14. ASSUME NEW a \in Attempts, GoStale(a) PROVE CaeIsGenuine'
  BY <1>14 DEF GoStale
<1>15. ASSUME NEW a \in Attempts, ArcaApproves(a) PROVE CaeIsGenuine'
  BY <1>15 DEF ArcaApproves
<1>16. ASSUME NEW a \in Attempts, ArcaRejects(a) PROVE CaeIsGenuine'
  BY <1>16 DEF ArcaRejects
<1>17. ASSUME NEW a \in Attempts, RequestLost(a) PROVE CaeIsGenuine'
  BY <1>17 DEF RequestLost
<1>18. ASSUME UNCHANGED vars PROVE CaeIsGenuine'
  BY <1>18 DEF vars
<1>19. QED
  BY FullCases, <1>1, <1>2, <1>3, <1>4, <1>5, <1>6, <1>7, <1>8, <1>9, <1>10,
     <1>11, <1>12, <1>13, <1>14, <1>15, <1>16, <1>17, <1>18

-----------------------------------------------------------------------------
(* The theorems about every instance *)

\* Nothing has been asked of ARCA in a new database.
LEMMA InitFull == Init => FullInv
  BY ConstantsAssumption
     DEF Init, FullInv, TypeOK, WorkerFull, WorkerIsSafe, AttemptFull, EvidenceOfUnresolved,
         CaeIsGenuine, IsOpen, OpenStates, Unresolved, Authorizing, HasAttempt, MoveStates,
         AttemptStates

\* The weaker invariant survives the buttons and late authorizations.
THEOREM FullInvariance == SpecFull => []FullInv
<1>1. FullInv /\ [NextFull]_vars => FullInv'
  BY FullTypeStep, FullWorkerStep, FullAttemptStep, FullEvidenceStep, FullCaeStep DEF FullInv
<1>2. QED
  BY InitFull, <1>1, PTL DEF SpecFull

\* The buttons do not break the database's own account: whichever worker or user
\* commits last, an unresolved invoice has exactly one open attempt and a settled
\* invoice none, because a commit over a row rewritten since it was read fails.
THEOREM EvidenceSurvivesButtons == SpecFull => []EvidenceOfUnresolved
<1>1. FullInv => EvidenceOfUnresolved
  BY DEF FullInv
<1>2. QED
  BY FullInvariance, <1>1, PTL

\* Whoever authorizes an invoice, and however late ARCA acted, its CAE is of a
\* voucher that ARCA issued under the invoice's own sequence and number.  No
\* assumption on the numbers: two companies may share a CUIT.
THEOREM CaesAreGenuine == SpecFull => []CaeIsGenuine
<1>1. FullInv => CaeIsGenuine
  BY DEF FullInv
<1>2. QED
  BY FullInvariance, <1>1, PTL

\* Where no two invoices share a number, that voucher is the invoice's own: no
\* order of buttons, crashes and late answers books the CAE of another invoice.
THEOREM CaesStayOwn ==
  ASSUME \A m, n \in Moves : SameCoordinates(m, n) => m = n
  PROVE  SpecFull => [](\A m \in Moves : arcaState[m] = "authorized" =>
                          moveCae[m] \in issued /\ attMove[moveCae[m]] = m)
<1>1. FullInv => \A m \in Moves : arcaState[m] = "authorized" =>
                   moveCae[m] \in issued /\ attMove[moveCae[m]] = m
  BY DEF FullInv, TypeOK, AttemptFull, CaeIsGenuine, SameCoordinates
<1>2. QED
  BY FullInvariance, <1>1, PTL

\* The advisory lock still keeps authorizers apart: what the buttons give up is
\* only the exclusion between an author and a reconciler.
THEOREM AuthorizersExclude ==
  SpecFull => [](\A v, w \in Workers :
                   Authorizing(v) /\ Authorizing(w) /\ v # w => SeqOf[job[v]] # SeqOf[job[w]])
<1>1. FullInv => \A v, w \in Workers :
                   Authorizing(v) /\ Authorizing(w) /\ v # w => SeqOf[job[v]] # SeqOf[job[w]]
  BY DEF FullInv, WorkerFull, WorkerIsSafe
<1>2. QED
  BY FullInvariance, <1>1, PTL
=============================================================================
