-------------------------- MODULE WsaaTickets_proofs --------------------------
(***************************************************************************)
(* Proofs about WsaaTickets, for any callers, services, keys and times.    *)
(*                                                                         *)
(* RowInv says what each state of the certificate implies about its        *)
(* fields; CallerInv what a caller inside a login may rely on: the lock of *)
(* its service and, unless its commit will be refused, the row as it read  *)
(* it.                                                                     *)
(***************************************************************************)
EXTENDS WsaaTickets, TLAPS

RowInv ==
  /\ certState \in {"draft", "csr_generated"} => cert = None
  /\ certState = "draft" => key = None
  /\ certState = "expired" => certLeft = 0

CallerInv == \A c \in Callers :
  /\ pc[c] # "idle" => job[c] \in Services
  /\ Snapshotted(c) => lock[job[c]] = c
  /\ Snapshotted(c) /\ ~dirty[c] => certState \in {"active", "expired"}
  /\ pc[c] = "granted" /\ ~dirty[c] => certState = "active" /\ live[job[c]] = Lifetime

IInv == /\ TypeOK /\ RowInv /\ CallerInv
        /\ NoNeedlessLogin /\ CacheWithinTicket /\ SecretsGoWithUse /\ PairMatches

-----------------------------------------------------------------------------
(* The steps of the specification *)

\* The disjuncts of [Next]_vars; a caller that ends without a commit abandons.
LEMMA NextCases ==
  ASSUME [Next]_vars
  PROVE  \/ \E k \in Keys : GenerateKeyAndCsr(k)
         \/ \E k \in Keys, left \in 0..Validity : ProcessCertificate(k, left)
         \/ Revoke
         \/ CronExpire
         \/ \E c \in Callers, s \in Services : ServeCached(c, s) \/ Miss(c, s)
         \/ \E c \in Callers : \/ Abandon(c) \/ ServeAfterAll(c) \/ Ask(c)
                               \/ WsaaGrants(c) \/ WsaaAlready(c)
                               \/ StoreTicket(c) \/ StoreWithoutExpiry(c)
         \/ Tick
         \/ UNCHANGED vars
  BY DEF Next, CertificateStep, TicketStep, Busy, CannotSign, StoreRefused, GiveUp, Use,
         LoginFails, Crash

-----------------------------------------------------------------------------
(* The invariant *)

\* Every step keeps each field and each caller in its type.
LEMMA TypeStep == IInv /\ [Next]_vars => TypeOK'
<1> SUFFICES ASSUME IInv, [Next]_vars PROVE TypeOK'
  OBVIOUS
<1> USE TimesAssumption, NoneAssumption
    DEF IInv, TypeOK, rowVars, callerVars, CertStates, CallerInv, Snapshotted
<1>1. ASSUME NEW k \in Keys, GenerateKeyAndCsr(k) PROVE TypeOK'
  BY <1>1 DEF GenerateKeyAndCsr, Rewrite
<1>2. ASSUME NEW k \in Keys, NEW left \in 0..Validity, ProcessCertificate(k, left) PROVE TypeOK'
  BY <1>2 DEF ProcessCertificate, Install, Rewrite, NoTickets
<1>3. ASSUME Revoke PROVE TypeOK'
  BY <1>3 DEF Revoke, Rewrite, NoTickets
<1>4. ASSUME CronExpire PROVE TypeOK'
  BY <1>4 DEF CronExpire, Rewrite, NoTickets
<1>5. ASSUME NEW c \in Callers, NEW s \in Services, ServeCached(c, s) PROVE TypeOK'
  BY <1>5 DEF ServeCached, GoTo
<1>6. ASSUME NEW c \in Callers, NEW s \in Services, Miss(c, s) PROVE TypeOK'
  BY <1>6 DEF Miss, GoTo
<1>7. ASSUME NEW c \in Callers, Abandon(c) PROVE TypeOK'
  BY <1>7 DEF Abandon, Leave
<1>8. ASSUME NEW c \in Callers, ServeAfterAll(c) PROVE TypeOK'
  BY <1>8 DEF ServeAfterAll, GoTo
<1>9. ASSUME NEW c \in Callers, Ask(c) PROVE TypeOK'
  BY <1>9 DEF Ask, GoTo
<1>10. ASSUME NEW c \in Callers, WsaaGrants(c) PROVE TypeOK'
  BY <1>10 DEF WsaaGrants, GoTo
<1>11. ASSUME NEW c \in Callers, WsaaAlready(c) PROVE TypeOK'
  BY <1>11 DEF WsaaAlready, GoTo
<1>12. ASSUME NEW c \in Callers, StoreTicket(c) PROVE TypeOK'
  BY <1>12 DEF StoreTicket, Store, Leave
<1>13. ASSUME NEW c \in Callers, StoreWithoutExpiry(c) PROVE TypeOK'
  BY <1>13 DEF StoreWithoutExpiry, Store, Leave
<1>14. ASSUME Tick PROVE TypeOK'
  BY <1>14 DEF Tick, Less
<1>15. ASSUME UNCHANGED vars PROVE TypeOK'
  BY <1>15 DEF vars
<1>16. QED
  BY NextCases, <1>1, <1>2, <1>3, <1>4, <1>5, <1>6, <1>7, <1>8, <1>9, <1>10, <1>11, <1>12, <1>13, <1>14, <1>15

\* Every step of the certificate keeps its state and its fields consistent: the
\* state guards of the actions, and the removal of the key, are enough.
LEMMA RowStep == IInv /\ [Next]_vars => RowInv' /\ PairMatches'
<1> SUFFICES ASSUME IInv, [Next]_vars PROVE RowInv' /\ PairMatches'
  OBVIOUS
<1> USE TimesAssumption, NoneAssumption
    DEF IInv, TypeOK, rowVars, callerVars, RowInv, PairMatches, SecretsGoWithUse, CertStates
<1>1. ASSUME NEW k \in Keys, GenerateKeyAndCsr(k) PROVE RowInv' /\ PairMatches'
  BY <1>1 DEF GenerateKeyAndCsr, Rewrite
<1>2. ASSUME NEW k \in Keys, NEW left \in 0..Validity, ProcessCertificate(k, left) PROVE RowInv' /\ PairMatches'
  BY <1>2 DEF ProcessCertificate, Install, Rewrite, NoTickets
<1>3. ASSUME Revoke PROVE RowInv' /\ PairMatches'
  BY <1>3 DEF Revoke, Rewrite, NoTickets
<1>4. ASSUME CronExpire PROVE RowInv' /\ PairMatches'
  BY <1>4 DEF CronExpire, Rewrite, NoTickets
<1>5. ASSUME NEW c \in Callers, NEW s \in Services, ServeCached(c, s) PROVE RowInv' /\ PairMatches'
  BY <1>5 DEF ServeCached, GoTo
<1>6. ASSUME NEW c \in Callers, NEW s \in Services, Miss(c, s) PROVE RowInv' /\ PairMatches'
  BY <1>6 DEF Miss, GoTo
<1>7. ASSUME NEW c \in Callers, Abandon(c) PROVE RowInv' /\ PairMatches'
  BY <1>7 DEF Abandon, Leave
<1>8. ASSUME NEW c \in Callers, ServeAfterAll(c) PROVE RowInv' /\ PairMatches'
  BY <1>8 DEF ServeAfterAll, GoTo
<1>9. ASSUME NEW c \in Callers, Ask(c) PROVE RowInv' /\ PairMatches'
  BY <1>9 DEF Ask, GoTo
<1>10. ASSUME NEW c \in Callers, WsaaGrants(c) PROVE RowInv' /\ PairMatches'
  BY <1>10 DEF WsaaGrants, GoTo
<1>11. ASSUME NEW c \in Callers, WsaaAlready(c) PROVE RowInv' /\ PairMatches'
  BY <1>11 DEF WsaaAlready, GoTo
<1>12. ASSUME NEW c \in Callers, StoreTicket(c) PROVE RowInv' /\ PairMatches'
  BY <1>12 DEF StoreTicket, Store, Leave
<1>13. ASSUME NEW c \in Callers, StoreWithoutExpiry(c) PROVE RowInv' /\ PairMatches'
  BY <1>13 DEF StoreWithoutExpiry, Store, Leave
<1>14. ASSUME Tick PROVE RowInv' /\ PairMatches'
  BY <1>14 DEF Tick, Less
<1>15. ASSUME UNCHANGED vars PROVE RowInv' /\ PairMatches'
  BY <1>15 DEF vars
<1>16. QED
  BY NextCases, <1>1, <1>2, <1>3, <1>4, <1>5, <1>6, <1>7, <1>8, <1>9, <1>10, <1>11, <1>12, <1>13, <1>14, <1>15

\* Every step keeps what a caller inside a login relies on.
LEMMA CallerStep == IInv /\ [Next]_vars => CallerInv'
<1> SUFFICES ASSUME IInv, [Next]_vars PROVE CallerInv'
  OBVIOUS
<1> USE TimesAssumption, NoneAssumption
    DEF IInv, TypeOK, rowVars, callerVars, RowInv, CallerInv, PairMatches, Snapshotted, CertStates, SecretsGoWithUse
<1>1. ASSUME NEW k \in Keys, GenerateKeyAndCsr(k) PROVE CallerInv'
  BY <1>1 DEF GenerateKeyAndCsr, Rewrite
<1>2. ASSUME NEW k \in Keys, NEW left \in 0..Validity, ProcessCertificate(k, left) PROVE CallerInv'
  BY <1>2 DEF ProcessCertificate, Install, Rewrite, NoTickets
<1>3. ASSUME Revoke PROVE CallerInv'
  BY <1>3 DEF Revoke, Rewrite, NoTickets
<1>4. ASSUME CronExpire PROVE CallerInv'
  BY <1>4 DEF CronExpire, Rewrite, NoTickets
<1>5. ASSUME NEW c \in Callers, NEW s \in Services, ServeCached(c, s) PROVE CallerInv'
  BY <1>5 DEF ServeCached, GoTo
<1>6. ASSUME NEW c \in Callers, NEW s \in Services, Miss(c, s) PROVE CallerInv'
  BY <1>6 DEF Miss, GoTo
<1>7. ASSUME NEW c \in Callers, Abandon(c) PROVE CallerInv'
  BY <1>7 DEF Abandon, Leave
<1>8. ASSUME NEW c \in Callers, ServeAfterAll(c) PROVE CallerInv'
  BY <1>8 DEF ServeAfterAll, GoTo
<1>9. ASSUME NEW c \in Callers, Ask(c) PROVE CallerInv'
  BY <1>9 DEF Ask, GoTo
<1>10. ASSUME NEW c \in Callers, WsaaGrants(c) PROVE CallerInv'
  BY <1>10 DEF WsaaGrants, GoTo
<1>11. ASSUME NEW c \in Callers, WsaaAlready(c) PROVE CallerInv'
  BY <1>11 DEF WsaaAlready, GoTo
<1>12. ASSUME NEW c \in Callers, StoreTicket(c) PROVE CallerInv'
  BY <1>12 DEF StoreTicket, Store, Leave
<1>13. ASSUME NEW c \in Callers, StoreWithoutExpiry(c) PROVE CallerInv'
  BY <1>13 DEF StoreWithoutExpiry, Store, Leave
<1>14. ASSUME Tick PROVE CallerInv'
  BY <1>14 DEF Tick, Less
<1>15. ASSUME UNCHANGED vars PROVE CallerInv'
  BY <1>15 DEF vars
<1>16. QED
  BY NextCases, <1>1, <1>2, <1>3, <1>4, <1>5, <1>6, <1>7, <1>8, <1>9, <1>10, <1>11, <1>12, <1>13, <1>14, <1>15

\* Nobody else fills the cache of a service whose lock a login holds.
LEMMA NeedlessStep == IInv /\ [Next]_vars => NoNeedlessLogin'
<1> SUFFICES ASSUME IInv, [Next]_vars PROVE NoNeedlessLogin'
  OBVIOUS
<1> USE TimesAssumption, NoneAssumption
    DEF IInv, TypeOK, rowVars, callerVars, CallerInv, Snapshotted, NoNeedlessLogin, Cached
<1>1. ASSUME NEW k \in Keys, GenerateKeyAndCsr(k) PROVE NoNeedlessLogin'
  BY <1>1 DEF GenerateKeyAndCsr, Rewrite
<1>2. ASSUME NEW k \in Keys, NEW left \in 0..Validity, ProcessCertificate(k, left) PROVE NoNeedlessLogin'
  BY <1>2 DEF ProcessCertificate, Install, Rewrite, NoTickets
<1>3. ASSUME Revoke PROVE NoNeedlessLogin'
  BY <1>3 DEF Revoke, Rewrite, NoTickets
<1>4. ASSUME CronExpire PROVE NoNeedlessLogin'
  BY <1>4 DEF CronExpire, Rewrite, NoTickets
<1>5. ASSUME NEW c \in Callers, NEW s \in Services, ServeCached(c, s) PROVE NoNeedlessLogin'
  BY <1>5 DEF ServeCached, GoTo
<1>6. ASSUME NEW c \in Callers, NEW s \in Services, Miss(c, s) PROVE NoNeedlessLogin'
  BY <1>6 DEF Miss, GoTo
<1>7. ASSUME NEW c \in Callers, Abandon(c) PROVE NoNeedlessLogin'
  BY <1>7 DEF Abandon, Leave
<1>8. ASSUME NEW c \in Callers, ServeAfterAll(c) PROVE NoNeedlessLogin'
  BY <1>8 DEF ServeAfterAll, GoTo
<1>9. ASSUME NEW c \in Callers, Ask(c) PROVE NoNeedlessLogin'
  BY <1>9 DEF Ask, GoTo
<1>10. ASSUME NEW c \in Callers, WsaaGrants(c) PROVE NoNeedlessLogin'
  BY <1>10 DEF WsaaGrants, GoTo
<1>11. ASSUME NEW c \in Callers, WsaaAlready(c) PROVE NoNeedlessLogin'
  BY <1>11 DEF WsaaAlready, GoTo
<1>12. ASSUME NEW c \in Callers, StoreTicket(c) PROVE NoNeedlessLogin'
  BY <1>12 DEF StoreTicket, Store, Leave
<1>13. ASSUME NEW c \in Callers, StoreWithoutExpiry(c) PROVE NoNeedlessLogin'
  BY <1>13 DEF StoreWithoutExpiry, Store, Leave
<1>14. ASSUME Tick PROVE NoNeedlessLogin'
  BY <1>14 DEF Tick, Less
<1>15. ASSUME UNCHANGED vars PROVE NoNeedlessLogin'
  BY <1>15 DEF vars
<1>16. QED
  BY NextCases, <1>1, <1>2, <1>3, <1>4, <1>5, <1>6, <1>7, <1>8, <1>9, <1>10, <1>11, <1>12, <1>13, <1>14, <1>15

\* A cached ticket is stored with the life it has left, or less, and both age
\* together.
LEMMA CacheStep == IInv /\ [Next]_vars => CacheWithinTicket'
<1> SUFFICES ASSUME IInv, [Next]_vars PROVE CacheWithinTicket'
  OBVIOUS
<1> USE TimesAssumption, NoneAssumption
    DEF IInv, TypeOK, rowVars, callerVars, CallerInv, Snapshotted, CacheWithinTicket
<1>1. ASSUME NEW k \in Keys, GenerateKeyAndCsr(k) PROVE CacheWithinTicket'
  BY <1>1 DEF GenerateKeyAndCsr, Rewrite
<1>2. ASSUME NEW k \in Keys, NEW left \in 0..Validity, ProcessCertificate(k, left) PROVE CacheWithinTicket'
  BY <1>2 DEF ProcessCertificate, Install, Rewrite, NoTickets
<1>3. ASSUME Revoke PROVE CacheWithinTicket'
  BY <1>3 DEF Revoke, Rewrite, NoTickets
<1>4. ASSUME CronExpire PROVE CacheWithinTicket'
  BY <1>4 DEF CronExpire, Rewrite, NoTickets
<1>5. ASSUME NEW c \in Callers, NEW s \in Services, ServeCached(c, s) PROVE CacheWithinTicket'
  BY <1>5 DEF ServeCached, GoTo
<1>6. ASSUME NEW c \in Callers, NEW s \in Services, Miss(c, s) PROVE CacheWithinTicket'
  BY <1>6 DEF Miss, GoTo
<1>7. ASSUME NEW c \in Callers, Abandon(c) PROVE CacheWithinTicket'
  BY <1>7 DEF Abandon, Leave
<1>8. ASSUME NEW c \in Callers, ServeAfterAll(c) PROVE CacheWithinTicket'
  BY <1>8 DEF ServeAfterAll, GoTo
<1>9. ASSUME NEW c \in Callers, Ask(c) PROVE CacheWithinTicket'
  BY <1>9 DEF Ask, GoTo
<1>10. ASSUME NEW c \in Callers, WsaaGrants(c) PROVE CacheWithinTicket'
  BY <1>10 DEF WsaaGrants, GoTo
<1>11. ASSUME NEW c \in Callers, WsaaAlready(c) PROVE CacheWithinTicket'
  BY <1>11 DEF WsaaAlready, GoTo
<1>12. ASSUME NEW c \in Callers, StoreTicket(c) PROVE CacheWithinTicket'
  BY <1>12 DEF StoreTicket, Store, Leave
<1>13. ASSUME NEW c \in Callers, StoreWithoutExpiry(c) PROVE CacheWithinTicket'
  BY <1>13 DEF StoreWithoutExpiry, Store, Leave
<1>14. ASSUME Tick PROVE CacheWithinTicket'
  BY <1>14 DEF Tick, Less
<1>15. ASSUME UNCHANGED vars PROVE CacheWithinTicket'
  BY <1>15 DEF vars
<1>16. QED
  BY NextCases, <1>1, <1>2, <1>3, <1>4, <1>5, <1>6, <1>7, <1>8, <1>9, <1>10, <1>11, <1>12, <1>13, <1>14, <1>15

\* A certificate that leaves use drops its secrets, and a login that read it
\* before cannot write a ticket back.
LEMMA SecretsStep == IInv /\ [Next]_vars => SecretsGoWithUse'
<1> SUFFICES ASSUME IInv, [Next]_vars PROVE SecretsGoWithUse'
  OBVIOUS
<1> USE TimesAssumption, NoneAssumption
    DEF IInv, TypeOK, rowVars, callerVars, CallerInv, RowInv, Snapshotted, SecretsGoWithUse, NoTickets, PairMatches
<1>1. ASSUME NEW k \in Keys, GenerateKeyAndCsr(k) PROVE SecretsGoWithUse'
  BY <1>1 DEF GenerateKeyAndCsr, Rewrite
<1>2. ASSUME NEW k \in Keys, NEW left \in 0..Validity, ProcessCertificate(k, left) PROVE SecretsGoWithUse'
  BY <1>2 DEF ProcessCertificate, Install, Rewrite, NoTickets
<1>3. ASSUME Revoke PROVE SecretsGoWithUse'
  BY <1>3 DEF Revoke, Rewrite, NoTickets
<1>4. ASSUME CronExpire PROVE SecretsGoWithUse'
  BY <1>4 DEF CronExpire, Rewrite, NoTickets
<1>5. ASSUME NEW c \in Callers, NEW s \in Services, ServeCached(c, s) PROVE SecretsGoWithUse'
  BY <1>5 DEF ServeCached, GoTo
<1>6. ASSUME NEW c \in Callers, NEW s \in Services, Miss(c, s) PROVE SecretsGoWithUse'
  BY <1>6 DEF Miss, GoTo
<1>7. ASSUME NEW c \in Callers, Abandon(c) PROVE SecretsGoWithUse'
  BY <1>7 DEF Abandon, Leave
<1>8. ASSUME NEW c \in Callers, ServeAfterAll(c) PROVE SecretsGoWithUse'
  BY <1>8 DEF ServeAfterAll, GoTo
<1>9. ASSUME NEW c \in Callers, Ask(c) PROVE SecretsGoWithUse'
  BY <1>9 DEF Ask, GoTo
<1>10. ASSUME NEW c \in Callers, WsaaGrants(c) PROVE SecretsGoWithUse'
  BY <1>10 DEF WsaaGrants, GoTo
<1>11. ASSUME NEW c \in Callers, WsaaAlready(c) PROVE SecretsGoWithUse'
  BY <1>11 DEF WsaaAlready, GoTo
<1>12. ASSUME NEW c \in Callers, StoreTicket(c) PROVE SecretsGoWithUse'
  BY <1>12 DEF StoreTicket, Store, Leave
<1>13. ASSUME NEW c \in Callers, StoreWithoutExpiry(c) PROVE SecretsGoWithUse'
  BY <1>13 DEF StoreWithoutExpiry, Store, Leave
<1>14. ASSUME Tick PROVE SecretsGoWithUse'
  BY <1>14 DEF Tick, Less
<1>15. ASSUME UNCHANGED vars PROVE SecretsGoWithUse'
  BY <1>15 DEF vars
<1>16. QED
  BY NextCases, <1>1, <1>2, <1>3, <1>4, <1>5, <1>6, <1>7, <1>8, <1>9, <1>10, <1>11, <1>12, <1>13, <1>14, <1>15

\* A new certificate has no key, no tickets and no callers.
LEMMA InitInv == Init => IInv
  BY TimesAssumption, NoneAssumption
     DEF Init, NoTickets, IInv, TypeOK, RowInv, CallerInv, Snapshotted, NoNeedlessLogin,
         CacheWithinTicket, SecretsGoWithUse, PairMatches, CertStates

-----------------------------------------------------------------------------
(* The theorems about every instance *)

\* The inductive invariant holds in every reachable state.
THEOREM Invariance == Spec => []IInv
<1>1. IInv /\ [Next]_vars => IInv'
  BY TypeStep, RowStep, CallerStep, NeedlessStep, CacheStep, SecretsStep DEF IInv
<1>2. QED
  BY InitInv, <1>1, PTL DEF Spec

\* The certificate is always in a declared state, and no time left is negative.
THEOREM TypeCorrect == Spec => []TypeOK
<1>1. IInv => TypeOK
  BY DEF IInv
<1>2. QED
  BY Invariance, <1>1, PTL

\* The second look at the cache, under the service's lock, is enough: a login
\* is never sent for a ticket the database has.
THEOREM LoginsAreNeeded == Spec => []NoNeedlessLogin
<1>1. IInv => NoNeedlessLogin
  BY DEF IInv
<1>2. QED
  BY Invariance, <1>1, PTL

\* _store_token never keeps a ticket for longer than ARCA does.
THEOREM CacheIsWithinTicket == Spec => []CacheWithinTicket
<1>1. IInv => CacheWithinTicket
  BY DEF IInv
<1>2. QED
  BY Invariance, <1>1, PTL

\* Revoking and expiring leave no ticket behind, even of a login under way.
THEOREM SecretsGo == Spec => []SecretsGoWithUse
<1>1. IInv => SecretsGoWithUse
  BY DEF IInv
<1>2. QED
  BY Invariance, <1>1, PTL

\* A certificate becomes and stays active only together with the private key it
\* was issued for.
THEOREM PairsMatch == Spec => []PairMatches
<1>1. IInv => PairMatches
  BY DEF IInv
<1>2. QED
  BY Invariance, <1>1, PTL

\* Only revoking changes a key that exists: generating is refused outside "draft",
\* where there is none.
LEMMA KeyStep == IInv /\ [Next]_vars => (key # None => key' = key \/ certState' = "revoked")
<1> SUFFICES ASSUME IInv, [Next]_vars PROVE (key # None => key' = key \/ certState' = "revoked")
  OBVIOUS
<1> USE TimesAssumption, NoneAssumption
    DEF IInv, TypeOK, rowVars, callerVars, RowInv
<1>1. ASSUME NEW k \in Keys, GenerateKeyAndCsr(k) PROVE (key # None => key' = key \/ certState' = "revoked")
  BY <1>1 DEF GenerateKeyAndCsr, Rewrite
<1>2. ASSUME NEW k \in Keys, NEW left \in 0..Validity, ProcessCertificate(k, left) PROVE (key # None => key' = key \/ certState' = "revoked")
  BY <1>2 DEF ProcessCertificate, Install, Rewrite, NoTickets
<1>3. ASSUME Revoke PROVE (key # None => key' = key \/ certState' = "revoked")
  BY <1>3 DEF Revoke, Rewrite, NoTickets
<1>4. ASSUME CronExpire PROVE (key # None => key' = key \/ certState' = "revoked")
  BY <1>4 DEF CronExpire, Rewrite, NoTickets
<1>5. ASSUME NEW c \in Callers, NEW s \in Services, ServeCached(c, s) PROVE (key # None => key' = key \/ certState' = "revoked")
  BY <1>5 DEF ServeCached, GoTo
<1>6. ASSUME NEW c \in Callers, NEW s \in Services, Miss(c, s) PROVE (key # None => key' = key \/ certState' = "revoked")
  BY <1>6 DEF Miss, GoTo
<1>7. ASSUME NEW c \in Callers, Abandon(c) PROVE (key # None => key' = key \/ certState' = "revoked")
  BY <1>7 DEF Abandon, Leave
<1>8. ASSUME NEW c \in Callers, ServeAfterAll(c) PROVE (key # None => key' = key \/ certState' = "revoked")
  BY <1>8 DEF ServeAfterAll, GoTo
<1>9. ASSUME NEW c \in Callers, Ask(c) PROVE (key # None => key' = key \/ certState' = "revoked")
  BY <1>9 DEF Ask, GoTo
<1>10. ASSUME NEW c \in Callers, WsaaGrants(c) PROVE (key # None => key' = key \/ certState' = "revoked")
  BY <1>10 DEF WsaaGrants, GoTo
<1>11. ASSUME NEW c \in Callers, WsaaAlready(c) PROVE (key # None => key' = key \/ certState' = "revoked")
  BY <1>11 DEF WsaaAlready, GoTo
<1>12. ASSUME NEW c \in Callers, StoreTicket(c) PROVE (key # None => key' = key \/ certState' = "revoked")
  BY <1>12 DEF StoreTicket, Store, Leave
<1>13. ASSUME NEW c \in Callers, StoreWithoutExpiry(c) PROVE (key # None => key' = key \/ certState' = "revoked")
  BY <1>13 DEF StoreWithoutExpiry, Store, Leave
<1>14. ASSUME Tick PROVE (key # None => key' = key \/ certState' = "revoked")
  BY <1>14 DEF Tick, Less
<1>15. ASSUME UNCHANGED vars PROVE (key # None => key' = key \/ certState' = "revoked")
  BY <1>15 DEF vars
<1>16. QED
  BY NextCases, <1>1, <1>2, <1>3, <1>4, <1>5, <1>6, <1>7, <1>8, <1>9, <1>10, <1>11, <1>12, <1>13, <1>14, <1>15

\* The private key behind a CSR given to ARCA is never overwritten.
THEOREM KeyStays == Spec => KeyIsKept
<1>1. IInv /\ [Next]_vars => [key # None => key' = key \/ certState' = "revoked"]_vars
  BY KeyStep
<1>2. QED
  BY Invariance, <1>1, PTL DEF Spec, KeyIsKept

\* Without a key nothing can be uploaded, and nothing else leaves "revoked".
LEMMA RevokedStep == IInv /\ [Next]_vars => (certState = "revoked" => certState' = "revoked")
<1> SUFFICES ASSUME IInv, [Next]_vars PROVE (certState = "revoked" => certState' = "revoked")
  OBVIOUS
<1> USE TimesAssumption, NoneAssumption
    DEF IInv, TypeOK, rowVars, callerVars, SecretsGoWithUse
<1>1. ASSUME NEW k \in Keys, GenerateKeyAndCsr(k) PROVE (certState = "revoked" => certState' = "revoked")
  BY <1>1 DEF GenerateKeyAndCsr, Rewrite
<1>2. ASSUME NEW k \in Keys, NEW left \in 0..Validity, ProcessCertificate(k, left) PROVE (certState = "revoked" => certState' = "revoked")
  BY <1>2 DEF ProcessCertificate, Install, Rewrite, NoTickets
<1>3. ASSUME Revoke PROVE (certState = "revoked" => certState' = "revoked")
  BY <1>3 DEF Revoke, Rewrite, NoTickets
<1>4. ASSUME CronExpire PROVE (certState = "revoked" => certState' = "revoked")
  BY <1>4 DEF CronExpire, Rewrite, NoTickets
<1>5. ASSUME NEW c \in Callers, NEW s \in Services, ServeCached(c, s) PROVE (certState = "revoked" => certState' = "revoked")
  BY <1>5 DEF ServeCached, GoTo
<1>6. ASSUME NEW c \in Callers, NEW s \in Services, Miss(c, s) PROVE (certState = "revoked" => certState' = "revoked")
  BY <1>6 DEF Miss, GoTo
<1>7. ASSUME NEW c \in Callers, Abandon(c) PROVE (certState = "revoked" => certState' = "revoked")
  BY <1>7 DEF Abandon, Leave
<1>8. ASSUME NEW c \in Callers, ServeAfterAll(c) PROVE (certState = "revoked" => certState' = "revoked")
  BY <1>8 DEF ServeAfterAll, GoTo
<1>9. ASSUME NEW c \in Callers, Ask(c) PROVE (certState = "revoked" => certState' = "revoked")
  BY <1>9 DEF Ask, GoTo
<1>10. ASSUME NEW c \in Callers, WsaaGrants(c) PROVE (certState = "revoked" => certState' = "revoked")
  BY <1>10 DEF WsaaGrants, GoTo
<1>11. ASSUME NEW c \in Callers, WsaaAlready(c) PROVE (certState = "revoked" => certState' = "revoked")
  BY <1>11 DEF WsaaAlready, GoTo
<1>12. ASSUME NEW c \in Callers, StoreTicket(c) PROVE (certState = "revoked" => certState' = "revoked")
  BY <1>12 DEF StoreTicket, Store, Leave
<1>13. ASSUME NEW c \in Callers, StoreWithoutExpiry(c) PROVE (certState = "revoked" => certState' = "revoked")
  BY <1>13 DEF StoreWithoutExpiry, Store, Leave
<1>14. ASSUME Tick PROVE (certState = "revoked" => certState' = "revoked")
  BY <1>14 DEF Tick, Less
<1>15. ASSUME UNCHANGED vars PROVE (certState = "revoked" => certState' = "revoked")
  BY <1>15 DEF vars
<1>16. QED
  BY NextCases, <1>1, <1>2, <1>3, <1>4, <1>5, <1>6, <1>7, <1>8, <1>9, <1>10, <1>11, <1>12, <1>13, <1>14, <1>15

\* A revoked certificate stays revoked, although action_process_certificate does
\* not look at the state.
THEOREM RevokedStays == Spec => RevokedIsFinal
<1>1. IInv /\ [Next]_vars => [certState = "revoked" => certState' = "revoked"]_vars
  BY RevokedStep
<1>2. QED
  BY Invariance, <1>1, PTL DEF Spec, RevokedIsFinal

\* A caller is served from the cache, with more than the margin left, or from a
\* ticket just granted.
LEMMA ServedStep ==
  ASSUME IInv, [Next]_vars, NEW b \in Callers, pc[b] # "served", pc'[b] = "served"
  PROVE  live[job'[b]] > Margin
<1> USE TimesAssumption, NoneAssumption
    DEF IInv, TypeOK, rowVars, callerVars, CallerInv, Snapshotted, CacheWithinTicket, Cached
<1>1. ASSUME NEW k \in Keys, GenerateKeyAndCsr(k) PROVE live[job'[b]] > Margin
  BY <1>1 DEF GenerateKeyAndCsr, Rewrite
<1>2. ASSUME NEW k \in Keys, NEW left \in 0..Validity, ProcessCertificate(k, left) PROVE live[job'[b]] > Margin
  BY <1>2 DEF ProcessCertificate, Install, Rewrite, NoTickets
<1>3. ASSUME Revoke PROVE live[job'[b]] > Margin
  BY <1>3 DEF Revoke, Rewrite, NoTickets
<1>4. ASSUME CronExpire PROVE live[job'[b]] > Margin
  BY <1>4 DEF CronExpire, Rewrite, NoTickets
<1>5. ASSUME NEW c \in Callers, NEW s \in Services, ServeCached(c, s) PROVE live[job'[b]] > Margin
  BY <1>5 DEF ServeCached, GoTo
<1>6. ASSUME NEW c \in Callers, NEW s \in Services, Miss(c, s) PROVE live[job'[b]] > Margin
  BY <1>6 DEF Miss, GoTo
<1>7. ASSUME NEW c \in Callers, Abandon(c) PROVE live[job'[b]] > Margin
  BY <1>7 DEF Abandon, Leave
<1>8. ASSUME NEW c \in Callers, ServeAfterAll(c) PROVE live[job'[b]] > Margin
  BY <1>8 DEF ServeAfterAll, GoTo
<1>9. ASSUME NEW c \in Callers, Ask(c) PROVE live[job'[b]] > Margin
  BY <1>9 DEF Ask, GoTo
<1>10. ASSUME NEW c \in Callers, WsaaGrants(c) PROVE live[job'[b]] > Margin
  BY <1>10 DEF WsaaGrants, GoTo
<1>11. ASSUME NEW c \in Callers, WsaaAlready(c) PROVE live[job'[b]] > Margin
  BY <1>11 DEF WsaaAlready, GoTo
<1>12. ASSUME NEW c \in Callers, StoreTicket(c) PROVE live[job'[b]] > Margin
  BY <1>12 DEF StoreTicket, Store, Leave
<1>13. ASSUME NEW c \in Callers, StoreWithoutExpiry(c) PROVE live[job'[b]] > Margin
  BY <1>13 DEF StoreWithoutExpiry, Store, Leave
<1>14. ASSUME Tick PROVE live[job'[b]] > Margin
  BY <1>14 DEF Tick, Less
<1>15. ASSUME UNCHANGED vars PROVE live[job'[b]] > Margin
  BY <1>15 DEF vars
<1>16. QED
  BY NextCases, <1>1, <1>2, <1>3, <1>4, <1>5, <1>6, <1>7, <1>8, <1>9, <1>10, <1>11, <1>12, <1>13, <1>14, <1>15

\* Credentials handed out are of a ticket that ARCA will honour for longer than
\* the renewal margin.
THEOREM ServedTicketsLive == Spec => ServedIsLive
<1>1. IInv /\ [Next]_vars =>
        [\A c \in Callers : pc[c] # "served" /\ pc'[c] = "served" => live[job'[c]] > Margin]_vars
  BY ServedStep
<1>2. QED
  BY Invariance, <1>1, PTL DEF Spec, ServedIsLive

-----------------------------------------------------------------------------
(* Where tickets are lost *)

\* A caller without a ticket that moves on changes nothing of what is known.
LEMMA MoveKeepsKnown ==
  ASSUME IInv, NEW s \in Services, Known(s), NEW c \in Callers, pc[c] # "granted",
         \A d \in Callers \ {c} : pc'[d] = pc[d] /\ job'[d] = job[d],
         UNCHANGED <<cache, live>>
  PROVE  Known(s)'
  BY DEF Known

\* A step after which the database has lost a live ticket ends the login that
\* obtained it, or empties the row.
LEMMA LossStep ==
  ASSUME IInv, [Next]_vars, NEW s \in Services, Known(s), ~Known(s)'
  PROVE  LoginLosesIt(s) \/ RowLosesIt
<1> DEFINE Lost == LoginLosesIt(s) \/ RowLosesIt
<1> USE TimesAssumption, NoneAssumption DEF IInv, TypeOK, rowVars, callerVars
<1>1. ASSUME NEW k \in Keys, GenerateKeyAndCsr(k) PROVE Lost
  BY <1>1 DEF GenerateKeyAndCsr, Known
<1>2. ASSUME NEW k \in Keys, NEW left \in 0..Validity, ProcessCertificate(k, left) PROVE Lost
  BY <1>2 DEF ProcessCertificate, Install, NoTickets, Known, RowLosesIt
<1>3. ASSUME Revoke \/ CronExpire PROVE Lost
  BY <1>3 DEF Revoke, CronExpire, RowLosesIt
<1>4. ASSUME NEW c \in Callers, NEW t \in Services, ServeCached(c, t) \/ Miss(c, t) PROVE Lost
  BY <1>4, MoveKeepsKnown DEF ServeCached, Miss, GoTo
<1>5. ASSUME NEW c \in Callers, ServeAfterAll(c) \/ Ask(c) \/ WsaaAlready(c) PROVE Lost
  BY <1>5, MoveKeepsKnown DEF ServeAfterAll, Ask, WsaaAlready, GoTo
<1>6. ASSUME NEW c \in Callers, Abandon(c) PROVE Lost
  <2>1. CASE pc[c] = "granted" /\ job[c] = s
    BY <1>6, <2>1 DEF Abandon, Leave, LoginLosesIt
  <2>2. CASE ~(pc[c] = "granted" /\ job[c] = s)
    BY <1>6, <2>2 DEF Abandon, Leave, Known
  <2>3. QED
    BY <2>1, <2>2
<1>7. ASSUME NEW c \in Callers, WsaaGrants(c) PROVE Lost
  <2>1. /\ pc' = [pc EXCEPT ![c] = "granted"] /\ UNCHANGED <<cache, job>>
        /\ live' = [live EXCEPT ![job[c]] = Lifetime]
    BY <1>7 DEF WsaaGrants, GoTo
  <2>2. CASE job[c] = s
    BY <2>1, <2>2 DEF Known
  <2>3. CASE job[c] # s
    BY <2>1, <2>3 DEF Known
  <2>4. QED
    BY <2>2, <2>3
<1>8. ASSUME NEW c \in Callers, StoreTicket(c) PROVE Lost
  <2>1. /\ pc[c] = "granted" /\ pc' = [pc EXCEPT ![c] = "served"] /\ UNCHANGED <<live, job>>
        /\ cache' = [cache EXCEPT ![job[c]] = live[job[c]]]
    BY <1>8 DEF StoreTicket, Store, Leave
  <2>2. QED
    BY <2>1 DEF Known
<1>9. ASSUME NEW c \in Callers, StoreWithoutExpiry(c) PROVE Lost
  <2>1. /\ pc[c] = "granted" /\ pc' = [pc EXCEPT ![c] = "served"] /\ UNCHANGED <<live, job>>
        /\ cache' = [cache EXCEPT ![job[c]] = ShortLife]
    BY <1>9 DEF StoreWithoutExpiry, Store, Leave
  <2>2. CASE job[c] = s
    BY <2>1, <2>2 DEF LoginLosesIt
  <2>3. CASE job[c] # s
    BY <2>1, <2>3 DEF Known
  <2>4. QED
    BY <2>2, <2>3
<1>10. ASSUME Tick PROVE Lost
  BY <1>10 DEF Tick, Less, Known
<1>11. ASSUME UNCHANGED vars PROVE Lost
  BY <1>11 DEF vars, Known
<1>12. QED
  BY NextCases, <1>1, <1>2, <1>3, <1>4, <1>5, <1>6, <1>7, <1>8, <1>9, <1>10, <1>11

\* For any callers, services and times, with crashes, lost answers, refused
\* commits and changes of certificate: a ticket that ARCA considers live is lost
\* only with the login that obtained it, before it was used, or with its row.
THEOREM TicketsAreKept == Spec => TicketIsKept
<1>1. IInv /\ [Next]_vars =>
        [\A s \in Services : Known(s) /\ ~Known(s)' => LoginLosesIt(s) \/ RowLosesIt]_vars
  BY LossStep
<1>2. QED
  BY Invariance, <1>1, PTL DEF Spec, TicketIsKept
=============================================================================
