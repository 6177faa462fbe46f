------------------------- MODULE Homologation_proofs -------------------------
(***************************************************************************)
(* For any certificates, companies, keys, codes and runs: the type         *)
(* invariant of Homologation, that the certificate the bootstrap created   *)
(* is pinned, that an active certificate can sign, and that a bootstrap    *)
(* overwrites nothing.  A bootstrap commits what it decided from an old    *)
(* snapshot, so the invariant says what is still true of its plan: as long *)
(* as nobody rewrote the certificate's row, the row is as it was read      *)
(* (PlanGood); and if somebody did, the commit is refused.                 *)
(***************************************************************************)
EXTENDS Homologation, TLAPS

\* What a row of the columns' version looks like, unless the form wrote it.
GoodRow(r) ==
  /\ r.state \in {"none", "deleted"} => ~r.hand
  /\ ~r.hand =>
       /\ r.state \in {"none", "draft", "deleted"} => r.key = None /\ r.crt = None /\ ~r.ticket
       /\ r.state = "active" => r.key # None /\ r.crt # None
       /\ r.key # None /\ r.crt # None => r.key = r.crt
       /\ r.ticket => r.crt # None

\* Before the upgrade what looks active has its material in attachments.
OldInv ==
  schema = "old" => /\ \A c \in Certs : cert[c].state = "active" => c \in legacy
                    /\ \A c \in Certs : /\ cert[c].key = None /\ cert[c].crt = None
                                       /\ ~cert[c].hand
                    /\ \A b \in Runs : plan[b] = None

OldTickets == schema = "old" => \A c \in Certs : ~cert[c].ticket

PinInv == pin # None => Exists(pin)

\* The certificate of a plan: reserved if it is new; else, unless it was
\* rewritten, still without what the plan brings, and then a pair.
PlanGood(b) ==
  LET p == plan[b]
      r == cert[p.cert]
      k == IF p.key = None THEN r.key ELSE p.key
      x == IF p.crt = None THEN r.crt ELSE p.crt
  IN  /\ p.new => /\ r.state = "none"
                  /\ p.cert \in p.writes
                  /\ p.key # None /\ p.key = p.crt
      /\ ~p.new => r.state # "none"
      /\ ~p.new /\ p.cert \notin p.writes => p.key = None /\ p.crt = None
      /\ ~p.new /\ p.cert \in p.writes /\ p.cert \notin touched[b] =>
           /\ Exists(p.cert)
           /\ p.key # None => r.key = None
           /\ p.crt # None => r.crt = None
           /\ k # None /\ k = x

PlanInv == \A b \in Runs : plan[b] # None => PlanGood(b)

\* A certificate still to be created is in one plan only.
ReservedInv ==
  \A b, d \in Runs : b # d /\ plan[b] # None /\ plan[d] # None /\ plan[b].new
                       => plan[d].cert # plan[b].cert

SeedInv == \A c \in seeded : cert[c].state # "none" /\ (Exists(c) => pin = c)

RowsInv == schema = "columns" => \A c \in Certs : GoodRow(cert[c])

IInv == TypeOK /\ SeedInv /\ RowsInv /\ OldInv /\ OldTickets
        /\ PinInv /\ PlanInv /\ ReservedInv

\* The rows' invariant and the property the runs check are the same.
LEMMA RowsSign == TypeOK /\ RowsInv => ActiveCanSign
BY DEF TypeOK, RowsInv, ActiveCanSign, GoodRow

-----------------------------------------------------------------------------
(* Users *)

\* One row is rewritten, and whoever has it in a plan is told.
LEMMA RowStep ==
  ASSUME IInv, schema = "columns", NEW c \in Certs, NEW r \in Row, GoodRow(r),
         cert' = [cert EXCEPT ![c] = r],
         Exists(c) \/ c \in Fresh,
         r.state # "none",
         NEW R \in SUBSET Rows, c \in R, Act(R),
         link' \in [Companies -> Certs \cup {None}], auto' \subseteq Companies,
         pin' = IF r.state = "deleted" /\ pin = c THEN None ELSE pin
  PROVE  IInv'
<1>1. /\ UNCHANGED <<schema, legacy, sha, plan, seeded>>
      /\ touched' = [b \in Runs |-> IF plan[b] = None THEN {} ELSE touched[b] \cup R]
      /\ acts' \in 0..MaxActs
  BY HomologationAssumption DEF Act, Touch, IInv, TypeOK, HomologationAssumption
<1>2. \A d \in Certs : cert'[d] = IF d = c THEN r ELSE cert[d]
  BY DEF IInv, TypeOK
<1>3. cert' \in [Certs -> Row] /\ pin' \in Certs \cup {None}
  BY DEF IInv, TypeOK
<1>4. touched' \in [Runs -> SUBSET Rows]
  BY <1>1 DEF IInv, TypeOK
<1>5. TypeOK'
  BY <1>1, <1>2, <1>3, <1>4 DEF IInv, TypeOK, GoodRow
<1>6. RowsInv' /\ OldInv' /\ OldTickets'
  BY <1>1, <1>2 DEF IInv, RowsInv, OldInv, OldTickets
<1>7. \A d \in Certs : d # c => (Exists(d)' <=> Exists(d))
  BY <1>2 DEF Exists
<1>8. Exists(c)' <=> r.state # "deleted"
  BY <1>2 DEF Exists
<1>9. SeedInv'
  BY <1>1, <1>2, <1>7, <1>8 DEF IInv, SeedInv, Fresh, TypeOK
<1>10. PinInv'
  BY <1>7, <1>8 DEF IInv, PinInv, TypeOK
<1>11. ReservedInv'
  BY <1>1 DEF IInv, ReservedInv
<1>12. ASSUME NEW b \in Runs, plan[b] # None PROVE PlanGood(b)'
  <2>1. plan[b] \in Plan /\ PlanGood(b) /\ plan[b].cert \in Certs
    BY <1>12 DEF IInv, TypeOK, PlanInv, Plan
  <2>2. touched'[b] = touched[b] \cup R
    BY <1>1, <1>12
  <2>3. CASE plan[b].cert = c
    <3>1. ~plan[b].new
      BY <1>12, <2>1, <2>3 DEF PlanGood, Fresh, Under, Exists
    <3> QED
      BY <1>1, <1>2, <2>1, <2>2, <2>3, <3>1 DEF PlanGood
  <2>4. CASE plan[b].cert # c
    <3>1. cert'[plan[b].cert] = cert[plan[b].cert]
      BY <1>2, <2>1, <2>4
    <3> QED
      BY <1>1, <2>1, <2>2, <3>1 DEF PlanGood, Exists
  <2> QED
    BY <2>3, <2>4
<1>13. PlanInv'
  BY <1>1, <1>12 DEF PlanInv
<1> QED
  BY <1>5, <1>6, <1>9, <1>10, <1>11, <1>13 DEF IInv

\* The settings: no certificate's row is written.
LEMMA SettingsStep ==
  ASSUME IInv, NEW R \in SUBSET Rows, Act(R), UNCHANGED <<cert, pin>>,
         link' \in [Companies -> Certs \cup {None}], auto' \subseteq Companies
  PROVE  IInv'
<1>1. /\ UNCHANGED <<schema, legacy, sha, plan, seeded, cert, pin>>
      /\ touched' = [b \in Runs |-> IF plan[b] = None THEN {} ELSE touched[b] \cup R]
      /\ acts' \in 0..MaxActs
  BY HomologationAssumption DEF Act, Touch, IInv, TypeOK, HomologationAssumption
<1>2. touched' \in [Runs -> SUBSET Rows]
  BY <1>1 DEF IInv, TypeOK
<1>3. TypeOK'
  BY <1>1, <1>2 DEF IInv, TypeOK
<1>4. SeedInv' /\ RowsInv' /\ OldInv' /\ OldTickets' /\ PinInv' /\ ReservedInv'
  BY <1>1 DEF IInv, SeedInv, RowsInv, OldInv, OldTickets, PinInv, ReservedInv, Exists
<1>5. ASSUME NEW b \in Runs, plan[b] # None PROVE PlanGood(b)'
  <2>1. PlanGood(b) /\ touched'[b] = touched[b] \cup R
    BY <1>1, <1>5 DEF IInv, PlanInv
  <2> QED
    BY <1>1, <2>1 DEF PlanGood, Exists
<1>6. PlanInv'
  BY <1>1, <1>5 DEF PlanInv
<1> QED
  BY <1>3, <1>4, <1>6 DEF IInv

\* A draft made, by form or wizard, takes an id nobody has.
LEMMA CreationKeeps ==
  ASSUME IInv, NEW c \in Certs, NEW o \in Companies, NEW e \in {"testing", "production"},
         CreateCertificate(c, o, e) \/ CreateInWizard(c, o, e)
  PROVE  IInv'
<1>1. /\ NewDraft(o, e) \in Row
      /\ NewDraft(o, e).state = "draft"
      /\ GoodRow(NewDraft(o, e))
  BY DEF NewDraft, Row, CertStates, GoodRow
<1>2. schema = "columns" /\ c \in Fresh /\ pin' = pin
      /\ cert' = [cert EXCEPT ![c] = NewDraft(o, e)]
  BY DEF CreateCertificate, CreateInWizard, Act
<1>3. PICK R \in SUBSET Rows : Act(R) /\ c \in R
  BY DEF CreateCertificate, CreateInWizard, Rows
<1>4. link' \in [Companies -> Certs \cup {None}] /\ auto' \subseteq Companies
  BY DEF CreateCertificate, CreateInWizard, IInv, TypeOK
<1>5. pin' = (IF NewDraft(o, e).state = "deleted" /\ pin = c THEN None ELSE pin)
  BY <1>1, <1>2
<1>6. NewDraft(o, e).state # "none"
  BY <1>1
<1> QED
  BY <1>1, <1>2, <1>3, <1>4, <1>5, <1>6, RowStep

\* What is done to the row of an existing certificate.
LEMMA RowActionKeeps ==
  ASSUME IInv, NEW c \in Certs,
         \/ \E o \in Companies, e \in {"testing", "production"} : EditDraft(c, o, e)
         \/ GenerateKey(c) \/ ProcessCertificate(c) \/ Revoke(c)
         \/ Expire(c) \/ CacheTicket(c) \/ \E x \in Keys \cup {None} : SaveInForm(c, x)
  PROVE  IInv'
<1>1. /\ Act({c}) /\ UNCHANGED <<link, auto, pin>>
      /\ schema = "columns" /\ {c} \in SUBSET Rows
  BY DEF EditDraft, GenerateKey, ProcessCertificate, Revoke, Expire, CacheTicket, SaveInForm,
    Act, Rows
<1>2. cert[c] \in Row /\ GoodRow(cert[c])
  BY <1>1 DEF IInv, TypeOK, RowsInv
<1>3. Exists(c)
  BY DEF EditDraft, GenerateKey, ProcessCertificate, Revoke, Expire, CacheTicket, SaveInForm,
    Exists
<1>4. ASSUME NEW r \in Row, GoodRow(r), r.state \notin {"none", "deleted"},
             cert' = [cert EXCEPT ![c] = r]
      PROVE  IInv'
  BY <1>1, <1>3, <1>4, RowStep DEF IInv, TypeOK
<1>5. ASSUME NEW o \in Companies, NEW e \in {"testing", "production"}, EditDraft(c, o, e)
      PROVE  IInv'
  <2>1. [cert[c] EXCEPT !.owner = o, !.env = e] \in Row
    BY <1>2 DEF Row
  <2>2. cert' = [cert EXCEPT ![c] = [cert[c] EXCEPT !.owner = o, !.env = e]]
    BY <1>5 DEF EditDraft, IInv, TypeOK
  <2>3. GoodRow([cert[c] EXCEPT !.owner = o, !.env = e])
    BY <1>2 DEF Row, GoodRow
  <2>4. [cert[c] EXCEPT !.owner = o, !.env = e].state = "draft"
    BY <1>2, <1>5 DEF Row, EditDraft
  <2> QED
    BY <1>4, <2>1, <2>2, <2>3, <2>4
<1>6. CASE GenerateKey(c)
  <2>1. PICK k \in Keys : cert' = [cert EXCEPT ![c].key = k, ![c].state = "csr_generated"]
    BY <1>6 DEF GenerateKey, Free
  <2> DEFINE r == [cert[c] EXCEPT !.key = k, !.state = "csr_generated"]
  <2>2. cert' = [cert EXCEPT ![c] = r] /\ cert[c].state = "draft"
    BY <1>6, <2>1 DEF GenerateKey, IInv, TypeOK
  <2>3. r \in Row /\ GoodRow(r) /\ r.state = "csr_generated"
    BY <1>2, <2>2 DEF Row, CertStates, GoodRow
  <2> QED
    BY <1>4, <2>2, <2>3
<1>7. CASE ProcessCertificate(c)
  <2> DEFINE r == [cert[c] EXCEPT !.crt = cert[c].key, !.state = "active", !.ticket = FALSE,
                            !.hand = FALSE]
  <2>1. cert' = [cert EXCEPT ![c] = r] /\ cert[c].key # None
    BY <1>7 DEF ProcessCertificate, IInv, TypeOK
  <2>2. r \in Row /\ GoodRow(r) /\ r.state = "active"
    BY <1>2, <2>1 DEF Row, CertStates, GoodRow
  <2> QED
    BY <1>4, <2>1, <2>2
<1>8. CASE Revoke(c)
  <2> DEFINE r == [cert[c] EXCEPT !.state = "revoked", !.key = None, !.ticket = FALSE]
  <2>1. cert' = [cert EXCEPT ![c] = r]
    BY <1>8 DEF Revoke, IInv, TypeOK
  <2>2. r \in Row /\ GoodRow(r) /\ r.state = "revoked"
    BY <1>2 DEF Row, CertStates, GoodRow
  <2> QED
    BY <1>4, <2>1, <2>2
<1>9. CASE Expire(c)
  <2> DEFINE r == [cert[c] EXCEPT !.state = "expired", !.ticket = FALSE]
  <2>1. cert' = [cert EXCEPT ![c] = r]
    BY <1>9 DEF Expire, IInv, TypeOK
  <2>2. r \in Row /\ GoodRow(r) /\ r.state = "expired"
    BY <1>2 DEF Row, CertStates, GoodRow
  <2> QED
    BY <1>4, <2>1, <2>2
<1>10. CASE CacheTicket(c)
  <2> DEFINE r == [cert[c] EXCEPT !.ticket = TRUE]
  <2>1. cert' = [cert EXCEPT ![c] = r] /\ cert[c].state = "active"
    BY <1>10 DEF CacheTicket, IInv, TypeOK
  <2>2. r \in Row /\ GoodRow(r) /\ r.state = "active"
    BY <1>2, <2>1 DEF Row, CertStates, GoodRow
  <2> QED
    BY <1>4, <2>1, <2>2
<1>11. ASSUME NEW x \in Keys \cup {None}, SaveInForm(c, x) PROVE IInv'
  <2> DEFINE r == [cert[c] EXCEPT !.crt = x, !.hand = TRUE]
  <2>1. cert' = [cert EXCEPT ![c] = r] /\ cert[c].state \notin {"none", "deleted"}
    BY <1>11 DEF SaveInForm, Exists, IInv, TypeOK
  <2>2. r \in Row /\ r.hand = TRUE /\ r.state = cert[c].state
    BY <1>2 DEF Row
  <2>3. GoodRow(r)
    BY <2>1, <2>2 DEF GoodRow
  <2> QED
    BY <1>4, <2>1, <2>2, <2>3
<1> QED
  BY <1>5, <1>6, <1>7, <1>8, <1>9, <1>10, <1>11

\* A deleted certificate takes its external identifier with it.
LEMMA DeleteKeeps ==
  ASSUME IInv, NEW c \in Certs, Delete(c)
  PROVE  IInv'
<1> DEFINE r == [cert[c] EXCEPT !.state = "deleted", !.key = None,
                                !.crt = None, !.ticket = FALSE, !.hand = FALSE]
           R == {c} \cup {o \in Companies : link[o] = c}
<1>1. cert[c] \in Row
  BY DEF IInv, TypeOK
<1>2. r \in Row /\ GoodRow(r) /\ r.state = "deleted"
  BY <1>1 DEF Row, CertStates, GoodRow
<1>3. Act(R) /\ schema = "columns" /\ Exists(c) /\ R \in SUBSET Rows /\ c \in R
  BY DEF Delete, Act, Rows
<1>4. /\ cert' = [cert EXCEPT ![c] = r]
      /\ pin' = (IF r.state = "deleted" /\ pin = c THEN None ELSE pin)
      /\ link' \in [Companies -> Certs \cup {None}]
      /\ auto' \subseteq Companies
  BY <1>2 DEF Delete, IInv, TypeOK
<1> QED
  BY <1>2, <1>3, <1>4, RowStep

-----------------------------------------------------------------------------
(* The upgrade and the bootstrap *)

\* With no attachments nothing was active, and the columns may be empty.
LEMMA UpgradeKeeps ==
  ASSUME IInv, Upgrade
  PROVE  IInv'
<1>1. /\ UNCHANGED <<cert, legacy, link, auto, pin, sha, plan, seeded, acts>>
      /\ schema = "old" /\ schema' = "columns" /\ legacy = {}
      /\ touched' = [b \in Runs |-> IF plan[b] = None THEN {} ELSE touched[b] \cup {}]
  BY DEF Upgrade, Touch
<1>2. /\ \A b \in Runs : plan[b] = None
      /\ \A c \in Certs : cert[c].state # "active" /\ cert[c].key = None /\ cert[c].crt = None
                         /\ ~cert[c].hand
  BY <1>1 DEF IInv, OldInv
<1>3. touched' \in [Runs -> SUBSET Rows]
  BY <1>1 DEF IInv, TypeOK
<1>4. TypeOK'
  BY <1>1, <1>3 DEF IInv, TypeOK
<1>5. \A c \in Certs : ~cert[c].ticket
  BY <1>1 DEF IInv, OldTickets
<1>6. RowsInv' /\ OldInv' /\ OldTickets'
  BY <1>1, <1>2, <1>4, <1>5 DEF RowsInv, OldInv, OldTickets, GoodRow, TypeOK
<1>7. PlanInv' /\ ReservedInv' /\ PinInv' /\ SeedInv'
  BY <1>1, <1>2 DEF IInv, PlanInv, ReservedInv, PinInv, SeedInv, Exists
<1> QED
  BY <1>4, <1>6, <1>7 DEF IInv

\* A plan is right when it is made: what it brings is absent, and makes a pair.
LEMMA StartKeeps ==
  ASSUME IInv, NEW b \in Runs, StartBootstrap(b)
  PROVE  IInv'
<1>1. /\ plan[b] = None /\ schema = "columns"
      /\ UNCHANGED <<config, touched, seeded, acts>>
  BY DEF StartBootstrap
<1>decided. PICK o \in Companies, c \in Certs, v \in Codes :
        \E k, x \in Keys \cup {None} : Decide(b, o, c, k, x, v)
  BY DEF StartBootstrap
<1>pick. PICK k, x \in Keys \cup {None} : Decide(b, o, c, k, x, v)
  BY <1>decided
<1>2. PICK key, crt \in Keys \cup {None} :
        /\ Seed(o, c)
        /\ Material(c, k, x, key, crt)
        /\ plan' = [plan EXCEPT ![b] = PlanFor(o, c, key, crt, v)]
  BY <1>pick DEF Decide
<1> DEFINE p == PlanFor(o, c, key, crt, v)
<1>3. /\ p.cert = c /\ p.key = key /\ p.crt = crt /\ p.new = (pin = None)
      /\ c \in p.writes <=> (pin = None \/ key # None \/ crt # None)
           \/ c \in ToSilence(o) \cup {o2 \in {o} : link[o] = None} \cup {r \in {ShaRow} : sha # v}
  BY DEF PlanFor
<1>4. p \in Plan
  BY DEF PlanFor, Plan, Rows, ToSilence, IInv, TypeOK
<1>5. plan'[b] = p /\ \A d \in Runs : d # b => plan'[d] = plan[d]
  BY <1>2 DEF IInv, TypeOK
<1>6. TypeOK'
  <2>1. plan' \in [Runs -> Plan \cup {None}]
    BY <1>2, <1>4 DEF IInv, TypeOK
  <2> QED
    BY <1>1, <2>1 DEF config, IInv, TypeOK
<1>7. cert[c] \in Row /\ GoodRow(cert[c])
  BY <1>1 DEF IInv, TypeOK, RowsInv
<1>8. pin # None => c = pin /\ Exists(c)
  BY <1>2 DEF Seed, IInv, PinInv
<1>9. pin = None => c \in Fresh
  BY <1>2, HomologationAssumption DEF Seed, HomologationAssumption
<1>10. PlanGood(b)'
  <2>1. /\ key # None => cert[c].key = None
        /\ crt # None => cert[c].crt = None
        /\ (IF key = None THEN cert[c].key ELSE key) # None
        /\ (IF key = None THEN cert[c].key ELSE key) = (IF crt = None THEN cert[c].crt ELSE crt)
    BY <1>2 DEF Material
  <2>2. pin = None => cert[c].state = "none" /\ key # None /\ key = crt
    BY <1>7, <1>9, <2>1 DEF Fresh, GoodRow
  <2> HIDE DEF p
  <2> QED
    BY <1>1, <1>3, <1>5, <1>8, <2>1, <2>2 DEF PlanGood, Exists, config
<1>11. ASSUME NEW d \in Runs, plan'[d] # None, d # b PROVE PlanGood(d)'
  <2>1. plan'[d] = plan[d] /\ PlanGood(d)
    BY <1>5, <1>11 DEF IInv, PlanInv
  <2> QED
    BY <1>1, <2>1 DEF PlanGood, Exists, config
<1>12. ReservedInv'
  <2>1. ASSUME NEW d \in Runs, d # b, plan[d] # None
        PROVE  (p.new \/ plan[d].new) => plan[d].cert # c
    <3>1. p.new => plan[d].cert # c
      BY <1>3, <1>9, <2>1 DEF Fresh, Under
    <3>2. plan[d].new => cert[plan[d].cert].state = "none"
      BY <2>1 DEF IInv, PlanInv, PlanGood
    <3>3. ~p.new => cert[c].state # "none"
      BY <1>3, <1>8 DEF Exists
    <3> QED
      BY <3>1, <3>2, <3>3
  <2> HIDE DEF p
  <2> QED
    BY <1>3, <1>5, <2>1 DEF IInv, ReservedInv
<1>13. SeedInv' /\ RowsInv' /\ OldInv' /\ OldTickets' /\ PinInv'
  BY <1>1 DEF IInv, SeedInv, RowsInv, OldInv, OldTickets, PinInv, Exists, config
<1> QED
  BY <1>6, <1>10, <1>11, <1>12, <1>13 DEF IInv, PlanInv

\* What a commit that is not refused finds: the row of its plan as it was read.
LEMMA CommitFinds ==
  ASSUME IInv, NEW b \in Runs, CommitBootstrap(b)
  PROVE  /\ plan[b] \in Plan
         /\ schema = "columns"
         /\ PlanGood(b)
         /\ plan[b].cert \in plan[b].writes => plan[b].cert \notin touched[b]
         /\ plan[b].new => pin = None
<1>1. plan[b] # None /\ Committable(b)
  BY DEF CommitBootstrap
<1>2. plan[b] \in Plan /\ schema = "columns" /\ PlanGood(b)
  BY <1>1 DEF IInv, TypeOK, PlanInv, OldInv
<1> QED
  BY <1>1, <1>2 DEF Committable

\* The row a plan leaves: a pair where it wrote one, and nothing lost.
LEMMA SeededRow ==
  ASSUME IInv, NEW b \in Runs, CommitBootstrap(b), plan[b].cert \in plan[b].writes
  PROVE  /\ Seeded(plan[b]) \in Row
         /\ GoodRow(Seeded(plan[b]))
         /\ Seeded(plan[b]).state \notin {"none", "deleted"}
         /\ plan[b].new \/ Exists(plan[b].cert)
         /\ ~plan[b].new =>
              LET r == cert[plan[b].cert]
              IN  /\ r.key # None => Seeded(plan[b]).key = r.key
                  /\ r.crt # None => Seeded(plan[b]).crt = r.crt
                  /\ r.ticket /\ ~r.hand => Seeded(plan[b]).ticket
<1> DEFINE p == plan[b]
           r == cert[p.cert]
<1>1. /\ p \in Plan /\ schema = "columns" /\ PlanGood(b)
      /\ p.cert \notin touched[b]
  BY CommitFinds
<1>2. /\ p.cert \in Certs /\ p.company \in Companies
      /\ p.key \in Keys \cup {None} /\ p.crt \in Keys \cup {None}
      /\ p.new \in BOOLEAN
  BY <1>1 DEF Plan
<1>3. r \in Row /\ GoodRow(r)
  BY <1>1, <1>2 DEF IInv, TypeOK, RowsInv
<1>4. CASE p.new
  <2>1. p.key # None /\ p.key = p.crt
    BY <1>1, <1>4 DEF PlanGood
  <2> DEFINE fresh == NewDraft(p.company, "testing")
             s == Seeded(p)
  <2>2. s = [fresh EXCEPT !.key = IF p.key = None THEN @ ELSE p.key,
                          !.crt = IF p.crt = None THEN @ ELSE p.crt,
                          !.state = IF p.crt = None THEN @ ELSE "active",
                          !.ticket = IF p.crt = None THEN @ ELSE FALSE,
                          !.hand = IF p.crt = None THEN @ ELSE FALSE]
    BY <1>4 DEF Seeded
  <2>3. fresh \in Row
    BY <1>2 DEF NewDraft, Row, CertStates
  <2> HIDE DEF fresh
  <2>4. s \in Row
    BY <1>2, <2>2, <2>3 DEF Row, CertStates
  <2>5. s.key = p.key /\ s.crt = p.crt /\ s.state = "active"
    BY <2>1, <2>2, <2>3 DEF Row
  <2> HIDE DEF s
  <2>6. GoodRow(s) /\ s.state \notin {"none", "deleted"}
    BY <2>1, <2>5 DEF GoodRow
  <2> HIDE DEF p, r
  <2> QED
    BY <1>4, <2>4, <2>6 DEF s, p
<1>5. CASE ~p.new
  <2>1. /\ Exists(p.cert)
        /\ p.key # None => r.key = None
        /\ p.crt # None => r.crt = None
        /\ (IF p.key = None THEN r.key ELSE p.key) # None
        /\ (IF p.key = None THEN r.key ELSE p.key) = (IF p.crt = None THEN r.crt ELSE p.crt)
    BY <1>1, <1>5 DEF PlanGood
  <2> DEFINE s == Seeded(p)
  <2>2. s = [r EXCEPT !.key = IF p.key = None THEN @ ELSE p.key,
                      !.crt = IF p.crt = None THEN @ ELSE p.crt,
                      !.state = IF p.crt = None THEN @ ELSE "active",
                      !.ticket = IF p.crt = None THEN @ ELSE FALSE,
                      !.hand = IF p.crt = None THEN @ ELSE FALSE]
    BY <1>5 DEF Seeded
  <2>3. s \in Row
    BY <1>2, <1>3, <2>2 DEF Row, CertStates
  <2>4. /\ s.key = IF p.key = None THEN r.key ELSE p.key
        /\ s.crt = IF p.crt = None THEN r.crt ELSE p.crt
        /\ s.state = IF p.crt = None THEN r.state ELSE "active"
        /\ s.ticket = IF p.crt = None THEN r.ticket ELSE FALSE
        /\ s.hand = IF p.crt = None THEN r.hand ELSE FALSE
    BY <1>3, <2>2 DEF Row
  <2>5. r.state \notin {"none", "deleted"}
    BY <2>1 DEF Exists
  <2> HIDE DEF s
  <2>6. GoodRow(s) /\ s.state \notin {"none", "deleted"}
    BY <1>3, <2>1, <2>4, <2>5 DEF GoodRow
  <2>7. /\ r.key # None => s.key = r.key
        /\ r.crt # None => s.crt = r.crt
        /\ r.ticket /\ ~r.hand => s.ticket
    BY <1>3, <2>1, <2>4 DEF GoodRow, Row
  <2> QED
    BY <1>5, <2>1, <2>3, <2>6, <2>7 DEF s
<1> QED
  BY <1>2, <1>4, <1>5

\* A bootstrap that commits keeps the invariant, and overwrites nothing.
LEMMA CommitKeeps ==
  ASSUME IInv, NEW b \in Runs, CommitBootstrap(b)
  PROVE  /\ IInv'
         /\ \A c \in Existing : /\ cert[c].key # None => cert'[c].key = cert[c].key
                                /\ cert[c].crt # None => cert'[c].crt = cert[c].crt
                                /\ cert[c].ticket /\ ~cert[c].hand => cert'[c].ticket
<1> DEFINE p == plan[b]
           n == p.cert
<1>1. /\ p \in Plan /\ schema = "columns" /\ PlanGood(b) /\ p # None
      /\ n \in p.writes => n \notin touched[b]
      /\ p.new => pin = None
      /\ n \in Certs
  BY CommitFinds DEF Plan, CommitBootstrap
<1>2. /\ cert' = [cert EXCEPT ![n] = IF n \in p.writes THEN Seeded(p) ELSE @]
      /\ link' = IF p.link THEN [link EXCEPT ![p.company] = n] ELSE link
      /\ auto' = auto \ p.quiet
      /\ pin' = IF p.new THEN n ELSE pin
      /\ sha' = IF ShaRow \in p.writes THEN p.sha ELSE sha
      /\ seeded' = IF p.new THEN seeded \cup {n} ELSE seeded
      /\ plan' = [plan EXCEPT ![b] = None]
      /\ touched' = [d \in Runs |-> IF d = b \/ plan[d] = None THEN {}
                                    ELSE touched[d] \cup p.writes]
      /\ UNCHANGED <<schema, legacy, acts>>
  BY DEF CommitBootstrap, Pinned
<1>3. n \in p.writes => /\ Seeded(p) \in Row
                        /\ GoodRow(Seeded(p))
                        /\ Seeded(p).state \notin {"none", "deleted"}
                        /\ p.new \/ Exists(n)
  BY SeededRow
<1>4. n \in p.writes /\ ~p.new =>
         /\ cert[n].key # None => Seeded(p).key = cert[n].key
         /\ cert[n].crt # None => Seeded(p).crt = cert[n].crt
         /\ cert[n].ticket /\ ~cert[n].hand => Seeded(p).ticket
  BY SeededRow
<1>5. /\ p.new => n \in p.writes /\ cert[n].state = "none"
      /\ ~p.new => cert[n].state # "none"
  BY <1>1 DEF PlanGood
<1>6. \A c \in Certs : cert'[c] = IF c = n /\ n \in p.writes THEN Seeded(p) ELSE cert[c]
  BY <1>1, <1>2 DEF IInv, TypeOK
<1>7. /\ plan'[b] = None
      /\ \A d \in Runs : d # b => plan'[d] = plan[d]
  BY <1>2 DEF IInv, TypeOK
<1>8. /\ p.company \in Companies /\ p.writes \subseteq Rows /\ p.sha \in Codes
      /\ p.link \in BOOLEAN /\ p.new \in BOOLEAN
  BY <1>1 DEF Plan
<1> HIDE DEF p, n
<1>9. \A c \in Certs : Exists(c)' <=> Exists(c) \/ (c = n /\ n \in p.writes)
  BY <1>3, <1>6 DEF Exists
<1>10. TypeOK'
  <2>1. cert' \in [Certs -> Row]
    BY <1>1, <1>2, <1>3 DEF IInv, TypeOK
  <2>2. link' \in [Companies -> Certs \cup {None}] /\ auto' \subseteq Companies
    BY <1>1, <1>2, <1>8 DEF IInv, TypeOK
  <2>3. pin' \in Certs \cup {None} /\ sha' \in Codes \cup {None} /\ seeded' \subseteq Certs
    BY <1>1, <1>2, <1>8 DEF IInv, TypeOK
  <2>4. plan' \in [Runs -> Plan \cup {None}]
    BY <1>2 DEF IInv, TypeOK
  <2>5. touched' \in [Runs -> SUBSET Rows]
    BY <1>2, <1>8 DEF IInv, TypeOK
  <2>6. \A c \in Certs : cert'[c].state \in {"none", "draft", "deleted"} /\ ~cert'[c].hand =>
          cert'[c].key = None /\ cert'[c].crt = None /\ ~cert'[c].ticket
    BY <1>3, <1>6 DEF IInv, TypeOK, GoodRow
  <2> QED
    BY <1>2, <2>1, <2>2, <2>3, <2>4, <2>5, <2>6 DEF IInv, TypeOK
<1>11. RowsInv'
  BY <1>1, <1>3, <1>6 DEF IInv, RowsInv
<1>12. OldInv' /\ OldTickets'
  BY <1>1, <1>2 DEF OldInv, OldTickets
<1>13. PinInv'
  BY <1>1, <1>2, <1>5, <1>9 DEF IInv, PinInv, TypeOK
<1>14. SeedInv'
  <2>1. ASSUME NEW c \in seeded' PROVE cert'[c].state # "none" /\ (Exists(c)' => pin' = c)
    <3>1. CASE p.new
      <4>1. pin = None /\ n \notin seeded
        BY <1>1, <1>5, <3>1 DEF IInv, SeedInv
      <4>2. CASE c = n
        BY <1>1, <1>2, <1>3, <1>5, <1>6, <3>1, <4>2
      <4>3. CASE c # n
        <5>1. c \in seeded /\ c \in Certs /\ cert'[c] = cert[c]
          BY <1>2, <1>6, <4>3 DEF IInv, TypeOK
        <5>2. ~Exists(c) /\ cert[c].state # "none"
          BY <4>1, <5>1, HomologationAssumption DEF IInv, SeedInv, HomologationAssumption
        <5> QED
          BY <1>9, <4>3, <5>1, <5>2
      <4> QED
        BY <4>2, <4>3
    <3>2. CASE ~p.new
      <4>1. c \in seeded /\ c \in Certs /\ pin' = pin
        BY <1>2, <3>2 DEF IInv, TypeOK
      <4>2. Exists(c)' => Exists(c)
        BY <1>3, <1>9, <3>2, <4>1
      <4> QED
        BY <1>3, <1>6, <4>1, <4>2 DEF IInv, SeedInv
    <3> QED
      BY <3>1, <3>2
  <2> QED
    BY <2>1 DEF SeedInv
<1>15. ReservedInv'
  BY <1>7 DEF IInv, ReservedInv
<1>16. ASSUME NEW d \in Runs, plan'[d] # None PROVE PlanGood(d)'
  <2>1. d # b /\ plan'[d] = plan[d] /\ PlanGood(d) /\ plan[d] \in Plan /\ plan[d].cert \in Certs
    BY <1>7, <1>16 DEF IInv, TypeOK, PlanInv, Plan
  <2>2. touched'[d] = touched[d] \cup p.writes
    BY <1>2, <1>16, <2>1
  <2>3. p.new \/ plan[d].new => plan[d].cert # n
    BY <1>1, <1>16, <2>1 DEF IInv, ReservedInv, p, n
  <2>4. CASE plan[d].cert = n /\ n \in p.writes
    <3>1. cert'[n].state # "none" /\ ~plan[d].new /\ plan[d].cert \in touched'[d]
      BY <1>1, <1>3, <1>6, <2>2, <2>3, <2>4
    <3>2. ~plan[d].new /\ plan[d].cert \notin plan[d].writes => plan[d].key = None /\ plan[d].crt = None
      BY <2>1 DEF PlanGood
    <3> QED
      BY <2>1, <2>4, <3>1, <3>2 DEF PlanGood
  <2>5. CASE ~(plan[d].cert = n /\ n \in p.writes)
    <3>1. cert'[plan[d].cert] = cert[plan[d].cert]
      BY <1>6, <2>1, <2>5
    <3> QED
      BY <2>1, <2>2, <3>1 DEF PlanGood, Exists
  <2> QED
    BY <2>4, <2>5
<1>17. ASSUME NEW c \in Existing
       PROVE  /\ cert[c].key # None => cert'[c].key = cert[c].key
              /\ cert[c].crt # None => cert'[c].crt = cert[c].crt
              /\ cert[c].ticket /\ ~cert[c].hand => cert'[c].ticket
  <2>1. c \in Certs /\ (c = n => ~p.new)
    BY <1>5, <1>17 DEF Existing, Exists
  <2> QED
    BY <1>4, <1>6, <2>1
<1> QED
  BY <1>10, <1>11, <1>12, <1>13, <1>14, <1>15, <1>16, <1>17 DEF IInv, PlanInv

\* A run that is dropped leaves nothing.
LEMMA DropKeeps ==
  ASSUME IInv, NEW b \in Runs, DropBootstrap(b)
  PROVE  IInv'
<1>1. /\ plan' = [plan EXCEPT ![b] = None]
      /\ touched' = [touched EXCEPT ![b] = {}]
      /\ UNCHANGED <<config, seeded, acts>>
  BY DEF DropBootstrap
<1>2. /\ plan'[b] = None
      /\ \A d \in Runs : d # b => plan'[d] = plan[d] /\ touched'[d] = touched[d]
  BY <1>1 DEF IInv, TypeOK
<1>3. TypeOK'
  <2>1. plan' \in [Runs -> Plan \cup {None}] /\ touched' \in [Runs -> SUBSET Rows]
    BY <1>1 DEF IInv, TypeOK
  <2> QED
    BY <1>1, <2>1 DEF IInv, TypeOK, config
<1>4. SeedInv' /\ RowsInv' /\ OldInv' /\ OldTickets' /\ PinInv'
  BY <1>1, <1>2 DEF IInv, SeedInv, RowsInv, OldInv, OldTickets, PinInv, Exists, config
<1>5. ReservedInv'
  BY <1>2 DEF IInv, ReservedInv
<1>6. ASSUME NEW d \in Runs, plan'[d] # None PROVE PlanGood(d)'
  <2>1. plan'[d] = plan[d] /\ touched'[d] = touched[d] /\ PlanGood(d)
    BY <1>2, <1>6 DEF IInv, PlanInv
  <2> QED
    BY <1>1, <2>1 DEF PlanGood, Exists, config
<1> QED
  BY <1>3, <1>4, <1>5, <1>6 DEF IInv, PlanInv

-----------------------------------------------------------------------------
(* The theorems *)

LEMMA InitHolds == Init => IInv
<1> SUFFICES ASSUME Init PROVE IInv
  OBVIOUS
<1>1. cert \in [Certs -> Row] /\ \A c \in Certs : /\ cert[c].key = None /\ cert[c].crt = None
                                                 /\ ~cert[c].ticket /\ ~cert[c].hand
  <2> DEFINE Old == {[state |-> st, owner |-> o, env |-> "testing",
                      key |-> None, crt |-> None, ticket |-> FALSE, hand |-> FALSE] :
                     st \in {"none", "draft", "csr_generated", "active"},
                     o \in Companies \cup {None}}
  <2>1. cert \in [Certs -> Old]
    BY DEF Init
  <2>2. ASSUME NEW r \in Old PROVE r \in Row /\ r.key = None /\ r.crt = None /\ ~r.ticket
                                  /\ ~r.hand
    <3>1. PICK st \in {"none", "draft", "csr_generated", "active"},
               o \in Companies \cup {None} :
            r = [state |-> st, owner |-> o, env |-> "testing",
                 key |-> None, crt |-> None, ticket |-> FALSE, hand |-> FALSE]
      OBVIOUS
    <3> QED
      BY <3>1 DEF Row, CertStates
  <2> HIDE DEF Old
  <2> QED
    BY <2>1, <2>2
<1>2. legacy \subseteq Certs /\ link \in [Companies -> Certs \cup {None}]
      /\ touched \in [Runs -> SUBSET Rows] /\ plan \in [Runs -> Plan \cup {None}]
  BY DEF Init
<1>3. acts \in 0..MaxActs
  BY HomologationAssumption DEF Init, HomologationAssumption
<1>4. TypeOK
  BY <1>1, <1>2, <1>3 DEF Init, TypeOK
<1>5. \A c \in Certs : cert[c].state = "active" => c \in legacy
  BY DEF Init
<1>6. schema = "columns" => \A c \in Certs : cert[c].state # "active"
  BY DEF Init, Existing, Exists
<1>7. RowsInv /\ OldInv /\ OldTickets
  BY <1>1, <1>5, <1>6 DEF Init, RowsInv, OldInv, OldTickets, GoodRow
<1>8. SeedInv /\ PinInv /\ PlanInv /\ ReservedInv
  BY DEF Init, SeedInv, PinInv, PlanInv, ReservedInv
<1> QED
  BY <1>4, <1>7, <1>8 DEF IInv

\* A bootstrap that has not committed has written nothing yet; only a commit
\* is a step of the bootstrap that touches a certificate.
LEMMA StepKeeps == IInv /\ [Next]_vars => IInv'
<1> SUFFICES ASSUME IInv, [Next]_vars PROVE IInv'
  OBVIOUS
<1>1. CASE Upgrade
  BY <1>1, UpgradeKeeps
<1>2. ASSUME NEW b \in Runs, StartBootstrap(b) \/ CommitBootstrap(b) \/ DropBootstrap(b)
      PROVE  IInv'
  BY <1>2, StartKeeps, CommitKeeps, DropKeeps
<1>3. ASSUME NEW c \in Certs, NEW o \in Companies, NEW e \in {"testing", "production"},
             CreateCertificate(c, o, e) \/ CreateInWizard(c, o, e) \/ EditDraft(c, o, e)
      PROVE  IInv'
  BY <1>3, CreationKeeps, RowActionKeeps
<1>4. ASSUME NEW c \in Certs,
             \/ GenerateKey(c) \/ ProcessCertificate(c) \/ Revoke(c)
             \/ Expire(c) \/ CacheTicket(c) \/ Delete(c)
             \/ \E x \in Keys \cup {None} : SaveInForm(c, x)
      PROVE  IInv'
  BY <1>4, RowActionKeeps, DeleteKeeps
<1>5. ASSUME NEW o \in Companies,
             SwitchAuto(o) \/ \E c \in Certs \cup {None} : Choose(o, c)
      PROVE  IInv'
  <2>1. {o} \in SUBSET Rows
    BY DEF Rows
  <2>2. Act({o}) /\ UNCHANGED <<cert, pin>>
    BY <1>5 DEF SwitchAuto, Choose
  <2>3. link' \in [Companies -> Certs \cup {None}] /\ auto' \subseteq Companies
    BY <1>5 DEF SwitchAuto, Choose, IInv, TypeOK
  <2> QED
    BY <2>1, <2>2, <2>3, SettingsStep
<1>6. CASE UNCHANGED vars
  <2>1. UNCHANGED <<schema, cert, legacy, link, auto, pin, sha, plan, touched, seeded, acts>>
    BY <1>6 DEF vars, config
  <2>2. TypeOK' /\ SeedInv' /\ RowsInv' /\ OldInv' /\ OldTickets' /\ PinInv' /\ ReservedInv'
    BY <2>1 DEF IInv, TypeOK, SeedInv, RowsInv, OldInv, OldTickets, PinInv, ReservedInv, Exists
  <2>3. PlanInv'
    BY <2>1 DEF IInv, PlanInv, PlanGood, Exists
  <2> QED
    BY <2>2, <2>3 DEF IInv
<1> QED
  BY <1>1, <1>2, <1>3, <1>4, <1>5, <1>6 DEF Next

LEMMA Invariance == Spec => []IInv
BY InitHolds, StepKeeps, PTL DEF Spec

\* Rows, links, parameter and plans keep their types, and a row that is a draft,
\* deleted or not yet made holds no material, but what the form put there.
THEOREM TypeCorrect == Spec => []TypeOK
<1>1. IInv => TypeOK
  BY DEF IInv
<1> QED
  BY Invariance, <1>1, PTL

\* However many bootstraps run at once, and whatever users do meanwhile, the
\* certificate one of them created is the pinned one while it exists.
THEOREM OnlySeedIsPinned == Spec => []SeedIsPinned
<1>1. IInv => SeedIsPinned
  BY DEF IInv, SeedInv, SeedIsPinned
<1> QED
  BY Invariance, <1>1, PTL

\* An active certificate has both halves where the addon reads them, and they
\* are a pair, unless the form replaced one.
THEOREM ActiveSigns == Spec => []ActiveCanSign
<1>1. IInv => ActiveCanSign
  BY RowsSign DEF IInv
<1> QED
  BY Invariance, <1>1, PTL

\* Re-running the bootstrap replaces no material and costs no ticket, even if
\* the material or the ticket arrived after it read the database.
THEOREM RerunCostsNothing == Spec => NothingOverwritten
<1>1. IInv /\ [Next]_vars =>
        [\A b \in Runs, c \in Existing : CommitBootstrap(b) =>
           /\ cert[c].key # None => cert'[c].key = cert[c].key
           /\ cert[c].crt # None => cert'[c].crt = cert[c].crt
           /\ cert[c].ticket /\ ~cert[c].hand => cert'[c].ticket]_vars
  BY CommitKeeps
<1> QED
  BY Invariance, <1>1, PTL DEF Spec, NothingOverwritten

-----------------------------------------------------------------------------
(* What the bootstrap leaves, the runner accepts *)

\* What a plan changes of the companies is among the rows it says it writes.
WritesInv == \A b \in Runs : plan[b] # None =>
  /\ plan[b].quiet \subseteq plan[b].writes
  /\ plan[b].link => plan[b].company \in plan[b].writes

\* The database is still as the run of this plan read it.
AsRead(b) ==
  LET p == plan[b]
      r == cert[p.cert]
  IN  /\ p.cert \notin legacy
      /\ p.quiet = auto
      /\ ShaRow \notin p.writes => sha = p.sha
      /\ ~p.new => pin = p.cert /\ r.env = "testing"
      /\ ~p.new /\ p.cert \notin p.writes => r.key # None /\ r.key = r.crt

AsReadInv == \A b \in Runs : plan[b] # None /\ touched[b] = {} => AsRead(b)

ReadyInv == WritesInv /\ AsReadInv

\* Whatever users do or time does rewrites a row: no run is undisturbed after it.
LEMMA ActDisturbs ==
  ASSUME IInv, ReadyInv, NEW R, R # {}, Act(R)
  PROVE  ReadyInv'
<1>1. /\ plan' = plan
      /\ touched' = [b \in Runs |-> IF plan[b] = None THEN {} ELSE touched[b] \cup R]
  BY DEF Act, Touch
<1>2. \A b \in Runs : plan[b] # None => touched'[b] # {}
  BY <1>1
<1> QED
  BY <1>1, <1>2 DEF ReadyInv, WritesInv, AsReadInv

\* A plan is made from the database as it is, and the other plans see no change.
LEMMA StartIsReady ==
  ASSUME IInv, ReadyInv, NEW b \in Runs, StartBootstrap(b)
  PROVE  ReadyInv'
<1>1. UNCHANGED <<schema, cert, legacy, link, auto, pin, sha, touched>>
  BY DEF StartBootstrap, config
<1>2. PICK o \in Companies, c \in Certs, v \in Codes :
        \E k, x \in Keys \cup {None} : Decide(b, o, c, k, x, v)
  BY DEF StartBootstrap
<1>3. PICK k, x \in Keys \cup {None} : Decide(b, o, c, k, x, v)
  BY <1>2
<1>4. PICK key, crt \in Keys \cup {None} :
        /\ Seed(o, c)
        /\ pin # None => cert[c].env = "testing"
        /\ Material(c, k, x, key, crt)
        /\ c \notin legacy
        /\ plan' = [plan EXCEPT ![b] = PlanFor(o, c, key, crt, v)]
  BY <1>3 DEF Decide
<1> DEFINE p == PlanFor(o, c, key, crt, v)
<1>5. /\ p.cert = c /\ p.company = o /\ p.key = key /\ p.crt = crt /\ p.new = (pin = None)
      /\ p.quiet = auto /\ p.sha = v /\ p.link = (link[o] = None)
      /\ auto \subseteq p.writes
      /\ link[o] = None => o \in p.writes
      /\ c \notin p.writes => key = None /\ crt = None
      /\ ShaRow \notin p.writes => sha = v
  BY DEF PlanFor, ToSilence
<1>6. plan'[b] = p /\ \A d \in Runs : d # b => plan'[d] = plan[d]
  BY <1>4 DEF IInv, TypeOK
<1> HIDE DEF p
<1>7. pin # None => pin = c
  BY <1>4 DEF Seed
<1>8. key = None /\ crt = None => cert[c].key # None /\ cert[c].key = cert[c].crt
  BY <1>4 DEF Material
<1>9. AsRead(b)'
  <2>1. c \notin legacy' /\ p.quiet = auto' /\ (ShaRow \notin p.writes => sha' = p.sha)
    BY <1>1, <1>4, <1>5
  <2>2. ~p.new => pin' = c /\ cert'[c].env = "testing"
    BY <1>1, <1>4, <1>5, <1>7
  <2>3. c \notin p.writes => cert'[c].key # None /\ cert'[c].key = cert'[c].crt
    BY <1>1, <1>5, <1>8
  <2> QED
    BY <1>5, <1>6, <2>1, <2>2, <2>3 DEF AsRead
<1>10. ASSUME NEW d \in Runs, d # b, plan[d] # None, touched[d] = {} PROVE AsRead(d)'
  <2>1. AsRead(d)
    BY <1>10 DEF ReadyInv, AsReadInv
  <2> QED
    BY <1>1, <1>6, <1>10, <2>1 DEF AsRead
<1>11. WritesInv'
  BY <1>5, <1>6 DEF ReadyInv, WritesInv
<1> QED
  BY <1>1, <1>6, <1>9, <1>10, <1>11 DEF ReadyInv, AsReadInv

\* A commit that leaves another run undisturbed wrote nothing at all.
LEMMA CommitIsReady ==
  ASSUME IInv, ReadyInv, NEW b \in Runs, CommitBootstrap(b)
  PROVE  ReadyInv'
<1> DEFINE p == plan[b]
<1>1. /\ p \in Plan /\ PlanGood(b) /\ p # None
      /\ p.quiet \subseteq p.writes
      /\ p.link => p.company \in p.writes
  BY CommitFinds DEF CommitBootstrap, ReadyInv, WritesInv
<1>2. p.new => p.cert \in p.writes
  BY <1>1 DEF PlanGood
<1>3. /\ cert' = [cert EXCEPT ![p.cert] = IF p.cert \in p.writes THEN Seeded(p) ELSE @]
      /\ auto' = auto \ p.quiet
      /\ pin' = IF p.new THEN p.cert ELSE pin
      /\ sha' = IF ShaRow \in p.writes THEN p.sha ELSE sha
      /\ plan' = [plan EXCEPT ![b] = None]
      /\ touched' = [d \in Runs |-> IF d = b \/ plan[d] = None THEN {}
                                    ELSE touched[d] \cup p.writes]
      /\ UNCHANGED legacy
  BY DEF CommitBootstrap, Pinned
<1> HIDE DEF p
<1>4. plan'[b] = None /\ \A d \in Runs : d # b => plan'[d] = plan[d]
  BY <1>3 DEF IInv, TypeOK
<1>5. ASSUME NEW d \in Runs, plan'[d] # None, touched'[d] = {} PROVE AsRead(d)'
  <2>1. d # b /\ plan'[d] = plan[d] /\ touched[d] = {} /\ p.writes = {}
    BY <1>3, <1>4, <1>5
  <2>2. cert' = cert
    BY <1>3, <2>1 DEF IInv, TypeOK
  <2>3. UNCHANGED <<legacy, auto, pin, sha>>
    BY <1>1, <1>2, <1>3, <2>1
  <2>4. AsRead(d)
    BY <1>5, <2>1 DEF ReadyInv, AsReadInv
  <2> QED
    BY <2>1, <2>2, <2>3, <2>4 DEF AsRead
<1>6. WritesInv'
  BY <1>4 DEF ReadyInv, WritesInv
<1> QED
  BY <1>5, <1>6 DEF ReadyInv, AsReadInv

\* Every step keeps plans true to what their runs read.
LEMMA ReadyStep == IInv /\ ReadyInv /\ [Next]_vars => ReadyInv'
<1> SUFFICES ASSUME IInv, ReadyInv, [Next]_vars PROVE ReadyInv'
  OBVIOUS
<1>1. CASE Upgrade
  BY <1>1 DEF Upgrade, IInv, OldInv, ReadyInv, WritesInv, AsReadInv
<1>2. ASSUME NEW b \in Runs, DropBootstrap(b) PROVE ReadyInv'
  <2>1. /\ UNCHANGED <<cert, legacy, auto, pin, sha>>
        /\ plan'[b] = None
        /\ \A d \in Runs : d # b => plan'[d] = plan[d] /\ touched'[d] = touched[d]
    BY <1>2 DEF DropBootstrap, config, IInv, TypeOK
  <2> QED
    BY <2>1 DEF ReadyInv, WritesInv, AsReadInv, AsRead
<1>3. ASSUME NEW c \in Certs, NEW o \in Companies, NEW e \in {"testing", "production"},
             CreateCertificate(c, o, e) \/ CreateInWizard(c, o, e) \/ EditDraft(c, o, e)
      PROVE  ReadyInv'
  BY <1>3, ActDisturbs DEF CreateCertificate, CreateInWizard, EditDraft
<1>4. ASSUME NEW c \in Certs,
             \/ GenerateKey(c) \/ ProcessCertificate(c) \/ Revoke(c)
             \/ Expire(c) \/ CacheTicket(c) \/ Delete(c)
             \/ \E x \in Keys \cup {None} : SaveInForm(c, x)
      PROVE  ReadyInv'
  <2>1. \E R : R # {} /\ Act(R)
    BY <1>4 DEF GenerateKey, ProcessCertificate, Revoke, Expire, CacheTicket, Delete, SaveInForm
  <2> QED
    BY <2>1, ActDisturbs
<1>5. ASSUME NEW o \in Companies,
             SwitchAuto(o) \/ \E c \in Certs \cup {None} : Choose(o, c)
      PROVE  ReadyInv'
  BY <1>5, ActDisturbs DEF SwitchAuto, Choose
<1>6. CASE UNCHANGED vars
  <2>1. UNCHANGED <<cert, legacy, auto, pin, sha, plan, touched>>
    BY <1>6 DEF vars, config
  <2> QED
    BY <2>1 DEF ReadyInv, WritesInv, AsReadInv, AsRead
<1> QED
  BY <1>1, <1>2, <1>3, <1>4, <1>5, <1>6, StartIsReady, CommitIsReady DEF Next

\* The commit of an undisturbed run leaves one certificate, for testing, whose
\* key and certificate are a pair, no automatic request, and its own code's id.
LEMMA UndisturbedIsAccepted ==
  ASSUME IInv, ReadyInv, NEW b \in Runs, NEW v \in Codes, CommitBootstrap(b),
         plan[b].sha = v, touched[b] = {}, Existing \subseteq {plan[b].cert}
  PROVE  /\ Preflight(v)'
         /\ cert'[plan[b].cert].key = cert'[plan[b].cert].crt
<1> DEFINE p == plan[b]
           n == p.cert
<1>1. /\ p \in Plan /\ schema = "columns" /\ PlanGood(b) /\ AsRead(b)
      /\ p.new \in BOOLEAN /\ n \in Certs
  BY CommitFinds DEF CommitBootstrap, ReadyInv, AsReadInv, Plan
<1>2. /\ \A c \in Certs : cert'[c] = IF c = n /\ n \in p.writes THEN Seeded(p) ELSE cert[c]
      /\ auto' = auto \ p.quiet
      /\ sha' = IF ShaRow \in p.writes THEN p.sha ELSE sha
      /\ UNCHANGED <<schema, legacy>>
  BY DEF CommitBootstrap, IInv, TypeOK
<1>3. auto' = {} /\ sha' = v /\ n \notin legacy'
  BY <1>1, <1>2 DEF AsRead
<1>4. /\ cert'[n].state \notin {"none", "deleted"}
      /\ cert'[n].env = "testing"
      /\ cert'[n].key # None /\ cert'[n].key = cert'[n].crt
  <2>1. CASE n \notin p.writes
    <3>1. ~p.new /\ pin = n /\ cert'[n] = cert[n]
      BY <1>1, <1>2, <2>1 DEF PlanGood, AsRead
    <3>2. Exists(n)
      BY <3>1, <1>1, HomologationAssumption DEF IInv, PinInv, HomologationAssumption
    <3> QED
      BY <1>1, <2>1, <3>1, <3>2 DEF AsRead, Exists
  <2>2. CASE n \in p.writes
    <3>1. cert'[n] = Seeded(p) /\ Seeded(p).state \notin {"none", "deleted"}
      BY <1>1, <1>2, <2>2, SeededRow
    <3> DEFINE old == IF p.new THEN NewDraft(p.company, "testing") ELSE cert[n]
    <3>2. cert[n] \in Row /\ p.company \in Companies
      BY <1>1 DEF IInv, TypeOK, Plan
    <3>3. old \in Row /\ old.env = "testing"
      BY <1>1, <3>2 DEF AsRead, NewDraft, Row, CertStates
    <3>4. p.new => old.key = None /\ old.crt = None
      BY DEF NewDraft
    <3>5. ~p.new => old = cert[n]
      OBVIOUS
    <3>6. Seeded(p) = [old EXCEPT !.key = IF p.key = None THEN @ ELSE p.key,
                                  !.crt = IF p.crt = None THEN @ ELSE p.crt,
                                  !.state = IF p.crt = None THEN @ ELSE "active",
                                  !.ticket = IF p.crt = None THEN @ ELSE FALSE,
                                  !.hand = IF p.crt = None THEN @ ELSE FALSE]
      BY DEF Seeded
    <3> HIDE DEF old
    <3>7. /\ Seeded(p).env = "testing"
          /\ Seeded(p).key = IF p.key = None THEN old.key ELSE p.key
          /\ Seeded(p).crt = IF p.crt = None THEN old.crt ELSE p.crt
      BY <3>3, <3>6 DEF Row
    <3>8. Seeded(p).key # None /\ Seeded(p).key = Seeded(p).crt
      <4>1. CASE p.new
        BY <1>1, <3>7, <4>1 DEF PlanGood
      <4>2. CASE ~p.new
        BY <1>1, <2>2, <3>5, <3>7, <4>2 DEF PlanGood
      <4> QED
        BY <4>1, <4>2
    <3> QED
      BY <3>1, <3>7, <3>8
  <2> QED
    BY <2>1, <2>2
<1>5. Existing' = {n}
  <2>1. \A c \in Certs : c # n => (Exists(c)' <=> Exists(c))
    BY <1>2 DEF Exists
  <2> QED
    BY <1>1, <1>4, <2>1 DEF Existing, Exists
<1>6. schema' = "columns"
  BY <1>1, <1>2
<1>7. \E c \in Certs : /\ Existing' = {c}
                       /\ cert'[c].env = "testing"
                       /\ cert'[c].key # None /\ cert'[c].crt # None
                       /\ c \notin legacy'
  BY <1>1, <1>3, <1>4, <1>5
<1>8. Preflight(v)'
  BY <1>3, <1>6, <1>7 DEF Preflight
<1> QED
  BY <1>4, <1>8

\* No run has read anything yet.
LEMMA InitIsReady == Init => ReadyInv
BY DEF Init, ReadyInv, WritesInv, AsReadInv

\* The two scripts agree, for any certificates, companies, keys and codes: the
\* database that an undisturbed bootstrap commits passes the runner's preflight
\* for the same code, if no certificate was there but the bootstrap's own.
THEOREM ReadyRuns == Spec => ReadyIsAccepted
<1>1. IInv /\ ReadyInv /\ [Next]_vars => (IInv /\ ReadyInv)'
  BY StepKeeps, ReadyStep
<1>2. IInv /\ ReadyInv /\ [Next]_vars =>
        [\A b \in Runs, v \in Codes :
           /\ CommitBootstrap(b)
           /\ plan[b].sha = v /\ touched[b] = {} /\ Existing \subseteq {plan[b].cert}
           => /\ Preflight(v)'
              /\ cert'[plan[b].cert].key = cert'[plan[b].cert].crt]_vars
  BY UndisturbedIsAccepted
<1> QED
  BY InitHolds, InitIsReady, <1>1, <1>2, PTL DEF Spec, ReadyIsAccepted
==============================================================================
