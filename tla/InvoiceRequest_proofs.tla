------------------------ MODULE InvoiceRequest_proofs ------------------------
(***************************************************************************)
(* Theorems about InvoiceRequest, for any types, conditions, amounts, VAT, *)
(* differences, dates and rates.  What a part of the request promises is   *)
(* true from the step that adds it on: IInv says so by stage, and VatInv   *)
(* of the VAT group.  That the group adds up to the totals of the lines is *)
(* a fact about sums; it is proved by looking for a least set of lines, or *)
(* of aliquots, for which it fails.                                        *)
(***************************************************************************)
EXTENDS InvoiceRequest, FiniteSets, FiniteSetTheorems, WellFoundedInduction, TLAPS

\* The stages after which the document's type, the customer, the currency, the
\* amounts, the dates and the reference are in the request.
HasType     == {"number", "customer", "currency", "amounts", "condition", "dates",
                "associated", "built"}
HasCustomer == {"currency", "amounts", "condition", "dates", "associated", "built"}
HasCurrency == {"amounts", "condition", "dates", "associated", "built"}
HasAmounts  == {"condition", "dates", "associated", "built"}
HasDates    == {"associated", "built"}

CustomerInv == stage \in HasCustomer => UnknownHasNoNumber
CurrencyInv == stage \in HasCurrency => PesosAreOne
AmountsInv  == stage \in HasAmounts => ClassCHasNoVat
DatesInv    == stage \in HasDates => PeriodIsComplete
NoteInv     == Built => NoteHasItsClass

IInv == TypeOK /\ CustomerInv /\ CurrencyInv /\ AmountsInv /\ DatesInv /\ NoteInv

-----------------------------------------------------------------------------
(* Lemmas about the parts *)

\* What a note may reference is of its class, or a delivery note.
LEMMA ReferencesOfItsClass ==
  ASSUME NEW type \in Notes, NEW origin \in AssociatedTo(type)
  PROVE  LetterOf(origin) \in {LetterOf(type), "R"}
<1>1. CASE type \in {2, 3}
  <2>1. origin \in {1, 2, 3, 4, 5, 34, 39, 60, 63, 88, 991}
    BY <1>1 DEF AssociatedTo
  <2>2. LetterOf(type) = "A"
    BY <1>1 DEF LetterOf
  <2>3. LetterOf(origin) \in {"A", "R"}
    BY <2>1 DEF LetterOf
  <2> QED
    BY <2>2, <2>3
<1>2. CASE type \in {7, 8}
  <2>1. origin \in {6, 7, 8, 9, 10, 35, 40, 61, 64, 88, 991}
    BY <1>2 DEF AssociatedTo
  <2>2. LetterOf(type) = "B"
    BY <1>2 DEF LetterOf
  <2>3. LetterOf(origin) \in {"B", "R"}
    BY <2>1 DEF LetterOf
  <2> QED
    BY <2>2, <2>3
<1>3. CASE type \in {12, 13}
  BY <1>3 DEF AssociatedTo, LetterOf
<1>4. CASE type \in {52, 53}
  <2>1. origin \in {51, 52, 53, 54, 88, 991}
    BY <1>4 DEF AssociatedTo
  <2>2. LetterOf(type) = "M"
    BY <1>4 DEF LetterOf
  <2>3. LetterOf(origin) \in {"M", "R"}
    BY <2>1 DEF LetterOf
  <2> QED
    BY <2>2, <2>3
<1> QED
  BY <1>1, <1>2, <1>3, <1>4 DEF Notes

-----------------------------------------------------------------------------
(* Sums *)

\* Among subsets of a finite set there is a least one.  Asked of the subsets for
\* which a fact fails, it says that a fact which passes from the proper subsets
\* of a set to the set holds of them all.
LEMMA LeastSubset ==
  ASSUME NEW S, IsFiniteSet(S), NEW B, B \subseteq SUBSET S, B # {}
  PROVE  \E T \in B : \A U \in SUBSET T : U # T => U \notin B
<1>1. IsWellFoundedOn(StrictSubsetOrdering(S), FiniteSubsetsOf(S))
  BY FS_StrictSubsetOrderingWellFounded
<1>2. B \subseteq FiniteSubsetsOf(S)
  BY FS_Subset DEF FiniteSubsetsOf
<1>3. \E T \in B : \A U \in B : ~ (<<U, T>> \in StrictSubsetOrdering(S))
  BY <1>1, <1>2, WFMin
<1>4. QED
  BY <1>3 DEF StrictSubsetOrdering

\* SumFunctionOnSet picks the elements of a set one by one: what it adds up is the
\* function of the subsets that satisfies Adds.
Pick(T) == CHOOSE x \in T : TRUE
Rest(T) == T \ {Pick(T)}
Added(f, g, T) == IF T = {} THEN 0 ELSE f[Pick(T)] + g[Rest(T)]
Adds(f, g, S) == g = [T \in SUBSET S |-> Added(f, g, T)]
Adder(f, S) == CHOOSE g : Adds(f, g, S)

\* What the definition of SumFunctionOnSet comes to.
LEMMA SumIsAdder ==
  ASSUME NEW f, NEW S
  PROVE  SumFunctionOnSet(f, S) = Adder(f, S)[S]
BY DEF SumFunctionOnSet, FoldFunctionOnSet, MapThenFoldSet, Adder, Adds, Added, Pick, Rest

\* What is picked is an element.
LEMMA PickIn ==
  ASSUME NEW T, T # {}
  PROVE  Pick(T) \in T
BY DEF Pick

\* Two functions that add up agree where both are defined.
LEMMA AddersAgree ==
  ASSUME NEW f, NEW S, IsFiniteSet(S), NEW U \in SUBSET S,
         NEW g, Adds(f, g, S), NEW h, Adds(f, h, U)
  PROVE  g[U] = h[U]
<1> DEFINE B == {T \in SUBSET U : g[T] # h[T]}
<1> SUFFICES ASSUME B # {} PROVE FALSE
  OBVIOUS
<1>1. IsFiniteSet(U)
  BY FS_Subset
<1>2. PICK T \in B : \A V \in SUBSET T : V # T => V \notin B
  <2> HIDE DEF B
  <2>1. B \subseteq SUBSET U
    BY DEF B
  <2> QED
    BY <1>1, <2>1, LeastSubset
<1>3. g[T] = Added(f, g, T) /\ h[T] = Added(f, h, T)
  BY DEF Adds
<1>4. CASE T = {}
  BY <1>3, <1>4 DEF Added
<1>5. CASE T # {}
  <2>1. Rest(T) \in SUBSET T /\ Rest(T) # T
    BY <1>5, PickIn DEF Rest
  <2>2. g[Rest(T)] = h[Rest(T)]
    BY <1>2, <2>1
  <2>3. QED
    BY <1>3, <1>5, <2>2 DEF Added
<1>6. QED
  BY <1>4, <1>5

\* The recursion has a solution: that of each set is put together from those of
\* its proper subsets.
LEMMA AdderAdds ==
  ASSUME NEW f, NEW S, IsFiniteSet(S)
  PROVE  Adds(f, Adder(f, S), S)
<1> DEFINE B == {T \in SUBSET S : ~ \E g : Adds(f, g, T)}
<1>1. ASSUME B # {} PROVE FALSE
  <2>1. PICK U \in B : \A V \in SUBSET U : V # U => V \notin B
    <3> HIDE DEF B
    <3>1. B \subseteq SUBSET S
      BY DEF B
    <3> QED
      BY <1>1, <3>1, LeastSubset
  <2>2. IsFiniteSet(U)
    BY FS_Subset
  <2>3. \A V \in SUBSET U : V # U => Adds(f, Adder(f, V), V)
    BY <2>1 DEF Adder
  <2> DEFINE h == [T \in SUBSET U |->
                     IF T = {} THEN 0 ELSE f[Pick(T)] + Adder(f, Rest(T))[Rest(T)]]
  <2>4. ASSUME NEW T \in SUBSET U, T # {}
        PROVE  h[Rest(T)] = Adder(f, Rest(T))[Rest(T)]
    <3> DEFINE V == Rest(T)
    <3>1. V \in SUBSET U /\ V # U /\ IsFiniteSet(V)
      BY <2>2, <2>4, PickIn, FS_Subset DEF Rest
    <3> HIDE DEF V
    <3>2. Adds(f, Adder(f, V), V)
      BY <2>3, <3>1
    <3>3. Adder(f, V)[V] = Added(f, Adder(f, V), V)
      BY <3>2 DEF Adds
    <3>4. CASE V = {}
      BY <3>1, <3>3, <3>4 DEF Added, V
    <3>5. CASE V # {}
      <4>1. Rest(V) \in SUBSET V /\ Rest(V) # U
        BY <3>1, <3>5, PickIn DEF Rest
      <4>2. Adds(f, Adder(f, Rest(V)), Rest(V))
        BY <2>3, <3>1, <4>1
      <4>3. Adder(f, V)[Rest(V)] = Adder(f, Rest(V))[Rest(V)]
        BY <3>1, <3>2, <4>1, <4>2, AddersAgree
      <4>4. h[V] = Added(f, Adder(f, V), V)
        BY <3>1, <3>5, <4>3 DEF Added
      <4>5. QED
        BY <3>3, <4>4 DEF V
    <3>6. QED
      BY <3>4, <3>5
  <2>5. Adds(f, h, U)
    <3>1. \A T \in SUBSET U : h[T] = Added(f, h, T)
      BY <2>4 DEF Added
    <3>2. DOMAIN h = SUBSET U /\ h = [T \in SUBSET U |-> h[T]]
      OBVIOUS
    <3> HIDE DEF h
    <3>3. QED
      BY <3>1, <3>2 DEF Adds
  <2>6. QED
    BY <2>1, <2>5
<1>2. QED
  BY <1>1 DEF Adder

\* SumFunctionOnSet, unfolded once.
LEMMA SumStep ==
  ASSUME NEW f, NEW S, IsFiniteSet(S)
  PROVE  SumFunctionOnSet(f, S) =
           IF S = {} THEN 0 ELSE f[Pick(S)] + SumFunctionOnSet(f, Rest(S))
<1>1. Adds(f, Adder(f, S), S)
  BY AdderAdds
<1>2. Adder(f, S)[S] = Added(f, Adder(f, S), S)
  BY <1>1 DEF Adds
<1>3. CASE S = {}
  BY <1>2, <1>3, SumIsAdder DEF Added
<1>4. CASE S # {}
  <2>1. Rest(S) \in SUBSET S /\ IsFiniteSet(Rest(S))
    BY FS_Subset DEF Rest
  <2>2. Adds(f, Adder(f, Rest(S)), Rest(S))
    BY <2>1, AdderAdds
  <2>3. Adder(f, S)[Rest(S)] = Adder(f, Rest(S))[Rest(S)]
    BY <1>1, <2>1, <2>2, AddersAgree
  <2>4. QED
    BY <1>2, <1>4, <2>3, SumIsAdder DEF Added
<1>5. QED
  BY <1>3, <1>4

\* A sum is a number, and any element may be the one that is added last.
LEMMA SumRemove ==
  ASSUME NEW f, NEW S, IsFiniteSet(S), \A x \in S : f[x] \in Int
  PROVE  /\ SumFunctionOnSet(f, S) \in Int
         /\ \A x \in S : SumFunctionOnSet(f, S) = f[x] + SumFunctionOnSet(f, S \ {x})
<1> DEFINE Sum(T) == SumFunctionOnSet(f, T)
           Fine(T) == Sum(T) \in Int /\ \A x \in T : Sum(T) = f[x] + Sum(T \ {x})
           B == {T \in SUBSET S : ~ Fine(T)}
<1>1. ASSUME B # {} PROVE FALSE
  <2>1. PICK T \in B : \A U \in SUBSET T : U # T => U \notin B
    <3> HIDE DEF B
    <3>1. B \subseteq SUBSET S
      BY DEF B
    <3> QED
      BY <1>1, <3>1, LeastSubset
  <2>2. IsFiniteSet(T) /\ \A U \in SUBSET T : IsFiniteSet(U)
    BY FS_Subset
  <2>3. \A U \in SUBSET T : U # T => Fine(U)
    BY <2>1
  <2> HIDE DEF Fine
  <2>4. ~ Fine(T) /\ T \in SUBSET S
    OBVIOUS
  <2>5. CASE T = {}
    <3>1. Sum(T) = 0
      BY <2>2, <2>5, SumStep
    <3>2. QED
      BY <2>4, <2>5, <3>1 DEF Fine
  <2>6. CASE T # {}
    <3> DEFINE c == Pick(T)
    <3>1. c \in T
      BY <2>6, PickIn
    <3>2. Sum(T) = f[c] + Sum(T \ {c})
      BY <2>2, <2>6, SumStep DEF Rest
    <3> HIDE DEF c, Sum, B
    <3>3. Fine(T \ {c})
      BY <2>3, <3>1
    <3>4. Sum(T) \in Int
      BY <2>4, <3>1, <3>2, <3>3 DEF Fine
    <3>5. ASSUME NEW x \in T, x # c PROVE Sum(T) = f[x] + Sum(T \ {x})
      <4>1. Fine(T \ {x})
        BY <2>3
      <4>2. Fine((T \ {x}) \ {c})
        BY <2>3
      <4>3. Sum(T \ {x}) = f[c] + Sum((T \ {x}) \ {c})
        BY <3>1, <3>5, <4>1 DEF Fine
      <4>4. (T \ {c}) \ {x} = (T \ {x}) \ {c}
        OBVIOUS
      <4>5. Sum(T \ {c}) = f[x] + Sum((T \ {x}) \ {c})
        BY <3>3, <3>5, <4>4 DEF Fine
      <4>6. f[x] \in Int /\ f[c] \in Int /\ Sum((T \ {x}) \ {c}) \in Int
        BY <2>4, <3>1, <4>2 DEF Fine
      <4>7. QED
        BY <3>2, <4>3, <4>5, <4>6
    <3>6. QED
      BY <2>4, <3>2, <3>4, <3>5 DEF Fine
  <2>7. QED
    BY <2>5, <2>6
<1>2. Fine(S)
  BY <1>1
<1>3. QED
  BY <1>2

\* The sum over two disjoint sets.
LEMMA SumUnion ==
  ASSUME NEW f, NEW U, IsFiniteSet(U), NEW V, IsFiniteSet(V),
         \A x \in U \cup V : f[x] \in Int, U \cap V = {}
  PROVE  SumFunctionOnSet(f, U \cup V) = SumFunctionOnSet(f, U) + SumFunctionOnSet(f, V)
<1> DEFINE Sum(T) == SumFunctionOnSet(f, T)
           B == {T \in SUBSET V : Sum(U \cup T) # Sum(U) + Sum(T)}
<1>1. \A T \in SUBSET (U \cup V) : IsFiniteSet(T)
  <2>1. IsFiniteSet(U \cup V)
    BY FS_Union
  <2>2. QED
    BY <2>1, FS_Subset
<1>2. \A T \in SUBSET (U \cup V) : Sum(T) \in Int /\ \A x \in T : Sum(T) = f[x] + Sum(T \ {x})
  BY <1>1, SumRemove
<1>3. Sum({}) = 0
  BY <1>1, SumStep
<1> HIDE DEF Sum
<1>4. ASSUME B # {} PROVE FALSE
  <2>1. PICK T \in B : \A W \in SUBSET T : W # T => W \notin B
    <3> HIDE DEF B
    <3>1. B \subseteq SUBSET V /\ IsFiniteSet(V)
      BY <1>1 DEF B
    <3> QED
      BY <1>4, <3>1, LeastSubset
  <2>2. T # {}
    <3>1. ASSUME T = {} PROVE FALSE
      <4>1. U \cup T = U /\ Sum(U) \in Int
        BY <1>2, <3>1
      <4>2. Sum(U \cup T) = Sum(U) + Sum(T)
        BY <1>3, <3>1, <4>1
      <4>3. QED
        BY <2>1, <4>2
    <3>2. QED
      BY <3>1
  <2>3. PICK x \in T : TRUE
    BY <2>2
  <2>4. Sum(U \cup (T \ {x})) = Sum(U) + Sum(T \ {x})
    BY <2>1
  <2>5. (U \cup T) \ {x} = U \cup (T \ {x})
    OBVIOUS
  <2>6. Sum(U \cup T) = f[x] + Sum(U \cup (T \ {x})) /\ Sum(T) = f[x] + Sum(T \ {x})
    BY <1>2, <2>5
  <2>7. f[x] \in Int /\ Sum(U) \in Int /\ Sum(T \ {x}) \in Int
    BY <1>2
  <2>8. Sum(U \cup T) = Sum(U) + Sum(T)
    BY <2>4, <2>6, <2>7
  <2>9. QED
    BY <2>1, <2>8
<1>5. QED
  BY <1>4 DEF Sum

\* The group of the aliquots adds up to what the lines add up to: every line is
\* in the entry of one aliquot, and in one only.
LEMMA GroupIsTotal ==
  ASSUME NEW ls \in Seq([id : Nat, base : Nat, amount : Nat]), Ids(ls) \subseteq Aliquots,
         NEW field \in {"base", "amount"}
  PROVE  GroupTotal(AggregateVat(ls), field) = Total(ls, Ids(ls), field)
<1> DEFINE vals == [i \in DOMAIN ls |-> ls[i][field]]
           Of(K) == {i \in DOMAIN ls : ls[i].id \in K}
           group == [id \in Ids(ls) |-> SumFunctionOnSet(vals, Of({id}))]
           B == {K \in SUBSET Ids(ls) :
                   SumFunctionOnSet(group, K) # SumFunctionOnSet(vals, Of(K))}
<1>1. IsFiniteSet(DOMAIN ls) /\ \A i \in DOMAIN ls : vals[i] \in Int
  <2>1. DOMAIN ls = 1..Len(ls) /\ Len(ls) \in Nat
    OBVIOUS
  <2>2. IsFiniteSet(1..Len(ls))
    BY <2>1, FS_Interval
  <2>3. ASSUME NEW i \in DOMAIN ls PROVE ls[i][field] \in Int
    <3> DEFINE VatLine == [id : Nat, base : Nat, amount : Nat]
    <3>1. ls[i] \in VatLine
      <4>1. ls \in Seq(VatLine) /\ i \in 1..Len(ls)
        BY <2>1
      <4> HIDE DEF VatLine
      <4>2. QED
        BY <4>1
    <3>2. QED
      BY <3>1
  <2>4. QED
    BY <2>1, <2>2, <2>3
<1>2. \A K : Of(K) \in SUBSET DOMAIN ls
  OBVIOUS
<1>3. \A K : SumFunctionOnSet(vals, Of(K)) \in Int
  <2> HIDE DEF vals, Of
  <2>1. \A K : IsFiniteSet(Of(K))
    BY <1>1, <1>2, FS_Subset
  <2>2. QED
    BY <1>1, <1>2, <2>1, SumRemove
<1>4. IsFiniteSet(Ids(ls)) /\ \A id \in Ids(ls) : group[id] \in Int
  <2>1. Ids(ls) \in SUBSET (0..9)
    BY DEF Aliquots
  <2>2. IsFiniteSet(Ids(ls))
    <3>1. \A id \in Ids(ls) : id <= 9
      BY <2>1
    <3>2. Ids(ls) \in SUBSET Nat /\ 9 \in Nat
      BY <2>1
    <3>3. QED
      BY <3>1, <3>2, FS_BoundedSetOfNaturals
  <2> HIDE DEF vals, Of
  <2>3. QED
    BY <1>3, <2>2
<1>5. ASSUME B # {} PROVE FALSE
  <2>1. PICK K \in B : \A L \in SUBSET K : L # K => L \notin B
    <3> HIDE DEF B
    <3>1. B \subseteq SUBSET Ids(ls)
      BY DEF B
    <3> QED
      BY <1>4, <1>5, <3>1, LeastSubset
  <2>2. K \in SUBSET Ids(ls) /\ SumFunctionOnSet(group, K) # SumFunctionOnSet(vals, Of(K))
    OBVIOUS
  <2>3. CASE K = {}
    <3>1. Of(K) = {}
      BY <2>3
    <3> HIDE DEF vals, Of, group
    <3>2. \A f : SumFunctionOnSet(f, {}) = 0
      BY FS_EmptySet, SumStep
    <3>3. QED
      BY <2>2, <2>3, <3>1, <3>2
  <2>4. CASE K # {}
    <3>1. PICK id \in K : TRUE
      BY <2>4
    <3>2. SumFunctionOnSet(group, K \ {id}) = SumFunctionOnSet(vals, Of(K \ {id}))
      BY <2>1, <3>1
    <3>3. Of(K) = Of({id}) \cup Of(K \ {id}) /\ Of({id}) \cap Of(K \ {id}) = {}
      BY <3>1
    <3>4. group[id] = SumFunctionOnSet(vals, Of({id}))
      BY <2>2, <3>1
    <3> HIDE DEF vals, Of, group
    <3>5. SumFunctionOnSet(vals, Of(K)) =
            SumFunctionOnSet(vals, Of({id})) + SumFunctionOnSet(vals, Of(K \ {id}))
      <4>1. Of({id}) \in SUBSET DOMAIN ls /\ Of(K \ {id}) \in SUBSET DOMAIN ls
        BY <1>2
      <4>2. SumFunctionOnSet(vals, Of({id}) \cup Of(K \ {id})) =
              SumFunctionOnSet(vals, Of({id})) + SumFunctionOnSet(vals, Of(K \ {id}))
        <5>1. IsFiniteSet(Of({id})) /\ IsFiniteSet(Of(K \ {id}))
          BY <1>1, <4>1, FS_Subset
        <5>2. \A i \in Of({id}) \cup Of(K \ {id}) : vals[i] \in Int
          BY <1>1, <4>1
        <5>3. QED
          BY <3>3, <5>1, <5>2, SumUnion
      <4>3. QED
        BY <3>3, <4>2
    <3>6. SumFunctionOnSet(group, K) = group[id] + SumFunctionOnSet(group, K \ {id})
      <4>1. IsFiniteSet(K)
        BY <1>4, <2>2, FS_Subset
      <4>2. QED
        BY <1>4, <2>2, <3>1, <4>1, SumRemove
    <3>7. QED
      BY <2>2, <3>2, <3>4, <3>5, <3>6
  <2>5. QED
    BY <2>3, <2>4
<1>6. SumFunctionOnSet(group, Ids(ls)) = Total(ls, Ids(ls), field)
  BY <1>5 DEF Total
<1>7. GroupTotal(AggregateVat(ls), field) = SumFunctionOnSet(group, Ids(ls))
  <2>1. DOMAIN AggregateVat(ls) = Ids(ls)
    BY DEF AggregateVat
  <2>2. \A id \in Ids(ls) : AggregateVat(ls)[id][field] = Total(ls, {id}, field)
    <3>1. CASE field = "base"
      BY <3>1 DEF AggregateVat
    <3>2. CASE field = "amount"
      BY <3>2 DEF AggregateVat
    <3>3. QED
      BY <3>1, <3>2
  <2>3. [id \in DOMAIN AggregateVat(ls) |-> AggregateVat(ls)[id][field]] = group
    BY <2>1, <2>2 DEF Total
  <2> HIDE DEF group
  <2>4. QED
    BY <2>1, <2>3 DEF GroupTotal, SumFunction
<1>8. QED
  BY <1>6, <1>7

\* No lines, no group, nothing to add up.
LEMMA NothingToTotal ==
  Ids(<<>>) = {} /\ \A field : GroupTotal(<<>>, field) = 0
<1>1. \A f : SumFunctionOnSet(f, {}) = 0
  BY FS_EmptySet, SumStep
<1>2. ASSUME NEW field PROVE GroupTotal(<<>>, field) = 0
  <2>1. DOMAIN <<>> = {} /\ DOMAIN [id \in DOMAIN <<>> |-> <<>>[id][field]] = {}
    OBVIOUS
  <2>2. QED
    BY <1>1, <2>1 DEF GroupTotal, SumFunction
<1>3. QED
  BY <1>2 DEF Ids

-----------------------------------------------------------------------------
(* The steps *)

USE DEF Stages, HasType, HasCustomer, HasCurrency, HasAmounts, HasDates, Built

\* A refused invoice promises nothing.
LEMMA RefusalKeeps ==
  ASSUME IInv, NEW from, Refuse(from), UNCHANGED lines
  PROVE  IInv'
<1>1. stage' = "refused" /\ UNCHANGED <<request, lines>>
  BY DEF Refuse
<1>2. TypeOK'
  BY <1>1 DEF IInv, TypeOK
<1> QED
  BY <1>1, <1>2 DEF IInv, CustomerInv, CurrencyInv, AmountsInv, DatesInv, NoteInv

LEMMA DocumentTypeKeeps ==
  ASSUME IInv, NEW type \in Types, DocumentType(type)
  PROVE  IInv'
<1>1. CASE type \in SupportedTypes
  <2>1. /\ stage' = "number"
        /\ request' = [request EXCEPT !.type = type]
        /\ UNCHANGED lines
    BY <1>1 DEF DocumentType, Advance
  <2>2. type \in Nat
    BY BoundsAssumption
  <2>3. request' \in Request(request.Iva) /\ request'.Iva = request.Iva
    BY <2>1, <2>2 DEF IInv, TypeOK, Request
  <2>4. TypeOK'
    BY <2>1, <2>3 DEF IInv, TypeOK
  <2> QED
    BY <2>1, <2>4 DEF IInv, CustomerInv, CurrencyInv, AmountsInv, DatesInv, NoteInv
<1>2. CASE type \notin SupportedTypes
  BY <1>2, RefusalKeeps DEF DocumentType
<1> QED
  BY <1>1, <1>2

LEMMA DocumentNumberKeeps ==
  ASSUME IInv, NEW numbered \in BOOLEAN, NEW ofJournal \in BOOLEAN,
         DocumentNumber(numbered, ofJournal)
  PROVE  IInv'
<1>1. CASE numbered /\ ofJournal
  <2>1. stage' = "customer" /\ UNCHANGED <<request, lines>>
    BY <1>1 DEF DocumentNumber, Advance
  <2>2. TypeOK'
    BY <2>1 DEF IInv, TypeOK
  <2> QED
    BY <2>1, <2>2 DEF IInv, CustomerInv, CurrencyInv, AmountsInv, DatesInv, NoteInv
<1>2. CASE ~(numbered /\ ofJournal)
  BY <1>2, RefusalKeeps DEF DocumentNumber
<1> QED
  BY <1>1, <1>2

LEMMA CustomerDocumentKeeps ==
  ASSUME IInv, NEW id \in {0, Cuit, 96, Unidentified}, NEW vat \in {"blank", "digits", "letters"},
         CustomerDocument(id, vat)
  PROVE  IInv'
<1> DEFINE missing == id = 0 \/ vat = "blank"
           named == ~missing /\ id # Unidentified
           usable == vat = "digits" /\ (request.type \in ClassAM => id = Cuit)
<1>1. CASE Refuse("customer")
  BY <1>1, RefusalKeeps DEF CustomerDocument
<1>2. CASE ~Refuse("customer")
  <2>1. /\ stage = "customer" /\ stage' = "currency"
        /\ UNCHANGED lines
        /\ \/ request' = [request EXCEPT !.docTipo = Unidentified, !.docNro = FALSE]
           \/ /\ named /\ usable
              /\ request' = [request EXCEPT !.docTipo = id, !.docNro = TRUE]
    BY <1>2 DEF CustomerDocument, Advance
  <2>2. /\ request' \in Request(request.Iva) /\ request'.Iva = request.Iva
        /\ request'.type = request.type
        /\ \/ request'.docTipo = Unidentified /\ ~request'.docNro
           \/ named /\ usable /\ request'.docTipo = id /\ request'.docNro
    <3>1. CASE request' = [request EXCEPT !.docTipo = Unidentified, !.docNro = FALSE]
      BY <3>1 DEF IInv, TypeOK, Request, Unidentified
    <3>2. CASE /\ named /\ usable
               /\ request' = [request EXCEPT !.docTipo = id, !.docNro = TRUE]
      <4>1. id \in Nat
        BY DEF Unidentified, Cuit
      <4>2. request' \in Request(request.Iva)
        BY <3>2, <4>1 DEF IInv, TypeOK, Request
      <4>3. /\ request'.Iva = request.Iva /\ request'.type = request.type
            /\ request'.docTipo = id /\ request'.docNro = TRUE
        BY <3>2 DEF IInv, TypeOK, Request
      <4> QED
        BY <3>2, <4>2, <4>3
    <3> QED
      BY <2>1, <3>1, <3>2
  <2>3. TypeOK'
    BY <2>1, <2>2 DEF IInv, TypeOK
  <2>4. UnknownHasNoNumber'
    BY <2>2 DEF UnknownHasNoNumber
  <2> QED
    BY <2>1, <2>3, <2>4 DEF IInv, CustomerInv, CurrencyInv, AmountsInv, DatesInv, NoteInv
<1> QED
  BY <1>1, <1>2

LEMMA CurrencyValuesKeeps ==
  ASSUME IInv, NEW own \in BOOLEAN, NEW coded \in BOOLEAN, NEW rate \in Rates \cup {0},
         CurrencyValues(own, coded, rate)
  PROVE  IInv'
<1>1. CASE own
  <2>1. /\ stage = "currency" /\ stage' = "amounts"
        /\ request' = [request EXCEPT !.MonId = Pesos, !.MonCotiz = Scale]
        /\ UNCHANGED lines
    BY <1>1 DEF CurrencyValues, Advance
  <2>2. /\ request' \in Request(request.Iva) /\ request'.Iva = request.Iva
        /\ request'.type = request.type /\ request'.docTipo = request.docTipo
        /\ request'.docNro = request.docNro
        /\ request'.MonId = Pesos /\ request'.MonCotiz = Scale
    BY <2>1, BoundsAssumption DEF IInv, TypeOK, Request
  <2>3. TypeOK'
    BY <2>1, <2>2 DEF IInv, TypeOK
  <2>4. UnknownHasNoNumber'
    BY <2>1, <2>2 DEF IInv, CustomerInv, UnknownHasNoNumber
  <2>5. CurrencyInv'
    BY <2>2 DEF CurrencyInv, PesosAreOne
  <2> QED
    BY <2>1, <2>3, <2>4, <2>5 DEF IInv, CustomerInv, AmountsInv, DatesInv, NoteInv
<1>2. CASE ~own /\ coded /\ rate # 0
  <2>1. PICK cotiz \in Rounded(Scale * Scale, rate) :
          Advance("currency", "amounts", [request EXCEPT !.MonId = "DOL", !.MonCotiz = cotiz])
    BY <1>2 DEF CurrencyValues
  <2>2. /\ stage = "currency" /\ stage' = "amounts"
        /\ request' = [request EXCEPT !.MonId = "DOL", !.MonCotiz = cotiz]
        /\ UNCHANGED lines
    BY <1>2, <2>1 DEF CurrencyValues, Advance
  <2>3. cotiz \in Nat
    <3>1. rate \in Nat /\ Scale * Scale \in Nat
      BY BoundsAssumption
    <3> QED
      BY <2>1, <3>1 DEF Rounded
  <2>4. /\ request' \in Request(request.Iva) /\ request'.Iva = request.Iva
        /\ request'.type = request.type /\ request'.docTipo = request.docTipo
        /\ request'.docNro = request.docNro
        /\ request'.MonId = "DOL" /\ request'.MonCotiz = cotiz
    BY <2>2, <2>3 DEF IInv, TypeOK, Request
  <2>5. TypeOK'
    BY <2>2, <2>4 DEF IInv, TypeOK
  <2>6. UnknownHasNoNumber'
    BY <2>2, <2>4 DEF IInv, CustomerInv, UnknownHasNoNumber
  <2>7. CurrencyInv'
    BY <2>4 DEF CurrencyInv, PesosAreOne, Pesos
  <2> QED
    BY <2>2, <2>5, <2>6, <2>7 DEF IInv, CustomerInv, AmountsInv, DatesInv, NoteInv
<1>3. CASE ~own /\ (~coded \/ rate = 0)
  BY <1>3, RefusalKeeps DEF CurrencyValues
<1> QED
  BY <1>1, <1>2, <1>3

\* The part of a request that a breakdown fills in.
LEMMA TotalsAreNatural ==
  ASSUME IInv, NEW u \in Amounts, NEW e \in Amounts, NEW t \in Amounts, NEW vat \in Vat,
         NEW n \in Taxable(vat)
  PROVE  LET r == FiscalTotals(u, n, e, t, vat)
         IN  /\ r \in Request(r.Iva)
             /\ r.Iva = IF request.type \in ClassC THEN <<>> ELSE AggregateVat(vat.lines)
             /\ r.type = request.type /\ r.docTipo = request.docTipo /\ r.docNro = request.docNro
             /\ r.MonId = request.MonId /\ r.MonCotiz = request.MonCotiz
             /\ request.type \in ClassC => r.ImpTotal = r.ImpNeto + r.ImpTrib
<1> DEFINE r == FiscalTotals(u, n, e, t, vat)
<1>1. u \in Nat /\ e \in Nat /\ t \in Nat /\ n \in Nat /\ vat.amount \in Nat
  <2>1. vat.base \in Nat /\ vat.amount \in Nat
    BY BoundsAssumption
  <2>2. n \in Nat
    BY <2>1, BoundsAssumption DEF Taxable
  <2> QED
    BY <2>1, <2>2, BoundsAssumption
<1>2. request \in Request(request.Iva)
  BY DEF IInv, TypeOK
<1>3. CASE request.type \in ClassC
  <2>1. r = [request EXCEPT !.ImpTotConc = 0, !.ImpNeto = n, !.ImpOpEx = 0, !.ImpIVA = 0,
                            !.ImpTrib = t, !.ImpTotal = n + t, !.Iva = <<>>]
    BY <1>3 DEF FiscalTotals
  <2> HIDE DEF r
  <2>2. n + t \in Nat
    BY <1>1
  <2>3. r \in Request(<<>>)
    BY <1>1, <1>2, <2>1, <2>2 DEF Request
  <2>4. /\ r.Iva = <<>>
        /\ r.type = request.type /\ r.docTipo = request.docTipo /\ r.docNro = request.docNro
        /\ r.MonId = request.MonId /\ r.MonCotiz = request.MonCotiz
        /\ r.ImpTotal = n + t /\ r.ImpNeto = n /\ r.ImpTrib = t
    BY <1>2, <2>1 DEF Request
  <2>5. r \in Request(r.Iva)
    BY <2>3, <2>4
  <2> QED
    BY <1>3, <2>4, <2>5 DEF r
<1>4. CASE request.type \notin ClassC
  <2> DEFINE total == u + n + e + vat.amount + t
             iva == AggregateVat(vat.lines)
  <2>1. r = [request EXCEPT !.ImpTotConc = u, !.ImpNeto = n, !.ImpOpEx = e,
                            !.ImpIVA = vat.amount, !.ImpTrib = t, !.ImpTotal = total,
                            !.Iva = iva]
    BY <1>4 DEF FiscalTotals
  <2>2. total \in Nat
    BY <1>1
  <2> HIDE DEF r, total, iva
  <2>3. r \in Request(iva)
    BY <1>1, <1>2, <2>1, <2>2 DEF Request
  <2>4. /\ r.Iva = iva
        /\ r.type = request.type /\ r.docTipo = request.docTipo /\ r.docNro = request.docNro
        /\ r.MonId = request.MonId /\ r.MonCotiz = request.MonCotiz
    BY <1>2, <2>1 DEF Request
  <2>5. r \in Request(r.Iva)
    BY <2>3, <2>4
  <2> QED
    BY <1>4, <2>4, <2>5 DEF r, iva
<1> QED
  BY <1>3, <1>4

LEMMA BreakdownKeeps ==
  ASSUME IInv, NEW vat \in Vat, NEW missing \in Differences,
         NEW u \in Amounts, NEW e \in Amounts, NEW t \in Amounts, NEW n \in Taxable(vat),
         stage = "amounts", Breakdown(u, n, e, t, vat, missing)
  PROVE  IInv'
<1> DEFINE r == FiscalTotals(u, n, e, t, vat)
           reported == IF request.type \in ClassC THEN <<>> ELSE vat.lines
           total == r.ImpTotal + missing
<1>1. PICK passes \in CheckTotal(total, r.ImpTotal) :
        IF passes /\ Reportable(reported)
        THEN /\ Advance("amounts", "condition", r)
             /\ lines' = reported
        ELSE Refuse("amounts") /\ UNCHANGED lines
  BY DEF Breakdown
<1>2. /\ r \in Request(r.Iva)
      /\ r.Iva = IF request.type \in ClassC THEN <<>> ELSE AggregateVat(vat.lines)
      /\ r.type = request.type /\ r.docTipo = request.docTipo /\ r.docNro = request.docNro
      /\ r.MonId = request.MonId /\ r.MonCotiz = request.MonCotiz
      /\ request.type \in ClassC => r.ImpTotal = r.ImpNeto + r.ImpTrib
  BY TotalsAreNatural
<1>3. CASE passes /\ Reportable(reported)
  <2>1. /\ stage' = "condition" /\ request' = r
        /\ lines' = reported
    BY <1>1, <1>3 DEF Advance
  <2>2. DOMAIN r.Iva \subseteq Aliquots
    <3>1. CASE request.type \in ClassC
      BY <1>2, <3>1
    <3>2. CASE request.type \notin ClassC
      BY <1>2, <1>3, <3>2 DEF AggregateVat, Reportable
    <3> QED
      BY <3>1, <3>2
  <2>3. reported \in Seq([id : Nat, base : Nat, amount : Nat])
    BY BoundsAssumption
  <2> HIDE DEF r, total, reported
  <2>4. TypeOK'
    BY <1>2, <2>1, <2>2, <2>3 DEF TypeOK
  <2>5. UnknownHasNoNumber'
    BY <1>2, <2>1 DEF IInv, CustomerInv, UnknownHasNoNumber
  <2>6. CurrencyInv'
    BY <1>2, <2>1 DEF IInv, CurrencyInv, PesosAreOne
  <2>7. ClassCHasNoVat'
    BY <1>2, <2>1 DEF ClassCHasNoVat
  <2> QED
    BY <2>1, <2>4, <2>5, <2>6, <2>7 DEF IInv, CustomerInv, AmountsInv, DatesInv, NoteInv
<1>4. CASE ~(passes /\ Reportable(reported))
  BY <1>1, <1>4, RefusalKeeps
<1> QED
  BY <1>3, <1>4

\* A step that leaves alone what the customer, currency and amounts promise.
LEMMA RestOfRequest ==
  ASSUME IInv, UNCHANGED lines, request' \in Request(request.Iva),
         request'.Iva = request.Iva,
         request'.type = request.type, request'.docTipo = request.docTipo,
         request'.docNro = request.docNro, request'.MonId = request.MonId,
         request'.MonCotiz = request.MonCotiz, request'.ImpTotal = request.ImpTotal,
         request'.ImpNeto = request.ImpNeto, request'.ImpTrib = request.ImpTrib,
         stage \in HasAmounts, stage' \in HasAmounts
  PROVE  TypeOK' /\ CustomerInv' /\ CurrencyInv' /\ AmountsInv'
<1>1. TypeOK'
  BY DEF IInv, TypeOK
<1>2. CustomerInv'
  BY DEF IInv, CustomerInv, UnknownHasNoNumber
<1>3. CurrencyInv'
  BY DEF IInv, CurrencyInv, PesosAreOne
<1>4. AmountsInv'
  BY DEF IInv, AmountsInv, ClassCHasNoVat
<1> QED
  BY <1>1, <1>2, <1>3, <1>4

LEMMA IvaConditionKeeps ==
  ASSUME IInv, NEW condition \in Conditions, IvaCondition(condition)
  PROVE  IInv'
<1>1. CASE condition \in ConditionsOf(LetterOf(request.type))
  <2>1. /\ stage = "condition" /\ stage' = "dates"
        /\ request' = [request EXCEPT !.condition = condition]
        /\ UNCHANGED lines
    BY <1>1 DEF IvaCondition, Advance
  <2>2. /\ request' \in Request(request.Iva) /\ request'.Iva = request.Iva
        /\ request'.type = request.type /\ request'.docTipo = request.docTipo
        /\ request'.docNro = request.docNro /\ request'.MonId = request.MonId
        /\ request'.MonCotiz = request.MonCotiz /\ request'.ImpTotal = request.ImpTotal
        /\ request'.ImpNeto = request.ImpNeto /\ request'.ImpTrib = request.ImpTrib
    BY <2>1, BoundsAssumption DEF IInv, TypeOK, Request
  <2>3. TypeOK' /\ CustomerInv' /\ CurrencyInv' /\ AmountsInv'
    BY <2>1, <2>2, RestOfRequest
  <2> QED
    BY <2>1, <2>3 DEF IInv, DatesInv, NoteInv
<1>2. CASE condition \notin ConditionsOf(LetterOf(request.type))
  BY <1>2, RefusalKeeps DEF IvaCondition
<1> QED
  BY <1>1, <1>2

LEMMA ServiceDatesKeeps ==
  ASSUME IInv, NEW concept \in 1..3, NEW date \in Dates,
         NEW start \in Dates \cup {0}, NEW end \in Dates \cup {0},
         ServiceDates(concept, date, start, end)
  PROVE  IInv'
<1> DEFINE from  == IF start = 0 THEN date ELSE start
           until == IF end = 0 THEN date ELSE end
<1>1. from \in Nat \ {0} /\ until \in Nat \ {0}
  BY BoundsAssumption
<1>2. CASE concept \notin WithServiceDates
  <2>1. /\ stage = "dates" /\ stage' = "associated"
        /\ request' = [request EXCEPT !.concept = concept]
        /\ UNCHANGED lines
    BY <1>2 DEF ServiceDates, Advance
  <2>2. /\ request' \in Request(request.Iva) /\ request'.Iva = request.Iva
        /\ request'.type = request.type /\ request'.docTipo = request.docTipo
        /\ request'.docNro = request.docNro /\ request'.MonId = request.MonId
        /\ request'.MonCotiz = request.MonCotiz /\ request'.ImpTotal = request.ImpTotal
        /\ request'.ImpNeto = request.ImpNeto /\ request'.ImpTrib = request.ImpTrib
        /\ request'.concept = concept
    BY <2>1 DEF IInv, TypeOK, Request
  <2>3. TypeOK' /\ CustomerInv' /\ CurrencyInv' /\ AmountsInv'
    BY <2>1, <2>2, RestOfRequest
  <2> QED
    BY <1>2, <2>1, <2>2, <2>3 DEF IInv, DatesInv, PeriodIsComplete, NoteInv
<1>3. CASE concept \in WithServiceDates /\ ~(until < from)
  <2>1. /\ stage = "dates" /\ stage' = "associated"
        /\ request' = [request EXCEPT !.concept = concept, !.FchServDesde = from,
                                      !.FchServHasta = until]
        /\ UNCHANGED lines
    BY <1>3 DEF ServiceDates, Advance
  <2> HIDE DEF from, until
  <2>2. /\ request' \in Request(request.Iva) /\ request'.Iva = request.Iva
        /\ request'.type = request.type /\ request'.docTipo = request.docTipo
        /\ request'.docNro = request.docNro /\ request'.MonId = request.MonId
        /\ request'.MonCotiz = request.MonCotiz /\ request'.ImpTotal = request.ImpTotal
        /\ request'.ImpNeto = request.ImpNeto /\ request'.ImpTrib = request.ImpTrib
        /\ request'.FchServDesde = from /\ request'.FchServHasta = until
    BY <1>1, <2>1 DEF IInv, TypeOK, Request
  <2>3. TypeOK' /\ CustomerInv' /\ CurrencyInv' /\ AmountsInv'
    BY <2>1, <2>2, RestOfRequest
  <2>4. PeriodIsComplete'
    BY <1>1, <1>3, <2>2 DEF PeriodIsComplete
  <2> QED
    BY <2>1, <2>3, <2>4 DEF IInv, DatesInv, NoteInv
<1>4. CASE concept \in WithServiceDates /\ until < from
  BY <1>4, RefusalKeeps DEF ServiceDates
<1> QED
  BY <1>2, <1>3, <1>4

LEMMA AssociatedDocumentsKeeps ==
  ASSUME IInv, NEW origin \in Types \cup {0}, NEW numbered \in BOOLEAN,
         AssociatedDocuments(origin, numbered)
  PROVE  IInv'
<1>1. CASE request.type \notin Notes
  <2>1. stage = "associated" /\ stage' = "built" /\ UNCHANGED <<request, lines>>
    BY <1>1 DEF AssociatedDocuments, Advance
  <2>2. TypeOK'
    BY <2>1 DEF IInv, TypeOK
  <2> QED
    BY <1>1, <2>1, <2>2 DEF IInv, CustomerInv, UnknownHasNoNumber, CurrencyInv,
      PesosAreOne, AmountsInv, ClassCHasNoVat, DatesInv, PeriodIsComplete, NoteInv, NoteHasItsClass
<1>2. CASE request.type \in Notes /\ origin \in AssociatedTo(request.type) /\ numbered
  <2>1. /\ stage = "associated" /\ stage' = "built"
        /\ request' = [request EXCEPT !.asociado = origin]
        /\ UNCHANGED lines
    BY <1>2 DEF AssociatedDocuments, Advance
  <2>2. /\ request' \in Request(request.Iva) /\ request'.Iva = request.Iva
        /\ request'.type = request.type /\ request'.docTipo = request.docTipo
        /\ request'.docNro = request.docNro /\ request'.MonId = request.MonId
        /\ request'.MonCotiz = request.MonCotiz /\ request'.ImpTotal = request.ImpTotal
        /\ request'.ImpNeto = request.ImpNeto /\ request'.ImpTrib = request.ImpTrib
        /\ request'.concept = request.concept /\ request'.FchServDesde = request.FchServDesde
        /\ request'.FchServHasta = request.FchServHasta /\ request'.asociado = origin
    <3>1. origin \in Nat
      BY BoundsAssumption
    <3>2. request \in Request(request.Iva)
      BY DEF IInv, TypeOK
    <3>3. request' \in Request(request.Iva)
      BY <2>1, <3>1, <3>2 DEF Request
    <3> QED
      BY <2>1, <3>2, <3>3 DEF Request
  <2>3. TypeOK' /\ CustomerInv' /\ CurrencyInv' /\ AmountsInv'
    BY <2>1, <2>2, RestOfRequest
  <2>4. PeriodIsComplete'
    BY <2>1, <2>2 DEF IInv, DatesInv, PeriodIsComplete
  <2>5. NoteHasItsClass'
    BY <1>2, <2>2, ReferencesOfItsClass DEF NoteHasItsClass
  <2> QED
    BY <2>1, <2>3, <2>4, <2>5 DEF IInv, DatesInv, NoteInv
<1>3. CASE request.type \in Notes /\ (origin \notin AssociatedTo(request.type) \/ ~numbered)
  BY <1>3, RefusalKeeps DEF AssociatedDocuments
<1> QED
  BY <1>1, <1>2, <1>3

-----------------------------------------------------------------------------
(* The theorems *)

LEMMA InitHolds == Init => IInv
<1> SUFFICES ASSUME Init PROVE IInv
  OBVIOUS
<1>1. stage = "type" /\ request = Blank /\ lines = <<>>
  BY DEF Init
<1>2. request \in Request(<<>>) /\ request.Iva = <<>>
  BY <1>1 DEF Blank, Request
<1>3. TypeOK
  BY <1>1, <1>2 DEF TypeOK
<1> QED
  BY <1>1, <1>3 DEF IInv, CustomerInv, CurrencyInv, AmountsInv, DatesInv, NoteInv

LEMMA StepKeeps == IInv /\ [Build]_vars => IInv'
<1> SUFFICES ASSUME IInv, [Build]_vars PROVE IInv'
  OBVIOUS
<1>1. ASSUME NEW type \in Types, DocumentType(type) PROVE IInv'
  BY <1>1, DocumentTypeKeeps
<1>2. ASSUME NEW numbered \in BOOLEAN, NEW ofJournal \in BOOLEAN,
             DocumentNumber(numbered, ofJournal)
      PROVE  IInv'
  BY <1>2, DocumentNumberKeeps
<1>3. ASSUME NEW id \in {0, Cuit, 96, Unidentified}, NEW vat \in {"blank", "digits", "letters"},
             CustomerDocument(id, vat)
      PROVE  IInv'
  BY <1>3, CustomerDocumentKeeps
<1>4. ASSUME NEW own \in BOOLEAN, NEW coded \in BOOLEAN, NEW rate \in Rates \cup {0},
             CurrencyValues(own, coded, rate)
      PROVE  IInv'
  BY <1>4, CurrencyValuesKeeps
<1>5. ASSUME NEW vat \in Vat, NEW missing \in Differences, NEW u \in Amounts, NEW e \in Amounts,
             NEW t \in Amounts, NEW n \in Taxable(vat),
             stage = "amounts", Breakdown(u, n, e, t, vat, missing)
      PROVE  IInv'
  BY <1>5, BreakdownKeeps
<1>6. ASSUME NEW condition \in Conditions, IvaCondition(condition) PROVE IInv'
  BY <1>6, IvaConditionKeeps
<1>7. ASSUME NEW concept \in 1..3, NEW date \in Dates, NEW start \in Dates \cup {0},
             NEW end \in Dates \cup {0}, ServiceDates(concept, date, start, end)
      PROVE  IInv'
  BY <1>7, ServiceDatesKeeps
<1>8. ASSUME NEW origin \in Types \cup {0}, NEW numbered \in BOOLEAN,
             AssociatedDocuments(origin, numbered)
      PROVE  IInv'
  BY <1>8, AssociatedDocumentsKeeps
<1>9. CASE UNCHANGED vars
  BY <1>9 DEF vars, IInv, TypeOK, CustomerInv, UnknownHasNoNumber, CurrencyInv,
    PesosAreOne, AmountsInv, ClassCHasNoVat, DatesInv, PeriodIsComplete, NoteInv, NoteHasItsClass
<1> QED
  BY <1>1, <1>2, <1>3, <1>4, <1>5, <1>6, <1>7, <1>8, <1>9 DEF Build

LEMMA Invariance == Spec => []IInv
BY InitHolds, StepKeeps, PTL DEF Spec

\* The request under construction has the fields and the types of its kind, and
\* no aliquot that ARCA does not know.
THEOREM TypeCorrect == Spec => []TypeOK
<1>1. IInv => TypeOK
  BY DEF IInv
<1> QED
  BY <1>1, Invariance, PTL

\* Whatever the invoice, what _l10n_ar_arca_prepare_request builds passes
\* validations 10015, 10018, 10039, 10040, 10048 and 10049.
THEOREM BuiltIsAcceptable == Spec => []SentIsAcceptable
<1>1. IInv => SentIsAcceptable
  BY DEF IInv, CustomerInv, CurrencyInv, AmountsInv, DatesInv, NoteInv, SentIsAcceptable
<1> QED
  BY <1>1, Invariance, PTL

-----------------------------------------------------------------------------
(* The VAT group *)

VatInv == stage \in HasAmounts => VatAddsUp

\* The step that writes the group writes one that adds up: to nothing in class
\* C, elsewhere to the totals that l10n_ar made of the same lines.
LEMMA BreakdownAddsUp ==
  ASSUME IInv, NEW vat \in Vat, NEW missing \in Differences,
         NEW u \in Amounts, NEW e \in Amounts, NEW t \in Amounts, NEW n \in Taxable(vat),
         stage = "amounts", Breakdown(u, n, e, t, vat, missing), stage' # "refused"
  PROVE  VatAddsUp'
<1> DEFINE r == FiscalTotals(u, n, e, t, vat)
           reported == IF request.type \in ClassC THEN <<>> ELSE vat.lines
<1>1. Reportable(reported) /\ request' = r /\ lines' = reported
  BY DEF Breakdown, Advance, Refuse
<1>2. r.type = request.type
  BY TotalsAreNatural
<1>3. request \in Request(request.Iva)
  BY DEF IInv, TypeOK
<1>4. CASE request.type \in ClassC
  <2>1. lines' = <<>> /\ request'.Iva = <<>> /\ request'.ImpIVA = 0
    BY <1>1, <1>3, <1>4 DEF FiscalTotals, Request
  <2>2. DOMAIN request'.Iva = Ids(lines') /\ GroupTotal(request'.Iva, "amount") = request'.ImpIVA
    BY <2>1, NothingToTotal
  <2>3. request'.type \in ClassC
    BY <1>1, <1>2, <1>4
  <2>4. QED
    BY <2>2, <2>3 DEF VatAddsUp
<1>5. CASE request.type \notin ClassC
  <2> DEFINE ls == vat.lines
  <2>1. /\ lines' = ls /\ request'.Iva = AggregateVat(ls)
        /\ request'.ImpIVA = vat.amount /\ request'.ImpNeto = n
    BY <1>1, <1>3, <1>5 DEF FiscalTotals, Request
  <2>2. ls \in Seq([id : Nat, base : Nat, amount : Nat]) /\ Ids(ls) \subseteq Aliquots
    BY <1>1, <1>5, BoundsAssumption DEF Reportable
  <2>3. n = Total(ls, Ids(ls), "base") /\ vat.amount = Total(ls, Ids(ls), "amount")
    BY <1>5, TotalsAssumption DEF Taxable
  <2> HIDE DEF ls
  <2>4. /\ GroupTotal(AggregateVat(ls), "base") = Total(ls, Ids(ls), "base")
        /\ GroupTotal(AggregateVat(ls), "amount") = Total(ls, Ids(ls), "amount")
    BY <2>2, GroupIsTotal
  <2>5. DOMAIN AggregateVat(ls) = Ids(ls)
    BY DEF AggregateVat
  <2>6. QED
    BY <2>1, <2>3, <2>4, <2>5 DEF VatAddsUp
<1>6. QED
  BY <1>4, <1>5

\* No later step touches the group, its totals or the type.
LEMMA LaterStepsKeepGroup ==
  ASSUME IInv, [Build]_vars, stage' \in HasAmounts, stage # "amounts"
  PROVE  /\ stage \in HasAmounts
         /\ UNCHANGED lines
         /\ request'.type = request.type /\ request'.Iva = request.Iva
         /\ request'.ImpIVA = request.ImpIVA /\ request'.ImpNeto = request.ImpNeto
<1> DEFINE Kept ==
      /\ stage \in HasAmounts
      /\ UNCHANGED lines
      /\ request'.type = request.type /\ request'.Iva = request.Iva
      /\ request'.ImpIVA = request.ImpIVA /\ request'.ImpNeto = request.ImpNeto
<1>1. request \in Request(request.Iva)
  BY DEF IInv, TypeOK
<1>2. ASSUME NEW type \in Types, DocumentType(type) PROVE FALSE
  BY <1>2 DEF DocumentType, Advance, Refuse
<1>3. ASSUME NEW numbered \in BOOLEAN, NEW ofJournal \in BOOLEAN,
             DocumentNumber(numbered, ofJournal)
      PROVE  FALSE
  BY <1>3 DEF DocumentNumber, Advance, Refuse
<1>4. ASSUME NEW id \in {0, Cuit, 96, Unidentified}, NEW vat \in {"blank", "digits", "letters"},
             CustomerDocument(id, vat)
      PROVE  FALSE
  BY <1>4 DEF CustomerDocument, Advance, Refuse
<1>5. ASSUME NEW own \in BOOLEAN, NEW coded \in BOOLEAN, NEW rate \in Rates \cup {0},
             CurrencyValues(own, coded, rate)
      PROVE  FALSE
  BY <1>5 DEF CurrencyValues, Advance, Refuse
<1>6. ASSUME NEW condition \in Conditions, IvaCondition(condition) PROVE Kept
  BY <1>1, <1>6 DEF IvaCondition, Advance, Refuse, Request
<1>7. ASSUME NEW concept \in 1..3, NEW date \in Dates, NEW start \in Dates \cup {0},
             NEW end \in Dates \cup {0}, ServiceDates(concept, date, start, end)
      PROVE  Kept
  <2>1. stage = "dates" /\ UNCHANGED lines
    BY <1>7 DEF ServiceDates, Advance, Refuse
  <2>2. \/ request' = [request EXCEPT !.concept = concept]
        \/ \E from, until : request' = [request EXCEPT !.concept = concept, !.FchServDesde = from,
                                                       !.FchServHasta = until]
    BY <1>7, Zenon DEF ServiceDates, Advance, Refuse
  <2>3. QED
    BY <1>1, <2>1, <2>2 DEF Request
<1>8. ASSUME NEW origin \in Types \cup {0}, NEW numbered \in BOOLEAN,
             AssociatedDocuments(origin, numbered)
      PROVE  Kept
  BY <1>1, <1>8 DEF AssociatedDocuments, Advance, Refuse, Request
<1>9. ASSUME UNCHANGED vars PROVE Kept
  BY <1>9 DEF vars
<1> HIDE DEF Kept
<1>10. Kept
  BY <1>2, <1>3, <1>4, <1>5, <1>6, <1>7, <1>8, <1>9 DEF Build
<1>11. QED
  BY <1>10 DEF Kept

\* Every step keeps VatInv.
LEMMA VatStep == IInv /\ VatInv /\ [Build]_vars => VatInv'
<1> SUFFICES ASSUME IInv, VatInv, [Build]_vars, stage' \in HasAmounts PROVE VatAddsUp'
  BY DEF VatInv
<1>1. CASE stage = "amounts"
  <2>1. \E vat \in Vat, missing \in Differences, u, e, t \in Amounts :
          \E n \in Taxable(vat) : Breakdown(u, n, e, t, vat, missing)
    BY <1>1 DEF Build, vars, DocumentType, DocumentNumber, CustomerDocument, CurrencyValues,
                IvaCondition, ServiceDates, AssociatedDocuments, Advance, Refuse
  <2>2. QED
    BY <1>1, <2>1, BreakdownAddsUp
<1>2. CASE stage # "amounts"
  <2>1. /\ VatAddsUp /\ UNCHANGED lines
        /\ request'.type = request.type /\ request'.Iva = request.Iva
        /\ request'.ImpIVA = request.ImpIVA /\ request'.ImpNeto = request.ImpNeto
    BY <1>2, LaterStepsKeepGroup DEF VatInv
  <2>2. QED
    BY <2>1 DEF VatAddsUp
<1>3. QED
  BY <1>1, <1>2

\* Whatever the VAT lines of the invoice, each aliquot is sent once, and the
\* entries of the group add up to the ImpIVA and ImpNeto that are sent with it.
THEOREM GroupsAddUp == Spec => []VatIsTotalled
<1>1. Init => VatInv
  BY DEF Init, VatInv
<1>2. VatInv => VatIsTotalled
  BY DEF VatInv, VatIsTotalled
<1>3. QED
  BY <1>1, <1>2, VatStep, Invariance, PTL DEF Spec
==============================================================================
