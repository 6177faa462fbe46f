--------------------------- MODULE InvoiceRequest ---------------------------
(***************************************************************************)
(* Building the FECAESolicitar request of an invoice.  Each step reads the *)
(* part of the invoice it needs, in the order of the code, and either adds *)
(* to the request or refuses the invoice.  The module promises to refuse   *)
(* locally, and readably, what ARCA would refuse with a number.            *)
(*                                                                         *)
(* Amounts are in cents: l10n_ar rounds them, float_round removes what     *)
(* binary arithmetic leaves.  A rate of exchange is in units of 1/Scale,   *)
(* Scale standing for the six digits of MonCotiz.  Dates are natural       *)
(* numbers.  0 is a missing rate, date or document.                        *)
(***************************************************************************)
EXTENDS Integers, Sequences, Functions

CONSTANTS
  Types,        \* document type codes an invoice may have
  Conditions,   \* AFIP responsibility codes a customer may have
  Amounts,      \* each part of the breakdown, in cents
  Vat,          \* l10n_ar's breakdown of the VAT: lines, and their totals
  Differences,  \* what the breakdown may miss of the invoice's total
  Dates,        \* invoice and service dates; none is 0
  Rates,        \* units of a foreign currency that a peso is worth
  Scale         \* of the rates

ASSUME BoundsAssumption ==
  /\ Types \subseteq Nat /\ Conditions \subseteq Nat /\ Amounts \subseteq Nat
  /\ Vat \subseteq [lines : Seq([id : Nat, base : Nat, amount : Nat]), base : Nat, amount : Nat]
  /\ Differences \subseteq Int
  /\ Dates \subseteq Nat \ {0} /\ Rates \subseteq Nat \ {0}
  /\ Scale \in Nat \ {0}

VARIABLES
  stage,     \* the next part of the request, "built" or "refused"
  request,   \* the request so far: header and detail
  lines      \* the VAT lines the amounts came with

vars == <<stage, request, lines>>

-----------------------------------------------------------------------------
(* constants.py *)

SupportedTypes == {1, 2, 3, 4, 6, 7, 8, 9, 11, 12, 13, 15, 51, 52, 53, 54}
ClassC         == {11, 12, 13, 15, 211, 212, 213}
ClassAM        == {1, 2, 3, 4, 51, 52, 53, 54, 201, 202, 203}
Notes          == {2, 3, 7, 8, 12, 13, 52, 53}
Aliquots       == {3, 4, 5, 6, 8, 9}
Cuit           == 80
Unidentified   == 99
WithServiceDates == {2, 3}
Pesos == "PES"

\* ASSOCIATED_DOCUMENT_RULES, as far as it is looked up: for notes.
AssociatedTo(type) ==
  CASE type \in {2, 3}   -> {1, 2, 3, 4, 5, 34, 39, 60, 63, 88, 991}
    [] type \in {7, 8}   -> {6, 7, 8, 9, 10, 35, 40, 61, 64, 88, 991}
    [] type \in {12, 13} -> {11, 12, 13, 15}
    [] type \in {52, 53} -> {51, 52, 53, 54, 88, 991}
    [] OTHER             -> {}

\* IVA_CONDITION_BY_CLASS
ConditionsOf(letter) ==
  CASE letter \in {"A", "M"} -> {1, 6, 13, 16}
    [] letter = "B"          -> {4, 5, 7, 8, 9, 10, 15}
    [] letter = "C"          -> {1, 4, 5, 6, 7, 8, 9, 10, 13, 15, 16}
    [] OTHER                 -> {}

\* The letter l10n_ar gives a document type.
LetterOf(type) ==
  CASE type \in {1, 2, 3, 4, 5, 34, 39, 60, 63, 201, 202, 203}    -> "A"
    [] type \in {6, 7, 8, 9, 10, 35, 40, 61, 64, 206, 207, 208}   -> "B"
    [] type \in {11, 12, 13, 15, 211, 212, 213}                   -> "C"
    [] type \in {51, 52, 53, 54}                                  -> "M"
    [] type \in {19, 20, 21}                                      -> "E"
    [] type \in {88, 991}                                         -> "R"
    [] OTHER                                                      -> "none"

-----------------------------------------------------------------------------
\* The amounts of a set of lines, added up.
Total(ls, ids, field) ==
  SumFunctionOnSet([i \in DOMAIN ls |-> ls[i][field]], {i \in DOMAIN ls : ls[i].id \in ids})

Ids(ls) == {ls[i].id : i \in DOMAIN ls}

\* l10n_ar adds its lines up: it makes the totals and the lines of one and the
\* same rounding of the invoice (base_lines, account_move.py:775-797).
ASSUME TotalsAssumption ==
  \A vat \in Vat : /\ vat.base = Total(vat.lines, Ids(vat.lines), "base")
                   /\ vat.amount = Total(vat.lines, Ids(vat.lines), "amount")

Blank == [type |-> 0, docTipo |-> 0, docNro |-> FALSE, concept |-> 1,
          ImpTotConc |-> 0, ImpNeto |-> 0, ImpOpEx |-> 0, ImpIVA |-> 0, ImpTrib |-> 0,
          ImpTotal |-> 0, Iva |-> <<>>, condition |-> 0, FchServDesde |-> 0,
          FchServHasta |-> 0, MonId |-> Pesos, MonCotiz |-> 0, asociado |-> 0]

Init ==
  /\ stage = "type"
  /\ request = Blank
  /\ lines = <<>>

Refuse(from) ==
  /\ stage = from
  /\ stage' = "refused"
  /\ UNCHANGED request

Advance(from, to, result) ==
  /\ stage = from
  /\ stage' = to
  /\ request' = result

-----------------------------------------------------------------------------
\* _l10n_ar_arca_document_type_code: no WSFEX, no FCE, nothing else unknown.
DocumentType(type) ==
  /\ IF type \in SupportedTypes
     THEN Advance("type", "number", [request EXCEPT !.type = type])
     ELSE Refuse("type")
  /\ UNCHANGED lines

\* _l10n_ar_arca_document_number_parts and the check of _l10n_ar_arca_authorize:
\* the invoice has a number, of its journal's point of sale.
DocumentNumber(numbered, ofJournal) ==
  /\ IF numbered /\ ofJournal
     THEN Advance("number", "customer", request)
     ELSE Refuse("number")
  /\ UNCHANGED lines

\* _l10n_ar_arca_customer_document, for an identification type (0: none) and a
\* number that is blank, digits or neither.  Type 99 is let through before the
\* class is looked at.
CustomerDocument(id, vat) ==
  LET classAM == request.type \in ClassAM
      missing == id = 0 \/ vat = "blank"
      named   == ~missing /\ id # Unidentified
      usable  == vat = "digits" /\ (classAM => id = Cuit)
  IN
  /\ \/ /\ \/ missing /\ ~classAM
           \/ ~missing /\ ~named
        /\ Advance("customer", "currency",
                   [request EXCEPT !.docTipo = Unidentified, !.docNro = FALSE])
     \/ /\ named /\ usable
        /\ Advance("customer", "currency",
                   [request EXCEPT !.docTipo = id, !.docNro = TRUE])
     \/ /\ \/ missing /\ classAM
           \/ named /\ ~usable
        /\ Refuse("customer")
  /\ UNCHANGED lines

\* float_round of a quotient: half a unit may go either way in binary.
Rounded(a, b) == {q \in 0..a : 2 * (q * b - a) <= b /\ 2 * (a - q * b) <= b}

\* _l10n_ar_arca_currency_values, of an invoice in its company's currency or in
\* one that may lack an ARCA code or, with rate 0, a rate.
CurrencyValues(own, coded, rate) ==
  \/ /\ own
     /\ Advance("currency", "amounts", [request EXCEPT !.MonId = Pesos, !.MonCotiz = Scale])
     /\ UNCHANGED lines
  \/ /\ ~own /\ coded /\ rate # 0
     /\ \E cotiz \in Rounded(Scale * Scale, rate) :
          Advance("currency", "amounts", [request EXCEPT !.MonId = "DOL", !.MonCotiz = cotiz])
     /\ UNCHANGED lines
  \/ /\ ~own /\ (~coded \/ rate = 0)
     /\ Refuse("currency")
     /\ UNCHANGED lines

\* _l10n_ar_arca_check_total: whether the breakdown may pass.  In binary, a
\* difference of exactly one cent, or exactly 0.01 per cent, falls on either
\* side of the tolerance.
CheckTotal(total, computed) ==
  LET difference == IF total < computed THEN computed - total ELSE total - computed
      inside     == difference = 0 \/ difference * 10000 < total
      outside    == difference > 1 /\ difference * 10000 > total
  IN  {passes \in BOOLEAN : (inside => passes) /\ (outside => ~passes)}

\* Bug: a repeated aliquot replaces the earlier one.
BugAggregateVat(ls) ==
  [id \in Ids(ls) |->
     LET i == CHOOSE i \in DOMAIN ls : ls[i].id = id /\ \A j \in DOMAIN ls : ls[j].id = id => j <= i
     IN  [base |-> ls[i].base, amount |-> ls[i].amount]]

\* _l10n_ar_arca_aggregate_vat
AggregateVat(ls) ==
  [id \in Ids(ls) |-> [base |-> Total(ls, {id}, "base"), amount |-> Total(ls, {id}, "amount")]]

\* _l10n_ar_arca_amounts of a breakdown; class C puts everything in ImpNeto.
FiscalTotals(untaxed, net, exempt, trib, vat) ==
  LET C == request.type \in ClassC
  IN  [request EXCEPT
         !.ImpTotConc = IF C THEN 0 ELSE untaxed,
         !.ImpNeto    = net,
         !.ImpOpEx    = IF C THEN 0 ELSE exempt,
         !.ImpIVA     = IF C THEN 0 ELSE vat.amount,
         !.ImpTrib    = trib,
         !.ImpTotal   = IF C THEN net + trib ELSE untaxed + net + exempt + vat.amount + trib,
         !.Iva        = IF C THEN <<>> ELSE AggregateVat(vat.lines)]

\* l10n_ar: the taxable amount is that of the VAT lines, but in class C.
Taxable(vat) == IF request.type \in ClassC THEN Amounts ELSE {vat.base}

\* Bug: the aliquots are not looked up.
BugReportable(ls) == TRUE

\* _l10n_ar_arca_aggregate_vat refuses an aliquot that ARCA does not know.
Reportable(ls) == Ids(ls) \subseteq Aliquots

\* _l10n_ar_arca_amounts, of what l10n_ar says and an invoice total that is
\* not always its sum.
Breakdown(untaxed, net, exempt, trib, vat, missing) ==
  LET r == FiscalTotals(untaxed, net, exempt, trib, vat)
      reported == IF request.type \in ClassC THEN <<>> ELSE vat.lines
      total == r.ImpTotal + missing
  IN
  /\ total >= 0
  /\ \E passes \in CheckTotal(total, r.ImpTotal) :
       IF passes /\ Reportable(reported)
       THEN /\ Advance("amounts", "condition", r)
            /\ lines' = reported
       ELSE Refuse("amounts") /\ UNCHANGED lines

\* _l10n_ar_arca_iva_condition
IvaCondition(condition) ==
  /\ IF condition \in ConditionsOf(LetterOf(request.type))
     THEN Advance("condition", "dates", [request EXCEPT !.condition = condition])
     ELSE Refuse("condition")
  /\ UNCHANGED lines

\* _l10n_ar_arca_service_dates, of concepts that need them.
ServiceDates(concept, date, start, end) ==
  LET from  == IF start = 0 THEN date ELSE start
      until == IF end = 0 THEN date ELSE end
  IN
  /\ IF concept \notin WithServiceDates
     THEN Advance("dates", "associated", [request EXCEPT !.concept = concept])
     ELSE IF until < from THEN Refuse("dates")
     ELSE Advance("dates", "associated",
                  [request EXCEPT !.concept = concept, !.FchServDesde = from,
                                  !.FchServHasta = until])
  /\ UNCHANGED lines

\* Bug: the class of the referenced document not looked at.
BugAssociatedDocuments(origin, numbered) ==
  /\ IF request.type \notin Notes
     THEN Advance("associated", "built", request)
     ELSE IF origin = 0 THEN Refuse("associated")
     ELSE Advance("associated", "built", [request EXCEPT !.asociado = origin])
  /\ UNCHANGED lines

\* _l10n_ar_arca_associated_documents, of the invoice a note adjusts (0: none),
\* which has a number or not.
AssociatedDocuments(origin, numbered) ==
  /\ IF request.type \notin Notes
     THEN Advance("associated", "built", request)
     ELSE IF origin \notin AssociatedTo(request.type) \/ ~numbered THEN Refuse("associated")
     ELSE Advance("associated", "built", [request EXCEPT !.asociado = origin])
  /\ UNCHANGED lines

Build ==
  \/ \E type \in Types : DocumentType(type)
  \/ \E numbered, ofJournal \in BOOLEAN : DocumentNumber(numbered, ofJournal)
  \/ \E id \in {0, Cuit, 96, Unidentified}, vat \in {"blank", "digits", "letters"} :
       CustomerDocument(id, vat)
  \/ \E own, coded \in BOOLEAN, rate \in Rates \cup {0} : CurrencyValues(own, coded, rate)
  \/ /\ stage = "amounts"
     /\ \E vat \in Vat, missing \in Differences, u, e, t \in Amounts :
          \E n \in Taxable(vat) : Breakdown(u, n, e, t, vat, missing)
  \/ \E condition \in Conditions : IvaCondition(condition)
  \/ \E concept \in 1..3, date \in Dates, start, end \in Dates \cup {0} :
       ServiceDates(concept, date, start, end)
  \/ \E origin \in Types \cup {0}, numbered \in BOOLEAN : AssociatedDocuments(origin, numbered)

Spec == Init /\ [][Build]_vars

-----------------------------------------------------------------------------
(* Properties *)

Stages == {"type", "number", "customer", "currency", "amounts", "condition", "dates",
           "associated", "built", "refused"}

\* The type of a request whose VAT group is iva.
Request(iva) ==
  [type : Nat, docTipo : Nat, docNro : BOOLEAN, concept : 1..3,
   ImpTotConc : Nat, ImpNeto : Nat, ImpOpEx : Nat, ImpIVA : Nat, ImpTrib : Nat,
   ImpTotal : Nat, Iva : {iva}, condition : Nat, FchServDesde : Nat, FchServHasta : Nat,
   MonId : {Pesos, "DOL"}, MonCotiz : Nat, asociado : Nat]

\* No amount is negative, and every aliquot is one of ARCA's.
TypeOK ==
  /\ stage \in Stages
  /\ request \in Request(request.Iva)
  /\ DOMAIN request.Iva \subseteq Aliquots
  /\ lines \in Seq([id : Nat, base : Nat, amount : Nat])

Built == stage = "built"

\* Validations of ARCA that the code names, and keeps.
UnknownHasNoNumber == request.docTipo = Unidentified <=> ~request.docNro
NoteHasItsClass    == request.type \in Notes =>
                        LetterOf(request.asociado) \in {LetterOf(request.type), "R"}
ClassCHasNoVat     == request.type \in ClassC =>
                        /\ request.Iva = <<>>
                        /\ request.ImpTotal = request.ImpNeto + request.ImpTrib
PeriodIsComplete   == request.concept \in WithServiceDates =>
                        0 < request.FchServDesde /\ request.FchServDesde <= request.FchServHasta

PesosAreOne        == request.MonId = Pesos => request.MonCotiz = Scale

\* No request leaves that ARCA would refuse under validations 10015, 10018,
\* 10039, 10040, 10048 or 10049, whatever the mixture of type, customer,
\* currency, breakdown, dates and reference the invoice has.
SentIsAcceptable ==
  Built => UnknownHasNoNumber /\ NoteHasItsClass /\ ClassCHasNoVat
           /\ PeriodIsComplete /\ PesosAreOne

\* A field of the VAT group, added up.
GroupTotal(iva, field) == SumFunction([id \in DOMAIN iva |-> iva[id][field]])

VatAddsUp ==
  /\ DOMAIN request.Iva = Ids(lines)
  /\ GroupTotal(request.Iva, "amount") = request.ImpIVA
  /\ request.type \notin ClassC => GroupTotal(request.Iva, "base") = request.ImpNeto

\* The VAT group says what ImpIVA and ImpNeto say: each aliquot once (validation
\* 10022), and nothing lost in adding the lines up.
VatIsTotalled == Built => VatAddsUp

-----------------------------------------------------------------------------
(* What the repository says and the code does not do *)

\* Validation 10013: a class A or M document is sent for a customer identified
\* by CUIT and for no other.
AIsIdentifiedByCuit == Built /\ request.type \in ClassAM => request.docTipo = Cuit

==============================================================================
