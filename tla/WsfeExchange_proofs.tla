------------------------ MODULE WsfeExchange_proofs ------------------------
(***************************************************************************)
(* How far the classification of exceptions and answers is sound.  The     *)
(* inductive invariant says what is known of ARCA at each leg: no voucher  *)
(* before the request is there, none after an exception that _call takes   *)
(* for an aborted or refused request unless its text is ambiguous, and the *)
(* truth in the answer being read.                                         *)
(***************************************************************************)
EXTENDS WsfeExchange, TLAPS

\* An exchange under way is of an attempt that is still open.
OpenInv ==
  /\ leg \notin {"unsent", "idle"} => attempt \in {"sent", "uncertain"}
  /\ leg = "unsent" => attempt = "none" /\ op = "solicitar"
  /\ op = "solicitar" /\ leg \in {"unsent", "auth", "connecting", "sent"} => ~exists

RaisedInv ==
  leg = "raised" /\ op = "solicitar" /\ CallVerdict(raised) \in {"aborted", "rejected"} /\ exists
    => raised \in Ambiguous

AnswerInv ==
  leg = "answered" =>
    /\ op = "solicitar" => answer \in CaeAnswers /\ TrueOfRequest(answer)
    /\ op = "consultar" => answer \in QueryAnswers /\ TrueOfQuery(answer)

IInv == ExchangeTypeOK /\ OpenInv /\ RaisedInv /\ AnswerInv /\ WrongWriteOffs /\ CaelessApprovals

-----------------------------------------------------------------------------
(* What the verdicts say *)

\* An exception of a connection that stood writes nothing off, unless its text
\* is one of a connection that did not.
LEMMA CallVerdicts ==
  ASSUME NEW e
  PROVE  /\ CallVerdict(e) \in {"aborted", "rejected", "uncertain"}
         /\ e \in BrokenTransfers \cup UnusableBodies \cup {"none"}
              => CallVerdict(e) = "uncertain" \/ e \in Ambiguous
BY DEF CallVerdict, ClassifyTransport, ConnectFailures, BrokenTransfers, UnusableBodies, Ambiguous

\* A rejection read in a true answer is true, and an approval has the CAE of a
\* voucher unless it is partial.
LEMMA CaeVerdicts ==
  ASSUME NEW a \in CaeAnswers, TrueOfRequest(a)
  PROVE  /\ CaeVerdict(a) \in {"authorized", "rejected", "uncertain"}
         /\ CaeVerdict(a) = "rejected" => ~exists
         /\ CaeVerdict(a) = "authorized" => (a.cae /\ exists) \/ (~a.cae /\ a.result = "P")
<1>1. /\ a.errors \in BOOLEAN /\ a.cae \in BOOLEAN
      /\ a.result \in {"A", "P", "R", "other", "none"}
  BY DEF CaeAnswers
<1>2. CASE a.result = "none"
  BY <1>1, <1>2 DEF CaeVerdict, TrueOfRequest
<1>3. CASE a.result = "R"
  BY <1>1, <1>3 DEF CaeVerdict, TrueOfRequest
<1>4. CASE a.result = "A"
  BY <1>1, <1>4 DEF CaeVerdict, TrueOfRequest
<1>5. CASE a.result = "P"
  BY <1>1, <1>5 DEF CaeVerdict, TrueOfRequest
<1>6. CASE a.result = "other"
  BY <1>1, <1>6 DEF CaeVerdict, TrueOfRequest
<1> QED BY <1>1, <1>2, <1>3, <1>4, <1>5, <1>6

\* A voucher that a query finds is there; one it does not find is not, if
\* anything was answered.
LEMMA QueryVerdicts ==
  ASSUME NEW a \in QueryAnswers, TrueOfQuery(a)
  PROVE  /\ QueryVerdict(a) = "absent" => ~exists \/ (a.codes = {} /\ ~a.found)
         /\ QueryVerdict(a) = "found" => exists
<1>1. a.codes \in SUBSET {"602", "other"} /\ a.found \in BOOLEAN
  BY DEF QueryAnswers
<1>2. CASE "602" \in a.codes
  BY <1>1, <1>2 DEF QueryVerdict, TrueOfQuery
<1>3. CASE a.codes = {"other"}
  BY <1>1, <1>3 DEF QueryVerdict, TrueOfQuery
<1>4. CASE a.codes = {}
  BY <1>1, <1>4 DEF QueryVerdict, TrueOfQuery
<1> QED BY <1>1, <1>2, <1>3, <1>4

-----------------------------------------------------------------------------
LEMMA InitIInv == ExchangeInit => IInv
<1> SUFFICES ASSUME ExchangeInit PROVE IInv
  OBVIOUS
<1>1. answer \in CaeAnswers
  BY DEF ExchangeInit, Empty, CaeAnswers
<1> QED
  BY <1>1 DEF ExchangeInit, IInv, ExchangeTypeOK, OpenInv, RaisedInv, AnswerInv, WrittenOff,
     WrongWriteOffs, CaelessApprovals

\* An exchange that breaks leaves what is known of ARCA as it was.
LEMMA RaiseStep ==
  ASSUME IInv, NEW e, Raise(e), leg \notin {"unsent", "idle"},
         e \in ConnectFailures \cup BrokenTransfers \cup UnusableBodies
               \cup AuthFailures \cup {"Fault"},
         \/ leg \in {"auth", "connecting", "sent"}
         \/ e \in BrokenTransfers \cup UnusableBodies
  PROVE  IInv'
<1>1. RaisedInv'
  <2> SUFFICES ASSUME op = "solicitar", CallVerdict(e) \in {"aborted", "rejected"}, exists
               PROVE  e \in Ambiguous
    BY DEF RaisedInv, Raise
  <2>1. e \in BrokenTransfers \cup UnusableBodies
    BY DEF IInv, OpenInv
  <2> QED BY <2>1, CallVerdicts
<1>2. ExchangeTypeOK'
  BY DEF IInv, ExchangeTypeOK, Raise
<1>3. attempt' \notin {"aborted", "rejected", "authorized"}
  BY DEF IInv, OpenInv, Raise
<1>4. OpenInv' /\ AnswerInv' /\ WrongWriteOffs' /\ CaelessApprovals'
  BY <1>3 DEF IInv, OpenInv, AnswerInv, WrittenOff, WrongWriteOffs, CaelessApprovals, Raise
<1> QED BY <1>1, <1>2, <1>4 DEF IInv

\* The caller ends an exchange: what it commits is true, or is one of the
\* mistakes that are known.
LEMMA SettleStep ==
  ASSUME IInv, NEW state, NEW withCae \in BOOLEAN, Settle(state, withCae),
         state \in {"sent", "authorized", "rejected", "uncertain", "aborted"},
         state \in {"aborted", "rejected"} /\ exists =>
           \/ op = "solicitar" /\ raised \in Ambiguous
           \/ op = "consultar" /\ answer.codes = {} /\ ~answer.found,
         state = "authorized" /\ withCae => exists,
         state = "authorized" /\ ~withCae =>
           \/ op = "solicitar" /\ answer.result = "P"
           \/ op = "consultar" /\ exists
  PROVE  IInv'
<1>1. ExchangeTypeOK' /\ OpenInv' /\ RaisedInv' /\ AnswerInv'
  BY DEF IInv, ExchangeTypeOK, OpenInv, RaisedInv, AnswerInv, Settle
<1>2. WrongWriteOffs'
  BY DEF WrongWriteOffs, WrittenOff, Settle
<1>3. CaelessApprovals'
  BY DEF CaelessApprovals, Settle
<1> QED BY <1>1, <1>2, <1>3 DEF IInv

LEMMA SettleRequestStep == IInv /\ SettleRequest => IInv'
<1> SUFFICES ASSUME IInv, SettleRequest PROVE IInv'
  OBVIOUS
<1>1. CASE leg = "raised" /\ Settle(CallVerdict(raised), FALSE)
  <2>1. CallVerdict(raised) \in {"aborted", "rejected", "uncertain"}
    BY CallVerdicts
  <2>2. CallVerdict(raised) \in {"aborted", "rejected"} /\ exists => raised \in Ambiguous
    BY <1>1 DEF SettleRequest, IInv, RaisedInv
  <2>3. op = "solicitar"
    BY DEF SettleRequest
  <2> QED BY <1>1, <2>1, <2>2, <2>3, SettleStep
<1>2. CASE leg = "answered" /\ Settle(CaeVerdict(answer),
                                      CaeVerdict(answer) = "authorized" /\ answer.cae)
  <2>1. op = "solicitar" /\ answer \in CaeAnswers /\ TrueOfRequest(answer)
    BY <1>2 DEF SettleRequest, IInv, AnswerInv
  <2>2. /\ CaeVerdict(answer) \in {"authorized", "rejected", "uncertain"}
        /\ CaeVerdict(answer) = "rejected" => ~exists
        /\ CaeVerdict(answer) = "authorized" =>
             (answer.cae /\ exists) \/ (~answer.cae /\ answer.result = "P")
    BY <2>1, CaeVerdicts
  <2>3. CASE CaeVerdict(answer) = "authorized" /\ answer.cae
    <3>1. Settle("authorized", TRUE)
      BY <1>2, <2>3, Zenon
    <3>2. exists
      BY <2>2, <2>3
    <3> QED BY <3>1, <3>2, SettleStep
  <2>4. CASE CaeVerdict(answer) = "authorized" /\ ~answer.cae
    <3>1. Settle("authorized", FALSE)
      BY <1>2, <2>4, Zenon
    <3>2. op = "solicitar" /\ answer.result = "P"
      BY <2>1, <2>2, <2>4
    <3> QED BY <3>1, <3>2, SettleStep
  <2>5. CASE CaeVerdict(answer) = "rejected"
    <3>1. Settle("rejected", FALSE)
      BY <1>2, <2>5
    <3> QED BY <2>2, <2>5, <3>1, SettleStep
  <2>6. CASE CaeVerdict(answer) = "uncertain"
    <3>1. Settle("uncertain", FALSE)
      BY <1>2, <2>6
    <3> QED BY <3>1, SettleStep
  <2> QED BY <2>2, <2>3, <2>4, <2>5, <2>6
<1> QED BY <1>1, <1>2 DEF SettleRequest

LEMMA SettleQueryStep == IInv /\ SettleQuery => IInv'
<1> SUFFICES ASSUME IInv, SettleQuery PROVE IInv'
  OBVIOUS
<1>1. /\ attempt \in {"sent", "uncertain"} /\ op = "consultar"
      /\ cae \in BOOLEAN
  BY DEF SettleQuery, IInv, OpenInv, ExchangeTypeOK
<1>2. CASE Settle(attempt, cae)
  BY <1>1, <1>2, SettleStep
<1>3. CASE leg = "answered" /\ ~Settle(attempt, cae)
  <2>1. answer \in QueryAnswers /\ TrueOfQuery(answer)
    BY <1>1, <1>3 DEF IInv, AnswerInv
  <2>2. /\ QueryVerdict(answer) = "absent" => ~exists \/ (answer.codes = {} /\ ~answer.found)
        /\ QueryVerdict(answer) = "found" => exists
    BY <2>1, QueryVerdicts
  <2>3. CASE QueryVerdict(answer) = "absent"
    <3>1. Settle("aborted", FALSE)
      BY <1>3, <2>3 DEF SettleQuery
    <3> QED BY <1>1, <2>2, <2>3, <3>1, SettleStep
  <2>4. CASE QueryVerdict(answer) = "found"
    <3>1. Settle("authorized", answer.cae)
      BY <1>3, <2>4 DEF SettleQuery
    <3>2. answer.cae \in BOOLEAN
      BY <2>1 DEF QueryAnswers
    <3> QED BY <1>1, <2>2, <2>4, <3>1, <3>2, SettleStep
  <2>5. QueryVerdict(answer) \in {"absent", "found"}
    BY <1>3 DEF SettleQuery
  <2> QED BY <2>3, <2>4, <2>5
<1> QED BY <1>2, <1>3 DEF SettleQuery

\* A step that leaves an open attempt open and raises or answers nothing.
LEMMA QuietStep ==
  ASSUME IInv, attempt' \in {"none", "sent", "uncertain"}, ExchangeTypeOK', OpenInv',
         leg' \notin {"raised", "answered"}
  PROVE  IInv'
BY DEF IInv, RaisedInv, AnswerInv, WrittenOff, WrongWriteOffs, CaelessApprovals

LEMMA ClientStep == IInv /\ Client => IInv'
<1> SUFFICES ASSUME IInv, Client PROVE IInv'
  OBVIOUS
<1>1. CASE CannotCall
  BY <1>1, RaiseStep DEF CannotCall, AuthFailures
<1>2. CASE CannotConnect
  BY <1>2, RaiseStep DEF CannotConnect
<1>3. CASE TransferBreaks
  BY <1>3, RaiseStep DEF TransferBreaks
<1>4. CASE UnusableBody
  BY <1>4, RaiseStep DEF UnusableBody
<1>5. CASE Authenticate \/ Transmit
  <2>1. ExchangeTypeOK' /\ OpenInv'
    BY <1>5 DEF Authenticate, Transmit, GoTo, IInv, ExchangeTypeOK, OpenInv
  <2>2. attempt' \in {"sent", "uncertain"} /\ leg' \notin {"raised", "answered"}
    BY <1>5 DEF Authenticate, Transmit, GoTo, IInv, OpenInv
  <2> QED BY <2>1, <2>2, QuietStep
<1>6. CASE Crash
  <2>1. ExchangeTypeOK' /\ OpenInv'
    BY <1>6 DEF Crash, IInv, ExchangeTypeOK, OpenInv
  <2>2. attempt' \in {"sent", "uncertain"} /\ leg' \notin {"raised", "answered"}
    BY <1>6 DEF Crash, IInv, OpenInv
  <2> QED BY <2>1, <2>2, QuietStep
<1>7. CASE StartQuery
  <2>1. Empty \in CaeAnswers
    BY DEF Empty, CaeAnswers
  <2>2. ExchangeTypeOK' /\ OpenInv'
    BY <1>7, <2>1 DEF StartQuery, GoTo, IInv, ExchangeTypeOK, OpenInv
  <2>3. attempt' \in {"sent", "uncertain"} /\ leg' \notin {"raised", "answered"}
    BY <1>7 DEF StartQuery, GoTo
  <2> QED BY <2>2, <2>3, QuietStep
<1> QED BY <1>1, <1>2, <1>3, <1>4, <1>5, <1>6, <1>7, SettleRequestStep, SettleQueryStep
        DEF Client

LEMMA ArcaStep == IInv /\ Arca => IInv'
<1> SUFFICES ASSUME IInv, Arca PROVE IInv'
  OBVIOUS
<1>1. CASE SoapFault
  BY <1>1, RaiseStep DEF SoapFault
<1>2. CASE Act
  <2>1. ExchangeTypeOK' /\ OpenInv'
    BY <1>2 DEF Act, GoTo, IInv, ExchangeTypeOK, OpenInv
  <2>2. attempt' \in {"sent", "uncertain"} /\ leg' \notin {"raised", "answered"}
    BY <1>2 DEF Act, GoTo, IInv, OpenInv
  <2> QED BY <2>1, <2>2, QuietStep
<1>3. ASSUME NEW a \in CaeAnswers \cup QueryAnswers, Says(a), AnswerInv' PROVE IInv'
  BY <1>3 DEF Says, GoTo, IInv, ExchangeTypeOK, OpenInv, RaisedInv, WrittenOff,
     WrongWriteOffs, CaelessApprovals
<1>4. CASE AnswerRequest
  <2>1. PICK a \in CaeAnswers : TrueOfRequest(a) /\ Says(a)
    BY <1>4 DEF AnswerRequest
  <2>2. AnswerInv'
    BY <1>4, <2>1 DEF AnswerRequest, Says, AnswerInv, TrueOfRequest
  <2> QED BY <1>3, <2>1, <2>2
<1>5. CASE AnswerQuery
  <2>1. PICK a \in QueryAnswers : TrueOfQuery(a) /\ Says(a)
    BY <1>5 DEF AnswerQuery
  <2>2. AnswerInv'
    BY <1>5, <2>1 DEF AnswerQuery, Says, AnswerInv, TrueOfQuery
  <2> QED BY <1>3, <2>1, <2>2
<1> QED BY <1>1, <1>2, <1>4, <1>5 DEF Arca

LEMMA NextStep == IInv /\ [ExchangeNext]_exchangeVars => IInv'
<1> SUFFICES ASSUME IInv, [ExchangeNext]_exchangeVars PROVE IInv'
  OBVIOUS
<1>1. CASE Begin
  <2>1. ExchangeTypeOK' /\ OpenInv'
    BY <1>1 DEF Begin, GoTo, IInv, ExchangeTypeOK, OpenInv
  <2>2. attempt' = "sent" /\ leg' = "auth"
    BY <1>1 DEF Begin, GoTo
  <2> QED BY <2>1, <2>2, QuietStep
<1>2. CASE UNCHANGED exchangeVars
  BY <1>2 DEF exchangeVars, IInv, ExchangeTypeOK, OpenInv, RaisedInv, AnswerInv, WrittenOff,
     WrongWriteOffs, CaelessApprovals, TrueOfRequest, TrueOfQuery
<1> QED BY <1>1, <1>2, ClientStep, ArcaStep DEF ExchangeNext, Exchange

\* The inductive invariant of the exchange holds in every reachable state.
THEOREM Invariance == ExchangeSpec => []IInv
BY InitIInv, NextStep, PTL DEF ExchangeSpec

\* Every exchange leaves a state of the attempt the selection field has.
THEOREM TypeCorrect == ExchangeSpec => []ExchangeTypeOK
BY Invariance, PTL DEF IInv

\* A number is freed while ARCA has a voucher with it only by an exception with
\* an ambiguous text or an empty answer: the premise of ArcaProtocol's steps
\* NeverSent, ReceiveRefusal and SettleAbsent, with the two cases it excludes.
THEOREM WriteOffsAreKnown == ExchangeSpec => []WrongWriteOffs
BY Invariance, PTL DEF IInv

\* What is recorded as authorized has the CAE of a voucher ARCA holds, but for a
\* partial approval without one, and a voucher found without one.
THEOREM ApprovalsAreKnown == ExchangeSpec => []CaelessApprovals
BY Invariance, PTL DEF IInv
=============================================================================
