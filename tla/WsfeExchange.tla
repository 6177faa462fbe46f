---------------------------- MODULE WsfeExchange ----------------------------
(***************************************************************************)
(* What the answers and the failures of the network are taken for: one     *)
(* FECAESolicitar, from the moment its attempt is committed, and the       *)
(* FECompConsultar queries that settle it.  ArcaProtocol takes for granted *)
(* that "aborted" and "rejected" are said only of a request that left no   *)
(* voucher at ARCA; here it is asked how far that is so, of a network that *)
(* may fail in any way at any stage and an ARCA whose answers are true but *)
(* may lack any part.                                                      *)
(***************************************************************************)
VARIABLES
  attempt,   \* the attempt's state in the database
  cae,       \* whether a CAE is stored with it
  op,        \* the operation under way, or the last one
  leg,       \* how far the exchange has gone
  raised,    \* the exception that ended it
  answer,    \* the answer that ended it
  exists     \* whether ARCA holds a voucher with this number

exchangeVars == <<attempt, cae, op, leg, raised, answer, exists>>

\* Failures of requests before the connection stands, and after.  TLS and a
\* proxy may fail in both.
ConnectFailures == {"ConnectTimeout", "NewConnectionError", "NameResolutionError",
                    "SSLError", "ProxyError"}
BrokenTransfers == {"ReadTimeout", "ConnectionReset", "SSLError", "ProxyError"}
\* A status other than 200, a body that is not XML, XML zeep cannot use.
UnusableBodies  == {"TransportError", "XMLSyntaxError", "XMLParseError"}
\* Raised before anything is sent: no service description, no ticket.
AuthFailures    == {"ArcaAborted", "ArcaBusinessError"}

\* FECAESolicitar's response: a global error list, the voucher's result ("none"
\* without a voucher detail, "other" a code unknown to the module), its CAE.
CaeAnswers ==
  {a \in [errors : BOOLEAN, result : {"A", "P", "R", "other", "none"}, cae : BOOLEAN] :
     a.result = "none" => ~a.cae}

\* FECompConsultar's response: its errors (602: no such voucher), ResultGet, and
\* ResultGet's CodAutorizacion.
QueryAnswers ==
  {a \in [codes : SUBSET {"602", "other"}, found : BOOLEAN, cae : BOOLEAN] :
     a.cae => a.found}

\* No response, or one without anything that is looked for.
Empty == [errors |-> FALSE, result |-> "none", cae |-> FALSE]

ExchangeInit ==
  /\ attempt = "none"
  /\ cae = FALSE
  /\ op = "solicitar"
  /\ leg = "unsent"
  /\ raised = "none"
  /\ answer = Empty
  /\ exists = FALSE

-----------------------------------------------------------------------------
(* The verdicts *)

\* Bug: every timeout taken for a connection that was never made.
BugClassifyTimeouts(e) ==
  IF e \in ConnectFailures \cup {"ReadTimeout"} THEN "aborted" ELSE "uncertain"

\* _classify_transport_exception: a type, or a marker in the exception's text.
ClassifyTransport(e) == IF e \in ConnectFailures THEN "aborted" ELSE "uncertain"

\* Bug: an answer for which the attempt has no state.
BugRefusedState(e) == IF e = "Fault" THEN "refused" ELSE ClassifyTransport(e)

\* _call's except clauses, and the exceptions of _get_client and _get_auth.
CallVerdict(e) ==
  CASE e \in {"Fault", "ArcaBusinessError"}        -> "rejected"
    [] e \in {"TransportError", "XMLSyntaxError"}  -> "uncertain"
    [] e = "ArcaAborted"                           -> "aborted"
    [] OTHER                                       -> ClassifyTransport(e)

\* Bug: an approval is believed without its CAE.
BugApprovedIsEnough(a) ==
  CASE a.result = "R" \/ (a.result = "none" /\ a.errors) -> "rejected"
    [] a.result \in {"A", "P"}                           -> "authorized"
    [] OTHER                                             -> "uncertain"

\* _parse_cae_response.  A partial approval is not asked for its CAE.
CaeVerdict(a) ==
  CASE a.result = "R" \/ (a.result = "none" /\ a.errors) -> "rejected"
    [] a.result = "P" \/ (a.result = "A" /\ a.cae)       -> "authorized"
    [] OTHER                                             -> "uncertain"

\* fe_comp_consultar: None (absent), the voucher, or an exception.
QueryVerdict(a) ==
  CASE "602" \in a.codes   -> "absent"
    [] a.codes = {"other"} -> "error"
    [] OTHER               -> IF a.found THEN "found" ELSE "absent"

-----------------------------------------------------------------------------
(* The client's side of the exchange *)

GoTo(from, to) == leg = from /\ leg' = to

\* The attempt is created, committed, and the request about to be sent.
Begin ==
  /\ GoTo("unsent", "auth")
  /\ attempt' = "sent"
  /\ UNCHANGED <<cae, op, raised, answer, exists>>

\* The exchange ends with exception e.
Raise(e) ==
  /\ leg' = "raised"
  /\ raised' = e
  /\ UNCHANGED <<attempt, cae, op, answer, exists>>

\* _get_client and _get_auth
CannotCall == leg = "auth" /\ \E e \in AuthFailures : Raise(e)

Authenticate ==
  GoTo("auth", "connecting") /\ UNCHANGED <<attempt, cae, op, raised, answer, exists>>

CannotConnect == leg = "connecting" /\ \E e \in ConnectFailures : Raise(e)

Transmit ==
  GoTo("connecting", "sent") /\ UNCHANGED <<attempt, cae, op, raised, answer, exists>>

\* The connection dies after some of the request was written to it.  ARCA acts on
\* the request before that or never.
TransferBreaks ==
  /\ leg \in {"connecting", "sent", "acted"}
  /\ \E e \in BrokenTransfers : Raise(e)

UnusableBody ==
  /\ leg \in {"sent", "acted"}
  /\ \E e \in UnusableBodies : Raise(e)

\* The process dies; only what is committed remains.
Crash ==
  /\ leg \notin {"unsent", "idle"}
  /\ leg' = "idle"
  /\ UNCHANGED <<attempt, cae, op, raised, answer, exists>>

\* What the caller commits about the attempt when the exchange has ended.
Settle(state, withCae) ==
  /\ attempt' = state
  /\ cae' = withCae
  /\ leg' = "idle"
  /\ UNCHANGED <<op, raised, answer, exists>>

\* _l10n_ar_arca_authorize's except clauses and _mark_authorized
SettleRequest ==
  /\ op = "solicitar"
  /\ \/ leg = "raised" /\ Settle(CallVerdict(raised), FALSE)
     \/ leg = "answered" /\ Settle(CaeVerdict(answer),
                                     CaeVerdict(answer) = "authorized" /\ answer.cae)

\* _reconcile: an exception leaves the attempt as it is.
SettleQuery ==
  /\ op = "consultar"
  /\ \/ leg = "raised" /\ Settle(attempt, cae)
     \/ /\ leg = "answered"
        /\ CASE QueryVerdict(answer) = "absent" -> Settle("aborted", FALSE)
             [] QueryVerdict(answer) = "found"  -> Settle("authorized", answer.cae)
             [] OTHER                           -> Settle(attempt, cae)

\* _reconcile of an attempt that is still open
StartQuery ==
  /\ GoTo("idle", "auth")
  /\ attempt \in {"sent", "uncertain"}
  /\ op' = "consultar"
  /\ raised' = "none"
  /\ answer' = Empty
  /\ UNCHANGED <<attempt, cae, exists>>

-----------------------------------------------------------------------------
(* ARCA (external) *)

\* The envelope is refused before the operation runs.
SoapFault == leg = "sent" /\ Raise("Fault")

\* The voucher is authorized, refused, or looked up.
Act ==
  /\ GoTo("sent", "acted")
  /\ IF op = "solicitar" THEN exists' \in BOOLEAN ELSE UNCHANGED exists
  /\ UNCHANGED <<attempt, cae, op, raised, answer>>

\* What ARCA says is true of the voucher, and may be poorer than it should: a
\* voucher without its CAE, no detail, no errors, or nothing at all.
TrueOfRequest(a) ==
  /\ a.cae \/ (a.result = "A" /\ ~a.errors) => exists
  /\ a.result = "R" \/ (a.result = "none" /\ a.errors) => ~exists
TrueOfQuery(a) ==
  /\ a.found => exists
  /\ "602" \in a.codes => ~exists

Says(a) ==
  /\ GoTo("acted", "answered")
  /\ answer' = a
  /\ UNCHANGED <<attempt, cae, op, raised, exists>>

AnswerRequest == op = "solicitar" /\ \E a \in CaeAnswers : TrueOfRequest(a) /\ Says(a)
AnswerQuery   == op = "consultar" /\ \E a \in QueryAnswers : TrueOfQuery(a) /\ Says(a)

-----------------------------------------------------------------------------
Client ==
  \/ CannotCall \/ Authenticate \/ CannotConnect \/ Transmit
  \/ TransferBreaks \/ UnusableBody \/ Crash
  \/ SettleRequest \/ SettleQuery \/ StartQuery

Arca == SoapFault \/ Act \/ AnswerRequest \/ AnswerQuery

Exchange == Client \/ Arca

ExchangeNext == Begin \/ Exchange
ExchangeSpec == ExchangeInit /\ [][ExchangeNext]_exchangeVars

-----------------------------------------------------------------------------
(* Properties *)

ExchangeTypeOK ==
  /\ attempt \in {"none", "sent", "authorized", "rejected", "uncertain", "aborted"}
  /\ cae \in BOOLEAN
  /\ op \in {"solicitar", "consultar"}
  /\ leg \in {"unsent", "auth", "connecting", "sent", "acted", "raised", "answered", "idle"}
  /\ raised \in ConnectFailures \cup BrokenTransfers \cup UnusableBodies
                \cup AuthFailures \cup {"Fault", "none"}
  /\ answer \in CaeAnswers \cup QueryAnswers
  /\ exists \in BOOLEAN

WrittenOff == attempt \in {"aborted", "rejected"}

\* Texts that stand for a connection never made, and occur in one that was.
Ambiguous == ConnectFailures \cap BrokenTransfers

\* A request of which ARCA holds a voucher is written off, and its number freed
\* for another, in two ways only: by an exception that is known by its text and
\* came after the request had left, or by a query that was answered with
\* nothing.  No other failure, refusal or answer, at any stage, misleads the
\* code, and a query never misleads it by failing.
WrongWriteOffs ==
  WrittenOff /\ exists =>
    \/ op = "solicitar" /\ raised \in Ambiguous
    \/ op = "consultar" /\ answer.codes = {} /\ ~answer.found

\* An attempt says authorized without the CAE of a voucher ARCA holds in two
\* ways only: ARCA answered "P" without a CAE, when there may be no voucher, or
\* a query found the voucher and was not told its CAE.
CaelessApprovals ==
  attempt = "authorized" /\ ~(exists /\ cae) =>
    /\ ~cae
    /\ \/ op = "solicitar" /\ answer.result = "P"
       \/ op = "consultar" /\ exists

-----------------------------------------------------------------------------
(* What the repository says and the code does not do *)

\* "Anything that is not provably a connection-stage failure is treated as
\* uncertain": no request of which ARCA holds a voucher is written off.
RetryIsSafe == WrittenOff => ~exists
=============================================================================
