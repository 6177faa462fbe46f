---------------------------- MODULE Authorization ----------------------------
(***************************************************************************)
(* One _l10n_ar_arca_authorize from end to end, alone in its sequence: the *)
(* request is built, which may refuse the invoice; then, and only then,    *)
(* its attempt is committed and the request sent, which may end in any     *)
(* way.  InvoiceRequest has the first half and WsfeExchange the second;    *)
(* ArcaProtocol has what others do meanwhile.                              *)
(***************************************************************************)
EXTENDS InvoiceRequest, WsfeExchange

authorizeVars == <<vars, exchangeVars>>

AuthorizeInit == Init /\ ExchangeInit

\* _l10n_ar_arca_prepare_request
Prepare == leg = "unsent" /\ Build /\ UNCHANGED exchangeVars

\* The attempt is committed with what was built, which is handed to WSFE: no
\* later step looks into it.
Send ==
  /\ Built
  /\ Begin
  /\ stage' = "type"
  /\ request' = Blank
  /\ lines' = <<>>

\* fe_cae_solicitar, and the queries that settle what it leaves open.
Conclude == Exchange /\ UNCHANGED vars

AuthorizeNext == Prepare \/ Send \/ Conclude
AuthorizeSpec == AuthorizeInit /\ [][AuthorizeNext]_authorizeVars
=============================================================================
