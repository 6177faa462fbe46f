--------------------------- MODULE MCAuthorization ---------------------------
(* A small instance of Authorization for TLC: the one of MCInvoiceRequest. *)
EXTENDS Authorization, MCInvoiceRequest
=============================================================================
