-------------------------- MODULE MCInvoiceRequest --------------------------
(* A small instance of InvoiceRequest for TLC. *)
EXTENDS InvoiceRequest, TLC

\* Two lines of one aliquot, two aliquots, and "exempt" where it may not be.
MCVatLines ==
  LET line(i, b, a) == [id |-> i, base |-> b, amount |-> a] IN
  { <<>>, <<line(5, 10000, 2100)>>,
    <<line(5, 10000, 2100), line(5, 5000, 1050)>>,
    <<line(5, 10000, 2100), line(4, 10000, 1050)>>,
    <<line(2, 10000, 0)>> }

\* l10n_ar adds its lines up.
MCVat == { [lines |-> ls, base |-> Total(ls, Ids(ls), "base"),
            amount |-> Total(ls, Ids(ls), "amount")] : ls \in MCVatLines }

\* Around one cent, and around 0.01 per cent of the totals.
MCDifferences == {-3, -1, 0, 1, 2, 3}
=============================================================================
