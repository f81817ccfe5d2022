--------------------------- MODULE DocumentedRules ---------------------------
(***************************************************************************)
(* A rule that the documents state of invoices and that the handlers of    *)
(* OrderBilling do not keep: its run is expected to find a violation.      *)
(***************************************************************************)
EXTENDS OrderBilling

(* docs/invoice-rules-draft.md:71 - an invoice cannot be finalized when a  *)
(* billable quantity "exceeds uninvoiced remainder".  Every item of the    *)
(* model bills the whole line, so a line may be on one finalized invoice.  *)
NoDoubleBilling ==
    \A i, j \in Invoices :
        /\ invStatus[i] = "finalized"
        /\ invStatus[j] = "finalized"
        /\ items[i] \cap items[j] # {}
        => i = j

=============================================================================
