---------------------------- MODULE InvoiceLedger ----------------------------
(***************************************************************************)
(* What the invoicing side of the order system promises about one invoice  *)
(* and its official number, with orders, lines and amounts left out.       *)
(*                                                                         *)
(* An invoice is drafted, issued (finalized and locked), may be released   *)
(* (unlocked) and may be revoked (reset to draft) and issued again.  The   *)
(* first issue takes the next number of the invoice's year; a later issue  *)
(* keeps the number the invoice already has.                               *)
(***************************************************************************)
EXTENDS Naturals

CONSTANTS
    Invoices,   \* the invoice rows that may come to exist
    Years,      \* the calendar years of the invoice dates
    YearOf      \* the year of each invoice's invoice_date

VARIABLES
    phase,      \* of each invoice: absent, draft, issued or released
    number,     \* the official number of each invoice, 0 for none
    issued      \* how many official numbers each year has given out

ledgerVars == <<phase, number, issued>>

Init ==
    /\ phase = [i \in Invoices |-> "absent"]
    /\ number = [i \in Invoices |-> 0]
    /\ issued = [y \in Years |-> 0]

(* A draft is opened; it has no official number yet. *)
Open(i) ==
    /\ phase[i] = "absent"
    /\ phase' = [phase EXCEPT ![i] = "draft"]
    /\ UNCHANGED <<number, issued>>

(* The first issue of an invoice takes the next number of its year. *)
IssueFirst(i) ==
    /\ phase[i] = "draft" /\ number[i] = 0
    /\ phase' = [phase EXCEPT ![i] = "issued"]
    /\ issued' = [issued EXCEPT ![YearOf[i]] = @ + 1]
    /\ number' = [number EXCEPT ![i] = issued[YearOf[i]] + 1]

(* A revoked invoice is issued again under the number it has. *)
IssueAgain(i) ==
    /\ phase[i] = "draft" /\ number[i] # 0
    /\ phase' = [phase EXCEPT ![i] = "issued"]
    /\ UNCHANGED <<number, issued>>

Release(i) ==
    /\ phase[i] = "issued"
    /\ phase' = [phase EXCEPT ![i] = "released"]
    /\ UNCHANGED <<number, issued>>

Revoke(i) ==
    /\ phase[i] \in {"issued", "released"}
    /\ phase' = [phase EXCEPT ![i] = "draft"]
    /\ UNCHANGED <<number, issued>>

Next ==
    \E i \in Invoices :
        \/ Open(i)
        \/ IssueFirst(i)
        \/ IssueAgain(i)
        \/ Release(i)
        \/ Revoke(i)

Spec == Init /\ [][Next]_ledgerVars

=============================================================================
