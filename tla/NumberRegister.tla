--------------------------- MODULE NumberRegister ---------------------------
(***************************************************************************)
(* The official numbers of one year as the requests of InvoiceRequests     *)
(* leave them, however they overlap: a register that gives out 1, 2, 3 ... *)
(*                                                                         *)
(* A committed request enters its invoices all at once, and every number   *)
(* it took stands in the register from then on: an aborted or crashed      *)
(* request costs no number, and none is ever given a second time.  Unlike  *)
(* in InvoiceLedger an invoice may be issued while it already has a number *)
(* and get another one: two requests may both find it without.             *)
(***************************************************************************)
EXTENDS Naturals, FiniteSets, Functions

CONSTANT Invoices

VARIABLES
    number,     \* the official number of each invoice, 0 for none
    finalized,  \* the finalized invoices
    next        \* the number the next invoice gets

registerVars == <<number, finalized, next>>

Init ==
    \E numbered \in SUBSET Invoices :
      /\ \E first \in Bijection(numbered, 1 .. Cardinality(numbered)) :
           number = [i \in Invoices |-> IF i \in numbered THEN first[i] ELSE 0]
      /\ finalized \in SUBSET numbered
      /\ next = Cardinality(numbered) + 1

(* The invoices S are finalized: those of fresh get the next numbers, in   *)
(* some order, and the others keep the one they have.                      *)
Issue(S, fresh) ==
    /\ fresh \subseteq S
    /\ \A i \in S \ fresh : number[i] # 0
    /\ \E new \in Injection(fresh, next .. next + Cardinality(fresh) - 1) :
         number' = [i \in Invoices |-> IF i \in fresh THEN new[i] ELSE number[i]]
    /\ next' = next + Cardinality(fresh)
    /\ finalized' = finalized \cup S

(* Invoices are reset to drafts and keep their numbers.                    *)
Reopen(S) ==
    /\ finalized' = finalized \ S
    /\ UNCHANGED <<number, next>>

Next == \E S \in SUBSET Invoices : Reopen(S) \/ \E fresh \in SUBSET S : Issue(S, fresh)

Spec == Init /\ [][Next]_registerVars

=============================================================================
