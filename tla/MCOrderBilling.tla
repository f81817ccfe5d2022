--------------------------- MODULE MCOrderBilling ---------------------------
(***************************************************************************)
(* Finite instances of OrderBilling and DocumentedRules for TLC.           *)
(***************************************************************************)
EXTENDS DocumentedRules, TLC

CONSTANTS o1, o2, l1, l2, i1, i2, i3

(* One line of one order, two lines of one, one line of each of two. *)
OneLine == l1 :> o1
OneOrder == (l1 :> o1) @@ (l2 :> o1)
TwoOrders == (l1 :> o1) @@ (l2 :> o2)

(* All invoices in one year, and two of three in the second year. *)
OneYear == [i \in Invoices |-> 2026]
TwoYears == (i1 :> 2025) @@ (i2 :> 2026) @@ (i3 :> 2026)

(* The two orders with their lines, and the invoices of one year. *)
TwoOrdersSymmetry ==
    Permutations({i2, i3})
    \cup {f \in Permutations(Orders \cup Lines) :
            \A l \in Lines : f[l] \in Lines /\ OrderOf[f[l]] = f[OrderOf[l]]}
OneOrderSymmetry == Permutations(Lines) \cup Permutations(Invoices)
=============================================================================
