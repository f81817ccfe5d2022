-------------------------- MODULE MCInvoiceRequests --------------------------
(***************************************************************************)
(* Finite instances of InvoiceRequests for TLC.                            *)
(***************************************************************************)
EXTENDS InvoiceRequests, TLC

CONSTANTS i1, i2, l1, l2, c1, c2

(* Two invoices with one line each, and one invoice with one line.          *)
OneLineEach == (i1 :> {l1}) @@ (i2 :> {l2})
OneLine == (i1 :> {l1})

Request(op, invoices) == [op |-> op, invoices |-> invoices]

Singles == {Request(op, <<i>>) : op \in {"finalize", "reset", "unlock"}, i \in Invoices}

Batches == {Request("finalize_batch", <<i1, i2>>), Request("finalize_batch", <<i2, i1>>)}

SinglesAndBatches == Singles \cup Batches

Finalizes == {Request("finalize", <<i>>) : i \in Invoices}

(* While one request runs, the other client sends two. *)
OneAndTwo == (c1 :> 1) @@ (c2 :> 2)
OneEach == (c1 :> 1) @@ (c2 :> 1)
=============================================================================
