---------------------------- MODULE MCMasterData ----------------------------
(***************************************************************************)
(* Finite instances of MasterData for TLC.                                 *)
(***************************************************************************)
EXTENDS MasterData, TLC

CONSTANTS p1, p2, p3, s1, u1, k1, n1, n2, c1, c2

ThreeTables == p1 :> "products" @@ p2 :> "products" @@ p3 :> "products"
               @@ s1 :> "suppliers" @@ u1 :> "customers"

Old(code, key) == [code |-> code, key |-> key, name |-> n1, active |-> TRUE]

(* No rows; rows of every table, some of them referred to; and rows with a *)
(* gap below their codes.                                                  *)
ThreeStarts ==
    {[row |-> <<>>, mapping |-> <<>>, used |-> {}],
     [row |-> p1 :> Old(1, k1) @@ p2 :> Old(2, Null) @@ s1 :> Old(1, k1) @@ u1 :> Old(1, Null),
      mapping |-> <<s1, p1>> :> 1, used |-> {p2, u1}],
     [row |-> p1 :> Old(2, Null) @@ s1 :> Old(2, Null) @@ u1 :> Old(1, k1),
      mapping |-> <<>>, used |-> {}]}

Item(key, code, id, name) == [key |-> key, code |-> code, id |-> id, name |-> name]
Import(key, name) == Item(key, Null, Null, name)
Batch(kind, table, items) == [kind |-> kind, table |-> table, items |-> items]

(* Two imports that update and create in opposite orders, one that names a *)
(* key twice, one with a row that lacks its name, and bulk requests that   *)
(* spell a code differently, name rows that are there, ask for a null or   *)
(* name one code twice.                                                    *)
SomeBatches ==
    {Batch("import", "products", <<Import(k1, n2), Import(Null, n1)>>),
     Batch("import", "products", <<Import(Null, n1), Import(k1, n2)>>),
     Batch("import", "suppliers", <<Import(k1, n1), Import(k1, n2)>>),
     Batch("import", "customers", <<Import(k1, LeftOut)>>),
     Batch("bulk_create", "products", <<Item(Null, -1, Null, n1), Item(Null, 2, Null, n1)>>),
     Batch("bulk_update", "products", <<Item(Null, Null, p1, n2), Item(Null, Null, p2, n2)>>),
     Batch("bulk_update", "products", <<Item(Null, Null, p1, Null)>>),
     Batch("bulk_upsert", "products", <<Item(Null, 2, Null, n2), Item(Null, 2, Null, n1)>>)}

ClientSymmetry == Permutations(Clients)
=============================================================================
