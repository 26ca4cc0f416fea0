-------------------------- MODULE MCFilespaceLists --------------------------
(* Small instances of FilespaceLists for TLC: two accounts whose filespaces   *)
(* have one name, and a third filespace; data stores share a name, too.       *)
EXTENDS FilespaceLists, TLC

CONSTANTS a1, a2, f1, f2, f3, d1, d2, d3

SomeSymmetry == Permutations(Requests)

SomeSees  == (a1 :> {f1, f2}) @@ (a2 :> {f3})
SomeName  == (f1 :> "main") @@ (f2 :> "other") @@ (f3 :> "main")
SomeHome  == (d1 :> f1) @@ (d2 :> f1) @@ (d3 :> f2)
SomeStore == (d1 :> "media") @@ (d2 :> "raw") @@ (d3 :> "media")
=============================================================================
