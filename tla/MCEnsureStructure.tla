------------------------- MODULE MCEnsureStructure -------------------------
(* Small instances of EnsureStructure for TLC: three keys, two of which share *)
(* a folder.  Both folders have one name, so that a mistaken parent shows.    *)
EXTENDS EnsureStructure, SequencesExt

SomePaths == {<<"a">>, <<"a", "a">>}
SomeKeys  == {"x", "a/x", "a/a/x"}
Depth     == [k \in SomeKeys |-> CASE k = "x" -> 0 [] k = "a/x" -> 1 [] OTHER -> 2]

SomeWays   == [k \in SomeKeys |-> [i \in 1..Depth[k] |-> [j \in 1..i |-> "a"]]]
SomeAbove  == [p \in SomePaths |-> IF Len(p) = 1 THEN Root ELSE Front(p)]
SomeNames  == {"a"}
SomeNameOf == [p \in SomePaths |-> Last(p)]
=============================================================================
