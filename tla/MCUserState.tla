---------------------------- MODULE MCUserState ----------------------------
(* Small instances of UserState for TLC. *)
EXTENDS UserState, TLC

\* No action or property tells slots, contents of forms, or datastores apart.
StateSymmetry ==
  UNION {Permutations(S) : S \in {Requests, Records, Datastores, Tokens, Hosts}}
=============================================================================
