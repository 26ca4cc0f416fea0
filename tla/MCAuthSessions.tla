--------------------------- MODULE MCAuthSessions ---------------------------
(* Small instances of AuthSessions for TLC. *)
EXTENDS AuthSessions, TLC

\* Passwords, ids, slots and processes are interchangeable; addresses are not.
AuthSymmetry ==
  UNION {Permutations(S) : S \in {Processes, Requests, UserIds, SessionIds, Passwords}}
=============================================================================
