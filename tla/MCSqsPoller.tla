---------------------------- MODULE MCSqsPoller ----------------------------
(* Small instances of SqsPoller for TLC: which queue a message goes to and the *)
(* events it carries.                                                          *)
EXTENDS SqsPoller, TLC

CONSTANTS q1, k1, k2, m1

\* Every message goes to the first queue.
OneHome     == [m \in Messages |-> q1]

\* An object created again in the same message.
Repetition  == [m \in Messages |-> <<k1, k1>>]

\* Two objects in one message, the first of them in the others too.
TwoObjects  == [m \in Messages |-> IF m = m1 THEN <<k1, k2>> ELSE <<k1>>]

\* No action or property tells sweeps apart.
SweepSymmetry == Permutations(Sweeps)
=============================================================================
