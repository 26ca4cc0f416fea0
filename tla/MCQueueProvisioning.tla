------------------------ MODULE MCQueueProvisioning ------------------------
(* Small instances of QueueProvisioning for TLC. *)
EXTENDS QueueProvisioning, TLC

CONSTANT b1

\* Every datastore reads the same bucket.
OneBucket == [d \in Datastores |-> b1]

\* No action or property tells slots, processes, names or rows apart.
ProvisioningSymmetry ==
  UNION {Permutations(S) : S \in {Requests, Processes, QueueNames, RowIds}}
=============================================================================
