----------------------------- MODULE IngestOnce -----------------------------
(***************************************************************************)
(* What the import pipeline promises about LucidLink, whatever is          *)
(* redelivered, crashes or races: the objects of a job are enumerated once *)
(* and each of them is handed to the filespace at most once, by one run.   *)
(* ImportJobs implements this specification.                               *)
(***************************************************************************)
EXTENDS Naturals

CONSTANTS
  JobIds,     \* ids an import_jobs row can have
  MaxFiles,   \* most objects one S3 prefix holds
  BatchSize   \* import_file calls in flight at once

VARIABLES
  phase,      \* phase[j]: the job's only run has not begun, is active, is over
  listed,     \* listed[j]: objects its run has enumerated
  sent        \* sent[j]: import_file calls made for it

abstractVars == <<phase, listed, sent>>

AInit ==
  /\ phase  = [j \in JobIds |-> "idle"]
  /\ listed = [j \in JobIds |-> 0]
  /\ sent   = [j \in JobIds |-> 0]

Begin(j) ==
  /\ phase[j] = "idle"
  /\ phase' = [phase EXCEPT ![j] = "active"]
  /\ UNCHANGED <<listed, sent>>

Enumerate(j, n) ==
  /\ phase[j] = "active"
  /\ listed[j] = 0
  /\ listed' = [listed EXCEPT ![j] = n]
  /\ UNCHANGED <<phase, sent>>

Ingest(j, n) ==
  /\ phase[j] = "active"
  /\ sent[j] + n <= listed[j]
  /\ sent' = [sent EXCEPT ![j] = sent[j] + n]
  /\ UNCHANGED <<phase, listed>>

\* The last batch may be cut short by the death of the run.
End(j, n) ==
  /\ phase[j] = "active"
  /\ sent[j] + n <= listed[j]
  /\ sent'  = [sent EXCEPT ![j] = sent[j] + n]
  /\ phase' = [phase EXCEPT ![j] = "over"]
  /\ UNCHANGED listed

ANext ==
  \E j \in JobIds :
    \/ Begin(j)
    \/ \E n \in 1..MaxFiles  : Enumerate(j, n)
    \/ \E n \in 1..BatchSize : Ingest(j, n)
    \/ \E n \in 0..BatchSize : End(j, n)

ASpec == AInit /\ [][ANext]_abstractVars
=============================================================================
