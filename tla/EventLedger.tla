---------------------------- MODULE EventLedger ----------------------------
(***************************************************************************)
(* What the SQS poller promises about sqs_events, whatever is redelivered, *)
(* crashes or overlaps: an event's row is written before anything is done  *)
(* for it, goes from pending to processing to one verdict and no further,  *)
(* says completed or skipped only of an object that is in the filespace,   *)
(* and a message goes only when its events are recorded.  There are no     *)
(* sweeps and no lock here.  SqsPoller implements this specification.      *)
(***************************************************************************)
EXTENDS Naturals, Sequences

CONSTANTS
  Messages,   \* MessageIds
  Keys,       \* object keys
  Records     \* Records[m]: the keys of its ObjectCreated events, in order

VARIABLES
  ledger,     \* per event, the statuses of its rows
  linked,     \* objects in the filespace
  gone        \* messages deleted from their queue

ledgerVars == <<ledger, linked, gone>>

LedgerInit ==
  /\ ledger = [e \in Messages \X Keys |-> <<>>]
  /\ linked = {}
  /\ gone   = {}

\* A row is appended: an event to be worked on, or the failure to record one.
Record(e, status) ==
  /\ status \in {"pending", "failed"}
  /\ ledger' = [ledger EXCEPT ![e] = Append(ledger[e], status)]
  /\ UNCHANGED <<linked, gone>>

Mark(e, i, status) == ledger' = [ledger EXCEPT ![e] = [ledger[e] EXCEPT ![i] = status]]

Start(e, i) ==
  /\ ledger[e][i] = "pending"
  /\ Mark(e, i, "processing")
  /\ UNCHANGED <<linked, gone>>

\* Objects are linked for rows that say so; the row may be removed meanwhile.
Link(e, i) ==
  /\ ledger[e][i] \in {"processing", "removed"}
  /\ linked' = linked \cup {e[2]}
  /\ UNCHANGED <<ledger, gone>>

Succeed(e, i, verdict) ==
  /\ ledger[e][i] = "processing"
  /\ verdict \in {"completed", "skipped"}
  /\ e[2] \in linked
  /\ Mark(e, i, verdict)
  /\ UNCHANGED <<linked, gone>>

GiveUp(e, i) ==
  /\ ledger[e][i] \in {"pending", "processing"}
  /\ Mark(e, i, "failed")
  /\ UNCHANGED <<linked, gone>>

\* All rows of some events, by users and by the clean-up.
Remove(E) ==
  /\ ledger' = [e \in Messages \X Keys |->
                  IF e \in E THEN [i \in DOMAIN ledger[e] |-> "removed"] ELSE ledger[e]]
  /\ UNCHANGED <<linked, gone>>

DropMessage(m) ==
  /\ \A i \in DOMAIN Records[m] : ledger[<<m, Records[m][i]>>] # <<>>
  /\ gone' = gone \cup {m}
  /\ UNCHANGED <<ledger, linked>>

OnRow(e, i) ==
  \/ Start(e, i) \/ Link(e, i) \/ GiveUp(e, i)
  \/ \E verdict \in {"completed", "skipped"} : Succeed(e, i, verdict)

LedgerNext ==
  \/ \E e \in Messages \X Keys :
       \/ \E status \in {"pending", "failed"} : Record(e, status)
       \/ \E i \in DOMAIN ledger[e] : OnRow(e, i)
  \/ \E E \in SUBSET (Messages \X Keys) : Remove(E)
  \/ \E m \in Messages : DropMessage(m)

LedgerSpec == LedgerInit /\ [][LedgerNext]_ledgerVars
=============================================================================
