----------------------------- MODULE TaskLedger -----------------------------
(***************************************************************************)
(* What a resource ledger promises to the programs that run tasks through  *)
(* it, without how a worker is chosen: a task id gets one receipt, the     *)
(* receipt is durable before a worker is invoked, it is settled once, and  *)
(* the worker is invoked at most once.  runResourceTask of pool-runtime.ts *)
(* (ResourceLedger) implements it; pool-supervisor.ts (PoolSupervisor)     *)
(* uses it.                                                                *)
(***************************************************************************)
CONSTANTS
  Tasks,      \* task identities
  Contents    \* what a task asks for: its canonical digest

VARIABLES
  receipts,   \* a function from the task ids recorded so far
  invoked     \* the tasks a worker was invoked for

Terminal == {"completed", "failed", "timed-out", "cancelled"}
Settlements == Terminal \cup {"uncertain"}

Empty == receipts = [t \in {} |-> "reserved"] /\ invoked = {}

Receipt(t, content, status) ==
  [x \in DOMAIN receipts \cup {t} |->
     IF x = t THEN [content |-> content, status |-> status] ELSE receipts[x]]

ReserveReceipt(t, content) ==
  /\ t \notin DOMAIN receipts
  /\ receipts' = Receipt(t, content, "reserved")
  /\ UNCHANGED invoked

Invoke(t) ==
  /\ t \in DOMAIN receipts
  /\ receipts[t].status = "reserved"
  /\ t \notin invoked
  /\ invoked' = invoked \cup {t}
  /\ UNCHANGED receipts

\* A task no worker was invoked for can only settle as failed: the host refused it.
Settle(t, status) ==
  /\ t \in DOMAIN receipts
  /\ receipts[t].status = "reserved"
  /\ t \in invoked \/ status = "failed"
  /\ receipts' = Receipt(t, receipts[t].content, status)
  /\ UNCHANGED invoked

Step == \E t \in Tasks : \/ \E content \in Contents : ReserveReceipt(t, content)
                         \/ Invoke(t)
                         \/ \E status \in Settlements : Settle(t, status)

Lifecycle == Empty /\ [][Step]_<<receipts, invoked>>
=============================================================================
