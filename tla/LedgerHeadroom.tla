--------------------------- MODULE LedgerHeadroom ---------------------------
(***************************************************************************)
(* The bytes of pool-state.json (pool-runtime.ts).  A reservation is only  *)
(* written if the file has room for the widest settlement of every open    *)
(* reservation and the widest observations: no settlement should ever be   *)
(* refused for its size (requireResourcePoolSettlementHeadroom).  What the *)
(* transactions decide is in ResourceLedger; here they are the widths of   *)
(* what they write, each written whole under the lock or not at all.       *)
(***************************************************************************)
EXTENDS Naturals

CONSTANTS
  MaxBytes,            \* MAX_STATE_BYTES
  MaxAttempts,         \* MAX_ATTEMPTS
  Base,                \* the bytes of the empty ledger of this pool
  ReservedWidth,       \* of a reserved receipt
  WidestReceipt,       \* of a settled one
  WidestObservations,  \* of the observations of all workers
  AllocationWidths,    \* of the allocation row, once there is one
  AccessWidths         \* of the pauses and the scope exclusions

ASSUME WidthAssumption ==
  /\ {MaxBytes, MaxAttempts, Base, ReservedWidth, WidestReceipt, WidestObservations} \subseteq Nat
  /\ Base <= MaxBytes
  /\ ReservedWidth <= WidestReceipt
  /\ AllocationWidths \subseteq Nat /\ AccessWidths \subseteq Nat

VARIABLES
  running,       \* the reserved receipts whose call will settle them
  stranded,      \* the reserved receipts whose call is over
  settled,       \* the settled receipts
  closed,        \* the bytes of these
  observations,
  allocation,
  access,
  budgeted,      \* history: the allocation row when the headroom was last required
  refused        \* history: the settlements refused for their size

rows == <<running, stranded, settled, closed, observations, allocation, access, budgeted, refused>>

Open == running + stranded

\* What writeState is going to write, and what it must never exceed.
Bytes == Base + observations + allocation + access + closed + Open * ReservedWidth

\* The same with every open receipt, and the observations, at their widest.
Envelope == Base + WidestObservations + allocation + access + closed + Open * WidestReceipt

\* Mutant: writeState refuses the file that is as long as the next load accepts.
WritableShort(bytes) == bytes < MaxBytes

Writable(bytes) == bytes <= MaxBytes

Fits == Writable(Bytes)

Headroom == Envelope <= MaxBytes

EmptyLedger ==
  /\ running = 0 /\ stranded = 0 /\ settled = 0 /\ closed = 0
  /\ observations = 0 /\ allocation = 0 /\ access = 0
  /\ budgeted = 0 /\ refused = 0

-----------------------------------------------------------------------------
\* Mutant: the reservation is written as long as the file as it is fits.
AdmitUnbudgeted(o) ==
  /\ running + stranded + settled < MaxAttempts
  /\ running' = running + 1
  /\ observations' = o
  /\ budgeted' = allocation
  /\ UNCHANGED <<stranded, settled, closed, allocation, access, refused>>
  /\ Fits'

\* The first transaction of runResourceTask, when it reserves.
Admit(o) ==
  /\ running + stranded + settled < MaxAttempts
  /\ running' = running + 1
  /\ observations' = o
  /\ budgeted' = allocation
  /\ UNCHANGED <<stranded, settled, closed, allocation, access, refused>>
  /\ Headroom' /\ Fits'

\* The same when there is nothing to reserve: it saves the observations it merged.
Observe(o) ==
  /\ observations' = o
  /\ UNCHANGED <<running, stranded, settled, closed, allocation, access, budgeted, refused>>
  /\ Fits'

\* The second transaction asks for no headroom.
Settle(w, o) ==
  /\ running > 0
  /\ running' = running - 1
  /\ settled' = settled + 1 /\ closed' = closed + w /\ observations' = o
  /\ UNCHANGED <<stranded, allocation, access, budgeted, refused>>
  /\ Fits'

\* It is refused if the file would not fit: the call ends with the exception and its receipt
\* stays reserved.
RefuseSettlement(w, o) ==
  /\ running > 0
  /\ ~ Writable(Bytes - observations - ReservedWidth + o + w)
  /\ running' = running - 1 /\ stranded' = stranded + 1 /\ refused' = refused + 1
  /\ UNCHANGED <<settled, closed, observations, allocation, access, budgeted>>

\* The process dies, or the settlement is given up for another reason.
Strand ==
  /\ running > 0
  /\ running' = running - 1 /\ stranded' = stranded + 1
  /\ UNCHANGED <<settled, closed, observations, allocation, access, budgeted, refused>>

\* setResourceWorkerAccess and setResourceQuotaScopeAccess.
SetAccess(w) ==
  /\ access' = w /\ budgeted' = allocation
  /\ UNCHANGED <<running, stranded, settled, closed, observations, allocation, refused>>
  /\ Headroom' /\ Fits'

\* setResourcePoolAllocation: it asks for no headroom.
SetAllocation(w) ==
  /\ allocation' = w
  /\ UNCHANGED <<running, stranded, settled, closed, observations, access, budgeted, refused>>
  /\ Fits'

\* The transactions that write the file, and those that do not get to write it.
Saves ==
  \/ \E o \in 0 .. WidestObservations : Admit(o) \/ Observe(o)
  \/ \E o \in 0 .. WidestObservations, w \in 0 .. WidestReceipt : Settle(w, o)
  \/ \E w \in AccessWidths : SetAccess(w)
  \/ \E w \in AllocationWidths : SetAllocation(w)

Refusals == \E o \in 0 .. WidestObservations, w \in 0 .. WidestReceipt : RefuseSettlement(w, o)

LedgerNext == Saves \/ Refusals \/ Strand

LedgerSpec == EmptyLedger /\ [][LedgerNext]_rows

-----------------------------------------------------------------------------
\* Types, and the file is never longer than the next load accepts (writeState, 297).
RowsOK ==
  /\ {running, stranded, settled, closed, observations, allocation, access, budgeted, refused} \subseteq Nat
  /\ observations <= WidestObservations
  /\ running + stranded + settled <= MaxAttempts
  /\ Fits

\* While a receipt is open there is room for the settlement of every open one, whatever was
\* observed and settled in between, but for what the allocation row has grown by since the last
\* reservation or change of the access lists (318-346, 546, 569, 667).
HeadroomKept == Open > 0 => Envelope + budgeted <= MaxBytes + allocation

\* A settlement is refused for its size only if the allocation row has grown since then.
RefusedOnlyForAllocation == [][refused' # refused => allocation > budgeted]_rows
=============================================================================
