------------------------ MODULE LedgerHeadroomProofs ------------------------
(***************************************************************************)
(* Proofs about LedgerHeadroom, for all widths and limits, and about        *)
(* PoolFile, where its transactions are those of several processes.        *)
(***************************************************************************)
EXTENDS PoolFile, TLAPS

HeadroomInv == RowsOK /\ HeadroomKept

\* One more, or one less, of something of a width.
LEMMA OneMore ==
  ASSUME NEW n \in Nat, NEW w \in Nat
  PROVE  /\ (n + 1) * w = n * w + w
         /\ n > 0 => n * w = (n - 1) * w + w /\ (n - 1) * w \in Nat
         /\ n * w \in Nat
  OBVIOUS

\* As many of something wider are wider.
LEMMA Wider ==
  ASSUME NEW n \in Nat, NEW v \in Nat, NEW w \in Nat, v <= w
  PROVE  n * v <= n * w
  OBVIOUS

\* What the widths are.
LEMMA Widths ==
  ASSUME RowsOK
  PROVE  /\ running \in Nat /\ stranded \in Nat /\ settled \in Nat /\ closed \in Nat
         /\ observations \in Nat /\ allocation \in Nat /\ access \in Nat
         /\ budgeted \in Nat /\ refused \in Nat
         /\ MaxBytes \in Nat /\ MaxAttempts \in Nat /\ Base \in Nat /\ ReservedWidth \in Nat
         /\ WidestReceipt \in Nat /\ WidestObservations \in Nat
         /\ Open \in Nat /\ Open * ReservedWidth \in Nat /\ Open * WidestReceipt \in Nat
<1>1. Open \in Nat
  BY DEF RowsOK, Open
<1> QED  BY <1>1, OneMore, WidthAssumption DEF RowsOK

\* At first nothing is open and the file is the empty ledger.
LEMMA InitHeadroom == EmptyLedger => HeadroomInv
<1> SUFFICES ASSUME EmptyLedger PROVE HeadroomInv  OBVIOUS
<1>1. Open = 0 /\ Open * ReservedWidth = 0
  BY WidthAssumption DEF EmptyLedger, Open
<1>2. Bytes = Base
  BY <1>1, WidthAssumption DEF EmptyLedger, Bytes
<1> QED  BY <1>1, <1>2, WidthAssumption DEF EmptyLedger, HeadroomInv, RowsOK, HeadroomKept, Fits, Writable

\* What a settlement finds: the file without the receipt, and the file with it settled.
LEMMA SettlementRoom ==
  ASSUME RowsOK, running > 0
  PROVE  /\ Open - 1 \in Nat
         /\ Open * ReservedWidth = (Open - 1) * ReservedWidth + ReservedWidth
         /\ Open * WidestReceipt = (Open - 1) * WidestReceipt + WidestReceipt
         /\ (Open - 1) * ReservedWidth \in Nat /\ (Open - 1) * WidestReceipt \in Nat
         /\ (Open - 1) * ReservedWidth <= (Open - 1) * WidestReceipt
         /\ Bytes - observations - ReservedWidth
              = Base + allocation + access + closed + (Open - 1) * ReservedWidth
         /\ Envelope = Base + WidestObservations + allocation + access + closed
                        + (Open - 1) * WidestReceipt + WidestReceipt
<1>1. Open \in Nat /\ Open > 0
  BY Widths DEF Open
<1>2. Open - 1 \in Nat
  BY <1>1
<1>3. /\ Open * ReservedWidth = (Open - 1) * ReservedWidth + ReservedWidth
      /\ Open * WidestReceipt = (Open - 1) * WidestReceipt + WidestReceipt
      /\ (Open - 1) * ReservedWidth \in Nat /\ (Open - 1) * WidestReceipt \in Nat
  BY <1>1, OneMore, WidthAssumption
<1>4. (Open - 1) * ReservedWidth <= (Open - 1) * WidestReceipt
  BY <1>2, Wider, WidthAssumption
<1> HIDE DEF Open
<1> QED  BY <1>2, <1>3, <1>4, Widths DEF Bytes, Envelope

\* A settlement that is written takes no more than the room of its receipt.
LEMMA SettlementWrites ==
  ASSUME HeadroomInv, NEW o \in 0 .. WidestObservations, NEW w \in 0 .. WidestReceipt, Settle(w, o)
  PROVE  HeadroomInv' /\ refused' = refused
<1>0. RowsOK /\ HeadroomKept /\ running > 0
  BY DEF HeadroomInv, Settle
<1>1. o \in Nat /\ w \in Nat /\ o <= WidestObservations /\ w <= WidestReceipt
  BY WidthAssumption
<1>2. Open > 0 /\ Envelope + budgeted <= MaxBytes + allocation
  BY <1>0, Widths DEF HeadroomKept, Open
<1>3. /\ running' = running - 1 /\ settled' = settled + 1 /\ closed' = closed + w
      /\ observations' = o
      /\ UNCHANGED <<stranded, refused, allocation, access, budgeted>>
      /\ Fits'
  BY DEF Settle
<1>4. Open' = Open - 1
  BY <1>0, <1>3, Widths DEF Open
<1>5. RowsOK'
  BY <1>0, <1>1, <1>3, Widths DEF RowsOK
<1>6. Envelope' = Base + WidestObservations + allocation + access + (closed + w) + (Open - 1) * WidestReceipt
  BY <1>3, <1>4 DEF Envelope
<1>7. Envelope' <= Envelope
  BY <1>0, <1>1, <1>6, SettlementRoom, Widths
<1>8. Envelope' \in Nat /\ Envelope \in Nat
  BY <1>0, <1>1, <1>6, SettlementRoom, Widths
<1>9. HeadroomKept'
  BY <1>0, <1>2, <1>3, <1>7, <1>8, Widths DEF HeadroomKept
<1> QED  BY <1>3, <1>5, <1>9 DEF HeadroomInv

\* A settlement that is refused leaves the file as it is, and the room was there but for what
\* the allocation row took.
LEMMA SettlementRefused ==
  ASSUME HeadroomInv, NEW o \in 0 .. WidestObservations, NEW w \in 0 .. WidestReceipt,
         RefuseSettlement(w, o)
  PROVE  HeadroomInv' /\ allocation > budgeted
<1>0. RowsOK /\ HeadroomKept /\ running > 0
  BY DEF HeadroomInv, RefuseSettlement
<1>1. o \in Nat /\ w \in Nat /\ o <= WidestObservations /\ w <= WidestReceipt
  BY WidthAssumption
<1>2. Open > 0 /\ Envelope + budgeted <= MaxBytes + allocation
  BY <1>0, Widths DEF HeadroomKept, Open
<1>3. /\ running' = running - 1 /\ stranded' = stranded + 1 /\ refused' = refused + 1
      /\ UNCHANGED <<settled, closed, observations, allocation, access, budgeted>>
  BY DEF RefuseSettlement
<1>4. Open' = Open
  BY <1>0, <1>3, Widths DEF Open
<1>5. Bytes' = Bytes /\ Envelope' = Envelope
  BY <1>3, <1>4 DEF Bytes, Envelope
<1>6. RowsOK'
  BY <1>0, <1>3, <1>5, Widths DEF RowsOK, Fits, Writable
<1>7. HeadroomKept'
  BY <1>0, <1>3, <1>4, <1>5 DEF HeadroomKept
<1> DEFINE rest == Base + allocation + access + closed + (Open - 1) * ReservedWidth
           written == rest + o + w
<1>8. ~(written <= MaxBytes)
  BY <1>0, SettlementRoom DEF RefuseSettlement, Writable
<1>9. written <= Envelope /\ written \in Nat /\ Envelope \in Nat
  BY <1>0, <1>1, SettlementRoom, Widths
<1> HIDE DEF written
<1>10. allocation > budgeted
  BY <1>0, <1>2, <1>8, <1>9, Widths
<1> QED  BY <1>6, <1>7, <1>10 DEF HeadroomInv

\* The transactions that ask for the headroom have it afterwards.
LEMMA Budgeted ==
  ASSUME RowsOK', Headroom', budgeted' = allocation'
  PROVE  HeadroomKept'
<1>1. Envelope' <= MaxBytes /\ allocation' \in Nat /\ MaxBytes \in Nat
  BY WidthAssumption DEF Headroom, RowsOK
<1>2. Open' \in Nat /\ Open' * WidestReceipt \in Nat
  BY OneMore, WidthAssumption DEF RowsOK, Open
<1>3. Envelope' \in Nat
  BY <1>2, WidthAssumption DEF Envelope, RowsOK
<1>4. ASSUME NEW e \in Nat, NEW a \in Nat, NEW b \in Nat, e <= MaxBytes, b = a
      PROVE  e + b <= MaxBytes + a
  BY <1>4, WidthAssumption
<1>5. budgeted' \in Nat
  BY <1>1
<1>6. Envelope' + budgeted' <= MaxBytes + allocation'
  BY <1>1, <1>3, <1>4, <1>5
<1> QED  BY <1>6 DEF HeadroomKept

\* Every step keeps the invariant, and only what allocation took can refuse a settlement.
LEMMA HeadroomStep ==
  HeadroomInv /\ [LedgerNext]_rows => HeadroomInv' /\ (refused' # refused => allocation > budgeted)
<1> SUFFICES ASSUME HeadroomInv, [LedgerNext]_rows
             PROVE  HeadroomInv' /\ (refused' # refused => allocation > budgeted)
  OBVIOUS
<1>0. RowsOK /\ HeadroomKept
  BY DEF HeadroomInv
<1>1. CASE UNCHANGED rows
  BY <1>0, <1>1 DEF HeadroomInv, RowsOK, HeadroomKept, Fits, Writable, Bytes, Envelope, Open, rows
<1>2. ASSUME NEW o \in 0 .. WidestObservations, Admit(o)
      PROVE  HeadroomInv' /\ refused' = refused
  <2>1. RowsOK'
    BY <1>0, <1>2, Widths DEF Admit, RowsOK
  <2>2. Headroom' /\ budgeted' = allocation'
    BY <1>2 DEF Admit
  <2> QED  BY <1>2, <2>1, <2>2, Budgeted DEF Admit, HeadroomInv
<1>3. ASSUME NEW o \in 0 .. WidestObservations, Observe(o)
      PROVE  HeadroomInv' /\ refused' = refused
  <2>1. RowsOK'
    BY <1>0, <1>3, Widths DEF Observe, RowsOK
  <2>2. Open' = Open /\ Envelope' = Envelope
    BY <1>3 DEF Observe, Open, Envelope
  <2> QED  BY <1>0, <1>3, <2>1, <2>2 DEF Observe, HeadroomInv, HeadroomKept
<1>4. ASSUME NEW o \in 0 .. WidestObservations, NEW w \in 0 .. WidestReceipt, Settle(w, o)
      PROVE  HeadroomInv' /\ refused' = refused
  BY <1>4, SettlementWrites
<1>5. ASSUME NEW o \in 0 .. WidestObservations, NEW w \in 0 .. WidestReceipt, RefuseSettlement(w, o)
      PROVE  HeadroomInv' /\ allocation > budgeted
  BY <1>5, SettlementRefused
<1>6. CASE Strand
  <2>1. Open' = Open
    BY <1>0, <1>6, Widths DEF Strand, Open
  <2>2. Bytes' = Bytes /\ Envelope' = Envelope
    BY <1>6, <2>1 DEF Strand, Bytes, Envelope
  <2>3. RowsOK'
    BY <1>0, <1>6, <2>2, Widths DEF Strand, RowsOK, Fits, Writable
  <2> QED  BY <1>0, <1>6, <2>1, <2>2, <2>3 DEF Strand, HeadroomInv, HeadroomKept
<1>7. ASSUME NEW w \in AccessWidths, SetAccess(w)
      PROVE  HeadroomInv' /\ refused' = refused
  <2>1. RowsOK'
    BY <1>0, <1>7, Widths, WidthAssumption DEF SetAccess, RowsOK
  <2>2. Headroom' /\ budgeted' = allocation'
    BY <1>7 DEF SetAccess
  <2> QED  BY <1>7, <2>1, <2>2, Budgeted DEF SetAccess, HeadroomInv
<1>8. ASSUME NEW w \in AllocationWidths, SetAllocation(w)
      PROVE  HeadroomInv' /\ refused' = refused
  <2>1. RowsOK'
    BY <1>0, <1>8, Widths, WidthAssumption DEF SetAllocation, RowsOK
  <2>2. Open' = Open /\ w \in Nat /\ allocation' = w /\ budgeted' = budgeted
    BY <1>8, WidthAssumption DEF SetAllocation, Open
  <2>3. Envelope' = Base + WidestObservations + w + access + closed + Open * WidestReceipt
    BY <1>8, <2>2 DEF SetAllocation, Envelope
  <2>4. HeadroomKept'
    BY <1>0, <2>2, <2>3, Widths DEF HeadroomKept, Envelope
  <2> QED  BY <1>8, <2>1, <2>4 DEF SetAllocation, HeadroomInv
<1> QED  BY <1>1, <1>2, <1>3, <1>4, <1>5, <1>6, <1>7, <1>8 DEF LedgerNext, Saves, Refusals, rows

-----------------------------------------------------------------------------
(***************************************************************************)
(* The file on disk: both halves of PoolFile behave as they do alone.      *)
(***************************************************************************)
\* A step of PoolFile is one of the ledger, or leaves the rows alone.
LEMMA PoolStepsLedger == [PoolNext]_<<vars, rows>> => [LedgerNext]_rows
BY DEF PoolNext, LedgerNext

\* The transactions that write the file are those of StoreTransaction, one after the other, each
\* behind the lock (pool-runtime.ts 599-615).
THEOREM PoolTransacts == PoolSpec => Spec
<1>1. [PoolNext]_<<vars, rows>> => [Next]_vars
  BY DEF PoolNext, Next, Otherwise
<1> QED  BY <1>1, PTL DEF PoolSpec, PoolInit, Spec

\* What they write is what the ledger's transactions decide.
THEOREM PoolKeepsLedger == PoolSpec => LedgerSpec
BY PoolStepsLedger, PTL DEF PoolSpec, PoolInit, LedgerSpec

\* The inductive invariant.
THEOREM HeadroomInvariant == LedgerSpec => []HeadroomInv
BY InitHeadroom, HeadroomStep, PTL DEF LedgerSpec

\* The file never gets longer than the next load accepts, whatever the widths (writeState, 297).
THEOREM RowsCorrect == PoolSpec => []RowsOK
<1>1. HeadroomInv => RowsOK
  BY DEF HeadroomInv
<1> QED  BY <1>1, HeadroomInvariant, PoolKeepsLedger, PTL

\* What is budgeted before contact is still there when the receipts settle, but for what the
\* allocation row took (318-346).
THEOREM HeadroomIsKept == PoolSpec => []HeadroomKept
<1>1. HeadroomInv => HeadroomKept
  BY DEF HeadroomInv
<1> QED  BY <1>1, HeadroomInvariant, PoolKeepsLedger, PTL

\* No settlement is refused for its size unless the allocation row has grown since the last
\* reservation or change of the access lists.
THEOREM RefusalsExplained == PoolSpec => RefusedOnlyForAllocation
<1>1. HeadroomInv /\ [LedgerNext]_rows => [refused' # refused => allocation > budgeted]_rows
  BY HeadroomStep
<1> QED  BY <1>1, HeadroomInvariant, PoolKeepsLedger, PTL DEF LedgerSpec, RefusedOnlyForAllocation
=============================================================================
