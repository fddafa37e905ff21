-------------------------- MODULE RingBufferProofs --------------------------
(***************************************************************************)
(* Proofs about RingBuffer.tla for every ring size, spin count and bound.  *)
(*                                                                         *)
(* The safety properties are not inductive: that the reader's block is the *)
(* next one depends on what lies in every queued slot, and that depends on *)
(* each thread's pointer being the index it last looked at.  IInv says so. *)
(***************************************************************************)
EXTENDS RingBuffer, SequenceTheorems, TLAPS

(* How far slot s is ahead of the reader. *)
Dist(s) == IF s >= read_index THEN s - read_index ELSE s - read_index + N

(* The queued slots hold the blocks nread+1 .. nwritten in order, and the   *)
(* slot behind the reader holds the block before them.                      *)
QueueInv ==
  Live => /\ ~stopped
          /\ nwritten = nread + Used
          /\ \A s \in Slot : Dist(s) < Used => slots[s] = nread + 1 + Dist(s)
          /\ slots[Pred(read_index)] = nread

(* What the reader has seen is still so: only it moves read_index.          *)
ReaderInv ==
  Live => /\ rpc = "spin2" => rseen = read_index
          /\ rpc \in {"ret", "got", "peek", "hold"} => ~Empty
          /\ Reading => rslot = read_index
          /\ rpc = "hold" => rtail = Pred(read_index)

(* What the writer has seen is still so: only it moves write_index.         *)
WriterInv ==
  Live => /\ wpc = "spin2" => wseen = write_index
          /\ wpc \in {"ret", "fill", "filled"} => ~Full
          /\ Writing => wslot = write_index
          /\ wpc = "filled" => slots[write_index] = nwritten + 1

IInv == QueueInv /\ ReaderInv /\ WriterInv

-----------------------------------------------------------------------------
(* The successor of a slot, as linear arithmetic. *)
LEMMA SuccSlot ==
  ASSUME NEW i \in Slot
  PROVE  /\ Succ(i) = IF i = N - 1 THEN 0 ELSE i + 1
         /\ Succ(i) \in Slot
  BY RingAssumption DEF Slot, Succ

(* The predecessor of a slot. *)
LEMMA PredSlot ==
  ASSUME NEW i \in Slot
  PROVE  /\ Pred(i) = IF i = 0 THEN N - 1 ELSE i - 1
         /\ Pred(i) \in Slot
  BY RingAssumption DEF Slot, Pred

(* Where Stop leaves write_index is a slot. *)
LEMMA HalfSlot == StoppedWriteIndex \in Slot
  BY RingAssumption DEF StoppedWriteIndex, Slot

(* Waking a thread keeps its location one of the thread's locations. *)
LEMMA WokenPc ==
  ASSUME NEW S, NEW pc \in S, "lock" \in S, NEW c \in BOOLEAN
  PROVE  Woken(pc) \in S /\ NotifyIf(c, pc) \in S
<1>1. Woken(pc) \in S
  BY Zenon DEF Woken
<1>2. NotifyIf(c, pc) \in S
  BY <1>1, Zenon DEF NotifyIf
<1>3. QED
  BY <1>1, <1>2

-----------------------------------------------------------------------------
(* One step keeps every type: in particular the indices stay inside the     *)
(* array whatever Stop and late calls do to them.                           *)
LEMMA TypeStep ==
  ASSUME TypeOK, [Next]_vars
  PROVE  TypeOK'
<1> USE RingAssumption DEF TypeOK, idxVars, rVars, wVars
<1> DEFINE RPc == Pc \cup {"got", "peek", "hold"}
           WPc == Pc \cup {"fill", "filled"}
<1>0. "lock" \in RPc /\ "lock" \in WPc
  BY DEF Pc
<1>r. CASE ReaderStep
  <2>1. CASE ReaderLoop
    BY <2>1 DEF ReaderLoop, ReaderGoes, Pc
  <2>2. CASE ReaderSpin1
    BY <2>2 DEF ReaderSpin1, ReaderGoes, Pc
  <2>3. CASE ReaderSpin2
    BY <2>3 DEF ReaderSpin2, ReaderGoes, Pc
  <2>4. CASE ReaderWaits
    BY <2>4 DEF ReaderWaits, ReaderGoes, Pc
  <2>5. CASE getReadPtr
    BY <2>5 DEF getReadPtr, ReaderGoes, Pc
  <2>6. CASE ReaderChecksRun
    BY <2>6 DEF ReaderChecksRun, ReaderGoes, Pc
  <2>7. CASE peekReadPtr
    BY <2>7, PredSlot DEF peekReadPtr, ReaderGoes, Pc
  <2>8. CASE ReadDone
    <3>1. read_index' \in Slot
      BY <2>8, SuccSlot DEF ReadDone
    <3>2. wpc' \in WPc
      BY <2>8, <1>0, WokenPc, Full \in BOOLEAN DEF ReadDone, Full
    <3>3. QED
      BY <2>8, <3>1, <3>2 DEF ReadDone, ReaderGoes, Pc
  <2>9. QED
    BY <1>r, <2>1, <2>2, <2>3, <2>4, <2>5, <2>6, <2>7, <2>8 DEF ReaderStep
<1>w. CASE WriterStep
  <2>1. CASE WriterLoop
    BY <2>1 DEF WriterLoop, WriterGoes, Pc
  <2>2. CASE WriterSpin1
    BY <2>2 DEF WriterSpin1, WriterGoes, Pc
  <2>3. CASE WriterSpin2
    BY <2>3 DEF WriterSpin2, WriterGoes, Pc
  <2>4. CASE WriterWaits
    BY <2>4 DEF WriterWaits, WriterGoes, Pc
  <2>5. CASE getWritePtr
    BY <2>5 DEF getWritePtr, WriterGoes, Pc
  <2>6. CASE Fill
    BY <2>6 DEF Fill, WriterGoes, Pc
  <2>7. CASE WriteDone
    <3>1. write_index' \in Slot
      BY <2>7, SuccSlot DEF WriteDone
    <3>2. rpc' \in RPc
      BY <2>7, <1>0, WokenPc, Empty \in BOOLEAN DEF WriteDone, Empty
    <3>3. QED
      BY <2>7, <3>1, <3>2 DEF WriteDone, WriterGoes, Pc
  <2>8. QED
    BY <1>w, <2>1, <2>2, <2>3, <2>4, <2>5, <2>6, <2>7 DEF WriterStep
<1>1. CASE Start
  <2>1. 0 \in Slot /\ 0 \in Nat
    BY DEF Slot
  <2>2. slots' \in [Slot -> Nat]
    BY <1>1, <2>1 DEF Start
  <2>3. rpc' \in RPc /\ wpc' \in WPc
    BY <1>1 DEF Start, Pc
  <2>4. QED
    BY <1>1, <2>1, <2>2, <2>3 DEF Start, OwnerGoes
<1>2. CASE LowerRunFlag
  BY <1>2 DEF LowerRunFlag, OwnerGoes
<1>3. CASE StopReadIndex
  BY <1>3 DEF StopReadIndex, OwnerGoes, Slot
<1>4. CASE StopFlag
  BY <1>4 DEF StopFlag, OwnerGoes
<1>5. CASE StopWriteIndex
  <2>1. rpc' \in RPc /\ wpc' \in WPc
    BY <1>5, <1>0, WokenPc DEF StopWriteIndex
  <2>2. QED
    BY <1>5, <2>1, HalfSlot DEF StopWriteIndex, OwnerGoes
<1>6. CASE SpuriousWakeup
  <2>1. rpc' \in RPc /\ wpc' \in WPc
    BY <1>6, <1>0, WokenPc DEF SpuriousWakeup
  <2>2. QED
    BY <1>6, <2>1 DEF SpuriousWakeup
<1>7. CASE UNCHANGED vars
  BY <1>7 DEF vars
<1>8. QED
  BY <1>r, <1>w, <1>1, <1>2, <1>3, <1>4, <1>5, <1>6, <1>7 DEF Next, Stop

(* Every variable keeps its type: in particular the indices stay inside     *)
(* the array whatever Stop and late calls do to them.                       *)
THEOREM TypeCorrect == Spec => []TypeOK
<1>1. Init => TypeOK
  <2> SUFFICES ASSUME Init PROVE TypeOK
    OBVIOUS
  <2>1. 0 \in Slot /\ 0 \in Nat /\ 0 \in 0 .. SpinCount
    BY RingAssumption DEF Slot
  <2>2. slots \in [Slot -> Nat]
    BY <2>1 DEF Init
  <2>3. QED
    BY <2>1, <2>2 DEF Init, TypeOK, Pc
<1>2. TypeOK /\ [Next]_vars => TypeOK'
  BY TypeStep
<1>3. QED
  BY <1>1, <1>2, PTL DEF Spec

-----------------------------------------------------------------------------
(* The distance from one slot to another, in linear arithmetic.             *)
LEMMA Gap ==
  ASSUME NEW r \in Slot, NEW w \in Slot, NEW u,
         u = IF w >= r THEN w - r ELSE w - r + N
  PROVE  /\ u \in 0 .. N - 1
         /\ (w = r) <=> (u = 0)
         /\ (Succ(w) = r) <=> (u = N - 1)
<1>1. Succ(w) = IF w = N - 1 THEN 0 ELSE w + 1
  BY SuccSlot
<1>2. r \in Int /\ w \in Int /\ N \in Int /\ N > 2 /\ 0 <= r /\ r < N /\ 0 <= w /\ w < N
  BY RingAssumption DEF Slot
<1>3. QED
  BY <1>1, <1>2

(* How the distance between the indices relates to empty and full.          *)
LEMMA UsedBounds ==
  ASSUME TypeOK
  PROVE  /\ Used \in 0 .. N - 1
         /\ Empty <=> Used = 0
         /\ Full <=> Used = N - 1
  BY RingAssumption, SuccSlot DEF TypeOK, Used, Empty, Full, Slot

(* The same of the next state. *)
LEMMA UsedBoundsNext ==
  ASSUME TypeOK'
  PROVE  /\ Used' \in 0 .. N - 1
         /\ (Empty' <=> (Used' = 0))
         /\ (Full' <=> (Used' = N - 1))
<1>1. read_index' \in Slot /\ write_index' \in Slot
  BY DEF TypeOK
<1>2. Used' = IF write_index' >= read_index' THEN write_index' - read_index'
                                             ELSE write_index' - read_index' + N
  BY DEF Used
<1>3. Used' \in 0 .. N - 1 /\ ((write_index' = read_index') <=> (Used' = 0))
  BY <1>1, <1>2, Gap
<1>4. (Succ(write_index)' = read_index') <=> (Used' = N - 1)
  <2>1. (Succ(write_index') = read_index') <=> (Used' = N - 1)
    BY <1>1, <1>2, Gap
  <2>2. QED
    BY <2>1 DEF Succ
<1>5. Empty' <=> (Used' = 0)
  BY <1>3 DEF Empty
<1>6. Full' <=> (Used' = N - 1)
  BY <1>4 DEF Full
<1>7. QED
  BY <1>3, <1>5, <1>6

(* Releasing a block of a ring that is not empty shortens the queue by one  *)
(* and brings every slot but the released one nearer.                       *)
LEMMA AfterRead ==
  ASSUME TypeOK, ~Empty, read_index' = Succ(read_index), UNCHANGED write_index
  PROVE  /\ Used' = Used - 1
         /\ Pred(read_index') = read_index
         /\ Dist(read_index) = 0
         /\ \A s \in Slot : Dist(s)' = IF s = read_index THEN N - 1 ELSE Dist(s) - 1
<1>1. read_index \in Slot /\ write_index \in Slot /\ read_index # write_index
  BY DEF TypeOK, Empty
<1>2. read_index' = IF read_index = N - 1 THEN 0 ELSE read_index + 1
  BY <1>1, SuccSlot
<1>3. read_index' \in Slot
  BY <1>1, SuccSlot
<1>4. Used' = Used - 1
  BY <1>1, <1>2, RingAssumption DEF Used, Slot
<1>5. Pred(read_index') = read_index
  BY <1>1, <1>2, <1>3, PredSlot, RingAssumption DEF Slot
<1>6. ASSUME NEW s \in Slot
      PROVE  Dist(s)' = IF s = read_index THEN N - 1 ELSE Dist(s) - 1
  BY <1>1, <1>2, RingAssumption DEF Dist, Slot
<1>7. Dist(read_index) = 0
  BY <1>1, RingAssumption DEF Dist, Slot
<1>8. QED
  BY <1>4, <1>5, <1>6, <1>7

(* Publishing a block in a ring that is not full lengthens the queue by one *)
(* and moves no slot; the slot it went to lies just behind the queue.       *)
LEMMA AfterWrite ==
  ASSUME TypeOK, ~Full, write_index' = Succ(write_index), UNCHANGED read_index
  PROVE  /\ Used' = Used + 1
         /\ \A s \in Slot : Dist(s)' = Dist(s)
<1>1. read_index \in Slot /\ write_index \in Slot
  BY DEF TypeOK
<1>2. write_index' = IF write_index = N - 1 THEN 0 ELSE write_index + 1
  BY <1>1, SuccSlot
<1>3. Succ(write_index) # read_index
  BY DEF Full
<1>4. Used' = Used + 1
  BY <1>1, <1>2, <1>3, RingAssumption DEF Used, Slot
<1>5. QED
  BY <1>4 DEF Dist

(* The slot the writer fills is neither queued nor behind the reader.       *)
LEMMA WriteSlot ==
  ASSUME TypeOK, ~Full
  PROVE  /\ Dist(write_index) = Used
         /\ write_index # Pred(read_index)
         /\ \A s \in Slot : Dist(s) = Used => s = write_index
<1>1. read_index \in Slot /\ write_index \in Slot
  BY DEF TypeOK
<1>2. Dist(write_index) = Used
  BY DEF Dist, Used
<1>3. write_index # Pred(read_index)
  BY <1>1, SuccSlot, PredSlot, RingAssumption DEF Full, Slot
<1>4. ASSUME NEW s \in Slot, Dist(s) = Used PROVE s = write_index
  BY <1>1, <1>4, RingAssumption DEF Dist, Used, Slot
<1>5. QED
  BY <1>2, <1>3, <1>4

-----------------------------------------------------------------------------
(* A step that leaves the indices, the slots and the counters alone keeps   *)
(* the queue invariant.                                                     *)
LEMMA QueueUntouched ==
  ASSUME QueueInv, Live' => Live,
         UNCHANGED <<read_index, write_index, slots, nread, nwritten>>,
         Live' => stopped' = stopped
  PROVE  QueueInv'
  BY DEF QueueInv, Used, Dist, Pred

(* A step of the reader other than ReadDone preserves the invariant.        *)
LEMMA ReaderLooks ==
  ASSUME TypeOK, IInv,
         \/ ReaderLoop \/ ReaderSpin1 \/ ReaderSpin2 \/ ReaderWaits
         \/ getReadPtr \/ ReaderChecksRun \/ peekReadPtr
  PROVE  IInv'
<1> USE DEF IInv
<1>0. UNCHANGED <<idxVars, owner, wVars, nread, nwritten>>
  BY DEF ReaderLoop, ReaderSpin1, ReaderSpin2, ReaderWaits, getReadPtr,
         ReaderChecksRun, peekReadPtr
<1>1. QueueInv'
  BY <1>0, QueueUntouched DEF idxVars, wVars, Live
<1>2. WriterInv'
  BY <1>0 DEF WriterInv, idxVars, wVars, Live, Full, Succ, Writing
<1>3. ReaderInv'
  <2> SUFFICES ASSUME Live' PROVE ReaderInv'
    BY DEF ReaderInv
  <2> USE DEF ReaderInv, Live, Reading, ReaderGoes, idxVars, wVars, Empty
  <2>0. Live /\ ~stopped
    BY <1>0 DEF QueueInv
  <2>1. CASE ReaderLoop
    BY <2>0, <2>1 DEF ReaderLoop
  <2>2. CASE ReaderSpin1
    BY <2>0, <2>2 DEF ReaderSpin1
  <2>3. CASE ReaderSpin2
    BY <2>0, <2>3 DEF ReaderSpin2
  <2>4. CASE ReaderWaits
    BY <2>0, <2>4 DEF ReaderWaits
  <2>5. CASE getReadPtr
    BY <2>0, <2>5 DEF getReadPtr
  <2>6. CASE ReaderChecksRun
    BY <2>0, <2>6 DEF ReaderChecksRun
  <2>7. CASE peekReadPtr
    BY <2>0, <2>7 DEF peekReadPtr
  <2>8. QED
    BY <2>1, <2>2, <2>3, <2>4, <2>5, <2>6, <2>7
<1>4. QED
  BY <1>1, <1>2, <1>3

(* Releasing a block: the released slot becomes the one behind the reader.  *)
LEMMA ReadDoneKeeps ==
  ASSUME TypeOK, IInv, ReadDone
  PROVE  IInv'
<1> SUFFICES ASSUME Live' PROVE IInv'
  BY DEF IInv, QueueInv, ReaderInv, WriterInv
<1>1. Live /\ ~stopped /\ ~Empty
  BY DEF Live, IInv, QueueInv, ReaderInv, ReadDone, ReaderGoes
<1>2. read_index' = Succ(read_index) /\ nread' = nread + 1 /\ rpc' = "idle"
  BY <1>1 DEF ReadDone, ReaderGoes
<1>3. UNCHANGED <<write_index, stopped, slots, nwritten, wseen, wslot>>
  BY DEF ReadDone
<1>4. /\ Used' = Used - 1
      /\ Pred(read_index') = read_index
      /\ Dist(read_index) = 0
      /\ \A s \in Slot : Dist(s)' = IF s = read_index THEN N - 1 ELSE Dist(s) - 1
  BY <1>1, <1>2, <1>3, AfterRead
<1>5. Used \in 1 .. N - 1 /\ read_index \in Slot /\ nread \in Nat
  BY <1>1, UsedBounds, RingAssumption DEF TypeOK
<1>6. QueueInv'
  <2>1. nwritten' = nread' + Used'
    BY <1>1, <1>2, <1>3, <1>4, <1>5 DEF IInv, QueueInv
  <2>2. slots'[Pred(read_index)'] = nread'
    BY <1>1, <1>2, <1>3, <1>4, <1>5 DEF IInv, QueueInv, Pred
  <2>3. ASSUME NEW s \in Slot, Dist(s)' < Used'
        PROVE  slots'[s] = nread' + 1 + Dist(s)'
    <3>1. s # read_index
      BY <2>3, <1>4, <1>5, RingAssumption
    <3>2. Dist(s) \in Int
      BY RingAssumption DEF Dist, Slot, TypeOK
    <3>3. Dist(s)' = Dist(s) - 1 /\ Dist(s) < Used
      BY <2>3, <3>1, <3>2, <1>4, <1>5
    <3>4. QED
      BY <3>2, <3>3, <1>1, <1>2, <1>3, <1>5 DEF IInv, QueueInv
  <2>4. QED
    BY <1>1, <1>3, <2>1, <2>2, <2>3 DEF QueueInv
<1>7. ReaderInv'
  BY <1>2 DEF ReaderInv, Reading
<1>8. WriterInv'
  <2>1. ~Full'
    <3>1. Used' # N - 1
      BY <1>4, <1>5, RingAssumption
    <3>2. TypeOK'
      BY TypeStep DEF Next, ReaderStep
    <3>3. QED
      BY <3>1, <3>2, UsedBoundsNext
  <2>2. wpc' \in {"spin2", "fill", "filled"} => wpc' = wpc
    BY DEF ReadDone, NotifyIf, Woken
  <2>3. QED
    BY <1>1, <1>3, <2>1, <2>2 DEF IInv, WriterInv, Writing
<1>9. QED
  BY <1>6, <1>7, <1>8 DEF IInv

(* A step of the writer other than Fill and WriteDone preserves the         *)
(* invariant.                                                               *)
LEMMA WriterLooks ==
  ASSUME TypeOK, IInv,
         \/ WriterLoop \/ WriterSpin1 \/ WriterSpin2 \/ WriterWaits \/ getWritePtr
  PROVE  IInv'
<1> USE DEF IInv
<1>0. UNCHANGED <<idxVars, owner, rVars, slots, nread, nwritten>>
  BY DEF WriterLoop, WriterSpin1, WriterSpin2, WriterWaits, getWritePtr
<1>1. QueueInv'
  BY <1>0, QueueUntouched DEF idxVars, Live
<1>2. ReaderInv'
  BY <1>0 DEF ReaderInv, idxVars, rVars, Live, Empty, Pred, Reading
<1>3. WriterInv'
  <2> SUFFICES ASSUME Live' PROVE WriterInv'
    BY DEF WriterInv
  <2> USE DEF WriterInv, Live, Writing, WriterGoes, idxVars, rVars
  <2>0. Live /\ ~stopped
    BY <1>0 DEF QueueInv
  <2>1. CASE WriterLoop
    BY <2>0, <2>1 DEF WriterLoop
  <2>2. CASE WriterSpin1
    BY <2>0, <2>2 DEF WriterSpin1
  <2>3. CASE WriterSpin2
    BY <2>0, <2>3 DEF WriterSpin2, Full, Succ
  <2>4. CASE WriterWaits
    BY <2>0, <2>4 DEF WriterWaits, Full, Succ
  <2>5. CASE getWritePtr
    BY <2>0, <2>5 DEF getWritePtr, Full, Succ
  <2>6. QED
    BY <2>1, <2>2, <2>3, <2>4, <2>5
<1>4. QED
  BY <1>1, <1>2, <1>3

(* Filling the slot at write_index disturbs no queued slot, nor the one     *)
(* behind the reader.                                                       *)
LEMMA FillKeeps ==
  ASSUME TypeOK, IInv, Fill
  PROVE  IInv'
<1> SUFFICES ASSUME Live' PROVE IInv'
  BY DEF IInv, QueueInv, ReaderInv, WriterInv
<1>1. UNCHANGED <<idxVars, owner, rVars, wslot, nread, nwritten>> /\ wpc' = "filled"
  BY DEF Fill, WriterGoes
<1>2. Live /\ ~Full /\ wslot = write_index
  BY <1>1 DEF Live, IInv, WriterInv, Writing, Fill, WriterGoes
<1>3. slots' = [slots EXCEPT ![write_index] = nwritten + 1] /\ slots \in [Slot -> Nat]
      /\ write_index \in Slot /\ read_index \in Slot
  BY <1>2 DEF Fill, TypeOK
<1>4. QueueInv'
  <2>1. Dist(write_index) = Used /\ write_index # Pred(read_index)
    BY <1>2, WriteSlot
  <2>2. Used' = Used /\ Pred(read_index)' = Pred(read_index)
    BY <1>1 DEF idxVars, Used, Pred
  <2>3. ASSUME NEW s \in Slot, Dist(s)' < Used'
        PROVE  slots'[s] = nread' + 1 + Dist(s)'
    <3>1. Dist(s)' = Dist(s)
      BY <1>1 DEF idxVars, Dist
    <3>2. Used \in Int
      BY UsedBounds, RingAssumption
    <3>3. s # write_index
      BY <2>1, <2>2, <2>3, <3>1, <3>2
    <3>4. QED
      BY <1>1, <1>2, <1>3, <2>2, <2>3, <3>1, <3>3 DEF IInv, QueueInv
  <2>4. slots'[Pred(read_index)] = nread
    BY <1>2, <1>3, <2>1, PredSlot DEF IInv, QueueInv
  <2>5. QED
    BY <1>1, <1>2, <2>2, <2>3, <2>4 DEF IInv, QueueInv, idxVars
<1>5. ReaderInv'
  BY <1>1, <1>2 DEF IInv, ReaderInv, idxVars, rVars, Empty, Pred, Reading
<1>6. WriterInv'
  BY <1>1, <1>2, <1>3 DEF WriterInv, idxVars, Full, Succ, Writing
<1>7. QED
  BY <1>4, <1>5, <1>6 DEF IInv

(* Publishing the filled slot appends it to the queue.                      *)
LEMMA WriteDoneKeeps ==
  ASSUME TypeOK, IInv, WriteDone
  PROVE  IInv'
<1> SUFFICES ASSUME Live' PROVE IInv'
  BY DEF IInv, QueueInv, ReaderInv, WriterInv
<1>1. Live /\ ~stopped /\ ~Full /\ slots[write_index] = nwritten + 1
  BY DEF Live, IInv, QueueInv, WriterInv, WriteDone, WriterGoes
<1>2. write_index' = Succ(write_index) /\ nwritten' = nwritten + 1 /\ wpc' = "idle"
  BY <1>1 DEF WriteDone, WriterGoes
<1>3. UNCHANGED <<read_index, stopped, slots, nread, rseen, rslot, rtail>>
  BY DEF WriteDone
<1>4. Used' = Used + 1 /\ \A s \in Slot : Dist(s)' = Dist(s)
  BY <1>1, <1>2, <1>3, AfterWrite
<1>5. Used \in 0 .. N - 1 /\ Used # N - 1 /\ nread \in Nat
  BY <1>1, UsedBounds DEF TypeOK
<1>6. QueueInv'
  <2>1. nwritten' = nread' + Used'
    BY <1>1, <1>2, <1>3, <1>4, <1>5, RingAssumption DEF IInv, QueueInv
  <2>2. slots'[Pred(read_index)'] = nread'
    BY <1>1, <1>3 DEF IInv, QueueInv, Pred
  <2>3. ASSUME NEW s \in Slot, Dist(s)' < Used'
        PROVE  slots'[s] = nread' + 1 + Dist(s)'
    <3>1. Dist(s) \in Int
      BY RingAssumption DEF Dist, Slot, TypeOK
    <3>2. CASE Dist(s) < Used
      BY <3>2, <1>1, <1>3, <1>4 DEF IInv, QueueInv
    <3>3. CASE Dist(s) = Used
      <4>1. s = write_index
        BY <3>3, <1>1, WriteSlot
      <4>2. nwritten = nread + Used
        BY <1>1 DEF IInv, QueueInv
      <4>3. QED
        BY <3>3, <4>1, <4>2, <1>1, <1>3, <1>4, <1>5, RingAssumption
    <3>4. QED
      BY <2>3, <3>1, <3>2, <3>3, <1>4, <1>5, RingAssumption
  <2>4. QED
    BY <1>1, <1>3, <2>1, <2>2, <2>3 DEF QueueInv
<1>7. ReaderInv'
  <2>1. ~Empty'
    <3>1. Used' # 0
      BY <1>4, <1>5, RingAssumption
    <3>2. TypeOK'
      BY TypeStep DEF Next, WriterStep
    <3>3. QED
      BY <3>1, <3>2, UsedBoundsNext
  <2>2. rpc' \in {"spin2", "ret", "got", "peek", "hold"} => rpc' = rpc
    BY DEF WriteDone, NotifyIf, Woken
  <2>3. QED
    BY <1>1, <1>3, <2>1, <2>2 DEF IInv, ReaderInv, Reading, Pred
<1>8. WriterInv'
  BY <1>2 DEF WriterInv, Writing
<1>9. QED
  BY <1>6, <1>7, <1>8 DEF IInv

(* Starting and stopping: Start opens an empty session, the first step of   *)
(* Stop ends it.                                                            *)
LEMMA OwnerKeeps ==
  ASSUME TypeOK, IInv, Start \/ LowerRunFlag \/ Stop \/ SpuriousWakeup
  PROVE  IInv'
<1>1. CASE Start
  <2>1. Pred(0) = N - 1 /\ N - 1 \in Slot /\ 0 \in Slot
    BY PredSlot, RingAssumption DEF Slot
  <2>2. read_index' = 0 /\ write_index' = 0 /\ ~stopped' /\ nread' = 0 /\ nwritten' = 0
        /\ slots' = [s \in Slot |-> 0] /\ rpc' = "idle" /\ wpc' = "idle"
    BY <1>1 DEF Start
  <2>3. Used' = 0
    BY <2>2, RingAssumption DEF Used
  <2>4. \A s \in Slot : ~(Dist(s)' < Used')
    BY <2>2, <2>3, RingAssumption DEF Dist, Slot
  <2>5. slots'[Pred(read_index)'] = 0
    BY <2>1, <2>2 DEF Pred
  <2>6. QueueInv'
    BY <2>2, <2>3, <2>4, <2>5 DEF QueueInv
  <2>7. QED
    BY <2>2, <2>6 DEF IInv, ReaderInv, WriterInv, Reading, Writing
<1>2. CASE LowerRunFlag
  BY <1>2 DEF LowerRunFlag, OwnerGoes, IInv, QueueInv, ReaderInv, WriterInv, Live,
              idxVars, rVars, wVars, Used, Dist, Pred, Empty, Full, Succ, Reading, Writing
<1>3. CASE Stop
  BY <1>3 DEF Stop, StopReadIndex, StopFlag, StopWriteIndex, OwnerGoes, Live,
              IInv, QueueInv, ReaderInv, WriterInv
<1>4. CASE SpuriousWakeup
  <2>1. UNCHANGED <<idxVars, owner, slots, nread, nwritten, rseen, rslot, rtail,
                    wseen, wslot>>
    BY <1>4 DEF SpuriousWakeup
  <2>2. /\ rpc' \in {"spin2", "ret", "got", "peek", "hold"} => rpc' = rpc
        /\ wpc' \in {"spin2", "ret", "fill", "filled"} => wpc' = wpc
    BY <1>4 DEF SpuriousWakeup, Woken
  <2>3. QueueInv'
    BY <2>1, QueueUntouched DEF idxVars, Live, IInv
  <2>4. ReaderInv'
    BY <2>1, <2>2 DEF IInv, ReaderInv, idxVars, Live, Empty, Pred, Reading
  <2>5. WriterInv'
    BY <2>1, <2>2 DEF IInv, WriterInv, idxVars, Live, Full, Succ, Writing
  <2>6. QED
    BY <2>3, <2>4, <2>5 DEF IInv
<1>5. QED
  BY <1>1, <1>2, <1>3, <1>4
-----------------------------------------------------------------------------
(* The strengthening is an invariant. *)
THEOREM Inductive == Spec => [](TypeOK /\ IInv)
<1>1. Init => IInv
  BY DEF Init, IInv, QueueInv, ReaderInv, WriterInv, Live
<1>2. TypeOK /\ IInv /\ [Next]_vars => IInv'
  <2> SUFFICES ASSUME TypeOK, IInv, [Next]_vars PROVE IInv'
    OBVIOUS
  <2>1. CASE ReaderStep
    BY <2>1, ReaderLooks, ReadDoneKeeps DEF ReaderStep
  <2>2. CASE WriterStep
    BY <2>2, WriterLooks, FillKeeps, WriteDoneKeeps DEF WriterStep
  <2>3. CASE Start \/ LowerRunFlag \/ Stop \/ SpuriousWakeup
    BY <2>3, OwnerKeeps
  <2>4. CASE UNCHANGED vars
    BY <2>4 DEF vars, idxVars, rVars, wVars, IInv, QueueInv, ReaderInv, WriterInv,
                Live, Used, Dist, Pred, Succ, Empty, Full, Reading, Writing
  <2>5. QED
    BY <2>1, <2>2, <2>3, <2>4 DEF Next
<1>3. QED
  BY <1>1, <1>2, TypeCorrect, PTL DEF Spec

(* For every ring size the writer never touches the block the reader is     *)
(* converting, nor the block before it whose tail r2iq still copies.        *)
THEOREM OverlapSafe == Spec => []OverlapStable
<1>1. TypeOK /\ IInv => OverlapStable
  <2> SUFFICES ASSUME TypeOK, IInv, Live, Writing
               PROVE  /\ Reading => wslot # rslot /\ wslot # Pred(rslot)
                      /\ rpc = "hold" => wslot # rtail
    BY DEF OverlapStable
  <2>1. ~Full /\ wslot = write_index
    BY DEF IInv, WriterInv, Writing
  <2>2. write_index # Pred(read_index)
    BY <2>1, WriteSlot
  <2>3. Reading => ~Empty /\ rslot = read_index
    BY DEF IInv, ReaderInv, Reading
  <2>4. rpc = "hold" => rtail = Pred(read_index)
    BY DEF IInv, ReaderInv
  <2>5. QED
    BY <2>1, <2>2, <2>3, <2>4 DEF Empty
<1>2. QED
  BY <1>1, Inductive, PTL

(* For every ring size the reader gets each block once, in order, with the  *)
(* block before it still intact next to it.                                 *)
THEOREM InOrder == Spec => []BlocksInOrder
<1>1. TypeOK /\ IInv => BlocksInOrder
  <2> SUFFICES ASSUME TypeOK, IInv, Live, rpc = "hold"
               PROVE  slots[rslot] = nread + 1 /\ slots[rtail] = nread
    BY DEF BlocksInOrder
  <2>1. ~Empty /\ rslot = read_index /\ rtail = Pred(read_index)
    BY DEF IInv, ReaderInv, Reading
  <2>2. Dist(read_index) = 0 /\ Used # 0 /\ Used \in Nat /\ read_index \in Slot
    BY <2>1, UsedBounds, RingAssumption DEF Dist, TypeOK, Slot
  <2>3. slots[read_index] = nread + 1 + 0
    BY <2>2 DEF IInv, QueueInv
  <2>4. QED
    BY <2>1, <2>3 DEF IInv, QueueInv, TypeOK
<1>2. QED
  BY <1>1, Inductive, PTL

(* Although the indices are compared before they are moved and the other    *)
(* side is notified only on the edge, no thread sleeps while it could run.  *)
THEOREM NoSleeper == Spec => []NoLostWakeup
<1>1. Init => NoLostWakeup
  BY DEF Init, NoLostWakeup
<1>2. NoLostWakeup /\ [Next]_vars => NoLostWakeup'
  <2> SUFFICES ASSUME NoLostWakeup, [Next]_vars PROVE NoLostWakeup'
    OBVIOUS
  <2> USE DEF NoLostWakeup, MutexFree
  <2>1. CASE ReadDone
    <3>1. rpc' = "idle" /\ UNCHANGED <<write_index, owner>> /\ MutexFree
      BY <2>1 DEF ReadDone, ReaderGoes
    <3>2. wpc' # "wait"
      <4>1. CASE Full
        BY <2>1, <4>1, Zenon DEF ReadDone, NotifyIf, Woken
      <4>2. CASE ~Full
        BY <2>1, <4>2, <3>1 DEF ReadDone, NotifyIf
      <4>3. QED
        BY <4>1, <4>2
    <3>3. QED
      BY <3>1, <3>2
  <2>2. CASE WriteDone
    <3>1. wpc' = "idle" /\ UNCHANGED <<read_index, owner>> /\ MutexFree
      BY <2>2 DEF WriteDone, WriterGoes
    <3>2. rpc' # "wait"
      <4>1. CASE Empty
        BY <2>2, <4>1, Zenon DEF WriteDone, NotifyIf, Woken
      <4>2. CASE ~Empty
        BY <2>2, <4>2, <3>1 DEF WriteDone, NotifyIf
      <4>3. QED
        BY <4>1, <4>2
    <3>3. QED
      BY <3>1, <3>2
  <2>3. CASE ReaderStep /\ ~ReadDone
    <3>1. UNCHANGED <<idxVars, owner, wpc>> /\ (rpc' = "wait" => Empty)
      BY <2>3 DEF ReaderStep, ReaderLoop, ReaderSpin1, ReaderSpin2, ReaderWaits,
                  getReadPtr, ReaderChecksRun, peekReadPtr, ReaderGoes, wVars
    <3>2. QED
      BY <3>1 DEF idxVars, Empty, Full, Succ
  <2>4. CASE WriterStep /\ ~WriteDone
    <3>1. UNCHANGED <<idxVars, owner, rpc>> /\ (wpc' = "wait" => Full)
      BY <2>4 DEF WriterStep, WriterLoop, WriterSpin1, WriterSpin2, WriterWaits,
                  getWritePtr, Fill, WriterGoes, rVars
    <3>2. QED
      BY <3>1 DEF idxVars, Empty, Full, Succ
  <2>5. CASE Start
    BY <2>5 DEF Start
  <2>6. CASE LowerRunFlag
    BY <2>6 DEF LowerRunFlag, OwnerGoes, idxVars, rVars, wVars, Empty, Full, Succ
  <2>7. CASE Stop
    BY <2>7 DEF Stop, StopReadIndex, StopFlag, StopWriteIndex, OwnerGoes, Woken
  <2>8. CASE SpuriousWakeup
    BY <2>8 DEF SpuriousWakeup, idxVars, Woken, Empty, Full, Succ
  <2>9. CASE UNCHANGED vars
    BY <2>9 DEF vars, idxVars, rVars, wVars, Empty, Full, Succ
  <2>10. QED
    BY <2>1, <2>2, <2>3, <2>4, <2>5, <2>6, <2>7, <2>8, <2>9 DEF Next, ReaderStep, WriterStep
<1>3. QED
  BY <1>1, <1>2, PTL DEF Spec

-----------------------------------------------------------------------------
(* The refinement of BlockChannel.  By QueueInv the blocks between the      *)
(* indices of a live ring are the numbers nread + 1 .. nwritten, so the     *)
(* indices and the slots drop out: WriteDone appends the next number and    *)
(* ReadDone removes the first.                                              *)

(* The n numbers after a, in order.                                         *)
Numbers(a, n) == [k \in 1 .. n |-> a + k]

(* What the channel of the refinement holds.                                *)
ChannelQueue == IF Live THEN Queued ELSE <<>>

(* The bounds of the model: the block being written is one of the channel's. *)
BoundInv ==
  Live => /\ nwritten <= MaxBlocks + late
          /\ wpc \notin {"idle", "off"} => nwritten < MaxBlocks + LateWrites
          /\ run => late = 0 /\ (wpc \notin {"idle", "off"} => nwritten < MaxBlocks)

-----------------------------------------------------------------------------
(* Runs of numbers                                                          *)

(* They are sequences of their length.                                      *)
LEMMA NumbersSeq ==
  ASSUME NEW a \in Nat, NEW n \in Nat
  PROVE  /\ Numbers(a, n) \in Seq(Nat) /\ Len(Numbers(a, n)) = n
         /\ \A k \in 1 .. n : Numbers(a, n)[k] = a + k
  BY DEF Numbers

(* The first taken away.                                                    *)
LEMMA NumbersTail ==
  ASSUME NEW a \in Nat, NEW n \in Nat, n > 0
  PROVE  Tail(Numbers(a, n)) = Numbers(a + 1, n - 1)
<1> DEFINE s == Numbers(a, n)
           t == Tail(s)
           v == Numbers(a + 1, n - 1)
<1>1. s \in Seq(Nat) /\ Len(s) = n /\ \A k \in 1 .. n : s[k] = a + k
  BY NumbersSeq
<1>2. v \in Seq(Nat) /\ Len(v) = n - 1 /\ \A k \in 1 .. n - 1 : v[k] = (a + 1) + k
  <2>1. a + 1 \in Nat /\ n - 1 \in Nat
    OBVIOUS
  <2>2. QED
    BY <2>1, NumbersSeq
<1> HIDE DEF s, v
<1>3. s # <<>> /\ DOMAIN s = 1 .. n
  BY <1>1
<1>4. t \in Seq(Nat) /\ Len(t) = n - 1 /\ \A k \in 1 .. n - 1 : t[k] = s[k + 1]
  BY <1>1, <1>3
<1> HIDE DEF t
<1>5. \A k \in 1 .. Len(t) : t[k] = v[k]
  BY <1>1, <1>2, <1>4
<1>6. t = v
  BY <1>2, <1>4, <1>5, SeqEqual
<1>7. QED
  BY <1>6 DEF s, t, v

(* The next one added.                                                      *)
LEMMA NumbersAppend ==
  ASSUME NEW a \in Nat, NEW n \in Nat
  PROVE  Append(Numbers(a, n), a + n + 1) = Numbers(a, n + 1)
<1> DEFINE s == Numbers(a, n)
           t == Append(s, a + n + 1)
           v == Numbers(a, n + 1)
<1>1. s \in Seq(Nat) /\ Len(s) = n /\ \A k \in 1 .. n : s[k] = a + k
  BY NumbersSeq
<1>2. v \in Seq(Nat) /\ Len(v) = n + 1 /\ \A k \in 1 .. n + 1 : v[k] = a + k
  <2>1. n + 1 \in Nat
    OBVIOUS
  <2>2. QED
    BY <2>1, NumbersSeq
<1> HIDE DEF s, v
<1>3. /\ t \in Seq(Nat) /\ Len(t) = n + 1 /\ t[n + 1] = a + n + 1
      /\ \A k \in 1 .. n : t[k] = s[k]
  BY <1>1
<1> HIDE DEF t
<1>4. \A k \in 1 .. Len(t) : t[k] = v[k]
  BY <1>1, <1>2, <1>3
<1>5. t = v
  BY <1>2, <1>3, <1>4, SeqEqual
<1>6. QED
  BY <1>5 DEF s, t, v

-----------------------------------------------------------------------------
(* Slots that hold consecutive numbers, read off in the order of the ring.  *)
LEMMA SlotsRead ==
  ASSUME NEW i \in Slot, NEW u \in 0 .. N - 1, NEW a \in Nat, NEW content \in [Slot -> Nat],
         \A s \in Slot : LET d == IF s >= i THEN s - i ELSE s - i + N
                         IN  d < u => content[s] = a + 1 + d
  PROVE  [k \in 1 .. u |-> content[(i + k - 1) % N]] = Numbers(a, u)
<1>1. ASSUME NEW k \in 1 .. u PROVE content[(i + k - 1) % N] = a + k
  <2> DEFINE s == (i + k - 1) % N
             d == IF s >= i THEN s - i ELSE s - i + N
  <2>1. i \in 0 .. N - 1 /\ k \in 1 .. N - 1 /\ N \in Nat \ {0} /\ k <= u
    BY RingAssumption DEF Slot
  <2>2. s = IF i + k - 1 < N THEN i + k - 1 ELSE i + k - 1 - N
    BY <2>1
  <2> HIDE DEF s
  <2>3. s \in Slot /\ d = k - 1
    BY <2>1, <2>2 DEF Slot
  <2>4. d < u
    BY <2>1, <2>3
  <2>5. content[s] = a + 1 + d
    BY <2>3, <2>4
  <2>6. content[s] = a + k
    BY <2>1, <2>3, <2>5
  <2>7. QED
    BY <2>6 DEF s
<1>2. QED
  BY <1>1 DEF Numbers

(* A live ring holds the numbers of the blocks not yet released.            *)
LEMMA QueueNumbers ==
  ASSUME TypeOK, IInv, Live
  PROVE  /\ Queued = Numbers(nread, Used)
         /\ Used \in 0 .. N - 1 /\ nwritten = nread + Used
<1>1. Used \in 0 .. N - 1 /\ nwritten = nread + Used
  BY UsedBounds DEF TypeOK, IInv, QueueInv
<1>2. \A s \in Slot : LET d == IF s >= read_index THEN s - read_index ELSE s - read_index + N
                      IN  d < Used => slots[s] = nread + 1 + d
  BY DEF IInv, QueueInv, Dist
<1>3. read_index \in Slot /\ nread \in Nat /\ slots \in [Slot -> Nat]
  BY DEF TypeOK
<1>4. [k \in 1 .. Used |-> slots[(read_index + k - 1) % N]] = Numbers(nread, Used)
  BY <1>1, <1>2, <1>3, SlotsRead
<1>5. QED
  BY <1>1, <1>4 DEF Queued

(* The same after a step.                                                   *)
LEMMA QueueNumbersNext ==
  ASSUME TypeOK', IInv', Live'
  PROVE  /\ Queued' = Numbers(nread', Used')
         /\ Used' \in 0 .. N - 1 /\ nwritten' = nread' + Used'
<1>1. Used' \in 0 .. N - 1 /\ nwritten' = nread' + Used'
  BY UsedBoundsNext DEF TypeOK, IInv, QueueInv
<1>2. \A s \in Slot : LET d == IF s >= read_index' THEN s - read_index' ELSE s - read_index' + N
                      IN  d < Used' => slots'[s] = nread' + 1 + d
  BY DEF IInv, QueueInv, Dist
<1>3. read_index' \in Slot /\ nread' \in Nat /\ slots' \in [Slot -> Nat]
  BY DEF TypeOK
<1>4. [k \in 1 .. Used' |-> slots'[(read_index' + k - 1) % N]] = Numbers(nread', Used')
  BY <1>1, <1>2, <1>3, SlotsRead
<1>5. QED
  BY <1>1, <1>4 DEF Queued

(* The number of queued blocks, from the number read and written.           *)
LEMMA UsedFrom ==
  ASSUME TypeOK, TypeOK', Used \in 0 .. N - 1, Used' \in 0 .. N - 1,
         nwritten = nread + Used, nwritten' = nread' + Used'
  PROVE  /\ nread \in Nat /\ Used \in Nat /\ Used' \in Nat
         /\ (nread' = nread + 1 /\ nwritten' = nwritten) => Used' = Used - 1
         /\ (nread' = nread /\ nwritten' = nwritten + 1) => Used' = Used + 1
         /\ (nread' = nread /\ nwritten' = nwritten) => Used' = Used
<1> DEFINE u == Used
           v == Used'
<1>1. /\ u \in Nat /\ v \in Nat /\ nwritten = nread + u /\ nwritten' = nread' + v
      /\ nread \in Nat /\ nread' \in Nat
  BY RingAssumption DEF TypeOK
<1> HIDE DEF u, v
<1>2. (nread' = nread + 1 /\ nwritten' = nwritten) => v = u - 1
  BY <1>1
<1>3. (nread' = nread /\ nwritten' = nwritten + 1) => v = u + 1
  BY <1>1
<1>4. (nread' = nread /\ nwritten' = nwritten) => v = u
  BY <1>1
<1>5. QED
  BY <1>1, <1>2, <1>3, <1>4 DEF u, v

(* One step keeps the bounds.                                               *)
LEMMA BoundStep ==
  ASSUME TypeOK, BoundInv, [Next]_vars
  PROVE  BoundInv'
<1> USE RingAssumption DEF TypeOK, idxVars, rVars, wVars, Live, run, BoundInv
<1>1. ASSUME UNCHANGED <<owner, nwritten, late>>,
             wpc' \in {"idle", "off"} <=> wpc \in {"idle", "off"}
      PROVE  BoundInv'
  BY <1>1
<1>2. CASE ReaderStep
  <2>1. UNCHANGED <<owner, nwritten, late>> /\ (wpc' = wpc \/ (wpc = "wait" /\ wpc' = "lock"))
    BY <1>2 DEF ReaderStep, ReaderLoop, ReaderSpin1, ReaderSpin2, ReaderWaits, getReadPtr,
                ReaderChecksRun, peekReadPtr, ReadDone, NotifyIf, Woken
  <2>2. QED
    BY <1>1, <2>1
<1>3. CASE WriterLoop
  BY <1>3 DEF WriterLoop, WriterGoes, MayWrite
<1>4. CASE WriteDone
  BY <1>4 DEF WriteDone, WriterGoes
<1>5. CASE WriterSpin1 \/ WriterSpin2 \/ WriterWaits \/ getWritePtr \/ Fill
  <2>1. /\ UNCHANGED <<owner, nwritten, late>>
        /\ wpc \notin {"idle", "off"} /\ wpc' \notin {"idle", "off"}
    BY <1>5 DEF WriterSpin1, WriterSpin2, WriterWaits, getWritePtr, Fill, WriterGoes
  <2>2. QED
    BY <1>1, <2>1
<1>6. CASE Start
  BY <1>6 DEF Start, OwnerGoes
<1>7. CASE LowerRunFlag
  BY <1>7 DEF LowerRunFlag, OwnerGoes
<1>8. CASE Stop
  BY <1>8 DEF Stop, StopReadIndex, StopFlag, StopWriteIndex, OwnerGoes
<1>9. CASE SpuriousWakeup
  <2>1. UNCHANGED <<owner, nwritten, late>> /\ (wpc' = wpc \/ (wpc = "wait" /\ wpc' = "lock"))
    BY <1>9 DEF SpuriousWakeup, Woken
  <2>2. QED
    BY <1>1, <2>1
<1>10. CASE UNCHANGED vars
  BY <1>1, <1>10 DEF vars
<1>11. QED
  BY <1>2, <1>3, <1>4, <1>5, <1>6, <1>7, <1>8, <1>9, <1>10 DEF Next, WriterStep

-----------------------------------------------------------------------------
(* The steps of the ring as steps of the channel                            *)

(* Releasing a block is taking it from the channel.                         *)
LEMMA ReadIsGet ==
  ASSUME TypeOK, IInv, TypeOK', IInv', Live, ReadDone
  PROVE  Live' /\ ChannelQueue # <<>> /\ ChannelQueue' = Tail(ChannelQueue)
<1>1. Live' /\ nread' = nread + 1 /\ nwritten' = nwritten
  BY DEF ReadDone, Live
<1>2. Queued = Numbers(nread, Used) /\ Used \in 0 .. N - 1 /\ nwritten = nread + Used
  BY QueueNumbers
<1>3. Queued' = Numbers(nread', Used') /\ Used' \in 0 .. N - 1 /\ nwritten' = nread' + Used'
  BY <1>1, QueueNumbersNext
<1>4. Used > 0
  BY RingAssumption DEF IInv, ReaderInv, ReadDone, ReaderGoes, Empty, Used, TypeOK, Slot
<1>5. nread \in Nat /\ Used \in Nat /\ Used' = Used - 1
  BY <1>1, <1>2, <1>3, UsedFrom
<1> DEFINE u == Used
<1> HIDE DEF u
<1>6. Tail(Queued) = Queued'
  <2>1. u \in Nat /\ u > 0 /\ nread \in Nat
    BY <1>4, <1>5 DEF u
  <2>2. Tail(Numbers(nread, u)) = Numbers(nread + 1, u - 1)
    BY <2>1, NumbersTail
  <2>3. QED
    BY <1>1, <1>2, <1>3, <1>5, <2>2 DEF u
<1>7. Queued # <<>>
  <2>1. Len(Numbers(nread, Used)) = Used
    BY <1>5, NumbersSeq
  <2>2. Len(Queued) > 0
    BY <1>2, <1>4, <2>1
  <2>3. QED
    BY <2>2
<1>8. QED
  BY <1>1, <1>6, <1>7 DEF ChannelQueue

(* Publishing a block is putting it into the channel, which has room.       *)
LEMMA WriteIsPut ==
  ASSUME TypeOK, IInv, BoundInv, TypeOK', IInv', Live, WriteDone
  PROVE  /\ Live' /\ Len(ChannelQueue) < N - 1
         /\ \E b \in 1 .. MaxBlocks + LateWrites : ChannelQueue' = Append(ChannelQueue, b)
<1>1. Live' /\ nread' = nread /\ nwritten' = nwritten + 1
  BY DEF WriteDone, Live
<1>2. Queued = Numbers(nread, Used) /\ Used \in 0 .. N - 1 /\ nwritten = nread + Used
  BY QueueNumbers
<1>3. Queued' = Numbers(nread', Used') /\ Used' \in 0 .. N - 1 /\ nwritten' = nread' + Used'
  BY <1>1, QueueNumbersNext
<1>4. Used < N - 1
  <2>1. ~Full /\ write_index \in Slot /\ read_index \in Slot
    BY DEF IInv, WriterInv, WriteDone, WriterGoes, TypeOK
  <2>2. QED
    BY <2>1, SuccSlot, RingAssumption DEF Full, Used, Slot
<1>5. nread \in Nat /\ Used \in Nat /\ Used' = Used + 1
  BY <1>1, <1>2, <1>3, UsedFrom
<1> DEFINE u == Used
<1> HIDE DEF u
<1>6. Queued' = Append(Queued, nwritten + 1)
  <2>1. u \in Nat /\ nread \in Nat /\ nwritten + 1 = nread + u + 1
    BY <1>2, <1>5 DEF u
  <2>2. Append(Numbers(nread, u), nread + u + 1) = Numbers(nread, u + 1)
    BY <2>1, NumbersAppend
  <2>3. QED
    BY <1>1, <1>2, <1>3, <1>5, <2>1, <2>2 DEF u
<1>7. Len(Queued) = Used
  BY <1>2, <1>5, NumbersSeq
<1>8. nwritten + 1 \in 1 .. MaxBlocks + LateWrites
  BY RingAssumption DEF BoundInv, WriteDone, WriterGoes, TypeOK
<1>9. QED
  BY <1>1, <1>4, <1>6, <1>7, <1>8 DEF ChannelQueue

(* Every other step of a live ring that stays live leaves the channel as it is. *)
LEMMA OthersStutter ==
  ASSUME TypeOK, IInv, TypeOK', IInv', Live, Live', [Next]_vars, ~ReadDone, ~WriteDone
  PROVE  ChannelQueue' = ChannelQueue
<1>1. nread' = nread /\ nwritten' = nwritten
  <2>1. CASE ReaderStep
    BY <2>1 DEF ReaderStep, ReaderLoop, ReaderSpin1, ReaderSpin2, ReaderWaits, getReadPtr,
                ReaderChecksRun, peekReadPtr
  <2>2. CASE WriterStep
    BY <2>2 DEF WriterStep, WriterLoop, WriterSpin1, WriterSpin2, WriterWaits, getWritePtr, Fill
  <2>3. CASE Start
    BY <2>3 DEF Start, OwnerGoes, Live
  <2>4. CASE LowerRunFlag \/ Stop \/ SpuriousWakeup \/ UNCHANGED vars
    BY <2>4 DEF LowerRunFlag, Stop, StopReadIndex, StopFlag, StopWriteIndex, SpuriousWakeup, vars
  <2>5. QED
    BY <2>1, <2>2, <2>3, <2>4 DEF Next
<1>2. Queued = Numbers(nread, Used) /\ Used \in 0 .. N - 1 /\ nwritten = nread + Used
  BY QueueNumbers
<1>3. Queued' = Numbers(nread', Used') /\ Used' \in 0 .. N - 1 /\ nwritten' = nread' + Used'
  BY QueueNumbersNext
<1>4. Used' = Used
  BY <1>1, <1>2, <1>3, UsedFrom
<1>5. QED
  BY <1>1, <1>2, <1>3, <1>4 DEF ChannelQueue

(* Start opens the ring empty.                                              *)
LEMMA StartIsOpen ==
  ASSUME TypeOK', IInv', ~Live, Live', [Next]_vars
  PROVE  ChannelQueue' = <<>>
<1>1. Start
  BY DEF Live, Next, ReaderStep, ReaderLoop, ReaderSpin1, ReaderSpin2, ReaderWaits, getReadPtr,
         ReaderChecksRun, peekReadPtr, ReadDone, WriterStep, WriterLoop, WriterSpin1,
         WriterSpin2, WriterWaits, getWritePtr, Fill, WriteDone, LowerRunFlag, Stop,
         StopReadIndex, StopFlag, StopWriteIndex, OwnerGoes, SpuriousWakeup, vars
<1>2. Used' = 0
  BY <1>1 DEF Start, Used
<1>3. Queued' = <<>>
  BY <1>2 DEF Queued
<1>4. QED
  BY <1>3 DEF ChannelQueue

(* The ring implements a bounded first-in first-out channel, for every size *)
(* of the ring: what PacketRead, r2iqThreadf and OnDataPacket rely on.      *)
THEOREM Implements == Spec => IsChannel
<1>1. Init => Channel!ChInit
  BY DEF Init, Channel!ChInit, Live
<1>2. ASSUME TypeOK, IInv, BoundInv, TypeOK', IInv', [Next]_vars
      PROVE  [Channel!ChNext]_(Channel!chVars)
  <2>1. CASE Live /\ Live' /\ ReadDone
    <3>1. Channel!Get
      BY <1>2, <2>1, ReadIsGet DEF Channel!Get, Channel!CanGet, ChannelQueue
    <3>2. QED
      BY <3>1 DEF Channel!ChNext
  <2>2. CASE Live /\ Live' /\ WriteDone
    <3>1. \E b \in 1 .. MaxBlocks + LateWrites : Channel!Put(b)
      BY <1>2, <2>2, WriteIsPut DEF Channel!Put, Channel!CanPut, ChannelQueue
    <3>2. QED
      BY <3>1 DEF Channel!ChNext
  <2>3. CASE Live /\ Live' /\ ~ReadDone /\ ~WriteDone
    <3>1. ChannelQueue' = ChannelQueue
      BY <1>2, <2>3, OthersStutter
    <3>2. QED
      BY <2>3, <3>1 DEF Channel!chVars, ChannelQueue
  <2>4. CASE ~Live /\ Live'
    <3>1. Channel!Open
      BY <1>2, <2>4, StartIsOpen DEF Channel!Open, ChannelQueue
    <3>2. QED
      BY <3>1 DEF Channel!ChNext
  <2>5. CASE Live /\ ~Live'
    <3>1. Channel!Close
      BY <2>5 DEF Channel!Close
    <3>2. QED
      BY <3>1 DEF Channel!ChNext
  <2>6. CASE ~Live /\ ~Live'
    <3>1. UNCHANGED <<Live, ChannelQueue>>
      BY <2>6 DEF ChannelQueue, Live
    <3>2. QED
      BY <3>1 DEF Channel!chVars, ChannelQueue
  <2>7. QED
    BY <2>1, <2>2, <2>3, <2>4, <2>5, <2>6
<1>3. Init => BoundInv
  BY DEF Init, BoundInv, Live
<1>4. TypeOK /\ BoundInv /\ [Next]_vars => BoundInv'
  BY BoundStep
<1>5. QED
  BY <1>1, <1>2, <1>3, <1>4, Inductive, PTL DEF Spec, IsChannel, Channel!ChSpec
=============================================================================
