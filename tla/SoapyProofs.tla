----------------------------- MODULE SoapyProofs -----------------------------
(***************************************************************************)
(* Proofs about SoapyStream.tla for every number of buffers, of an         *)
(* application that does not restart the stream in the middle of a buffer. *)
(*                                                                         *)
(* None of the properties is inductive: they rest on where the circle's    *)
(* tail is, PlaceInv, which counts the buffer being read and the one       *)
(* written but not counted yet, and on what the buffers between hold,      *)
(* DataInv.                                                                *)
(***************************************************************************)
EXTENDS SoapyStream, TLAPS

(* The oldest buffer in use, and how many are in use from there.            *)
Base   == IF Holding THEN _currentHandle ELSE _buf_head
Filled == _buf_count + (IF prod = "count" THEN 1 ELSE 0)

Wrap(x) == IF x < numBuffers THEN x ELSE x - numBuffers

(* How far a buffer is from the oldest in use.                              *)
Dist(h) == IF h >= Base THEN h - Base ELSE h - Base + numBuffers

(* Where both threads may be and what they have seen.                       *)
PlaceInv ==
  /\ app \in {"idle", "copy", "release"} \/ bufferedElems = 0
  /\ app = "copy" => bufferedElems # 0
  /\ app = "release" => bufferedElems = 0
  /\ app = "take" \/ Holding => _buf_count >= 1
  /\ Holding => _buf_head = Wrap(_currentHandle + 1)
  /\ prod \in {"write", "count"} => _buf_count < numBuffers
  /\ _buf_tail = Wrap(Base + Filled)
  /\ app = "start" => resetBuffer
  /\ app \in {"look", "lock", "wait", "woken", "take"} => ~resetBuffer

(* Not yet acquired.                                                        *)
Unread(h) == Dist(h) < Filled /\ (Holding => h # _currentHandle)

(* The buffers in use hold ever newer blocks; those not acquired yet are    *)
(* newer than the last acquired, and, unless a flush is still to come, of   *)
(* the running session.                                                     *)
DataInv ==
  /\ taken <= made /\ since <= made
  /\ prod = "write" => taken < made
  /\ prod \in {"write", "count"} => since < made
  /\ \A h \in Handle : Dist(h) < Filled =>
       /\ _buffs[h] <= made
       /\ prod = "write" => _buffs[h] < made
       /\ prod = "count" /\ Dist(h) = _buf_count => _buffs[h] = made
  /\ \A h, k \in Handle : Dist(h) < Dist(k) /\ Dist(k) < Filled => _buffs[h] < _buffs[k]
  /\ \A h \in Handle : Unread(h) =>
       /\ taken < _buffs[h]
       /\ ~resetBuffer \/ app = "unreset" => since < _buffs[h]

IInv == TypeOK /\ PlaceInv /\ HeldStable /\ DataInv

(* A block lost after block p shows: the flag is set and no flush that will *)
(* clear it is under way, or the block was lost during one.                 *)
Shown(p) == unflagged > p \/ (_overflowEvent /\ app \notin {"unreset", "unflag"})

(* Nothing is asked of the first block after OVERFLOW or of a session.      *)
Exempt == taken <= since \/ told \/ app = "unflag"

(* The place of the first buffer not acquired yet.                          *)
FirstUnread == IF Holding THEN 1 ELSE 0

(* The number of the next block that is written or dropped.                 *)
NextMade == IF prod \in {"write", "drop"} THEN made ELSE made + 1

(* Unless a flush is still to come, between any two blocks that follow each *)
(* other in the circle, before the first and after the last, none is        *)
(* missing or the loss shows.                                               *)
GapInv ==
  /\ app = "unreset" => resetBuffer
  /\ resetBuffer /\ app # "start" => taken <= since
  /\ (~resetBuffer \/ app = "unreset") =>
       /\ \A h \in Handle : Dist(h) = FirstUnread /\ FirstUnread < Filled =>
            Exempt \/ Shown(taken) \/ _buffs[h] = taken + 1
       /\ \A h, k \in Handle : FirstUnread <= Dist(h) /\ Dist(k) = Dist(h) + 1 /\ Dist(k) < Filled =>
            Shown(_buffs[h]) \/ _buffs[k] = _buffs[h] + 1
       /\ prod # "off" =>
            /\ Filled = FirstUnread => Exempt \/ Shown(taken) \/ NextMade = taken + 1
            /\ \A h \in Handle : FirstUnread <= Dist(h) /\ Dist(h) = Filled - 1 =>
                 Shown(_buffs[h]) \/ NextMade = _buffs[h] + 1

-----------------------------------------------------------------------------
(* The indices of the circle wrap once at most.                             *)
LEMMA WrapMod ==
  ASSUME NEW x \in Nat, x < 2 * numBuffers
  PROVE  x % numBuffers = Wrap(x) /\ Wrap(x) \in Handle
<1>1. CASE x < numBuffers
  BY <1>1, SoapyAssumption, SMT DEF Wrap, Handle
<1>2. CASE x >= numBuffers
  <2> DEFINE y == x - numBuffers
  <2>1. y \in Nat /\ y < numBuffers /\ x = y + numBuffers
    BY <1>2, SoapyAssumption, SMT
  <2>2. (y + numBuffers) % numBuffers = y
    BY <2>1, SoapyAssumption, SMT
  <2>3. QED
    BY <2>1, <2>2, <1>2, SoapyAssumption, SMT DEF Wrap, Handle
<1>3. QED
  BY <1>1, <1>2, SoapyAssumption, SMT

(* What TypeOK says, without the set of numbers.                            *)
LEMMA Types ==
  ASSUME TypeOK
  PROVE  made \in Nat /\ session \in Nat /\ since \in Nat /\ taken \in Nat
  BY DEF TypeOK

(* Every step keeps every type. *)
LEMMA TypeStep ==
  ASSUME TypeOK, PlaceInv, [Next]_vars
  PROVE  TypeOK'
<1> USE DEF TypeOK, bufVars, readVars, ghosts, ProdGoes, AppGoes
<1>0. made \in Nat /\ session \in Nat /\ since \in Nat /\ taken \in Nat
  BY Types
<1>1. CASE setupStream
  <2>1. 0 \in Handle /\ 0 \in 0 .. numBuffers
    BY SoapyAssumption, SMT DEF Handle
  <2>2. QED
    BY <1>1, <2>1 DEF setupStream
<1>2. CASE readStream
  BY <1>2, SoapyAssumption, SMT DEF readStream
<1>3. CASE AcquireTimesOut
  BY <1>3, SMT DEF AcquireTimesOut
<1>4. CASE activateStream
  <2>1. 0 \in 0 .. BlockElems
    BY SoapyAssumption, SMT
  <2>2. QED
    BY <1>4, <2>1 DEF activateStream
<1>5. CASE RadioStarts \/ deactivateStream
  BY <1>0, <1>5, SMT DEF RadioStarts, deactivateStream
<1>6. CASE CallbackChecksCount
  BY <1>0, <1>6, SMT DEF CallbackChecksCount
<1>7. CASE CallbackDrops
  BY <1>0, <1>7 DEF CallbackDrops
<1>8. CASE CallbackWrites
  <2>1. _buf_tail + 1 \in Nat /\ _buf_tail + 1 < 2 * numBuffers
    BY SoapyAssumption, SMT DEF Handle
  <2>2. (_buf_tail + 1) % numBuffers \in Handle
    BY <2>1, WrapMod
  <2>3. QED
    BY <1>0, <1>8, <2>2, SMT DEF CallbackWrites
<1>9. CASE CallbackCounts
  BY <1>9, SoapyAssumption, SMT DEF CallbackCounts, PlaceInv
<1>10. CASE CallbackNotifies
  BY <1>10, SMT DEF CallbackNotifies
<1>11. CASE AcquireResets \/ AcquireSeesOverflow
  <2>1. _buf_head + _buf_count \in Nat /\ _buf_head + _buf_count < 2 * numBuffers
    BY SoapyAssumption, SMT DEF Handle
  <2>2. (_buf_head + _buf_count) % numBuffers \in Handle /\ 0 \in 0 .. numBuffers
    BY <2>1, WrapMod, SoapyAssumption, SMT
  <2>3. QED
    BY <1>11, <2>2 DEF AcquireResets, AcquireSeesOverflow, Flush
<1>12. CASE AcquireClearsReset \/ AcquireReturnsOverflow
  BY <1>12 DEF AcquireClearsReset, AcquireReturnsOverflow
<1>13. CASE AcquirePasses \/ AcquireLooks \/ AcquireWaits
  BY <1>13, SMT DEF AcquirePasses, AcquireLooks, AcquireWaits
<1>14. CASE AcquireTakes
  <2>1. _buf_head + 1 \in Nat /\ _buf_head + 1 < 2 * numBuffers
    BY SoapyAssumption, SMT DEF Handle
  <2>2. (_buf_head + 1) % numBuffers \in Handle /\ BlockElems \in 0 .. BlockElems
    BY <2>1, WrapMod, SoapyAssumption, SMT
  <2>3. _buffs[_buf_head] \in Nat
    BY SMT
  <2>4. QED
    BY <1>0, <1>14, <2>2, <2>3 DEF AcquireTakes
<1>15. CASE ReadCopies
  BY <1>15, SoapyAssumption, SMT DEF ReadCopies, Smaller
<1>16. CASE releaseReadBuffer
  <2>1. _buf_count >= 1 /\ _buf_count' = _buf_count - 1
    BY <1>16 DEF releaseReadBuffer, PlaceInv, Holding
  <2>2. _buf_count' \in 0 .. numBuffers
    BY <2>1, SoapyAssumption, SMT
  <2>3. QED
    BY <1>16, <2>2 DEF releaseReadBuffer
<1>17. CASE UNCHANGED vars
  BY <1>17 DEF vars
<1>18. QED
  BY <1>1, <1>2, <1>3, <1>4, <1>5, <1>6, <1>7, <1>8, <1>9, <1>10, <1>11, <1>12, <1>13, <1>14,
     <1>15, <1>16, <1>17 DEF Next, CallbackStep, ReadStep

(* Where the threads may be.                                                *)
LEMMA PlaceStep ==
  ASSUME ~RestartMidBuffer, TypeOK, PlaceInv, [Next]_vars
  PROVE  PlaceInv'
<1>0. /\ numBuffers \in Nat /\ numBuffers > 0 /\ BlockElems \in Nat /\ BlockElems > 0
      /\ _buf_head \in Nat /\ _buf_head < numBuffers
      /\ _buf_tail \in Nat /\ _buf_tail < numBuffers
      /\ _buf_count \in Nat /\ _buf_count <= numBuffers
      /\ _currentHandle \in Nat /\ _currentHandle < numBuffers
      /\ bufferedElems \in Nat /\ wanted \in Nat
  BY SoapyAssumption, SMT DEF TypeOK, Handle
<1> USE <1>0 DEF PlaceInv, bufVars, readVars, ghosts, ProdGoes, AppGoes, Base, Filled, Holding,
                 Wrap
<1>1. CASE setupStream
  BY <1>1, SMT DEF setupStream
<1>2. CASE readStream
  BY <1>2, SMT DEF readStream
<1>3. CASE AcquireTimesOut
  BY <1>3, SMT DEF AcquireTimesOut
<1>4. CASE activateStream
  BY <1>4, SMT DEF activateStream, MayRestart
<1>5. CASE RadioStarts \/ deactivateStream
  BY <1>5, SMT DEF RadioStarts, deactivateStream
<1>6. CASE CallbackChecksCount
  BY <1>6, SMT DEF CallbackChecksCount
<1>7. CASE CallbackDrops
  BY <1>7, SMT DEF CallbackDrops
<1>8. CASE CallbackWrites
  <2>1. _buf_tail + 1 \in Nat /\ _buf_tail + 1 < 2 * numBuffers
    BY SMT
  <2>2. (_buf_tail + 1) % numBuffers = Wrap(_buf_tail + 1)
    BY <2>1, WrapMod
  <2>3. QED
    BY <1>8, <2>2, SMT DEF CallbackWrites
<1>9. CASE CallbackCounts
  BY <1>9, SMT DEF CallbackCounts
<1>10. CASE CallbackNotifies
  BY <1>10, SMT DEF CallbackNotifies
<1>11. CASE AcquireResets \/ AcquireSeesOverflow
  <2>1. _buf_head + _buf_count \in Nat /\ _buf_head + _buf_count < 2 * numBuffers
    BY SMT
  <2>2. (_buf_head + _buf_count) % numBuffers = Wrap(_buf_head + _buf_count)
    BY <2>1, WrapMod
  <2>3. QED
    BY <1>11, <2>2, SMT DEF AcquireResets, AcquireSeesOverflow, Flush
<1>12. CASE AcquireClearsReset \/ AcquireReturnsOverflow
  BY <1>12, SMT DEF AcquireClearsReset, AcquireReturnsOverflow
<1>13. CASE AcquirePasses \/ AcquireLooks \/ AcquireWaits
  BY <1>13, SMT DEF AcquirePasses, AcquireLooks, AcquireWaits
<1>14. CASE AcquireTakes
  <2>1. _buf_head + 1 \in Nat /\ _buf_head + 1 < 2 * numBuffers
    BY SMT
  <2>2. (_buf_head + 1) % numBuffers = Wrap(_buf_head + 1)
    BY <2>1, WrapMod
  <2>3. QED
    BY <1>14, <2>2, SMT DEF AcquireTakes
<1>15. CASE ReadCopies
  BY <1>15, SMT DEF ReadCopies, Smaller
<1>16. CASE releaseReadBuffer
  BY <1>16, SMT DEF releaseReadBuffer
<1>17. CASE UNCHANGED vars
  BY <1>17, SMT DEF vars
<1>18. QED
  BY <1>1, <1>2, <1>3, <1>4, <1>5, <1>6, <1>7, <1>8, <1>9, <1>10, <1>11, <1>12, <1>13, <1>14,
     <1>15, <1>16, <1>17 DEF Next, CallbackStep, ReadStep

(* Callback writes behind the buffers in use, never into the one held.      *)
LEMMA HeldStep ==
  ASSUME ~RestartMidBuffer, TypeOK, PlaceInv, HeldStable, [Next]_vars
  PROVE  HeldStable'
<1>0. /\ numBuffers \in Nat /\ numBuffers > 0 /\ BlockElems \in Nat /\ BlockElems > 0
      /\ _buf_head \in Nat /\ _buf_head < numBuffers
      /\ _buf_tail \in Nat /\ _buf_tail < numBuffers
      /\ _buf_count \in Nat /\ _buf_count <= numBuffers
      /\ _currentHandle \in Nat /\ _currentHandle < numBuffers
      /\ bufferedElems \in Nat /\ wanted \in Nat
  BY SoapyAssumption, SMT DEF TypeOK, Handle
<1> USE <1>0 DEF PlaceInv, HeldStable, bufVars, readVars, ghosts, ProdGoes, AppGoes, Holding
<1>1. CASE setupStream \/ readStream \/ AcquireTimesOut \/ activateStream \/ RadioStarts
           \/ deactivateStream
  BY <1>1, SMT DEF setupStream, readStream, AcquireTimesOut, activateStream, RadioStarts,
     deactivateStream
<1>2. CASE CallbackChecksCount \/ CallbackDrops \/ CallbackCounts \/ CallbackNotifies
  BY <1>2, SMT DEF CallbackChecksCount, CallbackDrops, CallbackCounts, CallbackNotifies
<1>3. CASE CallbackWrites
  <2>1. Holding => _buf_tail # _currentHandle
    BY <1>3, SMT DEF CallbackWrites, Base, Filled, Wrap
  <2>2. _buf_tail \in Handle /\ _currentHandle \in Handle /\ _buffs \in [Handle -> Nat]
    BY DEF TypeOK
  <2>3. QED
    BY <1>3, <2>1, <2>2, SMT DEF CallbackWrites
<1>4. CASE AcquireTakes
  BY <1>4, SMT DEF AcquireTakes
<1>5. CASE ReadCopies \/ releaseReadBuffer
  BY <1>5, SMT DEF ReadCopies, releaseReadBuffer
<1>6. CASE \/ AcquireResets \/ AcquireSeesOverflow \/ AcquireClearsReset
           \/ AcquireReturnsOverflow \/ AcquirePasses \/ AcquireLooks \/ AcquireWaits
  BY <1>6, SMT DEF AcquireResets, AcquireSeesOverflow, AcquireClearsReset,
     AcquireReturnsOverflow, AcquirePasses, AcquireLooks, AcquireWaits, Flush
<1>7. CASE UNCHANGED vars
  BY <1>7, SMT DEF vars
<1>8. QED
  BY <1>1, <1>2, <1>3, <1>4, <1>5, <1>6, <1>7 DEF Next, CallbackStep, ReadStep

(* What the buffers hold.                                                   *)
LEMMA DataStep ==
  ASSUME ~RestartMidBuffer, TypeOK, PlaceInv, PlaceInv', DataInv, [Next]_vars
  PROVE  DataInv'
<1>0. /\ numBuffers \in Nat /\ numBuffers > 0 /\ BlockElems \in Nat /\ BlockElems > 0
      /\ _buf_head \in Nat /\ _buf_head < numBuffers
      /\ _buf_tail \in Nat /\ _buf_tail < numBuffers
      /\ _buf_count \in Nat /\ _buf_count <= numBuffers
      /\ _currentHandle \in Nat /\ _currentHandle < numBuffers
      /\ bufferedElems \in Nat /\ wanted \in Nat
  BY SoapyAssumption, SMT DEF TypeOK, Handle
<1>n. made \in Nat /\ since \in Nat /\ taken \in Nat
  BY Types
<1> USE <1>0, <1>n DEF PlaceInv, DataInv, bufVars, readVars, ghosts, ProdGoes, AppGoes, Base,
                       Filled, Holding, Wrap, Dist, Unread, Handle
<1>t. _buffs \in [Handle -> Nat]
  BY DEF TypeOK
<1>1. CASE setupStream
  BY <1>1, <1>t, SMTT(30) DEF setupStream
<1>2. CASE readStream
  BY <1>2, <1>t, SMTT(30) DEF readStream
<1>3. CASE AcquireTimesOut
  BY <1>3, <1>t, SMTT(30) DEF AcquireTimesOut
<1>4. CASE activateStream
  BY <1>4, <1>t, SMTT(30) DEF activateStream, MayRestart
<1>5. CASE RadioStarts \/ deactivateStream
  <2>1. CASE RadioStarts
    BY <2>1, <1>t, SMTT(30) DEF RadioStarts
  <2>2. CASE deactivateStream
    BY <2>2, <1>t, SMTT(30) DEF deactivateStream
  <2>3. QED
    BY <1>5, <2>1, <2>2
<1>6. CASE CallbackChecksCount
  BY <1>6, <1>t, SMTT(30) DEF CallbackChecksCount
<1>7. CASE CallbackDrops
  BY <1>7, <1>t, SMTT(30) DEF CallbackDrops
<1>8. CASE CallbackWrites
  BY <1>8, <1>t, SMTT(30) DEF CallbackWrites
<1>9. CASE CallbackCounts
  BY <1>9, <1>t, SMTT(30) DEF CallbackCounts
<1>10. CASE CallbackNotifies
  BY <1>10, <1>t, SMTT(30) DEF CallbackNotifies
<1>11. CASE AcquireResets \/ AcquireSeesOverflow
  <2>1. _buf_head + _buf_count \in Nat /\ _buf_head + _buf_count < 2 * numBuffers
    BY SMT
  <2>2. (_buf_head + _buf_count) % numBuffers = Wrap(_buf_head + _buf_count)
    BY <2>1, WrapMod
  <2>3. CASE AcquireResets
    BY <2>2, <2>3, <1>t, SMTT(30) DEF AcquireResets, Flush
  <2>4. CASE AcquireSeesOverflow
    BY <2>2, <2>4, <1>t, SMTT(30) DEF AcquireSeesOverflow, Flush
  <2>5. QED
    BY <1>11, <2>3, <2>4
<1>12. CASE AcquireClearsReset \/ AcquireReturnsOverflow
  <2>1. CASE AcquireClearsReset
    BY <2>1, <1>t, SMTT(30) DEF AcquireClearsReset
  <2>2. CASE AcquireReturnsOverflow
    BY <2>2, <1>t, SMTT(30) DEF AcquireReturnsOverflow
  <2>3. QED
    BY <1>12, <2>1, <2>2
<1>13. CASE AcquirePasses \/ AcquireLooks \/ AcquireWaits
  <2>1. CASE AcquirePasses
    BY <2>1, <1>t, SMTT(30) DEF AcquirePasses
  <2>2. CASE AcquireLooks
    BY <2>2, <1>t, SMTT(30) DEF AcquireLooks
  <2>3. CASE AcquireWaits
    BY <2>3, <1>t, SMTT(30) DEF AcquireWaits
  <2>4. QED
    BY <1>13, <2>1, <2>2, <2>3
<1>14. CASE AcquireTakes
  BY <1>14, <1>t, SMTT(30) DEF AcquireTakes
<1>15. CASE ReadCopies
  BY <1>15, <1>t, SMTT(30) DEF ReadCopies, Smaller
<1>16. CASE releaseReadBuffer
  BY <1>16, <1>t, SMTT(30) DEF releaseReadBuffer
<1>17. CASE UNCHANGED vars
  BY <1>17, <1>t, SMTT(30) DEF vars
<1>18. QED
  BY <1>1, <1>2, <1>3, <1>4, <1>5, <1>6, <1>7, <1>8, <1>9, <1>10, <1>11, <1>12, <1>13, <1>14,
     <1>15, <1>16, <1>17 DEF Next, CallbackStep, ReadStep

-----------------------------------------------------------------------------
(* The whole invariant, of an application that reads a buffer to its end    *)
(* before it starts the stream again.                                       *)
LEMMA InitIInv == Init => IInv
<1> SUFFICES ASSUME Init PROVE IInv
  OBVIOUS
<1>1. 0 \in Handle /\ 0 \in 0 .. numBuffers /\ 0 \in 0 .. BlockElems
  BY SoapyAssumption, SMT DEF Handle
<1>2. TypeOK
  <2>1. _buffs \in [Handle -> Nat]
    BY SMT DEF Init
  <2>2. {made, session, since, taken} \subseteq Nat /\ unflagged \in Nat
    BY SMT DEF Init
  <2>3. QED
    BY <1>1, <2>1, <2>2 DEF Init, TypeOK
<1>3. HeldStable
  BY SMT DEF Init, HeldStable, Holding
<1>4. PlaceInv
  BY SoapyAssumption, SMT DEF Init, PlaceInv, Base, Filled, Holding, Wrap
<1>5. DataInv
  BY SoapyAssumption, SMT DEF Init, DataInv, Base, Filled, Holding, Dist, Unread, Handle
<1>6. QED
  BY <1>2, <1>3, <1>4, <1>5 DEF IInv

(* The invariant is inductive as long as no session starts with part of a   *)
(* buffer unread; one that does moves the head one buffer too far.          *)
THEOREM Inductive == ASSUME ~RestartMidBuffer PROVE Spec => []IInv
<1>1. IInv /\ [Next]_vars => IInv'
  BY TypeStep, PlaceStep, HeldStep, DataStep DEF IInv
<1>2. QED
  BY <1>1, InitIInv, PTL DEF Spec

(* Types: neither thread counts _buf_count out of 0 .. numBuffers.          *)
THEOREM TypeCorrect == ASSUME ~RestartMidBuffer PROVE Spec => []TypeOK
<1>1. IInv => TypeOK
  BY DEF IInv
<1>2. QED
  BY <1>1, Inductive, PTL

(* The buffer readStream copies from is not written to meanwhile.           *)
THEOREM HeldSafe == ASSUME ~RestartMidBuffer PROVE Spec => []HeldStable
<1>1. IInv => HeldStable
  BY DEF IInv
<1>2. QED
  BY <1>1, Inductive, PTL

(* Each buffer acquired holds a newer block than the one before, and one of *)
(* the running session.                                                     *)
THEOREM Fresh == ASSUME ~RestartMidBuffer PROVE Spec => FreshBlocks
<1>1. IInv /\ [Next]_vars =>
        [app = "take" /\ app' = "copy" => taken' > taken /\ taken' > since]_vars
  <2> SUFFICES ASSUME IInv, [Next]_vars, app = "take", app' = "copy"
               PROVE  taken' > taken /\ taken' > since
    OBVIOUS
  <2>1. AcquireTakes
    BY SMT DEF Next, vars, setupStream, readStream, AcquireTimesOut, activateStream, RadioStarts,
       deactivateStream, CallbackChecksCount, CallbackStep, CallbackDrops, CallbackWrites,
       CallbackCounts, CallbackNotifies, ReadStep, AcquireResets, AcquireClearsReset,
       AcquireSeesOverflow, AcquireReturnsOverflow, AcquirePasses, AcquireLooks, AcquireWaits,
       ReadCopies, releaseReadBuffer, AppGoes
  <2>2. _buf_head \in Handle /\ _buf_count >= 1 /\ _buf_count \in Nat /\ numBuffers \in Nat
        /\ ~Holding /\ ~resetBuffer /\ taken' = _buffs[_buf_head]
    BY <2>1, SoapyAssumption, SMT DEF IInv, TypeOK, PlaceInv, Holding, AcquireTakes
  <2>3. Unread(_buf_head)
    BY <2>2, SMT DEF Unread, Dist, Base, Filled, Handle
  <2>4. taken < _buffs[_buf_head] /\ since < _buffs[_buf_head]
    BY <2>2, <2>3 DEF IInv, DataInv
  <2>5. QED
    BY <2>2, <2>4, Types, SMT DEF IInv, TypeOK
<1>2. QED
  BY <1>1, Inductive, PTL DEF Spec, FreshBlocks

(* The reader is never left asleep with a buffer filled, whenever the       *)
(* application restarts the stream.                                         *)
THEOREM Wakeup == Spec => []NoLostWakeup
<1>1. Init => NoLostWakeup
  BY DEF Init, NoLostWakeup
<1>2. NoLostWakeup /\ [Next]_vars => NoLostWakeup'
  <2> SUFFICES ASSUME NoLostWakeup, [Next]_vars
               PROVE  NoLostWakeup'
    OBVIOUS
  <2> USE DEF NoLostWakeup, bufVars, readVars, ghosts, ProdGoes, AppGoes
  <2>1. CASE setupStream \/ readStream \/ AcquireTimesOut
    BY <2>1, SMT DEF setupStream, readStream, AcquireTimesOut
  <2>2. CASE activateStream \/ RadioStarts \/ deactivateStream
    BY <2>2, SMT DEF activateStream, RadioStarts, deactivateStream
  <2>3. CASE CallbackChecksCount \/ CallbackStep
    BY <2>3, SMT DEF CallbackChecksCount, CallbackStep, CallbackDrops, CallbackWrites,
       CallbackCounts, CallbackNotifies
  <2>4. CASE ReadStep
    BY <2>4, SMT DEF ReadStep, AcquireResets, AcquireClearsReset, AcquireSeesOverflow,
       AcquireReturnsOverflow, AcquirePasses, AcquireLooks, AcquireWaits, AcquireTakes,
       ReadCopies, releaseReadBuffer, Flush
  <2>5. CASE UNCHANGED vars
    BY <2>5, SMT DEF vars
  <2>6. QED
    BY <2>1, <2>2, <2>3, <2>4, <2>5 DEF Next
<1>3. QED
  BY <1>1, <1>2, PTL DEF Spec

-----------------------------------------------------------------------------
(* What a lost block leaves behind.                                         *)
LEMMA GapStep ==
  ASSUME ~RestartMidBuffer, IInv, GapInv, [Next]_vars
  PROVE  GapInv'
<1>0. /\ numBuffers \in Nat /\ numBuffers > 0 /\ BlockElems \in Nat /\ BlockElems > 0
      /\ _buf_head \in Nat /\ _buf_head < numBuffers
      /\ _buf_tail \in Nat /\ _buf_tail < numBuffers
      /\ _buf_count \in Nat /\ _buf_count <= numBuffers
      /\ _currentHandle \in Nat /\ _currentHandle < numBuffers
      /\ bufferedElems \in Nat /\ wanted \in Nat
  BY SoapyAssumption, SMT DEF IInv, TypeOK, Handle
<1>n. made \in Nat /\ since \in Nat /\ taken \in Nat /\ unflagged \in Nat
  BY Types DEF IInv, TypeOK
<1> USE <1>0, <1>n DEF PlaceInv, DataInv, GapInv, bufVars, readVars, ghosts, ProdGoes, AppGoes, Base,
                       Filled, Holding, Wrap, Dist, Unread, Handle, Shown, Exempt,
                       FirstUnread, NextMade
<1>t. _buffs \in [Handle -> Nat]
  BY DEF IInv, TypeOK
<1>i. PlaceInv /\ DataInv
  BY DEF IInv
<1>1. CASE setupStream
  BY <1>1, <1>i, <1>t, SMTT(60) DEF setupStream
<1>2. CASE readStream
  BY <1>2, <1>i, <1>t, SMTT(60) DEF readStream
<1>3. CASE AcquireTimesOut
  BY <1>3, <1>i, <1>t, SMTT(60) DEF AcquireTimesOut
<1>4. CASE activateStream
  BY <1>4, <1>i, <1>t, SMTT(60) DEF activateStream, MayRestart
<1>5. CASE RadioStarts
  BY <1>5, <1>i, <1>t, SMTT(60) DEF RadioStarts
<1>6. CASE deactivateStream
  BY <1>6, <1>i, <1>t, SMTT(60) DEF deactivateStream
<1>7. CASE CallbackChecksCount
  BY <1>7, <1>i, <1>t, SMTT(60) DEF CallbackChecksCount
<1>8. CASE CallbackDrops
  BY <1>8, <1>i, <1>t, SMTT(150) DEF CallbackDrops
<1>9. CASE CallbackWrites
  <2>1. _buf_tail + 1 \in Nat /\ _buf_tail + 1 < 2 * numBuffers
    BY <1>i, SMT
  <2>2. (_buf_tail + 1) % numBuffers = Wrap(_buf_tail + 1)
    BY <2>1, WrapMod
  <2>3. QED
    BY <1>9, <1>i, <1>t, <2>2, SMTT(150) DEF CallbackWrites
<1>10. CASE CallbackCounts
  BY <1>10, <1>i, <1>t, SMTT(150) DEF CallbackCounts
<1>11. CASE CallbackNotifies
  BY <1>11, <1>i, <1>t, SMTT(150) DEF CallbackNotifies
<1>12. CASE AcquireResets
  <2>1. _buf_head + _buf_count \in Nat /\ _buf_head + _buf_count < 2 * numBuffers
    BY <1>i, SMT
  <2>2. (_buf_head + _buf_count) % numBuffers = Wrap(_buf_head + _buf_count)
    BY <2>1, WrapMod
  <2>3. QED
    BY <1>12, <1>i, <1>t, <2>2, SMTT(150) DEF AcquireResets, Flush
<1>13. CASE AcquireSeesOverflow
  <2>1. _buf_head + _buf_count \in Nat /\ _buf_head + _buf_count < 2 * numBuffers
    BY <1>i, SMT
  <2>2. (_buf_head + _buf_count) % numBuffers = Wrap(_buf_head + _buf_count)
    BY <2>1, WrapMod
  <2>3. QED
    BY <1>13, <1>i, <1>t, <2>2, SMTT(150) DEF AcquireSeesOverflow, Flush
<1>14. CASE AcquireClearsReset
  BY <1>14, <1>i, <1>t, SMTT(150) DEF AcquireClearsReset
<1>15. CASE AcquireReturnsOverflow
  BY <1>15, <1>i, <1>t, SMTT(150) DEF AcquireReturnsOverflow
<1>16. CASE AcquirePasses
  BY <1>16, <1>i, <1>t, SMTT(150) DEF AcquirePasses
<1>17. CASE AcquireLooks
  BY <1>17, <1>i, <1>t, SMTT(150) DEF AcquireLooks
<1>18. CASE AcquireWaits
  BY <1>18, <1>i, <1>t, SMTT(150) DEF AcquireWaits
<1>19. CASE AcquireTakes
  <2>1. _buf_head + 1 \in Nat /\ _buf_head + 1 < 2 * numBuffers
    BY <1>i, SMT
  <2>2. (_buf_head + 1) % numBuffers = Wrap(_buf_head + 1)
    BY <2>1, WrapMod
  <2>3. QED
    BY <1>19, <1>i, <1>t, <2>2, SMTT(60) DEF AcquireTakes
<1>20. CASE ReadCopies
  BY <1>20, <1>i, <1>t, SMTT(60) DEF ReadCopies, Smaller
<1>21. CASE releaseReadBuffer
  BY <1>21, <1>i, <1>t, SMTT(60) DEF releaseReadBuffer
<1>22. CASE UNCHANGED vars
  BY <1>22, <1>i, <1>t, SMT DEF vars
<1>23. QED
  BY <1>1, <1>2, <1>3, <1>4, <1>5, <1>6, <1>7, <1>8, <1>9, <1>10, <1>11, <1>12, <1>13, <1>14, <1>15, <1>16, <1>17, <1>18, <1>19, <1>20, <1>21, <1>22 DEF Next, CallbackStep, ReadStep

(* Blocks lost between two acquired ones of a session are announced before  *)
(* the second, or by the flag or the block the property excuses.            *)
THEOREM GapShows == ASSUME ~RestartMidBuffer PROVE Spec => GapReported
<1>1. Init => GapInv
  BY SoapyAssumption, SMT DEF Init, GapInv, Base, Filled, Holding, Dist, Handle, Shown, Exempt,
     FirstUnread, NextMade
<1>2. IInv /\ GapInv /\ [Next]_vars => GapInv'
  BY GapStep
<1>3. IInv /\ GapInv /\ [Next]_vars =>
        [app = "take" /\ app' = "copy" /\ taken > since /\ taken' > taken + 1
           => told \/ _overflowEvent \/ unflagged > taken]_vars
  <2> SUFFICES ASSUME IInv, GapInv, [Next]_vars, app = "take", app' = "copy", taken > since,
                      taken' > taken + 1
               PROVE  told \/ _overflowEvent \/ unflagged > taken
    OBVIOUS
  <2>1. AcquireTakes
    BY SMT DEF Next, vars, setupStream, readStream, AcquireTimesOut, activateStream, RadioStarts,
       deactivateStream, CallbackChecksCount, CallbackStep, CallbackDrops, CallbackWrites,
       CallbackCounts, CallbackNotifies, ReadStep, AcquireResets, AcquireClearsReset,
       AcquireSeesOverflow, AcquireReturnsOverflow, AcquirePasses, AcquireLooks, AcquireWaits,
       ReadCopies, releaseReadBuffer, AppGoes
  <2>2. /\ _buf_head \in Handle /\ _buf_count >= 1 /\ _buf_count \in Nat /\ numBuffers \in Nat
        /\ ~Holding /\ ~resetBuffer /\ taken' = _buffs[_buf_head]
    BY <2>1, SoapyAssumption, SMT DEF IInv, TypeOK, PlaceInv, Holding, AcquireTakes
  <2>3. Dist(_buf_head) = FirstUnread /\ FirstUnread < Filled
    BY <2>2, SMT DEF FirstUnread, Dist, Base, Filled, Handle
  <2>4. Exempt \/ Shown(taken) \/ _buffs[_buf_head] = taken + 1
    BY <2>2, <2>3, SMT DEF GapInv
  <2>5. QED
    BY <2>2, <2>4, Types, SMT DEF IInv, TypeOK, Exempt, Shown
<1>4. QED
  BY <1>1, <1>2, <1>3, Inductive, PTL DEF Spec, GapReported
=============================================================================
