--------------------------- MODULE StreamingProofs ---------------------------
(***************************************************************************)
(* Proofs about Streaming.tla for every number of transfers.               *)
(*                                                                         *)
(* That active_transfers counts what libusb still owes, CountInv, rests on *)
(* each callback owning the transfer it runs for until it is uncounted and *)
(* on the transfers not yet submitted being idle.  What holds when no      *)
(* other thread handles events, AloneInv, rests on where callbacks can run *)
(* at all: on the poll thread before the join, in the drain loop after it. *)
(***************************************************************************)
EXTENDS Streaming, FiniteSetTheorems, TLAPS

XferStates == {"idle"} \cup AtDevice \cup Finished

TypeInv ==
  /\ status \in {"OFF", "READY", "STREAMING", "CANCELLED", "FAILED"}
  /\ active \in Int /\ xfer \in [Transfer -> XferStates]
  /\ owner \in {"closed", "submit", "count", "running", "join", "drain", "close"}
  /\ next \in 0 .. NumFrames
  /\ poll \in {"off", "testing", "events"} /\ run \in BOOLEAN
  /\ cb \in {"none", "entered", "data", "resubmit", "failed", "uncount", "cancel"}
  /\ cbXfer \in Transfer /\ cbBy \in {"poll", "owner", "control"}
  /\ control \in BOOLEAN

(* Until it is uncounted, the transfer of the running callback is finished. *)
CbOwns == cb \in {"entered", "data", "resubmit", "failed", "uncount"} => xfer[cbXfer] \in Finished

(* What streaming_start has yet to submit is idle.                          *)
Fresh ==
  /\ owner = "submit" => \A t \in Transfer : t >= next => xfer[t] = "idle"
  /\ owner = "count" => next < NumFrames /\ \A t \in Transfer : t > next => xfer[t] = "idle"

CountInv == TypeInv /\ CbOwns /\ Fresh /\ ActiveCount /\ NoFreeInFlight

(* Where callbacks run when no control transfer handles events, and what    *)
(* the stream's status says of the transfers then.                          *)
AloneInv ==
  /\ owner = "closed" <=> status = "OFF"
  /\ ~control =>
       /\ cb # "none" => \/ poll = "events" /\ cbBy = "poll"
                         \/ owner = "drain" /\ cbBy = "owner" /\ cb \notin {"data", "resubmit"}
       /\ owner \notin {"running", "join"} => poll = "off"
       /\ owner \in {"drain", "close"} => status \in {"CANCELLED", "FAILED"}
       /\ cb \in {"uncount", "cancel"} => status # "STREAMING"
       /\ owner \in {"submit", "count"} \/ status = "STREAMING" =>
            \A t \in Transfer : xfer[t] \notin {"cancelling", "cancelled"}
       /\ owner \in {"submit", "count"} =>
            /\ status = "READY"
            /\ \A t \in Transfer : t < next => xfer[t] # "idle"
       /\ owner = "count" => xfer[next] # "idle"
       /\ status = "STREAMING" => \A t \in Transfer : xfer[t] # "idle"

IInv == CountInv /\ AloneInv

-----------------------------------------------------------------------------
(* The transfers outstanding are finitely many ...                          *)
LEMMA OutFinite == IsFiniteSet(Outstanding) /\ Cardinality(Outstanding) \in 0 .. NumFrames
<1>1. IsFiniteSet(Transfer) /\ Cardinality(Transfer) = NumFrames
  BY FS_Interval, StreamingAssumption, SMT DEF Transfer
<1>2. Outstanding \in SUBSET Transfer
  BY DEF Outstanding
<1>3. IsFiniteSet(Outstanding) /\ Cardinality(Outstanding) <= Cardinality(Transfer)
  BY <1>1, <1>2, FS_Subset
<1>4. Cardinality(Outstanding) \in Nat
  BY <1>3, FS_CardinalityType
<1>5. QED
  BY <1>1, <1>3, <1>4, StreamingAssumption, SMT

(* ... one more when an idle transfer is submitted ...                      *)
LEMMA OneMore ==
  ASSUME TypeInv, NEW t \in Transfer, xfer[t] = "idle",
         xfer' = [xfer EXCEPT ![t] = "flight"]
  PROVE  Cardinality(Outstanding') = Cardinality(Outstanding) + 1
<1>1. Outstanding' = Outstanding \cup {t} /\ t \notin Outstanding
  BY SMT DEF Outstanding, TypeInv
<1>2. QED
  BY <1>1, OutFinite, FS_AddElement

(* ... one fewer when a callback is done with its transfer ...              *)
LEMMA OneFewer ==
  ASSUME TypeInv, NEW t \in Transfer, xfer[t] # "idle",
         xfer' = [xfer EXCEPT ![t] = "idle"]
  PROVE  Cardinality(Outstanding') = Cardinality(Outstanding) - 1
<1>1. Outstanding' = Outstanding \ {t} /\ t \in Outstanding
  BY SMT DEF Outstanding, TypeInv
<1>2. QED
  BY <1>1, OutFinite, FS_RemoveElement

(* ... and the same while none becomes idle or stops being it.              *)
LEMMA SameOut ==
  ASSUME \A t \in Transfer : xfer'[t] = "idle" <=> xfer[t] = "idle"
  PROVE  Outstanding' = Outstanding
  BY SMT DEF Outstanding

-----------------------------------------------------------------------------
(* Every step keeps every type. *)
LEMMA TypeStep ==
  ASSUME CountInv, [Next]_vars
  PROVE  TypeInv'
<1> USE StreamingAssumption DEF CountInv, TypeInv, cbVars, OwnerGoes, XferStates, AtDevice, Finished, Transfer
<1>1. CASE StartStream
  <2>1. CASE streaming_open_async
    <3>1. run' \in BOOLEAN
      BY <2>1 DEF streaming_open_async
    <3>2. QED
      BY <2>1, <3>1, SMT DEF streaming_open_async
  <2>2. CASE SubmitNext
    BY <2>2, SMT DEF SubmitNext
  <2>3. CASE CountNext
    BY <2>3, SMT DEF CountNext, Fresh
  <2>4. CASE SubmitFails \/ AllSubmitted
    BY <2>4, SMT DEF SubmitFails, AllSubmitted
  <2>5. QED
    BY <1>1, <2>1, <2>2, <2>3, <2>4 DEF StartStream
<1>2. CASE TransferFinishes
  BY <1>2, SMT DEF TransferFinishes
<1>3. CASE PollHandles \/ DrainHandles \/ ControlHandles
  BY <1>3, SMT DEF PollHandles, DrainHandles, ControlHandles, Handles
<1>4. CASE Callback
  <2> USE DEF CbGoes
  <2>1. CASE CbChecksStatus \/ CbCancelled \/ PacketRead
    BY <2>1, SMT DEF CbChecksStatus, CbCancelled, PacketRead
  <2>2. CASE CbResubmits \/ CbSetsFailed
    BY <2>2, SMT DEF CbResubmits, CbSetsFailed
  <2>3. CASE CbUncounts \/ CbCancels
    BY <2>3, SMT DEF CbUncounts, CbCancels
  <2>4. QED
    BY <1>4, <2>1, <2>2, <2>3 DEF Callback
<1>5. CASE PollTestsRun \/ PollReturns
  BY <1>5, SMT DEF PollTestsRun, PollReturns
<1>6. CASE StopStream \/ Stopping
  <2>1. CASE StopStream
    <3>1. run' \in BOOLEAN
      BY <2>1 DEF StopStream
    <3>2. QED
      BY <2>1, <3>1, SMT DEF StopStream
  <2>2. CASE DrainError \/ StopJoins
    BY <2>2, SMT DEF DrainError, StopJoins
  <2>3. CASE StopCancels
    BY <2>3, SMT DEF StopCancels
  <2>4. CASE streaming_close
    BY <2>4, SMT DEF streaming_close
  <2>5. QED
    BY <1>6, <2>1, <2>2, <2>3, <2>4 DEF Stopping
<1>7. CASE UNCHANGED vars
  BY <1>7, SMT DEF vars
<1>8. QED
  BY <1>1, <1>2, <1>3, <1>4, <1>5, <1>6, <1>7 DEF Next

(* What a callback owns, and what is yet to be submitted.                   *)
LEMMA OwnStep ==
  ASSUME CountInv, [Next]_vars
  PROVE  CbOwns' /\ Fresh'
<1> USE StreamingAssumption
    DEF CountInv, TypeInv, CbOwns, Fresh, cbVars, OwnerGoes, XferStates, AtDevice, Finished
<1>1. CASE StartStream
  BY <1>1, SMT DEF StartStream, streaming_open_async, SubmitNext, CountNext, SubmitFails,
     AllSubmitted, Transfer, NoFreeInFlight, Outstanding
<1>2. CASE TransferFinishes
  BY <1>2, SMT DEF TransferFinishes
<1>3. CASE PollHandles \/ DrainHandles \/ ControlHandles
  BY <1>3, SMT DEF PollHandles, DrainHandles, ControlHandles, Handles
<1>4. CASE Callback
  <2> USE DEF CbGoes
  <2>1. CASE CbChecksStatus \/ CbCancelled \/ PacketRead
    BY <2>1, SMT DEF CbChecksStatus, CbCancelled, PacketRead
  <2>2. CASE CbResubmits \/ CbSetsFailed
    BY <2>2, SMT DEF CbResubmits, CbSetsFailed
  <2>3. CASE CbUncounts \/ CbCancels
    BY <2>3, SMT DEF CbUncounts, CbCancels
  <2>4. QED
    BY <1>4, <2>1, <2>2, <2>3 DEF Callback
<1>5. CASE PollTestsRun \/ PollReturns
  BY <1>5, SMT DEF PollTestsRun, PollReturns
<1>6. CASE StopStream \/ Stopping
  BY <1>6, SMT DEF StopStream, Stopping, DrainError, StopJoins, StopCancels, streaming_close
<1>7. CASE UNCHANGED vars
  BY <1>7, SMT DEF vars
<1>8. QED
  BY <1>1, <1>2, <1>3, <1>4, <1>5, <1>6, <1>7 DEF Next

(* The count.                                                               *)
LEMMA CountStep ==
  ASSUME CountInv, [Next]_vars
  PROVE  ActiveCount'
<1> USE DEF CountInv, TypeInv, ActiveCount, cbVars, OwnerGoes, XferStates, AtDevice, Finished
<1>0. Cardinality(Outstanding) \in Nat
  BY OutFinite, StreamingAssumption, SMT
<1>1. CASE streaming_open_async
  <2>1. \A t \in Transfer : xfer[t] = "idle" /\ xfer'[t] = "idle"
    BY <1>1, SMT DEF streaming_open_async, NoFreeInFlight, Outstanding
  <2>2. Outstanding' = {} /\ Outstanding = {}
    BY <2>1 DEF Outstanding
  <2>3. QED
    BY <1>1, <2>2, FS_EmptySet, SMT DEF streaming_open_async
<1>2. CASE SubmitNext
  <2>1. next \in Transfer /\ xfer[next] = "idle"
    BY <1>2, StreamingAssumption, SMT DEF SubmitNext, Fresh, Transfer
  <2>2. Cardinality(Outstanding') = Cardinality(Outstanding) + 1
    BY <1>2, <2>1, OneMore DEF SubmitNext
  <2>3. QED
    BY <1>0, <1>2, <2>2, SMT DEF SubmitNext
<1>3. CASE CbCancelled \/ CbUncounts
  <2>1. /\ xfer[cbXfer] # "idle" /\ xfer' = [xfer EXCEPT ![cbXfer] = "idle"]
        /\ active' = active - 1 /\ UNCHANGED owner
    BY <1>3, SMT DEF CbCancelled, CbUncounts, CbGoes, CbOwns
  <2>2. Cardinality(Outstanding') = Cardinality(Outstanding) - 1
    BY <2>1, OneFewer
  <2>3. QED
    BY <1>0, <2>1, <2>2, SMT
<1>4. CASE CountNext
  <2>1. Outstanding' = Outstanding
    BY <1>4 DEF CountNext, Outstanding
  <2>2. QED
    BY <1>0, <1>4, <2>1, SMT DEF CountNext
<1>5. ASSUME UNCHANGED active, (owner' = "count") <=> (owner = "count"),
             \A t \in Transfer : xfer'[t] = "idle" <=> xfer[t] = "idle"
      PROVE  ActiveCount'
  <2>1. Outstanding' = Outstanding
    BY <1>5, SameOut
  <2>2. QED
    BY <1>0, <1>5, <2>1, SMT
<1>6. CASE SubmitFails \/ AllSubmitted
  BY <1>5, <1>6, SMT DEF SubmitFails, AllSubmitted
<1>7. CASE TransferFinishes
  BY <1>5, <1>7, SMT DEF TransferFinishes
<1>8. CASE PollHandles \/ DrainHandles \/ ControlHandles \/ PollTestsRun \/ PollReturns
  BY <1>5, <1>8, SMT DEF PollHandles, DrainHandles, ControlHandles, Handles, PollTestsRun, PollReturns
<1>9. CASE CbChecksStatus \/ PacketRead \/ CbSetsFailed
  BY <1>5, <1>9, SMT DEF CbChecksStatus, PacketRead, CbSetsFailed, CbGoes
<1>10. CASE CbResubmits \/ CbCancels
  BY <1>5, <1>10, SMT DEF CbResubmits, CbCancels, CbGoes, CbOwns
<1>11. CASE StopStream \/ Stopping
  BY <1>5, <1>11, SMT DEF StopStream, Stopping, DrainError, StopJoins, StopCancels, streaming_close
<1>12. CASE UNCHANGED vars
  BY <1>5, <1>12, SMT DEF vars
<1>13. QED
  BY <1>1, <1>2, <1>3, <1>4, <1>6, <1>7, <1>8, <1>9, <1>10, <1>11, <1>12
  DEF Next, StartStream, Callback

(* Only the drain loop, once the count is 0, leads to the close.            *)
LEMMA FreeStep ==
  ASSUME CountInv, [Next]_vars
  PROVE  NoFreeInFlight'
<1> USE DEF CountInv, TypeInv, NoFreeInFlight, cbVars, OwnerGoes, XferStates, AtDevice, Finished
<1>1. CASE StopCancels
  <2>1. Cardinality(Outstanding) \in Nat /\ Cardinality(Outstanding) <= 0
    BY <1>1, OutFinite, StreamingAssumption, SMT DEF StopCancels, DrainEnds, ActiveCount
  <2>2. Outstanding = {}
    BY <2>1, OutFinite, FS_EmptySet, SMT
  <2>3. Outstanding' = Outstanding
    BY <1>1, SameOut, SMT DEF StopCancels
  <2>4. QED
    BY <2>2, <2>3
<1>2. ASSUME owner' \in {"close", "closed"} => owner \in {"close", "closed"},
             \A t \in Transfer : xfer[t] = "idle" => xfer'[t] = "idle"
      PROVE  NoFreeInFlight'
  BY <1>2, SMT DEF Outstanding
<1>3. CASE StartStream
  BY <1>2, <1>3, SMT DEF StartStream, streaming_open_async, SubmitNext, CountNext, SubmitFails,
     AllSubmitted
<1>4. CASE TransferFinishes
  BY <1>2, <1>4, SMT DEF TransferFinishes
<1>5. CASE PollHandles \/ DrainHandles \/ ControlHandles \/ PollTestsRun \/ PollReturns
  BY <1>2, <1>5, SMT DEF PollHandles, DrainHandles, ControlHandles, Handles, PollTestsRun, PollReturns
<1>6. CASE Callback
  BY <1>2, <1>6, SMT DEF Callback, CbChecksStatus, CbCancelled, PacketRead, CbSetsFailed,
     CbUncounts, CbGoes, CbResubmits, CbCancels, CbOwns
<1>7. CASE StopStream \/ DrainError \/ StopJoins \/ streaming_close
  BY <1>2, <1>7, SMT DEF StopStream, DrainError, StopJoins, streaming_close
<1>8. CASE UNCHANGED vars
  BY <1>2, <1>8, SMT DEF vars
<1>9. QED
  BY <1>1, <1>3, <1>4, <1>5, <1>6, <1>7, <1>8 DEF Next, Stopping

(* What holds when no control transfer handles events.                      *)
LEMMA AloneStep ==
  ASSUME CountInv, AloneInv, [Next]_vars
  PROVE  AloneInv'
<1> USE DEF CountInv, TypeInv, AloneInv, cbVars, OwnerGoes, XferStates, AtDevice, Finished
<1>1. CASE streaming_open_async
  BY <1>1, StreamingAssumption, SMT DEF streaming_open_async, Transfer
<1>2. CASE SubmitNext
  BY <1>2, StreamingAssumption, SMT DEF SubmitNext, Transfer
<1>3. CASE CountNext
  BY <1>3, StreamingAssumption, SMT DEF CountNext, Transfer
<1>4. CASE SubmitFails \/ AllSubmitted
  BY <1>4, StreamingAssumption, SMT DEF SubmitFails, AllSubmitted, Transfer
<1>5. CASE TransferFinishes
  BY <1>5, SMT DEF TransferFinishes
<1>6. CASE PollHandles \/ DrainHandles \/ ControlHandles
  BY <1>6, SMT DEF PollHandles, DrainHandles, ControlHandles, Handles
<1>7. CASE Callback
  <2> USE DEF CbGoes
  <2>1. CASE CbChecksStatus
    BY <2>1, SMT DEF CbChecksStatus
  <2>2. CASE CbCancelled
    BY <2>2, SMT DEF CbCancelled
  <2>3. CASE PacketRead \/ CbResubmits
    BY <2>3, SMT DEF PacketRead, CbResubmits
  <2>4. CASE CbSetsFailed
    BY <2>4, SMT DEF CbSetsFailed, CbOwns, NoFreeInFlight, Outstanding
  <2>5. CASE CbUncounts
    BY <2>5, SMT DEF CbUncounts
  <2>6. CASE CbCancels
    BY <2>6, SMT DEF CbCancels
  <2>7. QED
    BY <1>7, <2>1, <2>2, <2>3, <2>4, <2>5, <2>6 DEF Callback
<1>8. CASE PollTestsRun \/ PollReturns
  BY <1>8, SMT DEF PollTestsRun, PollReturns
<1>9. CASE StopStream \/ StopJoins \/ DrainError
  BY <1>9, SMT DEF StopStream, StopJoins, DrainError
<1>10. CASE StopCancels
  BY <1>10, SMT DEF StopCancels, DrainEnds
<1>11. CASE streaming_close
  BY <1>11, SMT DEF streaming_close
<1>12. CASE UNCHANGED vars
  BY <1>12, SMT DEF vars
<1>13. QED
  BY <1>1, <1>2, <1>3, <1>4, <1>5, <1>6, <1>7, <1>8, <1>9, <1>10, <1>11, <1>12
  DEF Next, StartStream, Stopping

-----------------------------------------------------------------------------
(* The whole invariant is inductive.                                        *)
THEOREM Inductive == Spec => []IInv
<1>1. Init => IInv
  <2> SUFFICES ASSUME Init PROVE IInv
    OBVIOUS
  <2>1. 0 \in Transfer /\ 0 \in 0 .. NumFrames
    BY StreamingAssumption, SMT DEF Transfer
  <2>2. run \in BOOLEAN /\ control \in BOOLEAN
    BY DEF Init
  <2>3. TypeInv
    BY <2>1, <2>2, SMT DEF Init, TypeInv, XferStates
  <2>4. Outstanding = {}
    BY SMT DEF Init, Outstanding
  <2>5. ActiveCount
    BY <2>4, FS_EmptySet, SMT DEF Init, ActiveCount
  <2>6. CbOwns /\ Fresh /\ NoFreeInFlight
    BY <2>4, SMT DEF Init, CbOwns, Fresh, NoFreeInFlight
  <2>7. AloneInv
    BY SMT DEF Init, AloneInv
  <2>8. QED
    BY <2>3, <2>5, <2>6, <2>7 DEF IInv, CountInv
<1>2. IInv /\ [Next]_vars => IInv'
  BY TypeStep, OwnStep, CountStep, FreeStep, AloneStep DEF IInv, CountInv
<1>3. QED
  BY <1>1, <1>2, PTL DEF Spec

(* Types hold in every reachable state: the count of transfers, the one     *)
(* that is signed, stays between -1 and their number.                       *)
THEOREM TypeCorrect == Spec => []TypeOK
<1>1. IInv => TypeOK
  <2> SUFFICES ASSUME IInv PROVE TypeOK
    OBVIOUS
  <2>1. active \in -1 .. NumFrames
    BY OutFinite, StreamingAssumption, SMT DEF IInv, CountInv, ActiveCount
  <2>2. QED
    BY <2>1 DEF IInv, CountInv, TypeInv, TypeOK, XferStates
<1>2. QED
  BY <1>1, Inductive, PTL

(* active_transfers is what libusb still owes callbacks for, which is what  *)
(* the drain loop of streaming_stop relies on.                              *)
THEOREM CountCorrect == Spec => []ActiveCount
<1>1. IInv => ActiveCount
  BY DEF IInv, CountInv
<1>2. QED
  BY <1>1, Inductive, PTL

(* streaming_close frees no transfer that is with the device or whose       *)
(* callback is still to come, whoever handles events.                       *)
THEOREM FreeSafe == Spec => []NoFreeInFlight
<1>1. IInv => NoFreeInFlight
  BY DEF IInv, CountInv
<1>2. QED
  BY <1>1, Inductive, PTL

(* Without control transfers on other threads: no callback outlives its     *)
(* streaming_t ...                                                          *)
THEOREM CloseSafe == Spec => []NoCallbackAfterClose
<1>1. IInv => NoCallbackAfterClose
  BY DEF IInv, AloneInv, NoCallbackAfterClose
<1>2. QED
  BY <1>1, Inductive, PTL

(* ... no data is delivered once the poll thread is joined ...              *)
THEOREM JoinSafe == Spec => []NoDataAfterJoin
<1>1. IInv => NoDataAfterJoin
  BY SMT DEF IInv, AloneInv, NoDataAfterJoin
<1>2. QED
  BY <1>1, Inductive, PTL

(* ... and a stream that says STREAMING has lost no transfer.               *)
THEOREM LossShows == Spec => []NoSilentLoss
<1>1. IInv => NoSilentLoss
  BY DEF IInv, AloneInv, NoSilentLoss, Outstanding
<1>2. QED
  BY <1>1, Inductive, PTL

-----------------------------------------------------------------------------
(* How long the drain loop takes                                            *)

(* Every transfer outstanding has its callback before it, which takes five  *)
(* steps at most, and with the device one more.  A callback that was handed *)
(* data before the join, on a thread with a control transfer, may submit    *)
(* its transfer once more.                                                  *)
Busy == {t \in Transfer : xfer[t] \in AtDevice}
CbLeft == CASE cb = "data" -> 6 [] cb = "resubmit" -> 5 [] cb = "cancel" -> 4
            [] cb = "none" -> 3 [] cb = "entered"  -> 2 [] cb = "failed" -> 1
            [] OTHER       -> 0
DrainLeft == 5 * Cardinality(Outstanding) + Cardinality(Busy) + CbLeft

(* Where StopReturns has fairness in the loop, and a thread with a control  *)
(* transfer.                                                                *)
Event == TransferFinishes \/ DrainHandles \/ ControlHandles \/ Callback

(* In the drain loop the poll thread is gone and the stream hands no data   *)
(* on.                                                                      *)
DrainInv == owner = "drain" => poll = "off" /\ status \in {"CANCELLED", "FAILED"}

(* ... which nothing undoes.                                                *)
LEMMA DrainStep ==
  ASSUME CountInv, DrainInv, [Next]_vars
  PROVE  DrainInv'
<1> USE DEF DrainInv, cbVars, OwnerGoes
<1>1. CASE StartStream
  BY <1>1, SMT DEF StartStream, streaming_open_async, SubmitNext, CountNext, SubmitFails,
     AllSubmitted
<1>2. CASE TransferFinishes \/ PollHandles \/ DrainHandles \/ ControlHandles
  BY <1>2, SMT DEF TransferFinishes, PollHandles, DrainHandles, ControlHandles, Handles
<1>3. CASE Callback
  BY <1>3, SMT DEF Callback, CbChecksStatus, CbCancelled, PacketRead, CbResubmits, CbSetsFailed,
     CbUncounts, CbCancels
<1>4. CASE PollTestsRun \/ PollReturns
  BY <1>4, SMT DEF PollTestsRun, PollReturns
<1>5. CASE StopStream \/ Stopping
  BY <1>5, SMT DEF StopStream, Stopping, DrainError, StopJoins, StopCancels, streaming_close
<1>6. CASE UNCHANGED vars
  BY <1>6 DEF vars
<1>7. QED
  BY <1>1, <1>2, <1>3, <1>4, <1>5, <1>6 DEF Next

(* The transfers with the device are finitely many ...                      *)
LEMMA BusyFinite == IsFiniteSet(Busy) /\ Cardinality(Busy) \in 0 .. NumFrames
<1>1. IsFiniteSet(Transfer) /\ Cardinality(Transfer) = NumFrames
  BY FS_Interval, StreamingAssumption, SMT DEF Transfer
<1>2. Busy \in SUBSET Transfer
  BY DEF Busy
<1>3. IsFiniteSet(Busy) /\ Cardinality(Busy) <= Cardinality(Transfer)
  BY <1>1, <1>2, FS_Subset
<1>4. Cardinality(Busy) \in Nat
  BY <1>3, FS_CardinalityType
<1>5. QED
  BY <1>1, <1>3, <1>4, StreamingAssumption, SMT

(* ... the same after a step that moves none to or from it ...              *)
LEMMA BusySame ==
  ASSUME \A t \in Transfer : (xfer'[t] \in AtDevice) = (xfer[t] \in AtDevice)
  PROVE  Busy' = Busy
  BY DEF Busy

(* ... one fewer when one finishes ...                                      *)
LEMMA BusyFewer ==
  ASSUME TypeInv, TransferFinishes
  PROVE  Cardinality(Busy') = Cardinality(Busy) - 1
<1>1. PICK t \in Transfer, r \in Finished : /\ xfer[t] \in AtDevice
                                            /\ xfer' = [xfer EXCEPT ![t] = r]
  BY DEF TransferFinishes
<1>2. Busy' = Busy \ {t} /\ t \in Busy
  BY <1>1, SMT DEF Busy, TypeInv, AtDevice, Finished
<1>3. QED
  BY <1>2, BusyFinite, FS_RemoveElement

(* ... and one more when one is submitted.                                  *)
LEMMA BusyMore ==
  ASSUME TypeInv, NEW t \in Transfer, xfer[t] \in Finished,
         xfer' = [xfer EXCEPT ![t] = "flight"]
  PROVE  Cardinality(Busy') = Cardinality(Busy) + 1
<1>1. Busy' = Busy \cup {t} /\ t \notin Busy
  BY SMT DEF Busy, TypeInv, AtDevice, Finished
<1>2. QED
  BY <1>1, BusyFinite, FS_AddElement

(* What is left is a number, also after a step.                             *)
LEMMA LeftNumber == DrainLeft \in Int /\ DrainLeft' \in Int
<1>1. IsFiniteSet(Transfer)
  BY FS_Interval, StreamingAssumption, SMT DEF Transfer
<1>2. Outstanding' \in SUBSET Transfer /\ Busy' \in SUBSET Transfer
  BY DEF Outstanding, Busy
<1>3. Cardinality(Outstanding') \in Nat /\ Cardinality(Busy') \in Nat
  BY <1>1, <1>2, FS_Subset, FS_CardinalityType
<1>4. CbLeft \in 0 .. 6 /\ CbLeft' \in 0 .. 6
  BY SMT DEF CbLeft
<1>5. QED
  BY <1>3, <1>4, OutFinite, BusyFinite, StreamingAssumption, SMT DEF DrainLeft

(* Every event lowers what is left.                                         *)
LEMMA EventFalls ==
  ASSUME CountInv, DrainInv, owner = "drain", Event
  PROVE  DrainLeft' < DrainLeft
<1> DEFINE out  == Cardinality(Outstanding)
           busy == Cardinality(Busy)
<1>1. out \in Int /\ busy \in Int /\ CbLeft \in Int /\ CbLeft' \in Int
  <2>1. CbLeft \in 0 .. 6 /\ CbLeft' \in 0 .. 6
    BY SMT DEF CbLeft
  <2>2. QED
    BY <2>1, OutFinite, BusyFinite, StreamingAssumption, SMT
<1>2. ASSUME out' = out, busy' = busy, CbLeft' < CbLeft
      PROVE  DrainLeft' < DrainLeft
  BY <1>1, <1>2, SMT DEF DrainLeft
<1>3. TypeInv /\ CbOwns
  BY DEF CountInv
<1>4. ASSUME UNCHANGED xfer
      PROVE  out' = out /\ busy' = busy
  <2>1. Outstanding' = Outstanding /\ Busy' = Busy
    BY <1>4 DEF Outstanding, Busy
  <2>2. QED
    BY <2>1
<1>5. CASE TransferFinishes
  <2>1. busy' = busy - 1
    BY <1>3, <1>5, BusyFewer
  <2>2. Outstanding' = Outstanding
    BY <1>3, <1>5, SameOut, SMT DEF TransferFinishes, TypeInv, AtDevice, Finished
  <2>3. CbLeft' = CbLeft
    BY <1>5 DEF TransferFinishes, cbVars, CbLeft
  <2>4. out' = out
    BY <2>2
  <2>5. QED
    BY <1>1, <2>1, <2>3, <2>4, SMT DEF DrainLeft
<1>6. CASE DrainHandles \/ ControlHandles
  <2>1. cb = "none" /\ cb' = "entered" /\ UNCHANGED xfer
    BY <1>6 DEF DrainHandles, ControlHandles, Handles
  <2>2. CbLeft' < CbLeft
    BY <2>1, SMT DEF CbLeft
  <2>3. QED
    BY <1>2, <1>4, <2>1, <2>2
<1>7. CASE CbChecksStatus \/ PacketRead \/ CbSetsFailed
  <2>1. /\ UNCHANGED xfer
        /\ \/ cb = "entered" /\ cb' = "failed"
           \/ cb = "data" /\ cb' = "resubmit"
           \/ cb = "failed" /\ cb' = "uncount"
    BY <1>7 DEF CbChecksStatus, PacketRead, CbSetsFailed, CbGoes, DrainInv
  <2>2. CbLeft' < CbLeft
    BY <2>1, SMT DEF CbLeft
  <2>3. QED
    BY <1>2, <1>4, <2>1, <2>2
<1>8. CASE CbCancelled \/ CbUncounts
  <2>1. /\ xfer[cbXfer] \in Finished /\ cbXfer \in Transfer
        /\ xfer' = [xfer EXCEPT ![cbXfer] = "idle"]
        /\ \/ cb = "entered" /\ cb' = "none"
           \/ cb = "uncount" /\ cb' = "cancel"
    BY <1>3, <1>8 DEF CbCancelled, CbUncounts, CbGoes, CbOwns, TypeInv
  <2>2. out' = out - 1
    BY <1>3, <2>1, OneFewer DEF Finished
  <2>3. Busy' = Busy
    BY <1>3, <2>1, BusySame, SMT DEF TypeInv, AtDevice, Finished
  <2>4. CbLeft' <= CbLeft + 4
    BY <2>1, SMT DEF CbLeft
  <2>5. busy' = busy
    BY <2>3
  <2>6. QED
    BY <1>1, <2>2, <2>4, <2>5, SMT DEF DrainLeft
<1>9. CASE CbResubmits
  <2>1. CASE cb' = "none"
    <3>1. /\ xfer[cbXfer] \in Finished /\ cbXfer \in Transfer
          /\ xfer' = [xfer EXCEPT ![cbXfer] = "flight"]
          /\ cb = "resubmit"
      BY <1>3, <1>9, <2>1 DEF CbResubmits, CbGoes, CbOwns, TypeInv
    <3>2. busy' = busy + 1
      BY <1>3, <3>1, BusyMore
    <3>3. Outstanding' = Outstanding
      BY <1>3, <3>1, SameOut, SMT DEF TypeInv, Finished
    <3>4. CbLeft' = CbLeft - 2
      BY <2>1, <3>1, SMT DEF CbLeft
    <3>5. out' = out
      BY <3>3
    <3>6. QED
      BY <1>1, <3>2, <3>4, <3>5, SMT DEF DrainLeft
  <2>2. CASE cb' # "none"
    <3>1. cb = "resubmit" /\ cb' = "failed" /\ UNCHANGED xfer
      BY <1>9, <2>2 DEF CbResubmits, CbGoes
    <3>2. CbLeft' < CbLeft
      BY <3>1, SMT DEF CbLeft
    <3>3. QED
      BY <1>2, <1>4, <3>1, <3>2
  <2>3. QED
    BY <2>1, <2>2
<1>10. CASE CbCancels
  <2>1. cb = "cancel" /\ cb' = "none"
    BY <1>10 DEF CbCancels, CbGoes
  <2>2. /\ \A t \in Transfer : (xfer'[t] \in AtDevice) = (xfer[t] \in AtDevice)
        /\ \A t \in Transfer : xfer'[t] = "idle" <=> xfer[t] = "idle"
    BY <1>3, <1>10, SMT DEF CbCancels, TypeInv, AtDevice
  <2>3. Outstanding' = Outstanding /\ Busy' = Busy
    BY <2>2, SameOut, BusySame
  <2>4. CbLeft' < CbLeft
    BY <2>1, SMT DEF CbLeft
  <2>5. QED
    BY <1>2, <2>3, <2>4
<1>11. QED
  BY <1>5, <1>6, <1>7, <1>8, <1>9, <1>10 DEF Event, Callback

(* No step of the loop leaves more than there was.                          *)
LEMMA DrainFalls ==
  ASSUME CountInv, DrainInv, owner = "drain", [Next]_vars
  PROVE  DrainLeft' <= DrainLeft
<1>1. DrainLeft \in Int /\ DrainLeft' \in Int
  BY LeftNumber
<1>2. CASE Event
  BY <1>1, <1>2, EventFalls, SMT
<1>3. ASSUME cb' = cb, \A t \in Transfer : (xfer'[t] \in AtDevice) = (xfer[t] \in AtDevice),
             \A t \in Transfer : xfer'[t] = "idle" <=> xfer[t] = "idle"
      PROVE  DrainLeft' <= DrainLeft
  <2>1. Outstanding' = Outstanding /\ Busy' = Busy
    BY <1>3, SameOut, BusySame
  <2>2. CbLeft' = CbLeft
    BY <1>3 DEF CbLeft
  <2>3. DrainLeft' = DrainLeft
    BY <2>1, <2>2 DEF DrainLeft
  <2>4. QED
    BY <1>1, <2>3, SMT
<1>4. CASE DrainError \/ UNCHANGED vars
  BY <1>3, <1>4 DEF DrainError, vars, cbVars
<1>5. CASE StopCancels
  <2>1. \A t \in Transfer : xfer'[t] = IF xfer[t] = "flight" THEN "cancelling" ELSE xfer[t]
    BY <1>5 DEF StopCancels
  <2>2. \A t \in Transfer : (xfer'[t] \in AtDevice) = (xfer[t] \in AtDevice)
    BY <2>1, SMT DEF AtDevice
  <2>3. \A t \in Transfer : xfer'[t] = "idle" <=> xfer[t] = "idle"
    BY <2>1, SMT
  <2>4. QED
    BY <1>3, <1>5, <2>2, <2>3 DEF StopCancels, cbVars
<1>6. ~(\/ StartStream \/ PollHandles \/ PollTestsRun \/ PollReturns \/ StopStream \/ StopJoins
        \/ streaming_close)
  BY DEF DrainInv, StartStream, streaming_open_async, SubmitNext, CountNext, SubmitFails,
     AllSubmitted, PollHandles, PollTestsRun, PollReturns, StopStream, StopJoins,
     streaming_close, OwnerGoes
<1>7. QED
  BY <1>2, <1>4, <1>5, <1>6 DEF Next, Event, Stopping

(* The drain loop ends within six events for each transfer and six more,    *)
(* whatever the transfers end with and whichever thread handles them: every *)
(* event leaves fewer, no step more, and while the count is not 0 and no    *)
(* callback runs there is a transfer whose end is to come or to be handled. *)
THEOREM DrainShort ==
  Spec => /\ [](owner = "drain" =>
                  /\ DrainLeft \in 0 .. 6 * NumFrames + 6
                  /\ active > 0 /\ cb = "none" => Outstanding # {})
          /\ [][owner = "drain" => /\ DrainLeft' <= DrainLeft
                                   /\ Event => DrainLeft' < DrainLeft]_vars
<1>1. Init => DrainInv
  BY DEF Init, DrainInv
<1>2. IInv /\ DrainInv /\ [Next]_vars => DrainInv'
  BY DrainStep DEF IInv
<1>3. IInv => (owner = "drain" =>
                  /\ DrainLeft \in 0 .. 6 * NumFrames + 6
                  /\ active > 0 /\ cb = "none" => Outstanding # {})
  <2> SUFFICES ASSUME IInv, owner = "drain"
               PROVE  /\ DrainLeft \in 0 .. 6 * NumFrames + 6
                      /\ active > 0 /\ cb = "none" => Outstanding # {}
    OBVIOUS
  <2>1. CbLeft \in 0 .. 6
    BY SMT DEF CbLeft
  <2>2. DrainLeft \in 0 .. 6 * NumFrames + 6
    BY <2>1, OutFinite, BusyFinite, StreamingAssumption, SMT DEF DrainLeft
  <2>3. active = Cardinality(Outstanding)
    BY OutFinite, StreamingAssumption, SMT DEF IInv, CountInv, ActiveCount
  <2>4. QED
    BY <2>2, <2>3, FS_EmptySet, SMT
<1>4. IInv /\ DrainInv /\ [Next]_vars =>
        [owner = "drain" => /\ DrainLeft' <= DrainLeft
                            /\ Event => DrainLeft' < DrainLeft]_vars
  BY EventFalls, DrainFalls DEF IInv
<1>5. QED
  BY <1>1, <1>2, <1>3, <1>4, Inductive, PTL DEF Spec
=============================================================================
