------------------------------ MODULE Streaming ------------------------------
(***************************************************************************)
(* src/core/arch/linux/streaming.c and the part of FX3handler.cpp that     *)
(* uses it: NumFrames bulk transfers that are resubmitted from their own   *)
(* completion callback, the thread that calls StartStream and StopStream,  *)
(* the poll thread, and libusb, which runs completion callbacks on any     *)
(* thread that happens to handle events: the poll thread, StopStream's own *)
(* drain loop, or a thread inside a synchronous control transfer.          *)
(***************************************************************************)
EXTENDS Integers, FiniteSets

CONSTANT NumFrames  (* num_frames, 16 in the program *)

ASSUME StreamingAssumption == NumFrames \in Nat \ {0}

Transfer == 0 .. NumFrames - 1

VARIABLES
  status,     (* StreamingStatus; OFF when there is no streaming_t          *)
  active,     (* active_transfers                                           *)
  xfer,       (* per transfer: idle, with the device (flight, cancelling)   *)
              (* or finished with its callback due or running (ok, error,   *)
              (* cancelled)                                                 *)
  owner,      (* where StartStream or StopStream is                         *)
  next,       (* the loop variable of streaming_start                       *)
  poll,       (* the poll thread: off, testing run, or in handle_events     *)
  run,        (* fx3handler::run                                            *)
  cb,         (* where the running callback is, "none" if none runs         *)
  cbXfer, cbBy,  (* its transfer and the thread it runs on                  *)
  control        (* in this behaviour other threads issue synchronous       *)
                 (* control transfers while the stream runs                 *)

cbVars == <<cb, cbXfer, cbBy, control>>
vars   == <<status, active, xfer, owner, next, poll, run, cbVars>>

AtDevice == {"flight", "cancelling"}
Finished == {"ok", "error", "cancelled"}

(* Not yet taken off active_transfers by a callback. *)
Outstanding == {t \in Transfer : xfer[t] # "idle"}

Init == /\ status = "OFF" /\ active = 0
        /\ xfer = [t \in Transfer |-> "idle"]
        /\ owner = "closed" /\ next = 0
        /\ poll = "off" /\ run = FALSE
        /\ cb = "none" /\ cbXfer = 0 /\ cbBy = "poll"
        /\ control \in BOOLEAN

OwnerGoes(from, to) == owner = from /\ owner' = to

-----------------------------------------------------------------------------
(* StartStream                                                              *)

(* streaming_open_async, then run = true.  Left out are the opens that fail *)
(* (no streaming endpoint, a frame size that does not fit it, no memory for *)
(* a frame): StartStream uses the stream it returns without a test, so no   *)
(* session begins and nothing after it runs.                                *)
streaming_open_async ==
  /\ OwnerGoes("closed", "submit")
  /\ status' = "READY" /\ active' = 0 /\ next' = 0 /\ run' = TRUE
  /\ xfer' = [t \in Transfer |-> "idle"]
  /\ UNCHANGED <<poll, cbVars>>

(* One turn of streaming_start's loop is two steps: the transfer may        *)
(* complete before it has been counted.                                     *)
SubmitNext ==
  /\ OwnerGoes("submit", "count") /\ next < NumFrames
  /\ xfer' = [xfer EXCEPT ![next] = "flight"]
  /\ UNCHANGED <<status, active, next, poll, run, cbVars>>

CountNext ==
  /\ OwnerGoes("count", "submit")
  /\ active' = active + 1 /\ next' = next + 1
  /\ UNCHANGED <<status, xfer, poll, run, cbVars>>

(* Its result is ignored: the poll thread starts either way. *)
SubmitFails ==
  /\ OwnerGoes("submit", "running") /\ next < NumFrames
  /\ status' = "FAILED" /\ poll' = "testing"
  /\ UNCHANGED <<active, xfer, next, run, cbVars>>

AllSubmitted ==
  /\ OwnerGoes("submit", "running") /\ next = NumFrames
  /\ status' = "STREAMING" /\ poll' = "testing"
  /\ UNCHANGED <<active, xfer, next, run, cbVars>>

StartStream == streaming_open_async \/ SubmitNext \/ CountNext \/ SubmitFails \/ AllSubmitted

-----------------------------------------------------------------------------
(* The device and libusb finish a transfer; a bulk transfer that gets no    *)
(* data finishes with a timeout, one of the errors.                         *)

TransferFinishes ==
  /\ \E t \in Transfer, r \in Finished :
        /\ xfer[t] \in AtDevice
        /\ r = "cancelled" => xfer[t] = "cancelling"
        /\ xfer' = [xfer EXCEPT ![t] = r]
  /\ UNCHANGED <<status, active, owner, next, poll, run, cbVars>>

-----------------------------------------------------------------------------
(* streaming_read_async_callback                                            *)

(* libusb lets one thread handle events at a time. *)
Handles(by) ==
  /\ cb = "none"
  /\ \E t \in Transfer : xfer[t] \in Finished /\ cbXfer' = t
  /\ cb' = "entered" /\ cbBy' = by
  /\ UNCHANGED <<status, active, xfer, owner, next, poll, run, control>>

PollHandles    == poll = "events" /\ Handles("poll")
DrainHandles   == owner = "drain" /\ active > 0 /\ Handles("owner")
ControlHandles == control /\ Handles("control")

(* The poll loop tests run between two calls of usb_device_handle_events,   *)
(* each of which handles any number of events.                              *)
PollTestsRun ==
  /\ poll = "testing" /\ poll' = IF run THEN "events" ELSE "off"
  /\ UNCHANGED <<status, active, xfer, owner, next, run, cbVars>>

PollReturns ==
  /\ poll = "events" /\ (cb # "none" => cbBy # "poll")
  /\ poll' = "testing"
  /\ UNCHANGED <<status, active, xfer, owner, next, run, cbVars>>

CbGoes(from, to) == cb = from /\ cb' = to /\ UNCHANGED <<cbXfer, cbBy, control>>

CbTrustsData ==                          (* mutant: no test of the status   *)
  /\ \/ xfer[cbXfer] = "ok" /\ CbGoes("entered", "data")
     \/ xfer[cbXfer] = "error" /\ CbGoes("entered", "failed")
  /\ UNCHANGED <<status, active, xfer, owner, next, poll, run>>

(* COMPLETED: only a stream that is STREAMING hands the data on. *)
CbChecksStatus ==
  /\ \/ xfer[cbXfer] = "ok" /\ status = "STREAMING" /\ CbGoes("entered", "data")
     \/ xfer[cbXfer] = "ok" /\ status # "STREAMING" /\ CbGoes("entered", "failed")
     \/ xfer[cbXfer] = "error" /\ CbGoes("entered", "failed")
  /\ UNCHANGED <<status, active, xfer, owner, next, poll, run>>

CbCancelled ==
  /\ xfer[cbXfer] = "cancelled" /\ CbGoes("entered", "none")
  /\ active' = active - 1
  /\ xfer' = [xfer EXCEPT ![cbXfer] = "idle"]
  /\ UNCHANGED <<status, owner, next, poll, run>>

(* this->callback: PacketRead copies the data into the input ring.  It may  *)
(* wait there for a free slot (RadioPipeline).                              *)
PacketRead ==
  /\ CbGoes("data", "resubmit")
  /\ UNCHANGED <<status, active, xfer, owner, next, poll, run>>

CbResubmits ==
  /\ \/ CbGoes("resubmit", "none") /\ xfer' = [xfer EXCEPT ![cbXfer] = "flight"]
     \/ CbGoes("resubmit", "failed") /\ UNCHANGED xfer
  /\ UNCHANGED <<status, active, owner, next, poll, run>>

CbHidesFailure ==                        (* mutant: the status stays        *)
  /\ CbGoes("failed", "uncount")
  /\ UNCHANGED <<status, active, xfer, owner, next, poll, run>>

CbSetsFailed ==
  /\ CbGoes("failed", "uncount")
  /\ status' = "FAILED"
  /\ UNCHANGED <<active, xfer, owner, next, poll, run>>

CbForgetsCount ==                        (* mutant: no decrement            *)
  /\ CbGoes("uncount", "cancel")
  /\ xfer' = [xfer EXCEPT ![cbXfer] = "idle"]
  /\ UNCHANGED <<status, active, owner, next, poll, run>>

CbCountsTwice ==                         (* mutant: a decrement too many    *)
  /\ CbGoes("uncount", "cancel")
  /\ active' = active - 2
  /\ xfer' = [xfer EXCEPT ![cbXfer] = "idle"]
  /\ UNCHANGED <<status, owner, next, poll, run>>

CbUncounts ==
  /\ CbGoes("uncount", "cancel")
  /\ active' = active - 1
  /\ xfer' = [xfer EXCEPT ![cbXfer] = "idle"]
  /\ UNCHANGED <<status, owner, next, poll, run>>

(* The loop that runs num_frames times passes the finished transfer each    *)
(* time, so libusb answers NOT_FOUND and nothing is cancelled; unless this  *)
(* callback has outlived its stream and the transfer at the same place in   *)
(* memory is the new stream's.                                              *)
CbCancels ==
  /\ CbGoes("cancel", "none")
  /\ \/ UNCHANGED xfer
     \/ /\ xfer[cbXfer] = "flight"
        /\ xfer' = [xfer EXCEPT ![cbXfer] = "cancelling"]
  /\ UNCHANGED <<status, active, owner, next, poll, run>>

Callback == \/ CbChecksStatus \/ CbCancelled \/ PacketRead \/ CbResubmits
            \/ CbSetsFailed \/ CbUncounts \/ CbCancels

-----------------------------------------------------------------------------
(* StopStream                                                               *)

(* run = false *)
StopStream ==
  /\ OwnerGoes("running", "join")
  /\ run' = FALSE
  /\ UNCHANGED <<status, active, xfer, next, poll, cbVars>>

StopDetaches ==                          (* mutant: no join                 *)
  /\ OwnerGoes("join", "drain")
  /\ status' = "CANCELLED"
  /\ UNCHANGED <<active, xfer, next, poll, run, cbVars>>

(* poll_thread.join(), then streaming_stop. *)
StopJoins ==
  /\ OwnerGoes("join", "drain") /\ poll = "off"
  /\ status' = "CANCELLED"
  /\ UNCHANGED <<active, xfer, next, poll, run, cbVars>>

(* An error of libusb_handle_events inside the drain loop. *)
DrainError ==
  /\ owner = "drain" /\ active > 0 /\ (cb # "none" => cbBy # "owner")
  /\ status # "FAILED"
  /\ status' = "FAILED"
  /\ UNCHANGED <<active, xfer, owner, next, poll, run, cbVars>>

DrainSkipped == cb # "none" => cbBy # "owner"       (* mutant: no drain loop *)

(* The loop ends, then libusb_cancel_transfer on every transfer. *)
DrainEnds == active <= 0 /\ (cb # "none" => cbBy # "owner")

StopCancels ==
  /\ OwnerGoes("drain", "close") /\ DrainEnds
  /\ xfer' = [t \in Transfer |-> IF xfer[t] = "flight" THEN "cancelling" ELSE xfer[t]]
  /\ UNCHANGED <<status, active, next, poll, run, cbVars>>

streaming_close ==
  /\ OwnerGoes("close", "closed")
  /\ status' = "OFF"
  /\ UNCHANGED <<active, xfer, next, poll, run, cbVars>>

Stopping == DrainError \/ StopJoins \/ StopCancels \/ streaming_close

Next == \/ StartStream \/ TransferFinishes
        \/ PollHandles \/ DrainHandles \/ ControlHandles \/ Callback
        \/ PollTestsRun \/ PollReturns \/ StopStream \/ Stopping

Spec == Init /\ [][Next]_vars

(* Once StopStream is called it runs on; a transfer finishes at the latest  *)
(* with its five-second timeout; libusb_handle_events handles one batch of  *)
(* events, waits at most a minute for it and returns, so the poll loop sees *)
(* run; callbacks end because the rings are stopped before StopStream.      *)
FairSpec == /\ Spec
            /\ WF_vars(StopJoins) /\ WF_vars(StopCancels) /\ WF_vars(streaming_close)
            /\ WF_vars(TransferFinishes) /\ WF_vars(Callback)
            /\ WF_vars(PollTestsRun) /\ SF_vars(PollReturns) /\ WF_vars(DrainHandles)

-----------------------------------------------------------------------------
(* Types of all variables. *)
TypeOK ==
  /\ status \in {"OFF", "READY", "STREAMING", "CANCELLED", "FAILED"}
  /\ active \in -1 .. NumFrames
  /\ xfer \in [Transfer -> {"idle"} \cup AtDevice \cup Finished]
  /\ owner \in {"closed", "submit", "count", "running", "join", "drain", "close"}
  /\ next \in 0 .. NumFrames
  /\ poll \in {"off", "testing", "events"} /\ run \in BOOLEAN
  /\ cb \in {"none", "entered", "data", "resubmit", "failed", "uncount", "cancel"}
  /\ cbXfer \in Transfer /\ cbBy \in {"poll", "owner", "control"}
  /\ control \in BOOLEAN

(* active_transfers is the number of transfers libusb still owes an answer  *)
(* for, except between a submission and the increment that follows it: the  *)
(* callback of that transfer may already have run.                          *)
ActiveCount ==
  active = Cardinality(Outstanding) - (IF owner = "count" THEN 1 ELSE 0)

(* streaming_close never frees a transfer or buffer the device may write to *)
(* or whose callback is still to come.                                      *)
NoFreeInFlight == owner \in {"close", "closed"} => Outstanding = {}

(* Without control transfers on other threads ...                           *)
(* ... no callback touches the streaming_t once it is freed;                *)
NoCallbackAfterClose == ~control /\ status = "OFF" => cb = "none"

(* ... after StopStream has joined the poll thread no data enters the ring; *)
NoDataAfterJoin ==
  ~control /\ owner \in {"drain", "close", "closed"} => cb \notin {"data", "resubmit"}

(* ... and as long as the stream says STREAMING every transfer is in use:   *)
(* losing one always shows in the status.                                   *)
NoSilentLoss ==
  ~control /\ status = "STREAMING" => \A t \in Transfer : t \in Outstanding

(* StopStream returns. *)
StopReturns == (owner = "join") ~> (owner = "closed")

(* "cancel all the active transfers" (streaming.c:395): when the callback   *)
(* of a failed transfer ends, no transfer is left with the device           *)
(* uncancelled.                                                             *)
FailureCancelsAll ==
  [][cb = "cancel" /\ cb' = "none" => \A t \in Transfer : xfer'[t] # "flight"]_vars
=============================================================================
