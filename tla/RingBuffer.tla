----------------------------- MODULE RingBuffer -----------------------------
(***************************************************************************)
(* src/core/dsp/ringbuffer.h: the ring that carries blocks from the USB    *)
(* event thread to the r2iq thread and from there to the submit thread,    *)
(* with the reader loop, the writer loop and the owner that starts and     *)
(* stops it.                                                               *)
(*                                                                         *)
(* Every access to shared memory that another thread can observe is a step *)
(* of its own: the unlocked spin reads read_index and write_index one      *)
(* after the other, and Stop changes read_index, stopped and write_index   *)
(* one after the other while it holds the mutex.  A critical section that  *)
(* writes one index is a single step, taken when the mutex is free.        *)
(***************************************************************************)
EXTENDS Integers, Sequences

CONSTANTS
  N,           (* max_count, the number of slots (64 in the program)        *)
  SpinCount,   (* spin_count, looks at the indices before the mutex is used *)
  MaxBlocks,   (* bound: blocks written in one session                      *)
  LateWrites   (* bound: blocks written after the owner's run flag is down  *)

ASSUME RingAssumption == /\ N \in Nat \ {0, 1, 2}
                         /\ SpinCount \in Nat
                         /\ MaxBlocks \in Nat
                         /\ LateWrites \in Nat

VARIABLES
  read_index, write_index, stopped,
  owner,       (* "up", then "closing", "stop1", "stop2" and "down"          *)
  rpc, rseen, rspin, rslot, rtail,    (* the reader and its local variables  *)
  wpc, wseen, wspin, wslot,           (* the writer and its local variables  *)
  late,        (* blocks written since the run flag went down                *)
  slots,       (* slots[s]: the number, in this session, of the block in s;  *)
               (* 0 for what an earlier session left there                   *)
  nread, nwritten                     (* blocks released and published       *)

idxVars  == <<read_index, write_index, stopped>>
rVars    == <<rpc, rseen, rspin, rslot, rtail>>
wVars    == <<wpc, wseen, wspin, wslot, late, slots>>
vars     == <<idxVars, owner, rVars, wVars, nread, nwritten>>

Slot == 0 .. N - 1

SuccNoWrap(i) == i + 1                          (* mutant *)
Succ(i) == (i + 1) % N
Pred(i) == (i + N - 1) % N            (* peekReadPtr(-1) *)

Empty == read_index = write_index
Full  == Succ(write_index) = read_index

(* The flag the loops test: r2iqOn, or RadioHandler's run. *)
run == owner = "up"

(* Only Stop holds the mutex for more than one step. *)
MutexFree == owner \notin {"stop1", "stop2"}

(* The session the owner opened has not been touched by Stop yet. *)
Live == owner \in {"up", "closing"}

WokenNoRecheck(pc) == IF pc = "wait" THEN "ret" ELSE pc   (* mutant *)

(* A thread that wakes up evaluates its wait predicate again.               *)
Woken(pc) == IF pc = "wait" THEN "lock" ELSE pc

NotifyNever(cond, pc) == pc                     (* mutant *)
NotifyIf(cond, pc) == IF cond THEN Woken(pc) ELSE pc

StoppedAtZero == 0                              (* mutant *)

(* Where Stop leaves write_index, with read_index at 0: neither empty nor   *)
(* full for N > 2.                                                          *)
StoppedWriteIndex == N \div 2

Init == /\ read_index = 0 /\ write_index = 0 /\ stopped = FALSE
        /\ owner = "down"
        /\ rpc = "off" /\ rseen = 0 /\ rspin = 0 /\ rslot = 0 /\ rtail = 0
        /\ wpc = "off" /\ wseen = 0 /\ wspin = 0 /\ wslot = 0
        /\ late = 0
        /\ slots = [s \in Slot |-> 0]
        /\ nread = 0 /\ nwritten = 0

-----------------------------------------------------------------------------
(* The reader: r2iqThreadf on the input ring, OnDataPacket on the output.  *)

ReaderGoes(from, to) == rpc = from /\ rpc' = to

(* while (run): leave, or call getReadPtr and enter WaitUntilNotEmpty. *)
ReaderLoop ==
  /\ \/ ~run /\ ReaderGoes("idle", "off") /\ UNCHANGED rspin
     \/ run /\ stopped /\ ReaderGoes("idle", "ret") /\ UNCHANGED rspin
     \/ run /\ ~stopped /\ ReaderGoes("idle", "spin1") /\ rspin' = SpinCount
  /\ UNCHANGED <<idxVars, owner, rseen, rslot, rtail, wVars, nread, nwritten>>

ReaderSpin1 ==
  /\ ReaderGoes("spin1", "spin2")
  /\ rseen' = read_index
  /\ UNCHANGED <<idxVars, owner, rspin, rslot, rtail, wVars, nread, nwritten>>

ReaderSpin2 ==
  /\ \/ rseen # write_index /\ ReaderGoes("spin2", "ret") /\ UNCHANGED rspin
     \/ /\ rseen = write_index /\ rspin > 0
        /\ ReaderGoes("spin2", "spin1") /\ rspin' = rspin - 1
     \/ /\ rseen = write_index /\ rspin = 0
        /\ ReaderGoes("spin2", "lock") /\ UNCHANGED rspin
  /\ UNCHANGED <<idxVars, owner, rseen, rslot, rtail, wVars, nread, nwritten>>

(* Under the mutex: the predicate of nonemptyCV.wait. *)
ReaderWaits ==
  /\ MutexFree
  /\ \/ ~Empty /\ ReaderGoes("lock", "ret")
     \/ Empty /\ ReaderGoes("lock", "wait")
  /\ UNCHANGED <<idxVars, owner, rseen, rspin, rslot, rtail, wVars, nread, nwritten>>

(* buffers[read_index], read again after the wait and without the mutex. *)
getReadPtr ==
  /\ ReaderGoes("ret", "got")
  /\ rslot' = read_index
  /\ UNCHANGED <<idxVars, owner, rseen, rspin, rtail, wVars, nread, nwritten>>

(* if (!run) leave with the block unread. *)
ReaderChecksRun ==
  /\ \/ run /\ ReaderGoes("got", "peek")
     \/ ~run /\ ReaderGoes("got", "off")
  /\ UNCHANGED <<idxVars, owner, rseen, rspin, rslot, rtail, wVars, nread, nwritten>>

peekReadPtr ==
  /\ ReaderGoes("peek", "hold")
  /\ rtail' = Pred(read_index)
  /\ UNCHANGED <<idxVars, owner, rseen, rspin, rslot, wVars, nread, nwritten>>

ReadDone ==
  /\ MutexFree
  /\ ReaderGoes("hold", "idle")
  /\ read_index' = Succ(read_index)
  /\ wpc' = NotifyIf(Full, wpc)
  /\ nread' = IF Live THEN nread + 1 ELSE nread
  /\ UNCHANGED <<write_index, stopped, owner, rseen, rspin, rslot, rtail,
                 wseen, wspin, wslot, late, slots, nwritten>>

ReaderStep == \/ ReaderLoop \/ ReaderSpin1 \/ ReaderSpin2 \/ ReaderWaits
              \/ getReadPtr \/ ReaderChecksRun \/ peekReadPtr \/ ReadDone

-----------------------------------------------------------------------------
(* The writer: PacketRead on the input ring, r2iqThreadf on the output.    *)

WriterGoes(from, to) == wpc = from /\ wpc' = to

MayWrite == IF run THEN nwritten < MaxBlocks ELSE late < LateWrites

(* Leave once the flag is down, or call getWritePtr. *)
WriterLoop ==
  /\ \/ ~run /\ WriterGoes("idle", "off") /\ UNCHANGED wspin
     \/ MayWrite /\ stopped /\ WriterGoes("idle", "ret") /\ UNCHANGED wspin
     \/ MayWrite /\ ~stopped /\ WriterGoes("idle", "spin1") /\ wspin' = SpinCount
  /\ UNCHANGED <<idxVars, owner, rVars, wseen, wslot, late, slots, nread, nwritten>>

WriterSpin1 ==
  /\ WriterGoes("spin1", "spin2")
  /\ wseen' = write_index
  /\ UNCHANGED <<idxVars, owner, rVars, wspin, wslot, late, slots, nread, nwritten>>

WriterSpinGivesUp ==                            (* mutant *)
  /\ \/ Succ(wseen) # read_index /\ WriterGoes("spin2", "ret") /\ UNCHANGED wspin
     \/ /\ Succ(wseen) = read_index /\ wspin > 0
        /\ WriterGoes("spin2", "spin1") /\ wspin' = wspin - 1
     \/ /\ Succ(wseen) = read_index /\ wspin = 0
        /\ WriterGoes("spin2", "ret") /\ UNCHANGED wspin
  /\ UNCHANGED <<idxVars, owner, rVars, wseen, wslot, late, slots, nread, nwritten>>

WriterSpin2 ==
  /\ \/ Succ(wseen) # read_index /\ WriterGoes("spin2", "ret") /\ UNCHANGED wspin
     \/ /\ Succ(wseen) = read_index /\ wspin > 0
        /\ WriterGoes("spin2", "spin1") /\ wspin' = wspin - 1
     \/ /\ Succ(wseen) = read_index /\ wspin = 0
        /\ WriterGoes("spin2", "lock") /\ UNCHANGED wspin
  /\ UNCHANGED <<idxVars, owner, rVars, wseen, wslot, late, slots, nread, nwritten>>

(* Under the mutex: the predicate of nonfullCV.wait. *)
WriterWaits ==
  /\ MutexFree
  /\ \/ ~Full /\ WriterGoes("lock", "ret")
     \/ Full /\ WriterGoes("lock", "wait")
  /\ UNCHANGED <<idxVars, owner, rVars, wseen, wspin, wslot, late, slots, nread, nwritten>>

getWritePtr ==
  /\ WriterGoes("ret", "fill")
  /\ wslot' = write_index
  /\ UNCHANGED <<idxVars, owner, rVars, wseen, wspin, late, slots, nread, nwritten>>

(* The caller copies its block into the slot. *)
Fill ==
  /\ WriterGoes("fill", "filled")
  /\ slots' = [slots EXCEPT ![wslot] = nwritten + 1]
  /\ UNCHANGED <<idxVars, owner, rVars, wseen, wspin, wslot, late, nread, nwritten>>

WriteDone ==
  /\ MutexFree
  /\ WriterGoes("filled", "idle")
  /\ write_index' = Succ(write_index)
  /\ rpc' = NotifyIf(Empty, rpc)
  /\ nwritten' = IF Live THEN nwritten + 1 ELSE nwritten
  /\ late' = IF run THEN late ELSE late + 1
  /\ UNCHANGED <<read_index, stopped, owner, rseen, rspin, rslot, rtail,
                 wseen, wspin, wslot, slots, nread>>

WriterStep == \/ WriterLoop \/ WriterSpin1 \/ WriterSpin2 \/ WriterWaits
              \/ getWritePtr \/ Fill \/ WriteDone

-----------------------------------------------------------------------------
(* The owner: TurnOn and TurnOff, which call Start and Stop.               *)

OwnerGoes(from, to) == owner = from /\ owner' = to

(* Start, with no thread on the ring; the two threads are created next. *)
Start ==
  /\ rpc = "off" /\ wpc = "off"
  /\ OwnerGoes("down", "up")
  /\ read_index' = 0 /\ write_index' = 0 /\ stopped' = FALSE
  /\ rpc' = "idle" /\ wpc' = "idle"
  /\ nread' = 0 /\ nwritten' = 0 /\ late' = 0
  /\ slots' = [s \in Slot |-> 0]
  /\ UNCHANGED <<rseen, rspin, rslot, rtail, wseen, wspin, wslot>>

(* TurnOff clears the run flag before it calls Stop. *)
LowerRunFlag ==
  /\ OwnerGoes("up", "closing")
  /\ UNCHANGED <<idxVars, rVars, wVars, nread, nwritten>>

StopReadIndex ==
  /\ OwnerGoes("closing", "stop1")
  /\ read_index' = 0
  /\ UNCHANGED <<write_index, stopped, rVars, wVars, nread, nwritten>>

StopFlag ==
  /\ OwnerGoes("stop1", "stop2")
  /\ stopped' = TRUE
  /\ UNCHANGED <<read_index, write_index, rVars, wVars, nread, nwritten>>

StopWriteIndex ==
  /\ OwnerGoes("stop2", "down")
  /\ write_index' = StoppedWriteIndex
  /\ rpc' = Woken(rpc) /\ wpc' = Woken(wpc)
  /\ UNCHANGED <<read_index, stopped, rseen, rspin, rslot, rtail,
                 wseen, wspin, wslot, late, slots, nread, nwritten>>

Stop == StopReadIndex \/ StopFlag \/ StopWriteIndex

(* std::condition_variable may wake a waiter for no reason. *)
SpuriousWakeup ==
  /\ \/ rpc = "wait" /\ rpc' = Woken(rpc) /\ UNCHANGED wpc
     \/ wpc = "wait" /\ wpc' = Woken(wpc) /\ UNCHANGED rpc
  /\ UNCHANGED <<idxVars, owner, rseen, rspin, rslot, rtail,
                 wseen, wspin, wslot, late, slots, nread, nwritten>>

Next == ReaderStep \/ WriterStep \/ Start \/ LowerRunFlag \/ Stop \/ SpuriousWakeup

Spec == Init /\ [][Next]_vars

(* Threads run and a Stop once begun goes on; nobody has to call Start or   *)
(* to lower the flag, and a spurious wakeup is never owed to anyone.        *)
FairSpec == Spec /\ WF_vars(ReaderStep) /\ WF_vars(WriterStep) /\ WF_vars(Stop)

-----------------------------------------------------------------------------
Pc == {"off", "idle", "spin1", "spin2", "lock", "wait", "ret"}

(* Types of all variables. *)
TypeOK ==
  /\ read_index \in Slot /\ write_index \in Slot /\ stopped \in BOOLEAN
  /\ owner \in {"up", "closing", "stop1", "stop2", "down"}
  /\ rpc \in Pc \cup {"got", "peek", "hold"}
  /\ wpc \in Pc \cup {"fill", "filled"}
  /\ rseen \in Slot /\ rslot \in Slot /\ rtail \in Slot
  /\ wseen \in Slot /\ wslot \in Slot
  /\ rspin \in 0 .. SpinCount /\ wspin \in 0 .. SpinCount
  /\ late \in Nat /\ nread \in Nat /\ nwritten \in Nat
  /\ slots \in [Slot -> Nat]

Reading == rpc \in {"got", "peek", "hold"}
Writing == wpc \in {"fill", "filled"}

(* While a session is live the writer never has its pointer into the block  *)
(* the reader is converting, nor into the block before it, whose end r2iq   *)
(* still copies as the overlap of the next FFT (peekReadPtr(-1)): the slot  *)
(* the ring keeps free is what protects it.                                 *)
OverlapStable ==
  Live /\ Writing =>
     /\ Reading => wslot # rslot /\ wslot # Pred(rslot)
     /\ rpc = "hold" => wslot # rtail

(* The reader gets every block once and in order, and next to each block    *)
(* the previous one; before the first block of a session that neighbour is  *)
(* what an earlier session left in the last slot (0).                       *)
BlocksInOrder ==
  Live /\ rpc = "hold" => /\ slots[rslot] = nread + 1
                          /\ slots[rtail] = nread

(* ReadDone and WriteDone notify only when they see the ring full or empty: *)
(* nevertheless no thread sleeps while its condition holds.                 *)
NoLostWakeup ==
  MutexFree => /\ rpc = "wait" => Empty
               /\ wpc = "wait" => Full

(* Once the run flag is down and Stop is called, both threads leave, the    *)
(* blocked ones included (StopTest of ringbuffer_test.cpp); unless so many  *)
(* late blocks are written that the indices, which Stop set apart, meet     *)
(* again before a woken reader looks at them.                               *)
StopReleases ==
  (owner = "stop1") ~> (rpc = "off" /\ wpc = "off") \/ late >= N - N \div 2

(* A published block is released by the reader unless the session ends.     *)
BlocksArrive ==
  \A k \in 1 .. MaxBlocks :
     (run /\ nwritten = k) ~> (nread >= k \/ ~run)

(* The blocks between the indices, oldest first. *)
Used == IF write_index >= read_index THEN write_index - read_index
                                     ELSE write_index - read_index + N
Queued == [k \in 1 .. Used |-> slots[(read_index + k - 1) % N]]

Channel == INSTANCE BlockChannel
             WITH Block <- 1 .. MaxBlocks + LateWrites, Capacity <- N - 1,
                  open <- Live,
                  queue <- IF Live THEN Queued ELSE <<>>

(* The ring implements a bounded first-in first-out channel that Start      *)
(* opens and Stop closes.                                                   *)
IsChannel == Channel!ChSpec
=============================================================================
