----------------------------- MODULE SoapyStream -----------------------------
(***************************************************************************)
(* src/soapy/Streaming.cpp and the Callback of src/soapy/Settings.cpp: the *)
(* circle of buffers between RadioHandler's submit thread, which calls     *)
(* Callback for every block, and the application thread, which calls       *)
(* readStream, activateStream and deactivateStream.                        *)
(*                                                                         *)
(* _buf_count and _overflowEvent are the only data both threads use, apart *)
(* from the buffers; each access to them is a step of its own.             *)
(***************************************************************************)
EXTENDS Integers

CONSTANTS
  numBuffers,         (* 16 in the program                                  *)
  BlockElems,         (* samples in a block, as readStream hands them out   *)
  MaxBlocks,          (* bound: blocks the radio delivers, over all sessions*)
  MaxSessions,        (* bound: calls of activateStream                     *)
  RestartMidBuffer    (* TRUE: the application may restart the stream while *)
                      (* part of a buffer is still to be read               *)

ASSUME SoapyAssumption == /\ numBuffers \in Nat \ {0}
                          /\ BlockElems \in Nat \ {0}
                          /\ MaxBlocks \in Nat /\ MaxSessions \in Nat
                          /\ RestartMidBuffer \in BOOLEAN

Handle == 0 .. numBuffers - 1

VARIABLES
  _buf_head, _buf_tail, _buf_count, _overflowEvent, resetBuffer,
  _buffs,          (* the number of the block in each buffer, 0: none yet   *)
  bufferedElems, _currentHandle,
  app,             (* where the application thread is                       *)
  wanted,          (* numElems of the call of readStream                    *)
  prod,            (* where the submit thread is, "off" while stopped       *)
  made,            (* blocks delivered to Callback so far: their numbers    *)
  session, since,  (* calls of activateStream; made when the last started   *)
  taken,           (* the number of the block acquired last                 *)
  told,            (* OVERFLOW returned since                               *)
  unflagged        (* the last block dropped between a flush and the clear- *)
                   (* ing of _overflowEvent that follows it                 *)

bufVars  == <<_buf_head, _buf_tail, _buf_count, _overflowEvent, resetBuffer, _buffs>>
readVars == <<bufferedElems, _currentHandle, wanted>>
ghosts   == <<made, session, since, taken, told, unflagged>>
vars     == <<bufVars, readVars, app, prod, ghosts>>

(* After the first setupStream.  Nothing initialises the two flags before    *)
(* activateStream; bufferedElems, also left open, is not read before.       *)
Init == /\ _buf_head = 0 /\ _buf_tail = 0 /\ _buf_count = 0
        /\ _overflowEvent \in BOOLEAN /\ resetBuffer \in BOOLEAN
        /\ _buffs = [h \in Handle |-> 0]
        /\ bufferedElems = 0 /\ _currentHandle = 0 /\ wanted = 0
        /\ app = "idle" /\ prod = "off"
        /\ made = 0 /\ session = 0 /\ since = 0 /\ taken = 0
        /\ told = FALSE /\ unflagged = 0

-----------------------------------------------------------------------------
(* Callback, on the submit thread                                           *)

ProdGoes(from, to) == prod = from /\ prod' = to

CallbackOverfills ==                          (* mutant: one block too many *)
  /\ made < MaxBlocks
  /\ made' = made + 1
  /\ ProdGoes("ready", IF _buf_count > numBuffers THEN "drop" ELSE "write")
  /\ UNCHANGED <<bufVars, readVars, app, session, since, taken, told, unflagged>>

CallbackChecksCount ==
  /\ made < MaxBlocks
  /\ made' = made + 1
  /\ \/ _buf_count = numBuffers /\ ProdGoes("ready", "drop")
     \/ _buf_count # numBuffers /\ ProdGoes("ready", "write")
  /\ UNCHANGED <<bufVars, readVars, app, session, since, taken, told, unflagged>>

CallbackDropsSilently ==                      (* mutant: no overflow flag   *)
  /\ ProdGoes("drop", "ready")
  /\ UNCHANGED <<bufVars, readVars, app, ghosts>>

CallbackDrops ==
  /\ ProdGoes("drop", "ready")
  /\ _overflowEvent' = TRUE
  /\ unflagged' = IF app \in {"unreset", "unflag"} THEN made ELSE unflagged
  /\ UNCHANGED <<_buf_head, _buf_tail, _buf_count, resetBuffer, _buffs, readVars,
                 app, made, session, since, taken, told>>

CallbackWritesOn ==                           (* mutant: the tail never wraps *)
  /\ ProdGoes("write", "count")
  /\ _buffs' = [_buffs EXCEPT ![_buf_tail] = made]
  /\ _buf_tail' = _buf_tail + 1
  /\ UNCHANGED <<_buf_head, _buf_count, _overflowEvent, resetBuffer, readVars, app, ghosts>>

CallbackWrites ==
  /\ ProdGoes("write", "count")
  /\ _buffs' = [_buffs EXCEPT ![_buf_tail] = made]
  /\ _buf_tail' = (_buf_tail + 1) % numBuffers
  /\ UNCHANGED <<_buf_head, _buf_count, _overflowEvent, resetBuffer, readVars, app, ghosts>>

CallbackCounts ==
  /\ ProdGoes("count", "notify")
  /\ _buf_count' = _buf_count + 1
  /\ UNCHANGED <<_buf_head, _buf_tail, _overflowEvent, resetBuffer, _buffs,
                 readVars, app, ghosts>>

CallbackForgetsNotify ==                      (* mutant                     *)
  /\ ProdGoes("notify", "ready")
  /\ UNCHANGED <<bufVars, readVars, app, ghosts>>

CallbackNotifies ==
  /\ ProdGoes("notify", "ready")
  /\ app' = IF app = "wait" THEN "woken" ELSE app
  /\ UNCHANGED <<bufVars, readVars, ghosts>>

CallbackStep == \/ CallbackDrops \/ CallbackWrites \/ CallbackCounts \/ CallbackNotifies

-----------------------------------------------------------------------------
(* readStream and acquireReadBuffer                                         *)

AppGoes(from, to) == app = from /\ app' = to

readStream ==
  /\ session > 0
  /\ wanted' \in 1 .. BlockElems
  /\ \/ bufferedElems = 0 /\ AppGoes("idle", "acquire")
     \/ bufferedElems # 0 /\ AppGoes("idle", "copy")
  /\ UNCHANGED <<bufVars, bufferedElems, _currentHandle, prod, ghosts>>

FlushForgetsHead == _buf_count' = 0 /\ UNCHANGED _buf_head         (* mutant *)

(* Both flushes: skip every filled buffer. *)
Flush == _buf_head' = (_buf_head + _buf_count) % numBuffers /\ _buf_count' = 0

AcquireResets ==
  /\ resetBuffer /\ AppGoes("acquire", "unreset")
  /\ Flush
  /\ UNCHANGED <<_buf_tail, _overflowEvent, resetBuffer, _buffs, readVars, prod, ghosts>>

AcquireClearsReset ==
  /\ AppGoes("unreset", "acquire")
  /\ resetBuffer' = FALSE /\ _overflowEvent' = FALSE
  /\ UNCHANGED <<_buf_head, _buf_tail, _buf_count, _buffs, readVars, prod, ghosts>>

AcquireSeesOverflow ==
  /\ ~resetBuffer /\ _overflowEvent /\ AppGoes("acquire", "unflag")
  /\ Flush
  /\ UNCHANGED <<_buf_tail, _overflowEvent, resetBuffer, _buffs, readVars, prod, ghosts>>

AcquireReturnsOverflow ==
  /\ AppGoes("unflag", "idle")
  /\ _overflowEvent' = FALSE /\ told' = TRUE
  /\ UNCHANGED <<_buf_head, _buf_tail, _buf_count, resetBuffer, _buffs, readVars,
                 prod, made, session, since, taken, unflagged>>

AcquirePasses ==
  /\ ~resetBuffer /\ ~_overflowEvent /\ AppGoes("acquire", "look")
  /\ UNCHANGED <<bufVars, readVars, prod, ghosts>>

(* The unlocked test, and the predicate of wait_for under the mutex. *)
AcquireLooks ==
  /\ \/ _buf_count # 0 /\ AppGoes("look", "take")
     \/ _buf_count = 0 /\ AppGoes("look", "lock")
  /\ UNCHANGED <<bufVars, readVars, prod, ghosts>>

AcquireWaits ==
  /\ app \in {"lock", "woken"}
  /\ app' = IF _buf_count # 0 THEN "take" ELSE "wait"
  /\ UNCHANGED <<bufVars, readVars, prod, ghosts>>

(* wait_for runs out of time; a block may have come in the meantime. *)
AcquireTimesOut ==
  /\ app \in {"wait", "woken"}
  /\ app' = IF _buf_count # 0 THEN "take" ELSE "idle"
  /\ UNCHANGED <<bufVars, readVars, prod, ghosts>>

AcquireTakes ==
  /\ AppGoes("take", "copy")
  /\ _currentHandle' = _buf_head
  /\ _buf_head' = (_buf_head + 1) % numBuffers
  /\ bufferedElems' = BlockElems
  /\ taken' = _buffs[_buf_head] /\ told' = FALSE
  /\ UNCHANGED <<_buf_tail, _buf_count, _overflowEvent, resetBuffer, _buffs, wanted,
                 prod, made, session, since, unflagged>>

Smaller(a, b) == IF a <= b THEN a ELSE b

ReadCopies ==
  /\ app = "copy"
  /\ bufferedElems' = bufferedElems - Smaller(bufferedElems, wanted)
  /\ app' = IF bufferedElems' # 0 THEN "idle" ELSE "release"
  /\ UNCHANGED <<bufVars, _currentHandle, wanted, prod, ghosts>>

releaseReadBuffer ==
  /\ AppGoes("release", "idle")
  /\ _buf_count' = _buf_count - 1
  /\ UNCHANGED <<_buf_head, _buf_tail, _overflowEvent, resetBuffer, _buffs, readVars,
                 prod, ghosts>>

ReadStep == \/ AcquireResets \/ AcquireClearsReset \/ AcquireSeesOverflow
            \/ AcquireReturnsOverflow \/ AcquirePasses \/ AcquireLooks
            \/ AcquireWaits \/ AcquireTakes \/ ReadCopies \/ releaseReadBuffer

-----------------------------------------------------------------------------
(* activateStream and deactivateStream.  RadioHandler.Stop returns when the *)
(* submit thread has left Callback for good (RadioPipeline).                *)

MayRestart == RestartMidBuffer \/ bufferedElems = 0

activateStream ==
  /\ session < MaxSessions /\ MayRestart
  /\ AppGoes("idle", "start")
  /\ resetBuffer' = TRUE /\ bufferedElems' = 0
  /\ UNCHANGED <<_buf_head, _buf_tail, _buf_count, _overflowEvent, _buffs,
                 _currentHandle, wanted, prod, ghosts>>

(* RadioHandler.Start, which first stops a running session. *)
RadioStarts ==
  /\ AppGoes("start", "idle") /\ prod \in {"off", "ready"} /\ prod' = "ready"
  /\ session' = session + 1 /\ since' = made
  /\ UNCHANGED <<bufVars, readVars, made, taken, told, unflagged>>

deactivateStream ==
  /\ app = "idle"
  /\ ProdGoes("ready", "off")
  /\ UNCHANGED <<bufVars, readVars, app, ghosts>>

(* A stream set up again: its predecessor is deactivated and read to the    *)
(* end of the block it had acquired.                                        *)
setupStream ==
  /\ app = "idle" /\ prod = "off" /\ bufferedElems = 0
  /\ _buf_tail' = 0 /\ _buf_head' = 0 /\ _buf_count' = 0
  /\ UNCHANGED <<_overflowEvent, resetBuffer, _buffs, readVars, app, prod, ghosts>>

Next == \/ setupStream \/ CallbackChecksCount \/ CallbackStep \/ readStream \/ ReadStep \/ AcquireTimesOut
        \/ activateStream \/ RadioStarts \/ deactivateStream

Spec == Init /\ [][Next]_vars

-----------------------------------------------------------------------------
(* Types of all variables; _buf_count never leaves 0 .. numBuffers.         *)
TypeOK ==
  /\ _buf_head \in Handle /\ _buf_tail \in Handle /\ _buf_count \in 0 .. numBuffers
  /\ _overflowEvent \in BOOLEAN /\ resetBuffer \in BOOLEAN
  /\ _buffs \in [Handle -> Nat]
  /\ bufferedElems \in 0 .. BlockElems /\ _currentHandle \in Handle
  /\ wanted \in 0 .. BlockElems
  /\ app \in {"idle", "acquire", "unreset", "unflag", "look", "lock", "wait", "woken",
              "take", "copy", "release", "start"}
  /\ prod \in {"off", "ready", "drop", "write", "count", "notify"}
  /\ {made, session, since, taken} \subseteq Nat
  /\ told \in BOOLEAN /\ unflagged \in Nat

Holding == bufferedElems # 0 \/ app = "release"

(* Every buffer readStream acquires holds a block of the running session    *)
(* that is newer than the one before: no block twice, none out of order,    *)
(* none left over ("wait for a buffer to become available",                 *)
(* Streaming.cpp:165, and "extract handle and buffer", :174).               *)
FreshBlocks ==
  [][app = "take" /\ app' = "copy" => taken' > taken /\ taken' > since]_vars

(* Callback never writes into the buffer readStream is copying from, for    *)
(* however many calls that takes.                                           *)
HeldStable == Holding => _buffs[_currentHandle] = taken

(* A reader asleep in wait_for means no buffer, or a notification on its    *)
(* way: _buf_count is changed under the mutex the predicate is tested under.*)
NoLostWakeup == app = "wait" => _buf_count = 0 \/ prod = "notify"

(* Blocks lost between two acquired ones of a session are announced by      *)
(* SOAPY_SDR_OVERFLOW before the second, or, if the flag is set only after  *)
(* acquireReadBuffer has tested it, by the next acquisition; unless one was *)
(* dropped in the moment between a flush and the clearing of the flag.      *)
GapReported ==
  [][app = "take" /\ app' = "copy" /\ taken > since /\ taken' > taken + 1
       => told \/ _overflowEvent \/ unflagged > taken]_vars
=============================================================================
