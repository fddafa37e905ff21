---------------------------- MODULE RadioPipeline ----------------------------
(***************************************************************************)
(* src/core/RadioHandler.cpp and the r2iq conversion: the threads a session*)
(* is made of, the calls of Start and Stop that create and join them, and  *)
(* the two rings between them.                                             *)
(*                                                                         *)
(*   poll thread --inputbuffer--> r2iq thread --outputbuffer--> submit     *)
(*                                                                         *)
(* The rings are the channels RingBuffer.tla implements; what StopStream   *)
(* does below the poll thread is in Streaming.tla.                         *)
(***************************************************************************)
EXTENDS Integers, Sequences, FiniteSets

CONSTANTS
  Callers,         (* threads that call Stop                                *)
  Starters,        (* those that call Start: since a Start overlaps no      *)
                   (* other call, one is as good as all                     *)
  Capacity,        (* blocks a ring holds, 63 in the program                *)
  Decimations,     (* the values of mdecimation Start may choose            *)
  MaxPackets,      (* bound: packets a session delivers                     *)
  LiveModeSwitch   (* TRUE: UpdatemodeRF may be called during a session     *)

ASSUME PipelineAssumption ==
  /\ Callers # {} /\ "free" \notin Callers /\ Starters \subseteq Callers /\ Capacity \in Nat \ {0}
  /\ Decimations # {} /\ Decimations \subseteq Nat
  /\ \A d \in Decimations : 2 ^ d \in Nat \ {0}
  /\ MaxPackets \in Nat /\ LiveModeSwitch \in BOOLEAN

VARIABLES
  pc, ret,         (* per caller: where it is, and where Stop returns to    *)
  stop_mutex,      (* the caller that holds it, or "free"                   *)
  run, r2iqOn, fx3run,             (* RadioHandler, r2iq and fx3handler     *)
  joinable,        (* the std::thread objects that hold a thread            *)
  poll, r2, sub, stats,            (* where each thread is, "off" if gone   *)
  inOpen, inQueue, outOpen, outQueue,
  mdecimation, decimate_count, pout,   (* pout: input blocks it holds       *)
  modeRF, sideband, lsb,           (* lsb: sideband, read as r2iq starts    *)
  fcNegated,       (* fc was negated, for the sideband, when last tuned     *)
  sent, delivered  (* input blocks of this session entered and converted    *)

ringVars == <<inOpen, inQueue, outOpen, outQueue>>
callVars == <<pc, ret, stop_mutex, run, r2iqOn, fx3run, joinable>>
pollVars == <<poll, sent>>
r2Vars   == <<r2, mdecimation, decimate_count, pout, lsb>>
subVars  == <<sub, delivered>>
modeVars == <<modeRF, sideband, fcNegated>>
vars     == <<callVars, pollVars, r2Vars, subVars, stats, ringVars, modeVars>>

(* An input block is its number, an output block the input blocks it was    *)
(* computed from and the sideband used.                                     *)
Stale    == 0
OutBlock == [of : Seq(Nat), lsb : BOOLEAN]
NoBlock  == [of |-> <<>>, lsb |-> FALSE]

In  == INSTANCE BlockChannel WITH Block <- Nat, open <- inOpen, queue <- inQueue
Out == INSTANCE BlockChannel WITH Block <- OutBlock, open <- outOpen, queue <- outQueue

Oldest(queue, default) == IF queue = <<>> THEN default ELSE Head(queue)

Init == /\ pc = [c \in Callers |-> "idle"] /\ ret = [c \in Callers |-> "idle"]
        /\ stop_mutex = "free"
        /\ run = FALSE /\ r2iqOn = FALSE /\ fx3run = FALSE /\ joinable = {}
        /\ poll = "off" /\ r2 = "off" /\ sub = "off" /\ stats = "off"
        /\ In!ChInit /\ Out!ChInit
        /\ mdecimation \in Decimations /\ decimate_count = 0 /\ pout = <<>>
        /\ modeRF = "HF" /\ sideband = FALSE /\ lsb = FALSE /\ fcNegated = FALSE
        /\ sent = 0 /\ delivered = 0

-----------------------------------------------------------------------------
(* The poll thread and PacketRead                                           *)

PollGoes(from, to) == poll = from /\ poll' = to

PollLoop ==
  /\ \/ fx3run /\ (run => sent < MaxPackets) /\ PollGoes("events", "packet")
     \/ ~fx3run /\ PollGoes("events", "off")
  /\ UNCHANGED <<sent, callVars, r2Vars, subVars, stats, ringVars, modeVars>>

PacketRead ==
  /\ PollGoes("packet", "events")
  /\ In!Put(sent + 1)
  /\ sent' = IF inOpen THEN sent + 1 ELSE sent
  /\ UNCHANGED <<outOpen, outQueue, callVars, r2Vars, subVars, stats, modeVars>>

-----------------------------------------------------------------------------
(* The conversion thread                                                    *)

R2Goes(from, to) == r2 = from /\ r2' = to

R2KeepsSideband ==                            (* mutant: lsb read only once *)
  /\ R2Goes("new", "loop")
  /\ decimate_count' = 0 /\ pout' = <<>>
  /\ UNCHANGED <<mdecimation, lsb, callVars, pollVars, subVars, stats, ringVars, modeVars>>

(* The thread's first lines: it keeps the sideband of this moment. *)
R2Starts ==
  /\ R2Goes("new", "loop")
  /\ lsb' = sideband /\ decimate_count' = 0 /\ pout' = <<>>
  /\ UNCHANGED <<mdecimation, callVars, pollVars, subVars, stats, ringVars, modeVars>>

(* getReadPtr waits for a block; the flag is tested before and after.  A    *)
(* thread that leaves takes its local variables with it.                    *)
R2Reads ==
  /\ \/ ~r2iqOn /\ R2Goes("loop", "off")
     \/ r2iqOn /\ R2Goes("loop", "get")
     \/ In!CanGet /\ ~r2iqOn /\ R2Goes("get", "off")
     \/ In!CanGet /\ r2iqOn /\ R2Goes("get", "convert")
  /\ IF r2' = "off" THEN decimate_count' = 0 /\ pout' = <<>> /\ lsb' = FALSE
                    ELSE UNCHANGED <<decimate_count, pout, lsb>>
  /\ UNCHANGED <<mdecimation, callVars, pollVars, subVars, stats, ringVars, modeVars>>

(* The samples are in ADCinTime now: ReadDone. *)
R2Releases ==
  /\ R2Goes("convert", "place")
  /\ pout' = Append(pout, Oldest(inQueue, Stale))
  /\ In!Get
  /\ UNCHANGED <<outOpen, outQueue, mdecimation, decimate_count, lsb,
                 callVars, pollVars, subVars, stats, modeVars>>

(* The first of 2^mdecimation blocks waits for an output block; the last    *)
(* publishes it.                                                            *)
R2PlacesLate ==                               (* mutant: counts one further *)
  /\ r2 = "place"
  /\ decimate_count = 0 => Out!CanPut
  /\ decimate_count' = (decimate_count + 1) % (2 ^ mdecimation + 1)
  /\ r2' = IF decimate_count' = 0 THEN "publish" ELSE "loop"
  /\ UNCHANGED <<mdecimation, pout, lsb, callVars, pollVars, subVars, stats, ringVars, modeVars>>

R2Places ==
  /\ r2 = "place"
  /\ decimate_count = 0 => Out!CanPut
  /\ decimate_count' = (decimate_count + 1) % 2 ^ mdecimation
  /\ r2' = IF decimate_count' = 0 THEN "publish" ELSE "loop"
  /\ UNCHANGED <<mdecimation, pout, lsb, callVars, pollVars, subVars, stats, ringVars, modeVars>>

R2Publishes ==
  /\ R2Goes("publish", "loop")
  /\ Out!Put([of |-> pout, lsb |-> lsb])
  /\ pout' = <<>>
  /\ UNCHANGED <<inOpen, inQueue, mdecimation, decimate_count, lsb,
                 callVars, pollVars, subVars, stats, modeVars>>

R2Step == R2Starts \/ R2Reads \/ R2Releases \/ R2Places \/ R2Publishes

-----------------------------------------------------------------------------
(* The submit thread, OnDataPacket, and the statistics thread               *)

SubGoes(from, to) == sub = from /\ sub' = to

SubReads ==
  /\ \/ ~run /\ SubGoes("loop", "off")
     \/ run /\ SubGoes("loop", "get")
     \/ Out!CanGet /\ ~run /\ SubGoes("get", "off")
     \/ Out!CanGet /\ run /\ SubGoes("get", "callback")
  /\ UNCHANGED <<delivered, callVars, pollVars, r2Vars, stats, ringVars, modeVars>>

(* Callback has returned: ReadDone. *)
SubReleases ==
  /\ SubGoes("callback", "loop")
  /\ delivered' = delivered + Len(Oldest(outQueue, NoBlock).of)
  /\ Out!Get
  /\ UNCHANGED <<inOpen, inQueue, callVars, pollVars, r2Vars, stats, modeVars>>

CaculateStats ==
  /\ stats = "loop" /\ ~run /\ stats' = "off"
  /\ UNCHANGED <<callVars, pollVars, r2Vars, subVars, ringVars, modeVars>>

-----------------------------------------------------------------------------
(* Start and Stop                                                           *)

Goes(c, from, to) == pc[c] = from /\ pc' = [pc EXCEPT ![c] = to]
Join(t) == joinable' = joinable \ {t}
Create(ts) == joinable' = joinable \cup ts

threadVars == <<pollVars, r2Vars, subVars, stats>>

StopCalls  == {"lock", "lower", "turnoff", "joinr2iq", "stopstream", "joinpoll",
               "joinstats", "joinsubmit", "unlock"}
StartCalls == {"raise", "turnon", "startstream", "submit"}

(* Start takes no lock beyond its call of Stop: only while no other call is *)
(* running may it be called; calls of Stop may overlap.                     *)
CallStart(c) ==
  /\ c \in Starters
  /\ \A d \in Callers : pc[d] = "idle"
  /\ Goes(c, "idle", "lock") /\ ret' = [ret EXCEPT ![c] = "raise"]
  /\ UNCHANGED <<stop_mutex, run, r2iqOn, fx3run, joinable, threadVars, ringVars, modeVars>>

CallStop(c) ==
  /\ \A d \in Callers : pc[d] # "idle" => ret[d] = "idle"
  /\ Goes(c, "idle", "lock") /\ ret' = [ret EXCEPT ![c] = "idle"]
  /\ UNCHANGED <<stop_mutex, run, r2iqOn, fx3run, joinable, threadVars, ringVars, modeVars>>

StopUnlocked(c) ==                            (* mutant: no stop_mutex      *)
  /\ Goes(c, "lock", IF run THEN "lower" ELSE "unlock")
  /\ UNCHANGED <<ret, stop_mutex, run, r2iqOn, fx3run, joinable, threadVars, ringVars, modeVars>>

StopLocks(c) ==
  /\ stop_mutex = "free" /\ stop_mutex' = c
  /\ Goes(c, "lock", IF run THEN "lower" ELSE "unlock")
  /\ UNCHANGED <<ret, run, r2iqOn, fx3run, joinable, threadVars, ringVars, modeVars>>

StopLowersRun(c) ==
  /\ Goes(c, "lower", "turnoff")
  /\ run' = FALSE
  /\ UNCHANGED <<ret, stop_mutex, r2iqOn, fx3run, joinable, threadVars, ringVars, modeVars>>

TurnOffKeepsOutput(c) ==                      (* mutant: outputbuffer runs on *)
  /\ Goes(c, "turnoff", "joinr2iq")
  /\ r2iqOn' = FALSE
  /\ In!Close
  /\ sent' = 0 /\ delivered' = 0
  /\ UNCHANGED <<ret, stop_mutex, run, fx3run, joinable, poll, r2Vars, sub, stats, modeVars,
                 outOpen, outQueue>>

(* The flag, then both rings; RingBuffer.tla has the steps in between.  The *)
(* numbering of blocks ends with the session.                               *)
TurnOff(c) ==
  /\ Goes(c, "turnoff", "joinr2iq")
  /\ r2iqOn' = FALSE
  /\ In!Close /\ Out!Close
  /\ sent' = 0 /\ delivered' = 0
  /\ UNCHANGED <<ret, stop_mutex, run, fx3run, joinable, poll, r2Vars, sub, stats, modeVars>>

JoinR2iq(c) ==
  /\ r2 = "off" /\ Goes(c, "joinr2iq", "stopstream") /\ Join("r2iq")
  /\ UNCHANGED <<ret, stop_mutex, run, r2iqOn, fx3run, threadVars, ringVars, modeVars>>

StopStream(c) ==
  /\ Goes(c, "stopstream", "joinpoll")
  /\ fx3run' = FALSE
  /\ UNCHANGED <<ret, stop_mutex, run, r2iqOn, joinable, threadVars, ringVars, modeVars>>

DetachPoll(c) ==                              (* mutant: no poll_thread.join *)
  /\ Goes(c, "joinpoll", "joinstats") /\ Join("poll")
  /\ UNCHANGED <<ret, stop_mutex, run, r2iqOn, fx3run, threadVars, ringVars, modeVars>>

JoinPoll(c) ==
  /\ poll = "off" /\ Goes(c, "joinpoll", "joinstats") /\ Join("poll")
  /\ UNCHANGED <<ret, stop_mutex, run, r2iqOn, fx3run, threadVars, ringVars, modeVars>>

JoinStats(c) ==
  /\ stats = "off" /\ Goes(c, "joinstats", "joinsubmit") /\ Join("stats")
  /\ UNCHANGED <<ret, stop_mutex, run, r2iqOn, fx3run, threadVars, ringVars, modeVars>>

JoinSubmit(c) ==
  /\ sub = "off" /\ Goes(c, "joinsubmit", "unlock") /\ Join("submit")
  /\ UNCHANGED <<ret, stop_mutex, run, r2iqOn, fx3run, threadVars, ringVars, modeVars>>

StopReturns(c) ==
  /\ Goes(c, "unlock", ret[c])
  /\ stop_mutex' = "free"
  /\ UNCHANGED <<ret, run, r2iqOn, fx3run, joinable, threadVars, ringVars, modeVars>>

(* run = true, the producer, setDecimate.  Which decimation a sample rate   *)
(* stands for is left open.                                                 *)
StartRaisesRun(c) ==
  /\ Goes(c, "raise", "turnon")
  /\ run' = TRUE
  /\ mdecimation' \in Decimations
  /\ UNCHANGED <<ret, stop_mutex, r2iqOn, fx3run, joinable, pollVars, r2, decimate_count,
                 pout, lsb, subVars, stats, ringVars, modeVars>>

TurnOn(c) ==
  /\ Goes(c, "turnon", "startstream")
  /\ r2iqOn' = TRUE
  /\ In!Open /\ Out!Open
  /\ r2' = "new" /\ Create({"r2iq"})
  /\ sent' = 0 /\ delivered' = 0
  /\ UNCHANGED <<ret, stop_mutex, run, fx3run, poll, mdecimation, decimate_count, pout, lsb,
                 sub, stats, modeVars>>

StartStream(c) ==
  /\ Goes(c, "startstream", "submit")
  /\ fx3run' = TRUE /\ poll' = "events" /\ Create({"poll"})
  /\ UNCHANGED <<ret, stop_mutex, run, r2iqOn, sent, r2Vars, subVars, stats, ringVars, modeVars>>

StartCreates(c) ==
  /\ Goes(c, "submit", "idle") /\ ret' = [ret EXCEPT ![c] = "idle"]
  /\ sub' = "loop" /\ stats' = "loop" /\ Create({"submit", "stats"})
  /\ UNCHANGED <<stop_mutex, run, r2iqOn, fx3run, pollVars, r2Vars, delivered, ringVars, modeVars>>

StopStep(c) == \/ StopLocks(c) \/ StopLowersRun(c) \/ TurnOff(c) \/ JoinR2iq(c)
               \/ StopStream(c) \/ JoinPoll(c) \/ JoinStats(c) \/ JoinSubmit(c)
               \/ StopReturns(c)

StartStep(c) == \/ StartRaisesRun(c) \/ TurnOn(c) \/ StartStream(c) \/ StartCreates(c)

-----------------------------------------------------------------------------
(* Mode and tuning, on the application's threads                            *)

UpdatemodeRF ==
  /\ LiveModeSwitch \/ (~run /\ \A c \in Callers : pc[c] = "idle")
  /\ modeRF' \in {"HF", "VHF"} \ {modeRF}
  /\ sideband' = (modeRF' = "VHF")
  /\ UNCHANGED <<fcNegated, callVars, threadVars, ringVars>>

(* The fine tuning that the bin-wise shift leaves over. *)
TuneLO ==
  /\ fcNegated' = (modeRF = "VHF")
  /\ fcNegated' # fcNegated
  /\ UNCHANGED <<modeRF, sideband, callVars, threadVars, ringVars>>

Next == \/ PollLoop \/ PacketRead \/ R2Step \/ SubReads \/ SubReleases \/ CaculateStats
        \/ UpdatemodeRF \/ TuneLO
        \/ \E c \in Callers : CallStart(c) \/ CallStop(c) \/ StopStep(c) \/ StartStep(c)

Spec == Init /\ [][Next]_vars

(* Threads run, and a call goes on once it is made; the device need not     *)
(* deliver, and nobody has to call anything.                                *)
FairSpec == /\ Spec
            /\ WF_vars(PollLoop /\ ~fx3run) /\ WF_vars(PacketRead) /\ WF_vars(R2Step)
            /\ WF_vars(SubReads) /\ WF_vars(SubReleases) /\ WF_vars(CaculateStats)
            /\ \A c \in Callers : SF_vars(StopLocks(c)) /\ WF_vars(StopStep(c) \/ StartStep(c))

-----------------------------------------------------------------------------
(* Types of all variables; neither ring overfills.                          *)
TypeOK ==
  /\ pc \in [Callers -> {"idle"} \cup StopCalls \cup StartCalls]
  /\ ret \in [Callers -> {"idle", "raise"}]
  /\ stop_mutex \in Callers \cup {"free"}
  /\ {run, r2iqOn, fx3run, sideband, lsb, fcNegated} \subseteq BOOLEAN
  /\ joinable \subseteq {"r2iq", "poll", "submit", "stats"}
  /\ poll \in {"off", "events", "packet"}
  /\ r2 \in {"off", "new", "loop", "get", "convert", "place", "publish"}
  /\ sub \in {"off", "loop", "get", "callback"} /\ stats \in {"off", "loop"}
  /\ In!ChTypeOK /\ Len(inQueue) <= Capacity
  /\ Out!ChTypeOK /\ Len(outQueue) <= Capacity
  /\ mdecimation \in Decimations /\ modeRF \in {"HF", "VHF"}
  /\ r2 \notin {"off", "new"} => decimate_count \in 0 .. 2 ^ mdecimation - 1
  /\ pout \in Seq(Nat) /\ sent \in Nat /\ delivered \in Nat

AllThreadsGone == /\ poll = "off" /\ r2 = "off" /\ sub = "off" /\ stats = "off"
                  /\ joinable = {}

(* When a call of Stop is about to return, also one that found run already  *)
(* lowered by another thread, every thread of the session is gone, joined,  *)
(* and will not call Callback again.                                        *)
StoppedOnReturn == \A c \in Callers : pc[c] = "unlock" => AllThreadsGone

(* TurnOn starts the rings, which resets their indices without waiting for  *)
(* anyone, only when no thread is left that may be inside one of them: what *)
(* Start of RingBuffer.tla takes for granted.                               *)
RingsStartAlone ==
  [][~inOpen /\ inOpen' => poll = "off" /\ r2 = "off" /\ sub = "off"]_vars

(* Callback gets every input block of the session, converted once, in order,*)
(* 2^mdecimation of them in each block.                                     *)
BlocksConverted ==
  sub = "callback" /\ outOpen =>
    Head(outQueue).of = [k \in 1 .. 2 ^ mdecimation |-> delivered + k]

(* Stop returns: no thread it joins waits on a ring, on a packet or on      *)
(* another thread for ever.                                                 *)
StopCompletes ==
  \A c \in Callers : (pc[c] \in StopCalls) ~> (pc[c] \notin StopCalls)

(* While the session lasts, every packet that completes an output block     *)
(* reaches Callback.                                                        *)
PacketsReachCallback ==
  \A k \in 1 .. MaxPackets :
    (run /\ r2iqOn /\ sent = k) ~> (delivered + 2 ^ mdecimation > k \/ ~run)

(* "sign change with sideband used" (RadioHandler.cpp:290): once TuneLO has  *)
(* followed the last change of mode, a block is mirrored by the conversion  *)
(* if and only if fc is negated.                                            *)
SidebandUsed ==
  [][r2 = "get" /\ r2' = "convert" /\ fcNegated = (modeRF = "VHF")
       => lsb = fcNegated]_vars
=============================================================================
