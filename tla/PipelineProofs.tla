--------------------------- MODULE PipelineProofs ---------------------------
(***************************************************************************)
(* Proofs about RadioPipeline.tla for any number of callers of Start and   *)
(* Stop, any ring capacity and any decimations.                            *)
(*                                                                         *)
(* That Stop leaves no thread behind rests on run: a call that finds it    *)
(* lowered may trust that whoever lowered it has joined every thread, as   *)
(* both held stop_mutex and a Start overlaps no other call.                *)
(*                                                                         *)
(* That Callback gets every block rests on where the blocks of a session   *)
(* lie: DataInv counts them through the input ring, the conversion thread  *)
(* and the output ring, and OpenInv says that the rings open and close     *)
(* together and only around a session.                                     *)
(***************************************************************************)
EXTENDS RadioPipeline, TLAPS

Locked  == StopCalls \ {"lock"}
Joining == Locked \ {"lower", "unlock"}

TypeInv ==
  /\ pc \in [Callers -> {"idle"} \cup StopCalls \cup StartCalls]
  /\ ret \in [Callers -> {"idle", "raise"}]
  /\ stop_mutex \in Callers \cup {"free"}
  /\ joinable \subseteq {"r2iq", "poll", "submit", "stats"}

(* stop_mutex is held from StopLocks to StopReturns, and a call of Start is *)
(* alone from its call of Stop to its end.                                  *)
CallInv ==
  /\ \A c \in Callers : pc[c] \in Locked <=> stop_mutex = c
  /\ \A c \in Callers : pc[c] = "idle" => ret[c] = "idle"
  /\ \A c \in Callers : pc[c] \in StartCalls => ret[c] = "raise"
  /\ \A c, d \in Callers : ret[c] = "raise" /\ c # d => pc[d] = "idle"

(* Which threads are gone, at each place of the calls.                      *)
ThreadInv ==
  /\ ~run /\ (\A c \in Callers : pc[c] \notin Joining) => AllThreadsGone
  /\ \A c \in Callers :
       /\ pc[c] \in {"lower", "turnon", "startstream", "submit"} => run
       /\ pc[c] \in Joining \cup {"unlock", "raise"} => ~run
       /\ pc[c] \in {"stopstream", "joinpoll", "joinstats", "joinsubmit"} =>
            r2 = "off" /\ "r2iq" \notin joinable
       /\ pc[c] \in {"joinstats", "joinsubmit"} => poll = "off" /\ "poll" \notin joinable
       /\ pc[c] = "joinsubmit" => stats = "off" /\ "stats" \notin joinable
       /\ pc[c] \in {"unlock", "raise", "turnon"} => AllThreadsGone
       /\ pc[c] \in {"startstream", "submit"} => sub = "off" /\ stats = "off"
       /\ pc[c] = "startstream" => poll = "off"

IInv == TypeInv /\ CallInv /\ ThreadInv

-----------------------------------------------------------------------------
(* A step of a thread: it changes nothing that calls change, and no thread  *)
(* that is gone comes back.                                                 *)
ThreadStep ==
  /\ UNCHANGED callVars
  /\ poll = "off" => poll' = "off"
  /\ r2 = "off" => r2' = "off"
  /\ sub = "off" => sub' = "off"
  /\ stats = "off" => stats' = "off"

Threads == \/ PollLoop \/ PacketRead \/ R2Step \/ SubReads \/ SubReleases \/ CaculateStats
           \/ UpdatemodeRF \/ TuneLO \/ UNCHANGED vars

(* All of them are that.                                                    *)
LEMMA OnlyThreads == Threads => ThreadStep
<1> USE DEF ThreadStep, pollVars, r2Vars, subVars, threadVars
<1>1. PollLoop \/ PacketRead => ThreadStep
  BY SMT DEF PollLoop, PacketRead, PollGoes
<1>2. R2Step => ThreadStep
  BY SMT DEF R2Step, R2Starts, R2Reads, R2Releases, R2Places, R2Publishes, R2Goes
<1>3. SubReads \/ SubReleases \/ CaculateStats => ThreadStep
  BY SMT DEF SubReads, SubReleases, CaculateStats, SubGoes
<1>4. UpdatemodeRF \/ TuneLO \/ UNCHANGED vars => ThreadStep
  BY DEF UpdatemodeRF, TuneLO, vars
<1>5. QED
  BY <1>1, <1>2, <1>3, <1>4 DEF Threads

(* Every step is a thread's or a call's.                                    *)
LEMMA Steps ==
  ASSUME [Next]_vars
  PROVE  \/ Threads
         \/ \E c \in Callers : CallStart(c) \/ CallStop(c) \/ StopStep(c) \/ StartStep(c)
  BY DEF Next, Threads

(* A thread's step keeps the invariant.                                     *)
LEMMA ThreadsKeep ==
  ASSUME IInv, Threads
  PROVE  IInv'
<1>1. ThreadStep
  BY OnlyThreads
<1>2. TypeInv' /\ CallInv'
  BY <1>1 DEF IInv, TypeInv, CallInv, ThreadStep, callVars
<1>3. AllThreadsGone => AllThreadsGone'
  BY <1>1 DEF AllThreadsGone, ThreadStep, callVars
<1>4. ThreadInv'
  BY <1>1, <1>3, SMT DEF IInv, ThreadInv, ThreadStep, callVars
<1>5. QED
  BY <1>2, <1>4 DEF IInv

(* So does a step of a call.                                                *)
LEMMA CallsKeep ==
  ASSUME IInv, NEW c \in Callers, CallStart(c) \/ CallStop(c) \/ StopStep(c) \/ StartStep(c)
  PROVE  TypeInv' /\ CallInv'
<1> USE PipelineAssumption
    DEF IInv, TypeInv, CallInv, Goes, StopCalls, StartCalls, Locked, Joining, Join, Create
<1>1. CASE CallStart(c)
  BY <1>1, SMT DEF CallStart
<1>2. CASE CallStop(c)
  BY <1>2, SMT DEF CallStop
<1>3. CASE StopLocks(c)
  BY <1>3, SMT DEF StopLocks
<1>4. CASE StopLowersRun(c)
  BY <1>4, SMT DEF StopLowersRun
<1>5. CASE TurnOff(c)
  BY <1>5, SMT DEF TurnOff
<1>6. CASE StopStream(c)
  BY <1>6, SMT DEF StopStream
<1>7. CASE JoinR2iq(c)
  BY <1>7, SMT DEF JoinR2iq
<1>8. CASE JoinPoll(c)
  BY <1>8, SMT DEF JoinPoll
<1>9. CASE JoinStats(c)
  BY <1>9, SMT DEF JoinStats
<1>10. CASE JoinSubmit(c)
  BY <1>10, SMT DEF JoinSubmit
<1>11. CASE StopReturns(c)
  BY <1>11, SMT DEF StopReturns
<1>12. CASE StartRaisesRun(c)
  BY <1>12, SMT DEF StartRaisesRun
<1>13. CASE TurnOn(c)
  BY <1>13, SMT DEF TurnOn
<1>14. CASE StartStream(c)
  BY <1>14, SMT DEF StartStream
<1>15. CASE StartCreates(c)
  BY <1>15, SMT DEF StartCreates
<1>16. QED
  BY <1>1, <1>2, <1>3, <1>4, <1>5, <1>6, <1>7, <1>8, <1>9, <1>10, <1>11, <1>12,
     <1>13, <1>14, <1>15 DEF StopStep, StartStep

(* And it keeps what is known of the threads.                               *)
LEMMA CallsThreads ==
  ASSUME IInv, NEW c \in Callers, CallStart(c) \/ CallStop(c) \/ StopStep(c) \/ StartStep(c)
  PROVE  ThreadInv'
<1> USE PipelineAssumption
    DEF IInv, TypeInv, CallInv, ThreadInv, AllThreadsGone, Goes, StopCalls, StartCalls, Locked,
        Joining, Join, Create, threadVars, pollVars, r2Vars, subVars
<1>1. CASE CallStart(c)
  BY <1>1, SMT DEF CallStart
<1>2. CASE CallStop(c)
  BY <1>2, SMT DEF CallStop
<1>3. CASE StopLocks(c)
  BY <1>3, SMT DEF StopLocks
<1>4. CASE StopLowersRun(c)
  BY <1>4, SMT DEF StopLowersRun
<1>5. CASE TurnOff(c) \/ StopStream(c)
  BY <1>5, SMT DEF TurnOff, StopStream
<1>6. CASE JoinR2iq(c)
  BY <1>6, SMT DEF JoinR2iq
<1>7. CASE JoinPoll(c)
  BY <1>7, SMT DEF JoinPoll
<1>8. CASE JoinStats(c)
  BY <1>8, SMT DEF JoinStats
<1>9. CASE JoinSubmit(c)
  BY <1>9, SMT DEF JoinSubmit
<1>10. CASE StopReturns(c)
  BY <1>10, SMT DEF StopReturns
<1>11. CASE StartRaisesRun(c)
  BY <1>11, SMT DEF StartRaisesRun
<1>12. CASE TurnOn(c)
  BY <1>12, SMT DEF TurnOn
<1>13. CASE StartStream(c)
  BY <1>13, SMT DEF StartStream
<1>14. CASE StartCreates(c)
  BY <1>14, SMT DEF StartCreates
<1>15. QED
  BY <1>1, <1>2, <1>3, <1>4, <1>5, <1>6, <1>7, <1>8, <1>9, <1>10, <1>11, <1>12, <1>13, <1>14
  DEF StopStep, StartStep

-----------------------------------------------------------------------------
(* The data.  Blocks in front of those converted and not yet delivered:     *)
D      == 2 ^ mdecimation
Before == delivered + D * Len(outQueue)

DataTypes ==
  /\ inQueue \in Seq(Nat) /\ Len(inQueue) <= Capacity
  /\ outQueue \in Seq(OutBlock) /\ Len(outQueue) <= Capacity
  /\ pout \in Seq(Nat) /\ sent \in Nat /\ delivered \in Nat
  /\ mdecimation \in Decimations
  /\ decimate_count \in Nat /\ decimate_count < D
  /\ Len(pout) = (IF r2 = "publish" THEN D
                  ELSE IF r2 = "place" THEN decimate_count + 1 ELSE decimate_count)
  /\ r2 \in {"off", "new"} => pout = <<>> /\ decimate_count = 0
  /\ r2 = "publish" => decimate_count = 0

(* Both rings are open or none is, and only in a session.                   *)
OpenInv ==
  /\ inOpen <=> outOpen
  /\ inOpen <=> r2iqOn
  /\ inOpen => run \/ \E c \in Callers : pc[c] = "turnoff"
  /\ \A c \in Callers : pc[c] \in {"raise", "turnon"} => ~inOpen

(* The blocks of the session lie in the rings, and in pout between them, in *)
(* their order and without a gap.                                           *)
DataInv ==
  inOpen =>
    /\ sent = Before + Len(pout) + Len(inQueue)
    /\ \A i \in 1 .. Len(inQueue) : inQueue[i] = Before + Len(pout) + i
    /\ \A i \in 1 .. Len(pout) : pout[i] = Before + i
    /\ \A i \in 1 .. Len(outQueue) :
         /\ Len(outQueue[i].of) = D
         /\ \A k \in 1 .. D : outQueue[i].of[k] = delivered + D * (i - 1) + k
    /\ r2 = "convert" => inQueue # <<>>
    /\ sub = "callback" => outQueue # <<>>

ControlTypes ==
  /\ run \in BOOLEAN /\ r2iqOn \in BOOLEAN /\ fx3run \in BOOLEAN
  /\ sideband \in BOOLEAN /\ lsb \in BOOLEAN /\ fcNegated \in BOOLEAN
  /\ inOpen \in BOOLEAN /\ outOpen \in BOOLEAN
  /\ poll \in {"off", "events", "packet"}
  /\ r2 \in {"off", "new", "loop", "get", "convert", "place", "publish"}
  /\ sub \in {"off", "loop", "get", "callback"} /\ stats \in {"off", "loop"}
  /\ modeRF \in {"HF", "VHF"}

FullInv == IInv /\ ControlTypes /\ DataTypes /\ OpenInv /\ DataInv

(* A decimation takes at least one block.                                   *)
LEMMA DPos ==
  ASSUME mdecimation \in Decimations
  PROVE  D \in Nat /\ D >= 1
  BY PipelineAssumption, SMT DEF D

(* How the decimation counts.                                               *)
LEMMA CountWraps ==
  ASSUME NEW n \in Nat, NEW d \in Nat, n < d
  PROVE  (n + 1) % d = IF n + 1 = d THEN 0 ELSE n + 1
<1>1. CASE n + 1 = d
  BY <1>1, SMT
<1>2. CASE n + 1 # d
  BY <1>2, SMT
<1>3. QED
  BY <1>1, <1>2

(* One multiplication the provers are told of.                              *)
LEMMA Times ==
  ASSUME NEW d \in Nat, NEW n \in Nat
  PROVE  d * (n + 1) = d * n + d /\ d * n \in Nat
  BY SMT

(* A step that leaves all data alone.                                       *)
dataVars == <<inQueue, outQueue, pout, sent, delivered, mdecimation, decimate_count>>

(* Types of the flags and of where the threads are.                         *)
LEMMA ControlStep ==
  ASSUME ControlTypes, [Next]_vars
  PROVE  ControlTypes'
<1> USE DEF ControlTypes, ringVars, callVars, pollVars, r2Vars, subVars, modeVars, threadVars,
            PollGoes, R2Goes, SubGoes
<1>1. CASE PollLoop
  BY <1>1 DEF PollLoop
<1>2. CASE PacketRead
  BY <1>2 DEF PacketRead, In!Put
<1>3. CASE R2Starts
  BY <1>3 DEF R2Starts
<1>4. CASE R2Reads
  <2>1. lsb' \in BOOLEAN
    BY <1>4 DEF R2Reads
  <2>2. r2' \in {"off", "get", "convert"}
    BY <1>4 DEF R2Reads
  <2>3. QED
    BY <1>4, <2>1, <2>2 DEF R2Reads
<1>5. CASE R2Releases
  BY <1>5 DEF R2Releases, In!Get
<1>6. CASE R2Places
  BY <1>6 DEF R2Places
<1>7. CASE R2Publishes
  BY <1>7 DEF R2Publishes, Out!Put
<1>8. CASE SubReads
  BY <1>8 DEF SubReads
<1>9. CASE SubReleases
  BY <1>9 DEF SubReleases, Out!Get
<1>10. CASE CaculateStats
  BY <1>10 DEF CaculateStats
<1>11. CASE UpdatemodeRF
  <2>1. sideband' \in BOOLEAN
    BY <1>11 DEF UpdatemodeRF
  <2>2. QED
    BY <1>11, <2>1 DEF UpdatemodeRF
<1>12. CASE TuneLO
  <2>1. fcNegated' \in BOOLEAN
    BY <1>12 DEF TuneLO
  <2>2. QED
    BY <1>12, <2>1 DEF TuneLO
<1>13. CASE UNCHANGED vars
  BY <1>13 DEF vars
<1>14. ASSUME NEW c \in Callers, CallStart(c) \/ CallStop(c) \/ StopStep(c) \/ StartStep(c)
       PROVE  ControlTypes'
  <2>1. CASE TurnOff(c)
    <3>1. r2iqOn' \in BOOLEAN
      BY <2>1 DEF TurnOff
    <3>2. inOpen' \in BOOLEAN /\ outOpen' \in BOOLEAN
      BY <2>1 DEF TurnOff, In!Close, Out!Close
    <3>3. UNCHANGED <<run, fx3run, poll, r2Vars, sub, stats, modeVars>>
      BY <2>1 DEF TurnOff
    <3>4. QED
      BY <3>1, <3>2, <3>3
  <2>2. CASE TurnOn(c)
    BY <2>2 DEF TurnOn, In!Open, Out!Open
  <2>3. CASE StartRaisesRun(c)
    BY <2>3 DEF StartRaisesRun
  <2>4. CASE StopLowersRun(c) \/ StopReturns(c)
    <3>1. run' \in BOOLEAN
      BY <2>4 DEF StopLowersRun, StopReturns
    <3>2. UNCHANGED <<r2iqOn, fx3run, threadVars, ringVars, modeVars>>
      BY <2>4 DEF StopLowersRun, StopReturns
    <3>3. QED
      BY <3>1, <3>2
  <2>5. CASE CallStart(c) \/ CallStop(c) \/ StopLocks(c)
    BY <2>5 DEF CallStart, CallStop, StopLocks
  <2>6. CASE JoinR2iq(c) \/ JoinPoll(c) \/ JoinStats(c) \/ JoinSubmit(c)
    BY <2>6 DEF JoinR2iq, JoinPoll, JoinStats, JoinSubmit
  <2>7. CASE StopStream(c)
    <3>1. fx3run' \in BOOLEAN
      BY <2>7 DEF StopStream
    <3>2. UNCHANGED <<run, r2iqOn, threadVars, ringVars, modeVars>>
      BY <2>7 DEF StopStream
    <3>3. QED
      BY <3>1, <3>2
  <2>8. CASE StartStream(c)
    BY <2>8 DEF StartStream
  <2>9. CASE StartCreates(c)
    BY <2>9 DEF StartCreates
  <2>10. QED
    BY <1>14, <2>1, <2>2, <2>3, <2>4, <2>5, <2>6, <2>7, <2>8, <2>9 DEF StopStep, StartStep
<1>15. QED
  BY <1>1, <1>2, <1>3, <1>4, <1>5, <1>6, <1>7, <1>8, <1>9, <1>10, <1>11, <1>12, <1>13, <1>14
  DEF Next, R2Step

(* Types of the data.                                                       *)
LEMMA DataTypesStep ==
  ASSUME FullInv, [Next]_vars
  PROVE  DataTypes'
<1>d. D \in Nat /\ D >= 1 /\ Capacity \in Nat /\ Capacity >= 1
  BY DPos, PipelineAssumption, SMT DEF FullInv, DataTypes
<1>e. mdecimation' = mdecimation => D' = D
  BY DEF D
<1> HIDE DEF D
<1> USE DEF FullInv, DataTypes, r2Vars, pollVars, subVars, ringVars, callVars, threadVars,
            R2Goes, PollGoes, SubGoes
<1>1. ASSUME UNCHANGED dataVars, r2' = r2
      PROVE  DataTypes'
  BY <1>1, <1>e, SMT DEF dataVars
<1>2. CASE PollLoop \/ SubReads \/ CaculateStats \/ UpdatemodeRF \/ TuneLO \/ UNCHANGED vars
  BY <1>1, <1>2 DEF PollLoop, SubReads, CaculateStats, UpdatemodeRF, TuneLO, vars, dataVars
<1>3. CASE PacketRead
  <2>1. inQueue' \in Seq(Nat) /\ Len(inQueue') <= Capacity /\ sent' \in Nat
    BY <1>3, <1>d, SMT DEF PacketRead, In!Put, In!CanPut
  <2>2. UNCHANGED <<outQueue, pout, delivered, mdecimation, decimate_count, r2>>
    BY <1>3 DEF PacketRead
  <2>3. QED
    BY <1>e, <2>1, <2>2, SMT
<1>4. CASE R2Starts
  BY <1>4, <1>d, <1>e, SMT DEF R2Starts
<1>5. CASE R2Reads
  <2>1. r2 \in {"loop", "get"} /\ r2' \in {"off", "get", "convert"}
        /\ UNCHANGED <<inQueue, outQueue, sent, delivered, mdecimation>>
    BY <1>5 DEF R2Reads
  <2>2. IF r2' = "off" THEN decimate_count' = 0 /\ pout' = <<>>
                       ELSE UNCHANGED <<decimate_count, pout>>
    BY <1>5 DEF R2Reads
  <2>3. QED
    <3>1. D' = D
      BY <1>e, <2>1
    <3>2. CASE r2' = "off"
      BY <1>d, <2>1, <2>2, <3>1, <3>2, SMT
    <3>3. CASE r2' # "off"
      BY <1>d, <2>1, <2>2, <3>1, <3>3, SMT
    <3>4. QED
      BY <3>2, <3>3
<1>6. CASE R2Releases
  <2>1. Oldest(inQueue, Stale) \in Nat
    BY SMT DEF Oldest, Stale
  <2>2. inQueue' \in Seq(Nat) /\ Len(inQueue') <= Capacity
    BY <1>6, <1>d, SMT DEF R2Releases, In!Get, In!CanGet
  <2>3. pout' \in Seq(Nat) /\ Len(pout') = Len(pout) + 1
    BY <1>6, <2>1, SMT DEF R2Releases
  <2>4. r2 = "convert" /\ r2' = "place"
        /\ UNCHANGED <<outQueue, sent, delivered, mdecimation, decimate_count>>
    BY <1>6 DEF R2Releases
  <2>5. QED
    BY <1>d, <1>e, <2>2, <2>3, <2>4, SMT
<1>7. CASE R2Places
  <2>1. decimate_count' = IF decimate_count + 1 = D THEN 0 ELSE decimate_count + 1
    BY <1>7, <1>d, CountWraps, SMT DEF R2Places, D
  <2>2. QED
    BY <1>7, <1>d, <1>e, <2>1, SMT DEF R2Places
<1>8. CASE R2Publishes
  <2>1. [of |-> pout, lsb |-> lsb] \in OutBlock
    <3>1. pout \in Seq(Nat) /\ lsb \in BOOLEAN
      BY DEF ControlTypes
    <3>2. QED
      BY <3>1 DEF OutBlock
  <2>2. outQueue' \in Seq(OutBlock) /\ Len(outQueue') <= Capacity
    BY <1>8, <1>d, <2>1, SMT DEF R2Publishes, Out!Put, Out!CanPut
  <2>3. QED
    BY <1>8, <1>d, <1>e, <2>2, SMT DEF R2Publishes
<1>9. CASE SubReleases
  <2>1. Oldest(outQueue, NoBlock) \in OutBlock
    <3>1. <<>> \in Seq(Nat)
      BY SMT
    <3>2. NoBlock \in OutBlock
      BY <3>1 DEF NoBlock, OutBlock
    <3>3. outQueue # <<>> => Head(outQueue) \in OutBlock
      BY SMT
    <3>4. QED
      BY <3>2, <3>3 DEF Oldest
  <2>2. delivered' \in Nat
    BY <1>9, <2>1, SMT DEF SubReleases, OutBlock
  <2>3. outQueue' \in Seq(OutBlock) /\ Len(outQueue') <= Capacity
    BY <1>9, <1>d, SMT DEF SubReleases, Out!Get, Out!CanGet
  <2>4. UNCHANGED <<inQueue, pout, sent, mdecimation, decimate_count, r2>>
    BY <1>9 DEF SubReleases
  <2>5. QED
    BY <1>e, <2>2, <2>3, <2>4, SMT
<1>10. ASSUME NEW c \in Callers, CallStart(c) \/ CallStop(c) \/ StopStep(c) \/ StartStep(c)
       PROVE  DataTypes'
  <2>1. CASE TurnOff(c) \/ TurnOn(c)
    <3>1. inQueue' = <<>> /\ outQueue' = <<>> /\ sent' = 0 /\ delivered' = 0
          /\ UNCHANGED <<pout, mdecimation, decimate_count>>
      BY <2>1 DEF TurnOff, TurnOn, In!Close, Out!Close, In!Open, Out!Open
    <3>2. r2' = r2 \/ (r2 = "off" /\ r2' = "new")
      BY <2>1 DEF TurnOff, TurnOn, IInv, ThreadInv, Goes, AllThreadsGone
    <3>3. QED
      BY <1>d, <1>e, <3>1, <3>2, SMT
  <2>2. CASE StartRaisesRun(c)
    <3>1. r2 = "off" /\ r2' = r2 /\ mdecimation' \in Decimations
          /\ UNCHANGED <<inQueue, outQueue, pout, sent, delivered, decimate_count>>
      BY <2>2 DEF StartRaisesRun, IInv, ThreadInv, Goes, AllThreadsGone
    <3>2. D' \in Nat /\ D' >= 1
      <4>1. D' \in Nat \ {0}
        BY <3>1, PipelineAssumption DEF D
      <4>2. QED
        BY <4>1, SMT
    <3>3. QED
      BY <3>1, <3>2, SMT
  <2>3. CASE ~(TurnOff(c) \/ TurnOn(c) \/ StartRaisesRun(c))
    <3>1. UNCHANGED dataVars /\ r2' = r2
      BY <1>10, <2>3 DEF CallStart, CallStop, StopStep, StartStep, StopLocks, StopLowersRun,
         JoinR2iq, StopStream, JoinPoll, JoinStats, JoinSubmit, StopReturns, StartStream,
         StartCreates, dataVars
    <3>2. QED
      BY <1>1, <3>1
  <2>4. QED
    BY <2>1, <2>2, <2>3
<1>11. QED
  BY <1>2, <1>3, <1>4, <1>5, <1>6, <1>7, <1>8, <1>9, <1>10 DEF Next, R2Step

(* When the rings are open.                                                 *)
LEMMA OpenStep ==
  ASSUME FullInv, [Next]_vars
  PROVE  OpenInv'
<1> USE DEF FullInv, OpenInv, ringVars, callVars
<1>1. ASSUME UNCHANGED <<inOpen, outOpen, r2iqOn, run, pc>>
      PROVE  OpenInv'
  BY <1>1
<1>2. CASE PollLoop \/ PacketRead \/ SubReads \/ SubReleases \/ CaculateStats \/ UpdatemodeRF
           \/ TuneLO \/ UNCHANGED vars
  BY <1>1, <1>2 DEF PollLoop, PacketRead, SubReads, SubReleases, CaculateStats, UpdatemodeRF,
     TuneLO, vars, In!Put, Out!Get
<1>3. CASE R2Step
  BY <1>1, <1>3 DEF R2Step, R2Starts, R2Reads, R2Releases, R2Places, R2Publishes, In!Get, Out!Put
<1>4. ASSUME NEW c \in Callers, CallStart(c) \/ CallStop(c) \/ StopStep(c) \/ StartStep(c)
      PROVE  OpenInv'
  <2> USE DEF IInv, TypeInv, CallInv, ThreadInv, Goes, StopCalls, StartCalls, Locked, Joining
  <2>1. CASE TurnOff(c)
    BY <2>1, SMT DEF TurnOff, In!Close, Out!Close
  <2>2. CASE TurnOn(c)
    BY <2>2, SMT DEF TurnOn, In!Open, Out!Open
  <2>3. CASE StartRaisesRun(c)
    BY <2>3, SMT DEF StartRaisesRun
  <2>4. CASE StopLowersRun(c)
    BY <2>4, SMT DEF StopLowersRun
  <2>5. CASE StopReturns(c)
    BY <2>5, SMT DEF StopReturns
  <2>6. CASE CallStart(c) \/ CallStop(c) \/ StopLocks(c)
    BY <2>6, SMT DEF CallStart, CallStop, StopLocks
  <2>7. CASE JoinR2iq(c) \/ JoinPoll(c) \/ JoinStats(c) \/ JoinSubmit(c)
    BY <2>7, SMT DEF JoinR2iq, JoinPoll, JoinStats, JoinSubmit
  <2>8. CASE StopStream(c) \/ StartStream(c) \/ StartCreates(c)
    BY <2>8, SMT DEF StopStream, StartStream, StartCreates
  <2>9. QED
    BY <1>4, <2>1, <2>2, <2>3, <2>4, <2>5, <2>6, <2>7, <2>8 DEF StopStep, StartStep
<1>5. QED
  BY <1>2, <1>3, <1>4 DEF Next

(* The order of the blocks.                                                 *)
LEMMA DataStep ==
  ASSUME FullInv, DataTypes', [Next]_vars
  PROVE  DataInv'
<1>d. D \in Nat /\ D >= 1 /\ Capacity \in Nat /\ Capacity >= 1
  BY DPos, PipelineAssumption, SMT DEF FullInv, DataTypes
<1>e. mdecimation' = mdecimation => D' = D
  BY DEF D
<1>t. /\ inQueue \in Seq(Nat) /\ outQueue \in Seq(OutBlock) /\ pout \in Seq(Nat)
      /\ sent \in Nat /\ delivered \in Nat
  BY DEF FullInv, DataTypes
<1>f. DataInv /\ OpenInv
  BY DEF FullInv
<1> HIDE DEF D
<1> USE DEF r2Vars, pollVars, subVars, ringVars, callVars, threadVars, R2Goes, PollGoes, SubGoes
<1>1. ASSUME UNCHANGED <<inQueue, outQueue, pout, sent, delivered, mdecimation>>,
             inOpen' => inOpen,
             inOpen /\ r2' = "convert" => r2 = "convert" \/ inQueue # <<>>,
             inOpen /\ sub' = "callback" => sub = "callback" \/ outQueue # <<>>
      PROVE  DataInv'
  <2>1. D' = D /\ Before' = Before
    BY <1>1, <1>e DEF Before
  <2>2. QED
    BY <1>1, <1>f, <2>1 DEF DataInv
<1>2. CASE PollLoop \/ CaculateStats \/ UpdatemodeRF \/ TuneLO \/ UNCHANGED vars
  BY <1>1, <1>2 DEF PollLoop, CaculateStats, UpdatemodeRF, TuneLO, vars
<1>3. CASE SubReads
  BY <1>1, <1>3, <1>f DEF SubReads, Out!CanGet, OpenInv
<1>4. CASE PacketRead
  <2> SUFFICES ASSUME inOpen' PROVE DataInv'
    BY DEF DataInv
  <2>1. inOpen /\ inQueue' = Append(inQueue, sent + 1) /\ sent' = sent + 1
        /\ UNCHANGED <<outQueue, pout, delivered, mdecimation, r2, sub>>
    BY <1>4 DEF PacketRead, In!Put
  <2>2. D' = D /\ Before' = Before
    BY <2>1, <1>e DEF Before
  <2>3. Before \in Nat
    BY <1>d, <1>t, SMT DEF Before
  <2>4. sent = Before + Len(pout) + Len(inQueue)
    BY <1>f, <2>1 DEF DataInv
  <2>5. \A i \in 1 .. Len(inQueue) : inQueue[i] = Before + Len(pout) + i
    BY <1>f, <2>1 DEF DataInv
  <2> HIDE DEF Before
  <2>6. sent' = Before + Len(pout) + Len(inQueue')
    BY <1>t, <2>1, <2>3, <2>4, SMT
  <2>7. ASSUME NEW i \in 1 .. Len(inQueue')
        PROVE  inQueue'[i] = Before + Len(pout) + i
    <3>1. Len(inQueue') = Len(inQueue) + 1 /\ Len(inQueue) \in Nat /\ Len(pout) \in Nat
      BY <1>t, <2>1, SMT
    <3>2. CASE i = Len(inQueue) + 1
      <4>1. inQueue'[i] = sent + 1
        BY <1>t, <2>1, <3>2, SMT
      <4>2. QED
        BY <1>t, <2>3, <2>4, <3>1, <3>2, <4>1, SMT
    <3>3. CASE i # Len(inQueue) + 1
      <4>1. i \in 1 .. Len(inQueue) /\ inQueue'[i] = inQueue[i]
        BY <1>t, <2>1, <3>1, <3>3, SMT
      <4>2. QED
        BY <2>5, <4>1
    <3>4. QED
      BY <3>2, <3>3
  <2>8. inQueue' # <<>>
    BY <1>t, <2>1, SMT
  <2>9. QED
    BY <1>f, <2>1, <2>2, <2>6, <2>7, <2>8 DEF DataInv
<1>5. CASE R2Starts
  <2>1. pout = <<>> /\ pout' = <<>> /\ r2' = "loop"
        /\ UNCHANGED <<inOpen, inQueue, outQueue, sent, delivered, mdecimation, sub>>
    BY <1>5 DEF R2Starts, FullInv, DataTypes
  <2>2. QED
    BY <1>1, <2>1
<1>6. CASE R2Reads
  <2>1. CASE r2' = "off"
    <3>1. ~r2iqOn
      BY <1>6, <2>1 DEF R2Reads
    <3>2. ~inOpen'
      BY <1>6, <1>f, <3>1 DEF R2Reads, OpenInv
    <3>3. QED
      BY <3>2 DEF DataInv
  <2>2. CASE r2' # "off"
    BY <1>1, <1>6, <2>2 DEF R2Reads, In!CanGet
  <2>3. QED
    BY <2>1, <2>2
<1>7. CASE R2Releases
  <2> SUFFICES ASSUME inOpen' PROVE DataInv'
    BY DEF DataInv
  <2>1. inOpen /\ inQueue # <<>> /\ inQueue' = Tail(inQueue) /\ pout' = Append(pout, Head(inQueue))
        /\ r2' = "place" /\ UNCHANGED <<outQueue, sent, delivered, mdecimation, sub>>
    BY <1>7, <1>f DEF R2Releases, In!Get, In!CanGet, Oldest
  <2>2. D' = D /\ Before' = Before
    BY <2>1, <1>e DEF Before
  <2>3. Before \in Nat
    BY <1>d, <1>t, SMT DEF Before
  <2> HIDE DEF Before
  <2>4. /\ sent = Before + Len(pout) + Len(inQueue)
        /\ \A i \in 1 .. Len(inQueue) : inQueue[i] = Before + Len(pout) + i
        /\ \A i \in 1 .. Len(pout) : pout[i] = Before + i
    BY <1>f, <2>1 DEF DataInv
  <2>5. /\ Len(pout') = Len(pout) + 1 /\ Len(inQueue') = Len(inQueue) - 1
        /\ Len(pout) \in Nat /\ Len(inQueue) \in Nat /\ Len(inQueue) >= 1
        /\ pout'[Len(pout) + 1] = Before + Len(pout) + 1
    BY <1>t, <2>1, <2>3, <2>4, SMT
  <2>6. ASSUME NEW i \in 1 .. Len(pout')
        PROVE  pout'[i] = Before + i
    <3>1. CASE i = Len(pout) + 1
      BY <2>3, <2>5, <3>1, SMT
    <3>2. CASE i # Len(pout) + 1
      <4>1. i \in 1 .. Len(pout) /\ pout'[i] = pout[i]
        BY <1>t, <2>1, <2>5, <3>2, SMT
      <4>2. QED
        BY <2>4, <4>1
    <3>3. QED
      BY <3>1, <3>2
  <2>7. ASSUME NEW i \in 1 .. Len(inQueue')
        PROVE  inQueue'[i] = Before + Len(pout') + i
    <3>1. i \in Nat /\ i + 1 \in 1 .. Len(inQueue) /\ inQueue'[i] = inQueue[i + 1]
      BY <1>t, <2>1, <2>5, SMT
    <3>2. inQueue[i + 1] = Before + Len(pout) + (i + 1)
      BY <2>4, <3>1
    <3>3. QED
      BY <2>3, <2>5, <3>1, <3>2, SMT
  <2>8. sent' = Before + Len(pout') + Len(inQueue')
    <3>1. sent = Before + Len(pout) + Len(inQueue) /\ sent' = sent
      BY <2>1, <2>4
    <3>2. QED
      BY <1>t, <2>3, <2>5, <3>1, SMT
  <2>9. QED
    BY <1>f, <2>1, <2>2, <2>6, <2>7, <2>8 DEF DataInv
<1>8. CASE R2Places
  BY <1>1, <1>8 DEF R2Places
<1>9. CASE R2Publishes
  <2> SUFFICES ASSUME inOpen' PROVE DataInv'
    BY DEF DataInv
  <2> DEFINE b == [of |-> pout, lsb |-> lsb]
  <2>1. inOpen /\ outOpen /\ outQueue' = Append(outQueue, b) /\ pout' = <<>>
        /\ r2' = "loop" /\ UNCHANGED <<inQueue, sent, delivered, mdecimation, sub>>
    BY <1>9, <1>f DEF R2Publishes, Out!Put, OpenInv
  <2>2. D' = D /\ Len(pout) = D
    BY <1>9, <2>1, <1>e DEF R2Publishes, FullInv, DataTypes
  <2>3. b \in OutBlock /\ b.of = pout
    BY <1>t DEF OutBlock, FullInv, ControlTypes
  <2> HIDE DEF b
  <2>4. Len(outQueue') = Len(outQueue) + 1 /\ Before' = Before + D /\ Before \in Nat
    <3>1. Len(outQueue') = Len(outQueue) + 1 /\ Len(outQueue) \in Nat
      BY <1>t, <2>1, <2>3, SMT
    <3>2. D * (Len(outQueue) + 1) = D * Len(outQueue) + D /\ D * Len(outQueue) \in Nat
      BY <1>d, <3>1, Times
    <3> DEFINE x == D * Len(outQueue)
               y == D' * Len(outQueue')
    <3>3. y = x + D /\ x \in Nat /\ Before = delivered + x /\ Before' = delivered + y
      BY <2>1, <2>2, <3>1, <3>2 DEF Before
    <3> HIDE DEF x, y
    <3>4. QED
      BY <1>d, <1>t, <3>1, <3>3, SMT
  <2>5. /\ sent' = Before' + Len(pout') + Len(inQueue')
        /\ \A i \in 1 .. Len(inQueue') : inQueue'[i] = Before' + Len(pout') + i
        /\ \A i \in 1 .. Len(pout') : pout'[i] = Before' + i
    BY <1>d, <1>t, <1>f, <2>1, <2>2, <2>4, SMT DEF DataInv
  <2>6. ASSUME NEW i \in 1 .. Len(outQueue')
        PROVE  /\ Len(outQueue'[i].of) = D
               /\ \A k \in 1 .. D : outQueue'[i].of[k] = delivered + D * (i - 1) + k
    <3>1. CASE i = Len(outQueue) + 1
      <4>1. outQueue'[i] = b /\ i - 1 = Len(outQueue)
        BY <1>t, <2>1, <2>3, <3>1, SMT
      <4>2. \A k \in 1 .. D : pout[k] = delivered + D * Len(outQueue) + k
        BY <1>f, <2>1, <2>2 DEF DataInv, Before
      <4>3. QED
        BY <2>2, <2>3, <4>1, <4>2
    <3>2. CASE i # Len(outQueue) + 1
      <4>1. i \in 1 .. Len(outQueue) /\ outQueue'[i] = outQueue[i]
        BY <1>t, <2>1, <2>3, <2>4, <3>2, SMT
      <4>2. QED
        BY <1>f, <2>1, <4>1 DEF DataInv
    <3>3. QED
      BY <3>1, <3>2
  <2>7. outQueue' # <<>>
    BY <1>t, <2>4, SMT
  <2>8. QED
    BY <1>f, <2>1, <2>2, <2>5, <2>6, <2>7 DEF DataInv
<1>10. CASE SubReleases
  <2> SUFFICES ASSUME inOpen' PROVE DataInv'
    BY DEF DataInv
  <2>1. inOpen /\ outQueue # <<>> /\ outQueue' = Tail(outQueue)
        /\ delivered' = delivered + Len(Head(outQueue).of) /\ sub' = "loop"
        /\ UNCHANGED <<inQueue, pout, sent, mdecimation, r2>>
    BY <1>10, <1>f DEF SubReleases, Out!Get, Oldest, OpenInv, DataInv
  <2>2. D' = D /\ Len(Head(outQueue).of) = D
    <3>1. 1 \in 1 .. Len(outQueue) /\ Head(outQueue) = outQueue[1]
      BY <1>t, <2>1, SMT
    <3>2. QED
      BY <1>e, <1>f, <2>1, <3>1 DEF DataInv
  <2>3. Before' = Before
    <3>1. Len(outQueue') = Len(outQueue) - 1 /\ Len(outQueue) \in Nat
      BY <1>t, <2>1, SMT
    <3>2. QED
      <4> DEFINE n == Len(outQueue) - 1
      <4>1. n \in Nat /\ Len(outQueue) = n + 1 /\ Len(outQueue') = n
        BY <1>t, <2>1, <3>1, SMT
      <4> HIDE DEF n
      <4>2. D * (n + 1) = D * n + D /\ D * n \in Nat
        BY <1>d, <4>1, Times
      <4> DEFINE x == D * Len(outQueue)
                 y == D' * Len(outQueue')
      <4>3. x = y + D /\ y \in Nat /\ Before = delivered + x
            /\ Before' = (delivered + D) + y
        BY <2>1, <2>2, <4>1, <4>2 DEF Before
      <4> HIDE DEF x, y
      <4>4. QED
        BY <1>d, <1>t, <4>3, SMT
  <2>4. ASSUME NEW i \in 1 .. Len(outQueue')
        PROVE  /\ Len(outQueue'[i].of) = D
               /\ \A k \in 1 .. D : outQueue'[i].of[k] = delivered' + D * (i - 1) + k
    <3>1. i + 1 \in 1 .. Len(outQueue) /\ outQueue'[i] = outQueue[i + 1] /\ i \in Nat
      BY <1>t, <2>1, SMT
    <3>2. /\ Len(outQueue[i + 1].of) = D
          /\ \A k \in 1 .. D : outQueue[i + 1].of[k] = delivered + D * ((i + 1) - 1) + k
      BY <1>f, <2>1, <3>1 DEF DataInv
    <3>3. delivered + D * ((i + 1) - 1) = delivered' + D * (i - 1)
      <4> DEFINE n == i - 1
      <4>1. n \in Nat /\ (i + 1) - 1 = n + 1 /\ i - 1 = n
        BY <3>1, SMT
      <4> HIDE DEF n
      <4>2. D * (n + 1) = D * n + D /\ D * n \in Nat
        BY <1>d, <4>1, Times
      <4> DEFINE x == D * n
                 y == D * (n + 1)
      <4>3. y = x + D /\ x \in Nat /\ y = D * ((i + 1) - 1) /\ x = D * (i - 1)
            /\ delivered' = delivered + D
        BY <2>1, <2>2, <4>1, <4>2
      <4> HIDE DEF x, y
      <4>4. QED
        BY <1>d, <1>t, <4>3, SMT
    <3>4. QED
      BY <3>1, <3>2, <3>3
  <2>5. QED
    BY <1>f, <2>1, <2>2, <2>3, <2>4 DEF DataInv
<1>11. ASSUME NEW c \in Callers, CallStart(c) \/ CallStop(c) \/ StopStep(c) \/ StartStep(c)
       PROVE  DataInv'
  <2>1. CASE TurnOff(c)
    BY <2>1 DEF TurnOff, In!Close, DataInv
  <2>2. CASE TurnOn(c)
    <3>1. inQueue' = <<>> /\ outQueue' = <<>> /\ sent' = 0 /\ delivered' = 0 /\ pout' = <<>>
          /\ r2' = "new" /\ sub' = "off" /\ mdecimation' = mdecimation
      BY <2>2 DEF TurnOn, In!Open, Out!Open, FullInv, DataTypes, IInv, ThreadInv, AllThreadsGone,
         Goes
    <3>2. Before' = 0
      BY <1>d, <1>e, <3>1, SMT DEF Before
    <3>3. QED
      BY <3>1, <3>2, SMT DEF DataInv
  <2>3. CASE StartRaisesRun(c)
    BY <2>3, <1>f DEF StartRaisesRun, Goes, OpenInv, DataInv
  <2>4. CASE ~(TurnOff(c) \/ TurnOn(c) \/ StartRaisesRun(c))
    BY <1>1, <1>11, <2>4 DEF CallStart, CallStop, StopStep, StartStep, StopLocks, StopLowersRun,
       JoinR2iq, StopStream, JoinPoll, JoinStats, JoinSubmit, StopReturns, StartStream, StartCreates
  <2>5. QED
    BY <2>1, <2>2, <2>3, <2>4
<1>12. QED
  BY <1>2, <1>3, <1>4, <1>5, <1>6, <1>7, <1>8, <1>9, <1>10, <1>11 DEF Next, R2Step

(* The whole invariant is inductive.                                        *)
LEMMA FullInductive == Spec => []FullInv
<1>1. Init => FullInv
  <2> SUFFICES ASSUME Init PROVE FullInv
    OBVIOUS
  <2>1. IInv
    BY PipelineAssumption, SMT DEF Init, IInv, TypeInv, CallInv, ThreadInv, AllThreadsGone,
       StopCalls, StartCalls, Locked, Joining
  <2>2. ControlTypes
    BY DEF Init, ControlTypes, In!ChInit, Out!ChInit
  <2>3. D \in Nat /\ D >= 1 /\ Capacity \in Nat
    BY DPos, PipelineAssumption, SMT DEF Init
  <2>4. DataTypes
    <3> HIDE DEF D
    <3>1. inQueue \in Seq(Nat) /\ outQueue \in Seq(OutBlock) /\ pout \in Seq(Nat)
      BY SMT DEF Init, In!ChInit, Out!ChInit
    <3>2. /\ Len(inQueue) <= Capacity /\ Len(outQueue) <= Capacity
          /\ pout = <<>> /\ decimate_count = 0 /\ r2 = "off" /\ sent \in Nat /\ delivered \in Nat
      BY <2>3, SMT DEF Init, In!ChInit, Out!ChInit
    <3>3. QED
      BY <2>3, <3>1, <3>2, SMT DEF DataTypes, Init
  <2>5. OpenInv
    BY DEF Init, OpenInv, In!ChInit, Out!ChInit
  <2>6. DataInv
    BY DEF Init, DataInv, In!ChInit
  <2>7. QED
    BY <2>1, <2>2, <2>4, <2>5, <2>6 DEF FullInv
<1>2. FullInv /\ [Next]_vars => FullInv'
  BY Steps, ThreadsKeep, CallsKeep, CallsThreads, ControlStep, DataTypesStep, OpenStep, DataStep
  DEF FullInv, IInv
<1>3. QED
  BY <1>1, <1>2, PTL DEF Spec

-----------------------------------------------------------------------------
(* When a call of Stop is about to return no thread of the session is left, *)
(* for any number of callers.                                               *)
THEOREM StopJoinsAll == Spec => []StoppedOnReturn
<1>1. FullInv => StoppedOnReturn
  BY DEF FullInv, IInv, ThreadInv, StoppedOnReturn
<1>2. QED
  BY <1>1, FullInductive, PTL

(* The rings are only opened while no thread is left to use them.           *)
THEOREM RingsAlone == Spec => RingsStartAlone
<1>1. FullInv /\ [Next]_vars =>
        [~inOpen /\ inOpen' => poll = "off" /\ r2 = "off" /\ sub = "off"]_vars
  <2> SUFFICES ASSUME FullInv, [Next]_vars, ~inOpen, inOpen'
               PROVE  poll = "off" /\ r2 = "off" /\ sub = "off"
    OBVIOUS
  <2>1. ASSUME NEW c \in Callers, TurnOn(c)
        PROVE  poll = "off" /\ r2 = "off" /\ sub = "off"
    BY <2>1 DEF TurnOn, Goes, FullInv, IInv, ThreadInv, AllThreadsGone
  <2>2. ASSUME NEW c \in Callers, \/ CallStart(c) \/ CallStop(c) \/ StopStep(c)
                                  \/ StartRaisesRun(c) \/ StartStream(c) \/ StartCreates(c)
        PROVE  FALSE
    BY <2>2 DEF CallStart, CallStop, StopStep, StopLocks, StopLowersRun, TurnOff, JoinR2iq,
       StopStream, JoinPoll, JoinStats, JoinSubmit, StopReturns, StartRaisesRun, StartStream,
       StartCreates, ringVars, In!Close
  <2>3. CASE Threads
    <3>1. CASE PollLoop \/ PacketRead
      BY <3>1 DEF PollLoop, PacketRead, ringVars, In!Put
    <3>2. CASE R2Step
      BY <3>2 DEF R2Step, R2Starts, R2Reads, R2Releases, R2Places, R2Publishes, ringVars,
         In!Get
    <3>3. CASE SubReads \/ SubReleases \/ CaculateStats
      BY <3>3 DEF SubReads, SubReleases, CaculateStats, ringVars
    <3>4. CASE UpdatemodeRF \/ TuneLO \/ UNCHANGED vars
      BY <3>4 DEF UpdatemodeRF, TuneLO, vars, ringVars
    <3>5. QED
      BY <2>3, <3>1, <3>2, <3>3, <3>4 DEF Threads
  <2>4. QED
    BY <2>1, <2>2, <2>3, Steps DEF StartStep
<1>2. QED
  BY <1>1, FullInductive, PTL DEF Spec, RingsStartAlone

(* Types, and neither ring holds more than it has room for.                 *)
THEOREM TypeCorrect == Spec => []TypeOK
<1>1. FullInv => TypeOK
  <2> SUFFICES ASSUME FullInv PROVE TypeOK
    OBVIOUS
  <2>1. decimate_count \in 0 .. D - 1
    BY DPos, SMT DEF FullInv, DataTypes
  <2>2. decimate_count \in 0 .. 2 ^ mdecimation - 1
    BY <2>1 DEF D
  <2>3. {run, r2iqOn, fx3run, sideband, lsb, fcNegated} \subseteq BOOLEAN
    BY DEF FullInv, ControlTypes
  <2>4. QED
    BY <2>2, <2>3 DEF FullInv, IInv, TypeInv, ControlTypes, DataTypes, TypeOK, In!ChTypeOK,
       Out!ChTypeOK
<1>2. QED
  BY <1>1, FullInductive, PTL

(* Callback gets every input block once, in order, 2^mdecimation in each,   *)
(* for every capacity of the rings and every interleaving of the threads.   *)
THEOREM Converted == Spec => []BlocksConverted
<1>1. FullInv => BlocksConverted
  <2> SUFFICES ASSUME FullInv, sub = "callback", outOpen
               PROVE  Head(outQueue).of = [k \in 1 .. 2 ^ mdecimation |-> delivered + k]
    BY DEF BlocksConverted
  <2>1. DataInv /\ inOpen /\ outQueue # <<>> /\ outQueue \in Seq(OutBlock)
    BY DEF FullInv, OpenInv, DataInv, DataTypes
  <2>2. 1 \in 1 .. Len(outQueue) /\ Head(outQueue) = outQueue[1] /\ outQueue[1] \in OutBlock
    BY <2>1, SMT
  <2>3. /\ Len(outQueue[1].of) = D
        /\ \A k \in 1 .. D : outQueue[1].of[k] = delivered + D * (1 - 1) + k
    BY <2>1, <2>2 DEF DataInv
  <2>4. D \in Nat /\ delivered \in Nat /\ outQueue[1].of \in Seq(Nat)
    BY <2>2, DPos DEF FullInv, DataTypes, OutBlock
  <2> DEFINE of == outQueue[1].of
  <2>5. \A k \in 1 .. D : of[k] = delivered + k
    BY <2>3, <2>4, SMT
  <2>6. Len(of) = D /\ of \in Seq(Nat)
    BY <2>3, <2>4
  <2> HIDE DEF of
  <2>7. of = [k \in 1 .. D |-> delivered + k]
    BY <2>4, <2>5, <2>6, SMT
  <2>8. QED
    BY <2>2, <2>7 DEF of, D
<1>2. QED
  BY <1>1, FullInductive, PTL

-----------------------------------------------------------------------------
(* While no mode is switched in a session, the conversion mirrors as the    *)
(* handler's mode says.                                                     *)
SideInv == /\ sideband = (modeRF = "VHF")
           /\ r2 \notin {"off", "new"} => lsb = sideband

(* The sideband is read when the thread starts and only changed without it. *)
LEMMA SideStep ==
  ASSUME ~LiveModeSwitch, FullInv, SideInv, [Next]_vars
  PROVE  SideInv'
<1>1. CASE UpdatemodeRF
  <2>1. ~run /\ \A c \in Callers : pc[c] = "idle"
    BY <1>1 DEF UpdatemodeRF
  <2>2. r2 = "off"
    BY <2>1 DEF FullInv, IInv, ThreadInv, AllThreadsGone, Joining, Locked, StopCalls
  <2>3. r2' = r2 /\ sideband' = (modeRF' = "VHF")
    BY <1>1 DEF UpdatemodeRF, threadVars, r2Vars
  <2>4. QED
    BY <2>2, <2>3 DEF SideInv
<1>2. CASE R2Starts
  BY <1>2 DEF R2Starts, modeVars, SideInv
<1>3. CASE R2Reads
  BY <1>3 DEF R2Reads, R2Goes, modeVars, SideInv
<1>4. CASE R2Releases \/ R2Places \/ R2Publishes
  <2>1. UNCHANGED <<modeRF, sideband, lsb>> /\ r2 \notin {"off", "new"}
    BY <1>4 DEF R2Releases, R2Places, R2Publishes, R2Goes, modeVars
  <2>2. QED
    BY <2>1 DEF SideInv
<1>5. CASE PollLoop \/ PacketRead \/ SubReads \/ SubReleases \/ CaculateStats \/ TuneLO
           \/ UNCHANGED vars
  <2>1. UNCHANGED <<modeRF, sideband, lsb, r2>>
    BY <1>5 DEF PollLoop, PacketRead, SubReads, SubReleases, CaculateStats, TuneLO, vars,
       modeVars, r2Vars, threadVars
  <2>2. QED
    BY <2>1 DEF SideInv
<1>6. ASSUME NEW c \in Callers, CallStart(c) \/ CallStop(c) \/ StopStep(c) \/ StartStep(c)
      PROVE  SideInv'
  <2>1. UNCHANGED <<modeRF, sideband, lsb>> /\ (r2' = r2 \/ r2' = "new")
    BY <1>6 DEF CallStart, CallStop, StopStep, StopLocks, StopLowersRun, TurnOff, JoinR2iq,
       StopStream, JoinPoll, JoinStats, JoinSubmit, StopReturns, StartStep, StartRaisesRun,
       TurnOn, StartStream, StartCreates, threadVars, r2Vars, modeVars
  <2>2. QED
    BY <2>1 DEF SideInv
<1>7. QED
  BY <1>1, <1>2, <1>3, <1>4, <1>5, <1>6, Steps DEF Threads, R2Step

(* A block is mirrored if and only if fc is negated, once TuneLO has        *)
(* followed the last change of mode; of an application that switches the    *)
(* mode between sessions.                                                   *)
THEOREM SidebandAgrees == ASSUME ~LiveModeSwitch PROVE Spec => SidebandUsed
<1>1. Init => SideInv
  BY DEF Init, SideInv
<1>2. FullInv /\ SideInv /\ [Next]_vars => SideInv'
  BY SideStep
<1>3. SideInv /\ [Next]_vars =>
        [r2 = "get" /\ r2' = "convert" /\ fcNegated = (modeRF = "VHF")
           => lsb = fcNegated]_vars
  BY DEF SideInv
<1>4. QED
  BY <1>1, <1>2, <1>3, FullInductive, PTL DEF Spec, SidebandUsed

-----------------------------------------------------------------------------
(* How long Stop takes                                                      *)

(* What Stop waits for is on its way: the rings it closes are open, and     *)
(* from then on no thread it joins can wait in one of them or find its flag *)
(* raised.                                                                  *)
Unblocked(c) ==
  /\ pc[c] \in {"lower", "turnoff"} => inOpen /\ outOpen
  /\ pc[c] = "joinr2iq"   => ~r2iqOn /\ In!CanGet /\ Out!CanPut
  /\ pc[c] = "joinpoll"   => ~fx3run /\ In!CanPut
  /\ pc[c] = "joinstats"  => ~run
  /\ pc[c] = "joinsubmit" => ~run /\ Out!CanGet

(* The steps of its own and of the threads that are left once Stop has      *)
(* closed the rings.  The poll thread may go round until fx3run is lowered. *)
Ending == Locked \ {"lower", "turnoff"}

CallLeft(s) ==
  CASE s = "joinr2iq"  -> 6 [] s = "stopstream" -> 5 [] s = "joinpoll" -> 4
    [] s = "joinstats" -> 3 [] s = "joinsubmit" -> 2 [] s = "unlock"   -> 1
    [] OTHER           -> 0
R2Left == CASE r2 = "convert"           -> 4
            [] r2 = "place"             -> 3
            [] r2 \in {"new", "publish"} -> 2
            [] r2 \in {"loop", "get"}   -> 1
            [] OTHER                    -> 0
SubLeft == CASE sub = "callback" -> 2 [] sub \in {"loop", "get"} -> 1 [] OTHER -> 0
StatsLeft == IF stats = "loop" THEN 1 ELSE 0
PollLeft == CASE fx3run \/ poll = "packet" -> 2 [] ~fx3run /\ poll = "events" -> 1 [] OTHER -> 0
StopLeft(c) == CallLeft(pc[c]) + R2Left + SubLeft + StatsLeft + PollLeft

(* The steps StopCompletes has fairness for.                                *)
Paced(c) ==
  \/ R2Step \/ SubReads \/ SubReleases \/ CaculateStats \/ StopStep(c)
  \/ ~fx3run /\ (PollLoop \/ PacketRead)

(* A session's rings are open until Stop closes them, and fx3run is lowered *)
(* when the poll thread is joined.                                          *)
SessionInv ==
  /\ run => inOpen \/ \E c \in Callers : pc[c] = "turnon"
  /\ \A c \in Callers : pc[c] \in {"lower", "turnoff"} => inOpen
  /\ \A c \in Callers : pc[c] \in {"joinpoll", "joinstats", "joinsubmit"} => ~fx3run

(* A session stays one.                                                     *)
LEMMA SessionStep ==
  ASSUME FullInv, SessionInv, [Next]_vars
  PROVE  SessionInv'
<1> USE DEF SessionInv, ringVars, callVars, pollVars, threadVars
<1>1. CASE Threads
  <2>1. ThreadStep
    BY <1>1, OnlyThreads
  <2>2. inOpen' = inOpen
    <3>1. CASE PollLoop \/ PacketRead \/ SubReads \/ SubReleases \/ CaculateStats
               \/ UpdatemodeRF \/ TuneLO \/ UNCHANGED vars
      BY <3>1 DEF PollLoop, PacketRead, SubReads, SubReleases, CaculateStats, UpdatemodeRF,
         TuneLO, vars, In!Put
    <3>2. CASE R2Step
      BY <3>2 DEF R2Step, R2Starts, R2Reads, R2Releases, R2Places, R2Publishes, In!Get
    <3>3. QED
      BY <1>1, <3>1, <3>2 DEF Threads
  <2>3. QED
    BY <2>1, <2>2 DEF ThreadStep
<1>2. ASSUME NEW c \in Callers, CallStart(c) \/ CallStop(c) \/ StopStep(c) \/ StartStep(c)
      PROVE  SessionInv'
  <2> USE DEF FullInv, IInv, TypeInv, CallInv, ThreadInv, AllThreadsGone, Goes, StopCalls,
              StartCalls, Locked, Joining
  <2>1. CASE CallStart(c) \/ CallStop(c)
    BY <2>1, SMT DEF CallStart, CallStop
  <2>2. CASE StopLocks(c)
    BY <2>2, SMT DEF StopLocks
  <2>3. CASE StopLowersRun(c)
    BY <2>3, SMT DEF StopLowersRun
  <2>4. CASE TurnOff(c)
    BY <2>4, SMT DEF TurnOff
  <2>5. CASE StopStream(c)
    BY <2>5, SMT DEF StopStream
  <2>6. CASE JoinR2iq(c) \/ JoinPoll(c) \/ JoinStats(c) \/ JoinSubmit(c)
    BY <2>6, SMT DEF JoinR2iq, JoinPoll, JoinStats, JoinSubmit
  <2>7. CASE StopReturns(c)
    BY <2>7, SMT DEF StopReturns
  <2>8. CASE StartRaisesRun(c)
    BY <2>8, SMT DEF StartRaisesRun
  <2>9. CASE TurnOn(c)
    BY <2>9, SMT DEF TurnOn, In!Open
  <2>10. CASE StartStream(c)
    BY <2>10, SMT DEF StartStream
  <2>11. CASE StartCreates(c)
    BY <2>11, SMT DEF StartCreates
  <2>12. QED
    BY <1>2, <2>1, <2>2, <2>3, <2>4, <2>5, <2>6, <2>7, <2>8, <2>9, <2>10, <2>11
    DEF StopStep, StartStep
<1>3. QED
  BY <1>1, <1>2, Steps

(* While Stop ends, everything is closed and lowered.                       *)
LEMMA Lowered ==
  ASSUME FullInv, SessionInv, NEW c \in Callers, pc[c] \in Ending
  PROVE  /\ ~run /\ ~r2iqOn /\ ~inOpen /\ ~outOpen
         /\ \A d \in Callers : d # c => pc[d] \in {"idle", "lock"}
<1>1. ~run /\ stop_mutex = c
  BY DEF Ending, FullInv, IInv, CallInv, ThreadInv, Joining, Locked
<1>2. \A d \in Callers : d # c => pc[d] \in {"idle", "lock"}
  <2> SUFFICES ASSUME NEW d \in Callers, d # c PROVE pc[d] \in {"idle", "lock"}
    OBVIOUS
  <2>1. pc[d] \notin Locked
    BY <1>1 DEF FullInv, IInv, CallInv
  <2>2. pc[d] \notin StartCalls
    <3>1. pc[c] # "idle"
      BY DEF Ending, Locked, StopCalls
    <3>2. QED
      BY <3>1 DEF FullInv, IInv, CallInv
  <2>3. QED
    BY <2>1, <2>2 DEF FullInv, IInv, TypeInv, Locked
<1>3. \A d \in Callers : pc[d] # "turnoff"
  BY <1>2 DEF Ending
<1>4. QED
  BY <1>1, <1>2, <1>3 DEF FullInv, OpenInv

(* So nobody waits in vain.                                                 *)
LEMMA NobodyWaits ==
  ASSUME FullInv, SessionInv, NEW c \in Callers
  PROVE  Unblocked(c)
<1>1. pc[c] \in {"joinr2iq", "joinpoll", "joinstats", "joinsubmit"} => pc[c] \in Ending
  BY DEF Ending, Locked, StopCalls
<1>2. QED
  BY <1>1, Lowered DEF Unblocked, SessionInv, FullInv, OpenInv, In!CanGet, In!CanPut,
     Out!CanGet, Out!CanPut

(* The counts are numbers.                                                  *)
LEMMA LeftRanges ==
  /\ \A s : CallLeft(s) \in 0 .. 6
  /\ R2Left \in 0 .. 4 /\ SubLeft \in 0 .. 2 /\ StatsLeft \in 0 .. 1 /\ PollLeft \in 0 .. 2
  /\ R2Left' \in 0 .. 4 /\ SubLeft' \in 0 .. 2 /\ StatsLeft' \in 0 .. 1 /\ PollLeft' \in 0 .. 2
<1>1. \A s : CallLeft(s) \in 0 .. 6
  BY SMT DEF CallLeft
<1>2. R2Left \in 0 .. 4 /\ R2Left' \in 0 .. 4
  BY SMT DEF R2Left
<1>3. SubLeft \in 0 .. 2 /\ StatsLeft \in 0 .. 1 /\ SubLeft' \in 0 .. 2 /\ StatsLeft' \in 0 .. 1
  BY SMT DEF SubLeft, StatsLeft
<1>4. PollLeft \in 0 .. 2 /\ PollLeft' \in 0 .. 2
  BY SMT DEF PollLeft
<1>5. QED
  BY <1>1, <1>2, <1>3, <1>4

(* A step of a thread lowers what that thread has left.                     *)
LEMMA ThreadsFall ==
  ASSUME FullInv, SessionInv, NEW c \in Callers, pc[c] \in Ending, Threads
  PROVE  /\ StopLeft(c)' <= StopLeft(c)
         /\ \/ R2Step \/ SubReads \/ SubReleases \/ CaculateStats
            \/ ~fx3run /\ (PollLoop \/ PacketRead)
            => StopLeft(c)' < StopLeft(c)
<1>1. ~run /\ ~r2iqOn
  BY Lowered
<1>2. pc' = pc /\ fx3run' = fx3run
  BY OnlyThreads DEF ThreadStep, callVars
<1>3. CallLeft(pc[c])' = CallLeft(pc[c])
  BY <1>2
<1>4. CASE R2Step
  <2>1. R2Left' < R2Left
    <3>1. CASE R2Starts
      BY <3>1, SMT DEF R2Starts, R2Goes, R2Left
    <3>2. CASE R2Reads
      BY <1>1, <3>2, SMT DEF R2Reads, R2Goes, R2Left
    <3>3. CASE R2Releases
      BY <3>3, SMT DEF R2Releases, R2Goes, R2Left
    <3>4. CASE R2Places
      <4>1. r2 = "place" /\ r2' \in {"publish", "loop"}
        BY <3>4 DEF R2Places
      <4>2. QED
        BY <4>1, SMT DEF R2Left
    <3>5. CASE R2Publishes
      BY <3>5, SMT DEF R2Publishes, R2Goes, R2Left
    <3>6. QED
      BY <1>4, <3>1, <3>2, <3>3, <3>4, <3>5 DEF R2Step
  <2>2. UNCHANGED <<sub, stats, poll>>
    BY <1>4 DEF R2Step, R2Starts, R2Reads, R2Releases, R2Places, R2Publishes, pollVars, subVars
  <2>3. SubLeft' = SubLeft /\ StatsLeft' = StatsLeft /\ PollLeft' = PollLeft
    BY <1>2, <2>2 DEF SubLeft, StatsLeft, PollLeft
  <2>4. QED
    BY <1>3, <2>1, <2>3, LeftRanges, SMT DEF StopLeft
<1>5. CASE SubReads \/ SubReleases
  <2>1. SubLeft' < SubLeft
    BY <1>1, <1>5, SMT DEF SubReads, SubReleases, SubGoes, SubLeft
  <2>2. UNCHANGED <<r2, stats, poll>>
    BY <1>5 DEF SubReads, SubReleases, pollVars, r2Vars
  <2>3. R2Left' = R2Left /\ StatsLeft' = StatsLeft /\ PollLeft' = PollLeft
    BY <1>2, <2>2 DEF R2Left, StatsLeft, PollLeft
  <2>4. QED
    BY <1>3, <2>1, <2>3, LeftRanges, SMT DEF StopLeft
<1>6. CASE CaculateStats
  <2>1. StatsLeft' < StatsLeft
    BY <1>6, SMT DEF CaculateStats, StatsLeft
  <2>2. UNCHANGED <<r2, sub, poll>>
    BY <1>6 DEF CaculateStats, pollVars, r2Vars, subVars
  <2>3. R2Left' = R2Left /\ SubLeft' = SubLeft /\ PollLeft' = PollLeft
    BY <1>2, <2>2 DEF R2Left, SubLeft, PollLeft
  <2>4. QED
    BY <1>3, <2>1, <2>3, LeftRanges, SMT DEF StopLeft
<1>7. CASE PollLoop \/ PacketRead
  <2>1. PollLeft' <= PollLeft /\ (~fx3run => PollLeft' < PollLeft)
    BY <1>2, <1>7, SMT DEF PollLoop, PacketRead, PollGoes, PollLeft
  <2>2. UNCHANGED <<r2, sub, stats>>
    BY <1>7 DEF PollLoop, PacketRead, r2Vars, subVars
  <2>3. R2Left' = R2Left /\ SubLeft' = SubLeft /\ StatsLeft' = StatsLeft
    BY <2>2 DEF R2Left, SubLeft, StatsLeft
  <2>4. ~R2Step /\ ~SubReads /\ ~SubReleases /\ ~CaculateStats
    BY <1>7, <2>2 DEF PollLoop, PacketRead, PollGoes, R2Step, R2Starts, R2Reads, R2Releases,
       R2Places, R2Publishes, SubReads, SubReleases, CaculateStats, R2Goes, SubGoes, pollVars
  <2>5. QED
    BY <1>3, <2>1, <2>3, <2>4, LeftRanges, SMT DEF StopLeft
<1>8. CASE UpdatemodeRF \/ TuneLO \/ UNCHANGED vars
  <2>1. UNCHANGED <<r2, sub, stats, poll>>
    BY <1>8 DEF UpdatemodeRF, TuneLO, vars, threadVars, r2Vars, subVars, pollVars
  <2>2. /\ R2Left' = R2Left /\ SubLeft' = SubLeft /\ StatsLeft' = StatsLeft
        /\ PollLeft' = PollLeft
    BY <1>2, <2>1 DEF R2Left, SubLeft, StatsLeft, PollLeft
  <2>3. ~R2Step /\ ~SubReads /\ ~SubReleases /\ ~CaculateStats /\ ~PollLoop /\ ~PacketRead
    BY <2>1 DEF PollLoop, PacketRead, PollGoes, R2Step, R2Starts, R2Reads, R2Releases,
       R2Places, R2Publishes, SubReads, SubReleases, CaculateStats, R2Goes, SubGoes
  <2>4. QED
    BY <1>3, <2>2, <2>3, LeftRanges, SMT DEF StopLeft
<1>9. QED
  BY <1>4, <1>5, <1>6, <1>7, <1>8 DEF Threads

(* Stop's own steps lower what it has left, and no other call moves.        *)
LEMMA CallsFall ==
  ASSUME FullInv, SessionInv, NEW c \in Callers, pc[c] \in Ending,
         NEW d \in Callers, CallStart(d) \/ CallStop(d) \/ StopStep(d) \/ StartStep(d)
  PROVE  /\ StopLeft(c)' <= StopLeft(c)
         /\ c = d => StopLeft(c)' < StopLeft(c)
         /\ UNCHANGED <<r2, sub, stats, poll>>
<1>1. /\ pc \in [Callers -> {"idle"} \cup StopCalls \cup StartCalls]
      /\ ret[c] \in {"idle", "raise"} /\ stop_mutex = c /\ c # "free"
  BY PipelineAssumption DEF FullInv, IInv, TypeInv, CallInv, Ending
<1>2. \A e \in Callers : e # c => pc[e] \in {"idle", "lock"}
  BY Lowered
<1>3. pc[c] \in {"joinr2iq", "stopstream", "joinpoll", "joinstats", "joinsubmit", "unlock"}
  BY DEF Ending, Locked, StopCalls
<1>4. CASE d # c
  <2>1. pc[d] \in {"idle", "lock"} /\ stop_mutex # "free"
    BY <1>1, <1>2, <1>4
  <2>2. CallStart(d) \/ CallStop(d)
    BY <2>1 DEF StopStep, StartStep, StopLocks, StopLowersRun, TurnOff, JoinR2iq, StopStream,
       JoinPoll, JoinStats, JoinSubmit, StopReturns, StartRaisesRun, TurnOn, StartStream,
       StartCreates, Goes
  <2>3. UNCHANGED <<r2, sub, stats, poll, fx3run>> /\ pc'[c] = pc[c]
    BY <1>1, <1>4, <2>2 DEF CallStart, CallStop, Goes, threadVars, r2Vars, subVars, pollVars
  <2>4. /\ R2Left' = R2Left /\ SubLeft' = SubLeft /\ StatsLeft' = StatsLeft
        /\ PollLeft' = PollLeft /\ CallLeft(pc[c])' = CallLeft(pc[c])
    BY <2>3 DEF R2Left, SubLeft, StatsLeft, PollLeft
  <2>5. QED
    BY <1>4, <2>3, <2>4, LeftRanges, SMT DEF StopLeft
<1>5. CASE d = c
  <2>1. \/ JoinR2iq(c) \/ StopStream(c) \/ JoinPoll(c) \/ JoinStats(c) \/ JoinSubmit(c)
        \/ StopReturns(c)
    BY <1>3, <1>5 DEF StopStep, StartStep, StopLocks, StopLowersRun, TurnOff, CallStart,
       CallStop, StartRaisesRun, TurnOn, StartStream, StartCreates, Goes
  <2>2. UNCHANGED <<r2, sub, stats, poll>> /\ fx3run' \in {fx3run, FALSE}
    BY <2>1 DEF JoinR2iq, StopStream, JoinPoll, JoinStats, JoinSubmit, StopReturns,
       threadVars, r2Vars, subVars, pollVars
  <2>3. CallLeft(pc[c])' < CallLeft(pc[c])
    BY <1>1, <2>1, SMT DEF JoinR2iq, StopStream, JoinPoll, JoinStats, JoinSubmit, StopReturns,
       Goes, CallLeft
  <2>4. R2Left' = R2Left /\ SubLeft' = SubLeft /\ StatsLeft' = StatsLeft
    BY <2>2 DEF R2Left, SubLeft, StatsLeft
  <2>5. PollLeft' <= PollLeft
    <3>1. CASE fx3run' = FALSE
      BY <2>2, <3>1, SMT DEF PollLeft
    <3>2. CASE fx3run' = fx3run
      <4>1. PollLeft' = PollLeft
        BY <2>2, <3>2 DEF PollLeft
      <4>2. QED
        BY <4>1, LeftRanges, SMT
    <3>3. QED
      BY <2>2, <3>1, <3>2
  <2>6. QED
    BY <2>2, <2>3, <2>4, <2>5, LeftRanges, SMT DEF StopLeft
<1>6. QED
  BY <1>4, <1>5

(* Stop never waits for what is not on its way, for any number of callers,  *)
(* any capacity and any decimation; and once it has closed the rings it     *)
(* returns within 15 steps of its own and of the threads it joins, those of *)
(* the poll thread before fx3run is lowered aside: each of the others       *)
(* leaves fewer, and no step leaves more.                                   *)
THEOREM StopShort ==
  Spec => /\ [](\A c \in Callers : /\ Unblocked(c)
                                   /\ pc[c] \in Ending => StopLeft(c) \in 1 .. 15)
          /\ [][\A c \in Callers : pc[c] \in Ending =>
                  /\ StopLeft(c)' <= StopLeft(c)
                  /\ Paced(c) => StopLeft(c)' < StopLeft(c)]_vars
<1>1. Init => SessionInv
  BY DEF Init, SessionInv
<1>2. FullInv /\ SessionInv /\ [Next]_vars => SessionInv'
  BY SessionStep
<1>3. FullInv /\ SessionInv =>
        \A c \in Callers : /\ Unblocked(c)
                           /\ pc[c] \in Ending => StopLeft(c) \in 1 .. 15
  <2> SUFFICES ASSUME FullInv, SessionInv, NEW c \in Callers
               PROVE  Unblocked(c) /\ (pc[c] \in Ending => StopLeft(c) \in 1 .. 15)
    OBVIOUS
  <2>1. pc[c] \in Ending => CallLeft(pc[c]) \in 1 .. 6
    BY SMT DEF Ending, Locked, StopCalls, CallLeft
  <2>2. QED
    BY <2>1, NobodyWaits, LeftRanges, SMT DEF StopLeft
<1>4. FullInv /\ SessionInv /\ [Next]_vars =>
        [\A c \in Callers : pc[c] \in Ending =>
                  /\ StopLeft(c)' <= StopLeft(c)
                  /\ Paced(c) => StopLeft(c)' < StopLeft(c)]_vars
  <2> SUFFICES ASSUME FullInv, SessionInv, [Next]_vars, NEW c \in Callers, pc[c] \in Ending
               PROVE  /\ StopLeft(c)' <= StopLeft(c)
                      /\ Paced(c) => StopLeft(c)' < StopLeft(c)
    OBVIOUS
  <2>1. CASE Threads
    <3>1. ~StopStep(c) \/ StopLeft(c)' < StopLeft(c)
      BY CallsFall
    <3>2. QED
      BY <2>1, <3>1, ThreadsFall DEF Paced
  <2>2. ASSUME NEW d \in Callers, CallStart(d) \/ CallStop(d) \/ StopStep(d) \/ StartStep(d)
        PROVE  /\ StopLeft(c)' <= StopLeft(c)
               /\ Paced(c) => StopLeft(c)' < StopLeft(c)
    <3>1. StopLeft(c)' <= StopLeft(c) /\ UNCHANGED <<r2, sub, stats, poll>>
      BY <2>2, CallsFall
    <3>2. ~R2Step /\ ~SubReads /\ ~SubReleases /\ ~CaculateStats /\ ~PollLoop /\ ~PacketRead
      BY <3>1 DEF PollLoop, PacketRead, PollGoes, R2Step, R2Starts, R2Reads, R2Releases,
         R2Places, R2Publishes, SubReads, SubReleases, CaculateStats, R2Goes, SubGoes
    <3>3. StopStep(c) => StopLeft(c)' < StopLeft(c)
      BY CallsFall
    <3>4. QED
      BY <3>1, <3>2, <3>3 DEF Paced
  <2>3. QED
    BY <2>1, <2>2, Steps
<1>5. QED
  BY <1>1, <1>2, <1>3, <1>4, FullInductive, PTL DEF Spec
=============================================================================
