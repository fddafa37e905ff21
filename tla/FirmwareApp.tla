----------------------------- MODULE FirmwareApp -----------------------------
(***************************************************************************)
(* The USB application of the firmware: src/firmware/RunApplication.c,     *)
(* StartStopApplication.c, USBhandler.c and DebugConsole.c.                *)
(*                                                                         *)
(* Three threads.  The USB and the UART thread of the SDK run the          *)
(* callbacks and have the higher priority, so that a callback is one step  *)
(* of the application thread's time.  The application thread takes         *)
(* messages from a queue that the callbacks fill without waiting; the word *)
(* it receives them into, Qevent, is also the word that READINFODEBUG and  *)
(* the UART's callback send commands from.  The text printed is left out.  *)
(***************************************************************************)
EXTENDS Si5351, Sequences

CONSTANTS
  QueueLen,        (* messages EventAvailable holds, 16 in the program      *)
  BufLen,          (* sizeof(ConsoleInBuffer), 32 in the program            *)
  AdcFreqs,        (* bound: rates of the ADC asked for, in kHz; 0 is off   *)
  MaxCallbacks     (* bound: callbacks                                      *)

ASSUME FirmwareAssumption == /\ QueueLen \in Nat /\ BufLen \in Nat /\ MaxCallbacks \in Nat
                             /\ AdcFreqs \subseteq Nat
                             /\ \A f \in AdcFreqs : f = 0 \/ (8 <= f /\ f <= 150000)

Messages == {"event", "command"}       (* label 0, USER_COMMAND_AVAILABLE   *)
Radios   == {"NORADIO", "BBRF103", "HF103", "RX888", "RX888r2", "RX888r3",
             "RX999", "RXLUCY"}

VARIABLES
  app,             (* where the application thread is                       *)
  HWconfig, glIsApplnActive,
  EventAvailable, Qevent, ConsoleInIndex,
  channel,         (* the DMA channel: "none", "idle", "armed" by SetXfer   *)
  swInput,         (* the input that lets the GPIF state machine run        *)
  lpm,             (* link power management is enabled                      *)
  clock,           (* the clock chip: the PLL's P1 and P2, the dividers of  *)
                   (* its output A, and whether that is on                  *)
  streaming,       (* the last STARTFX3 was accepted, nothing ended it since*)
  took,            (* the message the application thread received last      *)
  owed,            (* commands in the queue or received and not yet parsed  *)
  callbacks

console == <<EventAvailable, Qevent, ConsoleInIndex, took, owed>>
stream  == <<glIsApplnActive, channel, swInput, lpm, streaming>>
vars    == <<app, HWconfig, clock, console, stream, callbacks>>

(* Values of the dividers at power on that nobody relies on.                *)
ClockOff == [pll |-> <<1408, 0>>, synth |-> <<6, 0>>, on |-> FALSE]

Init == /\ app = "boot" /\ HWconfig = "NORADIO" /\ glIsApplnActive = FALSE
        /\ EventAvailable = <<>> /\ Qevent = "event" /\ ConsoleInIndex = 0
        /\ channel = "none" /\ swInput = FALSE /\ lpm = TRUE
        /\ streaming = FALSE /\ took = "event" /\ owed = 0
        /\ clock = ClockOff /\ callbacks = 0

(* CyU3PDeviceReset; the clock chip runs on. *)
Reboot == /\ app' = "boot" /\ HWconfig' = "NORADIO" /\ glIsApplnActive' = FALSE
          /\ EventAvailable' = <<>> /\ Qevent' = "event" /\ ConsoleInIndex' = 0
          /\ channel' = "none" /\ swInput' = FALSE /\ lpm' = TRUE
          /\ streaming' = FALSE /\ took' = "event" /\ owed' = 0
          /\ UNCHANGED clock

-----------------------------------------------------------------------------
(* The application thread                                                   *)

(* Which radio this is: the clock chip answers or not, then the tuner that  *)
(* answers, then the pins strapped low.                                     *)
Detected(clockChip, tuner, low) ==
  CASE ~clockChip -> IF "GPIO52" \in low THEN "RXLUCY" ELSE "HF103"
    [] clockChip /\ tuner = "R820T" -> IF "GPIO50" \in low THEN "BBRF103"
                                   ELSE IF "GPIO45" \in low THEN "RX888" ELSE "NORADIO"
    [] clockChip /\ tuner = "R828D" -> IF "GPIO36" \in low THEN "RX888r2" ELSE "NORADIO"
    [] clockChip /\ tuner = "RD5812" -> "RX888r3"
    [] OTHER -> "RX999"

(* The bus does not work, or Si5351init switches the outputs off and the    *)
(* radio is found out.  InitializeUSB connects: its callbacks come from now *)
(* on.                                                                      *)
Boot ==
  /\ app = "boot" /\ app' = "loop"
  /\ \/ HWconfig' = "NORADIO" /\ UNCHANGED clock
     \/ \E clockChip \in BOOLEAN, tuner \in {"R820T", "R828D", "RD5812", "none"},
           low \in SUBSET {"GPIO36", "GPIO45", "GPIO50", "GPIO52"} :
           /\ HWconfig' = Detected(clockChip, tuner, low)
           /\ clock' = IF clockChip THEN [clock EXCEPT !.on = FALSE] ELSE clock
  /\ UNCHANGED <<console, stream, callbacks>>

Receive ==
  /\ app = "loop" /\ EventAvailable # <<>>
  /\ app' = "received"
  /\ Qevent' = Head(EventAvailable) /\ took' = Head(EventAvailable)
  /\ EventAvailable' = Tail(EventAvailable)
  /\ UNCHANGED <<HWconfig, clock, ConsoleInIndex, owed, stream, callbacks>>

(* What is parsed is what Qevent holds by now. *)
MsgParsing ==
  /\ app = "received"
  /\ app' = IF Qevent = "command" THEN "command" ELSE "loop"
  /\ owed' = IF Qevent = "command" /\ took = "command" THEN owed - 1 ELSE owed
  /\ UNCHANGED <<HWconfig, clock, EventAvailable, Qevent, ConsoleInIndex, took, stream, callbacks>>

(* The line, which is never cleared, is a command to print or to reset.     *)
ParseCommand ==
  /\ app = "command"
  /\ \/ /\ app' = "loop" /\ ConsoleInIndex' = 0
        /\ UNCHANGED <<HWconfig, clock, EventAvailable, Qevent, took, owed, stream>>
     \/ Reboot
  /\ UNCHANGED callbacks

ApplicationThread == Boot \/ Receive \/ MsgParsing \/ ParseCommand

-----------------------------------------------------------------------------
(* The callbacks                                                            *)

Called   == callbacks < MaxCallbacks /\ callbacks' = callbacks + 1
Callback == app # "boot" /\ Called

Fits == Len(EventAvailable) < QueueLen
Send(msg) == EventAvailable' = IF Fits THEN Append(EventAvailable, msg) ELSE EventAvailable

EventViaQevent ==                   (* mutant: sends from the shared word   *)
  Send("event") /\ Qevent' = "event" /\ UNCHANGED <<ConsoleInIndex, took, owed>>

(* USBEvent_Callback sends every event from a word of its own.              *)
SendEvent == Send("event") /\ UNCHANGED <<Qevent, ConsoleInIndex, took, owed>>

(* StopApplication, if it is active, and StartApplication, which arms the   *)
(* channel.  Whether the software input survives the reload of the GPIF is  *)
(* not the program's to say.                                                *)
SETCONF ==
  /\ Callback /\ SendEvent
  /\ glIsApplnActive' = TRUE /\ channel' = "armed"
  /\ swInput' \in {swInput, FALSE}
  /\ streaming' = FALSE
  /\ UNCHANGED <<app, HWconfig, clock, lpm>>

(* RESET and DISCONNECT; an application that is not active has no channel.  *)
Unconfigured ==
  /\ Callback /\ SendEvent
  /\ IF glIsApplnActive
       THEN glIsApplnActive' = FALSE /\ channel' = "none" /\ lpm' = TRUE
       ELSE UNCHANGED <<glIsApplnActive, channel, lpm>>
  /\ streaming' = FALSE
  /\ UNCHANGED <<app, HWconfig, clock, swInput>>

OtherEvent == /\ Callback /\ SendEvent /\ UNCHANGED <<app, HWconfig, clock, stream>>

ResetXfer == IF channel = "none" THEN "none" ELSE "idle"
SetXfer   == IF channel = "none" THEN "none" ELSE "armed"

ClearFeatureResets ==               (* mutant: the transfer is not set again *)
  /\ Callback
  /\ IF glIsApplnActive THEN channel' = ResetXfer ELSE UNCHANGED channel
  /\ UNCHANGED <<app, HWconfig, clock, console, glIsApplnActive, swInput, lpm, streaming>>

(* CLEAR_FEATURE of the consumer's halt: reset, then set again.             *)
ClearFeature ==
  /\ Callback
  /\ IF glIsApplnActive THEN channel' = SetXfer ELSE UNCHANGED channel
  /\ UNCHANGED <<app, HWconfig, clock, console, glIsApplnActive, swInput, lpm, streaming>>

(* Handled only if the transfer could be set; the input is raised anyway.   *)
STARTFX3 ==
  /\ Callback
  /\ lpm' = FALSE /\ swInput' = TRUE
  /\ channel' = SetXfer /\ streaming' = (channel # "none")
  /\ UNCHANGED <<app, HWconfig, clock, console, glIsApplnActive>>

STOPFX3 ==
  /\ Callback
  /\ lpm' = TRUE /\ swInput' = FALSE
  /\ channel' = ResetXfer /\ streaming' = FALSE
  /\ UNCHANGED <<app, HWconfig, clock, console, glIsApplnActive>>

RESETFX3 == Callback /\ Reboot

(* si5351aSetFrequencyA: the transfers are four, or the one that switches   *)
(* the output off, and none is checked.                                     *)
STARTADC(freq) ==
  LET f   == frequency(freq)
      Pll == [clock EXCEPT !.pll = <<P1(mult(f), num(f)), P2(num(f))>>]
      Synth(c) == [c EXCEPT !.synth = <<divider(f), Doublings(freq)>>]
      On(c)    == [c EXCEPT !.on = TRUE]
  IN /\ Callback
     /\ IF freq = 0
          THEN clock' \in {clock, [clock EXCEPT !.on = FALSE]}
          ELSE \E c \in {clock, Pll} : \E d \in {c, Synth(c)} : clock' \in {d, On(d)}
     /\ UNCHANGED <<app, HWconfig, console, stream>>

(* A key of the console; carriage return is the end of the command.         *)
ReturnKey ==
  /\ Qevent' = "command" /\ Send("command")
  /\ owed' = IF Fits THEN owed + 1 ELSE owed
  /\ UNCHANGED <<app, HWconfig, clock, ConsoleInIndex, took, stream>>

KeyUnlimited ==                     (* mutant: index not limited            *)
  /\ ConsoleInIndex' = ConsoleInIndex + 1
  /\ UNCHANGED <<app, HWconfig, clock, EventAvailable, Qevent, took, owed, stream>>

OtherKey ==
  /\ ConsoleInIndex' = IF ConsoleInIndex < BufLen THEN ConsoleInIndex + 1 ELSE ConsoleInIndex
  /\ UNCHANGED <<app, HWconfig, clock, EventAvailable, Qevent, took, owed, stream>>

READINFODEBUG == Callback /\ (ReturnKey \/ OtherKey)

(* The UART is set up before the application thread runs.                   *)
UartCallback == Called /\ (ReturnKey \/ OtherKey)

UsbThread == \/ SETCONF \/ Unconfigured \/ OtherEvent \/ ClearFeature
             \/ STARTFX3 \/ STOPFX3 \/ RESETFX3 \/ READINFODEBUG
             \/ \E f \in AdcFreqs : STARTADC(f)

Next == ApplicationThread \/ UsbThread \/ UartCallback

Spec == Init /\ [][Next]_vars

(* The callbacks leave the application thread time to run.                  *)
FairSpec == Spec /\ WF_vars(ApplicationThread)

-----------------------------------------------------------------------------
(* P1 of the clock's PLL is that of a multiplier of 15 to 90.               *)
P1State    == 1408 .. 11135
P2State    == -3 .. denom - 1
PllState   == P1State \X P2State
SynthState == Nat \X (0 .. 7)
ClockState == [pll : PllState, synth : SynthState, on : BOOLEAN]

(* Types of all variables. *)
TypeOK ==
  /\ app \in {"boot", "loop", "received", "command"}
  /\ HWconfig \in Radios /\ glIsApplnActive \in BOOLEAN
  /\ EventAvailable \in Seq(Messages) /\ Len(EventAvailable) <= QueueLen
  /\ Qevent \in Messages /\ took \in Messages /\ ConsoleInIndex \in 0 .. BufLen
  /\ channel \in {"none", "idle", "armed"}
  /\ swInput \in BOOLEAN /\ lpm \in BOOLEAN /\ streaming \in BOOLEAN
  /\ clock \in ClockState
  /\ owed \in Int /\ callbacks \in Nat

(* From a STARTFX3 that was accepted to the STOPFX3, reset, disconnection   *)
(* or configuration that ends it, data can flow whatever else the host      *)
(* requests: the application is active, its channel has a transfer set, the *)
(* GPIF's input is raised and the link may not sleep.                       *)
StreamArmed ==
  streaming => glIsApplnActive /\ channel = "armed" /\ swInput /\ ~lpm

(* A command that the queue had room for is parsed, although the word it is *)
(* received into may be overwritten before it is looked at: what overwrites *)
(* it can only be another command (which may be parsed twice, therefore).   *)
CommandsArrive == (owed > 0) ~> (owed = 0)
=============================================================================
