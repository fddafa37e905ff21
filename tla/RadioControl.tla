---------------------------- MODULE RadioControl ----------------------------
(***************************************************************************)
(* The settings of the radio: the calls of RadioHandlerClass that send     *)
(* commands, made by the ExtIO plug-in (src/extio/ExtIO_sddc.cpp), which   *)
(* keeps settings per mode and restores them when the frequency crosses    *)
(* into the other, or directly, as the SoapySDR driver and libsddc do; and *)
(* the state of the device the commands change.                            *)
(*                                                                         *)
(* A call is a list of steps of one USB command each.  A command may be    *)
(* lost, or carried out and its answer lost; callers ignore the answer.    *)
(***************************************************************************)
EXTENDS RadioHardware

CONSTANTS
  Models,                  (* the radios checked                            *)
  FrontEnds,               (* "ExtIO", "direct"                             *)
  Freqs, Rates,            (* bound: frequencies and ADC rates asked for    *)
  AttIndices, MgcIndices,  (* bound: indices asked for                      *)
  GainValues,              (* bound: values given to setGain                *)
  Flags,                   (* bound: the flags that are switched            *)
  Factors,                 (* bound: corrections of the clock, in millionths*)
  MaxCalls, MaxFaults      (* bound: calls, and commands that fail          *)

FlagPin == [ dither |-> "DITH", pga |-> "PGA_EN", randout |-> "RANDO",
             biasT_HF |-> "BIAS_HF", biasT_VHF |-> "BIAS_VHF" ]
Pins == ATT_SEL \cup {"VHF_EN", "SHDWN"} \cup {FlagPin[f] : f \in DOMAIN FlagPin}

ASSUME ControlAssumption ==
  /\ Models \subseteq RadioModels /\ FrontEnds \subseteq {"ExtIO", "direct"}
  /\ Freqs \subseteq Nat \ {0} /\ Rates \subseteq Nat \ {0}
  /\ AttIndices \subseteq Nat /\ MgcIndices \subseteq 0 .. 127
  /\ GainValues \subseteq Int /\ Flags \subseteq DOMAIN FlagPin
  /\ Factors \subseteq Nat \ {0}
  /\ MaxCalls \in Nat /\ MaxFaults \in Nat

None == -1

VARIABLES
  model, front,
  open,            (* the handler has a hardware object                     *)
  modeRF, flags, adcrate,       (* RadioHandlerClass                        *)
  gpios,                        (* RadioHardware                            *)
  rand, sideband,               (* r2iqControlClass                         *)
  tuned,           (* what mtunebin and, with it, fc were computed from last*)
  giAttIdx, giMgcIdx, gfLOfreq, gfFreqCorrectionPpm,   (* ExtIO_sddc.cpp    *)
  dev,             (* the device                                            *)
  todo,            (* the rest of the call under way                        *)
  calls, faults,
  switched,        (* the mode was switched since the last InitHW           *)
  clean,           (* no command failed since the last switch               *)
  gpioOk,          (* a GPIO command was sent since InitHW, and the last    *)
                   (* one was answered                                      *)
  lastGain         (* the last value given to setGain and its index         *)

host  == <<open, modeRF, flags, adcrate, gpios, rand, sideband, tuned>>
extio == <<giAttIdx, giMgcIdx, gfLOfreq, gfFreqCorrectionPpm>>
ghost == <<switched, clean, gpioOk, lastGain>>
vars  == <<model, front, host, extio, dev, todo, calls, faults, ghost>>

(* A radio as its firmware starts it: the VGA index of the tuner driver is  *)
(* its cache's initial 255.                                                 *)
PowerOn == [ pins |-> {}, att |-> 0, vga |-> 0, tuner |-> "off",
             asked |-> 0, rfGain |-> None, vgaGain |-> 0, m_vgagain_index |-> 255 ]

NotTuned == [freq |-> 0, actLo |-> 0, rate |-> 0, mode |-> "NOMODE", by |-> "none"]
NoGain   == [name |-> "none", value |-> 0, len |-> 0, index |-> 0]

DEFAULT_ADC_FREQ == 64000

(* FreqCorrectionFactor, in millionths.                                     *)
Factor(ppm) == 1000000 + ppm
Corrections == {f - 1000000 : f \in Factors}

(* The plug-in keeps the LO as what was tuned times the factor, which is no *)
(* whole number: [freq |-> f, ppm |-> p] is f * Factor(p) millionths.       *)
Exactly(freq) == [freq |-> freq, ppm |-> 0]

(* An LO divided by the factor and, on its way into TuneLO, cut to a whole  *)
(* number: lo.freq * Factor(lo.ppm) \div Factor(ppm).                       *)
Corrected(lo, ppm) == lo.freq + (lo.freq * (lo.ppm - ppm)) \div Factor(ppm)
InternalLo == Corrected(gfLOfreq, gfFreqCorrectionPpm)

(* The correction is 0 unless the saved settings have another.              *)
Init == /\ model \in Models /\ front \in FrontEnds
        /\ open = TRUE /\ modeRF = "NOMODE"
        /\ flags = [f \in DOMAIN FlagPin |-> FALSE]
        /\ adcrate = DEFAULT_ADC_FREQ /\ gpios = {}
        /\ rand = FALSE /\ sideband = FALSE /\ tuned = NotTuned
        /\ giAttIdx = [m \in Modes |-> 0] /\ giMgcIdx = [m \in Modes |-> 0]
        /\ gfLOfreq = Exactly(2000)
        /\ gfFreqCorrectionPpm \in IF front = "ExtIO" THEN {0} \cup Corrections ELSE {0}
        /\ dev = PowerOn
        /\ todo = <<>> /\ calls = 0 /\ faults = 0
        /\ switched = FALSE /\ clean = TRUE /\ gpioOk = FALSE /\ lastGain = NoGain

-----------------------------------------------------------------------------
(* One step of a call                                                       *)

Mode == HardwareMode(model, gpios)
HasR82xx == model # "RX888r3"

(* The device after a command.  set_vga_gain keeps the last index it sent   *)
(* across tuner initialisations; the register field has four bits.          *)
PinsCmd(word) == [dev EXCEPT !.pins = word]
InitCmd  == [dev EXCEPT !.tuner = "ready", !.asked = 0, !.rfGain = None, !.vgaGain = 11]
StdbyCmd == IF dev.tuner = "off" THEN dev
            ELSE [dev EXCEPT !.tuner = "standby", !.rfGain = None, !.vgaGain = 5]
VgaGainCmd(i) == IF dev.m_vgagain_index = i THEN dev
                 ELSE [dev EXCEPT !.vgaGain = i % 16, !.m_vgagain_index = i]

(* A command does what it should, is lost, or its answer is lost.           *)
Command(after, isGpio) ==
  \/ /\ dev' = after /\ UNCHANGED <<faults, clean>>
     /\ gpioOk' = IF isGpio THEN TRUE ELSE gpioOk
  \/ /\ faults < MaxFaults /\ faults' = faults + 1
     /\ dev' \in {dev, after}
     /\ clean' = FALSE
     /\ gpioOk' = IF isGpio THEN FALSE ELSE gpioOk
NoCommand == UNCHANGED <<dev, faults, clean, gpioOk>>

Done(op) == /\ todo # <<>> /\ Head(todo).op = op
            /\ todo' = Tail(todo)
            /\ UNCHANGED <<model, front, open, modeRF, flags, adcrate, extio, calls,
                           switched, lastGain>>

(* FX3SetGPIO and FX3UnsetGPIO: the word is changed, then all of it sent.   *)
PinsStep ==
  /\ Done("pins")
  /\ gpios' = (gpios \cup Head(todo).on) \ Head(todo).off
  /\ Command(PinsCmd(gpios'), TRUE)
  /\ UNCHANGED <<rand, sideband, tuned>>

(* RadioHardware::UpdateattRF *)
AttStep ==
  /\ Done("att")
  /\ LET i == Head(todo).index IN
     CASE Mode = "VHFMODE" /\ HasR82xx ->
            Command([dev EXCEPT !.rfGain = i], FALSE) /\ UNCHANGED gpios
       [] Mode = "VHFMODE" /\ ~HasR82xx -> NoCommand /\ UNCHANGED gpios
       [] Mode = "HFMODE" /\ model = "BBRF103" ->
            /\ gpios' = (gpios \ ATT_SEL) \cup AttPins(i)
            /\ Command(PinsCmd(gpios'), TRUE)
       [] OTHER -> Command([dev EXCEPT !.att = AttValue(i)], FALSE) /\ UNCHANGED gpios
  /\ UNCHANGED <<rand, sideband, tuned>>

(* RadioHardware::UpdateGainIF *)
GainIFStep ==
  /\ Done("gainIF")
  /\ LET i == Head(todo).index IN
     CASE Mode = "VHFMODE" /\ HasR82xx -> Command(VgaGainCmd(i), FALSE)
       [] Mode = "HFMODE" /\ model # "BBRF103" ->
            Command([dev EXCEPT !.vga = VgaByte(i)], FALSE)
       [] OTHER -> NoCommand
  /\ UNCHANGED <<gpios, rand, sideband, tuned>>

VgaStep == /\ Done("vga")
           /\ Command([dev EXCEPT !.vga = Head(todo).byte], FALSE)
           /\ UNCHANGED <<gpios, rand, sideband, tuned>>

TunerStep == /\ \/ Done("init")  /\ Command(InitCmd, FALSE)
                \/ Done("stdby") /\ Command(StdbyCmd, FALSE)
             /\ UNCHANGED <<gpios, rand, sideband, tuned>>

(* The rate of the ADC is not part of dev. *)
AdcStep == /\ Done("adc")
           /\ Command(dev, FALSE)
           /\ UNCHANGED <<gpios, rand, sideband, tuned>>

R2iqStep == /\ \/ Done("sideband") /\ sideband' = Head(todo).value /\ UNCHANGED rand
               \/ Done("rand") /\ rand' = Head(todo).value /\ UNCHANGED sideband
            /\ NoCommand /\ UNCHANGED <<gpios, tuned>>

(* RadioHandlerClass::TuneLO; in HF only the mkIII sends a command, of its  *)
(* preselector, which is not part of dev.                                   *)
TuneStep ==
  /\ Done("tune")
  /\ LET f == Head(todo).freq IN
     /\ tuned' = [ freq |-> f, actLo |-> ActualLo(model, Mode, f), rate |-> adcrate,
                   mode |-> modeRF, by |-> Head(todo).by ]
     /\ IF Mode = "VHFMODE" THEN Command([dev EXCEPT !.asked = f], FALSE)
        ELSE IF model = "RX888r3" THEN Command(dev, FALSE)
        ELSE NoCommand
  /\ UNCHANGED <<gpios, rand, sideband>>

Step == \/ PinsStep \/ AttStep \/ GainIFStep \/ VgaStep \/ TunerStep
        \/ AdcStep \/ R2iqStep \/ TuneStep

-----------------------------------------------------------------------------
(* The calls                                                                *)

Call == todo = <<>> /\ calls < MaxCalls /\ calls' = calls + 1
        /\ UNCHANGED <<model, front, dev, faults>>

HandlerMode == IF modeRF = "VHFMODE" THEN "VHFMODE" ELSE "HFMODE"

(* RadioHandlerClass::UpdatemodeRF: the mode is recorded before the         *)
(* hardware is told, and the hardware is told only of a change.             *)
Switch(mode) ==
  IF modeRF = mode
    THEN UNCHANGED <<modeRF, switched, clean>>
    ELSE modeRF' = mode /\ switched' = TRUE /\ clean' = TRUE
SwitchSteps(mode) ==
  IF modeRF = mode THEN <<>>
  ELSE ModeSteps(model, mode) \o <<SetSideband(mode = "VHFMODE")>>

SettingsForgotten(mode) == <<GainIF(giMgcIdx[mode])>>                 (* mutant *)

(* The settings of a mode, which SetHWLOdbl restores when it enters it.     *)
Settings(mode) == <<GainIF(giMgcIdx[mode]), Att(giAttIdx[mode])>>

SetHWLOdbl(freq) ==
  LET mode == PrepareLo(model, freq, adcrate)
      internal_LOfreq == Corrected(Exactly(freq), gfFreqCorrectionPpm)
  IN
  /\ Call /\ open /\ front = "ExtIO"
  /\ IF mode = "NOMODE"
       THEN UNCHANGED <<todo, modeRF, gfLOfreq, switched, clean>>
       ELSE /\ Switch(mode)
            /\ todo' = SwitchSteps(mode) \o (IF modeRF = mode THEN <<>> ELSE Settings(mode))
                         \o <<Tune(internal_LOfreq, "SetHWLO")>>
            /\ gfLOfreq' = [freq |-> internal_LOfreq, ppm |-> gfFreqCorrectionPpm]
  /\ UNCHANGED <<open, flags, adcrate, gpios, rand, sideband, tuned, giAttIdx, giMgcIdx,
                 gfFreqCorrectionPpm, gpioOk, lastGain>>

SetAttenuator(i) ==
  /\ Call /\ open /\ front = "ExtIO"
  /\ todo' = <<Att(i)>>
  /\ giAttIdx' = [giAttIdx EXCEPT ![HandlerMode] = i]
  /\ UNCHANGED <<host, giMgcIdx, gfLOfreq, gfFreqCorrectionPpm, ghost>>

ExtIoSetMGC(i) ==
  /\ Call /\ open /\ front = "ExtIO"
  /\ todo' = <<GainIF(i)>>
  /\ giMgcIdx' = [giMgcIdx EXCEPT ![HandlerMode] = i]
  /\ UNCHANGED <<host, giAttIdx, gfLOfreq, gfFreqCorrectionPpm, ghost>>

(* The class keeps its own copy of the rate, and the plug-in another, set   *)
(* with adcrate.                                                            *)
OverclockSteps(rate, ppm) == <<StartAdc(rate), Tune(Corrected(gfLOfreq, ppm), "SetOverclock")>>

SetOverclock(rate) ==
  /\ Call /\ open /\ front = "ExtIO"
  /\ adcrate' = rate
  /\ todo' = OverclockSteps(rate, gfFreqCorrectionPpm)
  /\ UNCHANGED <<open, modeRF, flags, gpios, rand, sideband, tuned, extio, ghost>>

(* SetOverclock again at the rate it has, with the new correction.          *)
SetPPMvalue(ppm) ==
  /\ Call /\ open /\ front = "ExtIO"
  /\ gfFreqCorrectionPpm' = ppm
  /\ todo' = OverclockSteps(adcrate, ppm)
  /\ UNCHANGED <<host, giAttIdx, giMgcIdx, gfLOfreq, ghost>>

(* UptDither, UptPga, UptRand, UpdBiasT_HF, UpdBiasT_VHF                     *)
UptFlagNotR2iq(flag, b) ==                    (* mutant: r2iq is not told   *)
  /\ Call /\ open
  /\ flags' = [flags EXCEPT ![flag] = b]
  /\ todo' = <<IF b THEN SetPins({FlagPin[flag]}) ELSE UnsetPins({FlagPin[flag]})>>
  /\ UNCHANGED <<open, modeRF, adcrate, gpios, rand, sideband, tuned, extio, ghost>>

UptFlag(flag, b) ==
  /\ Call /\ open
  /\ flags' = [flags EXCEPT ![flag] = b]
  /\ todo' = <<IF b THEN SetPins({FlagPin[flag]}) ELSE UnsetPins({FlagPin[flag]})>>
               \o (IF flag = "randout" THEN <<SetRand(b)>> ELSE <<>>)
  /\ UNCHANGED <<open, modeRF, adcrate, gpios, rand, sideband, tuned, extio, ghost>>

(* CloseHW deletes the hardware object, whose destructor sets SHDWN; InitHW *)
(* makes a new one, with a GPIO word of its own, and a new r2iq, which      *)
(* derandomises nothing and is not tuned.  The handler keeps its mode and   *)
(* flags.                                                                   *)
CloseHW ==
  /\ Call /\ open /\ front = "ExtIO"
  /\ open' = FALSE /\ todo' = <<SetPins({"SHDWN"})>>
  /\ UNCHANGED <<modeRF, flags, adcrate, gpios, rand, sideband, tuned, extio, ghost>>

InitHW ==
  /\ Call /\ ~open
  /\ open' = TRUE /\ gpios' = {}
  /\ rand' = FALSE /\ sideband' = FALSE /\ tuned' = NotTuned
  /\ todo' = <<StartAdc(adcrate)>>
  /\ switched' = FALSE /\ gpioOk' = FALSE
  /\ UNCHANGED <<modeRF, flags, adcrate, extio, clean, lastGain>>

(* setAntenna, sddc_set_rf_mode *)
UpdatemodeRF(mode) ==
  /\ Call /\ front = "direct"
  /\ Switch(mode) /\ todo' = SwitchSteps(mode)
  /\ UNCHANGED <<open, flags, adcrate, gpios, rand, sideband, tuned, extio, gpioOk, lastGain>>

(* setFrequency, sddc_set_tuner_frequency *)
TuneLO(freq) ==
  /\ Call /\ front = "direct"
  /\ todo' = <<Tune(freq, "TuneLO")>>
  /\ UNCHANGED <<host, extio, ghost>>

(* SoapySDDC::setGain *)
setGain(name, value) ==
  LET rfLen == RFSteps(model, Mode)
      len   == IF name = "RF" THEN rfLen ELSE IFSteps(model, Mode)
      index == GainIndex(rfLen, len, value)
  IN /\ Call /\ front = "direct"
     /\ todo' = <<IF name = "RF" THEN Att(index) ELSE GainIF(index)>>
     /\ lastGain' = [name |-> name, value |-> value, len |-> len, index |-> index]
     /\ UNCHANGED <<host, extio, switched, clean, gpioOk>>

Next == \/ Step
        \/ \E f \in Freqs : SetHWLOdbl(f) \/ TuneLO(f)
        \/ \E i \in AttIndices : SetAttenuator(i)
        \/ \E i \in MgcIndices : ExtIoSetMGC(i)
        \/ \E r \in Rates : SetOverclock(r)
        \/ \E p \in Corrections : SetPPMvalue(p)
        \/ \E f \in Flags, b \in BOOLEAN : UptFlag(f, b)
        \/ CloseHW \/ InitHW
        \/ \E m \in Modes : UpdatemodeRF(m)
        \/ \E n \in {"RF", "IF"}, v \in GainValues : setGain(n, v)

Spec == Init /\ [][Next]_vars

-----------------------------------------------------------------------------
Idle == todo = <<>> /\ open

StepType ==
  [op : {"pins"}, on : SUBSET Pins, off : SUBSET Pins]
    \cup [op : {"att", "gainIF"}, index : Int] \cup [op : {"vga"}, byte : Int]
    \cup [op : {"init", "stdby"}] \cup [op : {"sideband", "rand"}, value : BOOLEAN]
    \cup [op : {"tune"}, freq : Nat, by : {"SetHWLO", "SetOverclock", "TuneLO"}]
    \cup [op : {"adc"}, rate : Nat]

(* Types of all variables. *)
TypeOK ==
  /\ model \in Models /\ front \in FrontEnds
  /\ open \in BOOLEAN /\ modeRF \in Modes \cup {"NOMODE"}
  /\ flags \in [DOMAIN FlagPin -> BOOLEAN] /\ adcrate \in Nat
  /\ gpios \in SUBSET Pins /\ rand \in BOOLEAN /\ sideband \in BOOLEAN
  /\ tuned \in [freq : Nat, actLo : Int, rate : Nat, mode : Modes \cup {"NOMODE"},
                by : {"none", "SetHWLO", "SetOverclock", "TuneLO"}]
  /\ giAttIdx \in [Modes -> Nat] /\ giMgcIdx \in [Modes -> Nat]
  /\ gfLOfreq \in [freq : Nat, ppm : Int] /\ gfFreqCorrectionPpm \in Int
  /\ dev \in [ pins : SUBSET Pins, att : 0 .. 63, vga : 0 .. 255,
               tuner : {"off", "ready", "standby"}, asked : Nat, rfGain : Int,
               vgaGain : 0 .. 15, m_vgagain_index : Nat ]
  /\ Len(todo) \in Nat /\ \A i \in 1 .. Len(todo) : todo[i] \in StepType
  /\ calls \in Nat /\ faults \in Nat
  /\ switched \in BOOLEAN /\ clean \in BOOLEAN /\ gpioOk \in BOOLEAN
  /\ lastGain \in [name : {"none", "RF", "IF"}, value : Int, len : Nat, index : Int]

(* Whatever GPIO commands failed before, one that is answered brings the    *)
(* pins of the device up to date with the word of the host, and so with the *)
(* flags set through this hardware object; and r2iq undoes the              *)
(* randomisation whenever the pin asks the ADC for it.                      *)
PinsFollow ==
  /\ Idle /\ gpioOk => dev.pins = gpios
  /\ Idle => \A f \in Flags : FlagPin[f] \in gpios => flags[f]
  /\ Idle /\ gpioOk /\ "RANDO" \in dev.pins => rand

(* The class reads the mode off the GPIO word, the handler keeps it: they   *)
(* agree once the mode was switched through this hardware object, failures  *)
(* or not and whatever the attenuator, which shares pins with the mode in   *)
(* the BBRF103.                                                             *)
ModeAgrees == Idle /\ switched => Mode = modeRF

(* With ExtIO, if no command failed since the last switch of mode, the      *)
(* device is set as the plug-in remembers for that mode: in VHF the HF      *)
(* input is muted, the tuner initialised, asked for the LO, corrected as it *)
(* now has to be, and given the gain of VHF; in HF the tuner is off and     *)
(* attenuator and VGA are those of HF again; and the sideband and the       *)
(* offset are those of the mode.                                            *)
SettingsOfMode ==
  Idle /\ front = "ExtIO" /\ switched /\ clean =>
    /\ tuned.freq = InternalLo /\ tuned.mode = modeRF /\ sideband = (modeRF = "VHFMODE")
    /\ modeRF = "VHFMODE" =>
         /\ dev.tuner = "ready" /\ dev.asked = tuned.freq
         /\ HasR82xx => dev.rfGain = giAttIdx["VHFMODE"]
         /\ model # "BBRF103" => dev.att = MaxAttenuation /\ dev.vga = VgaOfVhf
    /\ modeRF = "HFMODE" =>
         /\ dev.tuner # "ready"
         /\ model = "BBRF103" => dev.pins \cap ATT_SEL = AttPins(giAttIdx["HFMODE"])
         /\ model # "BBRF103" => /\ dev.att = AttValue(giAttIdx["HFMODE"])
                                 /\ dev.vga = VgaByte(giMgcIdx["HFMODE"])

(* SetHWLOdbl leaves the converter an offset inside the band that the ADC   *)
(* samples, if the correction is not negative.  It chooses the mode by the  *)
(* LO it is given and tunes the corrected one, so that a negative           *)
(* correction leaves an LO next to the border to HF and tunes it beyond:    *)
(* but not beyond where the correction moves the border itself.  The mkIII, *)
(* whose HF range takes no account of the ADC rate, is an exception.        *)
TunedInBand ==
  Idle /\ tuned.by = "SetHWLO" /\ switched /\ model # "RX888r3" =>
    LET offset == tuned.freq - tuned.actLo
        ppm    == gfFreqCorrectionPpm
    IN /\ 0 <= offset
       /\ ppm >= 0 => 2 * offset <= tuned.rate
       /\ ppm < 0  => 2 * offset <= Corrected(Exactly(tuned.rate), ppm)

(* A value within the range getGainRange announces selects the step it      *)
(* falls on or just above, for the RF gain.                                 *)
InRange == lastGain.len > 0 /\ 0 <= lastGain.value /\ lastGain.value <= 2 * (lastGain.len - 1)
RfGainAsAsked == lastGain.name = "RF" /\ InRange => lastGain.index = lastGain.value \div 2

(* Same for the IF gain. *)
IfGainAsAsked == lastGain.name = "IF" /\ InRange => lastGain.index = lastGain.value \div 2

(* The VGA of the tuner is restored with the other settings of VHF.         *)
VgaRestored ==
  Idle /\ front = "ExtIO" /\ switched /\ clean /\ HasR82xx /\ modeRF = "VHFMODE" =>
    dev.vgaGain = giMgcIdx["VHFMODE"] % 16
=============================================================================
