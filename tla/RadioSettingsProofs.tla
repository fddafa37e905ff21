------------------------- MODULE RadioSettingsProofs -------------------------
(***************************************************************************)
(* More proofs about RadioControl.tla: types, the offset the converter is  *)
(* left with, and the settings the plug-in restores when the mode changes. *)
(*                                                                         *)
(* A restored setting is what a step of the switch leaves, so a proof has  *)
(* to know in which order the steps that are left come: the first half of  *)
(* a switch undoes what the second half sets.                              *)
(***************************************************************************)
EXTENDS RadioControlProofs

Device == [ pins : SUBSET Pins, att : 0 .. 63, vga : 0 .. 255,
            tuner : {"off", "ready", "standby"}, asked : Nat, rfGain : Int,
            vgaGain : 0 .. 15, m_vgagain_index : Nat ]

Tuner == {"SetHWLO", "SetOverclock", "TuneLO"}

(* What steps carry: narrower than StepType, so that the bytes sent to the  *)
(* device stay bytes.                                                       *)
SoundStep ==
  [op : {"pins"}, on : SUBSET Pins, off : SUBSET Pins]
    \cup [op : {"att"}, index : Nat] \cup [op : {"gainIF"}, index : 0 .. 127]
    \cup [op : {"vga"}, byte : 0 .. 255] \cup [op : {"init", "stdby"}]
    \cup [op : {"sideband", "rand"}, value : BOOLEAN]
    \cup [op : {"tune"}, freq : Nat, by : Tuner] \cup [op : {"adc"}, rate : Nat]

StepsInv == Pending \subseteq SoundStep /\ giMgcIdx \in [Modes -> 0 .. 127]

-----------------------------------------------------------------------------
(* The correction of the clock                                              *)

(* Corrections whose factor is positive.                                    *)
Ppms == {p \in Int : Factor(p) > 0}

(* A quotient is no less than what its divisor goes into the dividend.      *)
LEMMA DivAtLeast ==
  ASSUME NEW a \in Int, NEW b \in Int, NEW n \in Nat \ {0}, b * n <= a
  PROVE  a \div n \in Int /\ b <= a \div n
<1> DEFINE k == a \div n
           m == a % n
<1>1. k \in Int /\ m \in Int /\ a = n * k + m /\ 0 <= m /\ m < n
  BY SMT
<1> HIDE DEF k, m
<1>2. SUFFICES ASSUME k <= b - 1 PROVE FALSE
  BY <1>1 DEF k
<1>3. n * (b - 1 - k) >= 0
  BY <1>1, <1>2, SMT
<1>4. n * (b - 1 - k) = b * n - n - n * k
  BY <1>1, SMT
<1>5. QED
  BY <1>1, <1>3, <1>4

(* And no more than what it goes into more.                                 *)
LEMMA DivTimes ==
  ASSUME NEW a \in Int, NEW n \in Nat \ {0}
  PROVE  a \div n \in Int /\ (a \div n) * n <= a
<1> DEFINE k == a \div n
           m == a % n
<1>1. k \in Int /\ m \in Int /\ a = n * k + m /\ 0 <= m
  BY SMT
<1> HIDE DEF k, m
<1>2. n * k = k * n /\ n * k \in Int
  BY <1>1, SMT
<1>3. QED
  BY <1>1, <1>2 DEF k

(* The corrections asked for have a positive factor.                        *)
LEMMA CorrectionsSound == 0 \in Ppms /\ Corrections \subseteq Ppms
  BY ControlAssumption DEF Corrections, Ppms, Factor

(* A corrected LO is a frequency.                                           *)
LEMMA CorrectedNat ==
  ASSUME NEW lo \in [freq : Nat, ppm : Ppms], NEW q \in Ppms
  PROVE  Corrected(lo, q) \in Nat
<1> DEFINE x == lo.freq
           d == lo.ppm - q
           F == Factor(q)
<1>1. x \in Nat /\ d \in Int /\ F \in Nat \ {0} /\ d + F > 0
  BY DEF Ppms, Factor
<1>2. Corrected(lo, q) = x + (x * d) \div F
  BY DEF Corrected
<1> HIDE DEF x, d, F
<1>3. x * (d + F) >= 0 /\ x * (d + F) = x * d + x * F /\ x * d \in Int
  BY <1>1, SMT
<1>4. (-x) * F = -(x * F) /\ -x \in Int
  BY <1>1, SMT
<1>5. (-x) * F <= x * d
  BY <1>1, <1>3, <1>4
<1>6. (x * d) \div F \in Int /\ -x <= (x * d) \div F
  BY <1>1, <1>3, <1>4, <1>5, DivAtLeast
<1>7. QED
  BY <1>1, <1>2, <1>6

(* What was tuned is not changed by the correction it was tuned with.       *)
LEMMA CorrectedTwice ==
  ASSUME NEW f \in Nat, NEW p \in Ppms
  PROVE  Corrected([freq |-> f, ppm |-> p], p) = f
<1>1. Factor(p) \in Nat \ {0} /\ p - p = 0 /\ f * 0 = 0
  BY DEF Ppms, Factor
<1>2. 0 \div Factor(p) = 0
  BY <1>1, SMT
<1>3. QED
  BY <1>1, <1>2 DEF Corrected

(* A correction that is not negative lowers, a negative one raises, and     *)
(* what was at most half of another stays it.                               *)
LEMMA CorrectedOrder ==
  ASSUME NEW f \in Nat, NEW r \in Nat, NEW p \in Ppms
  PROVE  /\ Corrected(Exactly(f), p) \in Nat
         /\ p >= 0 => Corrected(Exactly(f), p) <= f
         /\ p < 0  => r <= Corrected(Exactly(r), p)
         /\ p < 0 /\ 2 * f <= r => 2 * Corrected(Exactly(f), p) <= Corrected(Exactly(r), p)
<1> DEFINE d == -p
           F == Factor(p)
           k == (f * d) \div F
           l == (r * d) \div F
<1>1. p \in Int /\ d \in Int /\ F \in Nat \ {0} /\ 0 - p = d
  BY DEF Ppms, Factor
<1>2. Corrected(Exactly(f), p) = f + k /\ Corrected(Exactly(r), p) = r + l
  BY <1>1 DEF Corrected, Exactly
<1>3. Corrected(Exactly(f), p) \in Nat
  <2>1. Exactly(f) \in [freq : Nat, ppm : Ppms]
    BY CorrectionsSound DEF Exactly
  <2>2. QED
    BY <2>1, CorrectedNat
<1> HIDE DEF d, F
<1>4. f * d \in Int /\ r * d \in Int
  BY <1>1, SMT
<1>5. k \in Int /\ l \in Int /\ k * F <= f * d
  BY <1>1, <1>4, DivTimes
<1>6. ASSUME NEW b \in Int, b * F <= r * d PROVE b <= l
  BY <1>1, <1>4, <1>6, DivAtLeast
<1> HIDE DEF k, l
<1>7. ASSUME p >= 0 PROVE k <= 0
  <2>1. f * (-d) >= 0 /\ f * (-d) = -(f * d)
    BY <1>1, <1>7, SMT DEF d
  <2>2. SUFFICES ASSUME k >= 1 PROVE FALSE
    BY <1>5
  <2>3. k * F >= 1 /\ k * F \in Int
    BY <1>1, <1>5, <2>2, SMT
  <2>4. f * d <= 0
    BY <1>4, <2>1
  <2>5. QED
    BY <1>4, <1>5, <2>3, <2>4
<1>8. ASSUME p < 0 PROVE 0 <= l /\ (2 * f <= r => 2 * k <= l)
  <2>1. d >= 0
    BY <1>1, <1>8
  <2>2. r * d >= 0 /\ 0 * F = 0
    BY <1>1, <2>1, SMT
  <2>3. ASSUME 2 * f <= r PROVE (2 * k) * F <= r * d
    <3>1. (r - 2 * f) * d >= 0
      BY <1>1, <2>1, <2>3, SMT
    <3>2. (r - 2 * f) * d = r * d - 2 * (f * d) /\ (2 * k) * F = 2 * (k * F)
      BY <1>1, <1>5, SMT
    <3>3. k * F \in Int
      BY <1>1, <1>5, SMT
    <3>4. QED
      BY <1>4, <1>5, <3>1, <3>2, <3>3
  <2>4. 2 * k \in Int
    BY <1>5
  <2>5. QED
    BY <1>6, <2>2, <2>3, <2>4
<1>9. QED
  BY <1>1, <1>2, <1>3, <1>5, <1>7, <1>8

-----------------------------------------------------------------------------
(* Types                                                                    *)

(* The fields of a step are known from its kind.                            *)
LEMMA StepFields ==
  ASSUME NEW s \in SoundStep
  PROVE  /\ s.op = "pins" => s.on \subseteq Pins /\ s.off \subseteq Pins
         /\ s.op = "att" => s.index \in Nat
         /\ s.op = "gainIF" => s.index \in 0 .. 127
         /\ s.op = "vga" => s.byte \in 0 .. 255
         /\ s.op \in {"sideband", "rand"} => s.value \in BOOLEAN
         /\ s.op = "tune" => s.freq \in Nat /\ s.by \in Tuner
  BY SMTT(30) DEF SoundStep

(* Steps as calls make them.                                                *)
LEMMA StepsMade ==
  /\ \A p \in SUBSET Pins : SetPins(p) \in SoundStep /\ UnsetPins(p) \in SoundStep
  /\ \A i \in Nat : Att(i) \in SoundStep /\ StartAdc(i) \in SoundStep
  /\ \A i \in 0 .. 127 : GainIF(i) \in SoundStep
  /\ \A i \in 0 .. 255 : Vga(i) \in SoundStep
  /\ TunerInit \in SoundStep /\ TunerStdby \in SoundStep
  /\ \A b \in BOOLEAN : SetSideband(b) \in SoundStep /\ SetRand(b) \in SoundStep
  /\ \A f \in Nat, by \in Tuner : Tune(f, by) \in SoundStep
<1>1. \A p \in SUBSET Pins : SetPins(p) \in SoundStep /\ UnsetPins(p) \in SoundStep
  BY DEF SoundStep, SetPins, UnsetPins
<1>2. \A i \in Nat : Att(i) \in SoundStep /\ StartAdc(i) \in SoundStep
  BY DEF SoundStep, Att, StartAdc
<1>3. /\ \A i \in 0 .. 127 : GainIF(i) \in SoundStep
      /\ \A i \in 0 .. 255 : Vga(i) \in SoundStep
  BY DEF SoundStep, GainIF, Vga
<1>4. TunerInit \in SoundStep /\ TunerStdby \in SoundStep
  BY DEF SoundStep, TunerInit, TunerStdby
<1>5. \A b \in BOOLEAN : SetSideband(b) \in SoundStep /\ SetRand(b) \in SoundStep
  BY DEF SoundStep, SetSideband, SetRand
<1>6. \A f \in Nat, by \in Tuner : Tune(f, by) \in SoundStep
  BY DEF SoundStep, Tune
<1>7. QED
  BY <1>1, <1>2, <1>3, <1>4, <1>5, <1>6

(* What the classes compute from an index fits the device's registers.      *)
LEMMA BytesFit ==
  /\ \A i \in Int : AttValue(i) \in 0 .. 63
  /\ \A i \in 0 .. 127 : VgaByte(i) \in 0 .. 255
  /\ \A i \in Int : AttPins(i) \subseteq ATT_SEL
  /\ VgaOfVhf \in 0 .. 255
<1>1. \A i \in Int : AttValue(i) \in 0 .. 63
  BY SMT DEF AttValue, Clamp, hf_rf_step_size
<1>2. \A i \in 0 .. 127 : VgaByte(i) \in 0 .. 255
  BY SMT DEF VgaByte, GAIN_SWEET_POINT
<1>3. \A i \in Int : AttPins(i) \subseteq ATT_SEL
  BY DEF AttPins, ATT_SEL
<1>4. VgaOfVhf \in 0 .. 255
  BY SMT DEF VgaOfVhf
<1>5. QED
  BY <1>1, <1>2, <1>3, <1>4

(* Carried out or lost, a command leaves the device in its type.            *)
LEMMA CommandType ==
  ASSUME TypeOK, NEW after \in Device, NEW g \in BOOLEAN, Command(after, g) \/ NoCommand
  PROVE  /\ dev' \in Device /\ faults' \in Nat /\ clean' \in BOOLEAN /\ gpioOk' \in BOOLEAN
<1>0. dev \in Device /\ faults \in Nat /\ clean \in BOOLEAN /\ gpioOk \in BOOLEAN
  BY DEF TypeOK, Device
<1>1. CASE NoCommand
  BY <1>0, <1>1 DEF NoCommand
<1>2. CASE Command(after, g)
  <2>1. dev' \in {dev, after} /\ faults' \in {faults, faults + 1}
    BY <1>2 DEF Command
  <2>2. clean' \in {clean, FALSE} /\ gpioOk' \in {gpioOk, TRUE, FALSE}
    BY <1>2 DEF Command
  <2>3. dev' \in Device
    BY <1>0, <2>1
  <2>4. faults + 1 \in Nat
    BY <1>0
  <2>5. QED
    BY <1>0, <2>1, <2>2, <2>3, <2>4
<1>3. QED
  BY <1>1, <1>2

(* The variables a step does not type-check by leaving them alone.          *)
HostType == /\ gpios \in SUBSET Pins /\ rand \in BOOLEAN /\ sideband \in BOOLEAN
            /\ tuned \in [freq : Nat, actLo : Int, rate : Nat, mode : Modes \cup {"NOMODE"},
                          by : {"none"} \cup Tuner]
DeviceType == dev \in Device /\ faults \in Nat /\ clean \in BOOLEAN /\ gpioOk \in BOOLEAN

(* The offset of a frequency is a number in every mode.                     *)
LEMMA ActualLoInt == \A m \in {"HFMODE", "VHFMODE"}, f \in Nat : ActualLo(model, m, f) \in Int
  BY SMT DEF ActualLo

(* One field of the device written.                                         *)
LEMMA FieldWritten ==
  /\ \A d \in Device, w \in SUBSET Pins : [d EXCEPT !.pins = w] \in Device
  /\ \A d \in Device, i \in 0 .. 63 : [d EXCEPT !.att = i] \in Device
  /\ \A d \in Device, i \in 0 .. 255 : [d EXCEPT !.vga = i] \in Device
  /\ \A d \in Device, s \in {"off", "standby", "ready"} : [d EXCEPT !.tuner = s] \in Device
  /\ \A d \in Device, i \in Nat : [d EXCEPT !.asked = i] \in Device
  /\ \A d \in Device, i \in Int : [d EXCEPT !.rfGain = i] \in Device
  /\ \A d \in Device, i \in 0 .. 15 : [d EXCEPT !.vgaGain = i] \in Device
  /\ \A d \in Device, i \in Nat : [d EXCEPT !.m_vgagain_index = i] \in Device
<1>1. \A d \in Device, w \in SUBSET Pins : [d EXCEPT !.pins = w] \in Device
  BY SMTT(30) DEF Device
<1>2. \A d \in Device, i \in 0 .. 63 : [d EXCEPT !.att = i] \in Device
  BY SMTT(30) DEF Device
<1>3. \A d \in Device, i \in 0 .. 255 : [d EXCEPT !.vga = i] \in Device
  BY SMTT(30) DEF Device
<1>4. \A d \in Device, s \in {"off", "standby", "ready"} : [d EXCEPT !.tuner = s] \in Device
  BY SMTT(30) DEF Device
<1>5. \A d \in Device, i \in Nat : [d EXCEPT !.asked = i] \in Device
  BY SMTT(30) DEF Device
<1>6. \A d \in Device, i \in Int : [d EXCEPT !.rfGain = i] \in Device
  BY SMTT(30) DEF Device
<1>7. \A d \in Device, i \in 0 .. 15 : [d EXCEPT !.vgaGain = i] \in Device
  BY SMTT(30) DEF Device
<1>8. \A d \in Device, i \in Nat : [d EXCEPT !.m_vgagain_index = i] \in Device
  BY SMTT(30) DEF Device
<1>9. QED
  BY <1>1, <1>2, <1>3, <1>4, <1>5, <1>6, <1>7, <1>8

(* The device after each command.                                           *)
LEMMA DeviceCommands ==
  ASSUME dev \in Device
  PROVE  /\ \A w \in SUBSET Pins : PinsCmd(w) \in Device
         /\ InitCmd \in Device /\ StdbyCmd \in Device
         /\ \A i \in Nat : VgaGainCmd(i) \in Device
         /\ \A i \in Int : [dev EXCEPT !.rfGain = i] \in Device
         /\ \A i \in Nat : [dev EXCEPT !.asked = i] \in Device
         /\ \A i \in 0 .. 63 : [dev EXCEPT !.att = i] \in Device
         /\ \A i \in 0 .. 255 : [dev EXCEPT !.vga = i] \in Device
<1>0. None \in Int /\ 0 \in Nat /\ 5 \in 0 .. 15 /\ 11 \in 0 .. 15
  BY DEF None
<1>1. \A w \in SUBSET Pins : PinsCmd(w) \in Device
  BY FieldWritten DEF PinsCmd
<1>2. InitCmd \in Device
  <2> DEFINE a == [dev EXCEPT !.tuner = "ready"]
             b == [a EXCEPT !.asked = 0]
             c == [b EXCEPT !.rfGain = None]
             d == [c EXCEPT !.vgaGain = 11]
  <2>1. InitCmd = d
    BY DEF InitCmd
  <2>2. a \in Device
    BY FieldWritten
  <2> HIDE DEF a
  <2>3. b \in Device
    BY <1>0, <2>2, FieldWritten
  <2> HIDE DEF b
  <2>4. c \in Device
    BY <1>0, <2>3, FieldWritten
  <2> HIDE DEF c
  <2>5. d \in Device
    BY <1>0, <2>4, FieldWritten
  <2> HIDE DEF d
  <2>6. QED
    BY <2>1, <2>5
<1>3. StdbyCmd \in Device
  <2> DEFINE a == [dev EXCEPT !.tuner = "standby"]
             b == [a EXCEPT !.rfGain = None]
             c == [b EXCEPT !.vgaGain = 5]
  <2>1. StdbyCmd = dev \/ StdbyCmd = c
    BY DEF StdbyCmd
  <2>2. a \in Device
    BY FieldWritten
  <2> HIDE DEF a
  <2>3. b \in Device
    BY <1>0, <2>2, FieldWritten
  <2> HIDE DEF b
  <2>4. c \in Device
    BY <1>0, <2>3, FieldWritten
  <2> HIDE DEF c
  <2>5. QED
    BY <2>1, <2>4
<1>4. \A i \in Nat : VgaGainCmd(i) \in Device
  <2>1. SUFFICES ASSUME NEW i \in Nat PROVE VgaGainCmd(i) \in Device
    OBVIOUS
  <2> DEFINE a == [dev EXCEPT !.vgaGain = i % 16]
             b == [a EXCEPT !.m_vgagain_index = i]
  <2>2. i % 16 \in 0 .. 15
    BY SMT
  <2>3. VgaGainCmd(i) = dev \/ VgaGainCmd(i) = b
    BY DEF VgaGainCmd
  <2>4. a \in Device
    BY <2>2, FieldWritten
  <2> HIDE DEF a
  <2>5. b \in Device
    BY <2>4, FieldWritten
  <2> HIDE DEF b
  <2>6. QED
    BY <2>3, <2>5
<1>5. \A i \in Int : [dev EXCEPT !.rfGain = i] \in Device
  BY FieldWritten
<1>6. \A i \in Nat : [dev EXCEPT !.asked = i] \in Device
  BY FieldWritten
<1>7. \A i \in 0 .. 63 : [dev EXCEPT !.att = i] \in Device
  BY FieldWritten
<1>8. \A i \in 0 .. 255 : [dev EXCEPT !.vga = i] \in Device
  BY FieldWritten
<1>9. QED
  BY <1>1, <1>2, <1>3, <1>4, <1>5, <1>6, <1>7, <1>8

(* What no step changes.                                                    *)
LEMMA StepLeaves ==
  ASSUME Step
  PROVE  UNCHANGED <<model, front, open, modeRF, flags, adcrate, extio, calls, switched, lastGain>>
<1> USE DEF Done
<1>1. PinsStep \/ AttStep \/ GainIFStep \/ VgaStep => Done(Head(todo).op)
  BY DEF PinsStep, AttStep, GainIFStep, VgaStep
<1>2. TunerStep \/ AdcStep \/ R2iqStep \/ TuneStep => Done(Head(todo).op)
  BY DEF TunerStep, AdcStep, R2iqStep, TuneStep
<1>3. QED
  BY <1>1, <1>2 DEF Step

(* One step of a call.                                                      *)
LEMMA StepKeepsTypes ==
  ASSUME TypeOK, StepsInv, FormInv, Step
  PROVE  HostType' /\ DeviceType'
<1> DEFINE h == Head(todo)
<1>1. h \in SoundStep
  BY StepTakes DEF StepsInv
<1>2. /\ gpios \in SUBSET Pins /\ rand \in BOOLEAN /\ sideband \in BOOLEAN /\ dev \in Device
      /\ tuned \in [freq : Nat, actLo : Int, rate : Nat, mode : Modes \cup {"NOMODE"},
                    by : {"none"} \cup Tuner]
      /\ adcrate \in Nat /\ modeRF \in Modes \cup {"NOMODE"}
  BY DEF TypeOK, Device, Tuner
<1>3. ATT_SEL \subseteq Pins
  BY DEF Pins
<1>4. Mode \in {"HFMODE", "VHFMODE"}
  BY DEF Mode, HardwareMode
<1> HIDE DEF h
<1>5. CASE PinsStep
  <2>1. h.op = "pins" /\ gpios' = (gpios \cup h.on) \ h.off
    BY <1>5, PinsTaken DEF h
  <2>2. gpios' \in SUBSET Pins
    BY <1>1, <1>2, <2>1, StepFields
  <2>3. PinsCmd(gpios') \in Device
    BY <1>2, <2>2, DeviceCommands
  <2>4. Command(PinsCmd(gpios'), TRUE) /\ UNCHANGED <<rand, sideband, tuned>>
    BY <1>5 DEF PinsStep
  <2>5. DeviceType'
    BY <2>3, <2>4, CommandType DEF DeviceType
  <2>6. QED
    BY <1>2, <2>2, <2>4, <2>5 DEF HostType
<1>6. CASE AttStep
  <2> DEFINE i == h.index
  <2>0. h.op = "att"
    BY <1>6 DEF AttStep, Done, h
  <2>1. i \in Nat
    BY <1>1, <2>0, StepFields
  <2>2. UNCHANGED <<rand, sideband, tuned>>
    BY <1>6 DEF AttStep
  <2>3. AttValue(i) \in 0 .. 63 /\ AttPins(i) \subseteq ATT_SEL
    BY <2>1, BytesFit
  <2>4. \/ Command([dev EXCEPT !.rfGain = i], FALSE) /\ UNCHANGED gpios
        \/ NoCommand /\ UNCHANGED gpios
        \/ Command([dev EXCEPT !.att = AttValue(i)], FALSE) /\ UNCHANGED gpios
        \/ gpios' = (gpios \ ATT_SEL) \cup AttPins(i) /\ Command(PinsCmd(gpios'), TRUE)
    BY <1>6 DEF AttStep, h
  <2> HIDE DEF i
  <2>5. gpios' \in SUBSET Pins
    BY <1>2, <1>3, <2>3, <2>4
  <2>6. /\ [dev EXCEPT !.rfGain = i] \in Device /\ [dev EXCEPT !.att = AttValue(i)] \in Device
        /\ PinsCmd(gpios') \in Device
    <3>1. i \in Int
      BY <2>1
    <3>2. QED
      BY <1>2, <2>3, <2>5, <3>1, DeviceCommands
  <2>7. DeviceType'
    BY <1>2, <2>4, <2>6, CommandType DEF DeviceType
  <2>8. QED
    BY <1>2, <2>2, <2>5, <2>7 DEF HostType
<1>7. CASE GainIFStep
  <2> DEFINE i == h.index
  <2>0. h.op = "gainIF"
    BY <1>7 DEF GainIFStep, Done, h
  <2>1. i \in 0 .. 127
    BY <1>1, <2>0, StepFields
  <2>2. /\ UNCHANGED <<gpios, rand, sideband, tuned>>
        /\ \/ Command(VgaGainCmd(i), FALSE) \/ NoCommand
           \/ Command([dev EXCEPT !.vga = VgaByte(i)], FALSE)
    BY <1>7 DEF GainIFStep, h
  <2> HIDE DEF i
  <2>3. VgaByte(i) \in 0 .. 255 /\ i \in Nat
    <3>1. \A j \in 0 .. 127 : VgaByte(j) \in 0 .. 255
      BY BytesFit
    <3>2. i \in Nat
      BY <2>1
    <3>3. QED
      BY <2>1, <3>1, <3>2, Zenon
  <2>4. VgaGainCmd(i) \in Device /\ [dev EXCEPT !.vga = VgaByte(i)] \in Device
    BY <1>2, <2>3, DeviceCommands
  <2>5. DeviceType'
    BY <1>2, <2>2, <2>4, CommandType DEF DeviceType
  <2>6. QED
    BY <1>2, <2>2, <2>5 DEF HostType
<1>8. CASE VgaStep
  <2>0. h.op = "vga"
    BY <1>8 DEF VgaStep, Done, h
  <2>1. h.byte \in 0 .. 255
    BY <1>1, <2>0, StepFields
  <2>2. UNCHANGED <<gpios, rand, sideband, tuned>> /\ Command([dev EXCEPT !.vga = h.byte], FALSE)
    BY <1>8 DEF VgaStep, h
  <2>3. DeviceType'
    BY <1>2, <2>1, <2>2, DeviceCommands, CommandType DEF DeviceType
  <2>4. QED
    BY <1>2, <2>2, <2>3 DEF HostType
<1>9. CASE TunerStep
  <2>1. /\ UNCHANGED <<gpios, rand, sideband, tuned>>
        /\ Command(InitCmd, FALSE) \/ Command(StdbyCmd, FALSE)
    BY <1>9 DEF TunerStep
  <2>2. DeviceType'
    BY <1>2, <2>1, DeviceCommands, CommandType DEF DeviceType
  <2>3. QED
    BY <1>2, <2>1, <2>2 DEF HostType
<1>10. CASE AdcStep
  <2>1. UNCHANGED <<gpios, rand, sideband, tuned>> /\ Command(dev, FALSE)
    BY <1>10 DEF AdcStep
  <2>2. DeviceType'
    BY <1>2, <2>1, CommandType DEF DeviceType
  <2>3. QED
    BY <1>2, <2>1, <2>2 DEF HostType
<1>11. CASE R2iqStep
  <2>1. h.value \in BOOLEAN
    BY <1>1, <1>11, StepFields DEF R2iqStep, Done, h
  <2>2. /\ UNCHANGED <<gpios, tuned>> /\ NoCommand
        /\ rand' \in {rand, h.value} /\ sideband' \in {sideband, h.value}
    BY <1>11 DEF R2iqStep, h
  <2>3. DeviceType'
    BY <1>2, <2>2, CommandType DEF DeviceType
  <2>4. rand' \in BOOLEAN /\ sideband' \in BOOLEAN
    BY <1>2, <2>1, <2>2
  <2>5. QED
    BY <1>2, <2>2, <2>3, <2>4 DEF HostType
<1>12. CASE TuneStep
  <2> DEFINE f == h.freq
  <2>1. f \in Nat /\ h.by \in Tuner
    BY <1>1, <1>12, StepFields DEF TuneStep, Done, h
  <2>2. /\ UNCHANGED <<gpios, rand, sideband>>
        /\ tuned' = [ freq |-> f, actLo |-> ActualLo(model, Mode, f), rate |-> adcrate,
                      mode |-> modeRF, by |-> h.by ]
        /\ \/ Command([dev EXCEPT !.asked = f], FALSE) \/ Command(dev, FALSE) \/ NoCommand
    BY <1>12 DEF TuneStep, h
  <2> HIDE DEF f
  <2>3. ActualLo(model, Mode, f) \in Int
    BY <1>4, <2>1, ActualLoInt
  <2>4. [dev EXCEPT !.asked = f] \in Device
    BY <1>2, <2>1, DeviceCommands
  <2>5. DeviceType'
    BY <1>2, <2>2, <2>4, CommandType DEF DeviceType
  <2>6. tuned' \in [freq : Nat, actLo : Int, rate : Nat, mode : Modes \cup {"NOMODE"},
                    by : {"none"} \cup Tuner]
    BY <1>2, <2>1, <2>2, <2>3
  <2>7. QED
    BY <1>2, <2>2, <2>5, <2>6 DEF HostType
<1>13. QED
  BY <1>5, <1>6, <1>7, <1>8, <1>9, <1>10, <1>11, <1>12 DEF Step

(* The other variables, which only calls change.                            *)
RestType ==
  /\ model \in Models /\ front \in FrontEnds
  /\ open \in BOOLEAN /\ modeRF \in Modes \cup {"NOMODE"}
  /\ flags \in [DOMAIN FlagPin -> BOOLEAN] /\ adcrate \in Nat
  /\ giAttIdx \in [Modes -> Nat] /\ giMgcIdx \in [Modes -> 0 .. 127]
  /\ gfLOfreq \in [freq : Nat, ppm : Ppms] /\ gfFreqCorrectionPpm \in Ppms
  /\ calls \in Nat /\ switched \in BOOLEAN
  /\ lastGain \in [name : {"none", "RF", "IF"}, value : Int, len : Nat, index : Int]

TypeInv == HostType /\ DeviceType /\ RestType /\ Pending \subseteq SoundStep

(* Together the parts say more than TypeOK.                                 *)
LEMMA PartsMakeTypeOK == FormInv /\ TypeInv => TypeOK /\ StepsInv
<1> SUFFICES ASSUME FormInv, TypeInv PROVE TypeOK /\ StepsInv
  OBVIOUS
<1>1. todo \in Seq(Pending)
  BY DEF FormInv, IsSteps, Pending
<1>2. Len(todo) \in Nat /\ \A i \in 1 .. Len(todo) : todo[i] \in Pending
  BY <1>1
<1>3. SoundStep \subseteq StepType
  <2>1. 0 .. 127 \subseteq Int /\ 0 .. 255 \subseteq Int /\ Nat \subseteq Int
    BY SMT
  <2>2. QED
    BY <2>1, SMT DEF SoundStep, StepType, Tuner
<1>4. \A i \in 1 .. Len(todo) : todo[i] \in StepType
  BY <1>2, <1>3 DEF TypeInv
<1>5. /\ giMgcIdx \in [Modes -> Nat]
      /\ gfLOfreq \in [freq : Nat, ppm : Int] /\ gfFreqCorrectionPpm \in Int
  BY DEF TypeInv, RestType, Ppms
<1>6. QED
  BY <1>2, <1>4, <1>5 DEF TypeInv, HostType, DeviceType, RestType, TypeOK, StepsInv, Device, Tuner

(* A switch is made of steps of its type.                                   *)
LEMMA SwitchSound == ASSUME NEW m \in Modes PROVE ElemsOf(SwitchSteps(m)) \subseteq SoundStep
<1> DEFINE s  == ModeSteps(model, m)
           up == <<Att(0), SetPins({"VHF_EN"}), Vga(VgaOfVhf), TunerInit>>
           sb == <<SetSideband(m = "VHFMODE")>>
<1>1. ATT_SEL \in SUBSET Pins /\ {"VHF_EN"} \in SUBSET Pins
  BY DEF Pins
<1>2. ElemsOf(s) \subseteq SoundStep
  <2>0. ASSUME NEW a \in SoundStep, NEW b \in SoundStep
        PROVE  ElemsOf(<<a, b>>) \subseteq SoundStep
    <3>1. ElemsOf(<<a, b>>) = {a, b}
      BY ElemsList
    <3>2. QED
      BY <3>1
  <2>1. CASE model = "BBRF103" /\ m = "VHFMODE"
    <3>1. s = <<UnsetPins(ATT_SEL), TunerInit>>
      BY <2>1 DEF ModeSteps
    <3>2. UnsetPins(ATT_SEL) \in SoundStep /\ TunerInit \in SoundStep
      BY <1>1, StepsMade
    <3> HIDE DEF s
    <3>3. QED
      BY <2>0, <3>1, <3>2
  <2>2. CASE model = "BBRF103" /\ m # "VHFMODE"
    <3>1. s = <<TunerStdby, SetPins(ATT_SEL)>>
      BY <2>2 DEF ModeSteps
    <3>2. TunerStdby \in SoundStep /\ SetPins(ATT_SEL) \in SoundStep
      BY <1>1, StepsMade
    <3> HIDE DEF s
    <3>3. QED
      BY <2>0, <3>1, <3>2
  <2>3. CASE model # "BBRF103" /\ m # "VHFMODE"
    <3>1. s = <<TunerStdby, UnsetPins({"VHF_EN"})>>
      BY <2>3 DEF ModeSteps
    <3>2. TunerStdby \in SoundStep /\ UnsetPins({"VHF_EN"}) \in SoundStep
      BY <1>1, StepsMade
    <3> HIDE DEF s
    <3>3. QED
      BY <2>0, <3>1, <3>2
  <2>4. CASE model # "BBRF103" /\ m = "VHFMODE"
    <3>1. s = up
      BY <2>4 DEF ModeSteps
    <3>2. ElemsOf(up) = {Att(0), SetPins({"VHF_EN"}), Vga(VgaOfVhf), TunerInit}
      BY ElemsList
    <3>3. /\ Att(0) \in SoundStep /\ SetPins({"VHF_EN"}) \in SoundStep
          /\ Vga(VgaOfVhf) \in SoundStep /\ TunerInit \in SoundStep
      BY <1>1, StepsMade, BytesFit
    <3> HIDE DEF s, up
    <3>4. QED
      BY <3>1, <3>2, <3>3
  <2>5. QED
    BY <2>1, <2>2, <2>3, <2>4
<1>3. IsSteps(s)
  BY SwitchElems
<1>4. IsSteps(sb) /\ ElemsOf(sb) = {SetSideband(m = "VHFMODE")}
  BY ElemsList
<1>5. SetSideband(m = "VHFMODE") \in SoundStep
  BY StepsMade
<1>6. SwitchSteps(m) = IF modeRF = m THEN <<>> ELSE s \o sb
  BY DEF SwitchSteps
<1> HIDE DEF s, sb, up
<1>7. ElemsOf(s \o sb) \subseteq SoundStep
  BY <1>2, <1>3, <1>4, <1>5, ElemsCat
<1>8. QED
  BY <1>6, <1>7, ElemsList

(* What SetHWLOdbl tunes.                                                   *)
LoFor(f) == Corrected(Exactly(f), gfFreqCorrectionPpm)

(* It is a frequency, and the one the plug-in remembers.                    *)
LEMMA LoForKept ==
  ASSUME RestType, NEW f \in Freqs
  PROVE  /\ f \in Nat /\ LoFor(f) \in Nat
         /\ Corrected([freq |-> LoFor(f), ppm |-> gfFreqCorrectionPpm], gfFreqCorrectionPpm) = LoFor(f)
<1>1. f \in Nat /\ gfFreqCorrectionPpm \in Ppms
  BY ControlAssumption DEF RestType
<1>2. LoFor(f) \in Nat
  BY <1>1, CorrectedOrder DEF LoFor
<1>3. QED
  BY <1>1, <1>2, CorrectedTwice

(* The steps SetOverclock ends with.                                        *)
LEMMA OverclockElems ==
  ASSUME NEW r, NEW p, todo' = OverclockSteps(r, p)
  PROVE  /\ Pending' = {StartAdc(r), Tune(Corrected(gfLOfreq, p), "SetOverclock")}
         /\ StartAdc(r).op = "adc" /\ Tune(Corrected(gfLOfreq, p), "SetOverclock").op = "tune"
         /\ Tune(Corrected(gfLOfreq, p), "SetOverclock").freq = Corrected(gfLOfreq, p)
         /\ Tune(Corrected(gfLOfreq, p), "SetOverclock").by = "SetOverclock"
<1> DEFINE x == StartAdc(r)
           y == Tune(Corrected(gfLOfreq, p), "SetOverclock")
<1>1. todo' = <<x, y>>
  BY DEF OverclockSteps
<1>2. x.op = "adc" /\ y.op = "tune" /\ y.freq = Corrected(gfLOfreq, p) /\ y.by = "SetOverclock"
  BY DEF StartAdc, Tune
<1> HIDE DEF x, y
<1>3. Pending' = {x, y}
  BY <1>1, ElemsList DEF Pending
<1>4. QED
  BY <1>2, <1>3 DEF x, y

(* The steps of SetHWLOdbl.                                                 *)
LEMMA SetHWLOElems ==
  ASSUME NEW f \in Freqs, SetHWLOdbl(f)
  PROVE  LET m == PrepareLo(model, f, adcrate) IN
         IF m = "NOMODE" THEN Pending' = {}
         ELSE /\ m \in Modes
              /\ Pending' = ElemsOf(SwitchSteps(m)) \cup {Tune(LoFor(f), "SetHWLO")}
                   \cup (IF modeRF = m THEN {} ELSE {GainIF(giMgcIdx[m]), Att(giAttIdx[m])})
<1> DEFINE m    == PrepareLo(model, f, adcrate)
           mid  == IF modeRF = m THEN <<>> ELSE Settings(m)
           midSet == IF modeRF = m THEN {} ELSE {GainIF(giMgcIdx[m]), Att(giAttIdx[m])}
           last == <<Tune(LoFor(f), "SetHWLO")>>
<1>1. CASE m = "NOMODE"
  <2>1. todo' = <<>>
    BY <1>1 DEF SetHWLOdbl, Call
  <2>2. QED
    BY <1>1, <2>1, ElemsList DEF Pending
<1>2. CASE m # "NOMODE"
  <2>1. m \in Modes
    BY <1>2 DEF PrepareLo, Modes
  <2>2. todo' = (SwitchSteps(m) \o mid) \o last
    BY <1>2 DEF SetHWLOdbl, LoFor
  <2>3. IsSteps(mid) /\ ElemsOf(mid) = midSet
    BY ElemsList DEF Settings
  <2>4. IsSteps(last) /\ ElemsOf(last) = {Tune(LoFor(f), "SetHWLO")}
    BY ElemsList
  <2> HIDE DEF m, mid, last, midSet
  <2>5. /\ IsSteps(SwitchSteps(m) \o mid)
        /\ ElemsOf(SwitchSteps(m) \o mid) = ElemsOf(SwitchSteps(m)) \cup midSet
    BY <2>1, <2>3, SwitchList, ElemsCat
  <2>6. Pending' = ElemsOf(SwitchSteps(m)) \cup midSet \cup {Tune(LoFor(f), "SetHWLO")}
    BY <2>2, <2>4, <2>5, ElemsCat DEF Pending
  <2>7. QED
    BY <1>2, <2>1, <2>6 DEF m, midSet
<1>3. QED
  BY <1>1, <1>2

(* The index setGain finds is one of the list, or the last of the RF list.  *)
LEMMA GainIndexRange ==
  ASSUME NEW r \in 1 .. 128, NEW n \in 0 .. 128, NEW v \in Int
  PROVE  GainIndex(r, n, v) \in 0 .. 127
<1> DEFINE P(i) == 2 * (i - 1) <= v /\ v < 2 * i
           c == CHOOSE i \in 1 .. n - 1 : P(i)
<1>1. CASE \E i \in 1 .. n - 1 : P(i)
  <2>1. c \in 1 .. n - 1 /\ GainIndex(r, n, v) = c - 1
    BY <1>1 DEF GainIndex
  <2> HIDE DEF c
  <2>2. QED
    BY <2>1, SMT
<1>2. CASE ~ \E i \in 1 .. n - 1 : P(i)
  <2>1. GainIndex(r, n, v) = r - 1
    BY <1>2 DEF GainIndex
  <2>2. QED
    BY <2>1, SMT
<1>3. QED
  BY <1>1, <1>2

(* What a call leaves alone of what it does not type-check.                 *)
Unaltered == /\ UNCHANGED <<model, front, dev, faults>>
             /\ \/ UNCHANGED <<rand, sideband, tuned>>
                \/ rand' = FALSE /\ sideband' = FALSE /\ tuned' = NotTuned /\ switched' = FALSE
             /\ calls' = calls + 1 /\ gpios' \in {gpios, {}}
             /\ clean' \in {clean, TRUE} /\ gpioOk' \in {gpioOk, FALSE}

(* What each call leaves alone.                                             *)
LEMMA CallUnaltered == ASSUME Next, ~Step PROVE Unaltered
<1> USE DEF Unaltered, Call
<1>1. ASSUME NEW f \in Freqs, SetHWLOdbl(f) PROVE Unaltered
  BY <1>1 DEF SetHWLOdbl, Switch
<1>2. ASSUME NEW f \in Freqs, TuneLO(f) PROVE Unaltered
  BY <1>2 DEF TuneLO, host, ghost
<1>3. ASSUME NEW i \in AttIndices, SetAttenuator(i) PROVE Unaltered
  BY <1>3 DEF SetAttenuator, host, ghost
<1>4. ASSUME NEW i \in MgcIndices, ExtIoSetMGC(i) PROVE Unaltered
  BY <1>4 DEF ExtIoSetMGC, host, ghost
<1>5. ASSUME NEW r \in Rates, SetOverclock(r) PROVE Unaltered
  BY <1>5 DEF SetOverclock, ghost
<1>6. ASSUME NEW f \in Flags, NEW b \in BOOLEAN, UptFlag(f, b) PROVE Unaltered
  BY <1>6 DEF UptFlag, ghost
<1>7. CASE CloseHW
  BY <1>7 DEF CloseHW, ghost
<1>8. CASE InitHW
  BY <1>8 DEF InitHW
<1>9. ASSUME NEW m \in Modes, UpdatemodeRF(m) PROVE Unaltered
  BY <1>9 DEF UpdatemodeRF, Switch
<1>10. ASSUME NEW n \in {"RF", "IF"}, NEW v \in GainValues, setGain(n, v) PROVE Unaltered
  BY <1>10 DEF setGain, host
<1>11. ASSUME NEW p \in Corrections, SetPPMvalue(p) PROVE Unaltered
  BY <1>11 DEF SetPPMvalue, host, ghost
<1>12. QED
  BY <1>1, <1>2, <1>3, <1>4, <1>5, <1>6, <1>7, <1>8, <1>9, <1>10, <1>11 DEF Next

(* A call that makes one step.                                              *)
LEMMA OneElem == ASSUME NEW s \in SoundStep, todo' = <<s>> PROVE Pending' \subseteq SoundStep
<1>1. Pending' = {s}
  BY ElemsList DEF Pending
<1>2. QED
  BY <1>1

(* The variables only calls change, and the steps a call begins with.       *)
LEMMA CallKeepsRest ==
  ASSUME TypeInv, FormInv, Next, ~Step
  PROVE  RestType' /\ Pending' \subseteq SoundStep
<1> DEFINE Goal == RestType' /\ Pending' \subseteq SoundStep
<1>0. UNCHANGED <<model, front>> /\ calls' = calls + 1
  BY CallUnaltered DEF Unaltered
<1>t. /\ model \in Models /\ front \in FrontEnds
      /\ open \in BOOLEAN /\ modeRF \in Modes \cup {"NOMODE"}
      /\ flags \in [DOMAIN FlagPin -> BOOLEAN] /\ adcrate \in Nat
      /\ giAttIdx \in [Modes -> Nat] /\ giMgcIdx \in [Modes -> 0 .. 127]
      /\ gfLOfreq \in [freq : Nat, ppm : Ppms] /\ gfFreqCorrectionPpm \in Ppms
      /\ calls' \in Nat /\ switched \in BOOLEAN
      /\ lastGain \in [name : {"none", "RF", "IF"}, value : Int, len : Nat, index : Int]
  BY <1>0 DEF TypeInv, RestType
<1>a. /\ Freqs \subseteq Nat /\ Rates \subseteq Nat /\ AttIndices \subseteq Nat
      /\ MgcIndices \subseteq 0 .. 127 /\ GainValues \subseteq Int
  BY ControlAssumption
<1>m. HandlerMode \in Modes
  BY DEF HandlerMode, Modes
<1>1. ASSUME NEW f \in Freqs, SetHWLOdbl(f) PROVE Goal
  <2> DEFINE m == PrepareLo(model, f, adcrate)
  <2>0. LoFor(f) \in Nat
    BY LoForKept DEF TypeInv
  <2>1. UNCHANGED <<open, flags, adcrate, giAttIdx, giMgcIdx, gfFreqCorrectionPpm, lastGain>>
    BY <1>1 DEF SetHWLOdbl
  <2>2. /\ gfLOfreq' \in {gfLOfreq, [freq |-> LoFor(f), ppm |-> gfFreqCorrectionPpm]}
        /\ switched' \in {switched, TRUE} /\ modeRF' \in {modeRF, m}
    BY <1>1 DEF SetHWLOdbl, Switch, LoFor
  <2>b. gfLOfreq' \in [freq : Nat, ppm : Ppms]
    BY <1>t, <2>0, <2>2
  <2>3. m \in Modes \cup {"NOMODE"}
    BY DEF PrepareLo, Modes
  <2>4. Tune(LoFor(f), "SetHWLO") \in SoundStep
    BY <2>0, StepsMade DEF Tuner
  <2>5. CASE m = "NOMODE"
    <3>1. Pending' = {}
      BY <1>1, <2>5, SetHWLOElems
    <3>2. QED
      BY <1>0, <1>t, <2>1, <2>2, <2>b, <2>3, <3>1 DEF RestType
  <2>6. CASE m # "NOMODE"
    <3>1. /\ m \in Modes
          /\ Pending' = ElemsOf(SwitchSteps(m)) \cup {Tune(LoFor(f), "SetHWLO")}
                   \cup (IF modeRF = m THEN {} ELSE {GainIF(giMgcIdx[m]), Att(giAttIdx[m])})
      BY <1>1, <2>6, SetHWLOElems
    <3> HIDE DEF m
    <3>2. ElemsOf(SwitchSteps(m)) \subseteq SoundStep
      BY <3>1, SwitchSound
    <3>3. giMgcIdx[m] \in 0 .. 127 /\ giAttIdx[m] \in Nat
      BY <1>t, <3>1
    <3>4. GainIF(giMgcIdx[m]) \in SoundStep /\ Att(giAttIdx[m]) \in SoundStep
      BY <3>3, StepsMade
    <3>5. Pending' \subseteq SoundStep
      BY <2>4, <3>1, <3>2, <3>4
    <3>6. QED
      BY <1>0, <1>t, <2>1, <2>2, <2>b, <2>3, <3>5 DEF RestType
  <2>7. QED
    BY <2>5, <2>6
<1>2. ASSUME NEW f \in Freqs, TuneLO(f) PROVE Goal
  <2>1. Tune(f, "TuneLO") \in SoundStep
    BY <1>a, StepsMade DEF Tuner
  <2>2. Pending' \subseteq SoundStep
    BY <1>2, <2>1, OneElem DEF TuneLO
  <2>3. QED
    BY <1>0, <1>2, <1>t, <2>2 DEF TuneLO, RestType, host, extio, ghost
<1>3. ASSUME NEW i \in AttIndices, SetAttenuator(i) PROVE Goal
  <2>1. Att(i) \in SoundStep
    BY <1>a, StepsMade
  <2>2. Pending' \subseteq SoundStep
    BY <1>3, <2>1, OneElem DEF SetAttenuator
  <2>3. giAttIdx' \in [Modes -> Nat]
    BY <1>3, <1>a, <1>t, <1>m DEF SetAttenuator
  <2>4. QED
    BY <1>0, <1>3, <1>t, <2>2, <2>3 DEF SetAttenuator, RestType, host, ghost
<1>4. ASSUME NEW i \in MgcIndices, ExtIoSetMGC(i) PROVE Goal
  <2>1. GainIF(i) \in SoundStep
    BY <1>a, StepsMade
  <2>2. Pending' \subseteq SoundStep
    BY <1>4, <2>1, OneElem DEF ExtIoSetMGC
  <2>3. giMgcIdx' \in [Modes -> 0 .. 127]
    BY <1>4, <1>a, <1>t, <1>m DEF ExtIoSetMGC
  <2>4. QED
    BY <1>0, <1>4, <1>t, <2>2, <2>3 DEF ExtIoSetMGC, RestType, host, ghost
<1>o. ASSUME NEW r \in Nat, NEW p \in Ppms, todo' = OverclockSteps(r, p)
      PROVE  Pending' \subseteq SoundStep
  <2>1. Corrected(gfLOfreq, p) \in Nat
    BY <1>t, CorrectedNat
  <2>2. StartAdc(r) \in SoundStep /\ Tune(Corrected(gfLOfreq, p), "SetOverclock") \in SoundStep
    BY <2>1, StepsMade DEF Tuner
  <2>3. QED
    BY <1>o, <2>2, OverclockElems
<1>5. ASSUME NEW r \in Rates, SetOverclock(r) PROVE Goal
  <2>1. Pending' \subseteq SoundStep
    BY <1>5, <1>a, <1>o, <1>t DEF SetOverclock
  <2>2. QED
    BY <1>0, <1>5, <1>a, <1>t, <2>1 DEF SetOverclock, RestType, extio, ghost
<1>p. ASSUME NEW p \in Corrections, SetPPMvalue(p) PROVE Goal
  <2>1. p \in Ppms
    BY CorrectionsSound
  <2>2. Pending' \subseteq SoundStep
    BY <1>p, <1>o, <1>t, <2>1 DEF SetPPMvalue
  <2>3. QED
    BY <1>0, <1>p, <1>t, <2>1, <2>2 DEF SetPPMvalue, RestType, host, ghost
<1>6. ASSUME NEW f \in Flags, NEW b \in BOOLEAN, UptFlag(f, b) PROVE Goal
  <2>1. f \in DOMAIN FlagPin /\ {FlagPin[f]} \in SUBSET Pins
    BY FlagsHavePins DEF Pins
  <2>2. FlagStep(f, b) \in SoundStep /\ SetRand(b) \in SoundStep
    BY <2>1, StepsMade DEF FlagStep
  <2>3. Pending' \subseteq {FlagStep(f, b), SetRand(b)} /\ flags' = [flags EXCEPT ![f] = b]
    BY <1>6, FlagList
  <2>4. flags' \in [DOMAIN FlagPin -> BOOLEAN]
    BY <1>t, <2>1, <2>3
  <2>5. QED
    BY <1>0, <1>6, <1>t, <2>2, <2>3, <2>4 DEF UptFlag, RestType, extio, ghost
<1>7. CASE CloseHW
  <2>1. {"SHDWN"} \in SUBSET Pins
    BY DEF Pins
  <2>2. Pending' \subseteq SoundStep
    BY <1>7, <2>1, StepsMade, OneElem DEF CloseHW
  <2>3. QED
    BY <1>0, <1>7, <1>t, <2>2 DEF CloseHW, RestType, extio, ghost
<1>8. CASE InitHW
  <2>1. Pending' \subseteq SoundStep
    BY <1>8, <1>t, StepsMade, OneElem DEF InitHW
  <2>2. QED
    BY <1>0, <1>8, <1>t, <2>1 DEF InitHW, RestType, extio
<1>9. ASSUME NEW m \in Modes, UpdatemodeRF(m) PROVE Goal
  <2>1. Pending' = ElemsOf(SwitchSteps(m))
    BY <1>9 DEF UpdatemodeRF, Pending
  <2>2. modeRF' \in {modeRF, m} /\ switched' \in {switched, TRUE}
    BY <1>9 DEF UpdatemodeRF, Switch
  <2>3. QED
    BY <1>0, <1>9, <1>t, <2>1, <2>2, SwitchSound DEF UpdatemodeRF, RestType, extio
<1>10. ASSUME NEW n \in {"RF", "IF"}, NEW v \in GainValues, setGain(n, v) PROVE Goal
  <2> DEFINE rfLen == RFSteps(model, Mode)
             len   == IF n = "RF" THEN rfLen ELSE IFSteps(model, Mode)
             index == GainIndex(rfLen, len, v)
  <2>1. rfLen \in 1 .. 128 /\ len \in 0 .. 128
    BY SMT DEF RFSteps, IFSteps, hf_rf_step_size
  <2>2. v \in Int
    BY <1>a
  <2>3. /\ todo' = <<IF n = "RF" THEN Att(index) ELSE GainIF(index)>>
        /\ lastGain' = [name |-> n, value |-> v, len |-> len, index |-> index]
        /\ UNCHANGED <<host, extio, switched>>
    BY <1>10 DEF setGain
  <2> HIDE DEF rfLen, len
  <2>4. index \in 0 .. 127
    BY <2>1, <2>2, GainIndexRange
  <2> HIDE DEF index
  <2>5. index \in Nat /\ index \in Int /\ len \in Nat
    BY <2>1, <2>4
  <2>6. (IF n = "RF" THEN Att(index) ELSE GainIF(index)) \in SoundStep
    BY <2>4, <2>5, StepsMade
  <2>7. Pending' \subseteq SoundStep
    BY <2>3, <2>6, OneElem
  <2>8. lastGain' \in [name : {"none", "RF", "IF"}, value : Int, len : Nat, index : Int]
    BY <2>2, <2>3, <2>5
  <2>9. QED
    BY <1>0, <1>t, <2>3, <2>7, <2>8 DEF RestType, host, extio
<1>11. QED
  BY <1>1, <1>2, <1>3, <1>4, <1>5, <1>p, <1>6, <1>7, <1>8, <1>9, <1>10 DEF Next

(* The types are kept.                                                      *)
LEMMA TypesHold ==
  ASSUME TypeInv, FormInv, [Next]_vars
  PROVE  TypeInv'
<1>1. CASE UNCHANGED vars
  BY <1>1 DEF vars, host, extio, ghost, TypeInv, HostType, DeviceType, RestType, Pending
<1>2. CASE Step
  <2>1. HostType' /\ DeviceType'
    BY <1>2, PartsMakeTypeOK, StepKeepsTypes
  <2>2. Pending' \subseteq SoundStep
    BY <1>2, StepTakes DEF TypeInv
  <2>3. UNCHANGED <<model, front, open, modeRF, flags, adcrate, extio, calls, switched, lastGain>>
    BY <1>2, StepLeaves
  <2>4. RestType'
    BY <2>3 DEF TypeInv, RestType, extio
  <2>5. QED
    BY <2>1, <2>2, <2>4 DEF TypeInv
<1>3. CASE Next /\ ~Step
  <2>1. RestType' /\ Pending' \subseteq SoundStep
    BY <1>3, CallKeepsRest
  <2>2. DeviceType'
    BY <1>3, CallUnaltered DEF Unaltered, TypeInv, DeviceType
  <2>3. NotTuned \in [freq : Nat, actLo : Int, rate : Nat, mode : Modes \cup {"NOMODE"},
                      by : {"none"} \cup Tuner]
    BY DEF NotTuned
  <2>4. HostType'
    BY <1>3, <2>3, CallUnaltered DEF Unaltered, TypeInv, HostType
  <2>5. QED
    BY <2>1, <2>2, <2>4 DEF TypeInv
<1>4. QED
  BY <1>1, <1>2, <1>3

(* Nothing is pending at the start and the device is off.                   *)
LEMMA InitTypes == Init => TypeInv
<1> SUFFICES ASSUME Init PROVE TypeInv
  OBVIOUS
<1>1. Pending = {}
  BY ElemsList DEF Init, Pending
<1>2. HostType
  <2>1. NotTuned \in [freq : Nat, actLo : Int, rate : Nat, mode : Modes \cup {"NOMODE"},
                     by : {"none"} \cup Tuner]
    BY DEF NotTuned
  <2>2. QED
    BY <2>1 DEF Init, HostType
<1>3. DeviceType
  <2>1. None \in Int
    BY DEF None
  <2>2. PowerOn \in Device
    BY <2>1 DEF PowerOn, Device
  <2>3. QED
    BY <2>2 DEF Init, DeviceType
<1>4. RestType
  <2>1. NoGain \in [name : {"none", "RF", "IF"}, value : Int, len : Nat, index : Int]
    BY DEF NoGain
  <2>2. 64000 \in Nat /\ 2000 \in Nat /\ 0 \in 0 .. 127
    OBVIOUS
  <2>3. giAttIdx \in [Modes -> Nat] /\ giMgcIdx \in [Modes -> 0 .. 127]
    BY <2>2 DEF Init
  <2>4. flags \in [DOMAIN FlagPin -> BOOLEAN]
    BY DEF Init
  <2>5. adcrate \in Nat /\ calls \in Nat
    BY <2>2 DEF Init, DEFAULT_ADC_FREQ
  <2>a. gfLOfreq \in [freq : Nat, ppm : Ppms] /\ gfFreqCorrectionPpm \in Ppms
    BY <2>2, CorrectionsSound DEF Init, Exactly
  <2>6. QED
    BY <2>1, <2>3, <2>4, <2>5, <2>a DEF Init, RestType
<1>5. QED
  BY <1>1, <1>2, <1>3, <1>4 DEF TypeInv

(* RadioControl's TypeOK: every byte sent to the device is one, every index *)
(* and pin is one the device has, for any indices and gains asked for.      *)
THEOREM TypeCorrect == Spec => []TypeOK
<1>1. IInv /\ TypeInv /\ [Next]_vars => TypeInv'
  BY TypesHold DEF IInv
<1>2. IInv /\ TypeInv => TypeOK
  BY PartsMakeTypeOK DEF IInv
<1>3. QED
  BY <1>1, <1>2, InitTypes, Invariance, PTL DEF Spec

-----------------------------------------------------------------------------
(* The order of the steps of a call, counted from the last                  *)

FromEnd(s, k) == s[Len(s) + 1 - k]

(* Taking the first step leaves the others where they are from the end.     *)
LEMMA EndTail ==
  ASSUME NEW s, IsSteps(s), s # <<>>
  PROVE  /\ Len(s) \in Nat /\ Len(s) > 0 /\ Len(Tail(s)) = Len(s) - 1
         /\ Head(s) = FromEnd(s, Len(s))
         /\ \A k \in 1 .. Len(s) - 1 : FromEnd(Tail(s), k) = FromEnd(s, k)
<1> DEFINE S == ElemsOf(s)
           t == Tail(s)
<1>1. s \in Seq(S)
  BY DEF IsSteps
<1>2. Len(s) \in Nat /\ Len(s) > 0 /\ DOMAIN s = 1 .. Len(s) /\ Head(s) = s[1]
  BY <1>1
<1>3. t \in Seq(S) /\ Len(t) = Len(s) - 1 /\ \A i \in 1 .. Len(s) - 1 : t[i] = s[i + 1]
  BY <1>1, <1>2
<1> HIDE DEF t
<1>4. ASSUME NEW k \in 1 .. Len(s) - 1 PROVE FromEnd(t, k) = FromEnd(s, k)
  <2>1. Len(s) - k \in 1 .. Len(s) - 1 /\ Len(t) + 1 - k = Len(s) - k
    BY <1>2, <1>3
  <2>2. (Len(s) - k) + 1 = Len(s) + 1 - k
    BY <1>2
  <2>3. QED
    BY <1>3, <2>1, <2>2 DEF FromEnd
<1>5. Len(s) + 1 - Len(s) = 1
  BY <1>2
<1>6. QED
  BY <1>2, <1>3, <1>4, <1>5 DEF FromEnd, t

(* Two lists joined.                                                        *)
LEMMA EndCat ==
  ASSUME NEW s, NEW t, IsSteps(s), IsSteps(t)
  PROVE  /\ Len(s) \in Nat /\ Len(t) \in Nat /\ Len(s \o t) = Len(s) + Len(t)
         /\ \A k \in 1 .. Len(t) : FromEnd(s \o t, k) = FromEnd(t, k)
         /\ \A k \in Len(t) + 1 .. Len(s) + Len(t) : FromEnd(s \o t, k) = FromEnd(s, k - Len(t))
<1> DEFINE S == ElemsOf(s) \cup ElemsOf(t)
           u == s \o t
           n == Len(s)
           m == Len(t)
<1>1. s \in Seq(S) /\ t \in Seq(S)
  BY DEF IsSteps
<1>2. n \in Nat /\ m \in Nat /\ Len(u) = n + m
  BY <1>1
<1>3. /\ \A i \in 1 .. n : u[i] = s[i]
      /\ \A i \in n + 1 .. n + m : u[i] = t[i - n]
  BY <1>1, <1>2
<1> HIDE DEF u, n, m
<1>4. ASSUME NEW k \in 1 .. m PROVE FromEnd(u, k) = FromEnd(t, k)
  <2>1. n + m + 1 - k \in n + 1 .. n + m /\ (n + m + 1 - k) - n = m + 1 - k
    BY <1>2
  <2>2. QED
    BY <1>2, <1>3, <2>1 DEF FromEnd, m
<1>5. ASSUME NEW k \in m + 1 .. n + m PROVE FromEnd(u, k) = FromEnd(s, k - m)
  <2>1. n + m + 1 - k \in 1 .. n /\ n + m + 1 - k = n + 1 - (k - m)
    BY <1>2
  <2>2. u[n + m + 1 - k] = s[n + 1 - (k - m)]
    BY <1>3, <2>1
  <2>3. QED
    BY <1>2, <2>2 DEF FromEnd, n
<1>6. QED
  BY <1>2, <1>4, <1>5 DEF u, n, m

(* Lists written out.                                                       *)
LEMMA EndList ==
  /\ Len(<<>>) = 0
  /\ \A a : Len(<<a>>) = 1 /\ FromEnd(<<a>>, 1) = a
  /\ \A a, b : Len(<<a, b>>) = 2 /\ FromEnd(<<a, b>>, 1) = b /\ FromEnd(<<a, b>>, 2) = a
  /\ \A a, b, c, d : /\ Len(<<a, b, c, d>>) = 4
                     /\ FromEnd(<<a, b, c, d>>, 1) = d /\ FromEnd(<<a, b, c, d>>, 2) = c
                     /\ FromEnd(<<a, b, c, d>>, 3) = b /\ FromEnd(<<a, b, c, d>>, 4) = a
<1>1. \A a : Len(<<a>>) = 1 /\ FromEnd(<<a>>, 1) = a
  BY DEF FromEnd
<1>2. \A a, b : Len(<<a, b>>) = 2 /\ FromEnd(<<a, b>>, 1) = b /\ FromEnd(<<a, b>>, 2) = a
  BY DEF FromEnd
<1>3. \A a, b, c, d : /\ Len(<<a, b, c, d>>) = 4
                      /\ FromEnd(<<a, b, c, d>>, 1) = d /\ FromEnd(<<a, b, c, d>>, 2) = c
                      /\ FromEnd(<<a, b, c, d>>, 3) = b /\ FromEnd(<<a, b, c, d>>, 4) = a
  BY DEF FromEnd
<1>4. QED
  BY <1>1, <1>2, <1>3

-----------------------------------------------------------------------------
(* The tuning is the last step of a call                                    *)

TuneIsLast(s) == \A k \in 1 .. Len(s) : FromEnd(s, k).op = "tune" => k = 1
TuneLast == TuneIsLast(todo)

(* Lists that end with the tuning, or have none.                            *)
LEMMA TuneLists ==
  /\ TuneIsLast(<<>>)
  /\ \A a : TuneIsLast(<<a>>)
  /\ \A s : IsSteps(s) /\ (\A x \in ElemsOf(s) : x.op # "tune")
              => TuneIsLast(s) /\ \A a : TuneIsLast(s \o <<a>>)
<1>1. TuneIsLast(<<>>) /\ \A a : TuneIsLast(<<a>>)
  BY EndList DEF TuneIsLast
<1>2. ASSUME NEW s, IsSteps(s), \A x \in ElemsOf(s) : x.op # "tune"
      PROVE  TuneIsLast(s) /\ \A a : TuneIsLast(s \o <<a>>)
  <2>1. Len(s) \in Nat /\ DOMAIN s = 1 .. Len(s)
    <3>1. s \in Seq(ElemsOf(s))
      BY <1>2 DEF IsSteps
    <3>2. QED
      BY <3>1
  <2>2. ASSUME NEW k \in 1 .. Len(s) PROVE FromEnd(s, k).op # "tune"
    <3>1. Len(s) + 1 - k \in 1 .. Len(s)
      BY <2>1
    <3>2. FromEnd(s, k) \in ElemsOf(s)
      BY <2>1, <3>1 DEF FromEnd, ElemsOf
    <3>3. QED
      BY <1>2, <3>2
  <2>3. ASSUME NEW a PROVE TuneIsLast(s \o <<a>>)
    <3> DEFINE t == <<a>>
    <3>1. IsSteps(t) /\ Len(t) = 1
      BY ElemsList, EndList
    <3> HIDE DEF t
    <3>2. /\ Len(s \o t) = Len(s) + 1
          /\ \A k \in 1 + 1 .. Len(s) + 1 : FromEnd(s \o t, k) = FromEnd(s, k - 1)
      <4>1. /\ Len(s \o t) = Len(s) + Len(t)
            /\ \A k \in Len(t) + 1 .. Len(s) + Len(t) : FromEnd(s \o t, k) = FromEnd(s, k - Len(t))
        BY <1>2, <3>1, EndCat
      <4>2. QED
        BY <3>1, <4>1
    <3>3. ASSUME NEW k \in 1 .. Len(s \o t), k # 1 PROVE FromEnd(s \o t, k).op # "tune"
      <4>1. k \in 1 + 1 .. Len(s) + 1 /\ k - 1 \in 1 .. Len(s)
        BY <2>1, <3>2, <3>3
      <4>2. QED
        BY <2>2, <3>2, <4>1
    <3>4. QED
      BY <3>3 DEF TuneIsLast, t
  <2>4. QED
    BY <2>2, <2>3 DEF TuneIsLast
<1>3. QED
  BY <1>1, <1>2

(* A switch of mode tunes nothing.                                          *)
LEMMA SwitchTunesNothing ==
  ASSUME NEW m \in Modes
  PROVE  \A s \in ElemsOf(SwitchSteps(m)) : s.op # "tune"
<1> DEFINE sb == <<SetSideband(m = "VHFMODE")>>
<1>1. IsSteps(sb) /\ ElemsOf(sb) = {SetSideband(m = "VHFMODE")}
  BY ElemsList
<1>2. SetSideband(m = "VHFMODE").op = "sideband"
  BY DEF SetSideband
<1>3. SwitchSteps(m) = IF modeRF = m THEN <<>> ELSE ModeSteps(model, m) \o sb
  BY DEF SwitchSteps
<1> HIDE DEF sb
<1>4. /\ IsSteps(ModeSteps(model, m))
      /\ \A s \in ElemsOf(ModeSteps(model, m)) : s.op # "tune"
  BY SwitchElems
<1>5. ElemsOf(ModeSteps(model, m) \o sb) = ElemsOf(ModeSteps(model, m)) \cup ElemsOf(sb)
  BY <1>1, <1>4, ElemsCat
<1>6. QED
  BY <1>1, <1>2, <1>3, <1>4, <1>5, ElemsList

(* Of what a call has left, only the last tunes.                            *)
LEMMA TuneLastHolds ==
  ASSUME FormInv, TuneLast, [Next]_vars
  PROVE  TuneLast'
<1>0. /\ \A i : Att(i).op = "att" /\ GainIF(i).op = "gainIF" /\ StartAdc(i).op = "adc"
      /\ \A f, b : FlagStep(f, b).op = "pins" /\ SetRand(b).op = "rand"
  BY DEF Att, GainIF, StartAdc, FlagStep, SetPins, UnsetPins, SetRand
<1>1. CASE UNCHANGED vars
  BY <1>1 DEF vars, TuneLast
<1>2. CASE Step
  <2>1. todo # <<>> /\ todo' = Tail(todo) /\ IsSteps(todo)
    BY <1>2, StepFrame DEF FormInv
  <2>2. /\ Len(todo') = Len(todo) - 1 /\ Len(todo) \in Nat
        /\ \A k \in 1 .. Len(todo) - 1 : FromEnd(todo', k) = FromEnd(todo, k)
    BY <2>1, EndTail
  <2>3. \A k \in 1 .. Len(todo) - 1 : k \in 1 .. Len(todo)
    BY <2>2
  <2>4. \A k \in 1 .. Len(todo') : FromEnd(todo', k).op = "tune" => k = 1
    BY <2>2, <2>3 DEF TuneLast, TuneIsLast
  <2>5. QED
    BY <2>4 DEF TuneLast, TuneIsLast
<1>3. ASSUME NEW f \in Freqs, SetHWLOdbl(f) PROVE TuneLast'
  <2> DEFINE m   == PrepareLo(model, f, adcrate)
             mid == IF modeRF = m THEN <<>> ELSE Settings(m)
  <2>1. CASE m = "NOMODE"
    BY <1>3, <2>1 DEF SetHWLOdbl, TuneLast
  <2>2. CASE m # "NOMODE"
    <3>1. m \in Modes
      BY <2>2 DEF PrepareLo, Modes
    <3>2. todo' = (SwitchSteps(m) \o mid) \o <<Tune(LoFor(f), "SetHWLO")>>
      BY <1>3, <2>2 DEF SetHWLOdbl, LoFor
    <3>3. IsSteps(mid) /\ ElemsOf(mid) \subseteq {GainIF(giMgcIdx[m]), Att(giAttIdx[m])}
      BY ElemsList DEF Settings
    <3> HIDE DEF m, mid
    <3>4. /\ IsSteps(SwitchSteps(m) \o mid)
          /\ ElemsOf(SwitchSteps(m) \o mid) = ElemsOf(SwitchSteps(m)) \cup ElemsOf(mid)
      BY <3>1, <3>3, SwitchList, ElemsCat
    <3>5. \A x \in ElemsOf(SwitchSteps(m) \o mid) : x.op # "tune"
      BY <1>0, <3>1, <3>3, <3>4, SwitchTunesNothing
    <3>6. QED
      BY <3>2, <3>4, <3>5, TuneLists DEF TuneLast
  <2>3. QED
    BY <2>1, <2>2
<1>4. ASSUME NEW s, todo' = <<s>> PROVE TuneLast'
  BY <1>4, TuneLists DEF TuneLast
<1>5. ASSUME NEW r, NEW p, todo' = OverclockSteps(r, p) PROVE TuneLast'
  <2> DEFINE a == StartAdc(r)
             b == Tune(Corrected(gfLOfreq, p), "SetOverclock")
  <2>1. todo' = <<a, b>>
    BY <1>5 DEF OverclockSteps
  <2>2. a.op # "tune"
    BY <1>0
  <2> HIDE DEF a, b
  <2>3. todo' = <<a>> \o <<b>> /\ IsSteps(<<a>>) /\ ElemsOf(<<a>>) = {a}
    BY <2>1, CatTwo, ElemsList
  <2>4. QED
    BY <2>2, <2>3, TuneLists DEF TuneLast
<1>6. ASSUME NEW f \in Flags, NEW b \in BOOLEAN, UptFlag(f, b) PROVE TuneLast'
  <2>1. IsSteps(todo') /\ ElemsOf(todo') \subseteq {FlagStep(f, b), SetRand(b)}
    BY <1>6, FlagList DEF Pending
  <2>2. QED
    BY <1>0, <2>1, TuneLists DEF TuneLast
<1>7. ASSUME NEW m \in Modes, UpdatemodeRF(m) PROVE TuneLast'
  <2>1. todo' = SwitchSteps(m) /\ IsSteps(SwitchSteps(m))
    BY <1>7, SwitchList DEF UpdatemodeRF
  <2>2. QED
    BY <1>7, <2>1, SwitchTunesNothing, TuneLists DEF TuneLast
<1>8. ASSUME NEW f, TuneLO(f) PROVE TuneLast'
  BY <1>4, <1>8 DEF TuneLO
<1>9. ASSUME NEW i, SetAttenuator(i) \/ ExtIoSetMGC(i) PROVE TuneLast'
  BY <1>4, <1>9 DEF SetAttenuator, ExtIoSetMGC
<1>10. CASE CloseHW \/ InitHW
  BY <1>4, <1>10 DEF CloseHW, InitHW
<1>11. ASSUME NEW n, NEW v, setGain(n, v) PROVE TuneLast'
  BY <1>4, <1>11 DEF setGain
<1>12. ASSUME NEW x, SetOverclock(x) \/ SetPPMvalue(x) PROVE TuneLast'
  BY <1>5, <1>12 DEF SetOverclock, SetPPMvalue
<1>13. QED
  BY <1>1, <1>2, <1>3, <1>6, <1>7, <1>8, <1>9, <1>10, <1>11, <1>12 DEF Next

-----------------------------------------------------------------------------
(* The offset the converter is left with                                    *)

(* SetHWLOdbl picks VHF from half the ADC rate up, where the offset is the  *)
(* tuner's intermediate frequency.  The dialog takes no rate below          *)
(* MIN_ADC_FREQ, 50 MHz; one read from the settings is not bounded.         *)
RatesCoverIF == \A r \in Rates : 2 * 4570 <= r

HwloTune(s) == s.op = "tune" /\ s.by = "SetHWLO"

Within(freq, rate) ==
  /\ gfFreqCorrectionPpm >= 0 => 2 * freq <= rate
  /\ gfFreqCorrectionPpm < 0  => 2 * freq <= Corrected(Exactly(rate), gfFreqCorrectionPpm)

InBand == /\ 0 <= tuned.freq - tuned.actLo
          /\ Within(tuned.freq - tuned.actLo, tuned.rate)

BandInv ==
  /\ front = "direct" => tuned.by # "SetHWLO" /\ \A s \in Pending : ~HwloTune(s)
  /\ adcrate \in Nat /\ 2 * 4570 <= adcrate
  /\ model # "RX888r3" =>
       /\ \A s \in Pending : HwloTune(s) =>
            modeRF \in Modes /\ (modeRF = "HFMODE" => Within(s.freq, adcrate))
       /\ tuned.by = "SetHWLO" /\ switched => InBand \/ \E s \in Pending : s.op = "tune"

(* Only the tuning computes an offset.                                      *)
LEMMA OnlyTuneTunes ==
  ASSUME Step, ~TuneStep
  PROVE  tuned' = tuned /\ Head(todo).op # "tune"
<1> USE DEF Done
<1>1. CASE PinsStep
  BY <1>1 DEF PinsStep
<1>2. CASE AttStep
  BY <1>2 DEF AttStep
<1>3. CASE GainIFStep
  BY <1>3 DEF GainIFStep
<1>4. CASE VgaStep
  BY <1>4 DEF VgaStep
<1>5. CASE TunerStep
  BY <1>5 DEF TunerStep
<1>6. CASE AdcStep
  BY <1>6 DEF AdcStep
<1>7. CASE R2iqStep
  BY <1>7 DEF R2iqStep
<1>8. QED
  BY <1>1, <1>2, <1>3, <1>4, <1>5, <1>6, <1>7 DEF Step

(* Nothing is left after it.                                                *)
LEMMA TuneEnds ==
  ASSUME FormInv, TuneLast, Step, Head(todo).op = "tune"
  PROVE  Pending' = {}
<1>1. todo # <<>> /\ todo' = Tail(todo) /\ IsSteps(todo)
  BY StepFrame DEF FormInv
<1>2. /\ Len(todo) \in Nat /\ Len(todo) > 0 /\ Len(todo') = Len(todo) - 1
      /\ Head(todo) = FromEnd(todo, Len(todo))
  BY <1>1, EndTail
<1>3. Len(todo) \in 1 .. Len(todo)
  BY <1>2
<1>4. Len(todo) = 1
  BY <1>2, <1>3 DEF TuneLast, TuneIsLast
<1>5. IsSteps(todo') /\ Len(todo') = 0
  BY <1>2, <1>4, StepTakes
<1> DEFINE t == todo'
<1>6. t \in Seq(ElemsOf(t)) /\ Len(t) = 0
  BY <1>5 DEF IsSteps
<1> HIDE DEF t
<1>7. DOMAIN t = {}
  BY <1>6
<1>8. ElemsOf(t) = {}
  BY <1>7 DEF ElemsOf
<1>9. QED
  BY <1>8 DEF t, Pending

(* Every other call tunes, if it does, by itself.                           *)
LEMMA OtherCallsTune ==
  ASSUME Next, ~Step, ~ \E f \in Freqs : SetHWLOdbl(f)
  PROVE  /\ \A s \in Pending' : ~HwloTune(s)
         /\ switched' => switched \/ front = "direct"
         /\ adcrate' \in {adcrate} \cup Rates
         /\ \/ gfFreqCorrectionPpm' = gfFreqCorrectionPpm
            \/ \E s \in Pending' : s.op = "tune"
<1> DEFINE Goal == /\ \A s \in Pending' : ~HwloTune(s)
                   /\ switched' => switched \/ front = "direct"
                   /\ adcrate' \in {adcrate} \cup Rates
                   /\ \/ gfFreqCorrectionPpm' = gfFreqCorrectionPpm
                      \/ \E s \in Pending' : s.op = "tune"
<1>0. /\ \A i : /\ ~HwloTune(Att(i)) /\ ~HwloTune(GainIF(i)) /\ ~HwloTune(StartAdc(i))
                /\ ~HwloTune(SetPins(i)) /\ ~HwloTune(UnsetPins(i)) /\ ~HwloTune(SetRand(i))
      /\ \A f : ~HwloTune(Tune(f, "TuneLO")) /\ ~HwloTune(Tune(f, "SetOverclock"))
  BY DEF HwloTune, Att, GainIF, StartAdc, SetPins, UnsetPins, SetRand, Tune
<1>1. ASSUME NEW s, todo' = <<s>>, ~HwloTune(s) PROVE \A x \in Pending' : ~HwloTune(x)
  <2>1. Pending' = {s}
    BY <1>1, ElemsList DEF Pending
  <2>2. QED
    BY <1>1, <2>1
<1>2. ASSUME NEW f \in Freqs, TuneLO(f) PROVE Goal
  BY <1>0, <1>1, <1>2 DEF TuneLO, host, extio, ghost
<1>3. ASSUME NEW i \in AttIndices, SetAttenuator(i) PROVE Goal
  BY <1>0, <1>1, <1>3 DEF SetAttenuator, host, ghost
<1>4. ASSUME NEW i \in MgcIndices, ExtIoSetMGC(i) PROVE Goal
  BY <1>0, <1>1, <1>4 DEF ExtIoSetMGC, host, ghost
<1>5. ASSUME NEW r \in Rates, SetOverclock(r) PROVE Goal
  <2>1. \A s \in Pending' : ~HwloTune(s)
    BY <1>5, OverclockElems DEF SetOverclock, HwloTune
  <2>2. QED
    BY <1>5, <2>1 DEF SetOverclock, extio, ghost
<1>p. ASSUME NEW p \in Corrections, SetPPMvalue(p) PROVE Goal
  <2>1. (\A s \in Pending' : ~HwloTune(s)) /\ \E s \in Pending' : s.op = "tune"
    BY <1>p, OverclockElems DEF SetPPMvalue, HwloTune
  <2>2. QED
    BY <1>p, <2>1 DEF SetPPMvalue, host, ghost
<1>6. ASSUME NEW f \in Flags, NEW b \in BOOLEAN, UptFlag(f, b) PROVE Goal
  <2>1. Pending' \subseteq {FlagStep(f, b), SetRand(b)} /\ switched' = switched
    BY <1>6, FlagList
  <2>2. QED
    BY <1>0, <1>6, <2>1 DEF UptFlag, FlagStep, extio
<1>7. CASE CloseHW
  BY <1>0, <1>1, <1>7 DEF CloseHW, extio, ghost
<1>8. CASE InitHW
  BY <1>0, <1>1, <1>8 DEF InitHW, extio
<1>9. ASSUME NEW m \in Modes, UpdatemodeRF(m) PROVE Goal
  <2>1. Pending' = ElemsOf(SwitchSteps(m))
    BY <1>9 DEF UpdatemodeRF, Pending
  <2>2. QED
    BY <1>9, <2>1, SwitchTunesNothing DEF UpdatemodeRF, HwloTune, extio
<1>10. ASSUME NEW n \in {"RF", "IF"}, NEW v \in GainValues, setGain(n, v) PROVE Goal
  BY <1>0, <1>1, <1>10 DEF setGain, host, extio
<1>11. QED
  BY <1>2, <1>3, <1>4, <1>5, <1>p, <1>6, <1>7, <1>8, <1>9, <1>10 DEF Next

(* What SetHWLOdbl leaves to do holds for the mode it enters.               *)
LEMMA SetHWLOBand ==
  ASSUME TypeInv, BandInv, NEW f \in Freqs, SetHWLOdbl(f)
  PROVE  BandInv'
<1> DEFINE m == PrepareLo(model, f, adcrate)
           t == Tune(LoFor(f), "SetHWLO")
<1>1. /\ front = "ExtIO" /\ UNCHANGED <<model, front, tuned, adcrate, gfFreqCorrectionPpm>>
      /\ Pending = {}
  BY ElemsList DEF SetHWLOdbl, Call, Pending
<1>2. CASE m = "NOMODE"
  <2>1. Pending' = {} /\ UNCHANGED <<modeRF, switched>>
    BY <1>2, SetHWLOElems DEF SetHWLOdbl
  <2>2. QED
    BY <1>1, <2>1 DEF BandInv, InBand, Within
<1>3. CASE m # "NOMODE"
  <2>1. m \in Modes /\ modeRF' = m
    BY <1>3 DEF SetHWLOdbl, Switch, PrepareLo, Modes
  <2>2. Pending' = ElemsOf(SwitchSteps(m)) \cup {t}
                     \cup (IF modeRF = m THEN {} ELSE {GainIF(giMgcIdx[m]), Att(giAttIdx[m])})
    BY <1>3, SetHWLOElems
  <2>3. HwloTune(t) /\ t.op = "tune" /\ t.freq = LoFor(f)
    BY DEF HwloTune, Tune
  <2>4. GainIF(giMgcIdx[m]).op = "gainIF" /\ Att(giAttIdx[m]).op = "att"
    BY DEF GainIF, Att
  <2>5. f \in Nat /\ adcrate \in Nat /\ gfFreqCorrectionPpm \in Ppms
    BY ControlAssumption DEF TypeInv, RestType
  <2>6. model # "RX888r3" /\ m = "HFMODE" => f < adcrate \div 2
    <3>1. adcrate \div 2 \in Int
      BY <2>5, SMT
    <3>2. QED
      BY <2>5, <3>1, SMT DEF PrepareLo
  <2>7. f < adcrate \div 2 => Within(LoFor(f), adcrate)
    <3>1. SUFFICES ASSUME f < adcrate \div 2 PROVE Within(LoFor(f), adcrate)
      OBVIOUS
    <3>2. 2 * f <= adcrate
      BY <2>5, <3>1, SMT
    <3>3. /\ LoFor(f) \in Nat
          /\ gfFreqCorrectionPpm >= 0 => LoFor(f) <= f
          /\ gfFreqCorrectionPpm < 0 =>
               2 * LoFor(f) <= Corrected(Exactly(adcrate), gfFreqCorrectionPpm)
      BY <2>5, <3>2, CorrectedOrder DEF LoFor
    <3>4. QED
      BY <2>5, <3>2, <3>3 DEF Within
  <2> HIDE DEF m, t
  <2>8. \A s \in Pending' : HwloTune(s) => s = t
    BY <2>1, <2>2, <2>4, SwitchTunesNothing DEF HwloTune
  <2>9. t \in Pending'
    BY <2>2
  <2>a. \A x : Within(x, adcrate)' = Within(x, adcrate)
    BY <1>1 DEF Within
  <2>10. QED
    BY <1>1, <2>1, <2>3, <2>6, <2>7, <2>8, <2>9, <2>a DEF BandInv
<1>4. QED
  BY <1>2, <1>3

(* The offset is in the band, or the tuning that brings it there is left.   *)
LEMMA BandHolds ==
  ASSUME RatesCoverIF, FormInv, TypeInv, ModeInv, TuneLast, BandInv, [Next]_vars
  PROVE  BandInv'
<1>1. CASE UNCHANGED vars
  BY <1>1 DEF vars, host, extio, ghost, BandInv, InBand, Within, Pending
<1>2. CASE Step
  <2> DEFINE h == Head(todo)
  <2>1. /\ UNCHANGED <<model, front, modeRF, adcrate, gfFreqCorrectionPpm, switched>>
        /\ Pending = {h} \cup Pending'
    BY <1>2, StepLeaves, StepTakes DEF extio
  <2>2. CASE ~TuneStep
    <3>1. tuned' = tuned /\ h.op # "tune"
      BY <1>2, <2>2, OnlyTuneTunes
    <3> HIDE DEF h
    <3>2. ~HwloTune(h)
      BY <3>1 DEF HwloTune
    <3>3. InBand' = InBand
      BY <2>1, <3>1 DEF InBand, Within
    <3>4. \A s : Within(s.freq, adcrate)' = Within(s.freq, adcrate)
      BY <2>1 DEF Within
    <3>5. QED
      BY <2>1, <3>1, <3>2, <3>3, <3>4 DEF BandInv
  <2>3. CASE TuneStep
    <3> DEFINE f  == h.freq
               lo == ActualLo(model, Mode, f)
    <3>1. h.op = "tune" /\ gpios' = gpios
      BY <2>3 DEF TuneStep, Done
    <3>2. Pending' = {} /\ h \in Pending
      BY <1>2, <2>1, <3>1, TuneEnds
    <3>3. tuned' = [freq |-> f, actLo |-> lo, rate |-> adcrate, mode |-> modeRF, by |-> h.by]
      BY <2>3 DEF TuneStep
    <3>4. f \in Nat
      BY <3>1, <3>2, StepFields DEF TypeInv
    <3> HIDE DEF h, f, lo
    <3>5. /\ tuned'.freq = f /\ tuned'.actLo = lo /\ tuned'.rate = adcrate
          /\ tuned'.by = h.by
      BY <3>3
    <3>6. ASSUME model # "RX888r3", h.by = "SetHWLO", switched PROVE InBand'
      <4>1. HwloTune(h)
        BY <3>1, <3>6 DEF HwloTune
      <4>2. modeRF \in Modes /\ (modeRF = "HFMODE" => Within(f, adcrate))
        BY <3>2, <3>6, <4>1 DEF BandInv, f
      <4>3. Mode = modeRF
        <5>1. h # ModeStep(modeRF)
          BY <3>1, ModeStepIsPins
        <5>2. QED
          BY <2>1, <3>2, <3>6, <5>1 DEF ModeInv
      <4>4. CASE modeRF = "VHFMODE"
        <5>1. lo = f - 4570
          BY <3>6, <4>3, <4>4 DEF lo, ActualLo
        <5>2. f - lo = 4570 /\ adcrate \in Nat /\ 2 * 4570 <= adcrate
          BY <3>4, <5>1 DEF BandInv
        <5>3. gfFreqCorrectionPpm \in Ppms
          BY DEF TypeInv, RestType
        <5>4. gfFreqCorrectionPpm < 0 => adcrate <= Corrected(Exactly(adcrate), gfFreqCorrectionPpm)
          BY <5>2, <5>3, CorrectedOrder
        <5>5. Corrected(Exactly(adcrate), gfFreqCorrectionPpm) \in Nat
          BY <5>2, <5>3, CorrectedOrder
        <5>6. Within(4570, adcrate)
          BY <5>2, <5>4, <5>5 DEF Within
        <5>7. QED
          BY <2>1, <3>5, <5>2, <5>6 DEF InBand, Within
      <4>5. CASE modeRF = "HFMODE"
        <5>1. lo = 0
          BY <3>6, <4>3, <4>5 DEF lo, ActualLo
        <5>2. f - lo = f /\ 0 <= f /\ Within(f, adcrate)
          BY <3>4, <4>2, <4>5, <5>1
        <5>3. QED
          BY <2>1, <3>5, <5>2 DEF InBand, Within
      <4>6. QED
        BY <4>2, <4>4, <4>5 DEF Modes
    <3>7. front = "direct" => h.by # "SetHWLO"
      BY <3>1, <3>2 DEF BandInv, HwloTune
    <3>8. QED
      BY <2>1, <3>2, <3>5, <3>6, <3>7 DEF BandInv
  <2>4. QED
    BY <2>2, <2>3
<1>3. ASSUME NEW f \in Freqs, SetHWLOdbl(f) PROVE BandInv'
  BY <1>3, SetHWLOBand
<1>4. CASE Next /\ ~Step /\ ~ \E f \in Freqs : SetHWLOdbl(f)
  <2>1. /\ \A s \in Pending' : ~HwloTune(s)
        /\ switched' => switched \/ front = "direct"
        /\ adcrate' \in {adcrate} \cup Rates
    BY <1>4, OtherCallsTune
  <2>2. UNCHANGED <<model, front>> /\ tuned' \in {tuned, NotTuned} /\ Pending = {}
    BY <1>4, CallUnaltered, NothingPending DEF Unaltered
  <2>c. /\ \/ gfFreqCorrectionPpm' = gfFreqCorrectionPpm
           \/ \E s \in Pending' : s.op = "tune"
        /\ NotTuned.by # "SetHWLO"
    BY <1>4, OtherCallsTune DEF NotTuned
  <2>3. adcrate' \in Nat /\ 2 * 4570 <= adcrate'
    BY <2>1, ControlAssumption DEF RatesCoverIF, BandInv
  <2>4. tuned' = tuned /\ gfFreqCorrectionPpm' = gfFreqCorrectionPpm => InBand' = InBand
    BY DEF InBand, Within
  <2>5. front \in {"ExtIO", "direct"}
    BY ControlAssumption DEF TypeInv, RestType
  <2>6. QED
    BY <2>1, <2>2, <2>c, <2>3, <2>4, <2>5 DEF BandInv
<1>5. QED
  BY <1>1, <1>2, <1>3, <1>4

(* The types, and that the tuning comes last.                               *)
Order == IInv /\ TypeInv /\ TuneLast

(* Both, at every step.                                                     *)
LEMMA OrderHolds == Spec => []Order
<1>1. Init => TypeInv /\ TuneLast
  <2>1. Init => todo = <<>>
    BY DEF Init
  <2>2. QED
    BY <2>1, InitTypes, TuneLists DEF TuneLast
<1>2. IInv /\ TypeInv /\ TuneLast /\ [Next]_vars => TypeInv' /\ TuneLast'
  BY TypesHold, TuneLastHolds DEF IInv
<1>3. QED
  BY <1>1, <1>2, Invariance, PTL DEF Spec, Order

(* Set by SetHWLOdbl, the LO leaves the converter an offset inside the band *)
(* the ADC samples, at any rate from twice the intermediate frequency up,   *)
(* for every correction that is not negative and whatever commands fail;    *)
(* with a negative one it may lie beyond, but no further than the           *)
(* correction moves the border.  On the mkIII it need not.                  *)
THEOREM BandCorrect == ASSUME RatesCoverIF PROVE Spec => []TunedInBand
<1>1. Init => BandInv
  <2>1. SUFFICES ASSUME Init PROVE BandInv
    OBVIOUS
  <2>2. Pending = {}
    BY <2>1, ElemsList DEF Init, Pending
  <2>3. tuned.by = "none" /\ adcrate = 64000
    BY <2>1 DEF Init, NotTuned, DEFAULT_ADC_FREQ
  <2>4. QED
    BY <2>2, <2>3 DEF BandInv
<1>2. Order /\ BandInv /\ [Next]_vars => BandInv'
  BY BandHolds DEF Order, IInv
<1>3. BandInv => TunedInBand
  <2>1. SUFFICES ASSUME BandInv, Idle, tuned.by = "SetHWLO", switched, model # "RX888r3"
                 PROVE  InBand
    BY DEF TunedInBand, InBand, Within
  <2>2. Pending = {}
    BY <2>1, ElemsList DEF Idle, Pending
  <2>3. QED
    BY <2>1, <2>2 DEF BandInv
<1>4. QED
  BY <1>1, <1>2, <1>3, OrderHolds, PTL DEF Spec

-----------------------------------------------------------------------------
(* The settings of the mode                                                 *)

(* The LO the tuner should have follows from two settings.                  *)
LEMMA InternalLoKept == UNCHANGED <<gfLOfreq, gfFreqCorrectionPpm>> => InternalLo' = InternalLo
  BY DEF InternalLo, Corrected, Factor

(* Until the mode is switched through this hardware object its word does    *)
(* not ask for VHF, and no step is left that would.                         *)
PinInv == ~switched => /\ "VHF_EN" \notin gpios
                       /\ \A s \in Pending : s.op = "pins" => "VHF_EN" \notin s.on

VHF  == modeRF = "VHFMODE"
BBRF == model = "BBRF103"

(* The steps left k-th from the end when SetHWLOdbl switches the mode.      *)
NextStep(k) ==
  CASE k = 1 -> Tune(InternalLo, "SetHWLO")
    [] k = 2 -> Att(giAttIdx[modeRF])
    [] k = 3 -> GainIF(giMgcIdx[modeRF])
    [] k = 4 -> SetSideband(VHF)
    [] k = 5 -> IF VHF THEN TunerInit ELSE ModeStep(modeRF)
    [] k = 6 -> IF ~VHF THEN TunerStdby ELSE IF BBRF THEN ModeStep(modeRF) ELSE Vga(VgaOfVhf)
    [] k = 7 -> ModeStep(modeRF)
    [] k = 8 -> Att(0)

SwitchLength == IF VHF /\ ~BBRF THEN 8 ELSE 6
ModeStepAt   == IF ~VHF THEN 5 ELSE IF BBRF THEN 6 ELSE 7

(* What the steps done have set when n are left.                            *)
Stage(n) ==
  /\ VHF /\ ~BBRF => /\ n = 8 => Mode = "HFMODE"
                     /\ n < 8 => dev.att = MaxAttenuation
                     /\ n < 6 => dev.vga = VgaOfVhf
  /\ VHF => (n < 5 => dev.tuner = "ready")
  /\ ~VHF => (n < 6 => dev.tuner # "ready")
  /\ n < ModeStepAt => gpioOk

UnderWay == /\ Len(todo) \in 4 .. SwitchLength
            /\ \A k \in 1 .. Len(todo) : FromEnd(todo, k) = NextStep(k)
            /\ Stage(Len(todo))

(* Steps that do not take the device away from the settings of its mode.    *)
Quiet(s) == \/ s = Att(giAttIdx[modeRF])
            \/ s = GainIF(giMgcIdx[modeRF])
            \/ s.op = "tune" /\ s.freq = InternalLo
            \/ s.op \in {"adc", "rand"}
            \/ s.op = "pins" /\ (s.on \cup s.off) \cap ModePins = {}

BaseSet  == /\ VHF => dev.tuner = "ready"
            /\ ~VHF => dev.tuner # "ready"
            /\ VHF /\ ~BBRF => dev.att = MaxAttenuation /\ dev.vga = VgaOfVhf
            /\ sideband = VHF /\ gpioOk
GainSet  == /\ VHF /\ HasR82xx => dev.rfGain = giAttIdx["VHFMODE"]
            /\ ~VHF /\ BBRF => gpios \cap ATT_SEL = AttPins(giAttIdx["HFMODE"])
            /\ ~VHF /\ ~BBRF => dev.att = AttValue(giAttIdx["HFMODE"])
VgaSet   == ~VHF /\ ~BBRF => dev.vga = VgaByte(giMgcIdx["HFMODE"])
TunedSet == tuned.freq = InternalLo /\ tuned.mode = modeRF /\ (VHF => dev.asked = InternalLo)

Restored == /\ \A s \in Pending : Quiet(s)
            /\ BaseSet
            /\ GainSet \/ Att(giAttIdx[modeRF]) \in Pending
            /\ VgaSet \/ GainIF(giMgcIdx[modeRF]) \in Pending
            /\ TunedSet \/ \E s \in Pending : s.op = "tune"

SettingsInv == front = "ExtIO" /\ switched /\ clean => Restored \/ UnderWay

(* Which action takes a step is known from its kind.                        *)
LEMMA StepByKind ==
  ASSUME Step
  PROVE  LET o == Head(todo).op IN
         /\ o = "pins" => PinsStep
         /\ o = "att" => AttStep
         /\ o = "gainIF" => GainIFStep
         /\ o = "vga" => VgaStep
         /\ o \in {"init", "stdby"} => TunerStep
         /\ o = "adc" => AdcStep
         /\ o \in {"sideband", "rand"} => R2iqStep
         /\ o = "tune" => TuneStep
<1> USE DEF Done
<1>1. CASE PinsStep
  BY <1>1 DEF PinsStep
<1>2. CASE AttStep
  BY <1>2 DEF AttStep
<1>3. CASE GainIFStep
  BY <1>3 DEF GainIFStep
<1>4. CASE VgaStep
  BY <1>4 DEF VgaStep
<1>5. CASE TunerStep
  BY <1>5 DEF TunerStep
<1>6. CASE AdcStep
  BY <1>6 DEF AdcStep
<1>7. CASE R2iqStep
  BY <1>7 DEF R2iqStep
<1>8. CASE TuneStep
  BY <1>8 DEF TuneStep
<1>9. QED
  BY <1>1, <1>2, <1>3, <1>4, <1>5, <1>6, <1>7, <1>8 DEF Step

(* A command after which clean still holds was carried out and answered.    *)
LEMMA Answered ==
  ASSUME clean'
  PROVE  /\ \A after, g : Command(after, g) =>
              dev' = after /\ clean /\ gpioOk' = IF g THEN TRUE ELSE gpioOk
         /\ NoCommand => dev' = dev /\ clean /\ gpioOk' = gpioOk
  BY DEF Command, NoCommand

(* Each kind of step, carried out: the fields of the device that settings   *)
(* speak of.                                                                *)
LEMMA PinsCarried ==
  ASSUME dev \in Device, PinsStep, clean'
  PROVE  /\ clean /\ gpioOk' = TRUE
         /\ gpios' = (gpios \cup Head(todo).on) \ Head(todo).off
         /\ UNCHANGED <<dev.tuner, dev.asked, dev.rfGain, dev.att, dev.vga, sideband, tuned>>
<1>1. Command(PinsCmd(gpios'), TRUE) /\ UNCHANGED <<sideband, tuned>>
  BY DEF PinsStep
<1>2. dev' = PinsCmd(gpios') /\ clean /\ gpioOk' = TRUE
  BY <1>1, Answered
<1>3. UNCHANGED <<dev.tuner, dev.asked, dev.rfGain, dev.att, dev.vga>>
  BY <1>2 DEF PinsCmd, Device
<1>4. QED
  BY <1>1, <1>2, <1>3, PinsTaken

(* The attenuator in VHF is the tuner's, in HF the radio's.                 *)
LEMMA AttCarried ==
  ASSUME dev \in Device, AttStep, clean'
  PROVE  /\ clean
         /\ UNCHANGED <<dev.tuner, dev.asked, dev.vga, sideband, tuned>>
         /\ gpioOk => gpioOk'
         /\ Mode = "VHFMODE" =>
              /\ UNCHANGED <<dev.att, gpios, gpioOk>>
              /\ HasR82xx => dev'.rfGain = Head(todo).index
         /\ Mode = "HFMODE" =>
              /\ UNCHANGED dev.rfGain
              /\ BBRF => gpios' = (gpios \ ATT_SEL) \cup AttPins(Head(todo).index)
              /\ ~BBRF => UNCHANGED <<gpios, gpioOk>> /\ dev'.att = AttValue(Head(todo).index)
<1> DEFINE i == Head(todo).index
<1>0. UNCHANGED <<sideband, tuned>>
  BY DEF AttStep
<1>1. CASE Mode = "VHFMODE" /\ HasR82xx
  <2>1. Command([dev EXCEPT !.rfGain = i], FALSE) /\ UNCHANGED gpios
    BY <1>1 DEF AttStep
  <2>2. dev' = [dev EXCEPT !.rfGain = i] /\ clean /\ gpioOk' = gpioOk
    BY <2>1, Answered
  <2> HIDE DEF i
  <2>3. UNCHANGED <<dev.tuner, dev.asked, dev.vga, dev.att>> /\ dev'.rfGain = i
    BY <2>2 DEF Device
  <2>4. QED
    BY <1>0, <1>1, <2>1, <2>2, <2>3 DEF i
<1>2. CASE Mode = "VHFMODE" /\ ~HasR82xx
  <2>1. NoCommand /\ UNCHANGED gpios
    BY <1>2 DEF AttStep
  <2>2. QED
    BY <1>0, <1>2, <2>1, Answered
<1>3. CASE Mode = "HFMODE" /\ BBRF
  <2>1. Command(PinsCmd(gpios'), TRUE) /\ gpios' = (gpios \ ATT_SEL) \cup AttPins(i)
    BY <1>3 DEF AttStep, BBRF
  <2>2. dev' = PinsCmd(gpios') /\ clean /\ gpioOk' = TRUE
    BY <2>1, Answered
  <2>3. UNCHANGED <<dev.tuner, dev.asked, dev.vga, dev.rfGain>>
    BY <2>2 DEF PinsCmd, Device
  <2>4. QED
    BY <1>0, <1>3, <2>1, <2>2, <2>3
<1>4. CASE Mode = "HFMODE" /\ ~BBRF
  <2>1. Command([dev EXCEPT !.att = AttValue(i)], FALSE) /\ UNCHANGED gpios
    BY <1>4 DEF AttStep, BBRF
  <2>2. dev' = [dev EXCEPT !.att = AttValue(i)] /\ clean /\ gpioOk' = gpioOk
    BY <2>1, Answered
  <2> HIDE DEF i
  <2>3. UNCHANGED <<dev.tuner, dev.asked, dev.vga, dev.rfGain>> /\ dev'.att = AttValue(i)
    BY <2>2 DEF Device
  <2>4. QED
    BY <1>0, <1>4, <2>1, <2>2, <2>3 DEF i
<1>5. Mode \in {"HFMODE", "VHFMODE"}
  BY DEF Mode, HardwareMode
<1>6. QED
  BY <1>1, <1>2, <1>3, <1>4, <1>5

(* The gain of IF, in HF the VGA of the radio.                              *)
LEMMA GainCarried ==
  ASSUME dev \in Device, GainIFStep, clean'
  PROVE  /\ clean
         /\ UNCHANGED <<dev.tuner, dev.asked, dev.rfGain, dev.att, gpios, gpioOk, sideband, tuned>>
         /\ Mode = "HFMODE" /\ ~BBRF => dev'.vga = VgaByte(Head(todo).index)
         /\ Mode = "VHFMODE" => UNCHANGED dev.vga
<1> DEFINE i == Head(todo).index
<1>0. UNCHANGED <<gpios, sideband, tuned>>
  BY DEF GainIFStep
<1>1. CASE Mode = "VHFMODE" /\ HasR82xx
  <2>1. Command(VgaGainCmd(i), FALSE)
    BY <1>1 DEF GainIFStep
  <2>2. dev' = VgaGainCmd(i) /\ clean /\ gpioOk' = gpioOk
    BY <2>1, Answered
  <2> HIDE DEF i
  <2>3. UNCHANGED <<dev.tuner, dev.asked, dev.rfGain, dev.att, dev.vga>>
    BY <2>2 DEF VgaGainCmd, Device
  <2>4. QED
    BY <1>0, <1>1, <2>2, <2>3
<1>2. CASE Mode = "HFMODE" /\ ~BBRF
  <2>1. Command([dev EXCEPT !.vga = VgaByte(i)], FALSE)
    BY <1>2 DEF GainIFStep, BBRF
  <2>2. dev' = [dev EXCEPT !.vga = VgaByte(i)] /\ clean /\ gpioOk' = gpioOk
    BY <2>1, Answered
  <2> HIDE DEF i
  <2>3. UNCHANGED <<dev.tuner, dev.asked, dev.rfGain, dev.att>> /\ dev'.vga = VgaByte(i)
    BY <2>2 DEF Device
  <2>4. QED
    BY <1>0, <1>2, <2>2, <2>3 DEF i
<1>3. CASE ~(Mode = "VHFMODE" /\ HasR82xx) /\ ~(Mode = "HFMODE" /\ ~BBRF)
  <2>1. NoCommand
    BY <1>3 DEF GainIFStep, BBRF
  <2>2. QED
    BY <1>0, <1>3, <2>1, Answered
<1>4. QED
  BY <1>1, <1>2, <1>3

(* The remaining kinds.                                                     *)
LEMMA OthersCarried ==
  ASSUME dev \in Device, clean'
  PROVE  /\ VgaStep =>
              /\ clean /\ dev'.vga = Head(todo).byte
              /\ UNCHANGED <<dev.tuner, dev.att, gpios, gpioOk, sideband, tuned>>
         /\ TunerStep /\ Head(todo).op = "init" =>
              /\ clean /\ dev'.tuner = "ready"
              /\ UNCHANGED <<dev.att, dev.vga, gpios, gpioOk, sideband, tuned>>
         /\ TunerStep /\ Head(todo).op = "stdby" =>
              /\ clean /\ dev'.tuner # "ready"
              /\ UNCHANGED <<dev.att, dev.vga, gpios, gpioOk, sideband, tuned>>
         /\ AdcStep => clean /\ UNCHANGED <<dev, gpios, gpioOk, sideband, tuned>>
         /\ R2iqStep =>
              /\ clean /\ UNCHANGED <<dev, gpios, gpioOk, tuned>>
              /\ Head(todo).op = "sideband" => sideband' = Head(todo).value
              /\ Head(todo).op = "rand" => sideband' = sideband
<1>1. VgaStep => /\ clean /\ dev'.vga = Head(todo).byte
                 /\ UNCHANGED <<dev.tuner, dev.att, gpios, gpioOk, sideband, tuned>>
  <2>1. SUFFICES ASSUME VgaStep
                 PROVE  /\ clean /\ dev'.vga = Head(todo).byte
                        /\ UNCHANGED <<dev.tuner, dev.att, gpios, gpioOk, sideband, tuned>>
    OBVIOUS
  <2> DEFINE b == Head(todo).byte
  <2>2. Command([dev EXCEPT !.vga = b], FALSE) /\ UNCHANGED <<gpios, sideband, tuned>>
    BY <2>1 DEF VgaStep
  <2>3. dev' = [dev EXCEPT !.vga = b] /\ clean /\ gpioOk' = gpioOk
    BY <2>2, Answered
  <2> HIDE DEF b
  <2>4. dev'.vga = b /\ UNCHANGED <<dev.tuner, dev.att>>
    BY <2>3 DEF Device
  <2>5. QED
    BY <2>2, <2>3, <2>4 DEF b
<1>2. TunerStep /\ Head(todo).op = "init" =>
        /\ clean /\ dev'.tuner = "ready"
        /\ UNCHANGED <<dev.att, dev.vga, gpios, gpioOk, sideband, tuned>>
  <2>1. SUFFICES ASSUME TunerStep, Head(todo).op = "init"
                 PROVE  /\ clean /\ dev'.tuner = "ready"
                        /\ UNCHANGED <<dev.att, dev.vga, gpios, gpioOk, sideband, tuned>>
    OBVIOUS
  <2>2. Command(InitCmd, FALSE) /\ UNCHANGED <<gpios, sideband, tuned>>
    BY <2>1 DEF TunerStep, Done
  <2>3. dev' = InitCmd /\ clean /\ gpioOk' = gpioOk
    BY <2>2, Answered
  <2>4. dev'.tuner = "ready" /\ UNCHANGED <<dev.att, dev.vga>>
    BY <2>3 DEF InitCmd, Device
  <2>5. QED
    BY <2>2, <2>3, <2>4
<1>3. TunerStep /\ Head(todo).op = "stdby" =>
        /\ clean /\ dev'.tuner # "ready"
        /\ UNCHANGED <<dev.att, dev.vga, gpios, gpioOk, sideband, tuned>>
  <2>1. SUFFICES ASSUME TunerStep, Head(todo).op = "stdby"
                 PROVE  /\ clean /\ dev'.tuner # "ready"
                        /\ UNCHANGED <<dev.att, dev.vga, gpios, gpioOk, sideband, tuned>>
    OBVIOUS
  <2>2. Command(StdbyCmd, FALSE) /\ UNCHANGED <<gpios, sideband, tuned>>
    BY <2>1 DEF TunerStep, Done
  <2>3. dev' = StdbyCmd /\ clean /\ gpioOk' = gpioOk
    BY <2>2, Answered
  <2>4. dev'.tuner # "ready" /\ UNCHANGED <<dev.att, dev.vga>>
    BY <2>3 DEF StdbyCmd, Device
  <2>5. QED
    BY <2>2, <2>3, <2>4
<1>4. AdcStep => clean /\ UNCHANGED <<dev, gpios, gpioOk, sideband, tuned>>
  BY Answered DEF AdcStep
<1>5. R2iqStep => /\ clean /\ UNCHANGED <<dev, gpios, gpioOk, tuned>>
                  /\ Head(todo).op = "sideband" => sideband' = Head(todo).value
                  /\ Head(todo).op = "rand" => sideband' = sideband
  BY Answered DEF R2iqStep, Done
<1>6. QED
  BY <1>1, <1>2, <1>3, <1>4, <1>5

(* The tuner is asked for the LO in VHF only.                               *)
LEMMA TuneCarried ==
  ASSUME dev \in Device, TuneStep, clean'
  PROVE  /\ clean
         /\ UNCHANGED <<dev.tuner, dev.rfGain, dev.att, dev.vga, gpios, gpioOk, sideband>>
         /\ tuned'.freq = Head(todo).freq /\ tuned'.mode = modeRF
         /\ Mode = "VHFMODE" => dev'.asked = Head(todo).freq
<1> DEFINE f == Head(todo).freq
<1>1. /\ UNCHANGED <<gpios, sideband>> /\ tuned'.freq = f /\ tuned'.mode = modeRF
      /\ \/ Mode = "VHFMODE" /\ Command([dev EXCEPT !.asked = f], FALSE)
         \/ Mode # "VHFMODE" /\ (Command(dev, FALSE) \/ NoCommand)
  BY DEF TuneStep
<1>2. CASE Mode = "VHFMODE"
  <2>1. dev' = [dev EXCEPT !.asked = f] /\ clean /\ gpioOk' = gpioOk
    BY <1>1, <1>2, Answered
  <2> HIDE DEF f
  <2>2. dev'.asked = f /\ UNCHANGED <<dev.tuner, dev.rfGain, dev.att, dev.vga>>
    BY <2>1 DEF Device
  <2>3. QED
    BY <1>1, <2>1, <2>2 DEF f
<1>3. CASE Mode # "VHFMODE"
  BY <1>1, <1>3, Answered
<1>4. QED
  BY <1>2, <1>3

(* Calls that make a new hardware object clear its word; only they let      *)
(* switched go.                                                             *)
LEMMA SwitchedStays == ASSUME Next, ~Step PROVE switched' \in {switched, TRUE} \/ gpios' = {}
<1> DEFINE Goal == switched' \in {switched, TRUE} \/ gpios' = {}
<1>1. ASSUME NEW f \in Freqs, SetHWLOdbl(f) PROVE Goal
  BY <1>1 DEF SetHWLOdbl, Switch
<1>2. ASSUME NEW f \in Freqs, TuneLO(f) PROVE Goal
  BY <1>2 DEF TuneLO, ghost
<1>3. ASSUME NEW i \in AttIndices, SetAttenuator(i) PROVE Goal
  BY <1>3 DEF SetAttenuator, ghost
<1>4. ASSUME NEW i \in MgcIndices, ExtIoSetMGC(i) PROVE Goal
  BY <1>4 DEF ExtIoSetMGC, ghost
<1>5. ASSUME NEW r \in Rates, SetOverclock(r) PROVE Goal
  BY <1>5 DEF SetOverclock, ghost
<1>6. ASSUME NEW f \in Flags, NEW b \in BOOLEAN, UptFlag(f, b) PROVE Goal
  BY <1>6 DEF UptFlag, ghost
<1>7. CASE CloseHW
  BY <1>7 DEF CloseHW, ghost
<1>8. CASE InitHW
  BY <1>8 DEF InitHW
<1>9. ASSUME NEW m \in Modes, UpdatemodeRF(m) PROVE Goal
  BY <1>9 DEF UpdatemodeRF, Switch
<1>10. ASSUME NEW n \in {"RF", "IF"}, NEW v \in GainValues, setGain(n, v) PROVE Goal
  BY <1>10 DEF setGain
<1>11. ASSUME NEW p \in Corrections, SetPPMvalue(p) PROVE Goal
  BY <1>11 DEF SetPPMvalue, ghost
<1>12. QED
  BY <1>1, <1>2, <1>3, <1>4, <1>5, <1>6, <1>7, <1>8, <1>9, <1>10, <1>11 DEF Next

(* The word asks for VHF only after a switch.                               *)
LEMMA PinHolds ==
  ASSUME FormInv, PinInv, [Next]_vars
  PROVE  PinInv'
<1>0. "VHF_EN" \in ModePins /\ "VHF_EN" \notin ATT_SEL
  BY DEF ModePins, ATT_SEL
<1>1. CASE UNCHANGED vars
  BY <1>1 DEF vars, host, ghost, PinInv, Pending
<1>2. CASE Step
  <2> DEFINE h == Head(todo)
  <2>1. switched' = switched /\ Pending = {h} \cup Pending'
    BY <1>2, StepLeaves, StepTakes
  <2>2. SUFFICES ASSUME ~switched PROVE "VHF_EN" \notin gpios'
    BY <2>1 DEF PinInv
  <2>3. "VHF_EN" \notin gpios
    BY <2>2 DEF PinInv
  <2>4. CASE PinsStep
    <3>1. h.op = "pins" /\ gpios' = (gpios \cup h.on) \ h.off
      BY <2>4, PinsTaken
    <3>2. "VHF_EN" \notin h.on
      BY <2>1, <2>2, <3>1 DEF PinInv
    <3>3. QED
      BY <2>3, <3>1, <3>2
  <2>5. CASE AttStep
    BY <1>0, <2>3, <2>5, AttPinsKept
  <2>6. QED
    BY <1>2, <2>3, <2>4, <2>5, StepFrame
<1>3. CASE Next /\ ~Step
  <2>1. SUFFICES ASSUME ~switched'
                 PROVE  /\ "VHF_EN" \notin gpios'
                        /\ \A s \in Pending' : s.op = "pins" => "VHF_EN" \notin s.on
    BY DEF PinInv
  <2>2. "VHF_EN" \notin gpios'
    BY <1>3, <2>1, SwitchedStays, CallFrame DEF PinInv
  <2>3. CASE Plain
    <3>1. Staying
      BY <2>1, <2>3 DEF Plain, Switching
    <3>2. \A s \in Pending' : s.op = "pins" => (s.on \cup s.off) \cap ModePins = {}
      BY <3>1 DEF Staying
    <3>3. QED
      BY <1>0, <2>2, <3>2
  <2>4. ASSUME NEW f \in Flags, NEW b \in BOOLEAN, UptFlag(f, b)
        PROVE  \A s \in Pending' : s.op = "pins" => "VHF_EN" \notin s.on
    <3>1. Pending' \subseteq {FlagStep(f, b), SetRand(b)}
      BY <2>4, FlagList
    <3>2. SetRand(b).op # "pins" /\ FlagStep(f, b).on \subseteq {FlagPin[f]}
      BY DEF SetRand, FlagStep, SetPins, UnsetPins
    <3>3. FlagPin[f] # "VHF_EN"
      BY <1>0, FlagPins, FlagsHavePins
    <3>4. QED
      BY <3>1, <3>2, <3>3
  <2>5. QED
    BY <1>3, <2>2, <2>3, <2>4, CallList
<1>4. QED
  BY <1>1, <1>2, <1>3

(* The step that switches the mode is not a quiet one.                      *)
LEMMA SwitchNotQuiet == ASSUME NEW m \in Modes PROVE ~Quiet(ModeStep(m))
<1>1. ModeStep(m).op = "pins" /\ (ModeStep(m).on \cup ModeStep(m).off) \cap ModePins # {}
  BY DEF ModeStep, SetPins, UnsetPins, ModePins, ATT_SEL
<1>2. \A i : Att(i).op = "att" /\ GainIF(i).op = "gainIF"
  BY DEF Att, GainIF
<1>3. QED
  BY <1>1, <1>2 DEF Quiet

(* What settings depend on of what steps leave alone.                       *)
LEMMA SettingsFrame ==
  ASSUME UNCHANGED <<model, modeRF, extio>>
  PROVE  /\ VHF' = VHF /\ BBRF' = BBRF /\ HasR82xx' = HasR82xx
         /\ \A k : NextStep(k)' = NextStep(k)
         /\ \A s : Quiet(s)' = Quiet(s)
         /\ SwitchLength' = SwitchLength /\ ModeStepAt' = ModeStepAt
         /\ UNCHANGED <<giAttIdx, giMgcIdx, InternalLo>>
<1>1. UNCHANGED <<giAttIdx, giMgcIdx, InternalLo>>
  BY InternalLoKept DEF extio
<1>2. VHF' = VHF /\ BBRF' = BBRF /\ HasR82xx' = HasR82xx
  BY DEF VHF, BBRF, HasR82xx
<1>3. \A m : ModeStep(m)' = ModeStep(m)
  BY DEF ModeStep
<1>4. \A k : NextStep(k)' = NextStep(k)
  BY <1>1, <1>2, <1>3 DEF NextStep
<1>5. \A s : Quiet(s)' = Quiet(s)
  BY <1>1 DEF Quiet
<1>6. SwitchLength' = SwitchLength /\ ModeStepAt' = ModeStepAt
  BY <1>2 DEF SwitchLength, ModeStepAt
<1>7. QED
  BY <1>1, <1>2, <1>4, <1>5, <1>6

(* A quiet step keeps what is set, and sets what it was pending for.        *)
LEMMA RestoredStep ==
  ASSUME FormInv, TypeInv, ModeInv, switched, Step, clean', Restored
  PROVE  clean /\ Restored'
<1> DEFINE h == Head(todo)
           att == Att(giAttIdx[modeRF])
           vga == GainIF(giMgcIdx[modeRF])
<1>1. UNCHANGED <<model, modeRF, extio>> /\ Pending = {h} \cup Pending'
  BY StepLeaves, StepTakes
<1>2. dev \in Device /\ modeRF \in Modes
  BY DEF TypeInv, DeviceType, ModeInv
<1>3. Mode = modeRF
  BY <1>2, SwitchNotQuiet DEF ModeInv, Restored
<1>4. VHF => modeRF = "VHFMODE" /\ Mode = "VHFMODE"
  BY <1>3 DEF VHF
<1>5. ~VHF => modeRF = "HFMODE" /\ Mode = "HFMODE"
  BY <1>2, <1>3 DEF VHF, Modes
<1>6. Quiet(h) /\ (\A s \in Pending' : Quiet(s)') /\ Att(giAttIdx[modeRF])' = att
      /\ GainIF(giMgcIdx[modeRF])' = vga
  <2>1. \A s : Quiet(s)' = Quiet(s)
    BY <1>1, SettingsFrame
  <2>2. UNCHANGED <<giAttIdx, giMgcIdx, modeRF>>
    BY <1>1, SettingsFrame
  <2>3. QED
    BY <1>1, <2>1, <2>2 DEF Restored
<1>f. /\ VHF' = VHF /\ BBRF' = BBRF /\ HasR82xx' = HasR82xx
      /\ UNCHANGED <<giAttIdx, giMgcIdx, InternalLo, modeRF>>
  BY <1>1, SettingsFrame
<1>7. att.op = "att" /\ att.index = giAttIdx[modeRF] /\ vga.op = "gainIF"
      /\ vga.index = giMgcIdx[modeRF]
  BY DEF Att, GainIF
<1> HIDE DEF h, att, vga
<1>8. SUFFICES /\ clean /\ BaseSet'
               /\ GainSet' \/ ((GainSet => GainSet') /\ h # att)
               /\ VgaSet' \/ ((VgaSet => VgaSet') /\ h # vga)
               /\ TunedSet' \/ ((TunedSet => TunedSet') /\ h.op # "tune")
  BY <1>1, <1>6 DEF Restored, att, vga
<1>9. CASE h = att
  <2>1. AttStep
    BY <1>7, <1>9, StepByKind DEF h
  <2>2. h # vga /\ h.op # "tune"
    BY <1>7, <1>9
  <2>3. /\ clean /\ UNCHANGED <<dev.tuner, dev.asked, dev.vga, sideband, tuned>>
        /\ gpioOk => gpioOk'
        /\ Mode = "VHFMODE" =>
              /\ UNCHANGED <<dev.att, gpios, gpioOk>>
              /\ HasR82xx => dev'.rfGain = h.index
        /\ Mode = "HFMODE" =>
              /\ UNCHANGED dev.rfGain
              /\ BBRF => gpios' = (gpios \ ATT_SEL) \cup AttPins(h.index)
              /\ ~BBRF => UNCHANGED <<gpios, gpioOk>> /\ dev'.att = AttValue(h.index)
    BY <1>2, <2>1, AttCarried DEF h
  <2>4. BaseSet'
    BY <1>4, <1>f, <2>3 DEF BaseSet, Restored
  <2>5. AttPins(h.index) \subseteq ATT_SEL
    BY DEF AttPins, ATT_SEL
  <2>6. h.index = giAttIdx[modeRF]
    BY <1>7, <1>9
  <2>7. GainSet'
    <3>1. CASE VHF
      BY <1>4, <1>f, <2>3, <2>6, <3>1 DEF GainSet
    <3>2. CASE ~VHF /\ BBRF
      BY <1>5, <1>f, <2>3, <2>5, <2>6, <3>2 DEF GainSet
    <3>3. CASE ~VHF /\ ~BBRF
      BY <1>5, <1>f, <2>3, <2>6, <3>3 DEF GainSet
    <3>4. QED
      BY <3>1, <3>2, <3>3
  <2>8. (VgaSet => VgaSet') /\ (TunedSet => TunedSet')
    BY <1>f, <2>3 DEF VgaSet, TunedSet
  <2>9. QED
    BY <2>2, <2>3, <2>4, <2>7, <2>8
<1>10. CASE h = vga
  <2>1. GainIFStep
    BY <1>7, <1>10, StepByKind DEF h
  <2>2. h # att /\ h.op # "tune"
    BY <1>7, <1>10
  <2>3. /\ clean
        /\ UNCHANGED <<dev.tuner, dev.asked, dev.rfGain, dev.att, gpios, gpioOk, sideband, tuned>>
        /\ Mode = "HFMODE" /\ ~BBRF => dev'.vga = VgaByte(h.index)
        /\ Mode = "VHFMODE" => UNCHANGED dev.vga
    BY <1>2, <2>1, GainCarried DEF h
  <2>4. BaseSet'
    BY <1>4, <1>f, <2>3 DEF BaseSet, Restored
  <2>5. VgaSet'
    BY <1>5, <1>7, <1>10, <1>f, <2>3 DEF VgaSet
  <2>6. (GainSet => GainSet') /\ (TunedSet => TunedSet')
    BY <1>f, <2>3 DEF GainSet, TunedSet
  <2>7. QED
    BY <2>2, <2>3, <2>4, <2>5, <2>6
<1>11. CASE h.op = "tune" /\ h.freq = InternalLo
  <2>1. TuneStep
    BY <1>11, StepByKind DEF h
  <2>2. h # att /\ h # vga
    BY <1>7, <1>11
  <2>3. /\ clean
        /\ UNCHANGED <<dev.tuner, dev.rfGain, dev.att, dev.vga, gpios, gpioOk, sideband>>
        /\ tuned'.freq = h.freq /\ tuned'.mode = modeRF
        /\ Mode = "VHFMODE" => dev'.asked = h.freq
    BY <1>2, <2>1, TuneCarried DEF h
  <2>4. BaseSet'
    BY <1>f, <2>3 DEF BaseSet, Restored
  <2>5. TunedSet'
    BY <1>4, <1>11, <1>f, <2>3 DEF TunedSet
  <2>6. (GainSet => GainSet') /\ (VgaSet => VgaSet')
    BY <1>f, <2>3 DEF GainSet, VgaSet
  <2>7. QED
    BY <2>2, <2>3, <2>4, <2>5, <2>6
<1>12. CASE h.op \in {"adc", "rand"}
  <2>1. h # att /\ h # vga /\ h.op # "tune"
    BY <1>7, <1>12
  <2>2. clean /\ UNCHANGED <<dev, gpios, gpioOk, tuned, sideband>>
    BY <1>2, <1>12, StepByKind, OthersCarried DEF h
  <2>3. BaseSet' /\ (GainSet => GainSet') /\ (VgaSet => VgaSet') /\ (TunedSet => TunedSet')
    BY <1>f, <2>2 DEF BaseSet, GainSet, VgaSet, TunedSet, Restored
  <2>4. QED
    BY <2>1, <2>2, <2>3
<1>13. CASE h.op = "pins" /\ (h.on \cup h.off) \cap ModePins = {}
  <2>1. h # att /\ h # vga /\ h.op # "tune"
    BY <1>7, <1>13
  <2>2. PinsStep
    BY <1>13, StepByKind DEF h
  <2>3. /\ clean /\ gpioOk' = TRUE /\ gpios' = (gpios \cup h.on) \ h.off
        /\ UNCHANGED <<dev.tuner, dev.asked, dev.rfGain, dev.att, dev.vga, sideband, tuned>>
    BY <1>2, <2>2, PinsCarried DEF h
  <2>4. gpios' \cap ATT_SEL = gpios \cap ATT_SEL
    BY <1>13, <2>3 DEF ModePins
  <2>5. BaseSet' /\ (GainSet => GainSet') /\ (VgaSet => VgaSet') /\ (TunedSet => TunedSet')
    BY <1>f, <2>3, <2>4 DEF BaseSet, GainSet, VgaSet, TunedSet, Restored
  <2>6. QED
    BY <2>1, <2>3, <2>5
<1>14. QED
  BY <1>6, <1>9, <1>10, <1>11, <1>12, <1>13 DEF Quiet, att, vga

(* The steps of a list are those at its places from the end.                *)
LEMMA EndElems ==
  ASSUME NEW s, IsSteps(s)
  PROVE  Len(s) \in Nat /\ \A x \in ElemsOf(s) : \E k \in 1 .. Len(s) : x = FromEnd(s, k)
<1>1. s \in Seq(ElemsOf(s))
  BY DEF IsSteps
<1>2. Len(s) \in Nat /\ DOMAIN s = 1 .. Len(s)
  BY <1>1
<1>3. ASSUME NEW i \in 1 .. Len(s) PROVE \E k \in 1 .. Len(s) : s[i] = FromEnd(s, k)
  <2>1. Len(s) + 1 - i \in 1 .. Len(s) /\ Len(s) + 1 - (Len(s) + 1 - i) = i
    BY <1>2
  <2>2. FromEnd(s, Len(s) + 1 - i) = s[i]
    BY <2>1 DEF FromEnd
  <2>3. QED
    BY <2>1, <2>2
<1>4. QED
  BY <1>2, <1>3 DEF ElemsOf

(* A step of a switch sets what the next stage requires; the last of them,  *)
(* of the sideband, leaves the settings and the tuning pending.             *)
LEMMA UnderWayStep ==
  ASSUME FormInv, TypeInv, ModeInv, switched, Step, clean', UnderWay
  PROVE  clean /\ (Restored' \/ UnderWay')
<1> DEFINE h == Head(todo)
           n == Len(todo)
<1>1. UNCHANGED <<model, modeRF, extio>> /\ IsSteps(todo') /\ Pending' = ElemsOf(todo')
  BY StepLeaves, StepTakes DEF Pending
<1>2. dev \in Device /\ modeRF \in Modes
  BY DEF TypeInv, DeviceType, ModeInv
<1>3. ~VHF => modeRF = "HFMODE"
  BY <1>2 DEF VHF, Modes
<1>f. /\ VHF' = VHF /\ BBRF' = BBRF
      /\ \A k : NextStep(k)' = NextStep(k)
      /\ SwitchLength' = SwitchLength /\ ModeStepAt' = ModeStepAt
  BY <1>1, SettingsFrame
<1>4. /\ n \in Nat /\ n > 0 /\ Len(todo') = n - 1 /\ h = FromEnd(todo, n)
      /\ \A k \in 1 .. n - 1 : FromEnd(todo', k) = FromEnd(todo, k)
  <2>1. todo # <<>> /\ todo' = Tail(todo) /\ IsSteps(todo)
    BY StepFrame DEF FormInv
  <2>2. QED
    BY <2>1, EndTail
<1>5. n \in 4 .. SwitchLength /\ (\A k \in 1 .. n : FromEnd(todo, k) = NextStep(k)) /\ Stage(n)
  BY DEF UnderWay
<1>6. SwitchLength \in {6, 8} /\ (SwitchLength = 8 => VHF /\ ~BBRF) /\ ModeStepAt \in {5, 6, 7}
  BY DEF SwitchLength, ModeStepAt
<1>7. n \in {4, 5, 6, 7, 8} /\ (n > 6 => VHF /\ ~BBRF) /\ 4 <= n /\ n <= SwitchLength
  <2>1. 4 <= n /\ n <= SwitchLength
    BY <1>4, <1>5, <1>6
  <2> HIDE DEF n
  <2>2. CASE SwitchLength = 6
    BY <1>4, <2>1, <2>2
  <2>3. CASE SwitchLength = 8
    BY <1>4, <1>6, <2>1, <2>3
  <2>4. QED
    BY <1>6, <2>2, <2>3
<1>8. h = NextStep(n)
  <2>1. n \in 1 .. n
    BY <1>4
  <2>2. QED
    BY <1>4, <1>5, <2>1
<1>9. \A k \in 1 .. n - 1 : FromEnd(todo', k) = NextStep(k)'
  <2>1. \A k \in 1 .. n - 1 : k \in 1 .. n
    BY <1>4
  <2>2. QED
    BY <1>4, <1>5, <1>f, <2>1
<1> HIDE DEF h
<1>k. /\ \A i : Att(i).op = "att" /\ Att(i).index = i
      /\ \A m : ModeStep(m).op = "pins"
      /\ \A b : Vga(b).op = "vga" /\ Vga(b).byte = b
      /\ TunerInit.op = "init" /\ TunerStdby.op = "stdby"
      /\ \A b : SetSideband(b).op = "sideband" /\ SetSideband(b).value = b
  BY ModeStepIsPins DEF Att, Vga, TunerInit, TunerStdby, SetSideband
<1>10. ASSUME NEW j \in 4 .. 7, n = j + 1, Stage(j)' PROVE UnderWay'
  <2>1. Len(todo') = j
    BY <1>4, <1>10
  <2>2. j \in 4 .. SwitchLength
    BY <1>6, <1>7, <1>10
  <2>3. \A k \in 1 .. j : FromEnd(todo', k) = NextStep(k)'
    BY <1>9, <1>10
  <2>4. Stage(Len(todo))'
    BY <1>10, <2>1 DEF Stage
  <2>5. QED
    BY <1>f, <2>1, <2>2, <2>3, <2>4 DEF UnderWay
<1>11. CASE n = 8
  <2>1. VHF /\ ~BBRF /\ h = Att(0) /\ Mode = "HFMODE"
    BY <1>5, <1>6, <1>8, <1>11 DEF NextStep, Stage
  <2>2. AttStep /\ h.index = 0
    BY <1>k, <2>1, StepByKind DEF h
  <2>3. clean /\ dev'.att = AttValue(0)
    BY <1>2, <2>1, <2>2, AttCarried DEF h
  <2>4. AttValue(0) = MaxAttenuation
    BY SMT DEF AttValue, Clamp, hf_rf_step_size, MaxAttenuation
  <2>5. Stage(7)'
    BY <1>f, <2>1, <2>3, <2>4 DEF Stage, ModeStepAt
  <2>6. n = 7 + 1 /\ 7 \in 4 .. 7
    BY <1>11
  <2>7. QED
    BY <1>10, <1>11, <2>3, <2>5, <2>6
<1>12. CASE n = 7
  <2>1. VHF /\ ~BBRF /\ h = ModeStep(modeRF) /\ dev.att = MaxAttenuation
    BY <1>5, <1>6, <1>8, <1>12 DEF NextStep, Stage
  <2>2. PinsStep
    BY <1>k, <2>1, StepByKind DEF h
  <2>3. clean /\ gpioOk' = TRUE /\ UNCHANGED <<dev.att, dev.vga>>
    BY <1>2, <2>2, PinsCarried
  <2>4. Stage(6)'
    BY <1>f, <2>1, <2>3 DEF Stage
  <2>5. n = 6 + 1 /\ 6 \in 4 .. 7
    BY <1>12
  <2>6. QED
    BY <1>10, <1>12, <2>3, <2>4, <2>5
<1>13. CASE n = 6 /\ VHF /\ ~BBRF
  <2>1. h = Vga(VgaOfVhf) /\ dev.att = MaxAttenuation /\ gpioOk
    BY <1>5, <1>8, <1>13 DEF NextStep, Stage, ModeStepAt
  <2>2. VgaStep /\ h.byte = VgaOfVhf
    BY <1>k, <2>1, StepByKind DEF h
  <2>3. clean /\ dev'.vga = VgaOfVhf /\ UNCHANGED <<dev.att, gpioOk>>
    BY <1>2, <2>2, OthersCarried DEF h
  <2>4. Stage(5)'
    BY <1>f, <1>13, <2>1, <2>3 DEF Stage
  <2>5. n = 5 + 1 /\ 5 \in 4 .. 7
    BY <1>13
  <2>6. QED
    BY <1>10, <1>13, <2>3, <2>4, <2>5
<1>14. CASE n = 6 /\ VHF /\ BBRF
  <2>1. h = ModeStep(modeRF)
    BY <1>8, <1>14 DEF NextStep
  <2>2. PinsStep
    BY <1>k, <2>1, StepByKind DEF h
  <2>3. clean /\ gpioOk' = TRUE
    BY <1>2, <2>2, PinsCarried
  <2>4. Stage(5)'
    BY <1>f, <1>14, <2>3 DEF Stage
  <2>5. n = 5 + 1 /\ 5 \in 4 .. 7
    BY <1>14
  <2>6. QED
    BY <1>10, <1>14, <2>3, <2>4, <2>5
<1>15. CASE n = 6 /\ ~VHF
  <2>1. h = TunerStdby
    BY <1>8, <1>15 DEF NextStep
  <2>2. TunerStep /\ h.op = "stdby"
    BY <1>k, <2>1, StepByKind DEF h
  <2>3. clean /\ dev'.tuner # "ready"
    BY <1>2, <2>2, OthersCarried DEF h
  <2>4. Stage(5)'
    BY <1>f, <1>15, <2>3 DEF Stage, ModeStepAt
  <2>5. n = 5 + 1 /\ 5 \in 4 .. 7
    BY <1>15
  <2>6. QED
    BY <1>10, <1>15, <2>3, <2>4, <2>5
<1>16. CASE n = 5 /\ VHF
  <2>1. h = TunerInit /\ gpioOk /\ (~BBRF => dev.att = MaxAttenuation /\ dev.vga = VgaOfVhf)
    BY <1>5, <1>8, <1>16 DEF NextStep, Stage, ModeStepAt
  <2>2. TunerStep /\ h.op = "init"
    BY <1>k, <2>1, StepByKind DEF h
  <2>3. clean /\ dev'.tuner = "ready" /\ UNCHANGED <<dev.att, dev.vga, gpioOk>>
    BY <1>2, <2>2, OthersCarried DEF h
  <2>4. Stage(4)'
    BY <1>f, <1>16, <2>1, <2>3 DEF Stage
  <2>5. n = 4 + 1 /\ 4 \in 4 .. 7
    BY <1>16
  <2>6. QED
    BY <1>10, <1>16, <2>3, <2>4, <2>5
<1>17. CASE n = 5 /\ ~VHF
  <2>1. h = ModeStep(modeRF) /\ dev.tuner # "ready"
    BY <1>5, <1>8, <1>17 DEF NextStep, Stage
  <2>2. PinsStep
    BY <1>k, <2>1, StepByKind DEF h
  <2>3. clean /\ gpioOk' = TRUE /\ UNCHANGED dev.tuner
    BY <1>2, <2>2, PinsCarried
  <2>4. Stage(4)'
    BY <1>f, <1>17, <2>1, <2>3 DEF Stage
  <2>5. n = 4 + 1 /\ 4 \in 4 .. 7
    BY <1>17
  <2>6. QED
    BY <1>10, <1>17, <2>3, <2>4, <2>5
<1>18. CASE n = 4
  <2>1. h = SetSideband(VHF) /\ gpioOk
    BY <1>5, <1>6, <1>8, <1>18 DEF NextStep, Stage
  <2>2. R2iqStep /\ h.op = "sideband" /\ h.value = VHF
    BY <1>k, <2>1, StepByKind DEF h
  <2>3. clean /\ sideband' = VHF /\ UNCHANGED <<dev, gpioOk>>
    BY <1>2, <2>2, OthersCarried DEF h
  <2>4. BaseSet'
    BY <1>5, <1>18, <1>f, <2>1, <2>3 DEF Stage, BaseSet
  <2>5. Len(todo') = 3 /\ n - 1 = 3 /\ 1 .. 3 = {1, 2, 3}
    BY <1>4, <1>18
  <2>6. /\ FromEnd(todo', 1) = NextStep(1)' /\ FromEnd(todo', 2) = NextStep(2)'
        /\ FromEnd(todo', 3) = NextStep(3)'
    BY <1>9, <2>5
  <2>7. /\ NextStep(1)' = Tune(InternalLo, "SetHWLO")' /\ NextStep(2)' = Att(giAttIdx[modeRF])'
        /\ NextStep(3)' = GainIF(giMgcIdx[modeRF])'
    BY DEF NextStep
  <2>8. /\ Tune(InternalLo, "SetHWLO")' \in Pending' /\ Att(giAttIdx[modeRF])' \in Pending'
        /\ GainIF(giMgcIdx[modeRF])' \in Pending'
    <3>1. \A k \in 1 .. 3 : Len(todo') + 1 - k \in 1 .. Len(todo')
      BY <2>5
    <3>2. DOMAIN todo' = 1 .. Len(todo')
      <4> DEFINE t == todo'
      <4>1. t \in Seq(ElemsOf(t))
        BY <1>1 DEF IsSteps
      <4> HIDE DEF t
      <4>2. DOMAIN t = 1 .. Len(t)
        BY <4>1
      <4>3. QED
        BY <4>2 DEF t
    <3>3. \A k \in 1 .. 3 : FromEnd(todo', k) \in Pending'
      BY <1>1, <3>1, <3>2 DEF FromEnd, ElemsOf
    <3>4. QED
      BY <2>5, <2>6, <2>7, <3>3
  <2>9. \A s \in Pending' : \/ s = Tune(InternalLo, "SetHWLO")' \/ s = Att(giAttIdx[modeRF])'
                            \/ s = GainIF(giMgcIdx[modeRF])'
    <3>1. \A s \in Pending' : \E k \in 1 .. Len(todo') : s = FromEnd(todo', k)
      BY <1>1, EndElems
    <3>2. QED
      BY <2>5, <2>6, <2>7, <3>1
  <2>10. /\ Tune(InternalLo, "SetHWLO")'.op = "tune"
         /\ Tune(InternalLo, "SetHWLO")'.freq = InternalLo'
    BY DEF Tune
  <2>11. \A s \in Pending' : Quiet(s)'
    BY <2>9, <2>10 DEF Quiet
  <2>12. Restored'
    BY <2>4, <2>8, <2>10, <2>11 DEF Restored
  <2>13. QED
    BY <2>3, <2>12
<1>19. QED
  BY <1>7, <1>11, <1>12, <1>13, <1>14, <1>15, <1>16, <1>17, <1>18

(* The list a switch begins with, counted from the end.                     *)
LEMMA SwitchEnd ==
  ASSUME NEW f, NEW m \in Modes,
         todo' = ((ModeSteps(model, m) \o <<SetSideband(m = "VHFMODE")>>) \o Settings(m))
                    \o <<Tune(f, "SetHWLO")>>
  PROVE  LET a == ModeSteps(model, m) IN
         /\ Len(a) \in Nat /\ Len(todo') = Len(a) + 4
         /\ FromEnd(todo', 1) = Tune(f, "SetHWLO") /\ FromEnd(todo', 2) = Att(giAttIdx[m])
         /\ FromEnd(todo', 3) = GainIF(giMgcIdx[m])
         /\ FromEnd(todo', 4) = SetSideband(m = "VHFMODE")
         /\ \A k \in 5 .. Len(a) + 4 : FromEnd(todo', k) = FromEnd(a, k - 4)
<1> DEFINE a == ModeSteps(model, m)
           x == SetSideband(m = "VHFMODE")
           y == GainIF(giMgcIdx[m])
           z == Att(giAttIdx[m])
           w == Tune(f, "SetHWLO")
           b == <<x>>
           c == <<y, z>>
           d == <<w>>
           t == todo'
<1>1. IsSteps(a)
  BY SwitchElems
<1>2. IsSteps(b) /\ IsSteps(c) /\ IsSteps(d)
  BY ElemsList
<1>3. /\ Len(b) = 1 /\ FromEnd(b, 1) = x /\ Len(c) = 2 /\ FromEnd(c, 1) = z /\ FromEnd(c, 2) = y
      /\ Len(d) = 1 /\ FromEnd(d, 1) = w
  BY EndList
<1>4. t = ((a \o b) \o c) \o d
  BY DEF Settings
<1> HIDE DEF a, x, y, z, w, b, c, d, t
<1>5. IsSteps(a \o b) /\ IsSteps((a \o b) \o c)
  BY <1>1, <1>2, ElemsCat
<1>6. /\ Len(a) \in Nat /\ Len(a \o b) = Len(a) + 1 /\ FromEnd(a \o b, 1) = x
      /\ \A k \in 2 .. Len(a) + 1 : FromEnd(a \o b, k) = FromEnd(a, k - 1)
  <2>1. /\ Len(a) \in Nat /\ Len(a \o b) = Len(a) + Len(b)
        /\ \A k \in 1 .. Len(b) : FromEnd(a \o b, k) = FromEnd(b, k)
        /\ \A k \in Len(b) + 1 .. Len(a) + Len(b) : FromEnd(a \o b, k) = FromEnd(a, k - Len(b))
    <3>1. IsSteps(a) /\ IsSteps(b)
      BY <1>1, <1>2
    <3>2. QED
      BY <3>1, EndCat
  <2>2. 1 \in 1 .. Len(b) /\ Len(b) + 1 = 2
    BY <1>3
  <2>3. QED
    BY <1>3, <2>1, <2>2
<1> DEFINE e == a \o b
<1> HIDE DEF e
<1>7. /\ Len(e \o c) = Len(a) + 3 /\ FromEnd(e \o c, 1) = z /\ FromEnd(e \o c, 2) = y
      /\ FromEnd(e \o c, 3) = x
      /\ \A k \in 4 .. Len(a) + 3 : FromEnd(e \o c, k) = FromEnd(a, k - 3)
  <2>1. /\ Len(e) \in Nat /\ Len(e \o c) = Len(e) + Len(c)
        /\ \A k \in 1 .. Len(c) : FromEnd(e \o c, k) = FromEnd(c, k)
        /\ \A k \in Len(c) + 1 .. Len(e) + Len(c) : FromEnd(e \o c, k) = FromEnd(e, k - Len(c))
    <3>1. IsSteps(e) /\ IsSteps(c)
      BY <1>2, <1>5 DEF e
    <3>2. QED
      BY <3>1, EndCat
  <2>2. Len(e) = Len(a) + 1 /\ 1 \in 1 .. Len(c) /\ 2 \in 1 .. Len(c)
    BY <1>3, <1>6 DEF e
  <2>3. Len(e \o c) = Len(a) + 3 /\ FromEnd(e \o c, 1) = z /\ FromEnd(e \o c, 2) = y
    BY <1>3, <1>6, <2>1, <2>2
  <2>4. \A k \in 3 .. Len(a) + 3 : FromEnd(e \o c, k) = FromEnd(e, k - 2)
    BY <1>3, <1>6, <2>1, <2>2
  <2>5. \A k \in 2 .. Len(a) + 1 : FromEnd(e, k) = FromEnd(a, k - 1)
    BY <1>6 DEF e
  <2>6. ASSUME NEW k \in 4 .. Len(a) + 3 PROVE FromEnd(e \o c, k) = FromEnd(a, k - 3)
    <3>1. k \in 3 .. Len(a) + 3 /\ k - 2 \in 2 .. Len(a) + 1 /\ (k - 2) - 1 = k - 3
      BY <1>6
    <3>2. FromEnd(e, k - 2) = FromEnd(a, (k - 2) - 1)
      BY <2>5, <3>1
    <3>3. QED
      BY <2>4, <3>1, <3>2
  <2>7. 3 \in 3 .. Len(a) + 3 /\ 3 - 2 = 1
    BY <1>6
  <2>8. FromEnd(e \o c, 3) = x
    BY <1>6, <2>4, <2>7 DEF e
  <2>9. QED
    BY <2>3, <2>6, <2>8
<1> DEFINE g == e \o c
<1> HIDE DEF g
<1>8. /\ Len(g) \in Nat /\ Len(g \o d) = Len(g) + Len(d)
      /\ \A k \in 1 .. Len(d) : FromEnd(g \o d, k) = FromEnd(d, k)
      /\ \A k \in Len(d) + 1 .. Len(g) + Len(d) : FromEnd(g \o d, k) = FromEnd(g, k - Len(d))
  <2>1. IsSteps(g) /\ IsSteps(d)
    BY <1>2, <1>5 DEF g, e
  <2>2. QED
    BY <2>1, EndCat
<1>9. /\ Len(g) = Len(a) + 3 /\ FromEnd(g, 1) = z /\ FromEnd(g, 2) = y /\ FromEnd(g, 3) = x
      /\ \A k \in 4 .. Len(a) + 3 : FromEnd(g, k) = FromEnd(a, k - 3)
  BY <1>7 DEF g
<1>10. t = g \o d
  BY <1>4 DEF g, e
<1>11. Len(t) = Len(a) + 4
  BY <1>3, <1>6, <1>8, <1>9, <1>10
<1>12. FromEnd(t, 1) = w
  <2>1. 1 \in 1 .. Len(d)
    BY <1>3
  <2>2. QED
    BY <1>3, <1>8, <1>10, <2>1
<1>13. \A k \in 2 .. Len(a) + 4 : FromEnd(t, k) = FromEnd(g, k - 1)
  BY <1>3, <1>6, <1>8, <1>9, <1>10
<1>14. FromEnd(t, 2) = z /\ FromEnd(t, 3) = y /\ FromEnd(t, 4) = x
  <2>1. 2 \in 2 .. Len(a) + 4 /\ 3 \in 2 .. Len(a) + 4 /\ 4 \in 2 .. Len(a) + 4
    BY <1>6
  <2>2. 2 - 1 = 1 /\ 3 - 1 = 2 /\ 4 - 1 = 3
    OBVIOUS
  <2>3. QED
    BY <1>9, <1>13, <2>1, <2>2
<1>15. ASSUME NEW k \in 5 .. Len(a) + 4 PROVE FromEnd(t, k) = FromEnd(a, k - 4)
  <2>1. k \in 2 .. Len(a) + 4 /\ k - 1 \in 4 .. Len(a) + 3 /\ (k - 1) - 3 = k - 4
    BY <1>6
  <2>2. FromEnd(g, k - 1) = FromEnd(a, (k - 1) - 3)
    BY <1>9, <2>1
  <2>3. QED
    BY <1>13, <2>1, <2>2
<1>16. QED
  BY <1>6, <1>11, <1>12, <1>14, <1>15 DEF a, x, y, z, w, t

(* The steps of the switch itself.                                          *)
LEMMA SwitchStepsEnd ==
  ASSUME NEW m \in Modes
  PROVE  LET a == ModeSteps(model, m) IN
         /\ m = "VHFMODE" /\ model # "BBRF103" =>
              /\ Len(a) = 4 /\ FromEnd(a, 1) = TunerInit /\ FromEnd(a, 2) = Vga(VgaOfVhf)
              /\ FromEnd(a, 3) = ModeStep(m) /\ FromEnd(a, 4) = Att(0)
         /\ m = "VHFMODE" /\ model = "BBRF103" =>
              Len(a) = 2 /\ FromEnd(a, 1) = TunerInit /\ FromEnd(a, 2) = ModeStep(m)
         /\ m # "VHFMODE" =>
              Len(a) = 2 /\ FromEnd(a, 1) = ModeStep(m) /\ FromEnd(a, 2) = TunerStdby
<1> DEFINE a == ModeSteps(model, m)
<1>1. CASE m = "VHFMODE" /\ model # "BBRF103"
  <2>1. /\ a = <<Att(0), SetPins({"VHF_EN"}), Vga(VgaOfVhf), TunerInit>>
        /\ ModeStep(m) = SetPins({"VHF_EN"})
    BY <1>1 DEF ModeSteps, ModeStep
  <2> HIDE DEF a
  <2>2. /\ Len(a) = 4 /\ FromEnd(a, 1) = TunerInit /\ FromEnd(a, 2) = Vga(VgaOfVhf)
        /\ FromEnd(a, 3) = SetPins({"VHF_EN"}) /\ FromEnd(a, 4) = Att(0)
    BY <2>1, EndList
  <2>3. QED
    BY <1>1, <2>1, <2>2 DEF a
<1>2. CASE m = "VHFMODE" /\ model = "BBRF103"
  <2>1. a = <<UnsetPins(ATT_SEL), TunerInit>> /\ ModeStep(m) = UnsetPins(ATT_SEL)
    BY <1>2 DEF ModeSteps, ModeStep
  <2> HIDE DEF a
  <2>2. Len(a) = 2 /\ FromEnd(a, 1) = TunerInit /\ FromEnd(a, 2) = UnsetPins(ATT_SEL)
    BY <2>1, EndList
  <2>3. QED
    BY <1>2, <2>1, <2>2 DEF a
<1>3. CASE m # "VHFMODE"
  <2>1. a = <<TunerStdby, ModeStep(m)>>
    BY <1>3 DEF ModeSteps, ModeStep
  <2> HIDE DEF a
  <2>2. Len(a) = 2 /\ FromEnd(a, 1) = ModeStep(m) /\ FromEnd(a, 2) = TunerStdby
    BY <2>1, EndList
  <2>3. QED
    BY <1>3, <2>2 DEF a
<1>4. QED
  BY <1>1, <1>2, <1>3

(* The LO SetHWLOdbl tunes is the one that follows from what it remembers.  *)
LEMMA HwloKeepsLo ==
  ASSUME TypeInv, NEW f \in Freqs, SetHWLOdbl(f)
  PROVE  IF PrepareLo(model, f, adcrate) = "NOMODE" THEN InternalLo' = InternalLo
         ELSE InternalLo' = LoFor(f)
<1>1. CASE PrepareLo(model, f, adcrate) = "NOMODE"
  BY <1>1, InternalLoKept DEF SetHWLOdbl
<1>2. CASE PrepareLo(model, f, adcrate) # "NOMODE"
  <2>1. /\ gfLOfreq' = [freq |-> LoFor(f), ppm |-> gfFreqCorrectionPpm]
        /\ gfFreqCorrectionPpm' = gfFreqCorrectionPpm
    BY <1>2 DEF SetHWLOdbl, LoFor
  <2>2. InternalLo' = Corrected(gfLOfreq', gfFreqCorrectionPpm')
    BY DEF InternalLo, Corrected, Factor
  <2>3. QED
    BY <1>2, <2>1, <2>2, LoForKept DEF TypeInv
<1>3. QED
  BY <1>1, <1>2

(* A frequency of the other mode begins a switch.                           *)
LEMMA SwitchBegins ==
  ASSUME TypeInv, ModeInv, PinInv, NEW f \in Freqs, SetHWLOdbl(f),
         NEW m \in Modes, m = PrepareLo(model, f, adcrate), modeRF # m
  PROVE  UnderWay'
<1> DEFINE lo == LoFor(f)
<1>1. /\ modeRF' = m /\ InternalLo' = lo /\ todo = <<>>
      /\ UNCHANGED <<model, giAttIdx, giMgcIdx, gpios, dev>>
  BY HwloKeepsLo DEF SetHWLOdbl, Switch, Call, Modes
<1>2. todo' = ((ModeSteps(model, m) \o <<SetSideband(m = "VHFMODE")>>) \o Settings(m))
                 \o <<Tune(lo, "SetHWLO")>>
  BY DEF SetHWLOdbl, SwitchSteps, Modes, LoFor
<1> HIDE DEF lo
<1> DEFINE a == ModeSteps(model, m)
           t == todo'
           n == Len(t)
<1>3. /\ Len(a) \in Nat /\ n = Len(a) + 4
      /\ FromEnd(t, 1) = Tune(lo, "SetHWLO") /\ FromEnd(t, 2) = Att(giAttIdx[m])
      /\ FromEnd(t, 3) = GainIF(giMgcIdx[m]) /\ FromEnd(t, 4) = SetSideband(m = "VHFMODE")
      /\ \A k \in 5 .. Len(a) + 4 : FromEnd(t, k) = FromEnd(a, k - 4)
  BY <1>2, SwitchEnd
<1>4. /\ VHF' = (m = "VHFMODE") /\ BBRF' = (model = "BBRF103")
      /\ ModeStep(modeRF)' = ModeStep(m)
  BY <1>1 DEF VHF, BBRF, ModeStep
<1>5. /\ NextStep(1)' = Tune(lo, "SetHWLO") /\ NextStep(2)' = Att(giAttIdx[m])
      /\ NextStep(3)' = GainIF(giMgcIdx[m]) /\ NextStep(4)' = SetSideband(m = "VHFMODE")
      /\ NextStep(5)' = IF m = "VHFMODE" THEN TunerInit ELSE ModeStep(m)
      /\ NextStep(6)' = IF m # "VHFMODE" THEN TunerStdby
                        ELSE IF model = "BBRF103" THEN ModeStep(m) ELSE Vga(VgaOfVhf)
      /\ NextStep(7)' = ModeStep(m) /\ NextStep(8)' = Att(0)
  <2>1. /\ NextStep(1)' = Tune(lo, "SetHWLO") /\ NextStep(2)' = Att(giAttIdx[m])
        /\ NextStep(3)' = GainIF(giMgcIdx[m]) /\ NextStep(8)' = Att(0)
    BY <1>1 DEF NextStep
  <2>2. NextStep(4)' = SetSideband(VHF)' /\ NextStep(7)' = ModeStep(modeRF)'
    BY DEF NextStep
  <2>3. SetSideband(VHF)' = SetSideband(m = "VHFMODE")
    BY <1>4
  <2>4. NextStep(5)' = IF VHF' THEN TunerInit ELSE ModeStep(modeRF)'
    BY DEF NextStep
  <2>5. NextStep(6)' = IF ~VHF' THEN TunerStdby
                       ELSE IF BBRF' THEN ModeStep(modeRF)' ELSE Vga(VgaOfVhf)
    BY DEF NextStep
  <2>6. NextStep(5)' = IF m = "VHFMODE" THEN TunerInit ELSE ModeStep(m)
    BY <1>4, <2>4
  <2>7. NextStep(6)' = IF m # "VHFMODE" THEN TunerStdby
                       ELSE IF model = "BBRF103" THEN ModeStep(m) ELSE Vga(VgaOfVhf)
    BY <1>4, <2>5
  <2>8. QED
    BY <1>4, <2>1, <2>2, <2>3, <2>6, <2>7
<1>6. ASSUME m = "VHFMODE", model # "BBRF103"
      PROVE  /\ n = 8 /\ SwitchLength' = 8
             /\ \A k \in 5 .. 8 : FromEnd(t, k) = NextStep(k)'
  <2>1. /\ Len(a) = 4
        /\ FromEnd(a, 1) = TunerInit /\ FromEnd(a, 2) = Vga(VgaOfVhf)
        /\ FromEnd(a, 3) = ModeStep(m) /\ FromEnd(a, 4) = Att(0)
    BY <1>6, SwitchStepsEnd
  <2>2. SwitchLength' = 8
    BY <1>4, <1>6 DEF SwitchLength
  <2> HIDE DEF a, t
  <2>3. n = 8 /\ \A k \in 5 .. 8 : FromEnd(t, k) = FromEnd(a, k - 4)
    BY <1>3, <2>1
  <2>4. /\ 5 .. 8 = {5, 6, 7, 8}
        /\ 5 - 4 = 1 /\ 6 - 4 = 2 /\ 7 - 4 = 3 /\ 8 - 4 = 4
    OBVIOUS
  <2>5. /\ FromEnd(t, 5) = TunerInit /\ FromEnd(t, 6) = Vga(VgaOfVhf)
        /\ FromEnd(t, 7) = ModeStep(m) /\ FromEnd(t, 8) = Att(0)
    BY <2>1, <2>3, <2>4
  <2>6. \A k \in 5 .. 8 : FromEnd(t, k) = NextStep(k)'
    BY <1>5, <1>6, <2>4, <2>5
  <2>7. QED
    BY <2>2, <2>3, <2>6
<1>7. ASSUME m = "VHFMODE", model = "BBRF103"
      PROVE  /\ n = 6 /\ SwitchLength' = 6
             /\ \A k \in 5 .. 6 : FromEnd(t, k) = NextStep(k)'
  <2>1. /\ Len(a) = 2
        /\ FromEnd(a, 1) = TunerInit /\ FromEnd(a, 2) = ModeStep(m)
    BY <1>7, SwitchStepsEnd
  <2>2. SwitchLength' = 6
    BY <1>4, <1>7 DEF SwitchLength
  <2> HIDE DEF a, t
  <2>3. n = 6 /\ \A k \in 5 .. 6 : FromEnd(t, k) = FromEnd(a, k - 4)
    BY <1>3, <2>1
  <2>4. /\ 5 .. 6 = {5, 6}
        /\ 5 - 4 = 1 /\ 6 - 4 = 2
    OBVIOUS
  <2>5. FromEnd(t, 5) = TunerInit /\ FromEnd(t, 6) = ModeStep(m)
    BY <2>1, <2>3, <2>4
  <2>6. \A k \in 5 .. 6 : FromEnd(t, k) = NextStep(k)'
    BY <1>5, <1>7, <2>4, <2>5
  <2>7. QED
    BY <2>2, <2>3, <2>6
<1>8. ASSUME m # "VHFMODE"
      PROVE  /\ n = 6 /\ SwitchLength' = 6
             /\ \A k \in 5 .. 6 : FromEnd(t, k) = NextStep(k)'
  <2>1. /\ Len(a) = 2
        /\ FromEnd(a, 1) = ModeStep(m) /\ FromEnd(a, 2) = TunerStdby
    BY <1>8, SwitchStepsEnd
  <2>2. SwitchLength' = 6
    BY <1>4, <1>8 DEF SwitchLength
  <2> HIDE DEF a, t
  <2>3. n = 6 /\ \A k \in 5 .. 6 : FromEnd(t, k) = FromEnd(a, k - 4)
    BY <1>3, <2>1
  <2>4. /\ 5 .. 6 = {5, 6}
        /\ 5 - 4 = 1 /\ 6 - 4 = 2
    OBVIOUS
  <2>5. FromEnd(t, 5) = ModeStep(m) /\ FromEnd(t, 6) = TunerStdby
    BY <2>1, <2>3, <2>4
  <2>6. \A k \in 5 .. 6 : FromEnd(t, k) = NextStep(k)'
    BY <1>5, <1>8, <2>4, <2>5
  <2>7. QED
    BY <2>2, <2>3, <2>6
<1>9. /\ n = SwitchLength' /\ SwitchLength' \in {6, 8}
      /\ \A k \in 5 .. n : FromEnd(t, k) = NextStep(k)'
  BY <1>6, <1>7, <1>8
<1>10. \A k \in 1 .. n : FromEnd(t, k) = NextStep(k)'
  <2> HIDE DEF t, a
  <2>1. n \in Nat
    BY <1>9
  <2>2. \A k \in 1 .. n : k = 1 \/ k = 2 \/ k = 3 \/ k = 4 \/ k \in 5 .. n
    BY <2>1
  <2>3. QED
    BY <1>3, <1>5, <1>9, <2>2
<1>11. VHF' /\ ~BBRF' => Mode' = "HFMODE"
  <2>1. SUFFICES ASSUME m = "VHFMODE", model # "BBRF103" PROVE "VHF_EN" \notin gpios
    BY <1>1, <1>4 DEF Mode, HardwareMode
  <2>2. CASE ~switched
    BY <2>2 DEF PinInv
  <2>3. CASE switched
    <3>1. Pending = {}
      BY <1>1, ElemsList DEF Pending
    <3>2. Mode = modeRF
      BY <2>3, <3>1 DEF ModeInv
    <3>3. QED
      BY <2>1, <3>2 DEF Mode, HardwareMode
  <2>4. QED
    BY <2>2, <2>3
<1>12. Stage(Len(todo))'
  <2>1. CASE VHF' /\ ~BBRF'
    <3>1. n = 8 /\ ModeStepAt' = 7
      BY <1>4, <1>6, <2>1 DEF ModeStepAt
    <3>2. QED
      BY <1>11, <2>1, <3>1 DEF Stage
  <2>2. CASE ~(VHF' /\ ~BBRF')
    <3>1. n = 6 /\ ModeStepAt' \in {5, 6}
      BY <1>4, <1>7, <1>8, <2>2 DEF ModeStepAt
    <3>2. QED
      BY <2>2, <3>1 DEF Stage
  <2>3. QED
    BY <2>1, <2>2
<1>13. n \in 4 .. SwitchLength'
  <2> HIDE DEF n
  <2>1. QED
    BY <1>9
<1>14. QED
  BY <1>10, <1>12, <1>13 DEF UnderWay

(* No step restores clean once a command has failed.                        *)
LEMMA StepAnswered == ASSUME TypeInv, Step, clean' PROVE clean
<1>1. dev \in Device
  BY DEF TypeInv, DeviceType
<1>2. TunerStep => Head(todo).op \in {"init", "stdby"}
  BY DEF TunerStep, Done
<1>3. QED
  BY <1>1, <1>2, PinsCarried, AttCarried, GainCarried, OthersCarried, TuneCarried DEF Step

(* The settings of the mode, of which SettingsOfMode is the open case.      *)
Settled == BaseSet /\ GainSet /\ VgaSet /\ TunedSet

(* Between calls the settings are those of the mode.                        *)
LEMMA SettledBetween ==
  ASSUME SettingsInv, todo = <<>>, front = "ExtIO", switched, clean
  PROVE  Settled
<1>1. Pending = {} /\ Len(todo) = 0
  BY ElemsList, EndList DEF Pending
<1>2. ~UnderWay
  <2>1. Len(todo) \notin 4 .. SwitchLength
    BY <1>1 DEF SwitchLength
  <2>2. QED
    BY <2>1 DEF UnderWay
<1>3. QED
  BY <1>1, <1>2 DEF SettingsInv, Restored, Settled

(* What a setting is compared with on the side of the device.               *)
DeviceSide == <<model, modeRF, dev, gpios, gpioOk, sideband, tuned>>

(* Calls that leave the device and the settings alone.                      *)
LEMMA SettledKept ==
  ASSUME Settled, UNCHANGED DeviceSide
  PROVE  /\ BaseSet'
         /\ giAttIdx' = giAttIdx => GainSet'
         /\ giMgcIdx' = giMgcIdx => VgaSet'
         /\ InternalLo' = InternalLo => TunedSet'
<1>1. VHF' = VHF /\ BBRF' = BBRF /\ HasR82xx' = HasR82xx
  BY DEF DeviceSide, VHF, BBRF, HasR82xx
<1>2. BaseSet'
  BY <1>1 DEF Settled, BaseSet, DeviceSide
<1>3. giAttIdx' = giAttIdx => GainSet'
  BY <1>1 DEF Settled, GainSet, DeviceSide
<1>4. giMgcIdx' = giMgcIdx => VgaSet'
  BY <1>1 DEF Settled, VgaSet, DeviceSide
<1>5. InternalLo' = InternalLo => TunedSet'
  BY <1>1 DEF Settled, TunedSet, DeviceSide
<1>6. QED
  BY <1>2, <1>3, <1>4, <1>5

(* Calls that switch nothing, and change no setting they leave no step for. *)
LEMMA QuietCall ==
  ASSUME SettingsInv, todo = <<>>, front = "ExtIO", switched, clean, UNCHANGED DeviceSide,
         \A s \in Pending' : Quiet(s)',
         giAttIdx' = giAttIdx \/ Att(giAttIdx[modeRF])' \in Pending',
         giMgcIdx' = giMgcIdx \/ GainIF(giMgcIdx[modeRF])' \in Pending',
         InternalLo' = InternalLo \/ \E s \in Pending' : s.op = "tune"
  PROVE  Restored'
<1>1. Settled
  BY SettledBetween
<1>2. QED
  BY <1>1, SettledKept DEF Restored

(* Every call of the plug-in finds the settings those of the mode, and      *)
(* leaves them so, with steps pending that make them so, or with a switch   *)
(* begun.                                                                   *)
LEMMA SettingsCall ==
  ASSUME TypeInv, ModeInv, PinInv, SettingsInv, Next, ~Step
  PROVE  SettingsInv'
<1> SUFFICES ASSUME front = "ExtIO", switched', clean' PROVE Restored' \/ UnderWay'
  BY CallUnaltered DEF SettingsInv, Unaltered
<1>0. todo = <<>> /\ UNCHANGED <<model, dev, sideband, tuned>>
  BY CallFrame, CallUnaltered DEF Unaltered
<1>k. /\ \A i : /\ Att(i).op = "att" /\ GainIF(i).op = "gainIF" /\ StartAdc(i).op = "adc"
                /\ SetRand(i).op = "rand"
      /\ \A f, by : Tune(f, by).op = "tune" /\ Tune(f, by).freq = f
      /\ \A p : /\ SetPins(p).op = "pins" /\ SetPins(p).on \cup SetPins(p).off = p
                /\ UnsetPins(p).op = "pins" /\ UnsetPins(p).on \cup UnsetPins(p).off = p
  BY DEF Att, GainIF, StartAdc, SetRand, Tune, SetPins, UnsetPins
<1>m. ASSUME switched PROVE modeRF \in Modes /\ HandlerMode = modeRF
  BY <1>m DEF ModeInv, HandlerMode, Modes
<1>l. UNCHANGED <<gfLOfreq, gfFreqCorrectionPpm>> => InternalLo' = InternalLo
  BY InternalLoKept
<1>1. ASSUME NEW f \in Freqs, SetHWLOdbl(f) PROVE Restored' \/ UnderWay'
  <2> DEFINE m == PrepareLo(model, f, adcrate)
  <2>0. UNCHANGED <<gpios, gpioOk, giAttIdx, giMgcIdx>>
    BY <1>1 DEF SetHWLOdbl
  <2>1. CASE m = "NOMODE"
    <3>1. UNCHANGED <<modeRF, InternalLo, switched, clean>> /\ Pending' = {}
      BY <1>1, <1>l, <2>1, SetHWLOElems DEF SetHWLOdbl
    <3>2. Restored'
      BY <1>0, <2>0, <3>1, QuietCall DEF DeviceSide
    <3>3. QED
      BY <3>2
  <2>2. CASE m # "NOMODE" /\ modeRF = m
    <3>1. UNCHANGED <<modeRF, switched, clean>> /\ InternalLo' = LoFor(f)
      BY <1>1, <2>2, HwloKeepsLo DEF SetHWLOdbl, Switch
    <3>2. m \in Modes /\ Pending' = ElemsOf(SwitchSteps(m)) \cup {Tune(LoFor(f), "SetHWLO")}
      BY <1>1, <2>2, SetHWLOElems
    <3> HIDE DEF m
    <3>3. Pending' = {Tune(LoFor(f), "SetHWLO")}
      BY <2>2, <3>2, SwitchList
    <3>4. \A s \in Pending' : Quiet(s)' /\ s.op = "tune"
      BY <1>k, <3>1, <3>3 DEF Quiet
    <3>5. \E s \in Pending' : s.op = "tune"
      BY <3>3, <3>4
    <3>6. Restored'
      BY <1>0, <2>0, <3>1, <3>4, <3>5, QuietCall DEF DeviceSide
    <3>7. QED
      BY <3>6
  <2>3. CASE m # "NOMODE" /\ modeRF # m
    <3>1. m \in Modes
      BY <2>3 DEF PrepareLo, Modes
    <3>2. UnderWay'
      BY <1>1, <2>3, <3>1, SwitchBegins
    <3>3. QED
      BY <3>2
  <2>4. QED
    BY <2>1, <2>2, <2>3
<1>2. ASSUME NEW i \in AttIndices, SetAttenuator(i) PROVE Restored'
  <2>1. /\ UNCHANGED <<modeRF, gpios, gpioOk, switched, clean, giMgcIdx, InternalLo>>
        /\ todo' = <<Att(i)>> /\ giAttIdx' = [giAttIdx EXCEPT ![HandlerMode] = i]
    BY <1>2, <1>l DEF SetAttenuator, host, ghost
  <2>2. Pending' = {Att(i)}
    BY <2>1, ElemsList DEF Pending
  <2>3. giAttIdx'[modeRF] = i
    BY <1>m, <2>1 DEF TypeInv, RestType
  <2>4. Att(giAttIdx[modeRF])' = Att(i)
    BY <2>1, <2>3
  <2>5. \A s \in Pending' : Quiet(s)'
    BY <2>2, <2>4 DEF Quiet
  <2>6. QED
    BY <1>0, <2>1, <2>2, <2>4, <2>5, QuietCall DEF DeviceSide
<1>3. ASSUME NEW i \in MgcIndices, ExtIoSetMGC(i) PROVE Restored'
  <2>1. /\ UNCHANGED <<modeRF, gpios, gpioOk, switched, clean, giAttIdx, InternalLo>>
        /\ todo' = <<GainIF(i)>> /\ giMgcIdx' = [giMgcIdx EXCEPT ![HandlerMode] = i]
    BY <1>3, <1>l DEF ExtIoSetMGC, host, ghost
  <2>2. Pending' = {GainIF(i)}
    BY <2>1, ElemsList DEF Pending
  <2>3. giMgcIdx'[modeRF] = i
    BY <1>m, <2>1 DEF TypeInv, RestType
  <2>4. GainIF(giMgcIdx[modeRF])' = GainIF(i)
    BY <2>1, <2>3
  <2>5. \A s \in Pending' : Quiet(s)'
    BY <2>2, <2>4 DEF Quiet
  <2>6. QED
    BY <1>0, <2>1, <2>2, <2>4, <2>5, QuietCall DEF DeviceSide
<1>o. ASSUME NEW r, NEW p, todo' = OverclockSteps(r, p), InternalLo' = Corrected(gfLOfreq, p),
             UNCHANGED <<modeRF, gpios, gpioOk, switched, clean, giAttIdx, giMgcIdx>>
      PROVE  Restored'
  <2>1. (\A s \in Pending' : Quiet(s)') /\ \E s \in Pending' : s.op = "tune"
    BY <1>o, OverclockElems DEF Quiet
  <2>2. QED
    BY <1>0, <1>o, <2>1, QuietCall DEF DeviceSide
<1>4. ASSUME NEW r \in Rates, SetOverclock(r) PROVE Restored'
  <2>1. /\ UNCHANGED <<modeRF, gpios, gpioOk, switched, clean, giAttIdx, giMgcIdx>>
        /\ todo' = OverclockSteps(r, gfFreqCorrectionPpm)
        /\ InternalLo' = Corrected(gfLOfreq, gfFreqCorrectionPpm)
    BY <1>4, <1>l DEF SetOverclock, extio, ghost, InternalLo
  <2>2. QED
    BY <1>o, <2>1
<1>p. ASSUME NEW p \in Corrections, SetPPMvalue(p) PROVE Restored'
  <2>1. /\ UNCHANGED <<modeRF, gpios, gpioOk, switched, clean, giAttIdx, giMgcIdx>>
        /\ todo' = OverclockSteps(adcrate, p) /\ gfLOfreq' = gfLOfreq /\ gfFreqCorrectionPpm' = p
    BY <1>p DEF SetPPMvalue, host, ghost
  <2>2. InternalLo' = Corrected(gfLOfreq, p)
    BY <2>1 DEF InternalLo, Corrected, Factor
  <2>3. QED
    BY <1>o, <2>1, <2>2
<1>5. ASSUME NEW f \in Flags, NEW b \in BOOLEAN, UptFlag(f, b) PROVE Restored'
  <2>1. UNCHANGED <<modeRF, gpios, gpioOk, switched, clean, giAttIdx, giMgcIdx, InternalLo>>
    BY <1>5, <1>l DEF UptFlag, extio, ghost
  <2>2. Pending' \subseteq {FlagStep(f, b), SetRand(b)}
    BY <1>5, FlagList
  <2>3. /\ FlagStep(f, b).op = "pins"
        /\ (FlagStep(f, b).on \cup FlagStep(f, b).off) \cap ModePins = {}
    <3>1. FlagStep(f, b).op = "pins" /\ FlagStep(f, b).on \cup FlagStep(f, b).off = {FlagPin[f]}
      BY <1>k DEF FlagStep
    <3>2. FlagPin[f] \notin ModePins
      BY FlagPins, FlagsHavePins
    <3>3. QED
      BY <3>1, <3>2
  <2>4. \A s \in Pending' : Quiet(s)'
    BY <1>k, <2>2, <2>3 DEF Quiet
  <2>5. QED
    BY <1>0, <2>1, <2>4, QuietCall DEF DeviceSide
<1>6. ASSUME CloseHW PROVE Restored'
  <2>1. /\ UNCHANGED <<modeRF, gpios, gpioOk, switched, clean, giAttIdx, giMgcIdx, InternalLo>>
        /\ todo' = <<SetPins({"SHDWN"})>>
    BY <1>6, <1>l DEF CloseHW, extio, ghost
  <2>2. Pending' = {SetPins({"SHDWN"})}
    BY <2>1, ElemsList DEF Pending
  <2>3. {"SHDWN"} \cap ModePins = {}
    BY DEF ModePins, ATT_SEL
  <2>4. \A s \in Pending' : Quiet(s)'
    BY <1>k, <2>2, <2>3 DEF Quiet
  <2>5. QED
    BY <1>0, <2>1, <2>4, QuietCall DEF DeviceSide
<1>7. ~InitHW
  BY DEF InitHW
<1>8. /\ \A f : ~TuneLO(f)
      /\ \A m : ~UpdatemodeRF(m)
      /\ \A n, v : ~setGain(n, v)
  BY DEF TuneLO, UpdatemodeRF, setGain
<1>9. QED
  BY <1>1, <1>2, <1>3, <1>4, <1>p, <1>5, <1>6, <1>7, <1>8 DEF Next

(* At every step the settings are restored, but for those a step is pending *)
(* for, or a switch is under way.                                           *)
LEMMA SettingsHold ==
  ASSUME FormInv, TypeInv, ModeInv, PinInv, SettingsInv, [Next]_vars
  PROVE  SettingsInv'
<1>1. CASE UNCHANGED vars
  <2>1. /\ UNCHANGED <<model, modeRF, extio, front, switched, clean, todo>>
        /\ UNCHANGED DeviceSide
    BY <1>1 DEF vars, host, ghost, DeviceSide
  <2>2. /\ VHF' = VHF /\ BBRF' = BBRF /\ HasR82xx' = HasR82xx
        /\ \A k : NextStep(k)' = NextStep(k)
        /\ \A s : Quiet(s)' = Quiet(s)
        /\ SwitchLength' = SwitchLength /\ ModeStepAt' = ModeStepAt
        /\ UNCHANGED <<giAttIdx, giMgcIdx, InternalLo>>
    BY <2>1, SettingsFrame
  <2>3. UnderWay => UnderWay'
    <3>1. Stage(Len(todo)) => Stage(Len(todo))'
      BY <2>1, <2>2 DEF Stage, DeviceSide, Mode
    <3>2. QED
      BY <2>1, <2>2, <3>1 DEF UnderWay
  <2>4. Restored => Restored'
    <3>1. BaseSet' = BaseSet /\ GainSet' = GainSet /\ VgaSet' = VgaSet /\ TunedSet' = TunedSet
      BY <2>1, <2>2 DEF BaseSet, GainSet, VgaSet, TunedSet, DeviceSide
    <3>2. Pending' = Pending
      BY <2>1 DEF Pending
    <3>3. QED
      BY <2>1, <2>2, <3>1, <3>2 DEF Restored
  <2>5. QED
    BY <2>1, <2>3, <2>4 DEF SettingsInv
<1>2. CASE Step
  <2>1. UNCHANGED <<front, switched>>
    BY <1>2, StepLeaves
  <2>2. SUFFICES ASSUME front = "ExtIO", switched, clean' PROVE Restored' \/ UnderWay'
    BY <2>1 DEF SettingsInv
  <2>3. clean
    BY <1>2, <2>2, StepAnswered
  <2>4. QED
    BY <1>2, <2>2, <2>3, RestoredStep, UnderWayStep DEF SettingsInv
<1>3. CASE Next /\ ~Step
  BY <1>3, SettingsCall
<1>4. QED
  BY <1>1, <1>2, <1>3

(* With ExtIO, once the mode was switched and while no command has failed   *)
(* since, between any two calls the device is set as the plug-in remembers  *)
(* for that mode, however the calls went on from there.                     *)
THEOREM SettingsCorrect == Spec => []SettingsOfMode
<1>1. Init => PinInv /\ SettingsInv
  <2>1. SUFFICES ASSUME Init PROVE PinInv /\ SettingsInv
    OBVIOUS
  <2>2. Pending = {} /\ gpios = {} /\ ~switched
    BY <2>1, ElemsList DEF Init, Pending
  <2>3. QED
    BY <2>2 DEF PinInv, SettingsInv
<1>2. Order /\ PinInv /\ SettingsInv /\ [Next]_vars => PinInv' /\ SettingsInv'
  BY PinHolds, SettingsHold DEF Order, IInv
<1>3. Order /\ SettingsInv => SettingsOfMode
  <2>1. SUFFICES ASSUME Order, SettingsInv, Idle, front = "ExtIO", switched, clean
                 PROVE  SettingsOfMode
    BY DEF SettingsOfMode
  <2>2. Settled
    BY <2>1, SettledBetween DEF Idle
  <2>3. BaseSet /\ GainSet /\ VgaSet /\ TunedSet
    BY <2>2 DEF Settled
  <2>4. dev.pins = gpios
    BY <2>1, <2>3 DEF Order, IInv, GpioInv, BaseSet
  <2>5. tuned.freq = InternalLo /\ tuned.mode = modeRF
    BY <2>3 DEF TunedSet
  <2>6. sideband = (modeRF = "VHFMODE")
    <3>1. sideband = VHF
      BY <2>3 DEF BaseSet
    <3>2. QED
      BY <3>1 DEF VHF
  <2>7. ASSUME modeRF = "VHFMODE"
        PROVE  /\ dev.tuner = "ready" /\ dev.asked = InternalLo
               /\ HasR82xx => dev.rfGain = giAttIdx["VHFMODE"]
               /\ model # "BBRF103" => dev.att = MaxAttenuation /\ dev.vga = VgaOfVhf
    <3>1. VHF
      BY <2>7 DEF VHF
    <3>2. dev.tuner = "ready" /\ dev.asked = InternalLo
      BY <2>3, <3>1 DEF BaseSet, TunedSet
    <3>3. HasR82xx => dev.rfGain = giAttIdx["VHFMODE"]
      BY <2>3, <3>1 DEF GainSet
    <3>4. model # "BBRF103" => dev.att = MaxAttenuation /\ dev.vga = VgaOfVhf
      BY <2>3, <3>1 DEF BaseSet, BBRF
    <3>5. QED
      BY <3>2, <3>3, <3>4
  <2>8. ASSUME modeRF = "HFMODE"
        PROVE  /\ dev.tuner # "ready"
               /\ model = "BBRF103" => dev.pins \cap ATT_SEL = AttPins(giAttIdx["HFMODE"])
               /\ model # "BBRF103" => /\ dev.att = AttValue(giAttIdx["HFMODE"])
                                       /\ dev.vga = VgaByte(giMgcIdx["HFMODE"])
    <3>1. ~VHF
      BY <2>8 DEF VHF
    <3>2. dev.tuner # "ready"
      BY <2>3, <3>1 DEF BaseSet
    <3>3. model = "BBRF103" => dev.pins \cap ATT_SEL = AttPins(giAttIdx["HFMODE"])
      BY <2>3, <2>4, <3>1 DEF GainSet, BBRF
    <3>4. model # "BBRF103" => /\ dev.att = AttValue(giAttIdx["HFMODE"])
                               /\ dev.vga = VgaByte(giMgcIdx["HFMODE"])
      BY <2>3, <3>1 DEF GainSet, VgaSet, BBRF
    <3>5. QED
      BY <3>2, <3>3, <3>4
  <2>9. QED
    BY <2>5, <2>6, <2>7, <2>8 DEF SettingsOfMode
<1>4. QED
  BY <1>1, <1>2, <1>3, OrderHolds, PTL DEF Spec
=============================================================================
