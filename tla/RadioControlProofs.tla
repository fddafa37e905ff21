-------------------------- MODULE RadioControlProofs --------------------------
(***************************************************************************)
(* Proofs about RadioControl.tla, for any frequencies, rates, indices and  *)
(* gains asked for, and however many commands fail.                        *)
(*                                                                         *)
(* A property that speaks of the time between calls needs to know what is  *)
(* still pending during one: a call ends with the mode, the pins and the   *)
(* randomisation in step because the command that brings them in step is   *)
(* among those it has left.                                                *)
(***************************************************************************)
EXTENDS RadioControl, SequenceTheorems, TLAPS

ElemsOf(s) == {s[i] : i \in DOMAIN s}
IsSteps(s) == s \in Seq(ElemsOf(s))

(* The steps the call under way has still to do.                            *)
Pending == ElemsOf(todo)

(* The step of a switch of mode that changes the pins the mode is read off. *)
ModeStep(m) == IF model = "BBRF103"
                 THEN IF m = "VHFMODE" THEN UnsetPins(ATT_SEL) ELSE SetPins(ATT_SEL)
                 ELSE IF m = "VHFMODE" THEN SetPins({"VHF_EN"}) ELSE UnsetPins({"VHF_EN"})

FormInv == /\ IsSteps(todo)
           /\ flags \in [DOMAIN FlagPin -> BOOLEAN]
           /\ "pins" \in DOMAIN dev

ModeInv ==
  switched =>
    /\ modeRF \in Modes
    /\ Mode = modeRF \/ ModeStep(modeRF) \in Pending
    /\ \A s \in Pending : s.op = "pins" =>
         s = ModeStep(modeRF) \/ (s.on \cup s.off) \cap (ATT_SEL \cup {"VHF_EN"}) = {}

GpioInv == gpioOk => dev.pins = gpios

FlagInv ==
  /\ \A f \in Flags : FlagPin[f] \in gpios => flags[f] \/ UnsetPins({FlagPin[f]}) \in Pending
  /\ \A f \in Flags, s \in Pending : s.op = "pins" /\ FlagPin[f] \in s.on => flags[f]

RandInv ==
  /\ \A s \in Pending : s.op = "rand" =>
       \/ s.value = TRUE
       \/ todo = <<UnsetPins({"RANDO"}), s>>
       \/ todo = <<s>> /\ "RANDO" \notin gpios
  /\ "RANDO" \in gpios => rand = TRUE \/ SetRand(TRUE) \in Pending
  /\ \A s \in Pending : s.op = "pins" /\ "RANDO" \in s.on =>
       rand = TRUE \/ SetRand(TRUE) \in Pending

GainInv == lastGain.name = "RF" =>
             /\ lastGain.len \in Nat /\ lastGain.value \in Int
             /\ lastGain.index = GainIndex(lastGain.len, lastGain.len, lastGain.value)

IInv == FormInv /\ ModeInv /\ GpioInv /\ FlagInv /\ RandInv /\ GainInv

-----------------------------------------------------------------------------
(* Lists of steps: what is in them                                          *)

(* Taking the first step off a list leaves the others.                      *)
LEMMA ElemsTail ==
  ASSUME NEW s, IsSteps(s), s # <<>>
  PROVE  IsSteps(Tail(s)) /\ ElemsOf(s) = {Head(s)} \cup ElemsOf(Tail(s))
<1> DEFINE S == ElemsOf(s)
<1>1. s \in Seq(S)
  BY DEF IsSteps
<1>2. Len(s) \in Nat /\ Len(s) > 0 /\ DOMAIN s = 1 .. Len(s) /\ Head(s) = s[1]
  BY <1>1
<1>3. /\ Tail(s) \in Seq(S) /\ DOMAIN Tail(s) = 1 .. Len(s) - 1
      /\ \A i \in 1 .. Len(s) - 1 : Tail(s)[i] = s[i + 1]
  BY <1>1, <1>2
<1>4. ElemsOf(s) \subseteq {Head(s)} \cup ElemsOf(Tail(s))
  <2>1. SUFFICES ASSUME NEW i \in 1 .. Len(s) PROVE s[i] \in {Head(s)} \cup ElemsOf(Tail(s))
    BY <1>2 DEF ElemsOf
  <2>2. CASE i = 1
    BY <1>2, <2>2
  <2>3. CASE i # 1
    <3>1. i - 1 \in 1 .. Len(s) - 1 /\ (i - 1) + 1 = i
      BY <1>2, <2>3
    <3>2. Tail(s)[i - 1] = s[i]
      BY <1>3, <3>1
    <3>3. QED
      BY <1>3, <3>1, <3>2 DEF ElemsOf
  <2>4. QED
    BY <2>2, <2>3
<1>5. {Head(s)} \cup ElemsOf(Tail(s)) \subseteq ElemsOf(s)
  <2>1. Head(s) \in ElemsOf(s)
    BY <1>2 DEF ElemsOf
  <2>2. \A i \in 1 .. Len(s) - 1 : Tail(s)[i] \in ElemsOf(s)
    <3>1. \A i \in 1 .. Len(s) - 1 : i + 1 \in 1 .. Len(s)
      BY <1>2
    <3>2. QED
      BY <1>2, <1>3, <3>1 DEF ElemsOf
  <2>3. QED
    BY <1>3, <2>1, <2>2 DEF ElemsOf
<1>6. IsSteps(Tail(s))
  <2> DEFINE t == Tail(s)
  <2>1. t \in Seq(S)
    BY <1>3
  <2> HIDE DEF t, S
  <2>2. t \in Seq(ElemsOf(t))
    BY <2>1 DEF ElemsOf
  <2>3. QED
    BY <2>2 DEF IsSteps, t
<1>7. QED
  BY <1>4, <1>5, <1>6

(* The steps of two lists joined.                                           *)
LEMMA ElemsCat ==
  ASSUME NEW s, NEW t, IsSteps(s), IsSteps(t)
  PROVE  IsSteps(s \o t) /\ ElemsOf(s \o t) = ElemsOf(s) \cup ElemsOf(t)
<1> DEFINE S == ElemsOf(s) \cup ElemsOf(t)
<1>1. s \in Seq(S) /\ t \in Seq(S)
  BY DEF IsSteps
<1>2. /\ s \o t \in Seq(S) /\ Len(s \o t) = Len(s) + Len(t)
      /\ Len(s) \in Nat /\ Len(t) \in Nat
      /\ DOMAIN s = 1 .. Len(s) /\ DOMAIN t = 1 .. Len(t)
      /\ DOMAIN (s \o t) = 1 .. Len(s) + Len(t)
  BY <1>1
<1>3. /\ \A i \in 1 .. Len(s) : (s \o t)[i] = s[i]
      /\ \A i \in Len(s) + 1 .. Len(s) + Len(t) : (s \o t)[i] = t[i - Len(s)]
  BY <1>1, <1>2
<1>4. ElemsOf(s \o t) \subseteq S
  BY <1>2 DEF ElemsOf
<1>5. S \subseteq ElemsOf(s \o t)
  <2>1. ASSUME NEW i \in 1 .. Len(s) PROVE s[i] \in ElemsOf(s \o t)
    BY <1>2, <1>3 DEF ElemsOf
  <2>2. ASSUME NEW i \in 1 .. Len(t) PROVE t[i] \in ElemsOf(s \o t)
    <3>1. i + Len(s) \in Len(s) + 1 .. Len(s) + Len(t) /\ (i + Len(s)) - Len(s) = i
      BY <1>2
    <3>2. (s \o t)[i + Len(s)] = t[i] /\ i + Len(s) \in 1 .. Len(s) + Len(t)
      BY <1>2, <1>3, <3>1
    <3>3. QED
      BY <1>2, <3>2 DEF ElemsOf
  <2>3. QED
    BY <1>2, <2>1, <2>2 DEF ElemsOf
<1>6. QED
  BY <1>2, <1>4, <1>5 DEF IsSteps

(* Lists written out.                                                       *)
LEMMA ElemsList ==
  /\ IsSteps(<<>>) /\ ElemsOf(<<>>) = {}
  /\ \A a : IsSteps(<<a>>) /\ ElemsOf(<<a>>) = {a}
  /\ \A a, b : IsSteps(<<a, b>>) /\ ElemsOf(<<a, b>>) = {a, b}
  /\ \A a, b, c, d : IsSteps(<<a, b, c, d>>) /\ ElemsOf(<<a, b, c, d>>) = {a, b, c, d}
<1>1. IsSteps(<<>>) /\ ElemsOf(<<>>) = {}
  BY DEF IsSteps, ElemsOf
<1>2. ASSUME NEW a PROVE IsSteps(<<a>>) /\ ElemsOf(<<a>>) = {a}
  BY DEF IsSteps, ElemsOf
<1>3. ASSUME NEW a, NEW b PROVE IsSteps(<<a, b>>) /\ ElemsOf(<<a, b>>) = {a, b}
  BY DEF IsSteps, ElemsOf
<1>4. ASSUME NEW a, NEW b, NEW c, NEW d
      PROVE  IsSteps(<<a, b, c, d>>) /\ ElemsOf(<<a, b, c, d>>) = {a, b, c, d}
  BY DEF IsSteps, ElemsOf
<1>5. QED
  BY <1>1, <1>2, <1>3, <1>4

(* What is left of a list of one or two once its first is taken.            *)
LEMMA ListTail ==
  ASSUME NEW x, NEW y
  PROVE  /\ Head(<<x, y>>) = x /\ Tail(<<x, y>>) = <<y>>
         /\ Head(<<x>>) = x /\ Tail(<<x>>) = <<>>
<1>1. ASSUME NEW S, NEW s \in Seq(S), Len(s) = 2, NEW v \in Seq(S), Len(v) = 1, v[1] = s[2]
      PROVE  Tail(s) = v
  <2>1. Tail(s) \in Seq(S) /\ Len(Tail(s)) = 1 /\ Tail(s)[1] = s[2]
    <3>0. Len(s) \in Nat /\ Len(s) > 0 /\ s # <<>> /\ DOMAIN s = 1 .. Len(s)
      BY <1>1
    <3>1. /\ Tail(s) \in Seq(S) /\ DOMAIN Tail(s) = 1 .. Len(s) - 1
          /\ \A i \in 1 .. Len(s) - 1 : Tail(s)[i] = s[i + 1]
      BY <3>0
    <3>2. DOMAIN Tail(s) = 1 .. Len(s) - 1
      BY <3>1
    <3>3. 1 \in 1 .. Len(s) - 1 /\ 1 + 1 = 2 /\ Len(s) - 1 = 1
      BY <1>1
    <3>4. Tail(s)[1] = s[2]
      BY <3>1, <3>3
    <3>5. Len(Tail(s)) = 1
      BY <1>1, <3>1, <3>2
    <3>6. QED
      BY <3>1, <3>4, <3>5
  <2> DEFINE u == Tail(s)
  <2> HIDE DEF u
  <2>2. u \in Seq(S) /\ Len(u) = 1 /\ u[1] = v[1]
    BY <1>1, <2>1 DEF u
  <2>3. u = v
    BY <1>1, <2>2, SeqEqual
  <2>4. QED
    BY <2>3 DEF u
<1>2. ASSUME NEW S, NEW s \in Seq(S), Len(s) = 1 PROVE Tail(s) = <<>>
  <2>0. Len(s) \in Nat /\ Len(s) > 0 /\ s # <<>> /\ DOMAIN s = 1 .. Len(s)
    BY <1>2
  <2>1. Tail(s) \in Seq(S) /\ DOMAIN Tail(s) = 1 .. Len(s) - 1
    BY <2>0
  <2> DEFINE u == Tail(s)
  <2> HIDE DEF u
  <2>2. u \in Seq(S) /\ Len(u) = 0
    BY <1>2, <2>1 DEF u
  <2>3. u = <<>>
    BY <2>2
  <2>4. QED
    BY <2>3 DEF u
<1>3. /\ <<x, y>> \in Seq({x, y}) /\ <<y>> \in Seq({x, y}) /\ <<x>> \in Seq({x})
      /\ Len(<<x, y>>) = 2 /\ Len(<<y>>) = 1 /\ Len(<<x>>) = 1 /\ <<y>>[1] = <<x, y>>[2]
  OBVIOUS
<1>4. Tail(<<x, y>>) = <<y>>
  BY <1>1, <1>3
<1>5. Tail(<<x>>) = <<>>
  BY <1>2, <1>3
<1>6. QED
  BY <1>4, <1>5

(* Two lists of one step joined.                                            *)
LEMMA CatTwo ==
  ASSUME NEW x, NEW y
  PROVE  <<x>> \o <<y>> = <<x, y>>
<1>1. ASSUME NEW S, NEW s \in Seq(S), NEW t \in Seq(S), Len(s) = 1, Len(t) = 1,
             NEW v \in Seq(S), Len(v) = 2, v[1] = s[1], v[2] = t[1]
      PROVE  s \o t = v
  <2>1. s \o t \in Seq(S) /\ Len(s \o t) = 2
    <3>1. s \o t \in Seq(S) /\ Len(s \o t) = Len(s) + Len(t)
      OBVIOUS
    <3>2. QED
      BY <1>1, <3>1
  <2>2. (s \o t)[1] = s[1] /\ (s \o t)[2] = t[1]
    <3>1. /\ \A i \in 1 .. Len(s) : (s \o t)[i] = s[i]
          /\ \A i \in Len(s) + 1 .. Len(s) + Len(t) : (s \o t)[i] = t[i - Len(s)]
      OBVIOUS
    <3>2. 2 \in Len(s) + 1 .. Len(s) + Len(t) /\ 2 - Len(s) = 1 /\ 1 \in 1 .. Len(s)
      BY <1>1
    <3>3. QED
      BY <3>1, <3>2
  <2> DEFINE u == s \o t
  <2> HIDE DEF u
  <2>3. u[1] = v[1] /\ u[2] = v[2]
    BY <1>1, <2>2 DEF u
  <2>4. \A i \in 1 .. Len(u) : u[i] = v[i]
    <3>1. Len(u) = 2
      BY <2>1 DEF u
    <3>2. \A i \in 1 .. 2 : i = 1 \/ i = 2
      OBVIOUS
    <3>3. QED
      BY <2>3, <3>1, <3>2
  <2>5. u = v
    BY <1>1, <2>1, <2>4, SeqEqual DEF u
  <2>6. QED
    BY <2>5 DEF u
<1> DEFINE S == {x, y}
           s == <<x>>
           t == <<y>>
           v == <<x, y>>
<1>2. s \in Seq(S) /\ t \in Seq(S) /\ Len(s) = 1 /\ Len(t) = 1 /\ s[1] = x /\ t[1] = y
  OBVIOUS
<1>3. v \in Seq(S) /\ Len(v) = 2 /\ v[1] = x /\ v[2] = y
  OBVIOUS
<1> HIDE DEF s, t, v, S
<1>4. s \o t = v
  BY <1>1, <1>2, <1>3
<1>5. QED
  BY <1>4 DEF s, t, v

-----------------------------------------------------------------------------
(* The pins                                                                 *)

ModePins == ATT_SEL \cup {"VHF_EN"}

(* No flag has a pin that the mode is read off, and none has another's.     *)
LEMMA FlagPins ==
  /\ \A f \in DOMAIN FlagPin : FlagPin[f] \notin ModePins \cup {"SHDWN"}
  /\ \A f, g \in DOMAIN FlagPin : FlagPin[f] = FlagPin[g] => f = g
  /\ DOMAIN FlagPin = {"dither", "pga", "randout", "biasT_HF", "biasT_VHF"}
  /\ FlagPin["randout"] = "RANDO"
  BY DEF FlagPin, ModePins, ATT_SEL

(* Only flags that have a pin are switched (ControlAssumption).             *)
LEMMA FlagsHavePins == Flags \subseteq DOMAIN FlagPin
  BY ControlAssumption

(* The mode the hardware class reads after a step of pins.                  *)
LEMMA ModeSet ==
  ASSUME NEW m \in Modes, NEW g,
         LET s == ModeStep(m) IN gpios' = (g \cup s.on) \ s.off, model' = model
  PROVE  Mode' = m
  BY DEF Mode, HardwareMode, ModeStep, SetPins, UnsetPins, ATT_SEL, Modes

(* The mode depends on nothing but the model and these pins.                *)
LEMMA ModeKept ==
  ASSUME gpios' \cap ModePins = gpios \cap ModePins, model' = model
  PROVE  Mode' = Mode
<1>1. gpios' \cap ATT_SEL = gpios \cap ATT_SEL /\ ("VHF_EN" \in gpios' <=> "VHF_EN" \in gpios)
  BY DEF ModePins
<1>2. QED
  BY <1>1 DEF Mode, HardwareMode

(* The steps of a switch: those of pins are the one that switches.          *)
LEMMA SwitchElems ==
  ASSUME NEW m \in Modes
  PROVE  /\ IsSteps(ModeSteps(model, m)) /\ ModeStep(m) \in ElemsOf(ModeSteps(model, m))
         /\ \A s \in ElemsOf(ModeSteps(model, m)) :
              /\ s.op \in {"pins", "att", "vga", "init", "stdby"}
              /\ s.op = "pins" => s = ModeStep(m)
<1> DEFINE s == ModeSteps(model, m)
           up == <<Att(0), SetPins({"VHF_EN"}), Vga(VgaOfVhf), TunerInit>>
<1>0. /\ \A x \in {Att(0), Vga(VgaOfVhf), TunerInit, TunerStdby} :
           x.op \in {"att", "vga", "init", "stdby"}
      /\ \A p : SetPins(p).op = "pins" /\ UnsetPins(p).op = "pins"
  BY DEF Att, Vga, TunerInit, TunerStdby, SetPins, UnsetPins
<1>1. IsSteps(s) /\ ElemsOf(s) \in {{ModeStep(m), TunerInit}, {TunerStdby, ModeStep(m)},
                                    {Att(0), ModeStep(m), Vga(VgaOfVhf), TunerInit}}
  <2>1. CASE model = "BBRF103" /\ m = "VHFMODE"
    BY <2>1, ElemsList DEF ModeSteps, ModeStep
  <2>2. CASE m # "VHFMODE"
    BY <2>2, ElemsList DEF ModeSteps, ModeStep
  <2>3. CASE model # "BBRF103" /\ m = "VHFMODE"
    <3>1. s = up /\ ModeStep(m) = SetPins({"VHF_EN"})
      BY <2>3 DEF ModeSteps, ModeStep
    <3>2. IsSteps(up) /\ ElemsOf(up) = {Att(0), SetPins({"VHF_EN"}), Vga(VgaOfVhf), TunerInit}
      BY ElemsList
    <3> HIDE DEF s, up
    <3>3. QED
      BY <3>1, <3>2
  <2>4. QED
    BY <2>1, <2>2, <2>3
<1>2. ModeStep(m).op = "pins"
  BY <1>0 DEF ModeStep
<1> HIDE DEF s, up
<1>3. \A x \in ElemsOf(s) : x = ModeStep(m) \/ x \in {Att(0), Vga(VgaOfVhf), TunerInit, TunerStdby}
  BY <1>1
<1>4. IsSteps(s) /\ ModeStep(m) \in ElemsOf(s)
  BY <1>1
<1>5. \A x \in ElemsOf(s) : /\ x.op \in {"pins", "att", "vga", "init", "stdby"}
                            /\ x.op = "pins" => x = ModeStep(m)
  BY <1>0, <1>2, <1>3
<1>6. QED
  BY <1>4, <1>5 DEF s

(* What a step of a call takes and leaves alone.                            *)
LEMMA StepFrame ==
  ASSUME Step
  PROVE  /\ todo # <<>> /\ todo' = Tail(todo)
         /\ UNCHANGED <<model, modeRF, flags, switched, lastGain>>
         /\ PinsStep \/ AttStep \/ UNCHANGED gpios
         /\ R2iqStep \/ UNCHANGED rand
         /\ Head(todo).op = "pins" => PinsStep
         /\ Head(todo).op = "rand" => R2iqStep
<1> USE DEF Done
<1>1. CASE PinsStep
  BY <1>1 DEF PinsStep
<1>2. CASE AttStep
  BY <1>2 DEF AttStep
<1>3. CASE GainIFStep
  BY <1>3 DEF GainIFStep
<1>4. CASE VgaStep
  BY <1>4 DEF VgaStep
<1>5. CASE TunerStep
  BY <1>5 DEF TunerStep
<1>6. CASE AdcStep
  BY <1>6 DEF AdcStep
<1>7. CASE R2iqStep
  BY <1>7 DEF R2iqStep
<1>8. CASE TuneStep
  BY <1>8 DEF TuneStep
<1>9. QED
  BY <1>1, <1>2, <1>3, <1>4, <1>5, <1>6, <1>7, <1>8 DEF Step

(* The attenuator of the BBRF103 is set through pins that stay on HF.       *)
LEMMA AttPinsKept ==
  ASSUME AttStep
  PROVE  /\ gpios' \ ATT_SEL = gpios \ ATT_SEL
         /\ Mode' = Mode
<1>1. CASE UNCHANGED gpios
  BY <1>1, ModeKept DEF AttStep, Done
<1>2. CASE ~UNCHANGED gpios
  <2>1. /\ Mode = "HFMODE" /\ model = "BBRF103" /\ model' = model
        /\ gpios' = (gpios \ ATT_SEL) \cup AttPins(Head(todo).index)
    BY <1>2 DEF AttStep, Done
  <2>2. AttPins(Head(todo).index) \subseteq ATT_SEL /\ AttPins(Head(todo).index) # {}
    BY DEF AttPins, ATT_SEL
  <2>3. gpios' \cap ATT_SEL # {}
    BY <2>1, <2>2
  <2>4. QED
    BY <2>1, <2>2, <2>3 DEF Mode, HardwareMode
<1>3. QED
  BY <1>1, <1>2

(* What all calls leave alone, but for the one that makes a new hardware    *)
(* object.                                                                  *)
CallLeaves == todo = <<>> /\ UNCHANGED <<model, dev, rand, gpios, gpioOk>>

(* A call begins with nothing pending.                                      *)
LEMMA CallFrame ==
  ASSUME Next, ~Step
  PROVE  /\ todo = <<>>
         /\ UNCHANGED <<model, dev>>
         /\ \/ gpios' = gpios /\ gpioOk' = gpioOk /\ rand' = rand
            \/ gpios' = {} /\ gpioOk' = FALSE /\ rand' = FALSE /\ switched' = FALSE
<1>1. ASSUME NEW f \in Freqs, SetHWLOdbl(f)
      PROVE  CallLeaves
  BY <1>1 DEF CallLeaves, SetHWLOdbl, Call
<1>2. ASSUME NEW f \in Freqs, TuneLO(f)
      PROVE  CallLeaves
  BY <1>2 DEF CallLeaves, TuneLO, Call, host, ghost
<1>3. ASSUME NEW i \in AttIndices, SetAttenuator(i)
      PROVE  CallLeaves
  BY <1>3 DEF CallLeaves, SetAttenuator, Call, host, ghost
<1>4. ASSUME NEW i \in MgcIndices, ExtIoSetMGC(i)
      PROVE  CallLeaves
  BY <1>4 DEF CallLeaves, ExtIoSetMGC, Call, host, ghost
<1>5. ASSUME NEW r \in Rates, SetOverclock(r)
      PROVE  CallLeaves
  BY <1>5 DEF CallLeaves, SetOverclock, Call, ghost
<1>6. ASSUME NEW f \in Flags, NEW b \in BOOLEAN, UptFlag(f, b)
      PROVE  CallLeaves
  BY <1>6 DEF CallLeaves, UptFlag, Call, ghost
<1>7. CloseHW => CallLeaves
  BY DEF CallLeaves, CloseHW, Call, ghost
<1>8. CASE InitHW
  BY <1>8 DEF InitHW, Call
<1>9. ASSUME NEW m \in Modes, UpdatemodeRF(m)
      PROVE  CallLeaves
  BY <1>9 DEF CallLeaves, UpdatemodeRF, Call
<1>10. ASSUME NEW n, NEW v, setGain(n, v)
       PROVE  CallLeaves
  BY <1>10 DEF CallLeaves, setGain, Call, host
<1>11. ASSUME NEW p \in Corrections, SetPPMvalue(p)
       PROVE  CallLeaves
  BY <1>11 DEF CallLeaves, SetPPMvalue, Call, host, ghost
<1>12. InitHW \/ CallLeaves
  BY <1>1, <1>2, <1>3, <1>4, <1>5, <1>6, <1>7, <1>9, <1>10, <1>11 DEF Next
<1>13. QED
  BY <1>8, <1>12 DEF CallLeaves

(* The lists calls begin with.                                              *)
Switching(m) == /\ modeRF' = m /\ switched' = TRUE /\ ModeStep(m) \in Pending'
                /\ \A s \in Pending' : s.op = "pins" => s = ModeStep(m)
Staying      == /\ modeRF' = modeRF /\ switched' \in {switched, FALSE}
                /\ \A s \in Pending' : s.op = "pins" =>
                     (s.on \cup s.off) \cap ModePins = {}

(* The steps of a switch, or none if the mode stays.                        *)
LEMMA SwitchList ==
  ASSUME NEW m \in Modes
  PROVE  /\ IsSteps(SwitchSteps(m))
         /\ \A s \in ElemsOf(SwitchSteps(m)) : s.op # "rand" /\ (s.op = "pins" => s = ModeStep(m))
         /\ modeRF = m => ElemsOf(SwitchSteps(m)) = {}
         /\ modeRF # m => ModeStep(m) \in ElemsOf(SwitchSteps(m))
<1>1. CASE modeRF = m
  BY <1>1, ElemsList DEF SwitchSteps
<1>2. CASE modeRF # m
  <2> DEFINE sb == <<SetSideband(m = "VHFMODE")>>
  <2>1. IsSteps(sb) /\ ElemsOf(sb) = {SetSideband(m = "VHFMODE")}
    BY ElemsList
  <2>2. SwitchSteps(m) = ModeSteps(model, m) \o sb
    BY <1>2 DEF SwitchSteps
  <2> HIDE DEF sb
  <2>3. IsSteps(ModeSteps(model, m))
    BY SwitchElems
  <2>4. /\ IsSteps(SwitchSteps(m))
        /\ ElemsOf(SwitchSteps(m)) = ElemsOf(ModeSteps(model, m)) \cup ElemsOf(sb)
    BY <2>1, <2>2, <2>3, ElemsCat
  <2>5. SetSideband(m = "VHFMODE").op = "sideband"
    BY DEF SetSideband
  <2>6. \A s \in ElemsOf(SwitchSteps(m)) : s.op # "rand" /\ (s.op = "pins" => s = ModeStep(m))
    BY <2>1, <2>4, <2>5, SwitchElems
  <2>7. ModeStep(m) \in ElemsOf(SwitchSteps(m))
    BY <2>4, SwitchElems
  <2>8. QED
    BY <1>2, <2>4, <2>6, <2>7
<1>3. QED
  BY <1>1, <1>2

(* What is known of the list of a call that switches no flag.               *)
Plain == /\ IsSteps(todo') /\ flags' = flags
         /\ Staying \/ \E m \in Modes : Switching(m)
         /\ \A s \in Pending' : s.op # "rand"
         /\ \A s \in Pending' : s.op = "pins" => s.on \cup s.off \subseteq ModePins \cup {"SHDWN"}

(* A switch with other steps after it.                                      *)
LEMMA SwitchCall ==
  ASSUME NEW m \in Modes, Switch(m), flags' = flags, IsSteps(todo'),
         NEW R, Pending' = ElemsOf(SwitchSteps(m)) \cup R, \A s \in R : s.op \notin {"pins", "rand"}
  PROVE  Plain
<1>1. ModeStep(m).on \cup ModeStep(m).off \subseteq ModePins
  BY DEF ModeStep, ModePins, SetPins, UnsetPins
<1>2. \A s \in Pending' : s.op # "rand" /\ (s.op = "pins" => s = ModeStep(m))
  BY SwitchList
<1>3. CASE modeRF = m
  <2>1. Pending' = R
    BY <1>3, SwitchList
  <2>2. modeRF' = modeRF /\ switched' = switched
    BY <1>3 DEF Switch
  <2>3. QED
    BY <1>1, <1>2, <2>1, <2>2 DEF Plain, Staying
<1>4. CASE modeRF # m
  <2>1. ModeStep(m) \in Pending'
    BY <1>4, SwitchList
  <2>2. modeRF' = m /\ switched' = TRUE
    BY <1>4 DEF Switch
  <2>3. Switching(m)
    BY <1>2, <2>1, <2>2 DEF Switching
  <2>4. QED
    BY <1>1, <1>2, <2>3 DEF Plain
<1>5. QED
  BY <1>3, <1>4

(* A call of one step, or none, that leaves the mode.                       *)
LEMMA OneStep ==
  ASSUME UNCHANGED <<modeRF, flags>>, switched' \in {switched, FALSE},
         \/ todo' = <<>>
         \/ \E s : todo' = <<s>> /\ s.op \notin {"pins", "rand"}
         \/ todo' = <<SetPins({"SHDWN"})>>
  PROVE  Plain
<1>1. CASE todo' = <<>>
  BY <1>1, ElemsList DEF Plain, Staying, Pending
<1>2. ASSUME NEW s, todo' = <<s>>, s.op \notin {"pins", "rand"} PROVE Plain
  <2>1. IsSteps(todo') /\ Pending' = {s}
    BY <1>2, ElemsList DEF Pending
  <2>2. QED
    BY <1>2, <2>1 DEF Plain, Staying
<1>3. CASE todo' = <<SetPins({"SHDWN"})>>
  <2> DEFINE s == SetPins({"SHDWN"})
  <2>1. s.op = "pins" /\ s.on \cup s.off = {"SHDWN"} /\ "SHDWN" \notin ModePins
    BY DEF SetPins, ModePins, ATT_SEL
  <2> HIDE DEF s
  <2>2. IsSteps(todo') /\ Pending' = {s}
    BY <1>3, ElemsList DEF Pending, s
  <2>3. QED
    BY <2>1, <2>2 DEF Plain, Staying
<1>4. QED
  BY <1>1, <1>2, <1>3

(* SetHWLOdbl: the switch, the settings of the mode and the tuning.         *)
LEMMA SetHWLOList ==
  ASSUME NEW f \in Freqs, SetHWLOdbl(f)
  PROVE  Plain
<1> DEFINE m    == PrepareLo(model, f, adcrate)
           mid  == IF modeRF = m THEN <<>> ELSE Settings(m)
           lo   == Corrected(Exactly(f), gfFreqCorrectionPpm)
           last == <<Tune(lo, "SetHWLO")>>
<1>1. flags' = flags /\ todo = <<>>
  BY DEF SetHWLOdbl, Call
<1>2. CASE m = "NOMODE"
  <2>1. UNCHANGED <<todo, modeRF, switched>>
    BY <1>2 DEF SetHWLOdbl
  <2>2. QED
    BY <1>1, <2>1, OneStep
<1>3. CASE m # "NOMODE"
  <2>1. m \in Modes
    BY <1>3 DEF PrepareLo, Modes
  <2>2. Switch(m) /\ todo' = (SwitchSteps(m) \o mid) \o last
    BY <1>3 DEF SetHWLOdbl
  <2>3. IsSteps(mid) /\ ElemsOf(mid) \subseteq {GainIF(giMgcIdx[m]), Att(giAttIdx[m])}
    BY ElemsList DEF Settings
  <2>4. IsSteps(last) /\ ElemsOf(last) = {Tune(lo, "SetHWLO")}
    BY ElemsList
  <2>5. /\ GainIF(giMgcIdx[m]).op = "gainIF" /\ Att(giAttIdx[m]).op = "att"
        /\ Tune(lo, "SetHWLO").op = "tune"
    BY DEF GainIF, Att, Tune
  <2> HIDE DEF m, mid, lo, last
  <2>6. /\ IsSteps(SwitchSteps(m) \o mid)
        /\ ElemsOf(SwitchSteps(m) \o mid) = ElemsOf(SwitchSteps(m)) \cup ElemsOf(mid)
    BY <2>1, <2>3, SwitchList, ElemsCat
  <2>7. /\ IsSteps(todo')
        /\ Pending' = ElemsOf(SwitchSteps(m)) \cup (ElemsOf(mid) \cup ElemsOf(last))
    BY <2>2, <2>4, <2>6, ElemsCat DEF Pending
  <2>8. \A s \in ElemsOf(mid) \cup ElemsOf(last) : s.op \notin {"pins", "rand"}
    BY <2>3, <2>4, <2>5
  <2>9. QED
    BY <1>1, <2>1, <2>2, <2>7, <2>8, SwitchCall
<1>4. QED
  BY <1>2, <1>3

(* The other calls, but for the switching of a flag.                        *)
LEMMA CallList ==
  ASSUME Next, ~Step, ~(\E f \in Flags, b \in BOOLEAN : UptFlag(f, b))
  PROVE  Plain
<1>0. \A i, x, y : /\ Att(i).op = "att" /\ GainIF(i).op = "gainIF"
                   /\ Tune(x, y).op = "tune" /\ StartAdc(i).op = "adc"
  BY DEF Att, GainIF, Tune, StartAdc
<1>1. ASSUME NEW f \in Freqs, SetHWLOdbl(f) PROVE Plain
  BY <1>1, SetHWLOList
<1>2. ASSUME NEW f \in Freqs, TuneLO(f) PROVE Plain
  BY <1>0, <1>2, OneStep DEF TuneLO, host, ghost
<1>3. ASSUME NEW i \in AttIndices, SetAttenuator(i) PROVE Plain
  BY <1>0, <1>3, OneStep DEF SetAttenuator, host, ghost
<1>4. ASSUME NEW i \in MgcIndices, ExtIoSetMGC(i) PROVE Plain
  BY <1>0, <1>4, OneStep DEF ExtIoSetMGC, host, ghost
<1>a. ASSUME NEW r, NEW p, UNCHANGED <<modeRF, flags, switched>>, todo' = OverclockSteps(r, p)
      PROVE  Plain
  <2> DEFINE x == StartAdc(r)
             y == Tune(Corrected(gfLOfreq, p), "SetOverclock")
  <2>1. x.op = "adc" /\ y.op = "tune" /\ todo' = <<x, y>>
    BY <1>0, <1>a DEF OverclockSteps
  <2> HIDE DEF x, y
  <2>2. IsSteps(todo') /\ Pending' = {x, y}
    BY <2>1, ElemsList DEF Pending
  <2>3. QED
    BY <1>a, <2>1, <2>2 DEF Plain, Staying
<1>5. ASSUME NEW r \in Rates, SetOverclock(r) PROVE Plain
  BY <1>5, <1>a DEF SetOverclock, ghost
<1>b. ASSUME NEW p \in Corrections, SetPPMvalue(p) PROVE Plain
  BY <1>b, <1>a DEF SetPPMvalue, host, ghost
<1>6. CASE CloseHW
  BY <1>6, OneStep DEF CloseHW, ghost
<1>7. CASE InitHW
  BY <1>0, <1>7, OneStep DEF InitHW
<1>8. ASSUME NEW m \in Modes, UpdatemodeRF(m) PROVE Plain
  <2>1. Switch(m) /\ todo' = SwitchSteps(m) /\ flags' = flags
    BY <1>8 DEF UpdatemodeRF
  <2> DEFINE R == {}
  <2>2. IsSteps(todo') /\ Pending' = ElemsOf(SwitchSteps(m)) \cup R
    BY <2>1, SwitchList DEF Pending
  <2>3. \A s \in R : s.op \notin {"pins", "rand"}
    OBVIOUS
  <2> HIDE DEF R
  <2>4. QED
    BY <1>8, <2>1, <2>2, <2>3, SwitchCall
<1>9. ASSUME NEW n, NEW v, setGain(n, v) PROVE Plain
  BY <1>0, <1>9, OneStep DEF setGain, host
<1>10. QED
  BY <1>1, <1>2, <1>3, <1>4, <1>5, <1>6, <1>7, <1>8, <1>9, <1>b DEF Next

(* The step a flag's switch starts with.                                    *)
FlagStep(f, b) == IF b THEN SetPins({FlagPin[f]}) ELSE UnsetPins({FlagPin[f]})

(* A flag has one step, of its pin; randout one more, which tells r2iq.     *)
LEMMA FlagList ==
  ASSUME NEW f \in Flags, NEW b \in BOOLEAN, UptFlag(f, b)
  PROVE  /\ IsSteps(todo') /\ flags' = [flags EXCEPT ![f] = b]
         /\ UNCHANGED <<modeRF, switched, gpios, rand>>
         /\ f # "randout" => Pending' = {FlagStep(f, b)}
         /\ f = "randout" => /\ todo' = <<FlagStep(f, b), SetRand(b)>>
                             /\ Pending' = {FlagStep(f, b), SetRand(b)}
<1>1. /\ flags' = [flags EXCEPT ![f] = b] /\ UNCHANGED <<modeRF, switched, gpios, rand>>
      /\ todo' = <<FlagStep(f, b)>> \o (IF f = "randout" THEN <<SetRand(b)>> ELSE <<>>)
  BY DEF UptFlag, FlagStep, ghost
<1> DEFINE x == FlagStep(f, b)
           y == SetRand(b)
<1>2. CASE f = "randout"
  <2>1. todo' = <<x>> \o <<y>>
    BY <1>1, <1>2
  <2> HIDE DEF x, y
  <2>2. todo' = <<x, y>>
    BY <2>1, CatTwo
  <2>3. IsSteps(todo') /\ Pending' = {x, y}
    BY <2>2, ElemsList DEF Pending
  <2>4. QED
    BY <1>1, <1>2, <2>2, <2>3 DEF x, y
<1>3. CASE f # "randout"
  <2>1. todo' = <<x>> \o <<>>
    BY <1>1, <1>3
  <2> HIDE DEF x, y
  <2>2. todo' = <<x>>
    BY <2>1
  <2>3. IsSteps(todo') /\ Pending' = {x}
    BY <2>2, ElemsList DEF Pending
  <2>4. QED
    BY <1>1, <1>3, <2>3 DEF x, y
<1>4. QED
  BY <1>2, <1>3

-----------------------------------------------------------------------------
(* The invariant is kept                                                    *)

(* A step takes the first one off what is pending.                          *)
LEMMA StepTakes ==
  ASSUME FormInv, Step
  PROVE  IsSteps(todo') /\ Pending = {Head(todo)} \cup Pending'
  BY StepFrame, ElemsTail DEF FormInv, Pending

(* A call under way is over before another begins.                          *)
LEMMA NothingPending == ASSUME Next, ~Step PROVE Pending = {}
  BY CallFrame, ElemsList DEF Pending

(* The pins a step asks for.                                                *)
LEMMA PinsTaken ==
  ASSUME PinsStep
  PROVE  /\ Head(todo).op = "pins"
         /\ gpios' = (gpios \cup Head(todo).on) \ Head(todo).off
  BY DEF PinsStep, Done

(* The step that switches the mode is one of pins.                          *)
LEMMA ModeStepIsPins == \A m : ModeStep(m).op = "pins"
  BY DEF ModeStep, SetPins, UnsetPins

(* The mode read off the pins is the handler's, or the step that makes it   *)
(* so is pending and no other pending step touches these pins.              *)
LEMMA ModeHolds ==
  ASSUME FormInv, ModeInv, [Next]_vars
  PROVE  ModeInv'
<1>1. CASE UNCHANGED vars
  <2>1. UNCHANGED <<switched, modeRF, model, gpios, todo>>
    BY <1>1 DEF vars, host, ghost
  <2>2. QED
    BY <2>1 DEF ModeInv, Mode, ModeStep, Pending
<1>2. CASE Step
  <2> DEFINE h == Head(todo)
             ms == ModeStep(modeRF)
  <2>1. UNCHANGED <<model, modeRF, switched>> /\ Pending = {h} \cup Pending'
    BY <1>2, StepFrame, StepTakes
  <2>2. ModeStep(modeRF)' = ms
    BY <2>1 DEF ModeStep
  <2>3. SUFFICES ASSUME switched PROVE Mode' = modeRF \/ ms \in Pending'
    BY <2>1, <2>2 DEF ModeInv
  <2>4. modeRF \in Modes /\ (Mode = modeRF \/ ms \in {h} \cup Pending')
    BY <2>1, <2>3 DEF ModeInv
  <2>5. CASE PinsStep
    <3>1. h.op = "pins" /\ gpios' = (gpios \cup h.on) \ h.off /\ h \in Pending
      BY <2>1, <2>5, PinsTaken
    <3>2. CASE h = ms
      BY <2>1, <2>4, <3>1, <3>2, ModeSet
    <3>3. CASE h # ms
      <4>1. (h.on \cup h.off) \cap ModePins = {}
        BY <2>3, <3>1, <3>3 DEF ModeInv, ModePins
      <4> HIDE DEF h, ms
      <4>2. gpios' \cap ModePins = gpios \cap ModePins
        BY <3>1, <4>1
      <4>3. QED
        BY <2>1, <2>4, <3>3, <4>2, ModeKept
    <3>4. QED
      BY <3>2, <3>3
  <2>6. CASE AttStep
    <3>1. h.op = "att" /\ ms.op = "pins"
      BY <2>6, ModeStepIsPins DEF AttStep, Done
    <3>2. h # ms
      BY <3>1
    <3>3. QED
      BY <2>4, <2>6, <3>2, AttPinsKept
  <2>7. CASE ~PinsStep /\ ~AttStep
    <3>1. gpios' = gpios /\ h.op # "pins" /\ ms.op = "pins"
      BY <1>2, <2>7, StepFrame, ModeStepIsPins
    <3>2. h # ms
      BY <3>1
    <3>3. Mode' = Mode
      BY <2>1, <3>1, ModeKept
    <3>4. QED
      BY <2>4, <3>2, <3>3
  <2>8. QED
    BY <2>5, <2>6, <2>7
<1>3. ASSUME Next, ~Step, NEW f \in Flags, NEW b \in BOOLEAN, UptFlag(f, b) PROVE ModeInv'
  <2>1. UNCHANGED <<model, modeRF, switched, gpios>> /\ Pending = {}
    BY <1>3, FlagList, CallFrame, NothingPending
  <2>2. Pending' \subseteq {FlagStep(f, b), SetRand(b)}
    BY <1>3, FlagList
  <2>3. SetRand(b).op # "pins" /\ FlagStep(f, b).on \cup FlagStep(f, b).off = {FlagPin[f]}
    BY DEF SetRand, FlagStep, SetPins, UnsetPins
  <2>4. FlagPin[f] \notin ModePins
    BY FlagPins, FlagsHavePins
  <2>5. Mode' = Mode
    BY <2>1, ModeKept
  <2>6. \A s \in Pending' : s.op = "pins" => (s.on \cup s.off) \cap ModePins = {}
    BY <2>2, <2>3, <2>4
  <2>7. QED
    BY <2>1, <2>5, <2>6 DEF ModeInv, ModePins
<1>4. CASE Next /\ ~Step /\ Plain
  <2>1. model' = model /\ Pending = {} /\ (gpios' = gpios \/ ~switched')
    BY <1>4, CallFrame, NothingPending
  <2>2. CASE Staying
    <3>1. SUFFICES ASSUME switched' PROVE ModeInv'
      BY DEF ModeInv
    <3>2. switched /\ modeRF' = modeRF /\ gpios' = gpios
      BY <2>1, <2>2, <3>1 DEF Staying
    <3>3. Mode' = Mode
      BY <2>1, <3>2, ModeKept
    <3>4. QED
      BY <2>1, <2>2, <3>2, <3>3 DEF ModeInv, Staying, ModePins
  <2>3. ASSUME NEW m \in Modes, Switching(m) PROVE ModeInv'
    <3>1. ModeStep(modeRF)' = ModeStep(m) /\ modeRF' = m
      BY <2>1, <2>3 DEF Switching, ModeStep
    <3>2. QED
      BY <2>3, <3>1 DEF Switching, ModeInv
  <2>4. QED
    BY <1>4, <2>2, <2>3 DEF Plain
<1>5. QED
  BY <1>1, <1>2, <1>3, <1>4, CallList

(* The word of the host reaches the device with every answer.               *)
LEMMA CommandPins ==
  ASSUME NEW after, "pins" \in DOMAIN dev, "pins" \in DOMAIN after, after.pins = dev.pins,
         Command(after, FALSE) \/ NoCommand
  PROVE  "pins" \in DOMAIN dev' /\ dev'.pins = dev.pins /\ gpioOk' = gpioOk
  BY DEF Command, NoCommand

(* The word reaches the device unless gpioOk is lost.                       *)
LEMMA WordSent ==
  ASSUME "pins" \in DOMAIN dev, Command(PinsCmd(gpios'), TRUE)
  PROVE  "pins" \in DOMAIN dev' /\ (gpioOk' => dev'.pins = gpios')
  BY DEF Command, PinsCmd

(* Every step keeps the device's pins those of the word while gpioOk.       *)
LEMMA GpioStep ==
  ASSUME FormInv, GpioInv, Step
  PROVE  "pins" \in DOMAIN dev' /\ GpioInv'
<1> DEFINE Good(d) == "pins" \in DOMAIN d /\ d.pins = dev.pins
<1>0. Good(dev)
  BY DEF FormInv
<1>1. CASE PinsStep
  BY <1>1, WordSent DEF PinsStep, FormInv, GpioInv
<1>2. CASE AttStep
  <2>1. \A i : Good([dev EXCEPT !.rfGain = i]) /\ Good([dev EXCEPT !.att = i])
    BY <1>0
  <2>2. CASE Command(PinsCmd(gpios'), TRUE)
    BY <2>2, WordSent DEF FormInv, GpioInv
  <2>3. CASE ~Command(PinsCmd(gpios'), TRUE)
    <3> DEFINE i == Head(todo).index
    <3>1. /\ gpios' = gpios
          /\ \/ Command([dev EXCEPT !.rfGain = i], FALSE) \/ NoCommand
             \/ Command([dev EXCEPT !.att = AttValue(i)], FALSE)
      BY <1>2, <2>3 DEF AttStep
    <3>2. "pins" \in DOMAIN dev' /\ dev'.pins = dev.pins /\ gpioOk' = gpioOk
      BY <1>0, <2>1, <3>1, CommandPins
    <3>3. QED
      BY <3>1, <3>2 DEF GpioInv
  <2>4. QED
    BY <2>2, <2>3
<1>3. CASE GainIFStep
  <2> DEFINE i == Head(todo).index
  <2>1. Good(VgaGainCmd(i)) /\ Good([dev EXCEPT !.vga = VgaByte(i)])
    BY <1>0 DEF VgaGainCmd
  <2>2. /\ gpios' = gpios
        /\ \/ Command(VgaGainCmd(i), FALSE) \/ NoCommand
           \/ Command([dev EXCEPT !.vga = VgaByte(i)], FALSE)
    BY <1>3 DEF GainIFStep
  <2>3. "pins" \in DOMAIN dev' /\ dev'.pins = dev.pins /\ gpioOk' = gpioOk
    BY <1>0, <2>1, <2>2, CommandPins
  <2>4. QED
    BY <2>2, <2>3 DEF GpioInv
<1>4. CASE VgaStep
  <2>1. Good([dev EXCEPT !.vga = Head(todo).byte])
    BY <1>0
  <2>2. gpios' = gpios /\ Command([dev EXCEPT !.vga = Head(todo).byte], FALSE)
    BY <1>4 DEF VgaStep
  <2>3. QED
    BY <1>0, <2>1, <2>2, CommandPins DEF GpioInv
<1>5. CASE TunerStep
  <2>1. Good(InitCmd) /\ Good(StdbyCmd)
    BY <1>0 DEF InitCmd, StdbyCmd
  <2>2. gpios' = gpios /\ (Command(InitCmd, FALSE) \/ Command(StdbyCmd, FALSE))
    BY <1>5 DEF TunerStep
  <2>3. QED
    BY <1>0, <2>1, <2>2, CommandPins DEF GpioInv
<1>6. CASE AdcStep \/ R2iqStep
  <2>1. gpios' = gpios /\ (Command(dev, FALSE) \/ NoCommand)
    BY <1>6 DEF AdcStep, R2iqStep
  <2>2. QED
    BY <1>0, <2>1, CommandPins DEF GpioInv
<1>7. CASE TuneStep
  <2>1. Good([dev EXCEPT !.asked = Head(todo).freq])
    BY <1>0
  <2>2. /\ gpios' = gpios
        /\ \/ Command([dev EXCEPT !.asked = Head(todo).freq], FALSE)
           \/ Command(dev, FALSE) \/ NoCommand
    BY <1>7 DEF TuneStep
  <2>3. QED
    BY <1>0, <2>1, <2>2, CommandPins DEF GpioInv
<1>8. QED
  BY <1>1, <1>2, <1>3, <1>4, <1>5, <1>6, <1>7 DEF Step

(* So does every call; and the list of steps, the flags and the device      *)
(* keep their form.                                                         *)
LEMMA FormHolds ==
  ASSUME FormInv, GpioInv, [Next]_vars
  PROVE  FormInv' /\ GpioInv'
<1>1. CASE UNCHANGED vars
  BY <1>1 DEF vars, host, ghost, FormInv, GpioInv, IsSteps, ElemsOf
<1>2. CASE Step
  BY <1>2, StepFrame, StepTakes, GpioStep DEF FormInv
<1>3. CASE Next /\ ~Step
  <2>1. dev' = dev /\ GpioInv'
    <3>1. CASE gpios' = gpios /\ gpioOk' = gpioOk
      BY <1>3, <3>1, CallFrame DEF GpioInv
    <3>2. CASE gpioOk' = FALSE
      BY <1>3, <3>2, CallFrame DEF GpioInv
    <3>3. QED
      BY <1>3, <3>1, <3>2, CallFrame
  <2>2. IsSteps(todo') /\ flags' \in [DOMAIN FlagPin -> BOOLEAN]
    BY <1>3, CallList, FlagList, FlagsHavePins DEF Plain, FormInv
  <2>3. QED
    BY <2>1, <2>2 DEF FormInv
<1>4. QED
  BY <1>1, <1>2, <1>3

(* A pin of a flag is set only with the flag, or about to be cleared.       *)
LEMMA FlagHolds ==
  ASSUME FormInv, FlagInv, [Next]_vars
  PROVE  FlagInv'
<1>0. \A f \in Flags : FlagPin[f] \notin ModePins \cup {"SHDWN"}
  BY FlagPins, FlagsHavePins
<1>1. CASE UNCHANGED vars
  BY <1>1 DEF vars, host, FlagInv, Pending
<1>2. CASE Step
  <2> DEFINE h == Head(todo)
  <2>1. flags' = flags /\ Pending = {h} \cup Pending'
    BY <1>2, StepFrame, StepTakes
  <2>2. \A f \in Flags, s \in Pending' : s.op = "pins" /\ FlagPin[f] \in s.on => flags'[f]
    BY <2>1 DEF FlagInv
  <2>3. ASSUME NEW f \in Flags, FlagPin[f] \in gpios'
        PROVE  flags[f] \/ UnsetPins({FlagPin[f]}) \in Pending'
    <3> DEFINE u == UnsetPins({FlagPin[f]})
    <3>0. u.op = "pins" /\ u.off = {FlagPin[f]}
      BY DEF UnsetPins
    <3> HIDE DEF h, u
    <3>1. CASE PinsStep
      <4>1. h.op = "pins" /\ gpios' = (gpios \cup h.on) \ h.off
        BY <3>1, PinsTaken DEF h
      <4>2. h # u
        BY <2>3, <3>0, <4>1
      <4>3. CASE FlagPin[f] \in h.on
        BY <2>1, <4>1, <4>3 DEF FlagInv
      <4>4. CASE FlagPin[f] \notin h.on
        <5>1. FlagPin[f] \in gpios
          BY <2>3, <4>1, <4>4
        <5>2. QED
          BY <2>1, <4>2, <5>1 DEF FlagInv, u
      <4>5. QED
        BY <4>3, <4>4
    <3>2. CASE ~PinsStep
      <4>1. FlagPin[f] \in gpios
        <5>1. CASE AttStep
          BY <1>0, <2>3, <5>1, AttPinsKept DEF ModePins
        <5>2. CASE ~AttStep
          BY <1>2, <2>3, <3>2, <5>2, StepFrame
        <5>3. QED
          BY <5>1, <5>2
      <4>2. h # u
        BY <1>2, <3>0, <3>2, StepFrame DEF h
      <4>3. QED
        BY <2>1, <4>1, <4>2 DEF FlagInv, u
    <3>3. QED
      BY <3>1, <3>2 DEF u
  <2>4. QED
    BY <2>1, <2>2, <2>3 DEF FlagInv
<1>3. ASSUME Next, ~Step, NEW g \in Flags, NEW b \in BOOLEAN, UptFlag(g, b) PROVE FlagInv'
  <2>1. gpios' = gpios /\ Pending = {} /\ flags' = [flags EXCEPT ![g] = b]
    BY <1>3, FlagList, NothingPending
  <2>2. FlagStep(g, b) \in Pending' /\ Pending' \subseteq {FlagStep(g, b), SetRand(b)}
    BY <1>3, FlagList
  <2>3. g \in DOMAIN flags /\ flags'[g] = b /\ \A f \in Flags : f # g => flags'[f] = flags[f]
    BY <2>1, FlagsHavePins DEF FormInv
  <2>4. \A f \in Flags : FlagPin[f] \in gpios => flags[f]
    BY <2>1 DEF FlagInv
  <2>5. SetRand(b).op # "pins"
    BY DEF SetRand
  <2>6. CASE b = TRUE
    <3>1. FlagStep(g, b).on = {FlagPin[g]} /\ flags'[g]
      BY <2>3, <2>6 DEF FlagStep, SetPins
    <3>2. \A f \in Flags, s \in Pending' : s.op = "pins" /\ FlagPin[f] \in s.on => flags'[f]
      BY <2>2, <2>5, <3>1, FlagPins, FlagsHavePins
    <3>3. \A f \in Flags : FlagPin[f] \in gpios' => flags'[f]
      BY <2>1, <2>3, <2>4, <3>1
    <3>4. QED
      BY <3>2, <3>3 DEF FlagInv
  <2>7. CASE b = FALSE
    <3>1. FlagStep(g, b) = UnsetPins({FlagPin[g]})
      BY <2>7 DEF FlagStep
    <3>2. UnsetPins({FlagPin[g]}).on = {}
      BY DEF UnsetPins
    <3>3. \A s \in Pending' : s.op = "pins" => s.on = {}
      BY <2>2, <2>5, <3>1, <3>2
    <3>4. \A f \in Flags : FlagPin[f] \in gpios' =>
             flags'[f] \/ UnsetPins({FlagPin[f]}) \in Pending'
      BY <2>1, <2>2, <2>3, <2>4, <3>1
    <3>5. QED
      BY <3>3, <3>4 DEF FlagInv
  <2>8. QED
    BY <2>6, <2>7
<1>4. CASE Next /\ ~Step /\ Plain
  <2>1. Pending = {} /\ gpios' \subseteq gpios /\ flags' = flags
    BY <1>4, CallFrame, NothingPending DEF Plain
  <2>2. \A f \in Flags : FlagPin[f] \in gpios => flags[f]
    BY <2>1 DEF FlagInv
  <2>3. \A f \in Flags, s \in Pending' : s.op = "pins" => FlagPin[f] \notin s.on
    BY <1>0, <1>4 DEF Plain
  <2>4. QED
    BY <2>1, <2>2, <2>3 DEF FlagInv
<1>5. QED
  BY <1>1, <1>2, <1>3, <1>4, CallList

(* The converter derandomises, or is about to, while the pin is set or      *)
(* about to be; and stops to only with the pin cleared.                     *)
LEMMA RandHolds ==
  ASSUME FormInv, RandInv, [Next]_vars
  PROVE  RandInv'
<1>0. "RANDO" \notin ModePins \cup {"SHDWN"}
  BY FlagPins
<1>1. CASE UNCHANGED vars
  BY <1>1 DEF vars, host, RandInv, Pending
<1>2. CASE Step
  <2> DEFINE h == Head(todo)
  <2>1. todo # <<>> /\ todo' = Tail(todo) /\ Pending = {h} \cup Pending'
    BY <1>2, StepFrame, StepTakes
  <2>2. \A x, s : /\ todo = <<x, s>> => h = x /\ todo' = <<s>>
                  /\ todo = <<s>> => h = s /\ todo' = <<>>
    BY <2>1, ListTail
  <2>3. todo' = <<>> => Pending' = {}
    BY ElemsList DEF Pending
  <2>4. UnsetPins({"RANDO"}).op = "pins" /\ UnsetPins({"RANDO"}).off = {"RANDO"}
    BY DEF UnsetPins
  <2>5. SetRand(TRUE).op = "rand" /\ SetRand(TRUE).value = TRUE
    BY DEF SetRand
  <2> HIDE DEF h
  <2>6. CASE h.op = "rand" /\ h.value # TRUE
    <3>1. todo = <<h>> /\ "RANDO" \notin gpios
      BY <2>1, <2>2, <2>4, <2>6 DEF RandInv
    <3>2. Pending' = {} /\ gpios' = gpios
      <4>1. ~PinsStep /\ ~AttStep
        BY <2>6 DEF PinsStep, AttStep, Done, h
      <4>2. QED
        BY <1>2, <2>2, <2>3, <3>1, <4>1, StepFrame
    <3>3. QED
      BY <3>1, <3>2 DEF RandInv
  <2>7. CASE ~(h.op = "rand" /\ h.value # TRUE)
    <3>1. rand = TRUE \/ SetRand(TRUE) \in Pending => rand' = TRUE \/ SetRand(TRUE) \in Pending'
      <4>1. CASE h.op = "rand"
        <5>1. R2iqStep
          BY <1>2, <4>1, StepFrame DEF h
        <5>2. rand' = h.value
          BY <4>1, <5>1 DEF R2iqStep, Done, h
        <5>3. QED
          BY <2>7, <4>1, <5>2
      <4>2. CASE h.op # "rand"
        <5>1. rand' = rand
          BY <1>2, <4>2, StepFrame DEF R2iqStep, Done, h
        <5>2. h # SetRand(TRUE)
          BY <2>5, <4>2
        <5>3. QED
          BY <2>1, <5>1, <5>2
      <4>3. QED
        BY <4>1, <4>2
    <3>2. "RANDO" \in gpios' => rand' = TRUE \/ SetRand(TRUE) \in Pending'
      <4>1. CASE PinsStep
        <5>1. h.op = "pins" /\ gpios' = (gpios \cup h.on) \ h.off
          BY <4>1, PinsTaken DEF h
        <5>2. QED
          BY <2>1, <3>1, <5>1 DEF RandInv
      <4>2. CASE ~PinsStep
        <5>1. "RANDO" \in gpios' => "RANDO" \in gpios
          <6>1. CASE AttStep
            BY <1>0, <6>1, AttPinsKept DEF ModePins
          <6>2. CASE ~AttStep
            BY <1>2, <4>2, <6>2, StepFrame
          <6>3. QED
            BY <6>1, <6>2
        <5>2. QED
          BY <3>1, <5>1 DEF RandInv
      <4>3. QED
        BY <4>1, <4>2
    <3>3. \A s \in Pending' : s.op = "pins" /\ "RANDO" \in s.on =>
             rand' = TRUE \/ SetRand(TRUE) \in Pending'
      BY <2>1, <3>1 DEF RandInv
    <3>4. ASSUME NEW s \in Pending', s.op = "rand", s.value # TRUE
          PROVE  todo' = <<s>> /\ "RANDO" \notin gpios'
      <4>1. todo # <<s>>
        BY <2>2, <2>3, <3>4
      <4>2. todo = <<UnsetPins({"RANDO"}), s>>
        BY <2>1, <3>4, <4>1 DEF RandInv
      <4>3. h = UnsetPins({"RANDO"}) /\ todo' = <<s>>
        BY <2>2, <4>2
      <4>4. PinsStep
        BY <1>2, <2>4, <4>3, StepFrame DEF h
      <4>5. QED
        BY <2>4, <4>3, <4>4, PinsTaken DEF h
    <3>5. QED
      BY <3>2, <3>3, <3>4 DEF RandInv
  <2>8. QED
    BY <2>6, <2>7
<1>3. ASSUME Next, ~Step, NEW g \in Flags, NEW b \in BOOLEAN, UptFlag(g, b) PROVE RandInv'
  <2>1. gpios' = gpios /\ rand' = rand /\ Pending = {}
    BY <1>3, FlagList, NothingPending
  <2>2. "RANDO" \in gpios => rand = TRUE
    BY <2>1 DEF RandInv
  <2>3. /\ FlagStep(g, b).op = "pins" /\ SetRand(b).op = "rand" /\ SetRand(b).value = b
        /\ FlagStep(g, b).on \subseteq {FlagPin[g]}
        /\ b = FALSE => FlagStep(g, b) = UnsetPins({FlagPin[g]}) /\ FlagStep(g, b).on = {}
    BY DEF FlagStep, SetPins, UnsetPins, SetRand
  <2>4. CASE g # "randout"
    <3>1. Pending' = {FlagStep(g, b)}
      BY <1>3, <2>4, FlagList
    <3>2. "RANDO" \notin FlagStep(g, b).on
      BY <2>3, <2>4, FlagPins, FlagsHavePins
    <3>3. QED
      BY <2>1, <2>2, <2>3, <3>1, <3>2 DEF RandInv
  <2>5. CASE g = "randout"
    <3>1. /\ todo' = <<FlagStep(g, b), SetRand(b)>> /\ FlagPin[g] = "RANDO"
          /\ Pending' = {FlagStep(g, b), SetRand(b)}
      BY <1>3, <2>5, FlagList, FlagPins
    <3>2. CASE b = TRUE
      BY <2>1, <2>3, <3>1, <3>2 DEF RandInv
    <3>3. CASE b = FALSE
      BY <2>1, <2>2, <2>3, <3>1, <3>3 DEF RandInv
    <3>4. QED
      BY <3>2, <3>3
  <2>6. QED
    BY <2>4, <2>5
<1>4. CASE Next /\ ~Step /\ Plain
  <2>1. Pending = {} /\ (gpios' = {} \/ (gpios' = gpios /\ rand' = rand))
    BY <1>4, CallFrame, NothingPending
  <2>2. "RANDO" \in gpios' => rand' = TRUE
    BY <2>1 DEF RandInv
  <2>3. \A s \in Pending' : s.op # "rand"
    BY <1>4 DEF Plain
  <2>4. \A s \in Pending' : s.op = "pins" => "RANDO" \notin s.on
    BY <1>0, <1>4 DEF Plain
  <2>5. QED
    BY <2>1, <2>2, <2>3, <2>4 DEF RandInv
<1>5. QED
  BY <1>1, <1>2, <1>3, <1>4, CallList

-----------------------------------------------------------------------------
(* The gain                                                                 *)

(* For a list of any length.                                                *)
LEMMA GainIndexHalves ==
  ASSUME NEW n \in Nat \ {0}, NEW v \in Int, 0 <= v, v <= 2 * (n - 1)
  PROVE  GainIndex(n, n, v) = v \div 2
<1> DEFINE P(i) == 2 * (i - 1) <= v /\ v < 2 * i
<1>1. CASE v < 2 * (n - 1)
  <2>1. (v \div 2) + 1 \in 1 .. n - 1 /\ P((v \div 2) + 1)
    BY <1>1, SMT
  <2>2. \A i \in 1 .. n - 1 : P(i) => i = (v \div 2) + 1
    BY SMT
  <2>3. (CHOOSE i \in 1 .. n - 1 : P(i)) = (v \div 2) + 1
    BY <2>1, <2>2
  <2>4. \E i \in 1 .. n - 1 : P(i)
    BY <2>1
  <2>5. GainIndex(n, n, v) = (CHOOSE i \in 1 .. n - 1 : P(i)) - 1
    BY <2>4 DEF GainIndex
  <2> DEFINE c == CHOOSE i \in 1 .. n - 1 : P(i)
  <2>6. c = (v \div 2) + 1 /\ GainIndex(n, n, v) = c - 1
    BY <2>3, <2>5
  <2> HIDE DEF c
  <2>7. v \div 2 \in Int
    BY SMT
  <2>8. QED
    BY <2>6, <2>7, SMT
<1>2. CASE v = 2 * (n - 1)
  <2>1. ~ \E i \in 1 .. n - 1 : P(i)
    BY <1>2, SMT
  <2>2. GainIndex(n, n, v) = n - 1
    BY <2>1 DEF GainIndex
  <2>3. QED
    BY <1>2, <2>2, SMT
<1>3. QED
  BY <1>1, <1>2, SMT

(* The gain last set has the index of its value in the list it was looked   *)
(* up in.                                                                   *)
LEMMA GainHolds ==
  ASSUME GainInv, [Next]_vars
  PROVE  GainInv'
<1>1. ASSUME NEW n \in {"RF", "IF"}, NEW v \in GainValues, setGain(n, v) PROVE GainInv'
  <2> DEFINE len == RFSteps(model, Mode)
  <2>1. CASE n = "RF"
    <3>1. lastGain' = [name |-> "RF", value |-> v, len |-> len, index |-> GainIndex(len, len, v)]
      BY <1>1, <2>1 DEF setGain
    <3>2. len \in Nat /\ v \in Int
      BY ControlAssumption, SMT DEF RFSteps, hf_rf_step_size
    <3> HIDE DEF len
    <3>3. QED
      BY <3>1, <3>2 DEF GainInv
  <2>2. CASE n # "RF"
    BY <1>1, <2>2 DEF setGain, GainInv
  <2>3. QED
    BY <2>1, <2>2
<1>2. ASSUME NEW f \in Freqs, SetHWLOdbl(f) \/ TuneLO(f) PROVE lastGain' = lastGain
  BY <1>2 DEF SetHWLOdbl, TuneLO, ghost
<1>3. ASSUME NEW i, SetAttenuator(i) \/ ExtIoSetMGC(i) \/ SetOverclock(i) PROVE lastGain' = lastGain
  BY <1>3 DEF SetAttenuator, ExtIoSetMGC, SetOverclock, ghost
<1>a. ASSUME NEW p, SetPPMvalue(p) PROVE lastGain' = lastGain
  BY <1>a DEF SetPPMvalue, ghost
<1>4. ASSUME NEW f, NEW b, UptFlag(f, b) PROVE lastGain' = lastGain
  BY <1>4 DEF UptFlag, ghost
<1>5. CloseHW \/ InitHW => lastGain' = lastGain
  BY DEF CloseHW, InitHW, ghost
<1>6. ASSUME NEW m, UpdatemodeRF(m) PROVE lastGain' = lastGain
  BY <1>6 DEF UpdatemodeRF
<1>7. Step \/ UNCHANGED vars => lastGain' = lastGain
  BY StepFrame DEF vars, ghost
<1>8. lastGain' = lastGain => GainInv'
  BY DEF GainInv
<1>9. QED
  BY <1>1, <1>2, <1>3, <1>a, <1>4, <1>5, <1>6, <1>7, <1>8 DEF Next

-----------------------------------------------------------------------------
(* Nothing is pending at the start.                                         *)
LEMMA InitHolds == Init => IInv
<1> SUFFICES ASSUME Init PROVE IInv
  OBVIOUS
<1>1. IsSteps(todo) /\ Pending = {}
  BY ElemsList DEF Init, Pending
<1>2. FormInv
  BY <1>1 DEF Init, FormInv, PowerOn
<1>3. ModeInv /\ GpioInv
  BY DEF Init, ModeInv, GpioInv
<1>4. FlagInv /\ RandInv
  BY <1>1 DEF Init, FlagInv, RandInv
<1>5. GainInv
  BY DEF Init, GainInv, NoGain
<1>6. QED
  BY <1>2, <1>3, <1>4, <1>5 DEF IInv

(* The invariant the others follow from.                                    *)
THEOREM Invariance == Spec => []IInv
<1>1. Init => IInv
  BY InitHolds
<1>2. IInv /\ [Next]_vars => IInv'
  BY FormHolds, ModeHolds, FlagHolds, RandHolds, GainHolds DEF IInv
<1>3. QED
  BY <1>1, <1>2, PTL DEF Spec

(* After a switch of mode the hardware class and the handler agree on the   *)
(* mode between any two calls, whatever fails and whatever the attenuator.  *)
THEOREM ModesAgree == Spec => []ModeAgrees
<1>1. IInv => ModeAgrees
  BY ElemsList DEF IInv, ModeInv, ModeAgrees, Idle, Pending
<1>2. QED
  BY <1>1, Invariance, PTL

(* A GPIO command that is answered brings the pins up to date, flags and    *)
(* randomisation included, whatever commands failed before.                 *)
THEOREM PinsRecover == Spec => []PinsFollow
<1>1. ASSUME IInv, Idle PROVE Pending = {}
  BY <1>1, ElemsList DEF Idle, Pending
<1>2. IInv => PinsFollow
  BY <1>1 DEF IInv, GpioInv, FlagInv, RandInv, PinsFollow
<1>3. QED
  BY <1>2, Invariance, PTL

(* Every value in the range announced selects its step of the RF gain,      *)
(* however many steps the radio has.                                        *)
THEOREM RfGainCorrect == Spec => []RfGainAsAsked
<1>1. IInv => RfGainAsAsked
  <2>1. SUFFICES ASSUME IInv, lastGain.name = "RF", InRange
                 PROVE  lastGain.index = lastGain.value \div 2
    BY DEF RfGainAsAsked
  <2> DEFINE n == lastGain.len
             v == lastGain.value
  <2>2. n \in Nat /\ v \in Int /\ lastGain.index = GainIndex(n, n, v)
    BY <2>1 DEF IInv, GainInv
  <2>3. n > 0 /\ 0 <= v /\ v <= 2 * (n - 1)
    BY <2>1 DEF InRange
  <2> HIDE DEF n, v
  <2>4. n \in Nat \ {0}
    BY <2>2, <2>3
  <2>5. lastGain.index = v \div 2
    BY <2>2, <2>3, <2>4, GainIndexHalves
  <2>6. QED
    BY <2>5 DEF v
<1>2. QED
  BY <1>1, Invariance, PTL
=============================================================================
