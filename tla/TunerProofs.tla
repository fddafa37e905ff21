----------------------------- MODULE TunerProofs -----------------------------
(***************************************************************************)
(* Proofs about TunerR82xx.tla, for any frequencies and gains and however  *)
(* many transfers fail.                                                    *)
(*                                                                         *)
(* What the driver reported done is in the chip because each stage finds   *)
(* what the stages before it wrote still in the chip and in the shadow:    *)
(* the other fields of a register are sent again with every field, so the  *)
(* two have to agree (Holds).                                              *)
(***************************************************************************)
EXTENDS TunerR82xx, TLAPS

(* Field f is v in the chip, and will be if its register is sent again.     *)
Holds(f, v) == chip[f] = v /\ regs[f] = v

CalStages  == {"lnaTop", "caliOn", "trigger", "untrigger", "caliOff", "calStatus",
               "filter", "sysInput", "sysDet", "sysAgc1", "sysTop", "sysAgc2"}
BandStages == {"bandwidth", "bwFilter", "bwExt"}
MuxStages  == {"openD", "mux", "band", "xtalCap"}
GainStages == {"lnaMode", "mixMode", "gainStatus", "lna", "mixer"}
StandbyStages == {"sb06", "sb05", "sb07", "sb08", "sb0c", "sb0f", "sb11", "sb17", "sb19"}
Stages == CalStages \cup BandStages \cup MuxStages \cup PllStages \cup GainStages
            \cup StandbyStages \cup {"harmonic", "input"}

(* Where requests can be, and what has been taken back there.               *)
FlowInv ==
  /\ pc \in Stages \cup {"idle"}
  /\ pc \notin StandbyStages \cup {"idle"} => cfg
  /\ tuned.freq # None \/ gained # None => cfg
  /\ pc \in CalStages => round # 0 /\ ~initOk
  /\ pc \in PllStages /\ round # 0 => ~initOk
  /\ pc \in MuxStages \cup {"harmonic", "input"} => round = 0
  /\ pc \notin GainStages \cup {"idle"} => tuned = NotTuned
  /\ pc \in GainStages \cup StandbyStages => gained = None
  /\ pc \in StandbyStages => ~vgaSent

CaliInv == initOk \/ pc \in {"calStatus", "filter", "sysInput", "sysDet", "sysAgc1",
                             "sysTop", "sysAgc2"}
             => Holds("cali", 0)

CurrentInv == cfg /\ 18 \notin unsure => Holds("current", last_vco_curr)

InputInv ==
  /\ cfg /\ 5 \notin unsure => Holds("input", input)
  /\ pc \in StandbyStages => 5 \in unsure
  /\ tuned.freq # None /\ model = "R828D" => input = air_cable1_in(tuned.freq)

(* The fields a tuning is made of, and their values for a LO.               *)
MuxFields   == {"openD", "mux", "band", "xtalCap"}
TunedFields == MuxFields \cup {"div", "nint", "sdmHi", "sdmLo"}
Want(f, l, p, fi) == IF f \in MuxFields THEN Range(l)
                     ELSE IF f = "div" THEN div_num(model, p, fi)
                     ELSE IF f = "nint" THEN nint(model, p)
                     ELSE sdm(model, p)
(* Those written when a tuning has come to a stage.                         *)
SetBefore(s) ==
  CASE s \in {"openD", "harmonic"} -> {}
    [] s = "mux"     -> {"openD"}
    [] s = "band"    -> {"openD", "mux"}
    [] s = "xtalCap" -> {"openD", "mux", "band"}
    [] s \in {"refdiv", "autotune", "vcoMin", "status", "div"} -> MuxFields
    [] s = "nint"    -> MuxFields \cup {"div"}
    [] s \in {"frac", "sdmHi"} -> MuxFields \cup {"div", "nint"}
    [] s = "sdmLo"   -> MuxFields \cup {"div", "nint", "sdmHi"}
    [] OTHER         -> TunedFields
PathInv ==
  pc \in MuxStages \cup PllStages \cup {"harmonic", "input"} /\ round = 0 =>
    \A f \in SetBefore(pc) : Holds(f, Want(f, lo, PllLo, fine))
DoneInv ==
  tuned.freq # None =>
    \A f \in TunedFields : Holds(f, Want(f, tuned.lo, tuned.pllLo, tuned.fine))

GainInv ==
  /\ pc \in {"mixMode", "gainStatus", "lna", "mixer"} \/ gained # None => Holds("lnaMode", 1)
  /\ pc \in {"gainStatus", "lna", "mixer"} \/ gained # None => Holds("mixMode", 0)
  /\ pc = "mixer" => Holds("lna", lna_gains(arg))
  /\ gained # None => Holds("lna", lna_gains(gained)) /\ Holds("mixer", mixer_gains(gained))

VgaInv == /\ vgaSet # None => vgaSet = m_vgagain_index
          /\ vgaSent => chip.vga = m_vgagain_index

IInv == /\ FlowInv /\ CaliInv /\ CurrentInv /\ InputInv
        /\ PathInv /\ DoneInv /\ GainInv /\ VgaInv

-----------------------------------------------------------------------------
(* What a step does to a field it does not write, at most: its register is  *)
(* sent again.                                                              *)
Same(f) == regs'[f] = regs[f] /\ chip'[f] \in {chip[f], regs[f]}

(* What holds for a field still does when it is only sent again.            *)
LEMMA SameHolds == ASSUME NEW f, NEW v, Holds(f, v), Same(f) PROVE Holds(f, v)'
  BY DEF Holds, Same

(* The fields, and where they are.                                          *)
FieldNames == {"input", "lnaMode", "lna", "sideband", "mixMode", "mixer", "vga", "cali",
               "xtalCap", "div", "current", "frac", "nint", "sdmLo", "sdmHi", "openD",
               "mux", "autotune", "band"}

(* The registers of the fields, one by one.                                 *)
LEMMA Fields ==
  /\ Field = FieldNames
  /\ Reg.input = 5 /\ Reg.lnaMode = 5 /\ Reg.lna = 5
  /\ Reg.sideband = 7 /\ Reg.mixMode = 7 /\ Reg.mixer = 7
  /\ Reg.vga = 12 /\ Reg.cali = 15 /\ Reg.xtalCap = 16 /\ Reg.div = 16
  /\ Reg.current = 18 /\ Reg.frac = 18 /\ Reg.nint = 20
  /\ Reg.sdmLo = 21 /\ Reg.sdmHi = 22 /\ Reg.openD = 23
  /\ Reg.mux = 26 /\ Reg.autotune = 26 /\ Reg.band = 27
  BY DEF Field, Reg, FieldNames

(* What r82xx_write_arr changes, whether the transfer works or not.         *)
LEMMA WriteEffect ==
  ASSUME NEW rs, NEW vals, NEW ok \in BOOLEAN, Write(rs, vals, ok)
  PROVE  /\ \A f \in Field \ DOMAIN vals : Same(f)
         /\ \A f \in Field : Reg[f] \notin rs => chip'[f] = chip[f]
         /\ \A f \in Field \cap DOMAIN vals :
              regs'[f] = vals[f] /\ chip'[f] \in {chip[f], vals[f]}
         /\ \A f \in Field \cap DOMAIN vals : ok /\ cfg /\ Reg[f] \in rs =>
              chip'[f] = vals[f] /\ regs'[f] = vals[f]
         /\ unsure' = IF ok THEN unsure ELSE unsure \cup rs
  BY DEF Write, Same

(* A stage goes on having written its fields, or gives up not sure of them. *)
LEMMA StageEffect ==
  ASSUME NEW s, NEW vals, NEW next, NEW abort, Stage(s, vals, next, abort)
  PROVE  /\ pc = s /\ pc' \in {next, abort}
         /\ \A f \in Field \ DOMAIN vals : Same(f)
         /\ \A f \in Field : (\A g \in DOMAIN vals : Reg[f] # Reg[g]) => chip'[f] = chip[f]
         /\ \A f \in Field \cap DOMAIN vals :
              regs'[f] = vals[f] /\ chip'[f] \in {chip[f], vals[f]}
         /\ \A f \in Field \cap DOMAIN vals : pc' # abort /\ cfg => Holds(f, vals[f])'
         /\ \A f \in DOMAIN vals : pc' # next => Reg[f] \in unsure'
         /\ unsure \subseteq unsure'
<1> DEFINE rs == {Reg[f] : f \in DOMAIN vals}
<1>1. PICK ok \in BOOLEAN : Goes(s, IF ok THEN next ELSE abort) /\ Write(rs, vals, ok)
  BY DEF Stage
<1>2. pc = s /\ pc' = IF ok THEN next ELSE abort
  BY <1>1 DEF Goes
<1>3. /\ \A f \in Field \ DOMAIN vals : Same(f)
      /\ \A f \in Field : Reg[f] \notin rs => chip'[f] = chip[f]
      /\ \A f \in Field \cap DOMAIN vals :
              regs'[f] = vals[f] /\ chip'[f] \in {chip[f], vals[f]}
      /\ \A f \in Field \cap DOMAIN vals : ok /\ cfg /\ Reg[f] \in rs =>
              chip'[f] = vals[f] /\ regs'[f] = vals[f]
      /\ unsure' = IF ok THEN unsure ELSE unsure \cup rs
  BY <1>1, WriteEffect
<1>4. \A f \in DOMAIN vals : Reg[f] \in rs
  OBVIOUS
<1>5. \A f \in Field : (\A g \in DOMAIN vals : Reg[f] # Reg[g]) => Reg[f] \notin rs
  OBVIOUS
<1>6. ASSUME NEW f \in Field \cap DOMAIN vals, cfg, pc' # abort
      PROVE  Holds(f, vals[f])'
  <2>1. ok
    BY <1>2, <1>3, <1>4, <1>6
  <2>2. QED
    BY <2>1, <1>3, <1>4, <1>6 DEF Holds
<1>7. \A f \in DOMAIN vals : pc' # next => Reg[f] \in unsure'
  BY <1>2, <1>3, <1>4
<1>8. QED
  BY <1>2, <1>3, <1>5, <1>6, <1>7

(* A transfer without a field changes none.                                 *)
LEMMA OtherEffect ==
  ASSUME NEW s, NEW next, NEW abort, OtherStage(s, next, abort)
  PROVE  pc = s /\ pc' \in {next, abort} /\ UNCHANGED <<chip, regs, unsure>>
  BY DEF OtherStage, Other, Goes

(* A register sent again without a field of its own changes none.           *)
LEMMA RewriteEffect ==
  ASSUME NEW r, NEW ok \in BOOLEAN, Write({r}, <<>>, ok)
  PROVE  /\ \A f \in Field : Same(f)
         /\ \A f \in Field : Reg[f] # r => chip'[f] = chip[f]
         /\ unsure \subseteq unsure'
<1>1. DOMAIN <<>> = {}
  OBVIOUS
<1>2. QED
  BY <1>1, WriteEffect

(* A field nobody touched is the same field.                                *)
LEMMA UnchangedSame == ASSUME UNCHANGED <<chip, regs>> PROVE \A f \in Field : Same(f)
  BY DEF Same

-----------------------------------------------------------------------------
(* The same without the fields.                                             *)
LEMMA StageGoes ==
  /\ \A s, vals, next, abort : Stage(s, vals, next, abort) => pc = s /\ pc' \in {next, abort}
  /\ \A s, next, abort : OtherStage(s, next, abort) => pc = s /\ pc' \in {next, abort}
  BY DEF Stage, OtherStage, Goes

(* Reading the lock leads on, to the maximum current, or to a failure.      *)
LEMMA LockGoes ==
  ReadLock => pc \in {"lock", "relock"} /\ pc' \in {"locked", "vcoMax", PllFails}
<1>1. SUFFICES ASSUME NEW locked \in BOOLEAN,
                      \/ OtherStage("lock", IF locked THEN "locked" ELSE "vcoMax", PllFails)
                      \/ OtherStage("relock", IF locked THEN "locked" ELSE PllFails, PllFails)
               PROVE  pc \in {"lock", "relock"} /\ pc' \in {"locked", "vcoMax", PllFails}
  BY DEF ReadLock
<1>2. QED
  BY <1>1, StageGoes, SMT

(* The stages of r82xx_set_mux lead to each other, to the PLL or back.      *)
LEMMA MuxGoes == SetMux => pc \in MuxStages /\ pc' \in MuxStages \cup {"refdiv", "idle"}
  BY StageGoes, SMT DEF SetMux, MuxFails, MuxStages

(* Those of r82xx_set_pll lead to each other, or to a failure.              *)
LEMMA PllGoes ==
  PllStart \/ VcoMin \/ SetPll \/ ReadLock \/ VcoMax =>
    pc \in PllStages /\ pc' \in PllStages \cup {PllFails}
<1>1. CASE PllStart
  BY <1>1, StageGoes, SMT DEF PllStart, PllStages, Goes
<1>2. CASE VcoMin
  BY <1>2, StageGoes, SMT DEF VcoMin, PllStages, Goes
<1>3. CASE SetPll
  BY <1>3, StageGoes, SMT DEF SetPll, PllStages
<1>4. CASE ReadLock
  BY <1>4, LockGoes, SMT DEF PllStages
<1>5. CASE VcoMax
  BY <1>5, StageGoes, SMT DEF VcoMax, PllStages, Goes
<1>6. QED
  BY <1>1, <1>2, <1>3, <1>4, <1>5

(* Those of the gain lead to each other, or back.                           *)
LEMMA GainsGo == GainModes => pc \in GainStages /\ pc' \in GainStages \cup {"idle"}
  BY StageGoes, SMT DEF GainModes, GainStages

(* Those of the standby lead to each other, or back.                        *)
LEMMA StandbyGoes == StandbyStep => pc \in StandbyStages /\ pc' \in StandbyStages \cup {"idle"}
  BY StageGoes, SMT DEF StandbyStep, StandbyStages

(* The stages each step of a request serves.                                *)
LEMMA Places ==
  /\ LnaTop => pc \in {"lnaTop"}
  /\ CaliOn => pc \in {"caliOn"}
  /\ Trigger => pc \in {"trigger", "untrigger"}
  /\ CaliOff => pc \in {"caliOff"}
  /\ CalStatus => pc \in {"calStatus"}
  /\ Filter => pc \in {"filter"}
  /\ SysInput => pc \in {"sysInput"}
  /\ SysRest => pc \in {"sysDet", "sysAgc1", "sysTop"}
  /\ SysLast => pc \in {"sysAgc2"}
  /\ Bandwidth => pc \in BandStages
  /\ SetMux => pc \in MuxStages
  /\ Harmonic => pc \in {"harmonic"}
  /\ PllStart => pc \in {"refdiv", "autotune"}
  /\ VcoMin => pc \in {"vcoMin"}
  /\ ReadStatus => pc \in {"status"}
  /\ SetDivider => pc \in {"div"}
  /\ SetPll => pc \in {"nint", "frac", "sdmHi", "sdmLo"}
  /\ ReadLock => pc \in {"lock", "relock"}
  /\ VcoMax => pc \in {"vcoMax"}
  /\ Locked => pc \in {"locked"}
  /\ SelectInput => pc \in {"input"}
  /\ GainModes => pc \in {"lnaMode", "mixMode", "gainStatus", "lna"}
  /\ GainMixer => pc \in {"mixer"}
  /\ StandbyStep => pc \in StandbyStages
<1> USE StageGoes, SMT DEF Goes, BandStages, MuxStages, StandbyStages, SysAgc
<1>1. LnaTop => pc \in {"lnaTop"}
  BY DEF LnaTop
<1>2. CaliOn => pc \in {"caliOn"}
  BY DEF CaliOn
<1>3. Trigger => pc \in {"trigger", "untrigger"}
  BY DEF Trigger
<1>4. CaliOff => pc \in {"caliOff"}
  BY DEF CaliOff
<1>5. CalStatus => pc \in {"calStatus"}
  BY DEF CalStatus
<1>6. Filter => pc \in {"filter"}
  BY DEF Filter
<1>7. SysInput => pc \in {"sysInput"}
  BY DEF SysInput
<1>8. SysRest => pc \in {"sysDet", "sysAgc1", "sysTop"}
  BY DEF SysRest
<1>9. SysLast => pc \in {"sysAgc2"}
  BY DEF SysLast
<1>10. Bandwidth => pc \in BandStages
  BY DEF Bandwidth
<1>11. SetMux => pc \in MuxStages
  BY DEF SetMux
<1>12. Harmonic => pc \in {"harmonic"}
  BY DEF Harmonic
<1>13. PllStart => pc \in {"refdiv", "autotune"}
  BY DEF PllStart
<1>14. VcoMin => pc \in {"vcoMin"}
  BY DEF VcoMin
<1>15. ReadStatus => pc \in {"status"}
  BY DEF ReadStatus
<1>16. SetDivider => pc \in {"div"}
  BY DEF SetDivider
<1>17. SetPll => pc \in {"nint", "frac", "sdmHi", "sdmLo"}
  BY DEF SetPll
<1>18. ReadLock => pc \in {"lock", "relock"}
  BY LockGoes
<1>19. VcoMax => pc \in {"vcoMax"}
  BY DEF VcoMax
<1>20. Locked => pc \in {"locked"}
  BY DEF Locked
<1>21. SelectInput => pc \in {"input"}
  BY DEF SelectInput
<1>22. GainModes => pc \in {"lnaMode", "mixMode", "gainStatus", "lna"}
  BY DEF GainModes
<1>23. GainMixer => pc \in {"mixer"}
  BY DEF GainMixer
<1>24. StandbyStep => pc \in StandbyStages
  BY DEF StandbyStep
<1>25. QED
  BY <1>1, <1>2, <1>3, <1>4, <1>5, <1>6, <1>7, <1>8, <1>9, <1>10, <1>11, <1>12, <1>13,
     <1>14, <1>15, <1>16, <1>17, <1>18, <1>19, <1>20, <1>21, <1>22, <1>23, <1>24

(* ... and those it leads to.                                               *)
LEMMA Targets ==
  /\ LnaTop => pc' \in {"caliOn", "bandwidth"}
  /\ CaliOn => pc' \in {"refdiv", "bandwidth"}
  /\ Trigger => pc' \in {"untrigger", "caliOff", "bandwidth"}
  /\ CaliOff => pc' \in {"calStatus", "bandwidth"}
  /\ CalStatus => pc' \in {"filter", "caliOn", "bandwidth"}
  /\ Filter => pc' \in {"sysInput", "bandwidth"}
  /\ SysInput => pc' \in {"sysDet", "bandwidth"}
  /\ SysRest => pc' \in {"sysAgc1", "sysTop", "sysAgc2", "bandwidth"}
  /\ SysLast => pc' \in {"bandwidth"}
  /\ Bandwidth => pc' \in {"bwFilter", "bwExt", "idle"}
  /\ SetMux => pc' \in MuxStages \cup {"refdiv", "idle"}
  /\ Harmonic => pc' \in {"openD"}
  /\ PllStart \/ VcoMin \/ SetPll \/ ReadLock \/ VcoMax => pc' \in PllStages \cup {"bandwidth", "harmonic", "idle"}
  /\ ReadStatus => pc' \in {"div", "bandwidth", "harmonic", "idle"}
  /\ SetDivider => pc' \in {"nint", "bandwidth", "harmonic", "idle"}
  /\ Locked => pc' \in {"input", "trigger", "bandwidth", "harmonic", "idle"}
  /\ SelectInput => pc' \in {"idle"}
  /\ GainModes => pc' \in GainStages \cup {"idle"}
  /\ GainMixer => pc' \in {"idle"}
  /\ StandbyStep => pc' \in StandbyStages \cup {"idle"}
<1> USE StageGoes, SMT DEF Goes, PllFails, SysAgc
<1>1. LnaTop => pc' \in {"caliOn", "bandwidth"}
  BY DEF LnaTop
<1>2. CaliOn => pc' \in {"refdiv", "bandwidth"}
  BY DEF CaliOn
<1>3. Trigger => pc' \in {"untrigger", "caliOff", "bandwidth"}
  BY DEF Trigger
<1>4. CaliOff => pc' \in {"calStatus", "bandwidth"}
  BY DEF CaliOff
<1>5. CalStatus => pc' \in {"filter", "caliOn", "bandwidth"}
  BY DEF CalStatus
<1>6. Filter => pc' \in {"sysInput", "bandwidth"}
  BY DEF Filter
<1>7. SysInput => pc' \in {"sysDet", "bandwidth"}
  BY DEF SysInput
<1>8. SysRest => pc' \in {"sysAgc1", "sysTop", "sysAgc2", "bandwidth"}
  BY DEF SysRest
<1>9. SysLast => pc' \in {"bandwidth"}
  BY DEF SysLast
<1>10. Bandwidth => pc' \in {"bwFilter", "bwExt", "idle"}
  BY DEF Bandwidth
<1>11. SetMux => pc' \in MuxStages \cup {"refdiv", "idle"}
  BY MuxGoes
<1>12. Harmonic => pc' \in {"openD"}
  BY DEF Harmonic
<1>13. PllStart \/ VcoMin \/ SetPll \/ ReadLock \/ VcoMax => pc' \in PllStages \cup {"bandwidth", "harmonic", "idle"}
  BY PllGoes
<1>14. ReadStatus => pc' \in {"div", "bandwidth", "harmonic", "idle"}
  BY DEF ReadStatus
<1>15. SetDivider => pc' \in {"nint", "bandwidth", "harmonic", "idle"}
  BY DEF SetDivider
<1>16. Locked => pc' \in {"input", "trigger", "bandwidth", "harmonic", "idle"}
  BY DEF Locked
<1>17. SelectInput => pc' \in {"idle"}
  BY DEF SelectInput
<1>18. GainModes => pc' \in GainStages \cup {"idle"}
  BY GainsGo
<1>19. GainMixer => pc' \in {"idle"}
  BY DEF GainMixer
<1>20. StandbyStep => pc' \in StandbyStages \cup {"idle"}
  BY StandbyGoes
<1>21. QED
  BY <1>1, <1>2, <1>3, <1>4, <1>5, <1>6, <1>7, <1>8, <1>9, <1>10, <1>11, <1>12, <1>13,
     <1>14, <1>15, <1>16, <1>17, <1>18, <1>19, <1>20

(* Where requests go, whatever is written.                                  *)
LEMMA PllFlow ==
  ASSUME FlowInv, pc \in PllStages, pc' \in PllStages \cup {PllFails},
         UNCHANGED <<cfg, locals, told>>
  PROVE  FlowInv'
<1>1. \/ PllFails = "bandwidth" /\ round # 0
      \/ PllFails \in {"harmonic", "idle"} /\ round = 0
  BY DEF PllFails
<1>2. CASE pc' \in PllStages
  BY <1>2, SMT DEF FlowInv, PllStages, Stages, CalStages, BandStages, MuxStages, GainStages,
                   StandbyStages, locals, told
<1>3. CASE pc' = PllFails
  BY <1>1, <1>3, SMT DEF FlowInv, PllStages, Stages, CalStages, BandStages, MuxStages,
                         GainStages, StandbyStages, locals, told
<1>4. QED
  BY <1>2, <1>3

(* Every step leaves requests where they can be.                            *)
LEMMA FlowStep ==
  ASSUME FlowInv, [Next]_vars
  PROVE  FlowInv'
<1> USE DEF FlowInv, Stages, CalStages, BandStages, MuxStages, PllStages, GainStages,
            StandbyStages, driver, locals, told, Stage, OtherStage, Goes, NotTuned, None
<1>1. CASE LnaTop
  BY <1>1, SMT DEF LnaTop
<1>2. CASE CaliOn
  BY <1>2, SMT DEF CaliOn
<1>3. CASE Trigger
  BY <1>3, SMT DEF Trigger
<1>4. CASE CaliOff
  BY <1>4, SMT DEF CaliOff
<1>5. CASE CalStatus
  BY <1>5, SMT DEF CalStatus
<1>6. CASE Filter
  BY <1>6, SMT DEF Filter
<1>7. CASE SysInput
  BY <1>7, SMT DEF SysInput
<1>8. CASE SysRest
  BY <1>8, SMT DEF SysRest, SysAgc
<1>9. CASE SysLast
  BY <1>9, SMT DEF SysLast
<1>10. CASE Bandwidth
  BY <1>10, SMT DEF Bandwidth
<1>11. CASE SetMux
  <2>1. pc \in MuxStages /\ pc' \in MuxStages \cup {"refdiv", "idle"}
    BY <1>11, MuxGoes
  <2>2. UNCHANGED <<cfg, locals, told>>
    BY <1>11 DEF SetMux
  <2>3. QED
    BY <2>1, <2>2, SMT
<1>12. CASE Harmonic
  BY <1>12, SMT DEF Harmonic
<1>13. CASE PllStart
  <2>1. pc \in PllStages /\ pc' \in PllStages \cup {PllFails}
    BY <1>13, PllGoes
  <2>2. UNCHANGED <<cfg, locals, told>>
    BY <1>13 DEF PllStart
  <2>3. QED
    BY <2>1, <2>2, PllFlow
<1>14. CASE VcoMin
  <2>1. pc \in PllStages /\ pc' \in PllStages \cup {PllFails}
    BY <1>14, PllGoes
  <2>2. UNCHANGED <<cfg, locals, told>>
    BY <1>14 DEF VcoMin
  <2>3. QED
    BY <2>1, <2>2, PllFlow
<1>15. CASE ReadStatus
  BY <1>15, SMT DEF ReadStatus, PllFails
<1>16. CASE SetDivider
  BY <1>16, SMT DEF SetDivider, PllFails
<1>17. CASE SetPll
  <2>1. pc \in PllStages /\ pc' \in PllStages \cup {PllFails}
    BY <1>17, PllGoes
  <2>2. UNCHANGED <<cfg, locals, told>>
    BY <1>17 DEF SetPll
  <2>3. QED
    BY <2>1, <2>2, PllFlow
<1>18. CASE ReadLock
  <2>1. pc \in PllStages /\ pc' \in PllStages \cup {PllFails}
    BY <1>18, PllGoes
  <2>2. UNCHANGED <<cfg, locals, told>>
    BY <1>18 DEF ReadLock
  <2>3. QED
    BY <2>1, <2>2, PllFlow
<1>19. CASE VcoMax
  <2>1. pc \in PllStages /\ pc' \in PllStages \cup {PllFails}
    BY <1>19, PllGoes
  <2>2. UNCHANGED <<cfg, locals, told>>
    BY <1>19 DEF VcoMax
  <2>3. QED
    BY <2>1, <2>2, PllFlow
<1>20. CASE Locked
  BY <1>20, SMT DEF Locked, PllFails
<1>21. CASE SelectInput
  BY <1>21, SMT DEF SelectInput, TunedNow
<1>22. CASE GainModes
  <2>1. pc \in GainStages /\ pc' \in GainStages \cup {"idle"}
    BY <1>22, GainsGo
  <2>2. UNCHANGED <<cfg, locals, told>>
    BY <1>22 DEF GainModes
  <2>3. QED
    BY <2>1, <2>2, SMT
<1>23. CASE GainMixer
  BY <1>23, SMT DEF GainMixer
<1>24. CASE StandbyStep
  <2>1. pc \in StandbyStages /\ pc' \in StandbyStages \cup {"idle"}
    BY <1>24, StandbyGoes
  <2>2. UNCHANGED <<cfg, locals, told>>
    BY <1>24 DEF StandbyStep
  <2>3. QED
    BY <2>1, <2>2, SMT
<1>25. CASE TUNERINIT
  BY <1>25, SMT DEF TUNERINIT, Request
<1>26. CASE TUNERSTDBY
  BY <1>26, SMT DEF TUNERSTDBY, Request
<1>27. ASSUME NEW f \in Freqs, TUNERTUNE(f) PROVE FlowInv'
  BY <1>27, SMT DEF TUNERTUNE, Request
<1>28. ASSUME NEW g \in Gains, SetAllGains(g) PROVE FlowInv'
  BY <1>28, SMT DEF SetAllGains, Request
<1>29. ASSUME NEW g \in VgaGains, SetVga(g) PROVE FlowInv'
  BY <1>29, SMT DEF SetVga, Request
<1>30. ASSUME NEW s \in 0 .. 1, SetSideband(s) PROVE FlowInv'
  BY <1>30, SMT DEF SetSideband, Request
<1>31. CASE UNCHANGED vars
  BY <1>31, SMT DEF vars, bus
<1>32. QED
  BY <1>1, <1>2, <1>3, <1>4, <1>5, <1>6, <1>7, <1>8, <1>9, <1>10, <1>11, <1>12, <1>13,
     <1>14, <1>15, <1>16, <1>17, <1>18, <1>19, <1>20, <1>21, <1>22, <1>23, <1>24, <1>25,
     <1>26, <1>27, <1>28, <1>29, <1>30, <1>31
  DEF Next, Serve, InitStep, TuneStep

-----------------------------------------------------------------------------
(* What a step keeps that may write the fields fs: the other fields, up to  *)
(* being sent again, and the VGA, which is alone in its register.           *)
Keeps(fs) == /\ \A f \in Field \ fs : Same(f)
             /\ "vga" \notin fs => chip'.vga = chip.vga
             /\ unsure \subseteq unsure'

Writes(s) ==
  CASE s \in {"caliOn", "caliOff", "sb0f"} -> {"cali"}
    [] s \in {"sysInput", "input"}         -> {"input"}
    [] s \in {"autotune", "locked"}        -> {"autotune"}
    [] s \in {"vcoMin", "vcoMax"}          -> {"current"}
    [] s \in MuxStages \cup {"div", "nint", "frac", "sdmHi", "sdmLo", "lnaMode",
                             "mixMode", "lna", "mixer"} -> {s}
    [] s = "sb05"  -> {"input", "lnaMode", "lna"}
    [] s = "sb07"  -> {"sideband", "mixMode", "mixer"}
    [] s = "sb0c"  -> {"vga"}
    [] s = "sb17"  -> {"openD"}
    [] OTHER       -> {}

(* The VGA is alone in its register.                                        *)
LEMMA VgaAlone == \A f \in Field : f # "vga" => Reg[f] # Reg.vga
  BY Fields DEF FieldNames

(* A stage keeps the fields it does not write.                              *)
LEMMA StageKeeps ==
  \A s, vals, next, abort : Stage(s, vals, next, abort) /\ DOMAIN vals \subseteq Field =>
    pc = s /\ Keeps(DOMAIN vals)
<1> SUFFICES ASSUME NEW s, NEW vals, NEW next, NEW abort, Stage(s, vals, next, abort),
                    DOMAIN vals \subseteq Field
             PROVE  pc = s /\ Keeps(DOMAIN vals)
  OBVIOUS
<1>1. /\ pc = s
      /\ \A f \in Field \ DOMAIN vals : Same(f)
      /\ \A f \in Field : (\A g \in DOMAIN vals : Reg[f] # Reg[g]) => chip'[f] = chip[f]
      /\ unsure \subseteq unsure'
  BY StageEffect
<1>2. "vga" \in Field
  BY Fields DEF FieldNames
<1>3. "vga" \notin DOMAIN vals => chip'["vga"] = chip["vga"]
  BY <1>1, <1>2, VgaAlone
<1>4. QED
  BY <1>1, <1>3 DEF Keeps

(* A transfer without a field, or none at all, keeps them all.              *)
LEMMA OtherKeeps ==
  /\ \A s, next, abort : OtherStage(s, next, abort) => pc = s /\ Keeps({})
  /\ UNCHANGED bus => Keeps({})
<1>1. UNCHANGED <<chip, regs, unsure>> => Keeps({})
  BY UnchangedSame DEF Keeps
<1>2. QED
  BY <1>1, OtherEffect DEF bus

(* So does a register sent again, here 16 or 26.                            *)
LEMMA RewriteKeeps ==
  \A ok \in BOOLEAN, r \in {16, 26} : Write({r}, <<>>, ok) => Keeps({})
<1> SUFFICES ASSUME NEW ok \in BOOLEAN, NEW r \in {16, 26}, Write({r}, <<>>, ok)
             PROVE  Keeps({})
  OBVIOUS
<1>1. "vga" \in Field /\ Reg["vga"] = 12
  BY Fields DEF FieldNames
<1>2. /\ \A f \in Field : Same(f)
      /\ \A f \in Field : Reg[f] # r => chip'[f] = chip[f]
      /\ unsure \subseteq unsure'
  BY RewriteEffect
<1>3. chip'["vga"] = chip["vga"]
  BY <1>1, <1>2, SMT
<1>4. QED
  BY <1>2, <1>3 DEF Keeps

(* One or several fields sent in register 5 or 7 keep the others.           *)
LEMMA WriteKeeps ==
  ASSUME NEW r \in {5, 7}, NEW ok \in BOOLEAN, NEW vals, Write({r}, vals, ok)
  PROVE  Keeps(DOMAIN vals)
<1>1. "vga" \in Field /\ Reg["vga"] = 12
  BY Fields DEF FieldNames
<1>2. /\ \A f \in Field \ DOMAIN vals : Same(f)
      /\ \A f \in Field : Reg[f] \notin {r} => chip'[f] = chip[f]
      /\ unsure' = IF ok THEN unsure ELSE unsure \cup {r}
  BY WriteEffect
<1>3. chip'["vga"] = chip["vga"]
  BY <1>1, <1>2, SMT
<1>4. unsure \subseteq unsure'
  BY <1>2
<1>5. QED
  BY <1>2, <1>3, <1>4 DEF Keeps

(* Who keeps every field keeps those not in a set.                          *)
LEMMA KeepsMore == \A fs : Keeps({}) => Keeps(fs)
  BY DEF Keeps

(* A stage writes its own fields and no others.                             *)
LEMMA ServeKeeps == Serve => Keeps(Writes(pc))
<1> SUFFICES ASSUME Serve PROVE Keeps(Writes(pc))
  OBVIOUS
<1> USE Fields, StageKeeps, OtherKeeps DEF FieldNames, Writes, MuxStages
<1>1. CASE InitStep
  <2>1. CASE LnaTop \/ Trigger \/ CalStatus \/ Filter \/ Bandwidth
    BY <2>1, SMT DEF LnaTop, Trigger, CalStatus, Filter, Bandwidth
  <2>2. CASE CaliOn \/ CaliOff \/ SysInput
    BY <2>2, SMT DEF CaliOn, CaliOff, SysInput
  <2>3. CASE SysRest
    BY <2>3, RewriteKeeps, SMT DEF SysRest, SysAgc, Goes
  <2>4. CASE SysLast
    BY <2>4, RewriteKeeps, SMT DEF SysLast, Goes
  <2>5. QED
    BY <1>1, <2>1, <2>2, <2>3, <2>4 DEF InitStep
<1>2. CASE TuneStep
  <2>1. CASE SetMux
    <3>1. CASE Stage("openD", [openD |-> Range(lo)], "mux", MuxFails)
      BY <3>1, SMT
    <3>2. CASE Stage("mux", [mux |-> Range(lo)], "band", MuxFails)
      BY <3>2, SMT
    <3>3. CASE Stage("band", [band |-> Range(lo)], "xtalCap", MuxFails)
      BY <3>3, SMT
    <3>4. CASE Stage("xtalCap", [xtalCap |-> Range(lo)], "refdiv", MuxFails)
      BY <3>4, SMT
    <3>5. QED
      BY <2>1, <3>1, <3>2, <3>3, <3>4 DEF SetMux
  <2>2. CASE Harmonic
    BY <2>2, SMT DEF Harmonic, Goes
  <2>3. CASE PllStart
    BY <2>3, RewriteKeeps, SMT DEF PllStart, Goes
  <2>4. CASE VcoMin \/ VcoMax
    BY <2>4, KeepsMore, SMT DEF VcoMin, VcoMax, Goes
  <2>5. CASE ReadStatus \/ ReadLock
    <3>1. Keeps({}) /\ pc \in {"status", "lock", "relock"}
      BY <2>5 DEF ReadStatus, ReadLock
    <3>2. QED
      BY <3>1
  <2>6. CASE SetDivider \/ Locked
    BY <2>6, SMT DEF SetDivider, Locked
  <2>7. CASE SetPll
    <3>1. CASE Stage("nint", [nint |-> nint(model, PllLo)], "frac", PllFails)
      BY <3>1, SMT
    <3>2. CASE Stage("frac", [frac |-> IF sdm(model, PllLo) = 0 THEN 0 ELSE 1],
                    "sdmHi", PllFails)
      BY <3>2, SMT
    <3>3. CASE Stage("sdmHi", [sdmHi |-> sdm(model, PllLo)], "sdmLo", PllFails)
      BY <3>3, SMT
    <3>4. CASE Stage("sdmLo", [sdmLo |-> sdm(model, PllLo)], "lock", PllFails)
      BY <3>4, SMT
    <3>5. QED
      BY <2>7, <3>1, <3>2, <3>3, <3>4 DEF SetPll
  <2>8. CASE SelectInput
    <3>1. pc = "input"
      BY <2>8 DEF SelectInput, Goes
    <3>2. CASE UNCHANGED bus
      BY <3>1, <3>2, KeepsMore
    <3>3. ASSUME NEW ok \in BOOLEAN, Write({5}, [input |-> input'], ok)
          PROVE  Keeps({"input"})
      BY <3>3, WriteKeeps
    <3>4. QED
      BY <2>8, <3>1, <3>2, <3>3 DEF SelectInput, bus
  <2>9. QED
    BY <1>2, <2>1, <2>2, <2>3, <2>4, <2>5, <2>6, <2>7, <2>8 DEF TuneStep
<1>3. CASE GainModes
  <2>1. CASE Stage("lnaMode", [lnaMode |-> 1], "mixMode", "idle")
    BY <2>1, SMT
  <2>2. CASE Stage("mixMode", [mixMode |-> 0], "gainStatus", "idle")
    BY <2>2, SMT
  <2>3. CASE OtherStage("gainStatus", "lna", "idle")
    BY <2>3, SMT
  <2>4. CASE Stage("lna", [lna |-> lna_gains(arg)], "mixer", "idle")
    BY <2>4, SMT
  <2>5. QED
    BY <1>3, <2>1, <2>2, <2>3, <2>4 DEF GainModes
<1>4. CASE GainMixer
  <2>1. PICK ok \in BOOLEAN : Write({7}, [mixer |-> mixer_gains(arg)], ok)
    BY <1>4 DEF GainMixer
  <2>2. Keeps({"mixer"})
    BY <2>1, WriteKeeps
  <2>3. pc = "mixer"
    BY <1>4 DEF GainMixer, Goes
  <2>4. QED
    BY <2>2, <2>3
<1>5. CASE StandbyStep
  <2>1. CASE OtherStage("sb06", "sb05", "idle")
    BY <2>1, SMT
  <2>2. CASE Stage("sb05", [input |-> 32, lnaMode |-> 0, lna |-> 0], "sb07", "idle")
    BY <2>2, SMT
  <2>3. CASE Stage("sb07", [sideband |-> 0, mixMode |-> 1, mixer |-> 10],
                  "sb08", "idle")
    BY <2>3, SMT
  <2>4. CASE OtherStage("sb08", "sb0c", "idle")
    BY <2>4, SMT
  <2>5. CASE Stage("sb0c", [vga |-> 5], "sb0f", "idle")
    BY <2>5, SMT
  <2>6. CASE Stage("sb0f", [cali |-> 0], "sb11", "idle")
    BY <2>6, SMT
  <2>7. CASE OtherStage("sb11", "sb17", "idle")
    BY <2>7, SMT
  <2>8. CASE Stage("sb17", [openD |-> Untracked], "sb19", "idle")
    BY <2>8, SMT
  <2>9. CASE OtherStage("sb19", "idle", "idle")
    BY <2>9, SMT
  <2>10. QED
    BY <1>5, <2>1, <2>2, <2>3, <2>4, <2>5, <2>6, <2>7, <2>8, <2>9 DEF StandbyStep
<1>6. QED
  BY <1>1, <1>2, <1>3, <1>4, <1>5 DEF Serve

(* The requests, but for the init.                                          *)
LEMMA StepKeeps ==
  ASSUME [Next]_vars, ~TUNERINIT
  PROVE  Keeps(IF pc = "idle" THEN {"vga", "sideband"} ELSE Writes(pc))
<1>1. CASE Serve
  <2>1. Keeps(Writes(pc))
    BY <1>1, ServeKeeps
  <2>2. pc = "idle" => Writes(pc) = {}
    BY DEF Writes, MuxStages
  <2>3. QED
    BY <2>1, <2>2, KeepsMore
<1>2. CASE TUNERSTDBY
  <2>1. UNCHANGED <<chip, regs>> /\ unsure \subseteq unsure'
    BY <1>2 DEF TUNERSTDBY
  <2>2. Keeps({})
    BY <2>1, UnchangedSame DEF Keeps
  <2>3. QED
    BY <2>2, KeepsMore
<1>3. ASSUME NEW f \in Freqs, TUNERTUNE(f) PROVE Keeps({})
  BY <1>3, OtherKeeps DEF TUNERTUNE
<1>4. ASSUME NEW g \in Gains, SetAllGains(g) PROVE Keeps({})
  BY <1>4, OtherKeeps DEF SetAllGains
<1>5. ASSUME NEW g \in VgaGains, SetVga(g) PROVE pc = "idle" /\ Keeps({"vga", "sideband"})
  <2>1. PICK ok \in BOOLEAN : IF m_vgagain_index = g THEN ok /\ UNCHANGED bus
                                                     ELSE Write({12}, [vga |-> g], ok)
    BY <1>5 DEF SetVga
  <2>2. CASE UNCHANGED bus
    BY <1>5, <2>2, OtherKeeps, KeepsMore DEF SetVga, Request
  <2>3. CASE Write({12}, [vga |-> g], ok)
    <3>1. /\ \A f \in Field \ DOMAIN [vga |-> g] : Same(f)
          /\ unsure' = IF ok THEN unsure ELSE unsure \cup {12}
      BY <2>3, WriteEffect
    <3>2. \A f \in Field \ {"vga", "sideband"} : Same(f)
      BY <3>1
    <3>3. Keeps({"vga", "sideband"})
      BY <3>1, <3>2 DEF Keeps
    <3>4. QED
      BY <1>5, <3>3 DEF SetVga, Request
  <2>4. QED
    BY <2>1, <2>2, <2>3
<1>6. ASSUME NEW s \in 0 .. 1, SetSideband(s) PROVE pc = "idle" /\ Keeps({"vga", "sideband"})
  <2>1. PICK ok \in BOOLEAN : Write({7}, [sideband |-> s], ok)
    BY <1>6 DEF SetSideband
  <2>2. Keeps({"sideband"})
    BY <2>1, WriteKeeps
  <2>3. Keeps({"vga", "sideband"})
    BY <2>2 DEF Keeps
  <2>4. QED
    BY <1>6, <2>3 DEF SetSideband, Request
<1>7. CASE UNCHANGED vars
  BY <1>7, OtherKeeps, KeepsMore DEF vars
<1>8. QED
  BY <1>1, <1>2, <1>3, <1>4, <1>5, <1>6, <1>7, KeepsMore DEF Next

(* What requests leave alone, but for the init.                             *)
LEMMA Requests ==
  ASSUME [Next]_vars, ~Serve, ~TUNERINIT
  PROVE  /\ pc' = pc \/ (pc = "idle" /\ pc' \in {"sb06", "openD", "lnaMode"})
         /\ UNCHANGED <<model, initOk, cfg, last_vco_curr, input>>
<1>1. CASE TUNERSTDBY
  BY <1>1 DEF TUNERSTDBY, Request, driver
<1>2. ASSUME NEW f \in Freqs, TUNERTUNE(f)
      PROVE  pc = "idle" /\ pc' = "openD" /\ UNCHANGED <<model, initOk, cfg, last_vco_curr, input>>
  BY <1>2 DEF TUNERTUNE, Request
<1>3. ASSUME NEW g \in Gains, SetAllGains(g)
      PROVE  pc = "idle" /\ pc' = "lnaMode" /\ UNCHANGED <<model, initOk, cfg, last_vco_curr, input>>
  BY <1>3 DEF SetAllGains, Request, driver
<1>4. ASSUME NEW g \in VgaGains, SetVga(g)
      PROVE  pc' = pc /\ UNCHANGED <<model, initOk, cfg, last_vco_curr, input>>
  BY <1>4 DEF SetVga, Request
<1>5. ASSUME NEW s \in 0 .. 1, SetSideband(s)
      PROVE  pc' = pc /\ UNCHANGED <<model, initOk, cfg, last_vco_curr, input>>
  BY <1>5 DEF SetSideband, Request, told
<1>6. CASE UNCHANGED vars
  BY <1>6 DEF vars, driver, told
<1>7. QED
  BY <1>1, <1>2, <1>3, <1>4, <1>5, <1>6 DEF Next

(* Requests other than the init and the standby report nothing new, and     *)
(* take back at most a tuning or a gain.                                    *)
LEMMA RequestTold ==
  ASSUME [Next]_vars, ~Serve, ~TUNERINIT, ~TUNERSTDBY, ~UNCHANGED vars
  PROVE  /\ tuned' \in {tuned, NotTuned} /\ gained' \in {gained, None}
         /\ pc' \in {"idle", "openD", "lnaMode"}
<1>1. ASSUME NEW f \in Freqs, TUNERTUNE(f)
      PROVE  tuned' = NotTuned /\ gained' = gained /\ pc' = "openD"
  BY <1>1 DEF TUNERTUNE
<1>2. ASSUME NEW g \in Gains, SetAllGains(g)
      PROVE  tuned' = tuned /\ gained' = None /\ pc' = "lnaMode"
  BY <1>2 DEF SetAllGains
<1>3. ASSUME NEW g \in VgaGains, SetVga(g)
      PROVE  tuned' = tuned /\ gained' = gained /\ pc' = "idle"
  BY <1>3 DEF SetVga, Request
<1>4. ASSUME NEW s \in 0 .. 1, SetSideband(s)
      PROVE  tuned' = tuned /\ gained' = gained /\ pc' = "idle"
  BY <1>4 DEF SetSideband, Request, told
<1>5. QED
  BY <1>1, <1>2, <1>3, <1>4 DEF Next

(* A request is taken only when none is being served.                       *)
LEMMA RequestIdle == ASSUME [Next]_vars PROVE Serve \/ UNCHANGED vars \/ pc = "idle"
<1>1. CASE TUNERINIT
  BY <1>1 DEF TUNERINIT, Request
<1>2. CASE TUNERSTDBY
  BY <1>2 DEF TUNERSTDBY, Request
<1>3. ASSUME NEW f \in Freqs, TUNERTUNE(f) PROVE pc = "idle"
  BY <1>3 DEF TUNERTUNE, Request
<1>4. ASSUME NEW g \in Gains, SetAllGains(g) PROVE pc = "idle"
  BY <1>4 DEF SetAllGains, Request
<1>5. ASSUME NEW g \in VgaGains, SetVga(g) PROVE pc = "idle"
  BY <1>5 DEF SetVga, Request
<1>6. ASSUME NEW s \in 0 .. 1, SetSideband(s) PROVE pc = "idle"
  BY <1>6 DEF SetSideband, Request
<1>7. QED
  BY <1>1, <1>2, <1>3, <1>4, <1>5, <1>6 DEF Next

(* What the stages leave alone of the driver's variables.                   *)
LEMMA ServeDriver ==
  ASSUME Serve
  PROVE  /\ UNCHANGED <<model, cfg>>
         /\ VcoMin \/ VcoMax \/ UNCHANGED last_vco_curr
         /\ SysInput \/ SelectInput \/ UNCHANGED input
         /\ SelectInput \/ UNCHANGED tuned
         /\ GainMixer \/ UNCHANGED gained
         /\ UNCHANGED <<m_vgagain_index, vgaSet, vgaSent, arg>>
<1>0. model' = model
  BY DEF Serve
<1>1. CASE LnaTop
  BY <1>0, <1>1 DEF LnaTop, driver, locals, told
<1>2. CASE CaliOn \/ Trigger \/ CaliOff
  BY <1>0, <1>2 DEF CaliOn, Trigger, CaliOff, driver, locals, told
<1>3. CASE CalStatus \/ Filter
  BY <1>0, <1>3 DEF CalStatus, Filter, driver, locals, told
<1>4. CASE SysInput
  BY <1>0, <1>4 DEF SysInput, driver, locals, told
<1>5. CASE SysRest \/ SysLast
  BY <1>0, <1>5 DEF SysRest, SysLast, driver, locals, told
<1>6. CASE Bandwidth
  BY <1>0, <1>6 DEF Bandwidth, driver, locals, told
<1>7. CASE SetMux \/ Harmonic \/ PllStart
  BY <1>0, <1>7 DEF SetMux, Harmonic, PllStart, driver, locals, told
<1>8. CASE VcoMin
  BY <1>0, <1>8 DEF VcoMin, driver, locals, told
<1>9. CASE ReadStatus \/ SetDivider \/ SetPll
  BY <1>0, <1>9 DEF ReadStatus, SetDivider, SetPll, driver, locals, told
<1>10. CASE ReadLock
  BY <1>0, <1>10 DEF ReadLock, driver, locals, told
<1>11. CASE VcoMax
  BY <1>0, <1>11 DEF VcoMax, driver, locals, told
<1>12. CASE Locked
  BY <1>0, <1>12 DEF Locked, driver, locals, told
<1>13. CASE SelectInput
  BY <1>0, <1>13 DEF SelectInput, driver, locals, told
<1>14. CASE GainModes \/ GainMixer
  BY <1>0, <1>14 DEF GainModes, GainMixer, driver, locals, told
<1>15. CASE StandbyStep
  BY <1>0, <1>15 DEF StandbyStep, driver, locals, told
<1>16. QED
  BY <1>1, <1>2, <1>3, <1>4, <1>5, <1>6, <1>7, <1>8, <1>9, <1>10, <1>11, <1>12, <1>13, <1>14, <1>15
  DEF Serve, InitStep, TuneStep

(* A field not written keeps its value.                                     *)
LEMMA KeptField ==
  ASSUME NEW f \in Field, NEW fs, Keeps(fs), f \notin fs, NEW v, Holds(f, v)
  PROVE  Holds(f, v)'
  BY SameHolds DEF Keeps

-----------------------------------------------------------------------------
(* The calibration clock                                                    *)

CaliDone == {"calStatus", "filter", "sysInput", "sysDet", "sysAgc1", "sysTop", "sysAgc2"}

(* Only the stage that switches it off leads to those that rely on it.      *)
LEMMA CaliGoes ==
  ASSUME Serve, pc # "caliOff", initOk' \/ pc' \in CaliDone
  PROVE  initOk \/ pc \in CaliDone
<1> USE StageGoes DEF CaliDone, told, Goes
<1>1. CASE LnaTop
  BY <1>1, SMT DEF LnaTop
<1>2. CASE CaliOn
  BY <1>2, SMT DEF CaliOn
<1>3. CASE Trigger
  BY <1>3, SMT DEF Trigger
<1>4. CASE CaliOff
  BY <1>4, SMT DEF CaliOff
<1>5. CASE CalStatus
  BY <1>5, SMT DEF CalStatus
<1>6. CASE Filter
  BY <1>6, SMT DEF Filter
<1>7. CASE SysInput
  BY <1>7, SMT DEF SysInput
<1>8. CASE SysRest
  BY <1>8, SMT DEF SysRest, SysAgc
<1>9. CASE SysLast
  BY <1>9, SMT DEF SysLast
<1>10. CASE Bandwidth
  BY <1>10, SMT DEF Bandwidth
<1>11. CASE SetMux
  BY <1>11, MuxGoes, SMT DEF SetMux, MuxStages
<1>12. CASE Harmonic
  BY <1>12, SMT DEF Harmonic
<1>13. CASE PllStart
  BY <1>13, PllGoes, SMT DEF PllStart, PllStages, PllFails
<1>14. CASE VcoMin
  BY <1>14, PllGoes, SMT DEF VcoMin, PllStages, PllFails
<1>15. CASE ReadStatus
  BY <1>15, SMT DEF ReadStatus, PllFails
<1>16. CASE SetDivider
  BY <1>16, SMT DEF SetDivider, PllFails
<1>17. CASE SetPll
  BY <1>17, PllGoes, SMT DEF SetPll, PllStages, PllFails
<1>18. CASE ReadLock
  <2>1. initOk' = initOk
    BY <1>18 DEF ReadLock
  <2>2. QED
    BY <1>18, <2>1, LockGoes, SMT DEF PllFails
<1>19. CASE VcoMax
  BY <1>19, PllGoes, SMT DEF VcoMax, PllStages, PllFails
<1>20. CASE Locked
  BY <1>20, SMT DEF Locked, PllFails
<1>21. CASE SelectInput
  BY <1>21, SMT DEF SelectInput
<1>22. CASE GainModes
  BY <1>22, GainsGo, SMT DEF GainModes, GainStages
<1>23. CASE GainMixer
  BY <1>23, SMT DEF GainMixer
<1>24. CASE StandbyStep
  BY <1>24, StandbyGoes, SMT DEF StandbyStep, StandbyStages
<1>25. QED
  BY <1>1, <1>2, <1>3, <1>4, <1>5, <1>6, <1>7, <1>8, <1>9, <1>10, <1>11, <1>12, <1>13,
     <1>14, <1>15, <1>16, <1>17, <1>18, <1>19, <1>20, <1>21, <1>22, <1>23, <1>24
  DEF Serve, InitStep, TuneStep

(* The calibration clock is off where the driver relies on it.              *)
LEMMA CaliStep ==
  ASSUME FlowInv, CaliInv, [Next]_vars
  PROVE  CaliInv'
<1>0. "cali" \in Field
  BY Fields DEF FieldNames
<1>1. CASE TUNERINIT
  BY <1>1 DEF TUNERINIT, CaliInv
<1>2. CASE Serve /\ pc = "caliOn"
  <2>1. CaliOn
    BY <1>2, Places DEF Serve, InitStep, TuneStep, BandStages, MuxStages, StandbyStages
  <2>2. initOk' = initOk /\ ~initOk
    BY <1>2, <2>1 DEF CaliOn, told, FlowInv, CalStages
  <2>3. pc' \in {"refdiv", "bandwidth"}
    BY <2>1, StageGoes DEF CaliOn
  <2>4. QED
    BY <2>2, <2>3 DEF CaliInv
<1>3. CASE Serve /\ pc = "caliOff"
  <2>1. CaliOff
    BY <1>3, Places DEF Serve, InitStep, TuneStep, BandStages, MuxStages, StandbyStages
  <2>2. initOk' = initOk /\ ~initOk /\ cfg
    BY <1>3, <2>1 DEF CaliOff, told, FlowInv, CalStages, StandbyStages
  <2>3. Stage("caliOff", [cali |-> 0], "calStatus", "bandwidth")
    BY <2>1 DEF CaliOff
  <2>4. pc' \in {"calStatus", "bandwidth"} /\ (pc' # "bandwidth" => Holds("cali", 0)')
    BY <1>0, <2>2, <2>3, StageEffect
  <2>5. QED
    BY <2>2, <2>4 DEF CaliInv
<1>4. CASE Serve /\ pc = "sb0f"
  <2>1. StandbyStep
    BY <1>4, Places DEF Serve, InitStep, TuneStep, BandStages, MuxStages, StandbyStages
  <2>2. initOk' = initOk
    BY <2>1 DEF StandbyStep, told
  <2>3. Stage("sb0f", [cali |-> 0], "sb11", "idle")
    BY <1>4, <2>1, StageGoes DEF StandbyStep
  <2>4. /\ pc' \in {"sb11", "idle"}
        /\ regs'["cali"] = 0 /\ chip'["cali"] \in {chip["cali"], 0}
    BY <1>0, <2>3, StageEffect
  <2>5. Holds("cali", 0) => Holds("cali", 0)'
    BY <2>4 DEF Holds
  <2>6. QED
    BY <2>2, <2>4, <2>5 DEF CaliInv
<1>5. CASE ~TUNERINIT /\ (~Serve \/ pc \notin {"caliOn", "caliOff", "sb0f"})
  <2>1. initOk' \/ pc' \in CaliDone => initOk \/ pc \in CaliDone
    BY <1>5, CaliGoes, Requests DEF CaliDone
  <2>2. Keeps(IF pc = "idle" THEN {"vga", "sideband"} ELSE Writes(pc))
    BY <1>5, StepKeeps
  <2>3. CASE Serve
    <3>1. "cali" \notin Writes(pc)
      BY <1>5, <2>3 DEF Writes, MuxStages
    <3>2. QED
      BY <1>0, <2>1, <2>2, <3>1, KeptField DEF CaliInv, CaliDone
  <2>4. CASE ~Serve
    <3>1. pc = "idle" \/ UNCHANGED vars
      BY <2>4, RequestIdle
    <3>2. CASE UNCHANGED vars
      BY <3>2 DEF vars, bus, told, CaliInv, Holds
    <3>3. CASE pc = "idle"
      BY <1>0, <2>1, <2>2, <3>3, KeptField DEF CaliInv, CaliDone
    <3>4. QED
      BY <3>1, <3>2, <3>3
  <2>5. QED
    BY <2>3, <2>4
<1>6. QED
  BY <1>1, <1>2, <1>3, <1>4, <1>5

-----------------------------------------------------------------------------
(* The VCO current and the input, which the driver caches                   *)

(* A VCO current sent is cached only if the transfer worked.                *)
LEMMA CurrentSent ==
  ASSUME NEW c, NEW s, NEW n \in {"status", "relock"}, cfg' = cfg,
         Stage(s, [current |-> c], n, PllFails),
         last_vco_curr' = IF pc' = n THEN c ELSE last_vco_curr
  PROVE  CurrentInv'
<1>0. "current" \in Field /\ Reg["current"] = 18
  BY Fields DEF FieldNames
<1>1. n # PllFails
  BY DEF PllFails
<1>2. /\ pc' # PllFails /\ cfg => Holds("current", c)'
      /\ pc' # n => 18 \in unsure'
  BY <1>0, StageEffect
<1>3. QED
  BY <1>1, <1>2 DEF CurrentInv

(* The cached VCO current is the chip's, if no transfer of it failed.       *)
LEMMA CurrentStep ==
  ASSUME FlowInv, CurrentInv, [Next]_vars
  PROVE  CurrentInv'
<1>0. "current" \in Field /\ 18 \in Registers
  BY Fields DEF FieldNames, Registers
<1>1. CASE TUNERINIT
  <2>1. 18 \notin unsure' => chip' = InitArray /\ regs' = InitArray
    BY <1>0, <1>1 DEF TUNERINIT
  <2>2. last_vco_curr' = InitArray["current"]
    BY <1>1 DEF TUNERINIT
  <2>3. QED
    BY <2>1, <2>2 DEF CurrentInv, Holds
<1>2. CASE VcoMin \/ VcoMax
  <2>1. cfg' = cfg
    BY <1>2 DEF VcoMin, VcoMax
  <2>2. CASE UNCHANGED <<bus, last_vco_curr>>
    BY <2>1, <2>2 DEF CurrentInv, Holds, bus
  <2>3. CASE /\ Stage("vcoMin", [current |-> vco_curr_min], "status", PllFails)
             /\ last_vco_curr' = IF pc' = "status" THEN vco_curr_min ELSE last_vco_curr
    BY <2>1, <2>3, CurrentSent
  <2>4. CASE /\ Stage("vcoMax", [current |-> vco_curr_max], "relock", PllFails)
             /\ last_vco_curr' = IF pc' = "relock" THEN vco_curr_max ELSE last_vco_curr
    BY <2>1, <2>4, CurrentSent
  <2>5. QED
    BY <1>2, <2>2, <2>3, <2>4 DEF VcoMin, VcoMax
<1>3. CASE ~TUNERINIT /\ ~(VcoMin \/ VcoMax)
  <2>1. UNCHANGED <<cfg, last_vco_curr>>
    BY <1>3, Requests, ServeDriver
  <2>2. Keeps(IF pc = "idle" THEN {"vga", "sideband"} ELSE Writes(pc))
    BY <1>3, StepKeeps
  <2>3. CASE Serve
    <3>1. "current" \notin Writes(pc)
      BY <1>3, <2>3, Places DEF Serve, InitStep, TuneStep, BandStages, MuxStages,
         StandbyStages, Writes
    <3>2. QED
      BY <1>0, <2>1, <2>2, <3>1, KeptField DEF CurrentInv, Keeps
  <2>4. CASE UNCHANGED vars
    BY <2>4 DEF vars, bus, driver, CurrentInv, Holds
  <2>5. CASE pc = "idle"
    BY <1>0, <2>1, <2>2, <2>5, KeptField DEF CurrentInv, Keeps
  <2>6. QED
    BY <1>3, <2>3, <2>4, <2>5, RequestIdle
<1>4. QED
  BY <1>1, <1>2, <1>3

(* So is the cached input; a standby changes it behind the cache.           *)
LEMMA InputStep ==
  ASSUME FlowInv, InputInv, [Next]_vars
  PROVE  InputInv'
<1>0. "input" \in Field /\ Reg["input"] = 5 /\ 5 \in Registers
  BY Fields DEF FieldNames, Registers
<1>1. CASE TUNERINIT
  <2>1. 5 \notin unsure' => chip' = InitArray /\ regs' = InitArray
    BY <1>0, <1>1 DEF TUNERINIT
  <2>2. input' = InitArray["input"]
    BY <1>1 DEF TUNERINIT, InitArray, Field, Reg
  <2>3. tuned' = NotTuned /\ pc' = "lnaTop"
    BY <1>1 DEF TUNERINIT
  <2>4. QED
    BY <2>1, <2>2, <2>3 DEF InputInv, Holds, NotTuned, StandbyStages
<1>2. CASE SysInput
  <2>1. Stage("sysInput", [input |-> 0], "sysDet", "bandwidth") /\ input' = 0
    BY <1>2 DEF SysInput
  <2>2. /\ pc' # "bandwidth" /\ cfg => Holds("input", 0)'
        /\ pc' # "sysDet" => 5 \in unsure'
        /\ pc = "sysInput" /\ pc' \in {"sysDet", "bandwidth"}
    BY <1>0, <2>1, StageEffect
  <2>3. cfg' = cfg /\ tuned' = NotTuned
    BY <1>2, <2>2 DEF SysInput, told, FlowInv, GainStages
  <2>4. QED
    BY <2>1, <2>2, <2>3 DEF InputInv, NotTuned, StandbyStages
<1>3. CASE Serve /\ SelectInput
  <2>1. pc = "input" /\ pc' = "idle" /\ tuned = NotTuned
    BY <1>3, Places, Targets DEF FlowInv, GainStages
  <2>2. cfg' = cfg /\ model' = model
    BY <1>3, ServeDriver
  <2>3. CASE UNCHANGED <<bus, input>>
    <3>1. tuned' = TunedNow /\ (model = "R828D" => input = air_cable1_in(arg))
      BY <1>3, <2>3 DEF SelectInput
    <3>2. TunedNow.freq = arg
      BY DEF TunedNow
    <3>3. QED
      BY <2>1, <2>2, <2>3, <3>1, <3>2 DEF InputInv, Holds, bus, StandbyStages
  <2>4. CASE ~UNCHANGED <<bus, input>>
    <3>1. PICK ok \in BOOLEAN : /\ Write({5}, [input |-> input'], ok)
                                /\ tuned' = IF ok THEN TunedNow ELSE tuned
      BY <1>3, <2>4 DEF SelectInput
    <3>2. input' = air_cable1_in(arg)
      BY <1>3, <2>4 DEF SelectInput
    <3> DEFINE vals == [input |-> input']
    <3>3. /\ \A f \in Field \cap DOMAIN vals : ok /\ cfg /\ Reg[f] \in {5} =>
              chip'[f] = vals[f] /\ regs'[f] = vals[f]
          /\ unsure' = IF ok THEN unsure ELSE unsure \cup {5}
      BY <3>1, WriteEffect
    <3>4. "input" \in Field \cap DOMAIN vals /\ vals["input"] = input'
      BY <1>0
    <3> HIDE DEF vals
    <3>5. ok /\ cfg => chip'["input"] = input' /\ regs'["input"] = input'
      BY <1>0, <3>3, <3>4
    <3>6. ~ok => 5 \in unsure'
      BY <3>3
    <3>7. tuned' = TunedNow => tuned'.freq = arg
      BY DEF TunedNow
    <3>8. tuned' \in {TunedNow, NotTuned}
      BY <2>1, <3>1
    <3>9. cfg' /\ 5 \notin unsure' => Holds("input", input)'
      BY <2>2, <3>5, <3>6 DEF Holds
    <3>10. QED
      BY <2>1, <2>2, <3>2, <3>7, <3>8, <3>9 DEF InputInv, NotTuned, StandbyStages
  <2>5. QED
    BY <2>3, <2>4
<1>4. CASE TUNERSTDBY
  BY <1>4 DEF TUNERSTDBY, Request, driver, InputInv, Holds, NotTuned
<1>5. CASE Serve /\ ~(SysInput \/ SelectInput)
  <2>1. UNCHANGED <<model, cfg, input, tuned>>
    BY <1>5, ServeDriver
  <2>2. Keeps(Writes(pc))
    BY <1>5, ServeKeeps
  <2>3. pc' \in StandbyStages => pc \in StandbyStages
    BY <1>5, Places, Targets DEF Serve, InitStep, TuneStep, BandStages, MuxStages, PllStages,
       GainStages, StandbyStages
  <2>4. CASE pc \in StandbyStages
    BY <2>1, <2>2, <2>4 DEF InputInv, Keeps
  <2>5. CASE pc \notin StandbyStages
    <3>1. "input" \notin Writes(pc)
      BY <1>5, <2>5, Places DEF Serve, InitStep, TuneStep, BandStages, MuxStages,
         StandbyStages, Writes
    <3>2. Holds("input", input) => Holds("input", input)'
      BY <1>0, <2>1, <2>2, <3>1, KeptField
    <3>3. unsure \subseteq unsure'
      BY <2>2 DEF Keeps
    <3>4. QED
      BY <2>1, <2>3, <2>5, <3>2, <3>3 DEF InputInv
  <2>6. QED
    BY <2>4, <2>5
<1>6. CASE UNCHANGED vars
  BY <1>6 DEF vars, bus, driver, told, InputInv, Holds
<1>7. CASE ~Serve /\ ~TUNERINIT /\ ~TUNERSTDBY /\ ~UNCHANGED vars
  <2>1. UNCHANGED <<model, cfg, input>> /\ pc = "idle"
    BY <1>7, Requests, RequestIdle
  <2>2. Keeps({"vga", "sideband"})
    BY <1>7, <2>1, StepKeeps
  <2>3. tuned' \in {tuned, NotTuned} /\ pc' \in {"idle", "openD", "lnaMode"}
    BY <1>7, RequestTold
  <2>4. Holds("input", input) => Holds("input", input)'
    BY <1>0, <2>1, <2>2, KeptField
  <2>5. unsure \subseteq unsure'
    BY <2>2 DEF Keeps
  <2>6. QED
    BY <2>1, <2>3, <2>4, <2>5 DEF InputInv, NotTuned, StandbyStages
<1>8. QED
  BY <1>1, <1>2, <1>3, <1>4, <1>5, <1>6, <1>7

-----------------------------------------------------------------------------
(* The fields a tuning writes                                               *)

Path == MuxStages \cup PllStages \cup {"harmonic", "input"}

(* What a tuning is to write depends on the tuning only.                    *)
LEMMA WantSame ==
  ASSUME NEW f, UNCHANGED <<model, lo, nth_harm, fine>>
  PROVE  Want(f, lo, PllLo, fine)' = Want(f, lo, PllLo, fine)
  BY DEF Want, PllLo

(* A stage on the path keeps what the stages before it have written ...     *)
LEMMA PathKeeps ==
  ASSUME PathInv, pc \in Path, round = 0, Keeps(Writes(pc)),
         UNCHANGED <<model, lo, nth_harm, fine>>
  PROVE  \A f \in SetBefore(pc) : Holds(f, Want(f, lo, PllLo, fine))'
<1> SUFFICES ASSUME NEW f \in SetBefore(pc) PROVE Holds(f, Want(f, lo, PllLo, fine))'
  OBVIOUS
<1>1. f \in Field /\ f \notin Writes(pc)
  <2>1. SetBefore(pc) \subseteq Field
    BY Fields DEF SetBefore, TunedFields, MuxFields, FieldNames
  <2>2. pc \in MuxStages \cup {"div", "nint", "frac", "sdmHi", "sdmLo"} =>
          Writes(pc) = {pc} /\ pc \notin SetBefore(pc)
    BY DEF Writes, SetBefore, MuxStages, TunedFields, MuxFields
  <2>3. pc \notin MuxStages \cup {"div", "nint", "frac", "sdmHi", "sdmLo"} =>
          Writes(pc) \subseteq {"autotune", "current", "input"}
    BY DEF Path, PllStages, MuxStages, Writes
  <2>4. SetBefore(pc) \cap {"autotune", "current", "input"} = {}
    BY DEF SetBefore, TunedFields, MuxFields
  <2>5. QED
    BY <2>1, <2>2, <2>3, <2>4
<1>2. Holds(f, Want(f, lo, PllLo, fine))
  BY DEF PathInv, Path
<1>3. Want(f, lo, PllLo, fine)' = Want(f, lo, PllLo, fine)
  BY WantSame
<1> DEFINE w == Want(f, lo, PllLo, fine)
<1>4. Holds(f, w)'
  <2>1. Same(f)
    BY <1>1 DEF Keeps
  <2>2. chip'[f] = w /\ regs'[f] = w
    BY <1>2, <2>1 DEF Same, Holds
  <2>3. QED
    BY <1>3, <2>2 DEF Holds
<1>5. QED
  BY <1>4

(* ... and adds its own field when it goes on to the next.                  *)
LEMMA PathAdds ==
  ASSUME FlowInv, PathInv, pc \in Path, round = 0, Keeps(Writes(pc)),
         UNCHANGED <<model, lo, nth_harm, fine>>,
         NEW f \in TunedFields, NEW v, v = Want(f, lo, PllLo, fine), NEW vals, NEW n, NEW a,
         DOMAIN vals = {f}, vals[f] = v, Stage(pc, vals, n, a), pc' # a,
         SetBefore(pc') \subseteq SetBefore(pc) \cup {f}
  PROVE  PathInv'
<1>1. cfg /\ f \in Field
  BY Fields DEF FlowInv, Path, MuxStages, PllStages, StandbyStages, TunedFields, MuxFields,
     FieldNames
<1>2. Holds(f, vals[f])'
  BY <1>1, StageEffect
<1>3. Want(f, lo, PllLo, fine)' = Want(f, lo, PllLo, fine)
  BY WantSame
<1>4. Holds(f, Want(f, lo, PllLo, fine))'
  BY <1>2, <1>3 DEF Holds
<1>5. \A g \in SetBefore(pc) : Holds(g, Want(g, lo, PllLo, fine))'
  BY PathKeeps
<1>6. QED
  BY <1>4, <1>5 DEF PathInv

(* A stage that adds no field of the tuning loses none.                     *)
LEMMA PathStays ==
  ASSUME PathInv, pc \in Path, round = 0, Keeps(Writes(pc)),
         UNCHANGED <<model, lo, nth_harm, fine>>,
         SetBefore(pc') \subseteq SetBefore(pc)
  PROVE  PathInv'
<1>1. \A g \in SetBefore(pc) : Holds(g, Want(g, lo, PllLo, fine))'
  BY PathKeeps
<1>2. QED
  BY <1>1 DEF PathInv

(* The stages that are left for another part of the driver.                 *)
LEMMA PathLeft ==
  ASSUME pc' \notin Path \/ pc' \in {"openD", "harmonic"}
  PROVE  PathInv'
  BY DEF PathInv, Path, SetBefore, MuxStages

(* The values of a tuning, field by field.                                  *)
LEMMA Wants ==
  /\ \A f \in MuxFields : f \in TunedFields /\ Want(f, lo, PllLo, fine) = Range(lo)
  /\ "div" \in TunedFields /\ Want("div", lo, PllLo, fine) = div_num(model, PllLo, fine)
  /\ "nint" \in TunedFields /\ Want("nint", lo, PllLo, fine) = nint(model, PllLo)
  /\ "sdmHi" \in TunedFields /\ Want("sdmHi", lo, PllLo, fine) = sdm(model, PllLo)
  /\ "sdmLo" \in TunedFields /\ Want("sdmLo", lo, PllLo, fine) = sdm(model, PllLo)
<1>1. \A f \in MuxFields : f \in TunedFields
  BY DEF TunedFields
<1>2. ASSUME NEW f \in MuxFields PROVE Want(f, lo, PllLo, fine) = Range(lo)
  <2>1. f # "div" /\ f # "nint"
    BY DEF MuxFields
  <2>2. QED
    BY <2>1 DEF Want
<1>3. Want("div", lo, PllLo, fine) = div_num(model, PllLo, fine)
  BY DEF Want, MuxFields
<1>4. Want("nint", lo, PllLo, fine) = nint(model, PllLo)
  BY DEF Want, MuxFields
<1>5. Want("sdmHi", lo, PllLo, fine) = sdm(model, PllLo)
  BY DEF Want, MuxFields
<1>6. Want("sdmLo", lo, PllLo, fine) = sdm(model, PllLo)
  BY DEF Want, MuxFields
<1>7. QED
  BY <1>1, <1>2, <1>3, <1>4, <1>5, <1>6 DEF TunedFields

(* r82xx_set_mux adds its four fields, one by one.                          *)
LEMMA MuxPath ==
  ASSUME FlowInv, PathInv, Serve, SetMux
  PROVE  PathInv'
<1>1. pc \in MuxStages /\ round = 0 /\ pc \in Path
  BY Places DEF FlowInv, Path
<1>2. Keeps(Writes(pc)) /\ UNCHANGED <<model, lo, nth_harm, fine>>
  BY ServeKeeps DEF Serve, SetMux, locals
<1>3. \A f \in MuxFields : Want(f, lo, PllLo, fine) = Range(lo) /\ f \in TunedFields
  BY Wants
<1>4. CASE pc' = "idle"
  BY <1>4, PathLeft DEF Path, MuxStages, PllStages
<1>5. CASE pc' # "idle"
  <2>1. CASE Stage("openD", [openD |-> Range(lo)], "mux", MuxFails)
    <3>1. pc = "openD" /\ pc' = "mux"
      BY <1>5, <2>1, StageGoes DEF MuxFails
    <3>2. SetBefore(pc') \subseteq SetBefore(pc) \cup {"openD"}
      BY <3>1 DEF SetBefore
    <3>3. QED
      BY <1>1, <1>2, <1>3, <1>5, <2>1, <3>1, <3>2, PathAdds DEF MuxFails, MuxFields
  <2>2. CASE Stage("mux", [mux |-> Range(lo)], "band", MuxFails)
    <3>1. pc = "mux" /\ pc' = "band"
      BY <1>5, <2>2, StageGoes DEF MuxFails
    <3>2. SetBefore(pc') \subseteq SetBefore(pc) \cup {"mux"}
      BY <3>1 DEF SetBefore
    <3>3. QED
      BY <1>1, <1>2, <1>3, <1>5, <2>2, <3>1, <3>2, PathAdds DEF MuxFails, MuxFields
  <2>3. CASE Stage("band", [band |-> Range(lo)], "xtalCap", MuxFails)
    <3>1. pc = "band" /\ pc' = "xtalCap"
      BY <1>5, <2>3, StageGoes DEF MuxFails
    <3>2. SetBefore(pc') \subseteq SetBefore(pc) \cup {"band"}
      BY <3>1 DEF SetBefore
    <3>3. QED
      BY <1>1, <1>2, <1>3, <1>5, <2>3, <3>1, <3>2, PathAdds DEF MuxFails, MuxFields
  <2>4. CASE Stage("xtalCap", [xtalCap |-> Range(lo)], "refdiv", MuxFails)
    <3>1. pc = "xtalCap" /\ pc' = "refdiv"
      BY <1>5, <2>4, StageGoes DEF MuxFails
    <3>2. SetBefore(pc') \subseteq SetBefore(pc) \cup {"xtalCap"}
      BY <3>1 DEF SetBefore, MuxFields
    <3>3. QED
      BY <1>1, <1>2, <1>3, <1>5, <2>4, <3>1, <3>2, PathAdds DEF MuxFails, MuxFields
  <2>5. QED
    BY <2>1, <2>2, <2>3, <2>4 DEF SetMux
<1>6. QED
  BY <1>4, <1>5

(* What a tuning under way leaves alone.                                    *)
LEMMA TuneFrame ==
  ASSUME Serve, TuneStep
  PROVE  /\ UNCHANGED <<model, lo, round, arg>>
         /\ Harmonic \/ UNCHANGED nth_harm
         /\ ReadStatus \/ UNCHANGED fine
<1>0. model' = model
  BY DEF Serve
<1>1. CASE SetMux \/ PllStart \/ VcoMin
  BY <1>0, <1>1 DEF SetMux, PllStart, VcoMin, locals
<1>2. CASE Harmonic
  BY <1>0, <1>2 DEF Harmonic
<1>3. CASE ReadStatus
  BY <1>0, <1>3 DEF ReadStatus
<1>4. CASE SetDivider \/ SetPll
  BY <1>0, <1>4 DEF SetDivider, SetPll, locals
<1>5. CASE ReadLock
  BY <1>0, <1>5 DEF ReadLock, locals
<1>6. CASE VcoMax \/ Locked
  BY <1>0, <1>6 DEF VcoMax, Locked, locals
<1>7. CASE SelectInput
  BY <1>0, <1>7 DEF SelectInput, locals
<1>8. QED
  BY <1>1, <1>2, <1>3, <1>4, <1>5, <1>6, <1>7 DEF TuneStep

(* The stages that write no field of a tuning.                              *)
LEMMA PllPath ==
  ASSUME FlowInv, PathInv, Serve, PllStart \/ VcoMin \/ ReadLock \/ VcoMax \/ Locked,
         round = 0, pc' \in Path \ {"openD", "harmonic"}
  PROVE  PathInv'
<1>0. PllFails \in {"harmonic", "idle"} /\ PllFails # pc'
  BY DEF PllFails, Path, MuxStages, PllStages
<1>1. pc \in Path
  BY Places DEF Path, PllStages
<1>2. Keeps(Writes(pc)) /\ UNCHANGED <<model, lo, nth_harm, fine>>
  <2>1. TuneStep /\ ~Harmonic /\ ~ReadStatus
    BY Places DEF TuneStep
  <2>2. QED
    BY <2>1, ServeKeeps, TuneFrame
<1>3. SetBefore(pc') \subseteq SetBefore(pc)
  <2>1. CASE PllStart
    <3>1. pc \in {"refdiv", "autotune"} /\ pc' \in {"autotune", "vcoMin"}
      BY <1>0, <2>1, StageGoes, SMT DEF PllStart, Goes
    <3>2. QED
      BY <3>1 DEF SetBefore
  <2>2. CASE VcoMin
    <3>1. pc = "vcoMin" /\ pc' = "status"
      BY <1>0, <2>2, StageGoes, SMT DEF VcoMin, Goes
    <3>2. QED
      BY <3>1 DEF SetBefore
  <2>3. CASE ReadLock
    <3>1. pc \in {"lock", "relock"} /\ pc' \in {"locked", "vcoMax"}
      BY <1>0, <2>3, LockGoes, SMT
    <3>2. QED
      BY <3>1 DEF SetBefore
  <2>4. CASE VcoMax
    <3>1. pc = "vcoMax" /\ pc' = "relock"
      BY <1>0, <2>4, StageGoes, SMT DEF VcoMax, Goes
    <3>2. QED
      BY <3>1 DEF SetBefore
  <2>5. CASE Locked
    <3>1. pc = "locked" /\ pc' = "input"
      BY <1>0, <2>5, StageGoes, SMT DEF Locked
    <3>2. QED
      BY <3>1 DEF SetBefore
  <2>6. QED
    BY <2>1, <2>2, <2>3, <2>4, <2>5
<1>4. QED
  BY <1>1, <1>2, <1>3, PathStays

(* The divider, the quotient and the fraction                               *)
LEMMA DividerPath ==
  ASSUME FlowInv, PathInv, Serve, SetDivider \/ SetPll,
         round = 0, pc' \in Path \ {"openD", "harmonic"}
  PROVE  PathInv'
<1>0. PllFails \in {"harmonic", "idle"} /\ PllFails # pc'
  BY DEF PllFails, Path, MuxStages, PllStages
<1>1. pc \in Path
  BY Places DEF Path, PllStages
<1>2. Keeps(Writes(pc)) /\ UNCHANGED <<model, lo, nth_harm, fine>>
  <2>1. TuneStep /\ ~Harmonic /\ ~ReadStatus
    BY Places DEF TuneStep
  <2>2. QED
    BY <2>1, ServeKeeps, TuneFrame
<1>3. CASE SetDivider
  <2> DEFINE n == IF ValidNint(model, PllLo) THEN "nint" ELSE PllFails
  <2>1. Stage("div", [div |-> div_num(model, PllLo, fine)], n, PllFails)
    BY <1>3 DEF SetDivider
  <2>2. pc = "div" /\ pc' \in {n, PllFails}
    BY <2>1, StageGoes
  <2>3. pc' = "nint"
    BY <1>0, <2>2
  <2>4. SetBefore(pc') \subseteq SetBefore(pc) \cup {"div"}
    BY <2>2, <2>3 DEF SetBefore
  <2> HIDE DEF n
  <2>5. QED
    BY <1>0, <1>1, <1>2, <2>1, <2>2, <2>4, Wants, PathAdds
<1>4. CASE Stage("nint", [nint |-> nint(model, PllLo)], "frac", PllFails)
  <2>1. pc = "nint" /\ pc' = "frac"
    BY <1>0, <1>4, StageGoes
  <2>2. SetBefore(pc') \subseteq SetBefore(pc) \cup {"nint"}
    BY <2>1 DEF SetBefore
  <2>3. QED
    BY <1>0, <1>1, <1>2, <1>4, <2>1, <2>2, Wants, PathAdds
<1>5. CASE Stage("frac", [frac |-> IF sdm(model, PllLo) = 0 THEN 0 ELSE 1], "sdmHi", PllFails)
  <2>1. pc = "frac" /\ pc' = "sdmHi"
    BY <1>0, <1>5, StageGoes
  <2>2. SetBefore(pc') \subseteq SetBefore(pc)
    BY <2>1 DEF SetBefore
  <2>3. QED
    BY <1>1, <1>2, <2>2, PathStays
<1>6. CASE Stage("sdmHi", [sdmHi |-> sdm(model, PllLo)], "sdmLo", PllFails)
  <2>1. pc = "sdmHi" /\ pc' = "sdmLo"
    BY <1>0, <1>6, StageGoes
  <2>2. SetBefore(pc') \subseteq SetBefore(pc) \cup {"sdmHi"}
    BY <2>1 DEF SetBefore
  <2>3. QED
    BY <1>0, <1>1, <1>2, <1>6, <2>1, <2>2, Wants, PathAdds
<1>7. CASE Stage("sdmLo", [sdmLo |-> sdm(model, PllLo)], "lock", PllFails)
  <2>1. pc = "sdmLo" /\ pc' = "lock"
    BY <1>0, <1>7, StageGoes
  <2>2. SetBefore(pc') \subseteq SetBefore(pc) \cup {"sdmLo"}
    BY <2>1 DEF SetBefore, TunedFields
  <2>3. QED
    BY <1>0, <1>1, <1>2, <1>7, <2>1, <2>2, Wants, PathAdds
<1>8. QED
  BY <1>3, <1>4, <1>5, <1>6, <1>7 DEF SetPll

(* The fine tuning is read before the only field it bears on is written.    *)
LEMMA StatusPath ==
  ASSUME FlowInv, PathInv, Serve, ReadStatus, round = 0,
         pc' \in Path \ {"openD", "harmonic"}
  PROVE  PathInv'
<1>1. pc = "status" /\ pc' = "div"
  BY Places, Targets DEF Path, MuxStages, PllStages
<1>2. UNCHANGED <<chip, regs>> /\ lo' = lo
  BY OtherEffect DEF ReadStatus
<1>3. SUFFICES ASSUME NEW f \in MuxFields PROVE Holds(f, Want(f, lo, PllLo, fine))'
  BY <1>1 DEF PathInv, SetBefore
<1>4. Holds(f, Want(f, lo, PllLo, fine))
  BY <1>1 DEF PathInv, SetBefore, PllStages
<1>5. Want(f, lo, PllLo, fine)' = Want(f, lo, PllLo, fine)
  BY <1>2 DEF Want
<1>6. QED
  BY <1>2, <1>4, <1>5 DEF Holds

(* At each stage of a tuning what the stages before wrote is in place.      *)
LEMMA PathStep ==
  ASSUME FlowInv, PathInv, [Next]_vars
  PROVE  PathInv'
<1>1. CASE pc' \notin Path \ {"openD", "harmonic"}
  BY <1>1, PathLeft
<1>2. CASE UNCHANGED vars
  BY <1>2 DEF vars, bus, locals, PathInv, SetBefore, Holds, Want, PllLo
<1>3. CASE ~Serve /\ ~UNCHANGED vars
  <2>1. CASE TUNERINIT
    BY <2>1, PathLeft DEF TUNERINIT, Path, MuxStages, PllStages
  <2>2. CASE ~TUNERINIT
    BY <1>3, <2>2, Requests, RequestIdle, PathLeft DEF Path, MuxStages, PllStages,
       StandbyStages
  <2>3. QED
    BY <2>1, <2>2
<1>4. CASE Serve /\ pc' \in Path \ {"openD", "harmonic"}
  <2>1. CASE CaliOn
    <3>1. round # 0 /\ round' = round
      BY <2>1, Places DEF CaliOn, FlowInv, CalStages
    <3>2. QED
      BY <3>1 DEF PathInv
  <2>2. CASE TuneStep /\ round # 0
    BY <1>4, <2>2, TuneFrame DEF PathInv
  <2>3. CASE TuneStep /\ round = 0
    <3>1. ~Harmonic /\ ~SelectInput
      BY <1>4, Targets DEF Path, MuxStages, PllStages
    <3>2. QED
      BY <1>4, <2>3, <3>1, MuxPath, PllPath, DividerPath, StatusPath DEF TuneStep
  <2>4. CASE ~CaliOn /\ ~TuneStep
    <3>1. pc' \notin Path
      BY <1>4, <2>4, Targets DEF Serve, InitStep, Path, MuxStages, PllStages, GainStages,
         StandbyStages
    <3>2. QED
      BY <1>4, <3>1
  <2>5. QED
    BY <2>1, <2>2, <2>3, <2>4
<1>5. QED
  BY <1>1, <1>2, <1>3, <1>4

-----------------------------------------------------------------------------
(* What was reported done                                                   *)

(* Outside of a tuning, a standby and an init nothing writes its fields.    *)
LEMMA NotWritten ==
  ASSUME pc \in GainStages \cup {"idle"}
  PROVE  TunedFields \cap (IF pc = "idle" THEN {"vga", "sideband"} ELSE Writes(pc)) = {}
  BY DEF GainStages, Writes, MuxStages, TunedFields, MuxFields

(* A tuning reported done stays in the chip.                                *)
LEMMA DoneStep ==
  ASSUME FlowInv, PathInv, DoneInv, [Next]_vars
  PROVE  DoneInv'
<1>0. TunedFields \subseteq Field
  BY Fields DEF TunedFields, MuxFields, FieldNames
<1>1. CASE TUNERINIT \/ TUNERSTDBY
  BY <1>1 DEF TUNERINIT, TUNERSTDBY, DoneInv, NotTuned
<1>2. CASE UNCHANGED vars
  BY <1>2 DEF vars, bus, told, DoneInv, Holds, Want
<1>3. CASE Serve /\ SelectInput
  <2>1. pc = "input" /\ round = 0 /\ tuned = NotTuned
    BY <1>3, Places DEF FlowInv, GainStages
  <2>2. UNCHANGED <<model, lo, nth_harm, fine>>
    BY <1>3 DEF Serve, SelectInput, locals
  <2>3. tuned' \in {TunedNow, NotTuned}
    BY <1>3, <2>1 DEF SelectInput
  <2>4. Keeps(Writes(pc))
    BY <1>3, ServeKeeps
  <2>5. \A f \in SetBefore("input") : Holds(f, Want(f, lo, PllLo, fine))'
    BY <2>1, <2>2, <2>4, PathKeeps DEF Path
  <2>6. SetBefore("input") = TunedFields
    BY DEF SetBefore
  <2>7. PllLo' = PllLo
    BY <2>2 DEF PllLo
  <2>8. CASE tuned' = TunedNow
    <3>1. tuned'.lo = lo' /\ tuned'.pllLo = PllLo' /\ tuned'.fine = fine'
      BY <2>2, <2>7, <2>8 DEF TunedNow
    <3>2. QED
      BY <2>5, <2>6, <3>1 DEF DoneInv
  <2>9. CASE tuned' = NotTuned
    BY <2>9 DEF DoneInv, NotTuned
  <2>10. QED
    BY <2>3, <2>8, <2>9
<1>4. CASE ~(TUNERINIT \/ TUNERSTDBY \/ UNCHANGED vars \/ (Serve /\ SelectInput))
  <2>1. tuned' \in {tuned, NotTuned} /\ model' = model
    BY <1>4, RequestTold, Requests, ServeDriver
  <2>2. CASE tuned' = NotTuned
    BY <2>2 DEF DoneInv, NotTuned
  <2>3. CASE tuned' = tuned /\ tuned.freq = None
    BY <2>3 DEF DoneInv
  <2>4. CASE tuned' = tuned /\ tuned.freq # None
    <3>1. pc \in GainStages \cup {"idle"}
      BY <2>4 DEF FlowInv, NotTuned
    <3> DEFINE fs == IF pc = "idle" THEN {"vga", "sideband"} ELSE Writes(pc)
    <3>2. Keeps(fs) /\ TunedFields \cap fs = {}
      BY <1>4, <3>1, StepKeeps, NotWritten
    <3> HIDE DEF fs
    <3>3. SUFFICES ASSUME NEW f \in TunedFields
                   PROVE  Holds(f, Want(f, tuned.lo, tuned.pllLo, tuned.fine))'
      BY DEF DoneInv
    <3> DEFINE w == Want(f, tuned.lo, tuned.pllLo, tuned.fine)
    <3>4. Holds(f, w)
      BY <2>4 DEF DoneInv
    <3>5. w' = w
      BY <2>1, <2>4 DEF Want
    <3>6. Same(f)
      BY <1>0, <3>2 DEF Keeps
    <3>7. chip'[f] = w /\ regs'[f] = w
      BY <3>4, <3>6 DEF Same, Holds
    <3>8. Holds(f, w)'
      BY <3>5, <3>7 DEF Holds
    <3>9. QED
      BY <3>8
  <2>5. QED
    BY <2>1, <2>2, <2>3, <2>4
<1>5. QED
  BY <1>1, <1>2, <1>3, <1>4

(* The gain                                                                 *)
LEMMA GainModesStep ==
  ASSUME FlowInv, GainInv, Serve, GainModes
  PROVE  GainInv'
<1>0. {"lnaMode", "mixMode", "lna", "mixer"} \subseteq Field
  BY Fields DEF FieldNames
<1>1. /\ cfg /\ gained = None /\ gained' = gained /\ arg' = arg
      /\ Keeps(Writes(pc))
  BY Places, ServeDriver, ServeKeeps DEF GainModes, told, FlowInv, GainStages, StandbyStages
<1>2. CASE pc' = "idle"
  BY <1>1, <1>2 DEF GainInv
<1>3. CASE pc' # "idle" /\ Stage("lnaMode", [lnaMode |-> 1], "mixMode", "idle")
  <2>1. pc' = "mixMode" /\ Holds("lnaMode", 1)'
    BY <1>0, <1>1, <1>3, StageEffect
  <2>2. QED
    BY <1>1, <2>1 DEF GainInv
<1>4. CASE pc' # "idle" /\ Stage("mixMode", [mixMode |-> 0], "gainStatus", "idle")
  <2>1. pc = "mixMode" /\ pc' = "gainStatus" /\ Holds("mixMode", 0)'
    BY <1>0, <1>1, <1>4, StageEffect
  <2>2. Holds("lnaMode", 1)'
    BY <1>0, <1>1, <2>1, KeptField DEF GainInv, Writes, MuxStages
  <2>3. QED
    BY <1>1, <2>1, <2>2 DEF GainInv
<1>5. CASE pc' # "idle" /\ OtherStage("gainStatus", "lna", "idle")
  <2>1. pc = "gainStatus" /\ pc' = "lna" /\ UNCHANGED <<chip, regs>>
    BY <1>5, OtherEffect
  <2>2. QED
    BY <1>1, <2>1 DEF GainInv, Holds
<1>6. CASE pc' # "idle" /\ Stage("lna", [lna |-> lna_gains(arg)], "mixer", "idle")
  <2>1. pc = "lna" /\ pc' = "mixer" /\ Holds("lna", lna_gains(arg))'
    BY <1>0, <1>1, <1>6, StageEffect
  <2>2. Holds("lnaMode", 1)' /\ Holds("mixMode", 0)'
    BY <1>0, <1>1, <2>1, KeptField DEF GainInv, Writes, MuxStages
  <2>3. QED
    BY <1>1, <2>1, <2>2 DEF GainInv
<1>7. QED
  BY <1>2, <1>3, <1>4, <1>5, <1>6 DEF GainModes

(* The last stage of a gain completes what is reported.                     *)
LEMMA MixerSet ==
  ASSUME FlowInv, GainInv, Serve, GainMixer
  PROVE  GainInv'
<1>0. /\ {"lnaMode", "mixMode", "lna", "mixer"} \subseteq Field
      /\ Reg["mixer"] = 7
  BY Fields DEF FieldNames
<1>1. /\ pc = "mixer" /\ pc' = "idle" /\ cfg /\ gained = None /\ arg' = arg
      /\ Keeps(Writes(pc))
  BY Places, Targets, ServeDriver, ServeKeeps DEF FlowInv, GainStages, StandbyStages
<1>2. Holds("lnaMode", 1)' /\ Holds("mixMode", 0)' /\ Holds("lna", lna_gains(arg))'
  BY <1>0, <1>1, SameHolds DEF GainInv, Writes, MuxStages, Keeps, Holds, Same
<1>3. PICK ok \in BOOLEAN : /\ Write({7}, [mixer |-> mixer_gains(arg)], ok)
                            /\ gained' = IF ok THEN arg ELSE gained
  BY DEF GainMixer
<1>4. ok => Holds("mixer", mixer_gains(arg))'
  <2>1. "mixer" \in Field /\ "mixer" \in DOMAIN [mixer |-> mixer_gains(arg)]
    BY <1>0
  <2>2. regs'["mixer"] = mixer_gains(arg)
    BY <1>3, <2>1 DEF Write
  <2>3. ok => chip'["mixer"] = regs'["mixer"]
    BY <1>0, <1>1, <1>3, <2>1 DEF Write
  <2>4. mixer_gains(arg)' = mixer_gains(arg)
    BY <1>1
  <2>5. QED
    BY <2>2, <2>3, <2>4 DEF Holds
<1>5. CASE ok
  BY <1>1, <1>2, <1>3, <1>4, <1>5 DEF GainInv
<1>6. CASE ~ok
  BY <1>1, <1>3, <1>6 DEF GainInv
<1>7. QED
  BY <1>5, <1>6

(* A gain reported set stays in the chip.                                   *)
LEMMA GainStep ==
  ASSUME FlowInv, GainInv, [Next]_vars
  PROVE  GainInv'
<1>0. {"lnaMode", "mixMode", "lna", "mixer"} \subseteq Field
  BY Fields DEF FieldNames
<1>1. CASE TUNERINIT \/ TUNERSTDBY
  BY <1>1 DEF TUNERINIT, TUNERSTDBY, GainInv
<1>2. CASE UNCHANGED vars
  BY <1>2 DEF vars, bus, locals, told, GainInv, Holds
<1>3. CASE Serve /\ (GainModes \/ GainMixer)
  BY <1>3, GainModesStep, MixerSet
<1>4. CASE ~(TUNERINIT \/ TUNERSTDBY \/ UNCHANGED vars \/ (Serve /\ (GainModes \/ GainMixer)))
  <2>1. gained' \in {gained, None} /\ pc' \notin GainStages \ {"lnaMode"}
    <3>1. CASE Serve
      BY <1>4, <3>1, ServeDriver, Targets DEF Serve, InitStep, TuneStep, MuxStages, PllStages,
         StandbyStages, GainStages
    <3>2. CASE ~Serve
      BY <1>4, <3>2, RequestTold DEF GainStages
    <3>3. QED
      BY <3>1, <3>2
  <2>2. CASE gained' = None
    BY <2>1, <2>2 DEF GainInv, GainStages
  <2>3. CASE gained' = gained /\ gained # None
    <3>1. pc \notin GainStages \cup StandbyStages
      BY <2>3 DEF FlowInv
    <3> DEFINE fs == IF pc = "idle" THEN {"vga", "sideband"} ELSE Writes(pc)
    <3>2. Keeps(fs)
      BY <1>4, StepKeeps
    <3>3. fs \cap {"lnaMode", "mixMode", "lna", "mixer"} = {}
      BY <3>1 DEF Writes, MuxStages, GainStages, StandbyStages
    <3> HIDE DEF fs
    <3>4. /\ Same("lnaMode") /\ Same("mixMode") /\ Same("lna") /\ Same("mixer")
      BY <1>0, <3>2, <3>3 DEF Keeps
    <3>5. QED
      BY <2>1, <2>3, <3>4 DEF GainInv, GainStages, Same, Holds
  <2>4. QED
    BY <2>1, <2>2, <2>3
<1>5. QED
  BY <1>1, <1>2, <1>3, <1>4

(* The VGA                                                                  *)
LEMMA VgaStep ==
  ASSUME FlowInv, VgaInv, [Next]_vars
  PROVE  VgaInv'
<1>0. "vga" \in Field /\ Reg["vga"] = 12
  BY Fields DEF FieldNames
<1>1. CASE TUNERINIT \/ TUNERSTDBY
  BY <1>1 DEF TUNERINIT, TUNERSTDBY, VgaInv
<1>2. CASE UNCHANGED vars
  BY <1>2 DEF vars, bus, driver, told, VgaInv
<1>3. CASE Serve
  <2>1. UNCHANGED <<m_vgagain_index, vgaSet, vgaSent>> /\ Keeps(Writes(pc))
    BY <1>3, ServeDriver, ServeKeeps
  <2>2. CASE pc = "sb0c"
    BY <2>1, <2>2 DEF VgaInv, FlowInv, StandbyStages
  <2>3. CASE pc # "sb0c"
    <3>1. "vga" \notin Writes(pc)
      BY <2>3 DEF Writes, MuxStages
    <3>2. QED
      BY <2>1, <3>1 DEF VgaInv, Keeps
  <2>4. QED
    BY <2>2, <2>3
<1>4. ASSUME NEW g \in VgaGains, SetVga(g) PROVE VgaInv'
  <2>1. cfg
    BY <1>4 DEF SetVga
  <2>2. PICK ok \in BOOLEAN :
          /\ IF m_vgagain_index = g THEN ok /\ UNCHANGED bus ELSE Write({12}, [vga |-> g], ok)
          /\ m_vgagain_index' = IF ok THEN g ELSE m_vgagain_index
          /\ vgaSet' = IF ok THEN g ELSE None
          /\ vgaSent' = (vgaSent \/ (ok /\ m_vgagain_index # g))
    BY <1>4 DEF SetVga
  <2>3. CASE m_vgagain_index = g
    BY <2>2, <2>3 DEF VgaInv, bus
  <2>4. CASE m_vgagain_index # g /\ ok
    <3>1. "vga" \in DOMAIN [vga |-> g]
      OBVIOUS
    <3>2. regs'["vga"] = g
      BY <1>0, <2>2, <2>4, <3>1 DEF Write
    <3>3. chip'["vga"] = regs'["vga"]
      BY <1>0, <2>1, <2>2, <2>4 DEF Write
    <3>4. QED
      BY <2>2, <2>4, <3>2, <3>3 DEF VgaInv
  <2>5. CASE m_vgagain_index # g /\ ~ok
    <3>1. chip'["vga"] = chip["vga"]
      BY <1>0, <2>2, <2>5 DEF Write
    <3>2. QED
      BY <2>2, <2>5, <3>1 DEF VgaInv
  <2>6. QED
    BY <2>3, <2>4, <2>5
<1>5. ASSUME NEW f \in Freqs, TUNERTUNE(f) PROVE VgaInv'
  BY <1>5 DEF TUNERTUNE, bus, VgaInv
<1>6. ASSUME NEW g \in Gains, SetAllGains(g) PROVE VgaInv'
  BY <1>6 DEF SetAllGains, bus, driver, VgaInv
<1>7. ASSUME NEW s \in 0 .. 1, SetSideband(s) PROVE VgaInv'
  <2>1. PICK ok \in BOOLEAN : Write({7}, [sideband |-> s], ok)
    BY <1>7 DEF SetSideband
  <2>2. Keeps({"sideband"})
    BY <2>1, WriteKeeps
  <2>3. QED
    BY <1>7, <2>2 DEF SetSideband, told, VgaInv, Keeps
<1>8. QED
  BY <1>1, <1>2, <1>3, <1>4, <1>5, <1>6, <1>7 DEF Next

-----------------------------------------------------------------------------

(* The invariant holds at first ...                                         *)
LEMMA InitHolds == Init => IInv
<1> SUFFICES ASSUME Init PROVE IInv
  OBVIOUS
<1>1. /\ pc = "idle" /\ ~cfg /\ ~initOk /\ tuned = NotTuned /\ gained = None
      /\ vgaSet = None /\ vgaSent = FALSE
  BY DEF Init
<1>2. FlowInv
  BY <1>1, SMT DEF FlowInv, Stages, CalStages, BandStages, MuxStages, PllStages, GainStages,
     StandbyStages, NotTuned, None
<1>3. CaliInv /\ CurrentInv
  BY <1>1 DEF CaliInv, CurrentInv
<1>4. InputInv /\ DoneInv
  BY <1>1 DEF InputInv, DoneInv, NotTuned, StandbyStages
<1>5. PathInv
  BY <1>1 DEF PathInv, MuxStages, PllStages
<1>6. GainInv /\ VgaInv
  BY <1>1 DEF GainInv, VgaInv
<1>7. QED
  BY <1>2, <1>3, <1>4, <1>5, <1>6 DEF IInv

(* ... and every step keeps it.                                             *)
LEMMA StepHolds == IInv /\ [Next]_vars => IInv'
  BY FlowStep, CaliStep, CurrentStep, InputStep, PathStep, DoneStep, GainStep, VgaStep DEF IInv

(* The invariant all the others below follow from.                          *)
THEOREM Invariance == Spec => []IInv
<1>1. Init => IInv
  BY InitHolds
<1>2. IInv /\ [Next]_vars => IInv'
  BY StepHolds
<1>3. QED
  BY <1>1, <1>2, PTL DEF Spec

(* After an init reported good the calibration clock is off for good: only  *)
(* a later init, which takes the report back first, starts it.              *)
THEOREM CalibrationOff == Spec => []CalibrationEnds
<1>1. IInv => CalibrationEnds
  BY SMT DEF IInv, CaliInv, CalibrationEnds, Holds
<1>2. QED
  BY <1>1, Invariance, PTL

(* The VCO current the driver remembers is the chip's while the PLL is      *)
(* locked, whatever transfers of other registers failed.                    *)
THEOREM CurrentKnown == Spec => []VcoCurrentKnown
<1>1. IInv => VcoCurrentKnown
  BY DEF IInv, FlowInv, CurrentInv, VcoCurrentKnown, Holds
<1>2. QED
  BY <1>1, Invariance, PTL

(* A tuning or a gain reported done is in the chip until another request    *)
(* for it, an init or a standby.                                            *)
THEOREM Done == Spec => []DoneAsReported
<1>1. ASSUME IInv, tuned.freq # None
      PROVE  TunedAsReported
  <2>1. \A f \in TunedFields : chip[f] = Want(f, tuned.lo, tuned.pllLo, tuned.fine)
    BY <1>1 DEF IInv, DoneInv, Holds
  <2>2. \A f \in MuxFields : chip[f] = Range(tuned.lo)
    BY <2>1 DEF TunedFields, Want
  <2>3. chip["div"] = div_num(model, tuned.pllLo, tuned.fine)
    BY <2>1 DEF TunedFields, MuxFields, Want
  <2>4. chip["nint"] = nint(model, tuned.pllLo)
    BY <2>1 DEF TunedFields, MuxFields, Want
  <2>5. chip["sdmHi"] = sdm(model, tuned.pllLo) /\ chip["sdmLo"] = sdm(model, tuned.pllLo)
    BY <2>1 DEF TunedFields, MuxFields, Want
  <2>6. model = "R828D" /\ 5 \notin unsure => chip["input"] = air_cable1_in(tuned.freq)
    BY <1>1 DEF IInv, FlowInv, InputInv, Holds
  <2>7. QED
    BY <2>2, <2>3, <2>4, <2>5, <2>6 DEF TunedAsReported, MuxFields
<1>2. IInv => TunedAsReported
  BY <1>1 DEF TunedAsReported
<1>3. IInv => GainsAsReported
  BY DEF IInv, GainInv, VgaInv, Holds, GainsAsReported
<1>4. IInv => DoneAsReported
  BY <1>2, <1>3 DEF DoneAsReported
<1>5. QED
  BY <1>4, Invariance, PTL

-----------------------------------------------------------------------------
(* The arithmetic of the PLL                                                *)

(* The range of a LO that is not negative is one of freq_ranges.            *)
LEMMA RangeThere == ASSUME NEW l \in Nat PROVE Range(l) \in freq_ranges
<1> DEFINE q == l \div 1000
<1>1. q \in Nat
  BY SMT
<1> HIDE DEF q
<1>2. \E r \in freq_ranges : r <= q /\ \A s \in freq_ranges : s <= q => s <= r
  BY <1>1, SMTT(60) DEF freq_ranges
<1>3. QED
  BY <1>2 DEF Range, q

(* The divider is one of those tried, or what the loop leaves.              *)
LEMMA MixDivInt == \A l : mix_div(l) \in MixDivs \cup {128}
  BY SMT DEF mix_div

(* What r82xx_set_pll sends are numbers.                                    *)
LEMMA PllNumbers ==
  ASSUME NEW c, NEW p \in Int, NEW fi \in Int
  PROVE  div_num(c, p, fi) \in 0 .. 7 /\ nint(c, p) \in Nat /\ sdm(c, p) \in Nat
<1> DEFINE m == mix_div(p)
           x == xtal(c)
           v == vco_power_ref(c)
           k == p * m
<1>1. m \in Int
  BY MixDivInt, SMT DEF MixDivs
<1>2. x \in {16000, 32000} /\ v \in {1, 2}
  BY DEF xtal, vco_power_ref
<1>3. Halvings(m) \in 0 .. 5
  BY SMT DEF Halvings
<1>4. div_num(c, p, fi) = (Halvings(m) + CASE fi > v -> -1 [] fi < v -> 1 [] OTHER -> 0) % 8
  BY DEF div_num
<1> HIDE DEF m, v
<1>5. div_num(c, p, fi) \in 0 .. 7
  BY <1>2, <1>3, <1>4, SMT
<1>6. k \in Int
  BY <1>1, SMT
<1>7. nint(c, p) = (k \div (2 * x)) % 256 /\ sdm(c, p) = k % (2 * x)
  BY DEF nint, sdm, Quotient, m
<1> HIDE DEF k, x
<1>8. sdm(c, p) \in Nat
  <2>1. CASE x = 16000
    <3>1. k % 32000 \in Nat
      BY <1>6, SMT
    <3>2. QED
      BY <1>7, <2>1, <3>1, SMT
  <2>2. CASE x = 32000
    <3>1. k % 64000 \in Nat
      BY <1>6, SMT
    <3>2. QED
      BY <1>7, <2>2, <3>1, SMT
  <2>3. QED
    BY <1>2, <2>1, <2>2
<1>9. nint(c, p) \in Nat
  <2>1. k \div (2 * x) \in Int
    BY <1>2, <1>6, SMT
  <2>2. QED
    BY <1>7, <2>1, SMT
<1>10. QED
  BY <1>5, <1>8, <1>9

(* ... and so are the gains of an index.                                    *)
LEMMA GainNumbers == \A g \in Nat : lna_gains(g) \in Int /\ mixer_gains(g) \in Int
  BY SMT DEF lna_gains, mixer_gains

-----------------------------------------------------------------------------
(* The types                                                                *)

BusTypes == /\ chip \in [Field -> Int] /\ regs \in [Field -> Int]
            /\ unsure \subseteq Registers
(* A LO is never negative: a frequency tuned to is above the intermediate   *)
(* one, so there is a range for it.                                         *)
LocalTypes == /\ arg \in Nat /\ lo \in Nat /\ nth_harm \in 0 .. 1
              /\ fine \in 0 .. 3 /\ round \in 0 .. 2
DriverTypes ==
  /\ model \in Chips /\ cfg \in BOOLEAN /\ has_lock \in BOOLEAN
  /\ int_freq \in {0, 3570, 4570} /\ rf_freq \in Nat /\ sideband \in 0 .. 1
  /\ input \in {0, 96} /\ last_vco_curr \in {0, vco_curr_min, vco_curr_max}
  /\ m_vgagain_index \in Nat
ToldTypes == /\ tuned \in [freq : Int, lo : Int, pllLo : Int, fine : 0 .. 3]
             /\ gained \in Int /\ vgaSet \in Int /\ vgaSent \in BOOLEAN /\ initOk \in BOOLEAN
CountTypes == requests \in Nat /\ faults \in Nat
TypeInv == BusTypes /\ LocalTypes /\ DriverTypes /\ ToldTypes /\ CountTypes

(* The registers that are written are those of the fields.                  *)
LEMMA RegistersThere ==
  /\ {5, 7, 12, 16, 26} \subseteq Registers
  /\ \A fs \in SUBSET Field : {Reg[f] : f \in fs} \subseteq Registers
  BY Fields DEF Registers, FieldNames

(* A write of numbers leaves numbers.                                       *)
LEMMA WriteTypes ==
  ASSUME BusTypes, NEW rs \in SUBSET Registers, NEW vals, NEW ok \in BOOLEAN,
         \A f \in Field \cap DOMAIN vals : vals[f] \in Int, Write(rs, vals, ok)
  PROVE  BusTypes'
<1>1. regs' \in [Field -> Int]
  BY DEF Write, BusTypes
<1>2. chip' \in [Field -> Int]
  BY <1>1 DEF Write, BusTypes
<1>3. unsure' \subseteq Registers
  BY DEF Write, BusTypes
<1>4. QED
  BY <1>1, <1>2, <1>3 DEF BusTypes

(* So does a stage.                                                         *)
LEMMA StageTypes ==
  ASSUME BusTypes, NEW s, NEW vals, NEW next, NEW abort,
         DOMAIN vals \subseteq Field, \A f \in DOMAIN vals : vals[f] \in Int,
         Stage(s, vals, next, abort)
  PROVE  BusTypes'
<1>1. PICK ok \in BOOLEAN : Write({Reg[f] : f \in DOMAIN vals}, vals, ok)
  BY DEF Stage
<1>2. {Reg[f] : f \in DOMAIN vals} \subseteq Registers
  BY RegistersThere
<1>3. QED
  BY <1>1, <1>2, WriteTypes

(* One field.                                                               *)
LEMMA FieldTypes ==
  ASSUME BusTypes, NEW s, NEW next, NEW abort, NEW v \in Int
  PROVE  /\ Stage(s, [cali |-> v], next, abort) => BusTypes'
         /\ Stage(s, [input |-> v], next, abort) => BusTypes'
         /\ Stage(s, [openD |-> v], next, abort) => BusTypes'
         /\ Stage(s, [mux |-> v], next, abort) => BusTypes'
         /\ Stage(s, [band |-> v], next, abort) => BusTypes'
         /\ Stage(s, [xtalCap |-> v], next, abort) => BusTypes'
         /\ Stage(s, [autotune |-> v], next, abort) => BusTypes'
         /\ Stage(s, [current |-> v], next, abort) => BusTypes'
         /\ Stage(s, [div |-> v], next, abort) => BusTypes'
         /\ Stage(s, [nint |-> v], next, abort) => BusTypes'
         /\ Stage(s, [frac |-> v], next, abort) => BusTypes'
         /\ Stage(s, [sdmHi |-> v], next, abort) => BusTypes'
         /\ Stage(s, [sdmLo |-> v], next, abort) => BusTypes'
         /\ Stage(s, [lnaMode |-> v], next, abort) => BusTypes'
         /\ Stage(s, [mixMode |-> v], next, abort) => BusTypes'
         /\ Stage(s, [lna |-> v], next, abort) => BusTypes'
         /\ Stage(s, [vga |-> v], next, abort) => BusTypes'
<1>0. FieldNames = Field
  BY Fields
<1>1. Stage(s, [cali |-> v], next, abort) => BusTypes'
  BY <1>0, StageTypes DEF FieldNames
<1>2. Stage(s, [input |-> v], next, abort) => BusTypes'
  BY <1>0, StageTypes DEF FieldNames
<1>3. Stage(s, [openD |-> v], next, abort) => BusTypes'
  BY <1>0, StageTypes DEF FieldNames
<1>4. Stage(s, [mux |-> v], next, abort) => BusTypes'
  BY <1>0, StageTypes DEF FieldNames
<1>5. Stage(s, [band |-> v], next, abort) => BusTypes'
  BY <1>0, StageTypes DEF FieldNames
<1>6. Stage(s, [xtalCap |-> v], next, abort) => BusTypes'
  BY <1>0, StageTypes DEF FieldNames
<1>7. Stage(s, [autotune |-> v], next, abort) => BusTypes'
  BY <1>0, StageTypes DEF FieldNames
<1>8. Stage(s, [current |-> v], next, abort) => BusTypes'
  BY <1>0, StageTypes DEF FieldNames
<1>9. Stage(s, [div |-> v], next, abort) => BusTypes'
  BY <1>0, StageTypes DEF FieldNames
<1>10. Stage(s, [nint |-> v], next, abort) => BusTypes'
  BY <1>0, StageTypes DEF FieldNames
<1>11. Stage(s, [frac |-> v], next, abort) => BusTypes'
  BY <1>0, StageTypes DEF FieldNames
<1>12. Stage(s, [sdmHi |-> v], next, abort) => BusTypes'
  BY <1>0, StageTypes DEF FieldNames
<1>13. Stage(s, [sdmLo |-> v], next, abort) => BusTypes'
  BY <1>0, StageTypes DEF FieldNames
<1>14. Stage(s, [lnaMode |-> v], next, abort) => BusTypes'
  BY <1>0, StageTypes DEF FieldNames
<1>15. Stage(s, [mixMode |-> v], next, abort) => BusTypes'
  BY <1>0, StageTypes DEF FieldNames
<1>16. Stage(s, [lna |-> v], next, abort) => BusTypes'
  BY <1>0, StageTypes DEF FieldNames
<1>17. Stage(s, [vga |-> v], next, abort) => BusTypes'
  BY <1>0, StageTypes DEF FieldNames
<1>18. QED
  BY <1>1, <1>2, <1>3, <1>4, <1>5, <1>6, <1>7, <1>8, <1>9, <1>10, <1>11, <1>12, <1>13,
     <1>14, <1>15, <1>16, <1>17

(* A transfer that leaves the fields alone leaves their types.              *)
LEMMA BusKept == ASSUME BusTypes, UNCHANGED <<chip, regs, unsure>> PROVE BusTypes'
  BY DEF BusTypes

(* A register is sent again.                                                *)
LEMMA RewriteTypes ==
  ASSUME BusTypes, NEW r \in {16, 26}, NEW ok \in BOOLEAN, Write({r}, <<>>, ok)
  PROVE  BusTypes'
<1>1. DOMAIN <<>> = {} /\ {r} \subseteq Registers
  BY RegistersThere
<1>2. QED
  BY <1>1, WriteTypes

(* The init's stages.                                                       *)
LEMMA InitBus == ASSUME BusTypes, InitStep PROVE BusTypes'
<1>0. 0 \in Int /\ 1 \in Int
  OBVIOUS
<1>1. CASE LnaTop
  BY <1>1, OtherEffect, BusKept DEF LnaTop
<1>2. CASE CaliOn
  BY <1>0, <1>2, FieldTypes DEF CaliOn
<1>3. CASE Trigger
  BY <1>3, OtherEffect, BusKept DEF Trigger
<1>4. CASE CaliOff
  BY <1>0, <1>4, FieldTypes DEF CaliOff
<1>5. CASE CalStatus
  BY <1>5, OtherEffect, BusKept DEF CalStatus
<1>6. CASE Filter
  BY <1>6, OtherEffect, BusKept DEF Filter
<1>7. CASE SysInput
  BY <1>0, <1>7, FieldTypes DEF SysInput
<1>8. CASE SysRest
  <2>1. CASE \/ OtherStage("sysDet", "sysAgc1", "bandwidth")
             \/ OtherStage("sysTop", "sysAgc2", "bandwidth")
    BY <2>1, OtherEffect, BusKept
  <2>2. CASE SysAgc("sysAgc1", "sysTop")
    <3>1. PICK ok \in BOOLEAN : Write({26}, <<>>, ok)
      BY <2>2 DEF SysAgc
    <3>2. QED
      BY <3>1, RewriteTypes
  <2>3. QED
    BY <1>8, <2>1, <2>2 DEF SysRest
<1>9. CASE SysLast
  <2>1. PICK ok \in BOOLEAN : Write({26}, <<>>, ok)
    BY <1>9 DEF SysLast
  <2>2. QED
    BY <2>1, RewriteTypes
<1>10. CASE Bandwidth
  BY <1>10, OtherEffect, BusKept DEF Bandwidth
<1>11. QED
  BY <1>1, <1>2, <1>3, <1>4, <1>5, <1>6, <1>7, <1>8, <1>9, <1>10 DEF InitStep

(* The tuning's stages.                                                     *)
LEMMA TuneBus == ASSUME BusTypes, LocalTypes, TuneStep PROVE BusTypes'
<1>0. Range(lo) \in Int
  BY RangeThere DEF LocalTypes, freq_ranges
<1>1. PllLo \in Int /\ fine \in Int /\ 8 \in Int /\ 128 \in Int
  BY SMT DEF LocalTypes, PllLo, HarmonicLo
<1>2. /\ div_num(model, PllLo, fine) \in Int /\ nint(model, PllLo) \in Int
      /\ sdm(model, PllLo) \in Int /\ (IF sdm(model, PllLo) = 0 THEN 0 ELSE 1) \in Int
  BY <1>1, PllNumbers
<1>3. CASE SetMux
  BY <1>0, <1>3, FieldTypes DEF SetMux
<1>4. CASE Harmonic
  BY <1>4, BusKept DEF Harmonic, bus
<1>5. CASE PllStart
  <2>1. CASE Stage("autotune", [autotune |-> 128], "vcoMin", PllFails)
    BY <1>1, <2>1, FieldTypes
  <2>2. ASSUME NEW ok \in BOOLEAN, Write({16}, <<>>, ok) PROVE BusTypes'
    BY <2>2, RewriteTypes
  <2>3. QED
    BY <1>5, <2>1, <2>2 DEF PllStart
<1>6. CASE VcoMin \/ VcoMax
  <2>1. vco_curr_min \in Int /\ vco_curr_max \in Int
    BY DEF vco_curr_min, vco_curr_max
  <2>2. \/ Stage("vcoMin", [current |-> vco_curr_min], "status", PllFails)
        \/ Stage("vcoMax", [current |-> vco_curr_max], "relock", PllFails)
        \/ UNCHANGED <<chip, regs, unsure>>
    BY <1>6 DEF VcoMin, VcoMax, bus
  <2>3. QED
    BY <2>1, <2>2, FieldTypes, BusKept
<1>7. CASE ReadStatus
  BY <1>7, OtherEffect, BusKept DEF ReadStatus
<1>8. CASE SetDivider
  BY <1>2, <1>8, FieldTypes DEF SetDivider
<1>9. CASE SetPll
  BY <1>2, <1>9, FieldTypes DEF SetPll
<1>10. CASE ReadLock
  <2>1. UNCHANGED <<chip, regs, unsure>>
    BY <1>10, OtherEffect DEF ReadLock
  <2>2. QED
    BY <2>1, BusKept
<1>11. CASE Locked
  BY <1>1, <1>11, FieldTypes DEF Locked
<1>12. CASE SelectInput
  <2>1. CASE UNCHANGED bus
    BY <2>1, BusKept DEF bus
  <2>2. ASSUME NEW ok \in BOOLEAN, Write({5}, [input |-> input'], ok),
               input' = air_cable1_in(arg)
        PROVE  BusTypes'
    <3>1. input' \in Int
      BY <2>2 DEF air_cable1_in
    <3> DEFINE v == [input |-> input']
    <3>2. \A f \in Field \cap DOMAIN v : v[f] \in Int
      BY <3>1
    <3>3. {5} \in SUBSET Registers
      BY RegistersThere
    <3> HIDE DEF v
    <3>4. Write({5}, v, ok)
      BY <2>2 DEF v
    <3>5. QED
      BY <3>2, <3>3, <3>4, WriteTypes
  <2>3. QED
    BY <1>12, <2>1, <2>2 DEF SelectInput
<1>13. QED
  BY <1>3, <1>4, <1>5, <1>6, <1>7, <1>8, <1>9, <1>10, <1>11, <1>12 DEF TuneStep

(* The standby's.                                                           *)
LEMMA StandbyBus == ASSUME BusTypes, StandbyStep PROVE BusTypes'
<1>0. FieldNames = Field
  BY Fields
<1>1. Stage("sb05", [input |-> 32, lnaMode |-> 0, lna |-> 0], "sb07", "idle") => BusTypes'
  <2> DEFINE v == [input |-> 32, lnaMode |-> 0, lna |-> 0]
  <2>1. DOMAIN v \subseteq Field /\ \A f \in DOMAIN v : v[f] \in Int
    BY <1>0 DEF FieldNames
  <2> HIDE DEF v
  <2>2. Stage("sb05", v, "sb07", "idle") => BusTypes'
    BY <2>1, StageTypes
  <2>3. QED
    BY <2>2 DEF v
<1>2. Stage("sb07", [sideband |-> 0, mixMode |-> 1, mixer |-> 10], "sb08", "idle") => BusTypes'
  <2> DEFINE v == [sideband |-> 0, mixMode |-> 1, mixer |-> 10]
  <2>1. DOMAIN v \subseteq Field /\ \A f \in DOMAIN v : v[f] \in Int
    BY <1>0 DEF FieldNames
  <2> HIDE DEF v
  <2>2. Stage("sb07", v, "sb08", "idle") => BusTypes'
    BY <2>1, StageTypes
  <2>3. QED
    BY <2>2 DEF v
<1>3. Untracked \in Int /\ 0 \in Int /\ 5 \in Int
  BY DEF Untracked
<1>4. Stage("sb0c", [vga |-> 5], "sb0f", "idle") => BusTypes'
  BY <1>3, FieldTypes
<1>5. Stage("sb0f", [cali |-> 0], "sb11", "idle") => BusTypes'
  BY <1>3, FieldTypes
<1>6. Stage("sb17", [openD |-> Untracked], "sb19", "idle") => BusTypes'
  BY <1>3, FieldTypes
<1>7. \A s, next : OtherStage(s, next, "idle") => BusTypes'
  BY OtherEffect, BusKept
<1>8. QED
  BY <1>1, <1>2, <1>4, <1>5, <1>6, <1>7 DEF StandbyStep

(* Serving a request.                                                       *)
LEMMA ServeBus == ASSUME BusTypes, LocalTypes, Serve PROVE BusTypes'
<1>0. lna_gains(arg) \in Int /\ mixer_gains(arg) \in Int
  BY GainNumbers DEF LocalTypes
<1>1. CASE InitStep
  BY <1>1, InitBus
<1>2. CASE TuneStep
  BY <1>2, TuneBus
<1>3. CASE GainModes
  <2>1. 0 \in Int /\ 1 \in Int
    OBVIOUS
  <2>2. OtherStage("gainStatus", "lna", "idle") => BusTypes'
    BY OtherEffect, BusKept
  <2>3. Stage("lnaMode", [lnaMode |-> 1], "mixMode", "idle") => BusTypes'
    BY <2>1, FieldTypes
  <2>4. Stage("mixMode", [mixMode |-> 0], "gainStatus", "idle") => BusTypes'
    BY <2>1, FieldTypes
  <2>5. Stage("lna", [lna |-> lna_gains(arg)], "mixer", "idle") => BusTypes'
    BY <1>0, FieldTypes
  <2>6. QED
    BY <1>3, <2>2, <2>3, <2>4, <2>5 DEF GainModes
<1>4. CASE GainMixer
  <2> DEFINE v == [mixer |-> mixer_gains(arg)]
  <2>1. PICK ok \in BOOLEAN : Write({7}, v, ok)
    BY <1>4 DEF GainMixer
  <2>2. \A f \in Field \cap DOMAIN v : v[f] \in Int
    BY <1>0
  <2>3. {7} \in SUBSET Registers
    BY RegistersThere
  <2> HIDE DEF v
  <2>4. QED
    BY <2>1, <2>2, <2>3, WriteTypes
<1>5. CASE StandbyStep
  BY <1>5, StandbyBus
<1>6. QED
  BY <1>1, <1>2, <1>3, <1>4, <1>5 DEF Serve

-----------------------------------------------------------------------------
(* The counters of any step.                                                *)
FaultsType == faults \in Nat

(* A transfer counts a fault at most.                                       *)
LEMMA Fails == ASSUME FaultsType, NEW ok \in BOOLEAN, Failing(ok) PROVE FaultsType'
  BY DEF Failing, FaultsType

(* So does a stage.                                                         *)
LEMMA StageFails ==
  ASSUME FaultsType
  PROVE  /\ \A s, vals, next, abort : Stage(s, vals, next, abort) => FaultsType'
         /\ \A s, next, abort : OtherStage(s, next, abort) => FaultsType'
         /\ \A rs, vals : \A ok \in BOOLEAN : Write(rs, vals, ok) => FaultsType'
<1>1. \A rs, vals : \A ok \in BOOLEAN : Write(rs, vals, ok) => FaultsType'
  BY Fails DEF Write
<1>2. \A s, vals, next, abort : Stage(s, vals, next, abort) => FaultsType'
  BY <1>1 DEF Stage
<1>3. \A s, next, abort : OtherStage(s, next, abort) => FaultsType'
  BY Fails DEF OtherStage, Other
<1>4. QED
  BY <1>1, <1>2, <1>3

(* The faults counted while a request is served.                            *)
LEMMA ServeFails == ASSUME FaultsType, Serve PROVE FaultsType'
<1> USE StageFails
<1>1. CASE LnaTop \/ CaliOn \/ Trigger \/ CaliOff \/ CalStatus \/ Filter \/ SysInput
  BY <1>1 DEF LnaTop, CaliOn, Trigger, CaliOff, CalStatus, Filter, SysInput
<1>2. CASE SysRest \/ SysLast \/ Bandwidth
  BY <1>2 DEF SysRest, SysAgc, SysLast, Bandwidth
<1>3. CASE SetMux
  BY <1>3 DEF SetMux
<1>4. CASE Harmonic
  BY <1>4 DEF Harmonic, bus, FaultsType
<1>5. CASE PllStart
  BY <1>5 DEF PllStart
<1>6. CASE VcoMin \/ VcoMax
  BY <1>6 DEF VcoMin, VcoMax, bus, FaultsType
<1>7. CASE ReadStatus \/ SetDivider \/ SetPll
  BY <1>7 DEF ReadStatus, SetDivider, SetPll
<1>8. CASE ReadLock
  BY <1>8 DEF ReadLock
<1>9. CASE Locked
  BY <1>9 DEF Locked
<1>10. CASE SelectInput
  BY <1>10 DEF SelectInput, bus, FaultsType
<1>11. CASE GainModes \/ GainMixer
  BY <1>11 DEF GainModes, GainMixer
<1>12. CASE StandbyStep
  BY <1>12 DEF StandbyStep
<1>13. QED
  BY <1>1, <1>2, <1>3, <1>4, <1>5, <1>6, <1>7, <1>8, <1>9, <1>10, <1>11, <1>12
  DEF Serve, InitStep, TuneStep

-----------------------------------------------------------------------------
(* The driver's own variables while a request is served.                    *)
OwnTypes == LocalTypes /\ DriverTypes /\ ToldTypes

(* Nothing tuned.                                                           *)
LEMMA NotTunedType == /\ NotTuned \in [freq : Int, lo : Int, pllLo : Int, fine : 0 .. 3]
                      /\ None \in Int
<1>1. None \in Int
  BY DEF None
<1>2. QED
  BY <1>1 DEF NotTuned

(* A stage that leaves them all alone.                                      *)
LEMMA OwnKept ==
  ASSUME OwnTypes, UNCHANGED <<model, driver, locals, told>>
  PROVE  OwnTypes'
  BY DEF OwnTypes, LocalTypes, DriverTypes, ToldTypes, driver, locals, told

(* Whether the PLL is locked is known, or has not changed.                  *)
LEMMA LockKnown == ASSUME has_lock \in BOOLEAN, ReadLock PROVE has_lock' \in BOOLEAN
<1>1. PICK locked \in BOOLEAN :
        \/ has_lock' = has_lock
        \/ has_lock' = IF ~locked /\ faults' = faults THEN FALSE ELSE has_lock
  BY Zenon DEF ReadLock
<1>2. CASE ~locked /\ faults' = faults
  <2>1. has_lock' = FALSE \/ has_lock' = has_lock
    BY <1>1, <1>2, Zenon
  <2>2. QED
    BY <2>1, Zenon
<1>3. CASE ~(~locked /\ faults' = faults)
  <2>1. has_lock' = has_lock
    BY <1>1, <1>3, Zenon
  <2>2. QED
    BY <2>1, Zenon
<1>4. QED
  BY <1>2, <1>3

(* What a tuning reports.                                                   *)
LEMMA TunedType ==
  ASSUME OwnTypes
  PROVE  TunedNow \in [freq : Int, lo : Int, pllLo : Int, fine : 0 .. 3]
<1>1. PllLo \in Int
  BY SMT DEF OwnTypes, LocalTypes, PllLo, HarmonicLo
<1>2. arg \in Int /\ lo \in Int /\ fine \in 0 .. 3
  BY DEF OwnTypes, LocalTypes
<1>3. QED
  BY <1>1, <1>2 DEF TunedNow

(* Every stage keeps their types.                                           *)
LEMMA ServeOwn == ASSUME OwnTypes, Serve PROVE OwnTypes'
<1>0. model' = model
  BY DEF Serve
<1> USE DEF OwnTypes, LocalTypes, DriverTypes, ToldTypes, driver, locals, told
<1>1. CASE LnaTop
  BY <1>0, <1>1 DEF LnaTop
<1>2. CASE CaliOn
  BY <1>0, <1>2 DEF CaliOn
<1>3. CASE Trigger \/ CaliOff \/ Filter \/ SysRest
  BY <1>0, <1>3, OwnKept DEF Trigger, CaliOff, Filter, SysRest
<1>4. CASE CalStatus
  BY <1>0, <1>4 DEF CalStatus
<1>5. CASE SysInput
  BY <1>0, <1>5 DEF SysInput
<1>6. CASE SysLast
  BY <1>0, <1>6 DEF SysLast
<1>7. CASE Bandwidth
  BY <1>0, <1>7 DEF Bandwidth
<1>8. CASE SetMux \/ PllStart \/ SetDivider \/ SetPll
  BY <1>0, <1>8, OwnKept DEF SetMux, PllStart, SetDivider, SetPll
<1>9. CASE Harmonic
  BY <1>0, <1>9 DEF Harmonic
<1>10. CASE VcoMin
  BY <1>0, <1>10 DEF VcoMin
<1>11. CASE ReadStatus
  <2>1. fine' \in 0 .. 3
    BY <1>11, SMT DEF ReadStatus, vco_power_ref
  <2>2. QED
    BY <1>0, <1>11, <2>1 DEF ReadStatus
<1>12. CASE ReadLock
  <2>1. has_lock' \in BOOLEAN
    BY <1>12, LockKnown
  <2>2. UNCHANGED <<cfg, int_freq, rf_freq, sideband, input, last_vco_curr, m_vgagain_index,
                    locals, told>>
    BY <1>12 DEF ReadLock
  <2>3. QED
    BY <1>0, <2>1, <2>2
<1>13. CASE VcoMax
  BY <1>0, <1>13 DEF VcoMax
<1>14. CASE Locked
  BY <1>0, <1>14 DEF Locked
<1>15. CASE SelectInput
  <2>1. input' \in {0, 96}
    BY <1>15 DEF SelectInput, air_cable1_in
  <2>2. tuned' \in [freq : Int, lo : Int, pllLo : Int, fine : 0 .. 3]
    BY <1>15, TunedType DEF SelectInput
  <2>3. QED
    BY <1>0, <1>15, <2>1, <2>2 DEF SelectInput
<1>16. CASE GainModes \/ StandbyStep
  BY <1>0, <1>16, OwnKept DEF GainModes, StandbyStep
<1>17. CASE GainMixer
  BY <1>0, <1>17 DEF GainMixer
<1>18. QED
  BY <1>1, <1>2, <1>3, <1>4, <1>5, <1>6, <1>7, <1>8, <1>9, <1>10, <1>11, <1>12, <1>13,
     <1>14, <1>15, <1>16, <1>17 DEF Serve, InitStep, TuneStep

-----------------------------------------------------------------------------
(* The requests                                                             *)
LEMMA InitArrayType == InitArray \in [Field -> Int] /\ InitArray.current = vco_curr_min
<1>1. InitArray \in [Field -> Int]
  BY SMT DEF InitArray, Untracked
<1>2. "current" \in Field
  BY Fields DEF FieldNames
<1>3. InitArray["current"] = 128
  BY <1>2, SMT DEF InitArray
<1>4. QED
  BY <1>1, <1>3 DEF vco_curr_min

(* The init.                                                                *)
LEMMA InitTypes == ASSUME TypeInv, TUNERINIT PROVE TypeInv'
<1>1. BusTypes'
  <2>1. regs' = InitArray /\ chip' \in {InitArray, chip} /\ unsure' \in {{}, Registers}
    BY DEF TUNERINIT
  <2>2. QED
    BY <2>1, InitArrayType DEF TypeInv, BusTypes
<1>2. faults' \in Nat /\ requests' \in Nat
  BY DEF TUNERINIT, Request, TypeInv, CountTypes
<1>3. LocalTypes'
  BY DEF TUNERINIT, TypeInv, LocalTypes
<1>4. DriverTypes'
  <2>1. model' = model /\ m_vgagain_index' = m_vgagain_index
    BY DEF TUNERINIT, Request
  <2>2. /\ cfg' = TRUE /\ has_lock' = FALSE /\ int_freq' = 0 /\ rf_freq' = 0 /\ sideband' = 0
        /\ input' = 0 /\ last_vco_curr' = vco_curr_min
    BY InitArrayType DEF TUNERINIT
  <2>3. QED
    <3>1. cfg' \in BOOLEAN /\ has_lock' \in BOOLEAN
      BY <2>2, Zenon
    <3>2. QED
      BY <2>1, <2>2, <3>1 DEF TypeInv, DriverTypes
<1>5. ToldTypes'
  BY NotTunedType DEF TUNERINIT, ToldTypes
<1>6. QED
  BY <1>1, <1>2, <1>3, <1>4, <1>5 DEF TypeInv, CountTypes

(* The standby.                                                             *)
LEMMA StandbyTypes == ASSUME TypeInv, TUNERSTDBY PROVE TypeInv'
<1>1. BusTypes'
  BY RegistersThere DEF TUNERSTDBY, TypeInv, BusTypes
<1>2. CountTypes'
  BY DEF TUNERSTDBY, Request, TypeInv, CountTypes
<1>3. LocalTypes' /\ DriverTypes'
  BY DEF TUNERSTDBY, Request, TypeInv, LocalTypes, DriverTypes, locals, driver
<1>4. ToldTypes'
  BY NotTunedType DEF TUNERSTDBY, TypeInv, ToldTypes
<1>5. QED
  BY <1>1, <1>2, <1>3, <1>4 DEF TypeInv

(* A tuning: the LO is the frequency, which is above the intermediate one,  *)
(* plus or minus that.                                                      *)
LEMMA TuneTypes == ASSUME TypeInv, NEW freq \in Freqs, TUNERTUNE(freq) PROVE TypeInv'
<1> DEFINE f == IF freq = 0 THEN rf_freq ELSE freq
<1>1. f \in Nat /\ int_freq \in Nat /\ f > int_freq
  BY TunerAssumption DEF TUNERTUNE, TypeInv, DriverTypes
<1>2. arg' = f /\ rf_freq' = f /\ lo' = lo_freq(f, int_freq, sideband)
  BY DEF TUNERTUNE
<1> HIDE DEF f
<1>3. lo' \in Nat
  BY <1>1, <1>2, SMT DEF lo_freq
<1>4. BusTypes' /\ CountTypes'
  BY DEF TUNERTUNE, Request, TypeInv, BusTypes, CountTypes, bus
<1>5. LocalTypes'
  BY <1>1, <1>2, <1>3 DEF TUNERTUNE, LocalTypes
<1>6. DriverTypes'
  BY <1>1, <1>2 DEF TUNERTUNE, Request, TypeInv, DriverTypes
<1>7. ToldTypes'
  BY NotTunedType DEF TUNERTUNE, TypeInv, ToldTypes
<1>8. QED
  BY <1>4, <1>5, <1>6, <1>7 DEF TypeInv

(* The arguments.                                                           *)
LEMMA GainTypes == ASSUME TypeInv, NEW g \in Gains, SetAllGains(g) PROVE TypeInv'
<1>1. g \in Nat
  BY TunerAssumption
<1>2. BusTypes' /\ CountTypes' /\ DriverTypes'
  BY DEF SetAllGains, Request, TypeInv, BusTypes, CountTypes, DriverTypes, bus, driver
<1>3. LocalTypes' /\ ToldTypes'
  BY <1>1 DEF SetAllGains, TypeInv, LocalTypes, ToldTypes, None
<1>4. QED
  BY <1>2, <1>3 DEF TypeInv

(* The VGA gain.                                                            *)
LEMMA VgaTypes == ASSUME TypeInv, NEW g \in VgaGains, SetVga(g) PROVE TypeInv'
<1>1. g \in Nat /\ g \in Int
  BY TunerAssumption
<1>2. PICK ok \in BOOLEAN :
        /\ IF m_vgagain_index = g THEN ok /\ UNCHANGED bus ELSE Write({12}, [vga |-> g], ok)
        /\ m_vgagain_index' = IF ok THEN g ELSE m_vgagain_index
        /\ vgaSet' = IF ok THEN g ELSE None
        /\ vgaSent' = (vgaSent \/ (ok /\ m_vgagain_index # g))
  BY DEF SetVga
<1>3. BusTypes' /\ faults' \in Nat
  <2>1. CASE UNCHANGED bus
    BY <2>1 DEF bus, TypeInv, BusTypes, CountTypes
  <2>2. CASE Write({12}, [vga |-> g], ok)
    <3> DEFINE v == [vga |-> g]
    <3>1. \A f \in Field \cap DOMAIN v : v[f] \in Int
      BY <1>1
    <3>2. {12} \in SUBSET Registers
      BY RegistersThere
    <3>3. Write({12}, v, ok)
      BY <2>2
    <3> HIDE DEF v
    <3>4. BusTypes'
      BY <3>1, <3>2, <3>3, WriteTypes DEF TypeInv
    <3>5. faults' \in Nat
      BY <3>3, StageFails DEF FaultsType, TypeInv, CountTypes
    <3>6. QED
      BY <3>4, <3>5
  <2>3. QED
    BY <1>2, <2>1, <2>2
<1>4. m_vgagain_index' \in Nat /\ vgaSet' \in Int /\ vgaSent' \in BOOLEAN
  <2>1. m_vgagain_index' \in Nat /\ vgaSet' \in Int
    BY <1>1, <1>2 DEF TypeInv, DriverTypes, None
  <2>2. vgaSent' \in BOOLEAN
    BY <1>2
  <2>3. QED
    BY <2>1, <2>2
<1>5. /\ UNCHANGED <<model, cfg, int_freq, rf_freq, sideband, input, last_vco_curr, has_lock,
                     locals, tuned, gained, initOk>>
      /\ requests' \in Nat
  BY DEF SetVga, Request, TypeInv, CountTypes
<1>6. QED
  BY <1>3, <1>4, <1>5 DEF TypeInv, LocalTypes, DriverTypes, ToldTypes, CountTypes, locals

(* The sideband.                                                            *)
LEMMA SidebandTypes == ASSUME TypeInv, NEW s \in 0 .. 1, SetSideband(s) PROVE TypeInv'
<1> DEFINE v == [sideband |-> s]
<1>1. PICK ok \in BOOLEAN : Write({7}, v, ok)
  BY DEF SetSideband
<1>2. \A f \in Field \cap DOMAIN v : v[f] \in Int
  OBVIOUS
<1>3. {7} \in SUBSET Registers
  BY RegistersThere
<1> HIDE DEF v
<1>4. BusTypes'
  BY <1>1, <1>2, <1>3, WriteTypes DEF TypeInv
<1>5. faults' \in Nat
  BY <1>1, StageFails DEF FaultsType, TypeInv, CountTypes
<1>6. /\ UNCHANGED <<model, cfg, int_freq, rf_freq, input, last_vco_curr, has_lock,
                     m_vgagain_index, locals, told>>
      /\ sideband' = s /\ requests' \in Nat
  BY DEF SetSideband, Request, TypeInv, CountTypes
<1>7. QED
  BY <1>4, <1>5, <1>6 DEF TypeInv, LocalTypes, DriverTypes, ToldTypes, CountTypes, locals, told

(* The types hold at first ...                                              *)
LEMMA TypesFirst == Init => TypeInv
<1> SUFFICES ASSUME Init PROVE TypeInv
  OBVIOUS
<1>1. BusTypes
  BY DEF Init, BusTypes, Untracked
<1>2. LocalTypes /\ CountTypes
  BY DEF Init, LocalTypes, CountTypes
<1>3. DriverTypes
  <2>1. model \in Chips /\ cfg = FALSE /\ has_lock = FALSE /\ int_freq = 0 /\ rf_freq = 0
    BY DEF Init
  <2>2. sideband = 0 /\ input = 0 /\ last_vco_curr = 0 /\ m_vgagain_index = 255
    BY DEF Init
  <2>3. QED
    <3>1. cfg \in BOOLEAN /\ has_lock \in BOOLEAN
      BY <2>1, Zenon
    <3>2. QED
      BY <2>1, <2>2, <3>1 DEF DriverTypes
<1>4. ToldTypes
  BY NotTunedType DEF Init, ToldTypes
<1>5. QED
  BY <1>1, <1>2, <1>3, <1>4 DEF TypeInv

(* ... and every step keeps them.                                           *)
LEMMA TypesKept == TypeInv /\ [Next]_vars => TypeInv'
<1> SUFFICES ASSUME TypeInv, [Next]_vars PROVE TypeInv'
  OBVIOUS
<1>1. CASE Serve
  <2>1. BusTypes'
    BY <1>1, ServeBus DEF TypeInv
  <2>2. OwnTypes'
    BY <1>1, ServeOwn DEF TypeInv, OwnTypes
  <2>3. CountTypes'
    BY <1>1, ServeFails DEF Serve, TypeInv, CountTypes, FaultsType
  <2>4. QED
    BY <2>1, <2>2, <2>3 DEF TypeInv, OwnTypes
<1>2. CASE UNCHANGED vars
  BY <1>2 DEF vars, bus, driver, locals, told, TypeInv, BusTypes, LocalTypes, DriverTypes,
     ToldTypes, CountTypes
<1>3. QED
  BY <1>1, <1>2, InitTypes, StandbyTypes, TuneTypes, GainTypes, VgaTypes, SidebandTypes DEF Next

(* The variables have their types: in particular every value sent to a      *)
(* register is a number, a LO always having a range and dividers.           *)
THEOREM TypeCorrect == Spec => []TypeOK
<1>1. TypeInv /\ IInv => TypeOK
  <2>1. IInv => pc \in {"idle"} \cup InitStages \cup PllStages \cup OtherStages
    BY DEF IInv, FlowInv, Stages, CalStages, BandStages, MuxStages, GainStages, StandbyStages,
       InitStages, OtherStages
  <2>2. QED
    BY <2>1 DEF TypeInv, BusTypes, LocalTypes, DriverTypes, ToldTypes, CountTypes, TypeOK
<1>2. QED
  BY <1>1, TypesFirst, TypesKept, Invariance, PTL DEF Spec

-----------------------------------------------------------------------------
(* How long a request takes                                                 *)

(* The stages a request has before it at most, without those it may pass a  *)
(* second time.                                                             *)
StagesLeft(s) ==
  CASE s \in {"bwExt", "input", "mixer", "sb19"}     -> 1
    [] s \in {"bwFilter", "lna", "sb17"}             -> 2
    [] s \in {"bandwidth", "gainStatus", "sb11"}     -> 3
    [] s \in {"sysAgc2", "mixMode", "sb0f"}          -> 4
    [] s \in {"sysTop", "lnaMode", "sb0c"}           -> 5
    [] s \in {"sysAgc1", "sb08"}                     -> 6
    [] s \in {"sysDet", "sb07"}                      -> 7
    [] s \in {"sysInput", "sb05"}                    -> 8
    [] s \in {"filter", "sb06"}                      -> 9
    [] s = "calStatus" -> 10 [] s = "caliOff"  -> 11 [] s = "untrigger" -> 12
    [] s = "trigger"   -> 13 [] s = "locked"   -> 14 [] s = "relock"    -> 15
    [] s = "vcoMax"    -> 16 [] s = "lock"     -> 17 [] s = "sdmLo"     -> 18
    [] s = "sdmHi"     -> 19 [] s = "frac"     -> 20 [] s = "nint"      -> 21
    [] s = "div"       -> 22 [] s = "status"   -> 23 [] s = "vcoMin"    -> 24
    [] s = "autotune"  -> 25 [] s = "refdiv"   -> 26
    [] s \in {"caliOn", "xtalCap"}                   -> 27
    [] s \in {"lnaTop", "band"}                      -> 28
    [] s = "mux"       -> 29 [] s = "openD"    -> 30 [] s = "harmonic"  -> 31
    [] OTHER -> 0
(* A calibration may be begun once more, and a tuning over the harmonic.    *)
Again == IF pc \in CalStages \cup PllStages /\ round = 1 THEN 28
         ELSE IF pc \in MuxStages \cup PllStages /\ round = 0 /\ nth_harm = 0 THEN 31
         ELSE 0
TransfersLeft == StagesLeft(pc) + Again

(* The stages one by one.                                                   *)
LEMMA Lefts ==
  /\ StagesLeft("idle") = 0 /\ StagesLeft("bwExt") = 1 /\ StagesLeft("input") = 1
  /\ StagesLeft("mixer") = 1 /\ StagesLeft("sb19") = 1 /\ StagesLeft("bwFilter") = 2
  /\ StagesLeft("lna") = 2 /\ StagesLeft("sb17") = 2 /\ StagesLeft("bandwidth") = 3
  /\ StagesLeft("gainStatus") = 3 /\ StagesLeft("sb11") = 3 /\ StagesLeft("sysAgc2") = 4
  /\ StagesLeft("mixMode") = 4 /\ StagesLeft("sb0f") = 4 /\ StagesLeft("sysTop") = 5
  /\ StagesLeft("lnaMode") = 5 /\ StagesLeft("sb0c") = 5 /\ StagesLeft("sysAgc1") = 6
  /\ StagesLeft("sb08") = 6 /\ StagesLeft("sysDet") = 7 /\ StagesLeft("sb07") = 7
  /\ StagesLeft("sysInput") = 8 /\ StagesLeft("sb05") = 8 /\ StagesLeft("filter") = 9
  /\ StagesLeft("sb06") = 9 /\ StagesLeft("calStatus") = 10 /\ StagesLeft("caliOff") = 11
  /\ StagesLeft("untrigger") = 12 /\ StagesLeft("trigger") = 13 /\ StagesLeft("locked") = 14
  /\ StagesLeft("relock") = 15 /\ StagesLeft("vcoMax") = 16 /\ StagesLeft("lock") = 17
  /\ StagesLeft("sdmLo") = 18 /\ StagesLeft("sdmHi") = 19 /\ StagesLeft("frac") = 20
  /\ StagesLeft("nint") = 21 /\ StagesLeft("div") = 22 /\ StagesLeft("status") = 23
  /\ StagesLeft("vcoMin") = 24 /\ StagesLeft("autotune") = 25 /\ StagesLeft("refdiv") = 26
  /\ StagesLeft("caliOn") = 27 /\ StagesLeft("xtalCap") = 27 /\ StagesLeft("lnaTop") = 28
  /\ StagesLeft("band") = 28 /\ StagesLeft("mux") = 29 /\ StagesLeft("openD") = 30
  /\ StagesLeft("harmonic") = 31
  BY SMTT(60) DEF StagesLeft

(* A request has 30 at most, but for the one about to be served again.      *)
LEMMA LeftRange ==
  /\ \A s \in Stages \cup {"idle"} : StagesLeft(s) \in 0 .. 31 /\ (StagesLeft(s) = 0 <=> s = "idle")
  /\ \A s \in PllStages : StagesLeft(s) \in 14 .. 26
  /\ \A s \in MuxStages : StagesLeft(s) \in 27 .. 30
  /\ \A s \in CalStages : StagesLeft(s) \in 4 .. 28
<1> USE Lefts
<1>1. \A s \in PllStages : StagesLeft(s) \in 14 .. 26
  BY DEF PllStages
<1>2. \A s \in MuxStages : StagesLeft(s) \in 27 .. 30
  BY DEF MuxStages
<1>3. \A s \in CalStages : StagesLeft(s) \in 4 .. 28
  BY DEF CalStages
<1>4. \A s \in BandStages \cup GainStages \cup StandbyStages : StagesLeft(s) \in 1 .. 9
  BY DEF BandStages, GainStages, StandbyStages
<1>5. StagesLeft("idle") = 0 /\ StagesLeft("input") = 1 /\ StagesLeft("harmonic") = 31
  OBVIOUS
<1>6. \A s \in Stages : StagesLeft(s) \in 1 .. 31
  BY <1>1, <1>2, <1>3, <1>4, <1>5 DEF Stages
<1>7. "idle" \notin Stages
  BY DEF Stages, CalStages, BandStages, MuxStages, PllStages, GainStages, StandbyStages
<1>8. QED
  BY <1>1, <1>2, <1>3, <1>5, <1>6, <1>7

(* A step to a later stage.                                                 *)
Falls == StagesLeft(pc') < StagesLeft(pc)

(* The init's stages follow each other but for a second calibration.        *)
LEMMA InitFalls == ASSUME InitStep PROVE Falls \/ (CalStatus /\ pc' = "caliOn")
<1> USE StageGoes, Lefts DEF Goes, Falls
<1>1. CASE LnaTop
  BY <1>1 DEF LnaTop
<1>2. CASE CaliOn
  BY <1>2 DEF CaliOn
<1>3. CASE Trigger
  BY <1>3 DEF Trigger
<1>4. CASE CaliOff
  BY <1>4 DEF CaliOff
<1>5. CASE CalStatus
  BY <1>5 DEF CalStatus
<1>6. CASE Filter
  BY <1>6 DEF Filter
<1>7. CASE SysInput
  BY <1>7 DEF SysInput
<1>8. CASE SysRest
  <2>1. SysAgc("sysAgc1", "sysTop") => pc = "sysAgc1" /\ pc' \in {"sysTop", "bandwidth"}
    BY DEF SysAgc
  <2>2. \/ OtherStage("sysDet", "sysAgc1", "bandwidth") \/ SysAgc("sysAgc1", "sysTop")
        \/ OtherStage("sysTop", "sysAgc2", "bandwidth")
    BY <1>8 DEF SysRest
  <2>3. QED
    BY <2>1, <2>2
<1>9. CASE SysLast
  BY <1>9 DEF SysLast
<1>10. CASE Bandwidth
  BY <1>10 DEF Bandwidth
<1>11. QED
  BY <1>1, <1>2, <1>3, <1>4, <1>5, <1>6, <1>7, <1>8, <1>9, <1>10 DEF InitStep

(* So do a tuning's, but for the way out of the PLL.                        *)
LEMMA TuneFalls ==
  ASSUME TuneStep
  PROVE  Falls \/ (pc \in PllStages /\ pc' = PllFails)
<1> USE StageGoes, Lefts DEF Goes, Falls
<1>1. CASE SetMux
  BY <1>1 DEF SetMux, MuxFails
<1>2. CASE Harmonic
  BY <1>2 DEF Harmonic
<1> USE DEF PllStages
<1>3. CASE PllStart
  <2>1. \/ pc = "refdiv" /\ pc' \in {"autotune", PllFails}
        \/ Stage("autotune", [autotune |-> 128], "vcoMin", PllFails)
    BY <1>3 DEF PllStart
  <2>2. QED
    BY <2>1
<1>4. CASE VcoMin
  BY <1>4 DEF VcoMin
<1>5. CASE ReadStatus
  BY <1>5 DEF ReadStatus
<1>6. CASE SetDivider
  BY <1>6 DEF SetDivider
<1>7. CASE SetPll
  BY <1>7 DEF SetPll
<1>8. CASE ReadLock
  <2>1. PICK locked \in BOOLEAN :
          \/ OtherStage("lock", IF locked THEN "locked" ELSE "vcoMax", PllFails)
          \/ OtherStage("relock", IF locked THEN "locked" ELSE PllFails, PllFails)
    BY <1>8 DEF ReadLock
  <2>2. \/ pc = "lock" /\ pc' \in {"locked", "vcoMax", PllFails}
        \/ pc = "relock" /\ pc' \in {"locked", PllFails}
    BY <2>1
  <2>3. QED
    BY <2>2
<1>9. CASE VcoMax
  BY <1>9 DEF VcoMax
<1>10. CASE Locked
  BY <1>10 DEF Locked
<1>11. CASE SelectInput
  BY <1>11 DEF SelectInput
<1>12. QED
  BY <1>1, <1>2, <1>3, <1>4, <1>5, <1>6, <1>7, <1>8, <1>9, <1>10, <1>11 DEF TuneStep

(* And those of the gain and of the standby.                                *)
LEMMA OthersFall == ASSUME GainModes \/ GainMixer \/ StandbyStep PROVE Falls
<1> USE StageGoes, Lefts DEF Goes, Falls
<1>1. CASE GainModes
  BY <1>1 DEF GainModes
<1>2. CASE GainMixer
  BY <1>2 DEF GainMixer
<1>3. CASE StandbyStep
  BY <1>3 DEF StandbyStep
<1>4. QED
  BY <1>1, <1>2, <1>3

(* Where the loops stand is changed by what goes round them only.           *)
LEMMA LoopsKept ==
  ASSUME Serve
  PROVE  CalStatus \/ Harmonic \/ UNCHANGED <<round, nth_harm>>
<1>1. CASE LnaTop \/ CaliOn \/ Trigger \/ CaliOff \/ Filter
  BY <1>1 DEF LnaTop, CaliOn, Trigger, CaliOff, Filter, locals
<1>2. CASE SysInput \/ SysRest \/ SysLast \/ Bandwidth
  BY <1>2 DEF SysInput, SysRest, SysLast, Bandwidth, locals
<1>3. CASE TuneStep
  BY <1>3, TuneFrame
<1>4. CASE GainModes \/ GainMixer \/ StandbyStep
  BY <1>4 DEF GainModes, GainMixer, StandbyStep, locals
<1>5. QED
  BY <1>1, <1>2, <1>3, <1>4 DEF Serve, InitStep

(* A pass more is not gained by going on.                                   *)
LEMMA AgainKept ==
  ASSUME FlowInv, Serve, ~CalStatus, ~Harmonic
  PROVE  Again' \in {Again, 0}
<1>1. UNCHANGED <<round, nth_harm>>
  BY LoopsKept
<1>2. ASSUME pc' \in CalStages \cup PllStages, round = 1 PROVE pc \in CalStages \cup PllStages
  <2>1. CASE InitStep
    BY <1>2, <2>1, Places, Targets DEF InitStep, CalStages, PllStages, BandStages
  <2>2. CASE TuneStep
    <3>1. pc \notin MuxStages \cup {"input"}
      BY <1>2 DEF FlowInv
    <3>2. QED
      BY <2>2, <3>1, Places DEF TuneStep, PllStages
  <2>3. CASE GainModes \/ GainMixer \/ StandbyStep
    BY <1>2, <2>3, Targets DEF CalStages, PllStages, GainStages, StandbyStages
  <2>4. QED
    BY <2>1, <2>2, <2>3 DEF Serve
<1>3. ASSUME pc' \in MuxStages \cup PllStages, round = 0 PROVE pc \in MuxStages \cup PllStages
  <2>1. CASE InitStep
    <3>1. pc \notin CalStages
      BY <1>3 DEF FlowInv
    <3>2. Bandwidth
      BY <2>1, <3>1, Places DEF InitStep, CalStages
    <3>3. QED
      BY <1>3, <3>2, Targets DEF MuxStages, PllStages
  <2>2. CASE TuneStep
    BY <1>3, <2>2, Places, Targets DEF TuneStep, PllStages, MuxStages
  <2>3. CASE GainModes \/ GainMixer \/ StandbyStep
    BY <1>3, <2>3, Targets DEF MuxStages, PllStages, GainStages, StandbyStages
  <2>4. QED
    BY <2>1, <2>2, <2>3 DEF Serve
<1>4. QED
  BY <1>1, <1>2, <1>3 DEF Again

(* Every transfer leaves fewer.                                             *)
LEMMA Descent ==
  ASSUME FlowInv, LocalTypes, Serve
  PROVE  TransfersLeft' < TransfersLeft
<1> DEFINE a == StagesLeft(pc)
           b == StagesLeft(pc')
<1>1. a \in 0 .. 31 /\ b \in 0 .. 31
  <2>1. FlowInv'
    BY FlowStep DEF Next
  <2>2. QED
    BY <2>1, LeftRange DEF FlowInv
<1>2. Again \in {0, 28, 31} /\ Again' \in {0, 28, 31}
  BY DEF Again
<1>3. TransfersLeft = a + Again /\ TransfersLeft' = b + Again'
  BY DEF TransfersLeft
<1>4. CASE CalStatus /\ pc' = "caliOn"
  <2>1. pc = "calStatus" /\ round # 0
    BY <1>4, Places DEF FlowInv, CalStages
  <2>2. round = 1 /\ round' = 2
    <3>1. round # 2
      BY <1>4, StageGoes DEF CalStatus
    <3>2. round \in 0 .. 2 /\ round' = 2
      BY <1>4 DEF CalStatus, LocalTypes
    <3>3. QED
      BY <2>1, <3>1, <3>2
  <2>3. Again = 28 /\ Again' = 0
    BY <1>4, <2>1, <2>2 DEF Again, CalStages
  <2>4. a = 10 /\ b = 27
    BY <1>4, <2>1, Lefts
  <2>5. QED
    BY <1>3, <2>3, <2>4
<1>5. CASE CalStatus /\ pc' # "caliOn"
  <2>1. pc = "calStatus" /\ round' = round /\ pc' \in {"filter", "bandwidth"}
    BY <1>5, Places, Targets DEF CalStatus
  <2>2. a = 10 /\ b \in {9, 3}
    BY <2>1, Lefts
  <2>3. Again' \in {Again, 0}
    BY <2>1 DEF Again, CalStages, PllStages, MuxStages
  <2>4. QED
    BY <1>2, <1>3, <2>2, <2>3
<1>6. CASE Harmonic
  <2>1. pc = "harmonic" /\ pc' = "openD" /\ nth_harm' = 1 /\ round' = round /\ round = 0
    BY <1>6 DEF Harmonic, Goes, FlowInv
  <2>2. Again = 0 /\ Again' = 0
    BY <2>1 DEF Again, CalStages, PllStages, MuxStages
  <2>3. a = 31 /\ b = 30
    BY <2>1, Lefts
  <2>4. QED
    BY <1>3, <2>2, <2>3
<1>7. CASE ~CalStatus /\ ~Harmonic
  <2>1. Again' \in {Again, 0}
    BY <1>7, AgainKept
  <2>2. Falls \/ (pc \in PllStages /\ pc' = PllFails)
    BY <1>7, InitFalls, TuneFalls, OthersFall DEF Serve
  <2>3. CASE Falls
    BY <1>1, <1>2, <1>3, <2>1, <2>3 DEF Falls
  <2>4. CASE pc \in PllStages /\ pc' = PllFails
    <3>1. a \in 14 .. 26
      BY <2>4, LeftRange
    <3>2. \/ pc' = "bandwidth" \/ pc' = "idle"
          \/ pc' = "harmonic" /\ round = 0 /\ nth_harm = 0
      BY <2>4 DEF PllFails
    <3>3. CASE pc' \in {"bandwidth", "idle"}
      <4>1. b \in {3, 0}
        BY <3>3, Lefts
      <4>2. QED
        BY <1>2, <1>3, <2>1, <3>1, <4>1
    <3>4. CASE pc' = "harmonic" /\ round = 0 /\ nth_harm = 0
      <4>1. b = 31 /\ Again = 31 /\ Again' = 0
        BY <2>4, <3>4, Lefts DEF Again, CalStages, PllStages, MuxStages
      <4>2. QED
        BY <1>3, <3>1, <4>1
    <3>5. QED
      BY <3>2, <3>3, <3>4
  <2>5. QED
    BY <2>2, <2>3, <2>4
<1>8. QED
  BY <1>4, <1>5, <1>6, <1>7

(* At any time.                                                             *)
LEMMA LeftBounds ==
  ASSUME FlowInv
  PROVE  TransfersLeft \in 0 .. 61 /\ (TransfersLeft = 0 <=> pc = "idle")
<1>1. /\ StagesLeft(pc) \in 0 .. 31 /\ (StagesLeft(pc) = 0 <=> pc = "idle")
      /\ Again \in {0, 28, 31}
  BY LeftRange DEF FlowInv, Again
<1>2. pc = "idle" => Again = 0
  BY DEF Again, CalStages, PllStages, MuxStages
<1>3. Again # 0 => StagesLeft(pc) <= 30
  BY LeftRange DEF Again
<1>4. TransfersLeft = StagesLeft(pc) + Again
  BY DEF TransfersLeft
<1>5. QED
  BY <1>1, <1>2, <1>3, <1>4

(* The requests are short: no matter what the chip answers and which        *)
(* transfers fail, one is over after 61 steps at most, each of which leaves *)
(* fewer.  That Serve goes on is the fairness RequestsEnd assumes besides.  *)
THEOREM RequestsShort ==
  Spec => /\ [](TransfersLeft \in 0 .. 61 /\ (TransfersLeft = 0 <=> pc = "idle"))
          /\ [][Serve => TransfersLeft' < TransfersLeft]_vars
<1>1. IInv => TransfersLeft \in 0 .. 61 /\ (TransfersLeft = 0 <=> pc = "idle")
  BY LeftBounds DEF IInv
<1>2. IInv /\ TypeInv /\ [Next]_vars => [Serve => TransfersLeft' < TransfersLeft]_vars
  BY Descent DEF IInv, TypeInv
<1>3. Spec => []TypeInv
  BY TypesFirst, TypesKept, PTL DEF Spec
<1>4. QED
  BY <1>1, <1>2, <1>3, Invariance, PTL DEF Spec

-----------------------------------------------------------------------------
(* The PLL makes the LO                                                     *)

(* The LOs the dividers reach, in kHz.                                      *)
ReachedLo(l) == l \in Nat /\ 27657 <= l /\ l < vco_min

(* One divider brings the VCO into its range.                               *)
LEMMA DividerThere ==
  ASSUME NEW l, ReachedLo(l)
  PROVE  mix_div(l) \in MixDivs /\ InVcoRange(l, mix_div(l))
<1>1. l \in Nat /\ 27657 <= l /\ l < 1770000
  BY DEF ReachedLo, vco_min
<1>2. \E m \in MixDivs : InVcoRange(l, m)
  <2>1. \/ 1770000 <= l * 2  /\ l * 2  < 3540000
        \/ 1770000 <= l * 4  /\ l * 4  < 3540000
        \/ 1770000 <= l * 8  /\ l * 8  < 3540000
        \/ 1770000 <= l * 16 /\ l * 16 < 3540000
        \/ 1770000 <= l * 32 /\ l * 32 < 3540000
        \/ 1770000 <= l * 64 /\ l * 64 < 3540000
    <3>1. CASE l >= 885000
      BY <1>1, <3>1, SMT
    <3>2. CASE 442500 <= l /\ l < 885000
      BY <1>1, <3>2, SMT
    <3>3. CASE 221250 <= l /\ l < 442500
      BY <1>1, <3>3, SMT
    <3>4. CASE 110625 <= l /\ l < 221250
      BY <1>1, <3>4, SMT
    <3>5. CASE 55313 <= l /\ l < 110625
      BY <1>1, <3>5, SMT
    <3>6. CASE l < 55313
      BY <1>1, <3>6, SMT
    <3>7. QED
      BY <1>1, <3>1, <3>2, <3>3, <3>4, <3>5, <3>6, SMT
  <2>2. vco_min = 1770000 /\ vco_max = 3540000
    BY DEF vco_min, vco_max
  <2>3. QED
    BY <2>1, <2>2 DEF MixDivs, InVcoRange
<1>3. QED
  BY <1>2 DEF mix_div

(* What is written as nint and sdm is that frequency again.                 *)
LEMMA ReachedIsMade ==
  ASSUME NEW c, NEW l, ReachedLo(l)
  PROVE  /\ ValidNint(c, l)
         /\ nint(c, l) * (2 * xtal(c)) + sdm(c, l) = l * mix_div(l)
         /\ ni(c, l) \in 3 .. 24 /\ si(c, l) \in 0 .. 3
<1> DEFINE k == l * mix_div(l)
           q == Quotient(c, l)
<1>1. k \in Nat /\ 1770000 <= k /\ k < 3540000
  <2>1. mix_div(l) \in Nat /\ l \in Nat
    BY DividerThere DEF MixDivs, ReachedLo
  <2>2. k \in Nat
    BY <2>1, SMT
  <2>3. QED
    BY <2>2, DividerThere DEF InVcoRange, vco_min, vco_max
<1>2. /\ q = k \div (2 * xtal(c)) /\ sdm(c, l) = k % (2 * xtal(c))
      /\ nint(c, l) = q % 256
  BY DEF Quotient, sdm, nint
<1>3. \/ xtal(c) = 32000 /\ vco_power_ref(c) = 2
      \/ xtal(c) = 16000 /\ vco_power_ref(c) = 1
  BY DEF xtal, vco_power_ref
<1> HIDE DEF k, q
<1>4. /\ q \in 27 .. 110 /\ q * (2 * xtal(c)) + sdm(c, l) = k
      /\ q <= (128 \div vco_power_ref(c)) - 1
  <2>1. CASE xtal(c) = 32000 /\ vco_power_ref(c) = 2
    <3>1. q = k \div 64000 /\ sdm(c, l) = k % 64000
      BY <1>2, <2>1
    <3>2. q \in 27 .. 55 /\ q * 64000 + sdm(c, l) = k
      BY <1>1, <3>1, SMT
    <3>3. 128 \div 2 = 64
      BY SMT
    <3>4. QED
      BY <2>1, <3>2, <3>3
  <2>2. CASE xtal(c) = 16000 /\ vco_power_ref(c) = 1
    <3>1. q = k \div 32000 /\ sdm(c, l) = k % 32000
      BY <1>2, <2>2
    <3>2. q \in 55 .. 110 /\ q * 32000 + sdm(c, l) = k
      BY <1>1, <3>1, SMT
    <3>3. 128 \div 1 = 128
      BY SMT
    <3>4. QED
      BY <2>2, <3>2, <3>3
  <2>3. QED
    BY <1>3, <2>1, <2>2
<1>5. nint(c, l) = q
  BY <1>2, <1>4, SMT
<1>6. ni(c, l) \in 3 .. 24 /\ si(c, l) \in 0 .. 3
  <2>1. ni(c, l) = (q - 13) \div 4 /\ si(c, l) = q - 4 * ni(c, l) - 13
    BY <1>5 DEF ni, si
  <2>2. QED
    BY <1>4, <2>1, SMT
<1>7. QED
  BY <1>4, <1>5, <1>6 DEF ValidNint, k

(* From the lower end of the VCO's range up no divider fits: 128 is left,   *)
(* and the quotient is refused until, at 1792 MHz, it comes round.          *)
LEMMA BeyondRefused ==
  ASSUME NEW c, NEW l \in Nat, vco_min <= l, l < 1792000
  PROVE  ~ValidNint(c, l)
<1>1. l \in Nat /\ 1770000 <= l /\ l < 1792000
  BY DEF vco_min
<1>2. mix_div(l) = 128
  <2>1. l * 2 >= 3540000 /\ l * 4 >= 3540000 /\ l * 8 >= 3540000 /\ l * 16 >= 3540000
        /\ l * 32 >= 3540000 /\ l * 64 >= 3540000
    BY <1>1, SMT
  <2>2. \A m \in MixDivs : ~InVcoRange(l, m)
    BY <1>1, <2>1 DEF MixDivs, InVcoRange, vco_min, vco_max
  <2>3. QED
    BY <2>2 DEF mix_div
<1>3. nint(c, l) = ((l * 128) \div (2 * xtal(c))) % 256
  BY <1>2 DEF nint, Quotient
<1>4. CASE xtal(c) = 32000 /\ vco_power_ref(c) = 2
  <2>1. nint(c, l) = ((l * 128) \div 64000) % 256 /\ 128 \div 2 = 64
    BY <1>3, <1>4, SMT
  <2>2. nint(c, l) > 63
    BY <1>1, <2>1, SMT
  <2>3. QED
    BY <1>4, <2>1, <2>2 DEF ValidNint
<1>5. CASE xtal(c) = 16000 /\ vco_power_ref(c) = 1
  <2>1. nint(c, l) = ((l * 128) \div 32000) % 256 /\ 128 \div 1 = 128
    BY <1>3, <1>5, SMT
  <2>2. nint(c, l) > 127
    BY <1>1, <2>1, SMT
  <2>3. QED
    BY <1>5, <2>1, <2>2 DEF ValidNint
<1>6. QED
  BY <1>4, <1>5 DEF xtal, vco_power_ref

(* The stages of a tuning that come after the test of the quotient.         *)
Accepted == {"nint", "frac", "sdmHi", "sdmLo", "lock", "vcoMax", "relock", "locked", "input"}

(* The harmonic is used above 1760 MHz only, no stage after the test has a  *)
(* quotient that fails it, and what is reported tuned has passed it.        *)
HarmInv == /\ pc \in MuxStages \cup PllStages \cup {"input"} /\ round = 0 /\ nth_harm = 1 =>
                lo > 1760000
           /\ pc = "harmonic" => lo > 1760000
AcceptInv == pc \in Accepted /\ round = 0 => ValidNint(model, PllLo)
ToldLo == tuned.freq # None =>
            /\ ValidNint(model, tuned.pllLo)
            /\ tuned.pllLo = tuned.lo \/ (tuned.pllLo = tuned.lo \div 5 /\ tuned.lo > 1760000)
LoInv == HarmInv /\ AcceptInv /\ ToldLo

(* At first ...                                                             *)
LEMMA LoFirst == Init => LoInv
  BY DEF Init, LoInv, HarmInv, AcceptInv, ToldLo, NotTuned, Accepted, MuxStages, PllStages

(* Where the harmonic comes from.                                           *)
LEMMA HarmStep ==
  ASSUME FlowInv, TypeInv, HarmInv, [Next]_vars
  PROVE  HarmInv'
<1>1. CASE UNCHANGED vars
  BY <1>1 DEF vars, locals, HarmInv
<1>2. ASSUME NEW f \in Freqs, TUNERTUNE(f) PROVE HarmInv'
  <2> DEFINE g == IF f = 0 THEN rf_freq ELSE f
  <2>1. /\ pc' = "openD" /\ lo' = lo_freq(g, int_freq, sideband)
        /\ nth_harm' = IF f > 1770000 THEN 1 ELSE 0
    BY <1>2 DEF TUNERTUNE
  <2>2. f \in Nat /\ int_freq \in {0, 3570, 4570}
    BY TunerAssumption DEF TypeInv, DriverTypes
  <2>3. nth_harm' = 1 => g = f /\ f > 1770000
    BY <2>1, <2>2
  <2>4. nth_harm' = 1 => lo' > 1760000
    BY <2>1, <2>2, <2>3, SMT DEF lo_freq
  <2>5. QED
    BY <2>1, <2>4 DEF HarmInv
<1>3. CASE Serve
  <2>1. CASE TuneStep
    <3>1. lo' = lo /\ round' = round
      BY <1>3, <2>1, TuneFrame
    <3>2. CASE Harmonic
      <4>1. pc = "harmonic"
        BY <3>2 DEF Harmonic, Goes
      <4>2. lo' > 1760000
        BY <3>1, <4>1 DEF HarmInv
      <4>3. QED
        BY <4>2 DEF HarmInv
    <3>3. CASE ~Harmonic
      <4>1. nth_harm' = nth_harm
        BY <1>3, <2>1, <3>3, TuneFrame
      <4>2. pc \in MuxStages \cup PllStages \cup {"input"}
        BY <2>1, <3>3, Places DEF TuneStep, PllStages
      <4>3. pc' = "harmonic" => lo > 1760000
        <5>1. pc' = "harmonic" => Falls \/ pc' = PllFails
          BY <2>1, TuneFalls
        <5>2. pc' = "harmonic" => ~Falls
          BY <4>2, LeftRange, Lefts DEF Falls, Stages
        <5>3. PllFails = "harmonic" => lo > 1760000
          BY DEF PllFails
        <5>4. QED
          BY <5>1, <5>2, <5>3
      <4>4. QED
        BY <3>1, <4>1, <4>2, <4>3 DEF HarmInv
    <3>4. QED
      BY <3>2, <3>3
  <2>2. CASE InitStep
    <3>1. CASE pc \in CalStages
      <4>1. round # 0 /\ round' # 0
        BY <2>2, <3>1, LoopsKept, <1>3 DEF FlowInv, CalStatus, Harmonic, CalStages, Goes
      <4>2. pc' # "harmonic"
        BY <2>2, Targets DEF InitStep
      <4>3. QED
        BY <4>1, <4>2 DEF HarmInv
    <3>2. CASE pc \notin CalStages
      <4>1. Bandwidth
        BY <2>2, <3>2, Places DEF InitStep, CalStages
      <4>2. QED
        BY <4>1, Targets DEF HarmInv, MuxStages, PllStages
    <3>3. QED
      BY <3>1, <3>2
  <2>3. CASE GainModes \/ GainMixer \/ StandbyStep
    BY <2>3, Targets DEF HarmInv, MuxStages, PllStages, GainStages, StandbyStages
  <2>4. QED
    BY <1>3, <2>1, <2>2, <2>3 DEF Serve
<1>4. CASE TUNERINIT \/ TUNERSTDBY \/ \E g \in Gains : SetAllGains(g)
  BY <1>4 DEF TUNERINIT, TUNERSTDBY, SetAllGains, HarmInv, MuxStages, PllStages
<1>5. CASE (\E g \in VgaGains : SetVga(g)) \/ \E s \in 0 .. 1 : SetSideband(s)
  <2>1. pc' = "idle"
    BY <1>5 DEF SetVga, SetSideband, Request
  <2>2. QED
    BY <2>1 DEF HarmInv, MuxStages, PllStages
<1>6. QED
  BY <1>1, <1>2, <1>3, <1>4, <1>5 DEF Next

(* The way into the stages after the test.                                  *)
LEMMA AcceptedFrom ==
  ASSUME FlowInv, Serve, pc' \in Accepted
  PROVE  /\ TuneStep /\ ~Harmonic
         /\ pc \in Accepted \/ (pc = "div" /\ ValidNint(model, PllLo))
<1> USE DEF Accepted
<1>1. ~InitStep
  BY Targets DEF InitStep
<1>2. ~GainModes /\ ~GainMixer /\ ~StandbyStep
  BY Targets DEF GainStages, StandbyStages
<1>3. TuneStep /\ ~Harmonic /\ ~SetMux /\ ~SelectInput /\ ~ReadStatus
  BY <1>1, <1>2, Targets DEF Serve, MuxStages
<1>4. CASE SetDivider
  <2>1. /\ pc = "div"
        /\ pc' \in {IF ValidNint(model, PllLo) THEN "nint" ELSE PllFails, PllFails}
    BY <1>4, StageGoes DEF SetDivider
  <2>2. PllFails \notin Accepted
    BY DEF PllFails
  <2>3. QED
    BY <1>3, <2>1, <2>2
<1>5. CASE PllStart \/ VcoMin
  <2>1. pc' \in {"autotune", "vcoMin", "status", PllFails}
    BY <1>5, StageGoes DEF PllStart, VcoMin, Goes
  <2>2. PllFails \notin Accepted
    BY DEF PllFails
  <2>3. QED
    BY <2>1, <2>2
<1>6. CASE SetPll \/ ReadLock \/ VcoMax \/ Locked
  BY <1>3, <1>6, Places
<1>7. QED
  BY <1>3, <1>4, <1>5, <1>6 DEF TuneStep

(* What is sent after the test has passed it.                               *)
LEMMA AcceptStep ==
  ASSUME FlowInv, AcceptInv, [Next]_vars
  PROVE  AcceptInv'
<1>1. CASE UNCHANGED vars
  BY <1>1 DEF vars, locals, AcceptInv, PllLo
<1>2. CASE Serve /\ pc' \in Accepted
  <2>1. UNCHANGED <<model, lo, round, nth_harm>>
    BY <1>2, AcceptedFrom, TuneFrame
  <2>2. pc \in Accepted \/ ValidNint(model, PllLo)
    BY <1>2, AcceptedFrom
  <2>3. PllLo' = PllLo
    BY <2>1 DEF PllLo
  <2>4. ValidNint(model, PllLo)' = ValidNint(model, PllLo)
    BY <2>1, <2>3
  <2>5. QED
    BY <2>1, <2>2, <2>4 DEF AcceptInv
<1>3. CASE ~Serve /\ ~UNCHANGED vars
  <2>1. pc' \in {"idle", "sb06", "openD", "lnaMode", "lnaTop"}
    BY <1>3, Requests, RequestIdle DEF TUNERINIT
  <2>2. QED
    BY <2>1 DEF AcceptInv, Accepted
<1>4. CASE pc' \notin Accepted
  BY <1>4 DEF AcceptInv
<1>5. QED
  BY <1>1, <1>2, <1>3, <1>4

(* So what is reported tuned has.                                           *)
LEMMA ToldLoStep ==
  ASSUME FlowInv, TypeInv, LoInv, [Next]_vars
  PROVE  ToldLo'
<1>1. CASE TUNERINIT \/ TUNERSTDBY
  BY <1>1 DEF TUNERINIT, TUNERSTDBY, ToldLo, NotTuned
<1>2. CASE UNCHANGED vars
  <2>1. tuned' = tuned /\ model' = model
    BY <1>2 DEF vars, told, driver
  <2>2. QED
    BY <2>1 DEF LoInv, ToldLo
<1>3. CASE Serve /\ SelectInput
  <2>1. pc = "input" /\ round = 0 /\ tuned = NotTuned
    BY <1>3, Places DEF FlowInv, GainStages
  <2>2. tuned' \in {TunedNow, NotTuned} /\ model' = model
    BY <1>3, <2>1 DEF SelectInput, Serve
  <2>3. ValidNint(model, PllLo)
    BY <2>1 DEF LoInv, AcceptInv, Accepted
  <2>4. PllLo = lo \/ (PllLo = lo \div 5 /\ lo > 1760000)
    BY <2>1 DEF LoInv, HarmInv, PllLo, HarmonicLo
  <2>5. TunedNow.pllLo = PllLo /\ TunedNow.lo = lo
    BY DEF TunedNow
  <2>6. CASE tuned' = TunedNow
    BY <2>2, <2>3, <2>4, <2>5, <2>6 DEF ToldLo
  <2>7. CASE tuned' = NotTuned
    BY <2>7 DEF ToldLo, NotTuned
  <2>8. QED
    BY <2>2, <2>6, <2>7
<1>4. CASE ~(TUNERINIT \/ TUNERSTDBY \/ UNCHANGED vars \/ (Serve /\ SelectInput))
  <2>1. tuned' \in {tuned, NotTuned} /\ model' = model
    BY <1>4, RequestTold, Requests, ServeDriver
  <2>2. CASE tuned' = NotTuned
    BY <2>2 DEF ToldLo, NotTuned
  <2>3. CASE tuned' = tuned
    BY <2>1, <2>3 DEF LoInv, ToldLo
  <2>4. QED
    BY <2>1, <2>2, <2>3
<1>5. QED
  BY <1>1, <1>2, <1>3, <1>4

(* The registers of the PLL make the frequency p.                           *)
Makes(p) == /\ InVcoRange(p, mix_div(p))
            /\ chip.nint * (2 * xtal(model)) + chip.sdmLo = p * mix_div(p)
ToldIsMade ==
  /\ tuned.freq # None
  /\ 27657 <= tuned.lo
  /\ tuned.lo < (IF tuned.pllLo = tuned.lo THEN 1792000 ELSE 5 * vco_min)
  => tuned.pllLo \in {tuned.lo, tuned.lo \div 5} /\ Makes(tuned.pllLo)

(* A tuning reported done from 27.657 MHz up has the VCO inside its range   *)
(* and the chip's quotient and fraction make exactly the LO asked for, or a *)
(* fifth of it above 1760 MHz: up to 1770 MHz a divider fits, from there to *)
(* 1792 MHz the driver refuses what it computed and takes the harmonic.     *)
(* From 1792 MHz this needs the harmonic to be used, which it is unless a   *)
(* request for the frequency 0 repeats such a frequency.                    *)
THEOREM LoMade == Spec => []ToldIsMade
<1>1. IInv /\ TypeInv /\ LoInv => ToldIsMade
  <2> SUFFICES ASSUME IInv, TypeInv, LoInv, tuned.freq # None, 27657 <= tuned.lo,
                      tuned.lo < (IF tuned.pllLo = tuned.lo THEN 1792000 ELSE 5 * vco_min)
               PROVE  tuned.pllLo \in {tuned.lo, tuned.lo \div 5} /\ Makes(tuned.pllLo)
    BY DEF ToldIsMade
  <2> DEFINE l == tuned.lo
             p == tuned.pllLo
  <2>1. l \in Int /\ ValidNint(model, p) /\ (p = l \/ (p = l \div 5 /\ l > 1760000))
    BY DEF TypeInv, ToldTypes, LoInv, ToldLo
  <2>2. chip.nint = nint(model, p) /\ chip.sdmLo = sdm(model, p)
    BY DEF IInv, DoneInv, Holds, TunedFields, MuxFields, Want
  <2>3. 27657 <= l /\ l < (IF p = l THEN 1792000 ELSE 5 * vco_min)
    OBVIOUS
  <2> HIDE DEF l, p
  <2>4. ReachedLo(p)
    <3>1. CASE p = l
      <4>1. l \in Nat /\ l < 1792000
        BY <2>1, <2>3, <3>1
      <4>2. l < vco_min
        <5>1. vco_min \in Int /\ (l < vco_min \/ vco_min <= l)
          BY <4>1 DEF vco_min
        <5>2. QED
          BY <2>1, <3>1, <4>1, <5>1, BeyondRefused
      <4>3. QED
        BY <2>3, <3>1, <4>1, <4>2 DEF ReachedLo
    <3>2. CASE p # l
      <4>1. p = l \div 5 /\ l > 1760000 /\ l < 8850000
        BY <2>1, <2>3, <3>2 DEF vco_min
      <4>2. p \in Nat /\ 27657 <= p /\ p < 1770000
        BY <2>1, <4>1, SMT
      <4>3. QED
        BY <4>2 DEF ReachedLo, vco_min
    <3>3. QED
      BY <3>1, <3>2
  <2>5. Makes(p)
    BY <2>2, <2>4, DividerThere, ReachedIsMade DEF Makes
  <2>6. QED
    BY <2>1, <2>5 DEF l, p
<1>2. FlowInv /\ TypeInv /\ LoInv /\ [Next]_vars => LoInv'
  BY HarmStep, AcceptStep, ToldLoStep DEF LoInv
<1>3. IInv => FlowInv
  BY DEF IInv
<1>4. Spec => []TypeInv
  BY TypesFirst, TypesKept, PTL DEF Spec
<1>5. Spec => []LoInv
  BY <1>2, <1>3, <1>4, LoFirst, Invariance, PTL DEF Spec
<1>6. QED
  BY <1>1, <1>4, <1>5, Invariance, PTL
=============================================================================
