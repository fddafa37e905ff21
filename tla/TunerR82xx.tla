----------------------------- MODULE TunerR82xx -----------------------------
(***************************************************************************)
(* src/firmware/driver/tuner_r82xx.c and the tuner requests of             *)
(* src/firmware/USBhandler.c: the driver of the R820T and R828D tuners.    *)
(*                                                                         *)
(* The driver keeps a shadow of the chip's registers: a field is changed   *)
(* in the shadow and the whole register is sent.  The shadow is stored     *)
(* before the transfer, so after a transfer that fails the two differ.     *)
(* Each transfer is a step of its own here, and may fail.                  *)
(***************************************************************************)
EXTENDS TunerPll

CONSTANTS
  Chips,           (* the tuners checked                                    *)
  Freqs,           (* bound: frequencies the host tunes to, in kHz          *)
  Gains, VgaGains, (* bound: gain indices the host asks for                 *)
  MaxRequests,     (* bound: requests from the host                         *)
  MaxFaults        (* bound: transfers that fail                            *)

ASSUME TunerAssumption == /\ Chips \subseteq {"R820T", "R828D"}
                          /\ Freqs \subseteq Nat
                          /\ Gains \subseteq 0 .. 28 /\ VgaGains \subseteq 0 .. 15
                          /\ MaxRequests \in Nat /\ MaxFaults \in Nat

(* The fields of the chip's registers that are tracked, and the register of *)
(* each.  Registers 6, 8 to 11, 17, 25, 29 and 30 hold no field tracked.    *)
Reg == [ input |-> 5, lnaMode |-> 5, lna |-> 5, sideband |-> 7, mixMode |-> 7,
         mixer |-> 7, vga |-> 12, cali |-> 15, xtalCap |-> 16, div |-> 16,
         current |-> 18, frac |-> 18, nint |-> 20, sdmLo |-> 21, sdmHi |-> 22,
         openD |-> 23, mux |-> 26, autotune |-> 26, band |-> 27 ]
Field == DOMAIN Reg
Registers == {Reg[f] : f \in Field}

Untracked == -1       (* a value no request of the host asks for            *)
None      == -1

(* r82xx_init_array; vga is DEFAULT_IF_VGA_VAL, current 0x80.               *)
InitArray == [ f \in Field |->
  CASE f \in {"input", "lnaMode", "lna", "sideband", "mixer", "cali"} -> 0
    [] f = "mixMode" -> 1
    [] f = "vga"     -> 11
    [] f = "current" -> 128
    [] OTHER         -> Untracked ]

vco_curr_min == 128
vco_curr_max == 96

VARIABLES
  model,           (* the tuner of this board                               *)
  chip,            (* the registers of the chip                             *)
  regs,            (* priv->regs, the shadow                                *)
  cfg,             (* tuner.cfg points to the configuration                 *)
  int_freq, rf_freq, sideband, input, last_vco_curr, has_lock,
  m_vgagain_index,
  pc,              (* the next transfer of the request being served         *)
  arg, lo, nth_harm, fine,    (* of r82xx_set_freq64 and r82xx_set_pll      *)
  round,           (* calibrations begun by r82xx_set_tv_standard, 0: the   *)
                   (* PLL is set for r82xx_set_freq64                       *)
  tuned,           (* what the last tuning the driver reported done was for *)
  gained, vgaSet,  (* the gain indices reported set since the last init     *)
  vgaSent,         (* a VGA gain was sent since then                        *)
  unsure,          (* registers with a failed transfer, or a standby, since *)
  initOk,          (* r82xx_init returned 0 last                            *)
  requests, faults

bus    == <<chip, regs, unsure, faults>>
driver == <<cfg, int_freq, rf_freq, sideband, input, last_vco_curr, has_lock,
            m_vgagain_index>>
locals == <<arg, lo, nth_harm, fine, round>>
told   == <<tuned, gained, vgaSet, vgaSent, initOk>>
vars   == <<model, bus, driver, pc, locals, told, requests>>

NotTuned == [freq |-> None, lo |-> 0, pllLo |-> 0, fine |-> 0]

Init == /\ model \in Chips
        /\ chip = [f \in Field |-> Untracked] /\ regs = [f \in Field |-> 0]
        /\ cfg = FALSE /\ int_freq = 0 /\ rf_freq = 0 /\ sideband = 0
        /\ input = 0 /\ last_vco_curr = 0 /\ has_lock = FALSE
        /\ m_vgagain_index = 255
        /\ pc = "idle" /\ arg = 0 /\ lo = 0 /\ nth_harm = 0 /\ fine = 0 /\ round = 0
        /\ tuned = NotTuned /\ gained = None /\ vgaSet = None /\ vgaSent = FALSE
        /\ unsure = {} /\ initOk = FALSE
        /\ requests = 0 /\ faults = 0

-----------------------------------------------------------------------------
(* r82xx_write_arr: the shadow takes the new values whether or not the      *)
(* transfer works; the chip takes whole registers from the shadow.  Before  *)
(* the first TUNERINIT cfg is a null pointer, the address sent to is read   *)
(* through it and no tuner listens: the transfer may go either way.         *)

MayFail(ok) == ok \/ ~cfg \/ faults < MaxFaults
Failing(ok) == faults' = IF ok \/ ~cfg THEN faults ELSE faults + 1

Write(rs, vals, ok) ==
  /\ MayFail(ok) /\ Failing(ok)
  /\ regs' = [f \in Field |-> IF f \in DOMAIN vals THEN vals[f] ELSE regs[f]]
  /\ chip' = [f \in Field |-> IF ok /\ cfg /\ Reg[f] \in rs THEN regs'[f] ELSE chip[f]]
  /\ unsure' = IF ok THEN unsure ELSE unsure \cup rs

(* A register without tracked fields is written, or the status is read.     *)
Other(ok) == MayFail(ok) /\ Failing(ok) /\ UNCHANGED <<chip, regs, unsure>>

Goes(from, to) == pc = from /\ pc' = to

(* A stage that writes one register, field by field, or none, and goes to   *)
(* next, or to abort when the transfer fails.                               *)
Stage(s, vals, next, abort) ==
  \E ok \in BOOLEAN :
     /\ Goes(s, IF ok THEN next ELSE abort)
     /\ Write({Reg[f] : f \in DOMAIN vals}, vals, ok)
OtherStage(s, next, abort) ==
  \E ok \in BOOLEAN : Goes(s, IF ok THEN next ELSE abort) /\ Other(ok)

Request == /\ pc = "idle" /\ requests < MaxRequests
           /\ requests' = requests + 1 /\ UNCHANGED model

-----------------------------------------------------------------------------
(* TUNERINIT: r820_initialize, which ignores what r82xx_init returns        *)

(* The structures are cleared, then r82xx_init sends the whole array and    *)
(* ignores whether that worked.                                             *)
TUNERINIT ==
  /\ Request
  /\ cfg' = TRUE
  /\ \E ok \in BOOLEAN :
       /\ ok \/ faults < MaxFaults
       /\ faults' = IF ok THEN faults ELSE faults + 1
       /\ regs' = InitArray
       /\ chip' = IF ok THEN InitArray ELSE chip
       /\ unsure' = IF ok THEN {} ELSE Registers
  /\ int_freq' = 0 /\ rf_freq' = 0 /\ sideband' = 0 /\ input' = 0
  /\ has_lock' = FALSE /\ last_vco_curr' = InitArray.current
  /\ UNCHANGED m_vgagain_index
  /\ pc' = "lnaTop" /\ round' = 1
  /\ tuned' = NotTuned /\ gained' = None /\ vgaSet' = None /\ vgaSent' = FALSE
  /\ initOk' = FALSE
  /\ nth_harm' = 0 /\ UNCHANGED <<arg, lo, fine>>

(* r82xx_set_tv_standard: up to two calibrations with the PLL at 56 MHz     *)
LnaTop ==
  /\ OtherStage("lnaTop", "caliOn", "bandwidth")
  /\ IF pc' = "caliOn" THEN rf_freq' = 56000 /\ int_freq' = 3570 /\ sideband' = 0
                       ELSE UNCHANGED <<rf_freq, int_freq, sideband>>
  /\ UNCHANGED <<cfg, input, last_vco_curr, has_lock, m_vgagain_index, locals, told>>

CaliOn ==
  /\ Stage("caliOn", [cali |-> 1], "refdiv", "bandwidth")
  /\ lo' = rf_freq
  /\ UNCHANGED <<driver, arg, nth_harm, fine, round, told>>

Trigger == /\ \/ OtherStage("trigger", "untrigger", "bandwidth")
              \/ OtherStage("untrigger", "caliOff", "bandwidth")
           /\ UNCHANGED <<driver, locals, told>>

CaliOffUnchecked ==                           (* mutant: result not tested  *)
  /\ Stage("caliOff", [cali |-> 0], "calStatus", "calStatus")
  /\ UNCHANGED <<driver, locals, told>>

CaliOff ==
  /\ Stage("caliOff", [cali |-> 0], "calStatus", "bandwidth")
  /\ UNCHANGED <<driver, locals, told>>

CalStatusForever ==                           (* mutant: rounds not counted *)
  /\ \E good \in BOOLEAN :
       OtherStage("calStatus", IF good THEN "filter" ELSE "caliOn", "bandwidth")
  /\ UNCHANGED <<driver, locals, told>>

CalStatusCounted ==                           (* mutant: off by one         *)
  /\ \E good \in BOOLEAN :
       OtherStage("calStatus", IF good \/ round = 2 THEN "filter" ELSE "caliOn",
                  "bandwidth")
  /\ round' = round + 1
  /\ UNCHANGED <<driver, arg, lo, nth_harm, fine, told>>

(* fil_cal_code is the chip's: good, or once more and then taken as it is.  *)
CalStatus ==
  /\ \E good \in BOOLEAN :
       OtherStage("calStatus", IF good \/ round = 2 THEN "filter" ELSE "caliOn",
                  "bandwidth")
  /\ round' = IF pc' = "caliOn" THEN 2 ELSE round
  /\ UNCHANGED <<driver, arg, lo, nth_harm, fine, told>>

Filter == /\ OtherStage("filter", "sysInput", "bandwidth")
          /\ UNCHANGED <<driver, locals, told>>

(* r82xx_sysfreq_sel *)
SysInput ==
  /\ Stage("sysInput", [input |-> 0], "sysDet", "bandwidth")
  /\ input' = 0
  /\ UNCHANGED <<cfg, int_freq, rf_freq, sideband, last_vco_curr, has_lock,
                 m_vgagain_index, locals, told>>
SysAgc(s, next) ==    (* the AGC clock shares its register with mux         *)
  \E ok \in BOOLEAN : Goes(s, IF ok THEN next ELSE "bandwidth") /\ Write({26}, <<>>, ok)
SysRest ==
  /\ \/ OtherStage("sysDet", "sysAgc1", "bandwidth")
     \/ SysAgc("sysAgc1", "sysTop")
     \/ OtherStage("sysTop", "sysAgc2", "bandwidth")
  /\ UNCHANGED <<driver, locals, told>>
SysLast ==
  \E ok \in BOOLEAN : /\ Goes("sysAgc2", "bandwidth") /\ Write({26}, <<>>, ok)
                      /\ initOk' = ok
                      /\ UNCHANGED <<driver, locals, tuned, gained, vgaSet, vgaSent>>

(* r82xx_set_bandwidth for 8 MHz: three registers, the third unchecked      *)
Bandwidth ==
  /\ \/ /\ OtherStage("bandwidth", "bwFilter", "idle")
        /\ int_freq' = 4570
     \/ OtherStage("bwFilter", "bwExt", "idle") /\ UNCHANGED int_freq
     \/ OtherStage("bwExt", "idle", "idle") /\ UNCHANGED int_freq
  /\ UNCHANGED <<cfg, rf_freq, sideband, input, last_vco_curr, has_lock,
                 m_vgagain_index, locals, told>>

InitStep == \/ LnaTop \/ CaliOn \/ Trigger \/ CaliOff \/ CalStatus \/ Filter
            \/ SysInput \/ SysRest \/ SysLast \/ Bandwidth

-----------------------------------------------------------------------------
(* TUNERTUNE: r82xx_set_freq64, r82xx_set_mux and r82xx_set_pll             *)

(* The LO for a frequency; frequencies above 1770 MHz, and LOs above 1760   *)
(* MHz whose PLL does not lock, go over the fifth harmonic.  A frequency of *)
(* 0 stands for the last one.  Bound: frequencies above the intermediate    *)
(* one.                                                                     *)
TUNERTUNE(freq) ==
  LET f == IF freq = 0 THEN rf_freq ELSE freq IN
  /\ Request /\ cfg /\ f > int_freq
  /\ pc' = "openD"
  /\ arg' = f /\ rf_freq' = f
  /\ lo' = lo_freq(f, int_freq, sideband)
  /\ nth_harm' = IF freq > 1770000 THEN 1 ELSE 0
  /\ fine' = 0 /\ round' = 0
  /\ tuned' = NotTuned
  /\ UNCHANGED <<bus, cfg, int_freq, sideband, input, last_vco_curr, has_lock,
                 m_vgagain_index, gained, vgaSet, vgaSent, initOk>>

PllLo == HarmonicLo(lo, nth_harm)

(* Where a failure of set_mux, or of set_pll, leads. *)
MuxFails == "idle"
PllFails == IF round # 0 THEN "bandwidth"
            ELSE IF nth_harm = 0 /\ lo > 1760000 THEN "harmonic"
            ELSE "idle"

SetMuxUnchecked ==                            (* mutant: result not tested  *)
  /\ \/ Stage("openD", [openD |-> Range(lo)], "mux", "refdiv")
     \/ Stage("mux", [mux |-> Range(lo)], "band", "refdiv")
     \/ Stage("band", [band |-> Range(lo)], "xtalCap", "refdiv")
     \/ Stage("xtalCap", [xtalCap |-> Range(lo)], "refdiv", "refdiv")
  /\ UNCHANGED <<driver, locals, told>>

SetMux ==
  /\ \/ Stage("openD", [openD |-> Range(lo)], "mux", MuxFails)
     \/ Stage("mux", [mux |-> Range(lo)], "band", MuxFails)
     \/ Stage("band", [band |-> Range(lo)], "xtalCap", MuxFails)
     \/ Stage("xtalCap", [xtalCap |-> Range(lo)], "refdiv", MuxFails)
  /\ UNCHANGED <<driver, locals, told>>

(* The second pass of the loop of set_freq64. *)
Harmonic == /\ Goes("harmonic", "openD") /\ nth_harm' = 1
            /\ UNCHANGED <<bus, driver, arg, lo, fine, round, told>>

(* refdiv2 is always 0. *)
PllStart ==
  /\ \/ \E ok \in BOOLEAN : /\ Goes("refdiv", IF ok THEN "autotune" ELSE PllFails)
                            /\ Write({16}, <<>>, ok)
     \/ Stage("autotune", [autotune |-> 128], "vcoMin", PllFails)
  /\ UNCHANGED <<driver, locals, told>>

(* The VCO current is sent only when the cache says it is another one.      *)
VcoMin ==
  /\ \/ /\ last_vco_curr = vco_curr_min
        /\ Goes("vcoMin", "status") /\ UNCHANGED <<bus, last_vco_curr>>
     \/ /\ last_vco_curr # vco_curr_min
        /\ Stage("vcoMin", [current |-> vco_curr_min], "status", PllFails)
        /\ last_vco_curr' = IF pc' = "status" THEN vco_curr_min ELSE last_vco_curr
  /\ UNCHANGED <<cfg, int_freq, rf_freq, sideband, input, has_lock,
                 m_vgagain_index, locals, told>>

(* The chip's fine tuning of the divider is read: below, at, or above the   *)
(* reference.                                                               *)
ReadStatus ==
  /\ OtherStage("status", "div", PllFails)
  /\ fine' \in vco_power_ref(model) - 1 .. vco_power_ref(model) + 1
  /\ UNCHANGED <<driver, arg, lo, nth_harm, round, told>>

(* A quotient out of range is given up after the divider was sent.          *)
SetDivider ==
  /\ Stage("div", [div |-> div_num(model, PllLo, fine)],
           IF ValidNint(model, PllLo) THEN "nint" ELSE PllFails, PllFails)
  /\ UNCHANGED <<driver, locals, told>>

SetPll ==
  /\ \/ Stage("nint", [nint |-> nint(model, PllLo)], "frac", PllFails)
     \/ Stage("frac", [frac |-> IF sdm(model, PllLo) = 0 THEN 0 ELSE 1], "sdmHi", PllFails)
     \/ Stage("sdmHi", [sdmHi |-> sdm(model, PllLo)], "sdmLo", PllFails)
     \/ Stage("sdmLo", [sdmLo |-> sdm(model, PllLo)], "lock", PllFails)
  /\ UNCHANGED <<driver, locals, told>>

(* Whether the PLL locks is the chip's; if not, once more with the maximum  *)
(* VCO current.                                                             *)
ReadLock ==
  /\ \E locked \in BOOLEAN :
       \/ /\ OtherStage("lock", IF locked THEN "locked" ELSE "vcoMax", PllFails)
          /\ UNCHANGED has_lock
       \/ /\ OtherStage("relock", IF locked THEN "locked" ELSE PllFails, PllFails)
          /\ has_lock' = IF ~locked /\ faults' = faults THEN FALSE ELSE has_lock
  /\ UNCHANGED <<cfg, int_freq, rf_freq, sideband, input, last_vco_curr,
                 m_vgagain_index, locals, told>>

VcoMaxNotCached ==                            (* mutant: cache not updated  *)
  /\ Stage("vcoMax", [current |-> vco_curr_max], "relock", PllFails)
  /\ UNCHANGED <<driver, locals, told>>

VcoMax ==
  /\ \/ /\ last_vco_curr = vco_curr_max
        /\ Goes("vcoMax", "relock") /\ UNCHANGED <<bus, last_vco_curr>>
     \/ /\ last_vco_curr # vco_curr_max
        /\ Stage("vcoMax", [current |-> vco_curr_max], "relock", PllFails)
        /\ last_vco_curr' = IF pc' = "relock" THEN vco_curr_max ELSE last_vco_curr
  /\ UNCHANGED <<cfg, int_freq, rf_freq, sideband, input, has_lock,
                 m_vgagain_index, locals, told>>

Locked ==
  /\ Stage("locked", [autotune |-> 8], IF round = 0 THEN "input" ELSE "trigger", PllFails)
  /\ has_lock' = TRUE
  /\ UNCHANGED <<cfg, int_freq, rf_freq, sideband, input, last_vco_curr,
                 m_vgagain_index, locals, told>>

(* The input of the R828D is cached before it is sent; the tuning counts as *)
(* done when it returns 0.                                                  *)
TunedNow == [freq |-> arg, lo |-> lo, pllLo |-> PllLo, fine |-> fine]
SelectInput ==
  /\ \/ /\ model # "R828D" \/ input = air_cable1_in(arg)
        /\ Goes("input", "idle") /\ tuned' = TunedNow
        /\ UNCHANGED <<bus, input>>
     \/ /\ model = "R828D" /\ input # air_cable1_in(arg)
        /\ input' = air_cable1_in(arg)
        /\ \E ok \in BOOLEAN : /\ Goes("input", "idle")
                               /\ Write({5}, [input |-> input'], ok)
                               /\ tuned' = IF ok THEN TunedNow ELSE tuned
  /\ UNCHANGED <<cfg, int_freq, rf_freq, sideband, last_vco_curr, has_lock,
                 m_vgagain_index, locals, gained, vgaSet, vgaSent, initOk>>

TuneStep == \/ SetMux \/ Harmonic \/ PllStart \/ VcoMin \/ ReadStatus \/ SetDivider
            \/ SetPll \/ ReadLock \/ VcoMax \/ Locked \/ SelectInput

-----------------------------------------------------------------------------
(* SETARGFX3 with R82XX_ATTENUATOR, R82XX_VGA and R82XX_SIDEBAND            *)

SetAllGains(g) ==
  /\ Request /\ cfg
  /\ pc' = "lnaMode" /\ arg' = g /\ gained' = None
  /\ UNCHANGED <<bus, driver, lo, nth_harm, fine, round, tuned, vgaSet, vgaSent, initOk>>

GainModes ==
  /\ \/ Stage("lnaMode", [lnaMode |-> 1], "mixMode", "idle")
     \/ Stage("mixMode", [mixMode |-> 0], "gainStatus", "idle")
     \/ OtherStage("gainStatus", "lna", "idle")
     \/ Stage("lna", [lna |-> lna_gains(arg)], "mixer", "idle")
  /\ UNCHANGED <<driver, locals, told>>

GainMixer ==
  \E ok \in BOOLEAN :
     /\ Goes("mixer", "idle") /\ Write({7}, [mixer |-> mixer_gains(arg)], ok)
     /\ gained' = IF ok THEN arg ELSE gained
     /\ UNCHANGED <<driver, locals, tuned, vgaSet, vgaSent, initOk>>

SetVgaCachedFirst(g) ==                       (* mutant: cached, then sent  *)
  /\ Request /\ cfg
  /\ m_vgagain_index' = g
  /\ \E ok \in BOOLEAN :
       /\ IF m_vgagain_index = g THEN ok /\ UNCHANGED bus ELSE Write({12}, [vga |-> g], ok)
       /\ vgaSet' = IF ok THEN g ELSE None
  /\ vgaSent' = (vgaSent \/ m_vgagain_index # g)
  /\ UNCHANGED <<cfg, int_freq, rf_freq, sideband, input, last_vco_curr, has_lock,
                 pc, locals, tuned, gained, initOk>>

(* One transfer, or none if the index is the one set last.                  *)
SetVga(g) ==
  /\ Request /\ cfg
  /\ \E ok \in BOOLEAN :
       /\ IF m_vgagain_index = g THEN ok /\ UNCHANGED bus ELSE Write({12}, [vga |-> g], ok)
       /\ m_vgagain_index' = IF ok THEN g ELSE m_vgagain_index
       /\ vgaSet' = IF ok THEN g ELSE None
       /\ vgaSent' = (vgaSent \/ (ok /\ m_vgagain_index # g))
  /\ UNCHANGED <<cfg, int_freq, rf_freq, sideband, input, last_vco_curr, has_lock,
                 pc, locals, tuned, gained, initOk>>

SetSideband(s) ==
  /\ Request /\ cfg
  /\ sideband' = s
  /\ \E ok \in BOOLEAN : Write({7}, [sideband |-> s], ok)
  /\ UNCHANGED <<cfg, int_freq, rf_freq, input, last_vco_curr, has_lock,
                 m_vgagain_index, pc, locals, told>>

-----------------------------------------------------------------------------
(* TUNERSTDBY: r82xx_standby, given up at the first transfer that fails     *)

TUNERSTDBY ==
  /\ Request
  /\ pc' = "sb06"
  /\ tuned' = NotTuned /\ gained' = None /\ vgaSet' = None /\ vgaSent' = FALSE
  /\ unsure' = unsure \cup {5}
  /\ UNCHANGED <<chip, regs, faults, driver, locals, initOk>>

StandbyStep ==
  /\ \/ OtherStage("sb06", "sb05", "idle")
     \/ Stage("sb05", [input |-> 32, lnaMode |-> 0, lna |-> 0], "sb07", "idle")
     \/ Stage("sb07", [sideband |-> 0, mixMode |-> 1, mixer |-> 10], "sb08", "idle")
     \/ OtherStage("sb08", "sb0c", "idle")
     \/ Stage("sb0c", [vga |-> 5], "sb0f", "idle")
     \/ Stage("sb0f", [cali |-> 0], "sb11", "idle")
     \/ OtherStage("sb11", "sb17", "idle")
     \/ Stage("sb17", [openD |-> Untracked], "sb19", "idle")
     \/ OtherStage("sb19", "idle", "idle")
  /\ UNCHANGED <<driver, locals, told>>

-----------------------------------------------------------------------------
Serve == (InitStep \/ TuneStep \/ GainModes \/ GainMixer \/ StandbyStep)
           /\ UNCHANGED <<model, requests>>

Next == \/ TUNERINIT \/ TUNERSTDBY
        \/ \E f \in Freqs : TUNERTUNE(f)
        \/ \E g \in Gains : SetAllGains(g)
        \/ \E g \in VgaGains : SetVga(g)
        \/ \E s \in 0 .. 1 : SetSideband(s)
        \/ Serve

Spec == Init /\ [][Next]_vars

(* A request is served to its end; nobody has to ask for another.           *)
FairSpec == Spec /\ WF_vars(Serve)

-----------------------------------------------------------------------------
InitStages == {"lnaTop", "caliOn", "trigger", "untrigger", "caliOff", "calStatus",
               "filter", "sysInput", "sysDet", "sysAgc1", "sysTop", "sysAgc2",
               "bandwidth", "bwFilter", "bwExt"}
PllStages == {"refdiv", "autotune", "vcoMin", "status", "div", "nint", "frac",
              "sdmHi", "sdmLo", "lock", "vcoMax", "relock", "locked"}
OtherStages == {"openD", "mux", "band", "xtalCap", "harmonic", "input", "lnaMode",
                "mixMode", "gainStatus", "lna", "mixer", "sb06", "sb05", "sb07",
                "sb08", "sb0c", "sb0f", "sb11", "sb17", "sb19"}

(* Types of all variables. *)
TypeOK ==
  /\ model \in Chips
  /\ chip \in [Field -> Int] /\ regs \in [Field -> Int]
  /\ cfg \in BOOLEAN /\ has_lock \in BOOLEAN
  /\ int_freq \in {0, 3570, 4570} /\ rf_freq \in Nat /\ sideband \in 0 .. 1
  /\ input \in {0, 96} /\ last_vco_curr \in {0, vco_curr_min, vco_curr_max}
  /\ m_vgagain_index \in Nat
  /\ pc \in {"idle"} \cup InitStages \cup PllStages \cup OtherStages
  /\ arg \in Nat /\ lo \in Int /\ nth_harm \in 0 .. 1 /\ fine \in 0 .. 3
  /\ round \in 0 .. 2
  /\ tuned \in [freq : Int, lo : Int, pllLo : Int, fine : 0 .. 3]
  /\ gained \in Int /\ vgaSet \in Int /\ vgaSent \in BOOLEAN
  /\ unsure \subseteq Registers /\ initOk \in BOOLEAN
  /\ requests \in Nat /\ faults \in Nat

(* Once r82xx_set_freq64 returned 0, and until the next tuning, init or     *)
(* standby, the chip has the band and the divider of the frequency asked    *)
(* for, whatever transfers failed before or since; and the input of the     *)
(* frequency too, unless since the last init a transfer of register 5       *)
(* failed, the input being cached before it is sent, or a standby changed   *)
(* the input without the cache.  A gain index reported set is in the chip   *)
(* until the next index, init or standby; for the VGA, whose last index is  *)
(* cached and not sent again, if one was sent since the last of those.      *)
TunedAsReported ==
  tuned.freq # None =>
    /\ \A f \in {"openD", "mux", "band", "xtalCap"} : chip[f] = Range(tuned.lo)
    /\ chip.div = div_num(model, tuned.pllLo, tuned.fine)
    /\ chip.nint = nint(model, tuned.pllLo)
    /\ chip.sdmHi = sdm(model, tuned.pllLo) /\ chip.sdmLo = sdm(model, tuned.pllLo)
    /\ model = "R828D" /\ 5 \notin unsure => chip.input = air_cable1_in(tuned.freq)
GainsAsReported ==
  /\ gained # None => /\ chip.lnaMode = 1 /\ chip.lna = lna_gains(gained)
                      /\ chip.mixMode = 0 /\ chip.mixer = mixer_gains(gained)
  /\ vgaSet # None /\ vgaSent => chip.vga = vgaSet
DoneAsReported == TunedAsReported /\ GainsAsReported

(* The calibration clock runs only while an init is under way, or after one *)
(* that failed.                                                             *)
CalibrationEnds == chip.cali = 1 => ~initOk

(* While the PLL is locked the cache of the VCO current, which decides      *)
(* whether the current is sent at all, tells the chip's, unless a transfer  *)
(* of its register failed since the last init.                              *)
VcoCurrentKnown ==
  tuned.freq # None /\ 18 \notin unsure => chip.current = last_vco_curr

(* Every request is served to its end, whatever the chip answers.           *)
RequestsEnd == (pc # "idle") ~> (pc = "idle")
=============================================================================
