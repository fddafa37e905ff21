------------------------------ MODULE TunerPll ------------------------------
(***************************************************************************)
(* The arithmetic of src/firmware/driver/tuner_r82xx.c: what r82xx_set_mux *)
(* and r82xx_set_pll compute from the frequency of the local oscillator    *)
(* before they send it to the chip.  Frequencies are in kHz.               *)
(***************************************************************************)
EXTENDS Integers

xtal(chip) == IF chip = "R828D" THEN 16000 ELSE 32000
vco_power_ref(chip) == IF chip = "R828D" THEN 1 ELSE 2
vco_min == 1770000
vco_max == 2 * vco_min

(* .freq of freq_ranges, in MHz. *)
freq_ranges == {0, 50, 55, 60, 65, 70, 75, 80, 90, 100, 110, 120, 140, 180,
                220, 250, 280, 310, 450, 588, 650}
Range(lo) == CHOOSE r \in freq_ranges :
               /\ r <= lo \div 1000
               /\ \A s \in freq_ranges : s <= lo \div 1000 => s <= r

(* 2 ^ 6 = 64 is the last divider tried; the loop leaves 128 if none fits.  *)
MixDivs == {2, 4, 8, 16, 32, 64}
InVcoRange(lo, m) == vco_min <= lo * m /\ lo * m < vco_max
mix_div(lo) == IF \E m \in MixDivs : InVcoRange(lo, m)
                 THEN CHOOSE m \in MixDivs : InVcoRange(lo, m)
                 ELSE 128
Halvings(m) == CASE m = 4 -> 1 [] m = 8 -> 2 [] m = 16 -> 3 [] m = 32 -> 4
                 [] m = 64 -> 5 [] OTHER -> 0

(* The chip reports a fine tuning that corrects the divider by one; div_num *)
(* is a byte and three bits of it are sent.                                 *)
div_num(chip, lo, fine) ==
  (Halvings(mix_div(lo)) + CASE fine > vco_power_ref(chip) -> -1
                             [] fine < vco_power_ref(chip) -> 1
                             [] OTHER -> 0) % 8

(* nint is a byte.  A LO of whole kHz never rounds up to the next nint:     *)
(* half a step of sdm is less than 1 kHz.                                   *)
Quotient(chip, lo) == (lo * mix_div(lo)) \div (2 * xtal(chip))
sdm(chip, lo)      == (lo * mix_div(lo)) % (2 * xtal(chip))
nint(chip, lo)     == Quotient(chip, lo) % 256
ValidNint(chip, lo) == nint(chip, lo) <= (128 \div vco_power_ref(chip)) - 1
ni(chip, lo) == (nint(chip, lo) - 13) \div 4
si(chip, lo) == nint(chip, lo) - 4 * ni(chip, lo) - 13

(* The LO lies above the wanted frequency, or below it with the sideband    *)
(* flipped; a fifth of it is tuned when its fifth harmonic is to be used.   *)
lo_freq(freq, int_freq, sideband) ==
  IF sideband = 1 THEN freq - int_freq ELSE freq + int_freq
HarmonicLo(lo, nth_harm) == IF nth_harm = 1 THEN lo \div 5 ELSE lo

(* Input of the R828D: "Air-In" above 345 MHz, "Cable1" below.              *)
air_cable1_in(freq) == IF freq > 345000 THEN 0 ELSE 96

(* set_all_gains *)
lna_gains(g) == IF g = 28 THEN 15 ELSE (g + 1) \div 2
mixer_gains(g) == g \div 2
=============================================================================
