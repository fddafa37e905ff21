------------------------------- MODULE Si5351 -------------------------------
(***************************************************************************)
(* src/firmware/driver/Si5351.c: what the clock chip is set to for a       *)
(* frequency, of the ADC on its output A or of the tuner on B.  In kHz:    *)
(* frequencies are taken to be whole kHz, and where the code divides by    *)
(* 27000000 the quotient is the same.                                      *)
(***************************************************************************)
EXTENDS Integers

SI5351_FREQ == 27000
denom       == 1048575       (* 2 ^ 20 - 1                                  *)
maxPll      == 900000        (* the PLL's maximum                           *)

(* Frequencies below 1 MHz are doubled, and the last stage halves them as   *)
(* often again, at most seven times.                                        *)
Doublings(f) == CHOOSE n \in 0 .. 7 : /\ f * 2 ^ n >= 1000
                                      /\ \A k \in 0 .. n - 1 : f * 2 ^ k < 1000
frequency(f) == f * 2 ^ Doublings(f)

(* Of a frequency of 1 MHz or more: an even divider from the PLL, whose own *)
(* frequency is mult + num / denom times the crystal's; 13981 / 360 is      *)
(* denom / SI5351_FREQ.                                                     *)
divider(f) == LET q == maxPll \div f IN q - (q % 2)
pllFreq(f) == divider(f) * f
mult(f)    == pllFreq(f) \div SI5351_FREQ
num(f)     == ((pllFreq(f) % SI5351_FREQ) * 13981) \div 360

(* setupPLL divides in single precision: a quotient just below a whole      *)
(* number of 128ths is rounded up to it.                                    *)
RoundedUp(n) == 2 * n > denom /\ denom - ((128 * n) % denom) <= 3
Scaled(n)    == ((128 * n) \div denom) + (IF RoundedUp(n) THEN 1 ELSE 0)
P1(m, n)     == 128 * m + Scaled(n) - 512
P2(n)        == 128 * n - denom * Scaled(n)
=============================================================================
