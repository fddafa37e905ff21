---------------------------- MODULE FirmwareProofs ----------------------------
(***************************************************************************)
(* Proofs about Si5351.tla and FirmwareApp.tla: the arithmetic of the clock*)
(* chip for every frequency, the types and the armed stream for every size *)
(* of the queue and of the console's line.                                 *)
(***************************************************************************)
EXTENDS FirmwareApp, TLAPS

(* The factors of the doubling loop. *)
LEMMA Powers == /\ 2 ^ 0 = 1 /\ 2 ^ 1 = 2 /\ 2 ^ 2 = 4 /\ 2 ^ 3 = 8
                /\ 2 ^ 4 = 16 /\ 2 ^ 5 = 32 /\ 2 ^ 6 = 64 /\ 2 ^ 7 = 128
  BY SMT

(* n doublings, and no fewer, bring f to 1 MHz. *)
LeastDoublings(f, n) == f * 2 ^ n >= 1000 /\ \A k \in 0 .. n - 1 : f * 2 ^ k < 1000

(* If some number of doublings suffices, Doublings is the least such.       *)
LEMMA ChosenDoublings ==
  ASSUME NEW f \in Nat, \E n \in 0 .. 7 : LeastDoublings(f, n)
  PROVE  Doublings(f) \in 0 .. 7 /\ LeastDoublings(f, Doublings(f))
  BY Zenon DEF Doublings, LeastDoublings

(* From 8 kHz on, the loop of si5351aSetFrequencyA ends within the seven    *)
(* halvings that the last stage of the chip can do, and yields a frequency  *)
(* that the divider is made for.                                            *)
LEMMA Doubled ==
  ASSUME NEW f \in Nat, 8 <= f, f <= 150000
  PROVE  Doublings(f) \in 0 .. 7 /\ frequency(f) \in Nat
         /\ 1000 <= frequency(f) /\ frequency(f) <= 150000
<1>1. \E n \in 0 .. 7 : LeastDoublings(f, n)
  <2> USE Powers DEF LeastDoublings
  <2>1. CASE f >= 1000  BY <2>1, SMT
  <2>2. CASE 500 <= f /\ f < 1000
    <3>1. LeastDoublings(f, 1)  BY <2>2, SMT
    <3>2. QED  BY <3>1
  <2>3. CASE 250 <= f /\ f < 500
    <3>1. LeastDoublings(f, 2)  BY <2>3, SMT
    <3>2. QED  BY <3>1
  <2>4. CASE 125 <= f /\ f < 250
    <3>1. LeastDoublings(f, 3)  BY <2>4, SMT
    <3>2. QED  BY <3>1
  <2>5. CASE 63 <= f /\ f < 125
    <3>1. LeastDoublings(f, 4)  BY <2>5, SMT
    <3>2. QED  BY <3>1
  <2>6. CASE 32 <= f /\ f < 63
    <3>1. LeastDoublings(f, 5)  BY <2>6, SMT
    <3>2. QED  BY <3>1
  <2>7. CASE 16 <= f /\ f < 32
    <3>1. LeastDoublings(f, 6)  BY <2>7, SMT
    <3>2. QED  BY <3>1
  <2>8. CASE 8 <= f /\ f < 16
    <3>1. LeastDoublings(f, 7)  BY <2>8, SMT
    <3>2. QED  BY <3>1
  <2>9. QED
    BY <2>1, <2>2, <2>3, <2>4, <2>5, <2>6, <2>7, <2>8, SMT
<1>2. Doublings(f) \in 0 .. 7 /\ LeastDoublings(f, Doublings(f))
  BY <1>1, ChosenDoublings, SMT
<1>3. PICK n \in 0 .. 7 : n = Doublings(f) /\ LeastDoublings(f, n)
  BY <1>2, SMT
<1>4. f * 2 ^ n \in Nat /\ 1000 <= f * 2 ^ n /\ f * 2 ^ n <= 150000
  <2>1. CASE n = 0
    BY <1>3, <2>1, Powers, SMT DEF LeastDoublings
  <2>2. CASE n # 0
    <3>1. f * 2 ^ n >= 1000 /\ f * 2 ^ (n - 1) < 1000
      <4>1. n - 1 \in 0 .. n - 1
        BY <2>2, SMT
      <4>2. QED
        BY <1>3, <4>1, SMT DEF LeastDoublings
    <3>2. f * 2 ^ n \in Nat /\ f * 2 ^ n < 2000
      <4>1. CASE n = 1  BY <3>1, <4>1, SMT
      <4>2. CASE n = 2  BY <3>1, <4>2, SMT
      <4>3. CASE n = 3  BY <3>1, <4>3, SMT
      <4>4. CASE n = 4  BY <3>1, <4>4, SMT
      <4>5. CASE n = 5  BY <3>1, <4>5, SMT
      <4>6. CASE n = 6  BY <3>1, <4>6, SMT
      <4>7. CASE n = 7  BY <3>1, <4>7, SMT
      <4>8. QED
        BY <2>2, <4>1, <4>2, <4>3, <4>4, <4>5, <4>6, <4>7, SMT
    <3>3. QED
      BY <3>1, <3>2, SMT
  <2>3. QED
    BY <2>1, <2>2, SMT
<1>5. QED
  BY <1>2, <1>3, <1>4, SMT DEF frequency

-----------------------------------------------------------------------------
(* Of any frequency of 1 to 150 MHz the divider is even and the frequency   *)
(* of the PLL lies between 675 and 900 MHz.                                 *)
LEMMA PllInRange ==
  ASSUME NEW f \in Nat, 1000 <= f, f <= 150000
  PROVE  /\ divider(f) \in Nat /\ divider(f) >= 6 /\ divider(f) % 2 = 0
         /\ pllFreq(f) \in Nat /\ 675000 < pllFreq(f) /\ pllFreq(f) <= maxPll
<1> DEFINE q == maxPll \div f
<1>1. q \in Nat /\ q * f <= maxPll /\ maxPll < (q + 1) * f
  BY SMTT(60) DEF maxPll
<1>2. q >= 6
  <2>1. SUFFICES ASSUME q <= 5 PROVE FALSE
    BY <1>1, SMT
  <2>2. (q + 1) * f <= 6 * f
    BY <1>1, <2>1, SMT
  <2>3. QED
    BY <1>1, <2>2, SMT DEF maxPll
<1> HIDE DEF q
<1>3. CASE q % 2 = 0
  <2>1. divider(f) = q
    BY <1>1, <1>3, SMT DEF divider, q
  <2>2. 7 * (q * f) >= 6 * ((q + 1) * f)
    BY <1>1, <1>2, SMT
  <2>3. QED
    BY <1>1, <1>2, <1>3, <2>1, <2>2, SMT DEF pllFreq, maxPll
<1>4. CASE q % 2 = 1
  <2>1. divider(f) = q - 1 /\ (q - 1) % 2 = 0 /\ q >= 7
    BY <1>1, <1>2, <1>4, SMT DEF divider, q
  <2>2. (q - 1) * f \in Nat /\ (q - 1) * f <= q * f
    BY <1>1, <2>1, SMT
  <2>3. 4 * ((q - 1) * f) >= 3 * ((q + 1) * f)
    BY <1>1, <2>1, SMT
  <2>4. QED
    BY <1>1, <1>2, <2>1, <2>2, <2>3, SMT DEF pllFreq, maxPll
<1>5. QED
  BY <1>1, <1>3, <1>4, SMT

(* The multiplier and the numerator for a frequency of the PLL in range.    *)
LEMMA MultInRange ==
  ASSUME NEW f \in Nat, 1000 <= f, f <= 150000
  PROVE  /\ mult(f) \in Nat /\ 25 <= mult(f) /\ mult(f) <= 33
         /\ num(f) \in Nat /\ num(f) <= 1048536
<1>1. pllFreq(f) \in Nat /\ 675000 < pllFreq(f) /\ pllFreq(f) <= 900000
  BY PllInRange, SMT DEF maxPll
<1> DEFINE p == pllFreq(f)
<1> HIDE DEF p
<1>2. p \in Nat /\ 675000 < p /\ p <= 900000
  BY <1>1, SMT DEF p
<1>3. mult(f) = p \div 27000 /\ num(f) = ((p % 27000) * 13981) \div 360
  BY DEF mult, num, p, SI5351_FREQ
<1>4. (p % 27000) \in Nat /\ (p % 27000) < 27000
  BY <1>2, SMT
<1>5. QED
  BY <1>2, <1>3, <1>4, SMT

(* What setupPLL makes of them: P1 is that of a multiplier of 15 to 90, and *)
(* P2 is a remainder, unless the single precision rounded the quotient up:  *)
(* then it is negative by at most 3.                                        *)
LEMMA ParametersInRange ==
  ASSUME NEW m \in Nat, 15 <= m, m <= 90, NEW n \in Nat, n <= 1048536
  PROVE  /\ P1(m, n) \in Int /\ 1408 <= P1(m, n) /\ P1(m, n) <= 11135
         /\ P2(n) \in Int /\ P2(n) <= denom - 1
         /\ IF RoundedUp(n) THEN -3 <= P2(n) /\ P2(n) < 0 ELSE 0 <= P2(n)
<1> DEFINE r == (128 * n) % 1048575
           t == (128 * n) \div 1048575
<1>1. /\ r \in Nat /\ r < 1048575 /\ t \in Nat /\ t <= 127
      /\ 128 * n = 1048575 * t + r
  BY SMT
<1>2. RoundedUp(n) <=> 2 * n > 1048575 /\ 1048575 - r <= 3
  BY DEF RoundedUp, denom
<1>3. Scaled(n) = t + (IF RoundedUp(n) THEN 1 ELSE 0)
  BY DEF Scaled, denom
<1>4. P1(m, n) = 128 * m + Scaled(n) - 512 /\ P2(n) = 128 * n - 1048575 * Scaled(n)
  BY DEF P1, P2, denom
<1> HIDE DEF r, t
<1>5. CASE RoundedUp(n)
  <2>1. Scaled(n) = t + 1 /\ t <= 126
    BY <1>1, <1>2, <1>3, <1>5, SMT
  <2>2. QED
    BY <1>1, <1>2, <1>4, <1>5, <2>1, SMT DEF denom
<1>6. CASE ~RoundedUp(n)
  <2>1. Scaled(n) = t
    BY <1>1, <1>3, <1>6, SMT
  <2>2. QED
    BY <1>1, <1>4, <1>6, <2>1, SMT DEF denom
<1>7. QED
  BY <1>5, <1>6

-----------------------------------------------------------------------------
(* Each transfer of si5351aSetFrequencyA replaces a field of the clock's    *)
(* state by one in range.                                                   *)
LEMMA PllField ==
  ASSUME NEW c \in ClockState, NEW p \in PllState
  PROVE  [c EXCEPT !.pll = p] \in ClockState
  BY SMT DEF ClockState

(* The same of a multisynth ...                                             *)
LEMMA SynthField ==
  ASSUME NEW c \in ClockState, NEW s \in SynthState
  PROVE  [c EXCEPT !.synth = s] \in ClockState
  BY SMT DEF ClockState

(* ... and of the output.                                                   *)
LEMMA OnField ==
  ASSUME NEW c \in ClockState, NEW b \in BOOLEAN
  PROVE  [c EXCEPT !.on = b] \in ClockState
  BY SMT DEF ClockState

(* A pair of members is a member of the product.                            *)
LEMMA Pair ==
  ASSUME NEW A, NEW B, NEW a \in A, NEW b \in B
  PROVE  <<a, b>> \in A \X B
  BY SMT

(* The values at power on are in range.                                     *)
LEMMA ClockOffOK == ClockOff \in ClockState
<1>1. <<1408, 0>> \in PllState
  <2>1. denom - 1 \in Int /\ 0 <= denom - 1
    BY SMT DEF denom
  <2>2. 1408 \in P1State /\ 0 \in P2State
    BY <2>1, SMT DEF P1State, P2State
  <2>3. QED
    BY <2>2, Pair DEF PllState
<1>2. <<6, 0>> \in SynthState
  BY SMT DEF SynthState
<1> DEFINE p == <<1408, 0>>
           q == <<6, 0>>
<1> HIDE DEF p, q
<1>3. [pll |-> p, synth |-> q, on |-> FALSE] \in [pll : PllState, synth : SynthState, on : BOOLEAN]
  BY <1>1, <1>2, SMT DEF p, q
<1>4. QED
  BY <1>3, SMT DEF ClockOff, ClockState, p, q

(* Whichever of the transfers get through.                                  *)
LEMMA Transfers ==
  ASSUME NEW k \in ClockState, NEW pq \in PllState, NEW sy \in SynthState,
         NEW c \in {k, [k EXCEPT !.pll = pq]},
         NEW d \in {c, [c EXCEPT !.synth = sy]},
         NEW e \in {d, [d EXCEPT !.on = TRUE]}
  PROVE  e \in ClockState
<1>1. c \in ClockState
  BY PllField
<1>2. d \in ClockState
  BY <1>1, SynthField
<1>3. QED
  BY <1>2, OnField

(* The values STARTADC sends are in range.                                  *)
LEMMA ClockSettings ==
  ASSUME NEW f \in Nat, 8 <= f, f <= 150000
  PROVE  LET g == frequency(f)
         IN /\ <<P1(mult(g), num(g)), P2(num(g))>> \in PllState
            /\ <<divider(g), Doublings(f)>> \in SynthState
<1> DEFINE g == frequency(f)
<1>1. g \in Nat /\ 1000 <= g /\ g <= 150000 /\ Doublings(f) \in 0 .. 7
  BY Doubled, SMT
<1> HIDE DEF g
<1>2. <<divider(g), Doublings(f)>> \in SynthState
  BY <1>1, PllInRange, SMT DEF SynthState
<1>3. /\ mult(g) \in Nat /\ 15 <= mult(g) /\ mult(g) <= 90
      /\ num(g) \in Nat /\ num(g) <= 1048536
  BY <1>1, MultInRange, SMT
<1>4. /\ P1(mult(g), num(g)) \in Int /\ 1408 <= P1(mult(g), num(g))
      /\ P1(mult(g), num(g)) <= 11135
      /\ P2(num(g)) \in Int /\ -3 <= P2(num(g)) /\ P2(num(g)) <= denom - 1
  BY <1>3, ParametersInRange, SMT
<1> DEFINE a == P1(mult(g), num(g))
           b == P2(num(g))
<1>5. a \in Int /\ 1408 <= a /\ a <= 11135 /\ b \in Int /\ -3 <= b /\ b <= denom - 1
  BY <1>4
<1> HIDE DEF a, b
<1>6. a \in P1State /\ b \in P2State
  <2>1. denom - 1 \in Int /\ -3 \in Int
    BY SMT DEF denom
  <2>2. QED
    BY <1>5, <2>1, SMT DEF P1State, P2State
<1>7. <<a, b>> \in PllState
  BY <1>6, Pair DEF PllState
<1>8. QED
  BY <1>2, <1>7, SMT DEF g, a, b

(* STARTADC, whichever of its transfers get through. *)
LEMMA ClockStep ==
  ASSUME clock \in ClockState, NEW f \in AdcFreqs, STARTADC(f)
  PROVE  clock' \in ClockState
<1>1. CASE f = 0
  <2>1. clock' \in {clock, [clock EXCEPT !.on = FALSE]}
    BY <1>1 DEF STARTADC
  <2>2. [clock EXCEPT !.on = FALSE] \in ClockState
    BY OnField
  <2>3. QED
    BY <2>1, <2>2
<1>2. CASE f # 0
  <2>1. f \in Nat /\ 8 <= f /\ f <= 150000
    BY <1>2, FirmwareAssumption, SMT
  <2> DEFINE pq == <<P1(mult(frequency(f)), num(frequency(f))), P2(num(frequency(f)))>>
             sy == <<divider(frequency(f)), Doublings(f)>>
  <2>2. pq \in PllState /\ sy \in SynthState
    BY <2>1, ClockSettings
  <2>3. \E c \in {clock, [clock EXCEPT !.pll = pq]} :
           \E d \in {c, [c EXCEPT !.synth = sy]} : clock' \in {d, [d EXCEPT !.on = TRUE]}
    BY <1>2 DEF STARTADC
  <2> HIDE DEF pq, sy
  <2>4. QED
    BY <2>2, <2>3, Transfers
<1>3. QED
  BY <1>1, <1>2

-----------------------------------------------------------------------------
(* Send keeps the queue a queue of messages within its length.              *)
LEMMA SendType ==
  ASSUME EventAvailable \in Seq(Messages), Len(EventAvailable) <= QueueLen,
         NEW m \in Messages, Send(m)
  PROVE  EventAvailable' \in Seq(Messages) /\ Len(EventAvailable') <= QueueLen
  BY FirmwareAssumption, SMT DEF Send, Fits

(* The bound on callbacks counts.                                           *)
LEMMA CallbackType ==
  ASSUME callbacks \in Nat, Called
  PROVE  callbacks' \in Nat
  BY SMT DEF Called

(* Booting finds one of the radios the firmware knows.                      *)
LEMMA DetectedRadio ==
  ASSUME NEW c \in BOOLEAN, NEW t, NEW low
  PROVE  Detected(c, t, low) \in Radios
  BY SMT DEF Detected, Radios

(* A reboot sets every variable but the clock's to one of its type.         *)
LEMMA RebootType ==
  ASSUME TypeOK, Reboot, callbacks' \in Nat
  PROVE  TypeOK'
<1>1. /\ app' \in {"boot", "loop", "received", "command"}
      /\ HWconfig' \in Radios /\ glIsApplnActive' \in BOOLEAN
  BY DEF Reboot, Radios
<1>5. EventAvailable' \in Seq(Messages) /\ Len(EventAvailable') <= QueueLen
  BY FirmwareAssumption, SMT DEF Reboot
<1>2. /\ Qevent' \in Messages /\ took' \in Messages /\ ConsoleInIndex' \in 0 .. BufLen
      /\ channel' \in {"none", "idle", "armed"} /\ owed' \in Int
  BY FirmwareAssumption, SMT DEF Reboot, Messages
<1>3. swInput' \in BOOLEAN /\ lpm' \in BOOLEAN /\ streaming' \in BOOLEAN /\ clock' \in ClockState
  BY DEF Reboot, TypeOK
<1>4. QED
  BY <1>1, <1>2, <1>3, <1>5 DEF TypeOK

(* Every step keeps every type. *)
LEMMA TypeStep ==
  ASSUME TypeOK, [Next]_vars
  PROVE  TypeOK'
<1> USE DEF TypeOK, console, stream
<1>b. CASE Boot
  <2>1. HWconfig' \in Radios
    BY <1>b, DetectedRadio, SMT DEF Boot, Radios
  <2>2. [clock EXCEPT !.on = FALSE] \in ClockState
    BY OnField
  <2>3. clock' \in ClockState
    BY <1>b, <2>2 DEF Boot
  <2>4. app' = "loop" /\ UNCHANGED <<console, stream, callbacks>>
    BY <1>b DEF Boot
  <2>5. QED
    BY <2>1, <2>3, <2>4
<1>r. CASE Receive
  <2>1. EventAvailable' \in Seq(Messages) /\ Len(EventAvailable') <= QueueLen
        /\ Head(EventAvailable) \in Messages
    BY <1>r, FirmwareAssumption, SMT DEF Receive
  <2>2. /\ app' = "received" /\ Qevent' = Head(EventAvailable) /\ took' = Head(EventAvailable)
        /\ UNCHANGED <<HWconfig, clock, ConsoleInIndex, owed, stream, callbacks>>
    BY <1>r DEF Receive
  <2>3. QED
    BY <2>1, <2>2
<1>m. CASE MsgParsing
  BY <1>m, SMT DEF MsgParsing
<1>p. CASE ParseCommand
  <2>1. CASE Reboot /\ UNCHANGED callbacks
    BY <2>1, RebootType
  <2>2. CASE /\ app' = "loop" /\ ConsoleInIndex' = 0
             /\ UNCHANGED <<HWconfig, clock, EventAvailable, Qevent, took, owed, stream, callbacks>>
    BY <2>2, FirmwareAssumption, SMT
  <2>3. QED
    BY <1>p, <2>1, <2>2 DEF ParseCommand
<1>s. CASE SETCONF
  <2>1. EventAvailable' \in Seq(Messages) /\ Len(EventAvailable') <= QueueLen
    BY <1>s, SendType DEF SETCONF, SendEvent, Messages
  <2>2. swInput' \in BOOLEAN
    BY <1>s DEF SETCONF
  <2>3. QED
    BY <1>s, <2>1, <2>2, CallbackType DEF SETCONF, Callback, SendEvent
<1>u. CASE Unconfigured
  <2>1. EventAvailable' \in Seq(Messages) /\ Len(EventAvailable') <= QueueLen
    BY <1>u, SendType DEF Unconfigured, SendEvent, Messages
  <2>2. glIsApplnActive' \in BOOLEAN /\ lpm' \in BOOLEAN
    BY <1>u DEF Unconfigured
  <2>3. channel' \in {"none", "idle", "armed"}
    BY <1>u DEF Unconfigured
  <2>4. QED
    BY <1>u, <2>1, <2>2, <2>3, CallbackType DEF Unconfigured, Callback, SendEvent
<1>o. CASE OtherEvent
  <2>1. EventAvailable' \in Seq(Messages) /\ Len(EventAvailable') <= QueueLen
    BY <1>o, SendType DEF OtherEvent, SendEvent, Messages
  <2>2. QED
    BY <1>o, <2>1, SMT DEF OtherEvent, Callback, Called, SendEvent
<1>c. CASE ClearFeature
  BY <1>c, SMT DEF ClearFeature, Callback, Called, SetXfer
<1>3. CASE STARTFX3
  <2>1. streaming' \in BOOLEAN /\ lpm' \in BOOLEAN /\ swInput' \in BOOLEAN
    BY <1>3 DEF STARTFX3
  <2>2. channel' \in {"none", "idle", "armed"}
    BY <1>3, SMT DEF STARTFX3, SetXfer
  <2>3. QED
    BY <1>3, <2>1, <2>2, SMT DEF STARTFX3, Callback, Called
<1>4. CASE STOPFX3
  <2>1. streaming' \in BOOLEAN /\ lpm' \in BOOLEAN /\ swInput' \in BOOLEAN
    BY <1>4 DEF STOPFX3
  <2>2. channel' \in {"none", "idle", "armed"}
    BY <1>4, SMT DEF STOPFX3, ResetXfer
  <2>3. QED
    BY <1>4, <2>1, <2>2, SMT DEF STOPFX3, Callback, Called
<1>5. CASE RESETFX3
  <2>1. callbacks' \in Nat
    BY <1>5, SMT DEF RESETFX3, Callback, Called
  <2>2. QED
    BY <1>5, <2>1, RebootType DEF RESETFX3
<1>k. CASE Called /\ ReturnKey
  <2>1. EventAvailable' \in Seq(Messages) /\ Len(EventAvailable') <= QueueLen
    BY <1>k, SendType DEF ReturnKey, Messages
  <2>2. Qevent' \in Messages
    BY <1>k DEF ReturnKey, Messages
  <2>3. QED
    BY <1>k, <2>1, <2>2, SMT DEF ReturnKey, Called
<1>y. CASE Called /\ OtherKey
  BY <1>y, FirmwareAssumption, SMT DEF OtherKey, Called
<1>w. READINFODEBUG \/ UartCallback => Called /\ (ReturnKey \/ OtherKey)
  BY DEF READINFODEBUG, UartCallback, Callback
<1>a. ASSUME NEW f \in AdcFreqs, STARTADC(f)
      PROVE  TypeOK'
  <2>1. clock' \in ClockState
    BY <1>a, ClockStep
  <2>2. Callback /\ UNCHANGED <<app, HWconfig, console, stream>>
    BY <1>a DEF STARTADC
  <2>3. QED
    BY <2>1, <2>2, SMT DEF Callback, Called
<1>v. CASE UNCHANGED vars
  BY <1>v, SMT DEF vars
<1>6. QED
  BY <1>b, <1>r, <1>m, <1>p, <1>s, <1>u, <1>o, <1>c, <1>3, <1>4, <1>5, <1>k, <1>y, <1>w,
     <1>a, <1>v DEF Next, ApplicationThread, UsbThread

(* Types hold in every reachable state; with ClockState, whatever the rate  *)
(* asked for and whichever transfers fail, the clock chip is only ever set  *)
(* to multipliers of 15 to 90 times the crystal.                            *)
THEOREM TypeCorrect == Spec => []TypeOK
<1>1. Init => TypeOK
  <2> SUFFICES ASSUME Init PROVE TypeOK
    OBVIOUS
  <2>1. clock \in ClockState
    BY ClockOffOK DEF Init
  <2>2. /\ app \in {"boot", "loop", "received", "command"}
        /\ HWconfig \in Radios /\ glIsApplnActive \in BOOLEAN
    BY DEF Init, Radios
  <2>6. EventAvailable \in Seq(Messages) /\ Len(EventAvailable) <= QueueLen
    BY FirmwareAssumption, SMT DEF Init
  <2>3. /\ Qevent \in Messages /\ took \in Messages /\ ConsoleInIndex \in 0 .. BufLen
        /\ channel \in {"none", "idle", "armed"} /\ owed \in Int /\ callbacks \in Nat
    BY FirmwareAssumption, SMT DEF Init, Messages
  <2>4. swInput \in BOOLEAN /\ lpm \in BOOLEAN /\ streaming \in BOOLEAN
    BY DEF Init
  <2>5. QED
    BY <2>1, <2>2, <2>3, <2>4, <2>6 DEF TypeOK
<1>2. TypeOK /\ [Next]_vars => TypeOK'
  BY TypeStep
<1>3. QED
  BY <1>1, <1>2, PTL DEF Spec

-----------------------------------------------------------------------------
(* An inactive application has no channel; the rest is StreamArmed.         *)
StreamInv == StreamArmed /\ (channel = "none" <=> ~glIsApplnActive)

(* The stream stays armed, for any sequence of requests and events.         *)
THEOREM Armed == Spec => []StreamArmed
<1>1. Init => StreamInv
  BY DEF Init, StreamInv, StreamArmed
<1>2. TypeOK /\ StreamInv /\ [Next]_vars => StreamInv'
  <2> SUFFICES ASSUME TypeOK, StreamInv, [Next]_vars
               PROVE  StreamInv'
    OBVIOUS
  <2> USE DEF StreamInv, StreamArmed, stream
  <2>1. CASE ApplicationThread
    <3>1. CASE Boot \/ Receive \/ MsgParsing
      BY <3>1 DEF Boot, Receive, MsgParsing
    <3>2. CASE ParseCommand
      BY <3>2, SMT DEF ParseCommand, Reboot
    <3>3. QED
      BY <2>1, <3>1, <3>2 DEF ApplicationThread
  <2>2. CASE SETCONF
    BY <2>2, SMT DEF SETCONF
  <2>3. CASE Unconfigured
    BY <2>3, SMT DEF Unconfigured
  <2>4. CASE OtherEvent
    BY <2>4 DEF OtherEvent
  <2>5. CASE ClearFeature
    BY <2>5, SMT DEF ClearFeature, SetXfer
  <2>6. CASE STARTFX3
    <3>1. channel' = SetXfer /\ (streaming' <=> channel # "none") /\ lpm' = FALSE
          /\ swInput' = TRUE /\ UNCHANGED glIsApplnActive
      BY <2>6 DEF STARTFX3
    <3>2. CASE channel = "none"
      BY <3>1, <3>2 DEF SetXfer
    <3>3. CASE channel # "none"
      BY <3>1, <3>3 DEF SetXfer
    <3>4. QED
      BY <3>2, <3>3
  <2>7. CASE STOPFX3
    BY <2>7, SMT DEF STOPFX3, ResetXfer
  <2>8. CASE RESETFX3
    BY <2>8, SMT DEF RESETFX3, Reboot
  <2>9. CASE READINFODEBUG \/ UartCallback
    BY <2>9 DEF READINFODEBUG, UartCallback, ReturnKey, OtherKey
  <2>10. ASSUME NEW f \in AdcFreqs, STARTADC(f)
         PROVE  StreamInv'
    BY <2>10 DEF STARTADC
  <2>11. CASE UNCHANGED vars
    BY <2>11 DEF vars
  <2>12. QED
    BY <2>1, <2>2, <2>3, <2>4, <2>5, <2>6, <2>7, <2>8, <2>9, <2>10, <2>11 DEF Next, UsbThread
<1>3. StreamInv => StreamArmed
  BY DEF StreamInv
<1>4. QED
  BY <1>1, <1>2, <1>3, TypeCorrect, PTL DEF Spec

-----------------------------------------------------------------------------
(* The word a command was received into may be overwritten before the       *)
(* application thread looks at it, but only by another command, as events   *)
(* are sent from a word of their own: no command is mistaken for an event.  *)
CommandKept == app = "received" /\ took = "command" => Qevent = "command"

(* A received command is still one when the application thread looks at it. *)
THEOREM CommandsKept == Spec => []CommandKept
<1>1. Init => CommandKept
  BY DEF Init, CommandKept
<1>2. CommandKept /\ [Next]_vars => CommandKept'
  <2> SUFFICES ASSUME CommandKept, [Next]_vars
               PROVE  CommandKept'
    OBVIOUS
  <2> USE DEF CommandKept, console
  <2>1. CASE Boot \/ Receive \/ MsgParsing
    BY <2>1 DEF Boot, Receive, MsgParsing
  <2>2. CASE ParseCommand
    BY <2>2, SMT DEF ParseCommand, Reboot
  <2>3. CASE SETCONF \/ Unconfigured \/ OtherEvent
    BY <2>3 DEF SETCONF, Unconfigured, OtherEvent, SendEvent
  <2>4. CASE ClearFeature \/ STARTFX3 \/ STOPFX3
    BY <2>4 DEF ClearFeature, STARTFX3, STOPFX3
  <2>5. CASE RESETFX3
    BY <2>5, SMT DEF RESETFX3, Reboot
  <2>6. CASE READINFODEBUG \/ UartCallback
    BY <2>6 DEF READINFODEBUG, UartCallback, ReturnKey, OtherKey
  <2>7. ASSUME NEW f \in AdcFreqs, STARTADC(f)
        PROVE  CommandKept'
    BY <2>7 DEF STARTADC
  <2>8. CASE UNCHANGED vars
    BY <2>8 DEF vars
  <2>9. QED
    BY <2>1, <2>2, <2>3, <2>4, <2>5, <2>6, <2>7, <2>8 DEF Next, ApplicationThread, UsbThread
<1>3. QED
  BY <1>1, <1>2, PTL DEF Spec
=============================================================================
