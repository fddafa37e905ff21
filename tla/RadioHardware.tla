---------------------------- MODULE RadioHardware ----------------------------
(***************************************************************************)
(* The radio classes of src/core/radio: what each decides from a frequency *)
(* or a gain index, and the commands it sends to switch the mode.          *)
(* Frequencies and rates are in kHz.                                       *)
(***************************************************************************)
EXTENDS Integers, Sequences

RadioModels == {"BBRF103", "RX888r2", "RX888r3"}
Modes == {"HFMODE", "VHFMODE"}

ATT_SEL == {"ATT_SEL0", "ATT_SEL1"}
SwitchPins(model) == IF model = "BBRF103" THEN ATT_SEL ELSE {"VHF_EN"}

(* The classes read the mode off their GPIO word.                           *)
HardwareMode(model, gpios) ==
  IF model = "BBRF103" THEN IF gpios \cap ATT_SEL = {} THEN "VHFMODE" ELSE "HFMODE"
                       ELSE IF "VHF_EN" \in gpios THEN "VHFMODE" ELSE "HFMODE"

PrepareLoFixed(model, freq, SampleRate) ==                            (* mutant *)
  IF freq >= 64000 THEN "VHFMODE" ELSE "HFMODE"

PrepareLo(model, freq, SampleRate) ==
  IF freq < 10 \/ freq > (IF model = "RX888r3" THEN 2150000 ELSE 1750000) THEN "NOMODE"
  ELSE IF freq >= (IF model = "RX888r3" THEN 220000 ELSE SampleRate \div 2)
    THEN "VHFMODE" ELSE "HFMODE"

(* Steps of a call: each sends one command, or none.                        *)
SetPins(pins)   == [op |-> "pins", on |-> pins, off |-> {}]
UnsetPins(pins) == [op |-> "pins", on |-> {}, off |-> pins]
Att(index)      == [op |-> "att", index |-> index]
GainIF(index)   == [op |-> "gainIF", index |-> index]
Vga(byte)       == [op |-> "vga", byte |-> byte]
TunerInit       == [op |-> "init"]
TunerStdby      == [op |-> "stdby"]
SetSideband(b)  == [op |-> "sideband", value |-> b]
SetRand(b)      == [op |-> "rand", value |-> b]
Tune(freq, by)  == [op |-> "tune", freq |-> freq, by |-> by]
StartAdc(rate)  == [op |-> "adc", rate |-> rate]

(* UpdatemodeRF of the classes. *)
VgaOfVhf == 128 + 3
ModeSteps(model, mode) ==
  IF model = "BBRF103"
    THEN IF mode = "VHFMODE" THEN <<UnsetPins(ATT_SEL), TunerInit>>
                             ELSE <<TunerStdby, SetPins(ATT_SEL)>>
    ELSE IF mode = "VHFMODE" THEN <<Att(0), SetPins({"VHF_EN"}), Vga(VgaOfVhf), TunerInit>>
                             ELSE <<TunerStdby, UnsetPins({"VHF_EN"})>>

Clamp(att, steps) == IF att > steps - 1 THEN steps - 1 ELSE IF att < 0 THEN 0 ELSE att

(* UpdateattRF in HF: the word of the attenuator, or the pins of BBRF103.   *)
hf_rf_step_size == 64
MaxAttenuation  == hf_rf_step_size - 1
AttValueOff(att) == hf_rf_step_size - Clamp(att, hf_rf_step_size)      (* mutant *)
AttValue(att)   == hf_rf_step_size - Clamp(att, hf_rf_step_size) - 1
AttPinsForgetful(att) == IF Clamp(att, 3) = 1 THEN ATT_SEL ELSE {}      (* mutant *)
AttPins(att) == CASE Clamp(att, 3) = 0 -> {"ATT_SEL0"}
                  [] Clamp(att, 3) = 1 -> ATT_SEL
                  [] OTHER             -> {"ATT_SEL1"}

(* UpdateGainIF in HF: the bit of the high mode and the gain below it.      *)
GAIN_SWEET_POINT == 18
VgaByte(gain_index) == IF gain_index > GAIN_SWEET_POINT
                         THEN 128 + (gain_index - GAIN_SWEET_POINT + 3)
                         ELSE gain_index + 1

(* getRFSteps and getIFSteps.                                               *)
RFSteps(model, mode) == CASE mode = "VHFMODE"     -> 29
                          [] model = "BBRF103"    -> 3
                          [] OTHER                -> hf_rf_step_size
IFSteps(model, mode) == CASE mode = "VHFMODE"     -> 16
                          [] model = "BBRF103"    -> 0
                          [] OTHER                -> 127

(* SoapySDDC::setGain looks a value up in a rising list of steps.  Values   *)
(* are given by where they fall: 2 * i is step i, 2 * i + 1 is between it   *)
(* and the next.  A value that falls in no interval takes the last step of  *)
(* the RF list, whatever list it was looked up in.                          *)
GainIndexAbove(rfLen, len, value) ==                                  (* mutant *)
  IF \E i \in 1 .. len - 1 : 2 * (i - 1) <= value /\ value < 2 * i
    THEN CHOOSE i \in 1 .. len - 1 : 2 * (i - 1) <= value /\ value < 2 * i
    ELSE rfLen - 1

GainIndex(rfLen, len, value) ==
  IF \E i \in 1 .. len - 1 : 2 * (i - 1) <= value /\ value < 2 * i
    THEN (CHOOSE i \in 1 .. len - 1 : 2 * (i - 1) <= value /\ value < 2 * i) - 1
    ELSE rfLen - 1

(* TuneLo: the frequency that the converter sees as 0.  The tuner of the   *)
(* mkIII is set to whole MHz, and its HF input undersamples above 64 MHz.   *)
ActualLo(model, mode, freq) ==
  CASE mode = "VHFMODE" /\ model # "RX888r3" -> freq - 4570
    [] mode = "VHFMODE" /\ model = "RX888r3" -> freq - (20000 - (freq % 1000))
    [] mode = "HFMODE" /\ model = "RX888r3" /\ freq < 256000 -> 64000 * (freq \div 64000)
    [] OTHER -> 0
=============================================================================
