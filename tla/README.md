# A verification project for the RX888 software

TLA+ modules, TLC configurations and TLAPS proofs for the software in this
repository: the firmware of an FX3-based receiver, and the library that streams
samples from it over USB, converts them to complex baseband, sets the radio, and
hands the samples to an application. Paths below are relative to the
repository's `src` (`core/...`, `firmware/...`).

Run a check with `tlc -config Ring.cfg RingBuffer`, a proof with
`tlapm RingBufferProofs.tla`. `PROJECT.json` lists every run, what it checks,
the source lines every definition stands for, the mutants that show each
property can fail, the hazards, the findings and the theorems.

## 1. Inventory

| Component | State | Operations | Talks to |
|---|---|---|---|
| **Ring buffer** `core/dsp/ringbuffer.h` | `read_index`, `write_index`, `stopped`, mutex, two condition variables | `getReadPtr`, `peekReadPtr`, `ReadDone`, `getWritePtr`, `WriteDone`, `Start`, `Stop` | one reader thread, one writer thread, the owner |
| **USB streaming (Linux)** `core/arch/linux/streaming.c`, `FX3handler.cpp` | transfers, `active_transfers`, `status`, `run`, poll thread | `StartStream`, `StopStream`, `streaming_*`, completion callback | libusb, input ring |
| **USB device access (Linux)** `usb_device.c`, `ezusb.c` | libusb context and handle | enumerate, open, upload firmware, control transfers | firmware |
| **USB handler (Windows)** `core/arch/win32/FX3handler.cpp` | `fx3dev`, four overlapped transfers, thread | same interface, transfers queued ahead of the ring | CyAPI driver |
| **r2iq conversion** `core/fft_mt_r2iq.*` | `r2iqOn`, `mdecimation`, `sideband`, `mtunebin`, thread | `TurnOn`, `TurnOff`, `setFreqOffset`, thread function | input ring, output ring |
| **RadioHandler** `core/RadioHandler.cpp` | `run`, `modeRF`, `fc`, flags, submit and statistics threads, `stop_mutex` | `Start`, `Stop`, `UpdatemodeRF`, `TuneLO`, gains, options | all of the above, the application's `Callback` |
| **Radio hardware** `core/radio/*.cpp` | GPIO word, rate | `UpdatemodeRF`, `PrepareLo`, `TuneLo`, `UpdateattRF`, `UpdateGainIF` | firmware commands |
| **Front ends** `soapy/Settings.cpp`, `libsddc/`, `extio/` | ExtIO: frequency, attenuator and gain index per mode | tune, set gains, antenna and flags, open and close | RadioHandler |
| **SoapySDR stream** `soapy/Streaming.cpp` | circle of 16 buffers, `_buf_count`, `_overflowEvent` | `activateStream`, `readStream`, direct buffer calls | RadioHandler's `Callback` |
| **Firmware application** `firmware/USBhandler.c`, `StartStopApplication.c`, `RunApplication.c`, `DebugConsole.c` | active flag, DMA channel, GPIF input, event queue, console line | USB events, vendor requests, the application thread | host, drivers |
| **Firmware drivers** `firmware/driver/*.c` | shadow of the tuner's registers, caches of VCO current, input, VGA index | init, standby, tune, gains; clock frequency | I2C |

### How the parts interact

`Start` creates four threads; blocks of samples move between three of them:

    libusb -> poll thread --inputbuffer--> r2iq thread --outputbuffer--> submit thread -> Callback

Both rings apply back-pressure: a slow `Callback` stops the submit thread, then
the conversion, then the poll thread inside a USB callback. `Stop` lowers the
flags, stops both rings, which releases whoever waits in them, and joins the
threads in a fixed order. SoapySDR adds a last, lossy stage: `Callback` drops a
block when the sixteen buffers are full.

Settings take the other way: a front end calls `RadioHandlerClass`, which calls
the class of the radio, which sends one USB command per change; the firmware
writes a pin, the clock chip, an attenuator or the tuner. Nobody looks at the
answer, and each level keeps its own idea of the state of the next.

### What is hard

* **Lock-free looks at shared indices.** The rings spin on `read_index` and
  `write_index` without the mutex and notify only on the empty/full edge.
* **Stopping.** `Stop` writes indices that mean nothing in order to get threads
  out; late blocks are still written afterwards. The order of the stop steps
  decides whether the joins return.
* **Completion callbacks on any thread.** libusb runs them wherever events are
  handled: poll thread, drain loop, or a thread inside a control transfer.
* **Failure.** Failed transfers change a counter the stop loop waits on; failed
  commands leave device and host apart; a failed I2C transfer leaves the
  tuner's shadow registers ahead of the chip.
* **Copies of one fact.** The mode is in the handler, in the GPIO word, in r2iq's
  sideband and in ExtIO's settings; gains, VCO current and input are cached.
* **Captured state.** The conversion reads sideband and decimation once per
  session, the tuning per block, the fine tuning elsewhere.
* **Restarts.** Buffers partly read, flags not initialised, overflow announced
  across threads; the DMA channel rearmed by four different requests.
* **A word with three users.** The firmware's console, over USB and over the
  UART, announces commands through the word its application thread receives
  them into.
* **One frequency, corrected and not.** ExtIO chooses between HF and VHF by the
  LO it is given and tunes the one its ppm correction makes of it.

`PROJECT.json` lists these and more at the lines where they bite, each with the
properties that cover it, or why none does.

### What makes each part correct

* Ring: every block once, in order, never overwritten while it or its successor
  is being converted; nobody sleeps for ever; `Stop` releases both sides.
* Streaming: nothing in flight is freed; the count is exact; `StopStream`
  returns; a lost transfer shows in the status.
* Session: a returned `Stop` leaves nothing running; rings restart only when
  nobody is in them; output follows input, whole groups, in order.
* SoapySDR: no stale, repeated or half-overwritten buffer; losses announced.
* Settings: the copies of the mode agree; after a change of mode the device is
  set as remembered for that mode; a gain asked for is the gain chosen.
* Tuner driver: what it reports done is in the chip, its caches tell the truth,
  its loops end with the calibration clock off.
* Firmware: an accepted start of the stream survives every other request; a
  command that fitted the queue is parsed; the clock gets valid parameters.

## 2. Modules

| Module | Models | Notes |
|---|---|---|
| `BlockChannel` | what a ring promises: a bounded FIFO that can be opened and closed | abstract specification |
| `RingBuffer` | `ringbuffer.h` with reader, writer and owner loops | implements `BlockChannel` (`IsChannel`) |
| `RadioPipeline` | `RadioHandler` `Start`/`Stop`, r2iq, submit, statistics and poll threads | built on two `BlockChannel`s |
| `Streaming` | `streaming.c` and the Linux `StartStream`/`StopStream` | below what `RadioPipeline` calls StartStream, StopStream and PollLoop |
| `SoapyStream` | buffer circle behind `readStream` | the application side of `Callback` |
| `RadioHardware` | the classes BBRF103, RX888, RX888r2, RX888r3: what they compute and the commands of a change of mode | operators |
| `RadioControl` | RadioHandler's settings under ExtIO, SoapySDR and libsddc, and the device | uses `RadioHardware` |
| `TunerPll` | the arithmetic of `r82xx_set_mux` and `r82xx_set_pll` | operators |
| `TunerR82xx` | the R820T/R828D driver and its requests, one I2C transfer a step | uses `TunerPll` |
| `Si5351` | the arithmetic of the clock chip's driver | operators |
| `FirmwareApp` | the firmware's USB callbacks and its application thread | uses `Si5351` |
| `RingBufferProofs`, `PipelineProofs`, `StreamingProofs`, `SoapyProofs`, `RadioControlProofs`, `TunerProofs`, `FirmwareProofs` | theorems about the modules they are named for | TLAPS |
| `RadioSettingsProofs` | more theorems about `RadioControl` | extends `RadioControlProofs` |

Definitions are named after the functions they model; where a function is
several atomic steps the steps have names of their own (`StopReadIndex`,
`StopFlag`, `StopWriteIndex`). Definitions marked `(* mutant *)` are the broken
variants of the definition that follows; no specification uses them.

**RingBuffer.** Each access to shared memory another thread can see is a step.
The spin loop reads the index its own thread owns, then the other's. `Stop`
holds the mutex for three steps, since the spinning thread sees each of its
writes; a critical section that writes one index is one step. `rslot`, `rtail`,
`wslot` are the pointers the callers hold. Slots contain block numbers, 0 for
leftovers of an earlier session. The counters kept for statistics are left out.

**RadioPipeline.** One value of `pc` per caller of `Start` and `Stop`. Threads
are created and exit as in the code; `joinable` is the set of `std::thread`
objects that hold one. An input block is a number, an output block is the
sequence of input blocks it was made of and the sideband used. `fc` is reduced
to whether it is negated. What the model assumes: no call overlaps a `Start`,
because `Start` takes no lock after its own call of `Stop`. Calls of `Stop` may
overlap, which is what `stop_mutex` is for.

**Streaming.** `xfer` records for each transfer whether it is unused, with the
device, being cancelled, or finished with its callback due. A callback is a
sequence of steps (test the status, hand over data, resubmit, or mark failed,
uncount, cancel), on whichever thread handles events. `control` chooses per
behaviour whether other threads issue synchronous control transfers.
`NoSilentLoss`, `NoCallbackAfterClose` and `NoDataAfterJoin` are stated for
behaviours without them: with them a callback can outlive its stream
(`streaming.c:393`) and `:254` can overwrite FAILED, as the hazards say.

**SoapyStream.** Callback's test of `_buf_count`, its write, its count and its
notification are four steps, against the steps of `acquireReadBuffer`. The
constructor leaves the two flags uninitialised, so they start with any value.

**RadioControl.** A call of a front end puts the commands it sends in `todo`,
and each is a step: it takes effect, or (at most `MaxFaults` times) is lost, or
takes effect and its answer is lost. The record `dev` is what the commands
reach: pins, the attenuator's and the VGA's word, the tuner's state, gains and
frequency. Gains are indices, except that a value given to `setGain` is placed
between the steps of the list it is looked up in, since which step it selects is
the question. `SetHWLOdbl` is the one call that changes the mode and restores
the plug-in's settings. It chooses the mode by the LO it is given
(`ExtIO_sddc.cpp:472`) and tunes that LO divided by `FreqCorrectionFactor`
(`:504`); what it keeps in `gfLOfreq` is the product of factor and tuned LO
(`:506`), which is no whole number, so the model keeps the two apart, as a
record. `Corrected` divides and cuts to a whole number, as the conversion into
`TuneLO` does (of kHz here and Hz there), and `InternalLo` is what a later
retuning makes of `gfLOfreq`: `SetOverclock`, and `SetPPMvalue`, which changes
the correction and retunes at the same rate. The correction is 0 or what the
settings had saved. `InitHW` starts with a new GPIO word and a new r2iq
(`RadioHandler.cpp:94`), so nothing is derandomised, mirrored or tuned until it
is asked for again. What is remembered of the past to state the properties:
whether the mode was switched through this hardware object (`switched`), whether
a command failed since (`clean`), whether the GPIO word was delivered
(`gpioOk`).

**TunerR82xx.** `chip` and `regs` are the registers and the driver's shadow, by
fields; a transfer writes whole registers from the shadow. `pc` names the next
transfer of the request, with the way out the code takes when it fails.
`tuned`, `gained`, `vgaSet` and `initOk` record what the driver returned. Loops
are as in the code: two calibrations, two looks at the lock, a second pass over
the fifth harmonic. Requests do not overlap: the firmware serves them in the USB
thread, one after the other.

**FirmwareApp.** A callback of the USB thread is one step, since that thread has
the higher priority; the application thread's steps lie between them. The UART
callback (`DebugConsole.c:259`) is a third actor: it handles a key as
READINFODEBUG does, in a queue and through a word they share, and also while the
application thread is still starting up. `streaming` records that the last
STARTFX3 was answered and nothing ended it, `owed` counts commands the queue
took that have not been parsed. `clock` holds what the clock chip was sent, as
two registers and two dividers; the transfers of one setting may stop anywhere.

## 3. Runs

| Run | Bounds | States | Shows |
|---|---|---|---|
| `ring` | 4 slots, 6 blocks, 5 late blocks | 518 373 | `OverlapStable`, `BlocksInOrder`, `NoLostWakeup`; `IsChannel`: the ring implements `BlockChannel`; `StopReleases`, `BlocksArrive` |
| `pipeline` | 2 callers, rings of 1, decimation 1 and 2, 7 packets | 112 424 | `StoppedOnReturn`, `BlocksConverted`, `RingsStartAlone`, `SidebandUsed`, `StopCompletes`, `PacketsReachCallback` |
| `pipeline_sideband` | mode changes during a session | | *violated*: `SidebandUsed` |
| `stream_session` | 3 transfers | | `ActiveCount`, `NoFreeInFlight`, `NoCallbackAfterClose`, `NoDataAfterJoin`, `NoSilentLoss`, `StopReturns` |
| `stream_cancel_all` | 2 transfers | | *violated*: `FailureCancelsAll` |
| `soapy_read` | 3 buffers, 2 reads each, 8 blocks, 3 sessions | | `HeldStable`, `NoLostWakeup`, `FreshBlocks`, `GapReported` |
| `soapy_restart` | restart inside a buffer | | *violated*: `FreshBlocks` |
| `radio_control` | 3 radios, 2 front ends, 5 calls, 1 failure, 2 corrections | 6.09 million | `PinsFollow`, `ModeAgrees`, `SettingsOfMode`, `TunedInBand`, `RfGainAsAsked` |
| `radio_vga` | ExtIO | | *violated*: `VgaRestored` |
| `radio_ifgain` | SoapySDR | | *violated*: `IfGainAsAsked` |
| `tuner` | both tuners, 3 requests, 1 failed transfer | 305 131 | `DoneAsReported`, `CalibrationEnds`, `VcoCurrentKnown`, `RequestsEnd` |
| `firmware_app` | queue of 2, line of 2, 7 callbacks, 3 rates | 401 966 | `StreamArmed`, `CommandsArrive`, and in `TypeOK` the ranges of the clock's parameters |

Each passing run also checks its module's `TypeOK`.

Why the bounds are enough.

* *ring*: four slots let the queue be empty, full and in between while each
  index wraps; six blocks take both indices past the wrap; five late blocks walk
  `write_index` from where `Stop` leaves it past both "full" and "empty".
  `StopReleases` makes an exception for `N - N/2` or more late blocks, which can
  bring the stopped ring back to empty before the woken reader has run; the
  program has 64 slots, hence 32, and at most 16 transfers in flight.
* *pipeline*: seven packets fill both rings of one, with either decimation, with
  a block in the converter and one in the poll thread's hands, the worst moment
  for `Stop`. One thread calls `Start` and both call `Stop`; since no call
  overlaps a `Start`, a second starter would add renamed behaviours only.
* *stream_session*: three transfers are one more than any argument about "the
  failing one and another" needs; `StreamingProofs` covers any number.
* *soapy_read*: eight blocks fill, overflow and refill three buffers over three
  sessions.
* *radio_control*: five calls set a gain in one mode, leave it, change a flag
  and come back; the frequencies are below the range, in HF just below half of
  the lower ADC rate, between half of the two rates, and in VHF of every radio;
  corrections of 100 ppm either way move the second one across half of the rate; the indices lie on both sides of
  the limits that `UpdateattRF` clamps to and of the sweet point. One failure is
  enough, as no step counts them.
* *tuner*: three requests are init, any other and the one that finds what it
  left; one failed transfer at any place of them. The frequencies lie on both
  sides of the R828D's input switch and of the fifth harmonic's limit; 0 is the
  last frequency again.
* *firmware_app*: a queue of two is full after two keys and one event; seven
  callbacks start a stream, disturb it, and start it again.

Deadlock is checked in the runs of the ring, the pipeline, the streaming and the
SoapySDR stream. In `tuner`, `radio_control` and `firmware_app` the bound on
requests ends the behaviour.

**Fairness.** A host thread that can run does (weak fairness on each thread's
steps, which includes the application returning from `Callback`); a call once
made continues; a USB transfer finishes, at the latest by its timeout; the poll
thread's event handling returns (it has a timeout of a minute and returns after
handling events, hence strong fairness on `PollReturns`); a waiter for
`stop_mutex` is not overtaken for ever. The tuner's requests are served by
straight-line code, so `Serve` is weakly fair; the firmware's callbacks are
short and driven by the host, so the application thread of `FirmwareApp` runs in
the end. Nobody must ever call or request anything, no packet need arrive, no
spurious wakeup is owed, and the chip may never lock or calibrate.

### Findings

1. `core/arch/linux/streaming.c:397` cancels the finished transfer `num_frames`
   times where `:395` says "cancel all the active transfers"
   (`stream_cancel_all`).
2. `soapy/Streaming.cpp:94` and `:153`: restarting a SoapySDR stream inside a
   buffer flushes one buffer too many; the next acquired buffer was never filled
   in this session (`soapy_restart`).
3. `core/fft_mt_r2iq_impl.hpp:6`: the sideband is captured when the conversion
   starts, so switching between HF and VHF during a session leaves blocks
   mirrored one way and fine-tuned the other (`pipeline_sideband`).
4. `firmware/driver/tuner_r82xx.c:2370`: the VGA index is sent only if it differs
   from the last one sent, which initialisation and standby do not forget. After
   HF and back, VHF runs with the default VGA gain instead of the one ExtIO
   restores (`radio_vga`).
5. `soapy/Settings.cpp:214`: `setGain` falls back to the last index of the RF
   list also for the IF list; the highest IF gain announced is that case
   (`radio_ifgain`).

## 4. Proofs

TLC checks the instances above; the theorems hold for every value of the
constants. Each module's invariant is a conjunction of named parts, proved
inductive by one lemma per part or per group of actions; the temporal steps are
the last lines.

**RingBufferProofs**, from `RingAssumption` (at least three slots; any spin
count and bounds): `TypeCorrect`, `OverlapSafe`, `InOrder`, `NoSleeper`, that is
`TypeOK`, `OverlapStable`, `BlocksInOrder` and `NoLostWakeup`. They are not
inductive by themselves. `IInv` adds that, while a session is live,
`Used = nwritten - nread` blocks lie between the indices and the slot at
distance `k` from `read_index` holds block `nread + k + 1`, with the last
released block just behind it; that each thread's remembered index equals its
own index and its last test of the other's index can only have become more
favourable; that a thread past its test still finds a block, or a free slot; and
that a sleeping thread's condition is false. The arithmetic on wrapped indices
is isolated in `SuccSlot`, `PredSlot`, `Gap`, `UsedBounds`, `AfterRead` and
`AfterWrite`. `Implements` (`IsChannel`) is the refinement of `BlockChannel`, for
every ring size and bound: `QueueInv` makes the queue of the
refinement the run of numbers `nread + 1 .. nwritten` (`QueueNumbers`), so
`WriteDone` is `Put` of the next number (`WriteIsPut`), `ReadDone` is `Get`
(`ReadIsGet`), `Start` is `Open`, the first step of `Stop` is `Close` and
everything else a stutter. `BoundInv` says that the bounds of the model keep the
numbers among the channel's blocks.

**PipelineProofs**, for any set of callers, ring capacity and decimations:
`TypeCorrect`, `StopJoinsAll` (`StoppedOnReturn`), `RingsAlone`
(`RingsStartAlone`) and `Converted` (`BlocksConverted`). `StoppedOnReturn`
speaks of one moment of one caller; `CallInv` says who holds `stop_mutex` and
where callers can be together, `ThreadInv` which threads can exist at each place
of the caller that holds it. `BlocksConverted` needs `DataInv`: the input ring
holds the numbers after what the conversion has taken, `pout` the ones gathered,
and every block of the output ring its own group; and `OpenInv`, when the rings
are open. `SidebandAgrees` (`SidebandUsed`) assumes `~LiveModeSwitch`, without
which finding 3 refutes it. `PipelineAssumption` says that `2 ^ d` is a positive
natural number, which for this prover is not a consequence of `d \in Nat`; TLC
evaluates it in every run. `StopShort` is the argument behind `StopCompletes`
without the fairness: whoever is inside `Stop` never waits for something that is
not on its way (`Unblocked`: no ring a thread could wait in is open, no flag it
tests is up), and once the rings are closed `StopLeft`, at most 15, falls with
every step of `Stop`, of the conversion, the submit and the statistics thread,
and of the poll thread after `fx3run` is lowered; no other step raises it.

**StreamingProofs**, for any number of transfers: `TypeCorrect`, `CountCorrect`
(`ActiveCount`), `FreeSafe` (`NoFreeInFlight`), `CloseSafe`
(`NoCallbackAfterClose`), `JoinSafe` (`NoDataAfterJoin`), `LossShows`
(`NoSilentLoss`). The count rests on the callback owning its transfer until it is
uncounted (`CbOwns`) and on what is not yet submitted being idle (`Fresh`); the
three others on `AloneInv`, which says on which thread a callback can be.
`DrainShort` is the argument behind `StopReturns` after the join: while
`streaming_stop` drains, every event lowers `DrainLeft`, at most six for each
transfer and six more, and while the count is not 0 there is one to wait for.
That the poll thread leaves at all is fairness (`PollReturns`).

**SoapyProofs**, for any number of buffers, elements and sessions: `Wakeup`
(`NoLostWakeup`) in every behaviour; `TypeCorrect`, `HeldSafe` (`HeldStable`),
`Fresh` (`FreshBlocks`) and `GapShows` (`GapReported`) under
`~RestartMidBuffer`, without which finding 2 refutes `FreshBlocks`. `PlaceInv`
relates head, tail and count, with the buffer held by the application between
head and tail; `DataInv` says which block each counted buffer holds. `GapInv`
says of every two blocks that follow each other in the circle, and of the places
before the first and after the last, that none is missing between them or that
the loss shows.

**RadioControlProofs**, for any frequencies, rates, indices and gains and any
number of failing commands: `ModesAgree` (`ModeAgrees`), `PinsRecover`
(`PinsFollow`) and `RfGainCorrect` (`RfGainAsAsked`). The first two speak of the
time between calls; what makes them inductive is what is still in `todo` during
one: `ModeInv` says that the step that brings the pins in step with `modeRF` is
pending, and no pending step after it touches those pins; `FlagInv` and
`RandInv` the same of flags and randomisation, with the order of the two steps
of `randout`; `GpioInv` follows the word through every command that may fail.
`GainIndexHalves` is the search of `setGain` for a list of any length.

**RadioSettingsProofs**, for the same: `TypeCorrect` (`TypeOK`), `BandCorrect`
(`TunedInBand`) and `SettingsCorrect` (`SettingsOfMode`). `TypeInv` is narrower
than `TypeOK` in what pending steps carry: a byte that is sent is a byte before
it is sent. `BandCorrect` says that what `SetHWLO` tunes lies in the band if the
correction is not negative, and otherwise at most as far beyond half of the rate
as the correction moves half of the rate itself. The code promises no more: at
-10 ppm and 64 MS/s a LO of 31.9999 MHz is left to HF and tuned to 32.0002 MHz,
as the mode is chosen before the correction. Its arithmetic is `CorrectedOrder`:
a correction that is not negative lowers the LO, a negative one raises it, and
what was at most half of another stays so. It needs a factor above 0, hence a
correction above minus a million. `SettingsCorrect` needs `CorrectedTwice`: a
retuning with the same correction tunes the same LO. `BandCorrect` assumes
`RatesCoverIF`, an ADC rate of at least twice the highest intermediate
frequency, 9.14 MHz. The ExtIO dialog keeps to 50 MHz and more
(`extio/tdialog.cpp:414`, `core/config.cpp:6`); a rate restored from the saved
settings (`extio/ExtIO_sddc.cpp:1011`) is not compared with anything, so with a
saved rate below 9.14 MHz the theorem says nothing. `BandInv` is that the tuning
set by `SetHWLO` holds or is the last step pending (`TuneLast`).
`SettingsCorrect` has the longest argument here: between calls the invariant is
`Restored`, that the device is as remembered and what is pending repeats it;
during a switch it is `UnderWay`, which counts the steps of the switch from its
end (`FromEnd`, `NextStep`) and says at each what is already set for good
(`Stage`).

**TunerProofs**, for any frequencies and gains and any failing transfers:
`CalibrationOff` (`CalibrationEnds`), `CurrentKnown` (`VcoCurrentKnown`) and
`Done` (`DoneAsReported`). The driver writes whole registers out of its shadow,
so a field stays as it was set only if chip and shadow agree on it (`Holds`).
`PathInv` says which fields of a tuning hold at each stage, `GainInv` and
`InputInv` the same of the gains and the input, `DoneInv` that later requests
leave them. `TypeCorrect` (`TypeOK`) needs that the LO is never negative
(`TUNERTUNE` is bounded to frequencies above `int_freq`; the code has no such
test, and its subtraction would wrap) and that the range table has an entry for
every LO (`RangeThere`). `RequestsShort` is what `RequestsEnd` needs beside
fairness: a request is over after 61 steps, whatever the chip answers, each of
which lowers `TransfersLeft`; a second calibration after one that failed and a
second tuning, over the fifth harmonic, are the only ways back. `LoMade` is what
the tuner is for: a tuning reported done from 27.657 MHz up has the VCO inside
its range and a quotient and fraction that make exactly the LO, or a fifth of it
when the fifth harmonic is used. From 1770 to 1792 MHz no divider fits, and the
driver's test of the quotient refuses the tuning without the harmonic
(`BeyondRefused`). It does not speak of a LO from 1792 MHz without the harmonic,
which can be reported done in one way: `tuner_r82xx.c:2001` chooses the harmonic
by the frequency passed, before `:2008` replaces 0 by the last frequency, so a
request for 0 after such a tuning goes without, and the quotient of a VCO that
far off wraps in its byte. The host never sends 0 for VHF.

**FirmwareProofs**, for any lengths of queue and line and any rates of the ADC
from 8 kHz to 150 MHz: `TypeCorrect`, `Armed` (`StreamArmed`) and `CommandsKept`,
the reason why `CommandsArrive` holds although the word is shared: what
overwrites a received command is another command. `TypeCorrect` contains the
arithmetic of the clock (`ClockState`): the PLL runs at 15 to 90 times the
crystal for every rate, and P2 is negative, at least -3, only for the numerators
`RoundedUp` names.

Only model-checked: the liveness properties (`StopReleases`, `BlocksArrive`,
`StopCompletes`, `PacketsReachCallback`, `StopReturns`, `RequestsEnd`,
`CommandsArrive`), which need fairness and ENABLED and are out of the prover's
reach; the safety arguments behind three of them are `RequestsShort`,
`StopShort` and `DrainShort`. Every invariant and every step property of the
passing runs is a theorem.

## 5. Not modelled

* **The Windows handler** (`core/arch/win32/FX3handler.cpp`): its transfers are
  queued four slots ahead of the ring and finish in an order that only the
  vendor library CyAPI knows; nothing in the repository states it. The hazards
  name what would be asked of it.
* **USB device access on Linux**: enumeration, firmware upload and control
  transfers are sequential I/O. Their event handling is in `Streaming`, a
  failing command in `RadioControl`. `streaming_open_sync`,
  `streaming_read_sync`, `streaming_reset_status` and the setters of
  `streaming.c` are not called by the program. An open of the stream that fails
  (no endpoint, a frame size that does not fit, no memory for a frame,
  `streaming.c:120-158`) is left out: `StartStream` uses the stream it returns
  without a test (`FX3handler.cpp:82`), so no session begins.
* **Signal processing** (FFT, filters, mixers, derandomisation): floating-point
  functions without control.
* **Other radios and controls**: HF103, RXLUCY and RX999 have subsets of the
  controls of the classes modelled; the mkIII's tuner and preselector take a
  frequency and keep nothing; LEDs, the tables that translate names, gains and
  sample rates, ExtIO's dialogs and its saved settings other than the
  correction.
* **Firmware**: the text of the debug console (a line may be lost or repeated
  when two threads touch it; nothing depends on it), the raw I2C requests, the
  boards' pin and shift-register code, boards that do not re-enumerate, the
  RDA5815 and ADF4351.
* **Vendored code**: pffft, the FX3 SDK, CyAPI, and generated tables. They are
  three quarters of the repository's lines.
* Two threads changing the same setting at once (an ExtIO timer and a tuning
  call): nothing in the code locks it, so every outcome is possible.

## 6. Plan

1. *(done)* `RingBuffer`, `BlockChannel`, `Streaming`, `SoapyStream`,
   `RadioPipeline` and their runs.
2. *(done)* `RadioControl`, `TunerR82xx`, `FirmwareApp` and what they use.
3. *(done)* Proofs about every module with a state, of every invariant the
   passing runs check, and the refinement of `BlockChannel`.
4. The arguments behind `BlocksArrive` and `PacketsReachCallback`, as
   `StopShort` is behind `StopCompletes`: that a block that has entered a ring
   of an open session always has a thread that can take it further.
5. `WinTransfers`, once the order of completions is known.
