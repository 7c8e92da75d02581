# Verification of the rtl2832u driver

TLA+ models, TLC runs and TLAPS proofs for `hyperized/rtl2832u`, a Go user-space
driver for RTL2832U dongles with an R820T/R860 tuner, and for `rtl-probe`, the
terminal program built on it. File and line numbers below refer to the
repository (`src/`).

## 1. The system

`Open` (sdr.go) picks a dongle in sysfs, claims its USB interface through usbfs,
initialises the baseband chip, identifies and programs the tuner over the
chip's I2C bridge and returns a `Receiver`. `Receiver` methods delegate to one
`linuxBackend`. Control requests (demodulator registers, GPIO, tuner registers
through the bridge) are synchronous ioctls made on the caller's goroutine.
Samples arrive through a ring of 32 asynchronous bulk URBs, reaped by one
goroutine that starts with the first `Read` and ends with `Close` or a fault.

| Component | State | Operations | Interacts with |
|---|---|---|---|
| Bulk sample stream (bulk_linux.go; Read, Close, drainOrphanedURBs of usbfs_linux.go) | the URB ring, `streamCh`, `streamDone`, `streamErr`, `streamOnce`, `closed`, `droppedURBs` | Read, ensureStream, startStream, runStreamReaper, dispatchChunk, Close | the kernel's URB queue; every caller of Read and Close |
| Device selection and open flow (usbfs_linux.go, detach_linux.go) | descriptor, claimed interface, kernel driver bound or not | openBackendWithSysfs, selectDevice, claimUSBDevice, configureChipAndTuner | sysfs, usbfs, all of the chip code |
| I2C bridge and tuner shadow (i2c.go, rtl2832u.go, tuner_r860.go) | repeater bit, demod write buffer, shadow registers | withRepeater, i2cWrite/i2cRead, writeRegister, writeRegisterMasked, writeRegisters, readRegisters | control transfers; all tuner operations |
| Tuner operations (tuner_r860_*.go, tuner.go, center_freq.go) | LO, IF, mux, filter and gain registers | SetFreq, setMux, the PLL, applyPostInit, gain and IF-filter setters | the bridge |
| Tuning arithmetic (tuner_r860_pll.go, sample_rate.go, tuner_r860_bandwidth.go, gain_librtlsdr.go) | none | PLL divider, resampler ratio, IF bandwidth, gain ladders | tuner operations |
| Baseband initialisation (init_chip.go) | demod registers | Init, writeDefaultFIR, ResetSampleBuffer | open flow |
| GPIO and bias-tee (bias_tee.go) | GPO, GPOE, GPD bits | setBiasTee and its read-modify-writes | control transfers |
| Gain auto-tune (autotune.go) and sample statistics (sample_stats.go) | the walk's position, the last statistics | AutoTuneLNA, readSampleStats | gain setters and Read |
| Signal statistics (signal_stats.go) | none | register reads, signExtend14 | demod registers |
| Receiver and options (sdr.go) | `config`, backend | Open, Read, Close, With... | everything |
| Device enumeration (sysfs.go, selectDevice) | the dongles found | enumerate, readUSBDevice | sysfs, while devices come and go |
| rtl-probe's command line (main.go) | `config`, byte counts, the capture's file | parseConfig, buildOptions, run, probeIQ, captureIQ | flags, signals, one Receiver |
| rtl-probe's terminal UI (tui.go) | TUI model, frame ring, walkers | key handlers, runSampler, runAutoTune, runSweep | one Receiver, from several goroutines |
| Spectrum (spectrum.go) | the last frame's FFT | windowing, FFT, rendering | the TUI's sampler |

The hard parts are the ones with several actors: the ring and its teardown; the
bridge, which two setters open and close independently; the auto-tune walkers,
which compare frames captured before and after a change nobody synchronised
with the ring; and everything that can fail halfway (an open that must be rolled
back, a register write whose transfer fails after its effect). What makes each
component correct:

* **Stream.** No URB is in the kernel when the interface is released or a start
  has failed; every sample chunk is delivered in order, waiting, or counted as
  dropped; the chunk dropped is the oldest; Close and blocked Reads return;
  what Read and Close report is what happened.
* **Bridge and shadow.** An acknowledged setter has taken effect on the chip, the
  shadow equals the chip, and the bridge is closed between operations.
* **Open flow.** The tuner's LO, its IF filter and the demodulator's DDC agree on
  one IF; every failing step gives back descriptor and interface.
* **Arithmetic.** The result is in range of the register field it is written to,
  and the frequency, rate and filter the chip makes of it are the ones asked for.
* **Options.** The caller's last word on a gain stage is what is programmed,
  through flags, options and the gain ladder.
* **Auto-tune.** The walk ends, within the LNA's range, on a step whose samples
  were taken at that step, and a failure leaves a gain the caller is told of.
* **Enumeration.** The dongle opened is the one that was counted, whatever else
  is plugged or unplugged meanwhile.
* **rtl-probe, command line.** Exit code 0 means that the output is complete; a
  signal takes an opened run to its deferred `Close`.
* **rtl-probe, terminal UI.** The gains on screen are the chip's; a cancelled walker stops.

`PROJECT.json` lists the hazards line by line with the properties aimed at them.

## 2. Modules

| Module | Content |
|---|---|
| `UsbfsUrbs` | the kernel's side of the stream, modelled from how the driver uses it (external) |
| `BulkStream` | the driver's side: readers, reaper, closers, their composition with `UsbfsUrbs`, the properties |
| `LossyFifo` | abstract specification: a bounded FIFO that never refuses the newest item and gives up the oldest |
| `BulkInvariant` | the inductive invariants, in named parts: `IInv` of the ring and its teardown, `DataInv` of the chunks |
| `BulkStreamProofs` | proofs of `IInv` for every ring size and any number of goroutines and faults, of `DataInv` on top of it, and that the channel implements `LossyFifo` |
| `TunerBus` | a tuner operation transfer by transfer: bridge, demodulator latch, shadow, chip, faults, several callers |
| `TunerOps` | the bodies of the gain and IF-filter setters, as `TunerBus` programs |
| `TunerBusInvariant` | `BusInv` (any number of callers, no faults) and `AckInv` (one caller, every fault) |
| `TunerBusProofs` | their proofs, for any register file and any programs |
| `OpenFlow` | Open, its rollback, Close, kill and replug, over a script of register operations |
| `BringUp` | the scripts: every register write of configureChipAndTuner, in order, from the options and the VCO calibration |
| `OpenedRadio` | `OpenFlow` with those scripts, and what an opened radio's registers have to say |
| `OpenFlowProofs` | proofs about `OpenFlow` for every script, that every script of `BringUp` is one they apply to, and what the registers of an opened radio therefore say |
| `AutoTune` | the gain walk, its statistics loop and the sample channel it reads |
| `AutoTuneProofs` | proofs that a long enough settle delay makes every sample fresh, and that the walk then finds the highest quiet step |
| `ProbeTui` | rtl-probe's terminal UI: keys, walkers and sampler around one receiver |
| `ProbeTuiProofs` | proofs that the setters exclude each other, that verdicts are fresh, that the footer shows the chip and that a completed walk leaves the best of its cells |
| `TuningMath` | crystal, resampler, IF filter, PLL and gain ladder in Hz, as functions |
| `TuningMathProofs` | lemmas on what these functions return, for every frequency, rate and correction |
| `Options` | the options in any order, rtl-probe's gain flags, and the words `configureChipAndTuner` computes from them |
| `OptionsProofs` | proofs that the last option on a gain stage, and rtl-probe's flags, are what is programmed, and that the words programmed are the gain, frequency, rate and filter asked for |
| `ProbeRun` | one run of rtl-probe from its flags to its exit code, with the walk over sysfs |
| `ProbeRunProofs` | proofs that exit code 0 means complete output and that the dongle opened is the one counted |
| `MCBulkStream`, `MCTunerBus`, `MCOpenFlow`, `MCOptions`, `MCAutoTune`, `MCProbeTui`, `MCProbeRun` | constants for TLC |

`UsbfsUrbs` is composed into `BulkStream`; `TunerBus` and `OpenFlow` both run the
programs of `TunerOps`, one at the grain of transfers, the other at the grain of
operations (see below); `BringUp` turns them into scripts. `AutoTune` stands on what
`bulk_data` shows of the stream (its channel is a `LossyFifo`) and on what
`AckTookEffect` shows of a setter, and so does `ProbeTui`. Conversely `ProbeTui`'s
`OneSetter` is what the bus needs of the terminal UI: `AckTookEffect` holds for one caller.
`Options` stands on `TuningMath`, of which `BringUp` takes computeSDM, and on the stages of `TunerOps`; it says which words are
programmed, `BringUp` and `OpenFlow` in which registers and in which order. `ProbeRun`'s
Read is what `bulk_life` shows of the stream: it returns, with data, an error, or nothing.

### How BulkStream corresponds to the code

A step is what one goroutine does between two points where another can see it:
one ioctl, one channel operation, one access to a shared variable. `rd[r]`, `rp`
and `cp[c]` are the program counters of a goroutine in `Read`, of the reaper and
of a goroutine in `Close`.

| Code | Actions |
|---|---|
| `Read` (usbfs_linux.go:493) | `ReadCall`, then `EnterOnce`/`LeaveOnce` for ensureStream, then one of the select's cases `ReadTakesChunk`, `ReadIsCancelled`, `ReadSeesEnd` |
| `startStream` (bulk_linux.go:265) | `StartSubmits` per URB, `StartSubmitFails` and `StartUnwinds`, `StartLaunches`; `StartAssigns` stores its result in `streamErr` afterwards, as ensureStream does |
| `runStreamReaper` (bulk_linux.go:323) | `ReaperCallsReap` and `ReaperReaps` (entering and leaving the ioctl), `ReaperAccounts` (closed), `ReaperChecksStatus`, `ReaperSubmits`, `ReaperFinishes`, and the error path `ReaperFailType`, `ReaperFailData` |
| `dispatchChunk` (bulk_linux.go:369) | its three selects: `ReaperTriesSend`, `ReaperEvicts`, `ReaperResends` |
| `Close` (usbfs_linux.go:526) | `CloseCall` (the part under the mutex), `CloseChecksStream`, `CloseDiscards` per URB, `CloseWaits`, `CloseDrains`/`CloseDrained`, `CloseReleases`, `CloseClosesFd` |

Abstractions. A chunk is the number of the transfer that carries it. The
sequences of DISCARDURB and REAPURB in `unwindSubmittedURBs` are one step, since
no other goroutine looks at the ring before the stream exists (a Close that runs
at that time skips it). The URB addresses the kernel hands back are the URBs
themselves. EINTR and EAGAIN retries do not appear: they change nothing and
are retried. The storing of the `error` interface in two words is kept, because
there is no lock around it; otherwise memory is sequentially consistent.

`delivered` and `lost` are history variables: they name the chunks that Reads
returned and that were counted as dropped. No guard reads them.

The kernel completes a bulk endpoint's queue in order, kills a URB synchronously
on DISCARDURB, and flushes the queue on disconnect. The environment may
disconnect the dongle, complete a transfer with an error status and refuse a
submission at any time; `Faults` says which.

### How TunerBus corresponds to the code

`withRepeater` (tuner_r860.go:280) is `Call`, `EnableWrites`, `EnableFlushes`, the
body, `DisableWrites`, `DisableFlushes`; its early return and its deferred close
are the transitions to `idle` and to `disable`. The body is a program, a sequence
of transactions, and each runs through `Merge` (`writeRegisterMasked` reads the
shadow), `Transfer` (`i2cWrite`) and `Store` (`writeRegister` updates the shadow
after the transfer was acknowledged). `BodyEnds` leaves the body, with an error
if the operation returns one of its own (an option out of range).

The repeater is a bit of a demodulator register. A demodulator write is
buffered: `DemodWrite` sets `latch`, and any later demodulator read commits it.
`demodWriteByte` issues such a read itself (i2c.go:68); `SignalStats` is a read by
someone else. A transfer may be `refused` (the chip did nothing) or `unacked` (an
error although the chip acted, wholly or for a prefix of the registers). A write
through a closed bridge is lost without an error.

A register's value is the set of its bits that are 1, so a masked write is set
algebra and no register width is lost. A multi-byte transfer reaches any of its
registers when it is not acknowledged.

### How OpenFlow and BringUp correspond to the code

| Code | Actions |
|---|---|
| `openBackendWithSysfs` (usbfs_linux.go:143) | `Open`, `SelectFails`, `OpensNode`, and the roll back through `Releases`, `ClosesFd` |
| `claimUSBDevice` (usbfs_linux.go:254), detach_linux.go | `Claims`, `ClaimUnsupported` with `LegacyClaims`, `ClaimFails` with `ClosesUnclaimed` |
| `configureChipAndTuner` (usbfs_linux.go:280) | `Configures` for each operation of the script, `ConfigureFails` with `ShutsRepeater`, `Configured` |
| `Close` (usbfs_linux.go:526) without a stream | `UserCloses`, `Releases`, `ClosesFd` |
| the environment | `Killed` (SIGKILL at any point), `Replugged` |

The script is data: `BringUp` computes it from the options (`cfg`) and from what
the tuner answers as its VCO fine tune (`cal`), with one operator per Go
function. An operation of the script is one step. The justification for that grain is
`AckTookEffect` of `TunerBus`, proved for one caller: an operation that returned nil
did all of its writes. One that fails, or during which the process is killed, has
reached a prefix of its writes, or all of them; so has the next Open to cope with
registers nobody knows. What chip and tuner hold survives the process; the
shadow does not, and starts at zero (`NewR860` writes R5 to R31 before anything
else).

Abstractions. The demodulator's latch is not repeated from `TunerBus`. The FIR's
twenty bytes are one register. Frequencies and rates are in kHz and the crystal
has no correction here (`Options` has both exactly); the PLL's fraction, the
resampler's ratio and the DDC's frequency are the code's integer algorithms in
that unit. An option that is not given is `<<>>`. Auto-tune at open is left out:
it runs after all of this, and is a walk of `AutoTune`. The kernel's
own driver may be bound at plug-in only.

`OpenedRadio` reads the registers back by their meaning (two's complement,
divider fields, filter corners), not by inverting the functions that wrote them.

### How AutoTune corresponds to the code

| Code | Actions |
|---|---|
| `autoTuneGain` (autotune.go:141) | `Call`, `PinsMixer`, `PinsVGA`, `SetsLNA`, and at the end of an iteration `Converges` or `StepsDown` |
| `waitOrCancel` (autotune.go:200) | `SettleEnds`, `SettleCancelled` |
| `readSampleStats` (sample_stats.go:145) | the guards on `Len(window)`, `ReadFails`; its statistics are `Saturates` and `Quiet` |
| `Read` (usbfs_linux.go:493) | `ReadEnters`, `ReadStarts`, then one case of the select: `ReadTakes`, `ReadReturnsNothing`, `ReadBreaksOff` |
| the stream | `Captures`, `StreamEnds` |
| an application between two walks | `ApplicationReads`, `ApplicationSets`, `StartsStream`; at any time `Cancel` |

A chunk is the gain of the tuner when its transfer began; a transfer under way
while the gain changes is therefore stale. `limit` is the antenna: the highest
LNA step that does not overload the ADC with the other stages at their maximum.
Time is counted in chunks: the settle delay is the time `Settle` of them take, and
its timer, unlike them, goes on when the stream has ended. What is left out: which
chunk of a window is saturated by how much, the other statistics, and a walk
that runs while somebody else reads or sets, which sample_stats.go:101 rules out
(the terminal UI has a walk of its own, in `ProbeTui`). "Orderly" is
a stream whose end leaves `streamErr` nil: a Close, or an error that startStream's nil
has overwritten (bulk_linux.go:255, see the divergences below).

### How ProbeTui corresponds to the code

| Code | Actions |
|---|---|
| `tuiInputCapture` (tui.go:539) and its handlers | `StartKey`, `CancelKey`, `GainKey` with `KeySets` and `KeyShows`, `QuitKey` |
| `runAutoTune` (tui.go:764), `runSweep` (tui.go:1003) | `PinsMixer`, `PinsVGA`; per cell `Checks`, the setters `SetsLNA`, `SetsMixer`, `SetsVGA`, `Shows`, and the verdict `AutoConverges`, `AutoStepsDown`, `SweepJudges` |
| `waitForFreshFrame` (tui.go:822) | `SettleEnds`, `PollEnds`, `WaitCancelled` |
| `runSampler`, `readFrame` (tui.go:1098, 1166) | `FrameBegins`, `FrameFails`, `FramePublished` |
| SIGINT, SIGTERM (main.go:543) | `Interrupt` |

The UI's goroutine handles one key at a time; a gain key takes three steps there, because the
walkers run on others. A walk is on the goroutine `Walkers` numbers; numbers are reused.
`cancelOf` and `ctxDone` are the cancel functions and what they have cancelled: a key can
cancel a context whose walk is about to end on its own. A setter is one step that
takes effect or not and returns an error or not, which is what `TunerBus` shows for one caller.

A frame is a count: the frames under way are stale if they have samples from before
the last setter, and then what they say of the level is any value; a fresh one says the sum of
the three stages, of which `limit` is the most that does not saturate. `Settle` is in
frames, and its timer goes on when they do not: then the walk is `late`.
Left out: the bias-tee key, which is one more setter on the keys' goroutine, and whose field
the walkers carry along unchanged; the progress and the errors in the footer; rendering.

### How Options corresponds to the code

| Code | Actions |
|---|---|
| the loop of `Open` over its options (sdr.go:461) | `Give` for any caller; `Assigns` says which fields of `config` an option sets |
| `defaultOpener`, `buildOptions`, `gainOptions` (main.go:201, 213, 236) | `FromFlags`, then `GiveNext` until the list is empty |
| `openBackendWithSysfs` (usbfs_linux.go:143) | `Opens` or `Refuses`; `Programmed` is what `configureChipAndTuner` computes, `Tuned` what the auto-tune at open leaves of it |
| another call of `Open` | `OpensAgain` |

Numbers are in Hz and exact. The code's 64-bit products are all n * 2^k divided by
d, which `Shifted` computes by doubling, in 31 bits. WithLNAGain, WithMixerGain and
WithVGAGain are one option with a field, and so are their variants for user input, and
the options that override a setting of the chip. The properties read the words back as
the chip does (an N counter with a fraction, a two's complement, a ratio whose bit 27
is repeated), not by inverting the functions that made them. WithFilterExt, the
logger and the warnings are left out; WithDevice is in `ProbeRun`.

### How ProbeRun corresponds to the code

| Code | Actions |
|---|---|
| `parseConfig`, the checks of `run` (main.go:110, 279) | `Parses`, with the width of `int` as a constant |
| `enumerate`, `readUSBDevice` (sysfs.go:89, 131) | `Lists`, `ListFails`, and per entry `ReadsIds`, `ReadsAddress`, `SkipsEntry` |
| `selectDevice`, `claimUSBDevice` and the rest of `Open` (usbfs_linux.go:212, 254, 143) | `Selects`, `OpensNode`, `Configures`, `Tunes`, `OpenFails` |
| `probeIQ`, `captureIQ` (main.go:397, 450) | `StartsProbe`, `CreatesSink`, `SinkFails`; one loop for both: `EntersRead`, then `ReadReturns`, `WriteFails`, `ReadFails`, `ReadReturnsNothing` or `ReadIsCancelled`; `LoopEnds` |
| the deferred `Close`, exit codes (main.go:298, 525) | `ReceiverCloses`, `code` |
| the environment | `Interrupt` (a signal, main.go:543), `Plugs`, `Unplugs`, `StreamEnds` |

A dongle is its address, and addresses are not reused, as the USB core hands them out in
turn; a directory entry is read in two steps, so that the device in a port can be exchanged
between its identifiers and its address. The bytes of a capture are counted, their
content is `BulkStream`'s subject. `touched` is a history variable. A tuner or chip that fails
is `OpenFails`. The statistics the probe prints and `--tui` are left out.

### Seeded bugs

The operators introduced as "Seeded bug" in the modules are not part of the
specifications. Each is one definition as a plausible slip would have left it,
and each property is known to fail when its definition is replaced so.

## 3. What the runs show

Passing runs:

| Run | Instance | What it shows |
|---|---|---|
| `bulk_data` | ring of 3, two readers, one closer, 5 chunks, no faults | chunks are conserved and in order, only the oldest are given up, the channel with its three selects implements `LossyFifo` (refinement), and an orderly Close is never recorded as a stream error |
| `bulk_life` | ring of 2, one reader, two closers, 2 chunks, all faults | types; the reaper's `pending` is exact; Close releases the interface with an empty ring; a failed start leaves nothing behind; Close returns, and blocked Reads are woken by Close and by faults |
| `bus_one` | one caller, five operations in any order and number, all faults | an operation that returned nil is on the chip in full, has repaired the shadow of the registers it wrote, and has closed the bridge, whatever went wrong in earlier ones |
| `bus_two` | two callers, the three runtime gain setters, no faults | the bridge shuts when the last caller returns, however they overlap |
| `open_flow` | two Opens per plug-in, five sets of options, every calibration, failure or kill anywhere | a failed Open holds nothing; a successful one has lost no tuner write and resets the FIFO last; LO, filter and DDC agree on one IF; the endpoint and demodulator are set up; the rate and every option are in the registers |
| `options` | every pair out of 75 options, 768 command lines, every calibration | the last option that speaks of a gain stage wins, and a stage's flag beats `--gain`; the ladder reaches its target and stops there; VCO, divider, fraction and DDC add up to the frequency asked for, the resampler to the rate, the filter to its band |
| `auto_tune` | three LNA steps, a channel of two, a delay of three and windows of two chunks, every antenna | with a delay longer than the channel a step is judged by its own samples; a walk that converges leaves the tuner at the highest step that does not overload; the walk ends as long as the stream does not end in good order, and when it is cancelled it always ends |
| `probe_run` | three ports, two hotplug events, eleven command lines, signals, stream errors, failing writes | exit code 0 without a signal means that probe and capture are complete; the dongle opened is the one counted; a signal takes an opened run to its deferred `Close`, also if the chip has stopped (that `Close` then returns is not claimed) |
| `probe_tui` | two goroutines for walks, two steps per stage, a grid of eight cells, every antenna, setters and frames that fail | two goroutines are never in a setter; the footer shows the chip's gain unless a setter or a walk has failed; cells are judged by their own frames; a completed walk leaves the best of its cells; walks end, also if the stream stalls |

Runs whose property is a claim of the repository that the code does not keep;
TLC finds the counterexample:

| Run | Claim | What happens |
|---|---|---|
| `bulk_stall` | bulk_linux.go:171, shutdown does not hang on a stall | the reaper resubmits behind Close's discards; if the chip has stopped, that URB never completes and Close waits for ever |
| `bus_closed_write` | i2c.go:87, the caller holds the repeater open | of two setters the first to finish closes it under the second, whose write is lost although it returns nil |
| `rate_edge_ppm` | sample_rate.go:61, the rate produced differs slightly at most | the rate is checked before the crystal's correction is applied (sample_rate.go:76): 900001 Hz at +1000 ppm gets a ratio with bit 27 set, which the chip repeats as bit 28, and runs at about a third of the rate; `options` shows that a rate further from an edge is reproduced |

Other places where code and comment differ, seen while modelling and not worth
a run of their own:

* sdr.go:500 says later calls to Close return the first close's error; they return
  nil, at once (usbfs_linux.go:533), also while the first is still tearing down.
* tuner_r860.go:277 says the bridge always shuts; when the flush of the opening
  write fails (tuner_r860.go:281) nobody shuts it.
* usbfs_linux.go:187 calls the auto-tune at open bounded. It has no context, so a
  chip that stops without an error keeps its first `Read`, and Open, waiting.
* usbfs_linux.go:512: after an orderly end `Read` returns (0, nil), every time; sdr.go:480
  has it return a chunk or the reason why there is none. readSampleStats
  (sample_stats.go:145) spins on it until its context is cancelled.
* bulk_linux.go:319: after `closed` the reaper may submit once more, because it has
  tested the flag before (`bulk_stall` is the consequence).
* bulk_linux.go:366: a chunk can be evicted although the channel is no longer full;
  a reader made room between the two selects.
* usbfs_linux.go:491: one reader suffices for a data race on `streamErr`, which
  ensureStream reads while the reaper stores it.
* tuner_r860.go:370: a transfer that fails after its effect leaves the shadow behind
  the chip (`AckHealsDrift` says when that is repaired).
* tuner_r860.go:205: nothing that `NewR860` wrote is undone when it fails; the next
  Open starts over, as `open_flow` shows.
* tuner_r860_bandwidth.go:37 and 111: the corner picked is the smallest that is not
  below the budget, not the largest within it.
* tuner_r860_gain.go:254: in automatic mode VGA_MODE is 0 and the code is pinned;
  the IF_AGC pin does not control it.
* init_chip.go:92 and 411: soft_rst is bit 2 in the values written (i2c.go:50).
* tuner_r860_pll.go:96: with divider 2 (1090 MHz) and a fine tune above the reference, Open
  fails with "frequency out of range", although the frequency is in range.
* tui.go:242 says the footer matches what the chip is programmed to. An auto-tune that fails
  or is cancelled between pinning mixer and VGA and its first `setGain` leaves
  the footer at the old steps of both.
* tui.go:454 says any control key re-synchronises the display; it does so for its own stage.
* tui.go:442 says the view runs until ctx is cancelled. SIGTERM cancels it, and `app.Run` goes
  on: the display stands still, gain keys still act, and an auto-tune pins two stages
  before it notices.
* tui.go:707: at 250 kS/s a frame lasts 524 ms and the settle delay 500 ms, so the first
  frame after it may have begun before the change (`FreshVerdicts` has `Settle` >= `Ahead`).
* tui.go:1121: `lastErr` is never cleared; one failed frame is shown for good.
* bulk_linux.go:250 says later calls see streamErr; startStream's nil (bulk_linux.go:255) overwrites
  an error the reaper has already stored, and Read then returns (0, nil).
* autotune.go:59 calls 500 ms well past what sits in the ring: at 250 kS/s they are 15 chunks,
  and the channel alone holds 32 (`FreshSamples` needs a delay longer than the channel).
* sdr.go:350 says that per-stage options after WithAutoGain disable the auto-tune of their
  stages; Open tunes whenever `autoGain` is set (usbfs_linux.go:168), and the tune writes all three.
* main.go:127 to 132 say that -1 is AGC for a stage's flag; with `--gain` it leaves the ladder's step.
* main.go:247: `--lna-gain 256` is step 0, -2 step 15; main.go:162: a frequency of 2^32 + n is n.
* main.go:174: on the 32-bit targets that main.go:5 names, `--capture-seconds` wraps where the bytes
  do not fit an int. A negative count is refused, a short one is captured.
* gain_librtlsdr.go:58 to 64: the ladder stops at the first rung that is not below the target, so it
  exceeds the target, and it is not monotonic at its top (49.6 dB, then 48.8 dB).
* sdr.go:362: the order of the devices is stable as long as nothing is plugged or unplugged.
* A probe that is interrupted still goes on to the capture, which truncates an existing file
  before its first Read returns (main.go:312, 507).
* main.go:497 says the capture's closer reports its errors; `file.Close`'s is discarded (main.go:512).
* spectrum.go:134 to 136 and 371 to 391 differ in the colours' thresholds, and the corner that
  spectrum.go:732 describes is overwritten; tui.go:1746 leaves columns empty when the
  terminal is wider than the histogram. Rendering is not modelled.

**Bounds of the stream.** `NumURBs` is 2 or 3 (32 in the code). Every interesting
event concerns one URB against the rest of the ring: the first and the last
submission, a URB discarded before and one after it is resubmitted, the head of
the channel and its tail; in a ring of three they are all different, and the proofs remove
the bound, and that on readers and closers, for every invariant of `bulk_life` and `bulk_data` and
for the refinement. `MaxChunks` bounds
the transfers completed before Close so that counters stay finite. In `bulk_data` it exceeds the ring by two, so
that the channel overflows twice; elsewhere it reaches the ring, so that URBs
are resubmitted. After Close the chip may complete what is left.

**Bounds of the bus.** The operations of `bus_one` share registers (the filter's R11),
set and clear one mode bit, take two transactions, or are refused in the body;
they can be called for ever, so that each meets whatever disorder the others left. Registers
have all eight bits and their seed values.

**Bounds of the open flow.** `MaxOpens` = 2: the second Open is the one that runs over what
a failed, killed or closed one has left, and it starts from every such state. The
configurations are the driver's purpose (1090 MHz at 2.4 MS/s, divider 2, where
calibrations above the reference fail), the lowest rate with every override, the
highest rate with the filter's other shape, an LO at the lower edge of an octave, and a rate in the
resampler's gap that must be refused. `Calibrations` is every value the two bits can have.

**Bounds of auto-tune.** `Settle` > `Capacity` in `auto_tune`, as the default delay is at the
default rate (500 ms are 147 chunks at 2.4 MS/s, the channel has 32); at the low rates, 225 to 300 kS/s, it is not, and nothing is claimed. A channel of two can
overflow, be emptied, and hold chunks of two different gains. Three steps give a
walk that stops at once, in the middle, at the floor in time and at the floor
too late.

**Bounds of the terminal UI.** With `Top` = 1 a walk can stop at its first or its last step, every
pair of cells of the sweep differs in one or in several stages, and the grid has cells of
equal level. `Limits`: nothing is quiet, all but the loudest cell, everything.
`Ahead` = `Settle` = 1 is the smallest pair with `Settle` >= `Ahead` and has a frame under way at every setter.
Two walkers, since the second could start only if the first were forgotten.

**Bounds of the options.** `MaxOptions` = 2: a property relates two options at most (the last word
and one before it), or a rate and a correction, or a frequency and a correction. The values are the
edges: both sides of every bound of a range, of the filter's shapes and corners and of the
dividers' octaves, the ladder's bottom, its last two rungs and beyond, the clamps. The command lines
give all three stages and the base gain at once, within and outside their ranges.

**Bounds of rtl-probe's run.** Three ports have a device before, at and after the one counted; two events
replace a device or shift two indices. Chunks of one or two bytes and requests of
none to three end in the middle of a chunk or at its end, and one of --capture-seconds wraps
(`IntLimit` = 8 stands for 2^31).

Readers and callers are symmetric: readers are permuted in `bulk_data`, callers in `bus_two`; runs of
temporal properties use no symmetry, except the refinement in `bulk_data`, a safety property that
does not name readers. Deadlock is checked in every run but `probe_tui` and `probe_run`, where the
program ends; elsewhere some caller can always call again, or the dongle be replugged.

**Fairness.** A goroutine inside `Read`, `Close` or the reaper that can run is
eventually run (weak fairness per goroutine: the Go scheduler is preemptive and
nothing here spins on a lock). Nobody is obliged to call Read or Close or to
cancel a context. `FairSpec` adds that a plugged chip completes the transfers it
holds (in `BulkStream`); `bulk_stall` shows what happens without it. In `AutoTune` the walk's
goroutine is scheduled and the chip delivers while the stream lasts. In `ProbeTui` only the walkers
are scheduled, their timers included; nothing is assumed of the sampler, the keys or the stream.
In `ProbeRun` the main goroutine is scheduled between and in its loops (`Loop \/ AroundLoops`), which it may
assume of Read because a select with `ctx.Done` ready goes on; the capture's output is taken to accept
what is written to it (a pipe that nobody reads would hold the loop in its Write). Nothing is assumed of the
chip, so a Read may return no data for ever and the deferred `Close` may never return: it waits for the
reaper (usbfs_linux.go:544), which ends while the chip completes transfers (`bulk_life`) and may not when it
has stopped (`bulk_stall`). A signal to a run whose chip has stopped leads to `Close`; no more is
claimed. Nor is anything assumed of the opening, which has no context.

## 4. What is proved

All proofs are checked by TLAPS. The assumptions are the named ones of the
modules, which TLC evaluates in the runs.

### The stream

`BulkStreamProofs`, for every `NumURBs` in Nat without 0, every
set of readers and closers, every `MaxChunks` and `Faults`:

* `InvariantHolds`: `Spec => []IInv`
* `TypeCorrect`, `AccountingHolds`, `CleanReleaseHolds`, `FailedStartHolds`:
  the four invariants of `bulk_life`.

The assumptions are the two named in the modules: `NumURBsAssumption` (there is
a ring) and `StreamAssumption` (the bound and the faults have their types).

The argument. `PendingAccounting` says that `pending` counts what the kernel
owns plus the URB in the reaper's hand. `CleanRelease` needs more: between
Close's discards and the release the reaper may have resubmitted a URB. Hence
`DiscardInv`: what Close has discarded can be in flight again only if the reaper
will test `closed` once more before it does anything else, and then it counts
the URB down instead of submitting it. When Close has seen `streamDone` closed,
either `pending` is zero and the ring is empty, or the reaper died of an error
with every URB out of flight, and then `DrainInv` says that Close's remaining
iterations are at least as many as the URBs still to reap.
`StartInv` and `PrefixInv` carry the accounting through `startStream`
(submissions are a prefix of the ring, by one reader, before any reaper), and
`CloseInv` and `KernelInv` say that the descriptor is open until the only active
closer closes it. The proof has one lemma per action; cardinalities of the ring's
parts are lemmas of their own.

Then, under the same assumptions:

* `DataHolds`: `Spec => []DataInv`
* `ChunksConserved`, `OldestDroppedFirst`: `ChunkConservation` and `DropOldestInOrder`, which follow
  from it.
* `ChannelRefines`: `Spec => ChannelIsLossyFifo`, the refinement, for every capacity.
* `OrderlyClose`: with `Faults = {}`, `Spec => []OrderlyCloseIsNoError`.

The argument. `ChanInv` says that what waits is the newest of what was dispatched, without a gap: a
chunk leaves the channel only at its head, to a reader or to the counter. For that
the chunk in the reaper's hand must be the next one (`DispatchInv`), which while nobody has called
Close comes from the kernel's order: `NumberInv` and `RingInv` say that what the kernel has is the
next chunks, each once, and that it completes them in order. Close's discards destroy that order,
but not before the reaper's next test of `closed`; and past it the reaper dispatches only
what it held before. That is why `RingInv` is conditional on `~closed` and
`DispatchInv`, between test and resubmission, is not. An error of the transfer or the
submission ends the reaper, so that no fault can leave a gap.

In the refinement `Put` takes effect where the reaper makes room: at the eviction if there is one,
which is where the channel, together with the chunk in hand (`InHand`), changes as the abstract
buffer does; the later send is a stutter. It cannot fail, since nobody else fills the
channel (`DispatchInv`'s second part), which is also why the third select needs no loop.

`NoFaultInv` says that without faults an error can enter `streamErr` only by way of a descriptor that
was closed before the stream was seen to run. With faults `OrderlyCloseIsNoError` is
false and should be: a transfer may have failed before Close.

### The bus

`TunerBusProofs`, for any set of callers, any registers and bits, and any programs
(assumption `BusAssumption`: they are programs):

* `TypeCorrect`: `Spec => []TypeOK`.
* `BusInvariantHolds`, `BridgeShuts`: without faults (`Faults = {}`), for any number of
  callers, `BridgeShutWhenIdle`. The invariant: if the repeater value written last is
  "open", some caller is between its opening and its closing write
  (`OpenerInv`); if a value is uncommitted, some caller is about to flush
  (`FlusherInv`). When all are idle neither can be. The hypothesis on
  faults is needed: see tuner_r860.go:277 above.
* `AckInvariantHolds`, `AckTakesEffect`, `AckHeals`, `AckCloses`: with at most one caller
  (an ASSUME of each theorem) and every fault, the three properties of `bus_one`.
  The invariant `AckInv`: inside the body the bridge is open and nothing is
  latched, the shadow that was merged is the current one, an acknowledged
  transfer has put on the chip the bytes that will be stored; hence after n
  transactions chip and shadow agree on the registers they touched and hold the
  last value assigned to each bit. `bus_closed_write` shows that two callers
  break it.

### The open flow

`OpenFlowProofs`, for any scripts, register files and power-on contents
(`OpenAssumption`, `BracketAssumption`):

* `NothingStaysHeld`: `NothingHeld`, from `HeldInv`, which says for every place of
  Open and Close who holds descriptor, claim and driver binding.
* `TypeCorrect`: `Spec => []TypeOK`.
* `TunerHears`: `TunerHeardAll`, from `HeardInv`: the tuner agrees with the shadow in
  every register that the operations done so far have written, and after an
  opening write followed by tuner operations only, the repeater bit is set.
  `BracketAssumption` (a tuner operation comes after such an opening) is what
  `withRepeater` guarantees; TLC checks it of the real scripts. Nothing is assumed
  of the registers an earlier Open has left.
* `ResetComesLast`: if every script ends in the two writes of a reset pulse (`EndsInReset`, the hypothesis
  of the theorem), then `Spec => []SyncedLast`. A reset is a falling edge: the last operation
  resynchronises the FIFO only if the bit is set before it, and what earlier Opens left does
  not say. `SyncInv` has it from the last operation but one.

* `LastWritesStand`: `Spec => []LastStands`, still for any scripts: when Open has returned, a bit that
  the script assigns has in the dongle the value it was assigned last. `HoldsLast` says so, after every
  prefix of the script, of the chip and of the shadow (the tuner follows with `HeardInv`): a masked
  write is computed from what the shadow or a read says of the other bits, and that is where an older
  value could come back.

Then the scripts themselves. `OpenedRadio` runs `OpenFlow` on those of `BringUp` (`RadioAssumption`), and

* `EveryScript`: whatever the options, a rate in the gap, a gain step or a GPIO pin out of range
  included, and whatever the VCO's fine tune, the script of `configureChipAndTuner` consists of well formed operations,
  brackets its tuner operations (what `OpenAssumption` and `BracketAssumption` say of a script), ends in the reset pulse,
  and leaves the bits that `Streaming` speaks of as it wants them. A script is put together from *pieces*, one lemma
  per Go function: a piece brackets its own tuner operations and joins with another without
  undoing the brackets of either (`PiecesJoin`). `LeavesBit` follows which operation of a sequence
  assigns a bit last; most operations are `Quiet`, that is, they spare all the bits in question, because of their masks.
* `RadioSyncedLast`: `SyncedLast` without the hypothesis of `ResetComesLast`.
* `OpenedStreams`: `Spec => []Streaming`, from `EveryScript` and `LastWritesStand`, for whatever
  earlier, failed or killed Opens left in the registers.

From `LastWritesStand` follows also what an opened radio's registers say as numbers. Two more assumptions: `ConfigAssumption`
gives the fields of a `config` their types (nothing about their ranges: what is out of range is refused by the script, and then
Open does not succeed), and frequencies are whole kHz in this model.

* `OpenedAsAsked`: `Spec => []AsAsked`.
* `OpenedOnOneIF`: `Spec => []OneIF`.

The argument has three parts. *Who writes a field last*: `Leaves(ops, unit, register, mask, value)` says that a sequence of
operations assigns to the bits of the mask the value's, and `Keeps` that a longer sequence leaves everything that
a shorter one does except in the registers that the rest touches (`Within`). One lemma per Go function says
what it leaves if no operation of it failed (`SetLNAGain` to `ProgramPLL`), and `ScriptLeaves` follows these
through the whole of `configureChipAndTuner`: the gain setters come after SetFreq and spare its registers, the IF setters write
bits of registers 10 and 11 that the sample rate's filter has set, the DDC's word is written twice, and so on. *That none failed*:
`OkInv`, the script is passed only as far as its operations succeed, so that an opened radio's `config` has
a valid rate, steps, pin and filter codes. *What a set of bits says*: `FieldsRead`, a word written bit by bit and
read through a mask is the quotient and remainder it should be, for each mask used. Then arithmetic: `RatioSays` for the
resampler, of which nothing but the two lowest bits is lost; `WordIsFraction` (over `SDMWithin` of `TuningMathProofs`, with the
losses of the uncorrected crystal) and `SettingsSay`: the VCO is the one asked for, to 2 kHz; `EncodedSays`: the DDC
removes the IF or 1 kHz less; `CentreLeft`: the corners in registers 10 and 11 have that IF in their middle.

What looking for this proof has changed. `OneIF` used to take the divider from what the DDC removes, as if the LO were that far off
the requested frequency. At the lowest LO of an octave that is one kHz too low, and the divider of the octave below:
the property was false of a radio that is in perfect order, and no configuration of the run was at an edge. It now says that the VCO is in
its octave and that some divider agrees, and `Octave` is such an edge (885 MHz exactly). The divider's field
in register 16 is not read back, since computePLLSettings moves it by the VCO's calibration.

### The walk

`AutoTuneProofs`, for any ladder, channel, window, threshold and antenna:

* `TypeCorrect`: `Spec => []TypeOK`.
* `FreshSamples`: if `Settle` > `Capacity`, then `Spec => []SamplesAreFresh`.
* `HighestQuietFound`: if `Settle` > `Capacity`, then `Spec => []HighestQuiet`.

The invariant `FreshInv` counts: n captures after a change the n - 1 newest chunks of the
channel are fresh (the first capture is the transfer that was under way), so
after `Settle` of them all are; and from there on the gain does not change until
the window has been judged. At the lowest rates the default delay does not meet the
hypothesis (autotune.go:59 among the divergences), and there stale samples are judged.

From fresh samples the result follows: a window of one gain is saturated as a whole or not at all, and
the tolerance is less than the window, so that the verdict is that of the gain set
(`OneGainVerdict`). `HighInv` says that the walk has not passed the highest quiet step, and that the tuner is
where the walk thinks it is. A setter that failed ends the walk, so that its uncertain effect never enters.

### The terminal UI

`ProbeTuiProofs`, for any number of goroutines, any ladder, grid and antenna:

* `SettersExclude`: `Spec => []OneSetter`. The invariant `OwnInv`: whoever is not at
  "none" runs the walk the model shows as running, so there is at most one, and none while a gain
  key is being handled. What makes it inductive is that only the walker itself
  takes "running" back, not the key that cancels it.
* `FreshVerdicts`: if `Settle` >= `Ahead`, then `Spec => []JudgesFreshFrames`. `FrameInv`
  counts: in the settle delay the stale frames under way and those published are at most
  `Ahead`, so after `Settle` publications no stale one is left, and no
  setter runs until the verdict, because of `OwnInv`.
* `FooterTrue`: `Spec => []FooterMatches`. The footer is redrawn from what was asked for, after the setters and
  not with them. `WalkerInv` therefore says which stages of its cell a walker has set, place by place; `KeyInv` says
  what the handler of a gain key is about to show, and that it differs from the display in the key's
  stage only. A walk that completes leaves display and chip equal by itself, and
  this is why one whose predecessor failed halfway still does.
* `GridIsWhole`: the cells of a sweep are, per stage, the multiples of the stride and both ends of the
  ladder, and nothing else, for any ladder and stride (tui.go:919).
* `BestIsLeft`: if `Settle` >= `Ahead`, then `Spec => CompletedBest`. `BestInv` follows the two walks: the sweep's best is
  the best of the cells judged so far, quiet before overloaded and the loudest among the quiet, and an
  auto-tune has passed overloaded cells only. What a cell is judged by is its own level, by `FrameInv`; nothing is
  claimed for a walk of which a frame was late or a setter failed. `CompletedBest` names the kind of the walk with a quantifier;
  a name for `kind[w]` inside the primed part would speak of the kind after the step, which a
  completed walk no longer has.

### rtl-probe's run

`ProbeRunProofs`, for any ports, number of events, command lines, chunk size and width of `int`
(`ProbeAssumption`; the ports are numbered from 1, in the order of the directory):

* `TypeCorrect`: `Spec => []TypeOK`.
* `WholeCapture`: `Spec => []CaptureIsWhole`. The invariant `CountInv` says for every place of `run` what has been counted:
  from the listing on, `bytes` is what the flags say and positive; once past the probe without a
  signal the probe is skipped or complete; inside the capture the file holds what was written and
  no more than `bytes`; and the only way to "closing" with code 0 is complete, without a capture,
  or signalled. What makes it inductive is `Taken`: a chunk never takes a count past what
  was missing.
* `IndexedIsOpened`: `Spec => []OpensTheIndexed`. The walk over sysfs counts while devices come and go, and
  it reads an entry in two steps. `WalkInv` says, for every port, that what has been counted when the walk
  reaches it is off the dongles before it by no more than the ports before it that something
  happened to (`CountedAt`), for the next entry (`LengthInv`) and for each dongle already
  in the list (`PlaceInv`). An event moves both bounds by at most one (`ChangeCounted`). It rests on two facts: a
  device address is never given out twice, so that a stale one names no other device (`AddressInv`), and the directory
  is read in the order of the ports (`OrderInv`).

### The options

`OptionsProofs`, for any set of options, in any number and order, and any command lines
(`OptionsAssumption`: every option is of a known kind, names a field of it, and its values have the types that
Go gives them: frequencies and rates are unsigned, steps are bytes, a ppm or a gain is any integer):

* `LastWordIsProgrammed`: `Spec => []LastOptionWins`. `LastOptionWins` speaks of the radio only, so it is
  not inductive while the options are applied: `WordInv` says that `cfg` holds for every stage the last word of
  the options given *so far*, unless a search was asked for, and `StagesInv` carries it to the radio.
  Per option the argument is `SaysWhatItAssigns`: whatever is not `WithAutoGain` either leaves
  a stage alone or assigns what `Says` claims it says. `WithAutoGain` is never taken back (no option assigns FALSE), which
  is why a later stage option is without effect after it, and why the property excepts it.
* `FlagsAreProgrammed`: `Spec => []FlagsReachTheChip`. `FlagsInv` says that what was applied and
  what is left are together the list `buildOptions` returned; `AutoInv` that the search
  runs if and only if a `WithAutoGain` is among the options. The rest is about that list: the base
  `WithGain` precedes the overrides, an override speaks of its own stage only, and what follows them
  (the bias-tee) of none (`FlagsSpeak`, over `FirstPartSpeaks` and `LastPartSpeaks`).

### The words

Also in `OptionsProofs`, under the same assumptions. The invariant is `TypedInv`: the fields of `config` have
their types, whatever is applied to it, and an opened radio is what `Programmed` makes of
*that* config, for an accepted rate, one of the fine tunes and a divider that the PLL accepts. What follows is arithmetic,
over every frequency, rate, correction and gain.

* `GainIsReached`: `Spec => []GainReachesTarget`. The climb stops at the first rung that reaches the target
  (`FirstStop`); the gain of a rung is the sum of the LNA's and the mixer's steps up to it (`LadderTotals`).
* `FilterPassesTheBand`: `Spec => []PassBandCoversRate`, from the order of the corners.
* `WordsFit`: `Spec => []TypeOK`: the words fit the fields of their registers.
* `RateIsSampled`: `Spec => []SampledAsAskedOffEdges`. More is shown than the property asks: off the edges, the ratio,
  although two of its bits are cleared, is read back as exactly the rate: if e is what is left of the quotient, 2^22 * xtal
  is e * rate and less than 4 * rate more, and e is at least 4 * rate, so that dividing by e gives the rate again (`ReadsBack`).
  `OffTheEdges` is needed where bit 27 is read as bit 28 (`RatioRanges`).
* `FrequencyIsTuned`: `Spec => []TunedAsAsked`. The VCO's frequency is q * 2 * xtal + rest. The integer part is
  exact; for the rest, computeSDM takes off halves of the doubled crystal, each rounded down to a kHz, and
  `FractionStep` keeps count, over the fifteen steps, of what the rounding has added up to (`Lost`) and of what is still to be
  taken off. What the last step may add by rounding is covered by the residual that it must leave, since it takes off only what is
  strictly less (`SDMNear`). Read back, the VCO is less than 4 kHz too low and at most 8 too high
  (`VCONear`). The DDC's word is the IF or one kHz less (`DDCNear`), because every IF is whole kHz.

Recursive functions. What `Shifted`, `SDM`, the ladder and the sums compute is the value of a function that is
defined by recursion on a number, and that there is such a function has to be proved: `RecursionExists`,
by induction. The library's induction theorems take a predicate as a parameter, which the provers cannot
instantiate; a *set* they can: `SmallestOf` (a set of naturals that is not empty has a least element, from the
library's theorem on well-founded relations) gives `InductionUpTo` for a set and a bound. `ShiftedSays` says of n, k and d only
that quotient and remainder are those of y[k], for any y that doubles from n: `2^k` with a variable k is
unknown to the provers.

Three definitions are written the way they are for these proofs: the fine part of `TypeOK` says
`sdm < 2^16` and not `sdm \in 0..65535`, which are the same, `Sums` is one function with all the
sums of a ladder, and `Side` and `Grid` of `ProbeTui` are the loop of `sweepStepsForStride` and its
last append as index and value.

### Only model-checked

Every invariant and every safety property of the passing runs is proved. What remains is liveness (`CloseTerminates`,
`ReadsReturnAfterClose`, `ReadsReturnAfterEnd`, `TuneReturns`, `CancelReturns`, `InterruptReachesClose`, `WalkEnds`), which is out of the
prover's reach, as is `ENABLED`.

## 5. Not modelled

* **Control transfers** (control_linux.go): the encoding of one ioctl and its errno. Its outcome is in
  `TunerBus` and `OpenFlow`: success, failure before, failure after the effect.
* **Signal statistics** (signal_stats.go): register reads and the sign extension of 14 bits; no state, and
  nothing the code does depends on the values. The read is in `TunerBus` as what commits a latch.
* **GPIO after Open** (bias_tee.go): a receiver drives one GPIO line and no other process can claim
  the interface, so that concurrent `SetBiasTee` calls write the same bit of three registers; the
  sequence itself is a step of `BringUp`.
* **Sample statistics** (sample_stats.go) other than the saturation count: sums over one chunk.
* **Spectrum** (spectrum.go) and the TUI's rendering: floating point and text from one frame, without
  protocol; the divergences met while reading are listed above.
* **Other platforms** (usbfs_other.go): one error.
