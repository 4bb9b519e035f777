# sdr2wifi: formal models

TLA+ modules, TLC configurations and TLAPS proofs for the sdr2wifi repository:
a bench that lets a software radio talk to 802.11 hardware, with frame
generators, offline and over-the-air decoders, a fused-FEC experiment, a
regression gate and a coverage matrix. The signal processing itself (GNU Radio
blocks, the fork of gr-ieee802-11, the driver under test) is outside the
repository; what is here is the logic around it, and that is what is modelled.
Paths are relative to the repository (`src/`).

Contents: [inventory](#inventory) · [hard behaviour](#what-is-hard-here) ·
[modules](#modules) · [runs](#runs-and-bounds) · [fairness](#fairness) ·
[proofs](#proofs) · [disagreements](#where-code-and-comments-disagree) ·
[not modelled](#not-modelled) · [plan](#plan)

## Inventory

| part | state it keeps | operations | talks to | right when |
|---|---|---|---|---|
| **Frame generators** `tools_gen_wifi.py` | the coder's and scrambler's registers; bits and symbols built so far | scramble, `conv_encode`, puncture, stream parse, interleave, map, SIG fields with parity and CRC, two-antenna training and data, `gen_*` for legacy/HT/HT40/2x2/VHT/STBC/LDPC; `*_selftest` | writes a capture file, imports `ldpc.py` | every transmitted bit has its own place; the tail ends the code; the L-SIG covers the frame; the header describes the frame; pilots are in step; self-tests invert the transmitter |
| **LDPC codec** `ldpc.py` | the matrix being reduced and its pivots; the decoder's messages | `build_H`, `gf2_systematic`, `encode`, `min_sum_decode`, `selftest` | used by the generator and `tools/ldpc_kat.py` | elimination keeps the code; every encoded word satisfies every check; weak errors are corrected, whatever the word |
| **Fused-FEC, rung 1** `fused_fec_rung1.py` | bodies posted, frames stored by `message_debug`, two decoders, counters | post, drain, stop, collect, `bridge_decode` twice, verdict | PHY loopback, `stream_fec` | the receivers work on the same capture; keeping corrupt frames never loses anything; a gain is earned |
| **Fused-FEC, rung 3** `fused_fec_rung3.py`, `run_fused_rung3.sh` | stored frames of an on-air window, counters | window, stop, scan, verdict | USRP, transmitter of the driver | frames are counted once; a verdict is about the transmitter's frames |
| **Rung ladder** `loopback_headless.py`, `rf_loopback.py`, `wifi_rx_sniff.py` | stored PDUs, counters | start, sleep, stop, scan, verdict, `--check` | PHY blocks | as above |
| **Polled diagnostics** `iq_fec_diag.py`, `survivor_hist.py` | last message count, silent polls, tallies | poll, stop, tally, report | file source, PHY | the tally is about the whole capture |
| **Regression gate** `scripts/run-tests.sh` | `FAILURES`, verdict of a format, the shared capture file | self-tests, `format_e2e`, `replay_cell`, loopback, exit | generator, `tools_replay_iq.py` | exit 0 means decoded; a wrong FCS is never retried away; no false alarm |
| **Coverage matrix** `scripts/coverage_matrix.py`, `capture_analyze_vht.sh`, `rx_grwifi_spec.sh` | rows of the report, attempts, capture files in `/tmp`, the adapter, processes a killed script leaves behind | TX direction with retries and recovery, RX direction, timeouts, report | driver, SDR, replay, `desc_rate.py` | a result is earned by the cell's own transmission; a killed script does no lasting harm; the report is complete |
| **Channel survey** `scripts/channel_survey.sh` | one capture file, a table | capture and replay per channel, sort | SDR, replay; the operator hands its result to the matrix | the channel it names is quiet |
| **Rate descriptors** `desc_rate.py` | none | decode and encode a hardware rate index | the matrix, bench scripts | decode inverts encode; no two rates share an index |
| Burst scan `iq_burst_scan.py`, `trigger_energy_probe.py` | power arrays | thresholding | capture files | - |
| Replay and wiring `tools_replay_iq.py`, `wifi_phy_hier.py` | counters of decoded frames | run a file through the PHY, print | PHY blocks | - |
| **Fixed-sleep checks** `ht_hier_check.py`, `iq_diag.py`, `keep_corrupted_check.py` | stored PDUs, counters | as the rung ladder | PHY blocks, capture files | a verdict on receiver or decoder rests on what was on the air |
| Soft-Viterbi comparison `soft_viterbi_check.py` | two counts | two windows of six seconds, compare | generator, PHY blocks | soft decodes at least what hard does |
| Bench scripts `scripts/*.sh` | log and capture files | command sequences with sleeps | driver, SDR | - |
| Capture, transmit and build tools | none | device I/O, container build | SDR | - |

Interaction: the tools are processes that share files (a capture written by one
is decoded by the next), a flowgraph's threads and the main thread share the
`message_debug` store, and the scripts judge a child by the lines it prints.

## What is hard here

* **Threads against sleeps.** A flowgraph runs beside the main thread, which
  posts, sleeps, polls or stops it without any other synchronisation: frames
  are in flight when it stops, and a slow decoder looks like the end of a file.
* **Lost and damaged frames.** The synchroniser misses frames at random, a
  corrupt frame keeps any subset of its sub-blocks, an HT frame may be stored a
  second time as the legacy "ghost" of its L-SIG.
* **Retries.** The gate and the matrix repeat an attempt until something is
  seen; what an earlier attempt showed, or left behind, must not be lost or
  reused.
* **Scripts killed from outside.** `subprocess.run(timeout=...)` kills the shell,
  whose trap does not run; transmitter, receiver or SDR process live on and hold
  a device the next script needs.
* **Files of fixed name, statuses not looked at.** A producer that fails leaves
  the file of an earlier run for the consumer.
* **Log lines matched one by one.** A verdict combines lines of different frames.
* **Tables and conventions on two sides.** Sign matrices, constellations, bit
  order and CRC coverage are typed in once for sending and once for receiving;
  an error may cancel out in a noiseless self-test.
* **Index arithmetic.** Puncturing, parsing, interleaving, pilot polarity and
  frame lengths are off-by-one territory, and an error shows only for some
  rates, lengths or payloads.

`PROJECT.json` lists each hazard at its line with the properties aimed at it.

## Modules

| module | models | extends / composes |
|---|---|---|
| `FusedFec` | `fused_fec_rung1.py`: main() with the flowgraph beside it | |
| `SalvageSpec` | what that experiment promises, in two actions | implemented by `FusedFec` (`ImplementsPromise`) |
| `FusedFecProofs` | theorems | `FusedFec` |
| `AirWindow` | both loopbacks, sniffer, rung 3 and the fixed-sleep checks: a fixed window, then a scan | |
| `AirWindowProofs` | theorems | `AirWindow` |
| `DrainPoll` | `iq_fec_diag.py`, `survivor_hist.py` | |
| `DrainPollProofs` | theorems | `DrainPoll` |
| `TestGate` | `run-tests.sh` | |
| `TestGateProofs` | theorems | `TestGate` |
| `DescRate` | `desc_rate.py`; its theorems are in `BenchSessionProofs` | |
| `CoverageMatrix` | `coverage_matrix.py` with the cell scripts it runs | `DescRate` |
| `ChannelSurvey` | `channel_survey.sh` | |
| `BenchSession` | a survey, then the matrix on the channel it named | `CoverageMatrix`, an instance of `ChannelSurvey` |
| `BenchSessionProofs` | theorems | `BenchSession` |
| `Puncturing` | `puncture()`'s pattern | shared by `StreamMap` and `BitCoding` |
| `BitCoding` | scrambler, tail, coder, descrambler, bit by bit | `Puncturing` |
| `StreamMap` | where each coded bit goes, and the way back of the self-tests | `Puncturing` |
| `SpaceTime` | constellations, two-antenna training and data on a tone, combining and zero forcing | |
| `StreamLink` | the tones of `StreamMap` carried by `SpaceTime` | both |
| `StreamLinkProofs` | theorems about streams and links | `StreamLink` |
| `FrameLayout` | symbols, L-SIG length and pilots of a frame | |
| `FrameHeader` | L-SIG, HT-SIG, VHT-SIG-A/B bit by bit, parity and CRC | `FrameLayout` |
| `FrameLayoutProofs` | theorems about layout and header | `FrameHeader` |
| `LdpcEncode` | `build_H`, `gf2_systematic`, `encode` | |
| `LdpcDecode` | `min_sum_decode` and the `selftest` around encoder and decoder | `LdpcEncode` |
| `CodingProofs` | theorems about coder, reduction and decoder | `BitCoding`, `LdpcDecode` |
| `MC*` | small instances of the module they are named after | |

Where the code's data does not matter for a property it is abstract: an RS
symbol is a pair of block and index, a frame is the set of symbols that
survived in it, a row of a GF(2) matrix is the set of its columns.

**FusedFec.** `pc` is the place in `main()`. `Post`, `StartDrain` and `Stop`
are the transmit loop and the sleep; `Lose`, `RecvClean`, `RecvCorrupt`,
`RecvShort` are the link and `decode_mac` (external), free to run at any time
until `Stop`, which empties `air`. `Collect` is one turn of the loop over
`message_debug`, including the length check before `n_corrupt` and the default
for a missing `crc_ok` tag. `Bridge(r)` is one frame of `bridge_decode` for a
receiver, and `AddSymbols` is what `add_symbol()` does with its survivors: a
block counts once, at its K-th distinct symbol. `Judge` is the verdict in the
order of the code's tests. The RS decoder is external: MDS, hence "K distinct
symbols".

**AirWindow.** One module for seven tools, `tool` says which. They share the
shape start, fixed window, stop, scan, verdict (`Check` is the early return of
`--check`), and differ in what of a PDU they look at: `Rung3Report`,
`SniffReport`, `CheckReport` (ht_hier_check, keep_corrupted_check) and
`DiagReport` (iq_diag). `Judged` has the verdict of each, test by test. Any HT frame, the transmitter's or another station's, may bring its ghost.
`keep` is `GR_KEEP_CORRUPTED`, which three of them set themselves, and `tagging` a
`decode_mac` that knows it. iq_diag compares median SNRs; with two values of SNR
a median is told by which is the more frequent, so `passHigh` and `failHigh` are
differences of counts. `heard` is a history variable: what was really on the air.

**DrainPoll.** `Poll` is one turn of the loop (`last`, `stable`), `Decode` the
flowgraph beside it, which may pause for any number of polls (`paused` is the
history of pauses longer than the loop's patience), `Tally` one turn over the stored messages with every
`continue`, and the exception `to_bool()` raises for an untagged frame.

**TestGate.** `Generate` leaves `file` alone when the generator fails, since
its status is discarded; `CellError`, `CellPass`, `CellSilent`,
`CellNoDetection` are the four ways through `replay_cell()` *including* what
`format_e2e()` then does (next attempt, cell, format, `bad`). The order in which
the outputs are grepped decides which one an output is, and the lines of another
format's capture count where its marker contains the one looked for (`Shows`:
`HT-DATA]` is found in `[VHT-DATA]`). The shared file may be there from an
earlier run. `clean`, `wrong`,
`broken`, `unmade` are history variables for the properties.

**CoverageMatrix.** A row is one pass of the loop in `main()`: `StartTx` (the
adapter may wedge when it is claimed; the script aborts unless its log shows the
rate), `Capture`, `Replay`, `CellTimeout`, `EndAttempt` with `classify()`, the
retry decision and `recover_chip()`, then `RxCell` or `RxTimeout`. `cap` is the
cell's file: `StartRow` picks what an earlier run left under its name, a capture
whose failure nobody looks at leaves it alone, and one that succeeds may hold
frames of other stations only (`Captured(own, amb)`), since a transmission may
stop or be drowned after its rate was checked; the capture of a killed attempt
may write it late (`LeftoverEnds`). A recovery that is run may fail, which the
code does not look at. `left` says, per program,
which row's killed script left it running: `CellTimeout` and `RxTimeout` set it
(no trap runs after SIGKILL), the `pkill` lines of the scripts
(`OldTransmitterEnded`, `Cleanup`), a recovery or the program's own end clear it.
A device held by such a program gives the next script nothing, and an SDR
transmitter that lives on may be what the driver hears. The two regular
expressions are kept apart: `sig` asks for the cell's MCS in lines of its format,
`data` for any PASS line that the marker matches, `HT-DATA` also matching
`VHT-DATA`. `Expect` is `desc_rate.py`'s index; the lines of the RX log may be of two
transmitters, an earlier one and this row's, each with its rate and FCS.
`earned`, `written`, `futile`, `rxHeard` and `rxKilled` are history variables.

**ChannelSurvey, BenchSession.** One action per step of the survey's loop. Its
file and table are variables; traffic is steady, and of two kinds, since
`tools_replay_iq.py` counts what `decode_mac` puts out, legacy frames, and HT and
VHT frames come out of another block. The replay may miss any of them. `missed`
is the history of channels whose legacy frames, or whose capture, were not seen.
`BenchSession` runs survey and
matrix one after the other, as the comment at `coverage_matrix.py:102-104` says
the channel was found; `StartMatrix` is the operator passing `BEST_CHANNEL`, and
the other stations of the matrix are those of that channel. What the survey's
header calls a proxy, that legacy frames are found wherever there are HT or VHT
ones, is a premise of the property (`Proxy`), not of the model.

**DescRate.** The two encoders and `decode()`, as operators.

**BitCoding.** One action per kind of data bit (SERVICE, PSDU, tail, pad). Two
PSDUs chosen bit by bit run through two copies of the coder, so that distance
is a state property; registers are sets of the bits that are 1.

**StreamMap.** The state is a function from coded bits to their places, changed
by one action per stage. Properties of places hold for all bit values.

**SpaceTime, StreamLink.** A tone carries Gaussian integers: constellation points
without their normalisation, channels multiplied up, and a receiver's division
kept as numerator and denominator, so that nothing is rounded. `Training` and
`TwiceInverse`/`TwiceEstimated` are the sign matrices and their inversion,
`Combined` and `Solved` what the self-tests do with data. `StreamLink` states that
a value put on a tone by `MapTones` is what `demap_qam()` finds, which is what
`Demap` in `StreamMap` takes for granted.

**FrameLayout.** A step appends one symbol; `pol` is the index into `POLARITY`.

**FrameHeader.** Operators over the state of `FrameLayout`: each SIG field is the
set of positions of its ones. The receiver is external and knows only these
fields; `RxHtSyms` and `RxVhtSyms` are the number of data symbols it must expect.

**LdpcEncode.** A step is one row of `gf2_systematic()`; the generator matrix and
`encode()` are operators evaluated at the end.

**LdpcDecode.** After the reduction `SendWord` encodes and adds noise,
`UpdateCheck` is one turn of the loop over the checks, which writes the messages
in place, so later checks of the same pass see them, and `Decide` is the hard
decision with its early return. LLRs and messages are integers; the code only
adds, compares and negates them, and its 1e-12 is the rule that a sum of zero
counts as positive.

In every module a definition introduced by "faulty variant" is a plausible bug
in the definition it precedes. The specifications do not use them; each property
is known to fail when one of them takes the place of the original.

## Runs and bounds

| run | asks | instance, and why it is enough |
|---|---|---|
| `Fec` | does the verdict follow from the capture, whatever the link and the stop do? | 2 blocks, K=2 of N=3, a block in one body or in two. Two blocks tell a block's symbols from another's, K<N leaves a repair symbol, two packings cover the default and the split one. 18 949 states |
| `Gate` | what do exit 0 and 1 mean? | six formats, one of each kind (legacy marker, two sharing marker and bandwidth, another bandwidth, one whose lines show another's marker, SOFT), one or two cells, two replays, a file of any earlier run. 3.3 million states |
| `GateStale` | (violation) does a green format always have a decode of its own? | as `Gate` |
| `Drain` | is the capture polled to completion, does the loop poll in vain, does the tally add up? | 3 messages of every kind, pauses of any length, patience 4 as in the code, 12 polls of 120: the loop can end by silence and by the cap. 146 000 states |
| `StreamMap` | is every bit placed once, spread, brought back, and does a tone carry it? | every rate of every table at their true sizes; 1 and 2 symbols, since symbols are independent beyond the phase of puncturing and parsing; the self-tests' default channels times ten, a silent antenna, a common phase, a singular matrix |
| `BitCoding` | do descrambler, tail, generators, puncturing and POLARITY fit? | every pair of one-octet PSDUs, four code rates, two seeds. An octet is longer than the constraint length; the all-ones seed runs through the keystream beyond a period |
| `FrameShort` | do L-SIG, header, symbol count and pilots fit? | seven formats, all rates, 13 lengths at the minima, the LDPC limit and one beyond 127 symbols, of every residue modulo four; every error of one or two bits in a header |
| `Ldpc` | does elimination keep the code, do encoded words satisfy it, does the decoder correct and treat words alike? | 3x4 blocks of size 2: every information part with the tables' parity structure, and every last two block columns, rank-deficient ones included; every word of each code of the first kind with every column checked, noise on no, one or two columns, weak or as strong as the rest, three passes |
| `MatrixQuiet` | is every result earned, is damage contained, does the survey pay? | three channels (one without a frequency), with legacy frames, HT or VHT ones, both or neither; three cells (one out of reach) of two formats, one retry; wedges, misses, captures that fail or hold others' frames only, recoveries that fail, timeouts at every step and what they leave running, files of an earlier run, another station. 5.0 million states |
| `MatrixAmbient` | (violation) does SIG+DATA mean both? | as above |
| `AirWindow` | are frames counted once, is PASS earned, does a gain take corruption? | every tool; three frames, 2-symbol and 1-symbol bodies, K=2; all sizes, formats, FCS outcomes and ghosts. 893 000 states |
| `AirGhost` | (violation) does iq_diag's "receiver correction defect" mean that a frame was corrupted? | as above |

The properties, by run:

* `Fec`: `SameCapture` (both decoders hold exactly what they accepted of one
  list), `SbiNeverWorse` (verdict FAIL unreachable), `GainEarned`,
  `InconclusiveIffNoCorrupt`, `OneFrameOneBlock` (with a block to a body each
  receiver recovers a block if and only if an accepted frame of it with K symbols was captured),
  `ImplementsPromise` (refinement of `SalvageSpec`).
* `Gate`: `GreenMeansDecoded`, `WrongFcsFails`, `NoFalseAlarm` (which covers that
  SOFT formats never count). The first is stated for the formats all of whose captures were written, and
  `WrongFcsFails` not for the legacy format: see the disagreements.
* `Drain`: `PolledToCompletion` (shorter pauses never end the loop; a longer one
  does, see the disagreements), `QuietEnds` (a silent decoder is polled Patience
  times and once more), `TallyAddsUp`.
* `StreamMap`: `EveryBitOnce`; `BurstsSpread` (neighbours in the coded stream go
  to tones apart and alternate in significance, the latter at 20 MHz only: the
  40 MHz row count leaves neighbours on one significance); `RecoversCoded`;
  `LinkInverts`; `GrayMapped` (an error to the nearest point costs one bit).
* `BitCoding`: `DescrambleRecovers`, `TailTerminates`, `FreeDistance` (10, 6, 5
  and 4 for rates 1/2, 2/3, 3/4, 5/6), `PolarityIsKeystream`.
* `FrameShort`: `LSigCovers`, `PolarityAdvances`; `HeaderTellsFrame` (what a
  receiver computes from the header is the number of symbols that follow, also
  for padded STBC pairs; with the two exceptions listed below);
  `HeaderErrorsSeen` (the CRC's two-bit error detection, at the slowest rate of
  each format; the theorem about it is for every rate).
* `Ldpc`: `SameCode`, `EncodesCodewords` (stated for full rank),
  `WeakErrorCorrected`, `CodewordsAlike` (the one random word of the selftest
  speaks for all words, but for ties, which go to 0).
* `MatrixQuiet`: `DecodeEarned` (a decode is of a frame the cell itself sent in
  this run, once any capture of the row reached its file), `RetriesStartHealthy`
  (but for a recovery that was run and failed), `ReportMatchesMatrix`,
  `RxOkEarned`, `TimeoutContained`, `QuietChannelPays` (where `Proxy` holds and the
  survey missed no channel with legacy frames).
* `AirWindow`: `FramesCountedOnce`, `PassEarned`, `GainMeansCorruption`.

Bounds named in the models: `MaxDist` caps the distance counter of `BitCoding`
at the largest value a property asks for; `MaxFrames`, `NMsgs`, `MaxSyms` bound
the inputs. Every run checks deadlock; modules that end have an explicit step
for the exited program.

## Fairness

None is assumed, and no liveness is claimed. Every loop modelled here is a
bounded `for` or runs over a stored list, so that a script comes to its end if
its children and devices answer at all; that they do is nothing the code could
justify. Termination is visible as the absence of deadlock before the last step,
and what could still go wrong is bounded by an invariant: `QuietEnds` for the
polling loops, `RetriesStartHealthy` for the matrix's retries.

## Proofs

All for every value of the constants that satisfy the named assumption of the
module; a theorem that needs more says so in its `ASSUME`. Every safety invariant
and action property of the passing runs has its theorem, and so has the refinement.

**FusedFecProofs** (`FecAssumption`: positive numbers of blocks, K <= N, positive
packings). The argument follows the data from the store to the verdict, one
invariant per station, each on top of the earlier ones.

* `IInv` (`TypeOK`, `CursorOK`, `SameCapture`, `SbiNeverWorse`) gives
  `NeverFails` and `DecodersFollowCapture`. `Judge` compares two decoders filled
  in two separate passes, and nothing in the state before it says that the second
  saw at least what the first did; `SameCapture` does, by saying which part of
  the capture each holds (`Progress`). At `judge` both are through
  (`BothThrough`), the baseline's symbols are a subset of sbi's (`SbiSeesMore`),
  decodability is monotone (`FullMonotone`), so are the counts. `AddSymbolsTracks`
  is the step that matters: adding a frame's symbols changes counter and packets
  by exactly the blocks that become full.
* `Collected` says what of the store the list of frames stands for, `Decided` that
  the verdict is that of the code's tests on the final counters. They give
  `Inconclusive`: that verdict comes exactly when no captured frame failed its FCS.
* `SalvageCounted` bounds what sbi holds beyond the baseline by the sub-blocks
  counted as salvaged: `GainIsEarned`.
* `WholeFrames` (with a block to a body, a frame whose FCS held brings all N symbols
  of its block) and `CapturedOnce` (the store holds at most one frame of a body,
  in the order they were sent) give `OneFrameSuffices`, an equivalence for both
  receivers: a block is recovered exactly when an accepted frame of it with K
  symbols was captured. Without `CapturedOnce` two short frames could add up.
* `KeepsPromise` is the refinement: under the mapping of `Promise` a frame that is
  stored is a `Capture`, `Judge` is the `Compare`, and every other step of script
  and link stutters. `Compare` asks for sets of packets computed in one go; the incremental
  decoders have them because of `SameCapture` and `Collected`.

**AirWindowProofs** (`WindowAssumption`: any K, any finite set of bodies). `VInv` ties
two ends of a tool that share no variable: `HtOnAir` and `Origin` say what the
store owes to the air (one HT entry per HT frame, ghosts are not HT; symbols come
from a transmitter that was heard), `CountsHt` and `Credits` what the report owes to
the part of the store already scanned; `PassEarned` is itself its last conjunct,
since the counters are no longer looked at after the verdict. No single counter of a report can be traced to the air without the
others. It gives `CountedOnce`, `PassIsEarned` and `GainNeedsCorruption`.

**FrameLayoutProofs** (`FrameAssumption`). `FrameTypeCorrect`;
`LegacyReceiversDefer` (`[]LSigCovers`) under `Lengths \subseteq 0 .. 4079`,
beyond which the 12-bit field overflows: for every rate of the tables
(`Cover20`, `Cover40`, `CoverLdpc`) the data symbols at that rate, plus training,
are covered by the announced length at 6 Mbps (`PlanCovered`), and `TypeOK` keeps
the frame inside its plan. `PilotsInStep` (`PolarityAdvances`): that a step
advances the polarity by one is not inductive; `WalkOK` says where it is after n
symbols, in each of the four stretches of a frame.

`HeadersDescribe` (`[]HeaderTellsFrame`, for lengths up to 4095): what is read at a
field's place is the value written there (`OnesAre`, `ReadsBack`, for fields of
up to 17 bits), the fields do not overlap and the CRC fits (`CrcFits`); the rank
of a rate in its table gives the rate back (`RankBelow`); padding to pairs and
rounding up to words of four octets change the symbol count as stated
(`PairsOfSymbols`, `RoundedUp`). `HeaderErrorsFound` (`[]HeaderErrorsSeen`, and
the same for every rate, length and flag, which the run does not cover): the
CRC is linear, so two registers that were fed words differing in a set of places
differ by the register fed with that set (`DiffStep`). `Trail` is what one wrong
bit leaves after each number of steps. It never has fewer than two bits set, so
one wrong bit cannot be hidden by one in the CRC; it never is 128, so a second
wrong bit does not cancel it; and a register that differs goes on differing
(`StepLasts`). `ErrorSpreads` puts these together by induction on the bits read.

**CodingProofs** (`CodingAssumption`, `EncodeAssumption`, `DecodeAssumption`: any PSDU
length, seeds and rates, any matrix, noise and number of passes).
`DescramblerRecovers`: while the first seven bits are read, the descrambler's
register is the scrambler's lower part moved up by what is still missing
(`Following`), since SERVICE is zero and each received bit is a feedback bit;
from the seventh on the registers are equal and stay so. `TailTerminatesCode`:
after t tail bits the lowest t places of the coder are empty (`Tailing`), for both
PSDUs, and one pad bit later the two coders agree for good.
`PolarityMatchesScrambler`: that the next feedback bit is the table's next sign is
not inductive; `Remembered` says that the register holds the last seven signs of
the table, and that each sign follows from the seven before it is a fact about
the table alone.

`CodewordsApart` (`[]FreeDistance`, for frames of any length): the coder is linear,
so what it sends differently depends only on the places in which the registers of
the two PSDUs differ (`ShiftGap`, `CodedGap`). For each rate and phase of the
puncturing pattern a table claims, for each of the 64 sets of such places, how
many transmitted bits must have differed by then (`Weight`); it was found as the
shortest paths through the coder's states, but the proof needs only that no claim
grows by more than a bit adds (`WeightStep`) and that the first difference adds
what is claimed after it (`WeightBounds`). `Apart` keeps the counter above the
claim; after the tail the registers agree, where the claim is the free distance.
An invariant without the table is not inductive: the counter alone does not say
how much distance the rest of a path still has to add.

`ReducingKeepsCode` (`[]SameCode`) from `RInv`: a row of the reduced matrix is a sum
of given rows (`Sums`), with the row itself in the sum as long as it has not been
used, so the rows still generate the same checks. With full rank the columns
chosen so far are unit vectors (`Pivots`), from which `EncodedWordsPass`
(`[]EncodesCodewords`) follows. `AllWordsAlike` (`[]CodewordsAlike`) is about a
single step from any state: flipping the signs where a codeword has its ones
flips each message by the number of ones of the word in the rest of the check,
which is even or odd as the word's own bit is (`UpdatedFlips`, `FlipsAgree`).
`WeakErrorsCorrected` (`[]WeakErrorCorrected`, for every matrix in which each column
is in a check with another, as `DecodeAssumption` says of the tables): by the same
flip the decoder may be followed as if zero had been sent. `Correcting` says of
the first pass what each updated check tells each column (`Leaning`): nothing
wrong, except for the first check that joins the misread column to others. That
one is wrong by no more than the error, too little for any of these to turn, and
it turns the misread column; the checks after it see that within the same pass.
So the first hard decision is the word sent (`PassDecides`).

**StreamLinkProofs** (`LinkAssumption`: any channels; any number of symbols).
`Placed`, the inductive invariant of `StreamMap`, says for each stage where a bit
sits: every stage is a bijection from the coded bits that puncturing kept to the
places of that stage, with the inverse written down. At the end the bits are
therefore exactly on the tones (`OnAirBijective`, `TonesFilledOnce`), and the way
back finds each (`SelftestsRecover`). `BurstsAreSpread`: within a stream the place
of a bit determines the place of its neighbour, at least three tones away and of
another significance (`NeighboursApart`). `AlamoutiCombines`, `ZeroForcingSeparates` and
`ChannelsEstimated` are polynomial identities over the Gaussian integers;
`DemapExact` says that the decision on a point multiplied by a gain is that point,
and `LinksInvert` joins these. `NeighboursDifferOnce` (`[]GrayMapped`) from
`PointsGray` of each axis.

**TestGateProofs** (`GateAssumption`). `GreenDecoded`, `WrongFcsNeverGreen` and
`RedHasACause` from one invariant, `GInv`. Verdicts are one bit (`FAILURES`,
`bad`, `any`) and the properties are about history sets, so the invariant has to
say what each bit stands for at every place of the script: `Track` ties the
variables of the format at hand to what it has shown, `Ledger` what the formats
behind it have left in `FAILURES`, `ExitCode` the code to both. `GateTypeCorrect`
is its first conjunct.

**DrainPollProofs** (`PollAssumption`). `PatienceSuffices` (`[]PolledToCompletion`):
`Watched` bounds the loop's count of silent polls by the decoder's own pause, so
the loop cannot run out of patience first. `SilenceIsBounded` (`[]QuietEnds`):
`InStep` says that the two counts differ by the one poll that sets `last`.
`TallyIsExact` (`[]TallyAddsUp`): `Counted` is the same statement for the part of
the store the loop has passed. `PollTypeCorrect`.

**BenchSessionProofs** (`MatrixAssumption`, `SurveyAssumption`: any matrix without
repeated cells, any channels, stations and number of retries). Three invariants:
`MInv` for the control of the matrix (attempts, wedges, rows, what is left
running), `EarnedInv` (`DecodeEarned` with what `cap` and the output of the
attempt may hold at each place) for files and history, `SInv` for the survey.
`QuietChannelMeansBoth` joins them: as long as no channel with legacy frames was
missed, a line of the table says 0 only of a channel without any (`Accurate`);
the best is the least, so there are none on it, so with `Proxy` nobody else is
(`Alone`), so a capture of this run holds the cell's own frames only, and a DATA
line cannot be another's. `RxOksAreEarned` rests on `ExpectDistinct`: different cells have
different rate indices (`RatesDistinct`), which is where HT and VHT sharing one number range
matters. `HtRoundTrip` and `VhtRoundTrip` say that `decode()` inverts both
encoders, for every MCS and number of streams.

The provers have no induction on numbers over a predicate; where one is needed
(the fields, the CRC, sums over rows, coded positions) it is done by the least
counterexample of a set (`NatInduct`, from `WFMin`), with the recursive functions
of the models taken as solutions of their equations.

**Only model-checked.** Of what holds, nothing: every property of a passing run is
also a theorem. The three violated ones are TLC's alone.

## Where code and comments disagree

Shown by a run:

* `GateStale`: the gate discards the generator's status, so a format can pass on
  another format's capture (`scripts/run-tests.sh:91` against lines 78-79).
* `MatrixAmbient`: `classify()` takes any frame's DATA PASS for SIG+DATA
  (`scripts/coverage_matrix.py:91` against the legend at line 15).
* `AirGhost`: iq_diag.py does not drop the legacy ghosts of HT frames, as rung 3
  and the polled diagnostics do; a ghost fails its FCS at its frame's SNR, so one
  clean HT frame suffices for the verdict "RECEIVER CORRECTION DEFECT"
  (`iq_diag.py:54` against the docstring at 2-4 and the verdict at 80-81).

Noted, without a run of its own:

* Rung 3 prints "PASS — fused-FEC salvage" for a window in which nothing was
  salvaged (`fused_fec_rung3.py:148` and 154); `PassEarned` asks for K symbols
  of the block, whichever frames they came in.
* keep_corrupted_check.py without the environment variable passes when no frame
  was decoded at all (`keep_corrupted_check.py:100`): `PassEarned` excepts it.
* The legacy branch of `replay_cell()` has no line for a wrong FCS, so the rule
  that one fails the format does not hold there (`run-tests.sh:60`, 77-78).
* A decoder that is silent for longer than four seconds ends the polling before
  the end of the file (`iq_fec_diag.py:76` against the comment at 68-70, "poll to
  completion"): `PolledToCompletion` excepts it by `paused`, and TLC finds the
  unexcepted one violated.
* A PSDU above 4079 octets overflows the L-SIG's 12 bits silently
  (`tools_gen_wifi.py:434`): the theorem excludes it.
* VHT-SIG-B carries the length in units of four octets, the symbol count follows
  from the exact length (`tools_gen_wifi.py:545`).
* `gf2_systematic()` skips a row without a pivot and then reads parity columns
  from rows that no longer line up (`ldpc.py:192`): the properties are stated for
  full rank, and the run has matrices with and without it.
* A failed capture leaves the old file (`capture_analyze_vht.sh:50`, name at 16),
  also when an `iq_capture.py` of a killed script still holds the SDR, so a cell
  none of whose captures reached the file can show an earlier run's decode,
  against "proves devourer transmitted" (`coverage_matrix.py:6-8`): `DecodeEarned`
  excepts it by `written`.
* The status of `recover-chip.sh` is not looked at (`coverage_matrix.py:50-51`), so
  a retry may begin with a wedged adapter: `RetriesStartHealthy` excepts it by
  `futile`.
* The survey counts legacy frames only (`channel_survey.sh:39`,
  `tools_replay_iq.py:57` and 121, `wifi_phy_hier.py:98`): a channel with HT or VHT
  traffic alone ties with a silent one, against "Quietest channel = fewest
  ambient frames" (`channel_survey.sh:6`). `Proxy` excepts it.
* A survey capture that fails leaves the last channel's file, a replay that is
  killed counts as no frames, and one may miss all there are, so a channel that
  was not measured may be named the best (`channel_survey.sh:36-40`):
  `QuietChannelPays` excepts it by `missed`.
* `coverage_matrix.py:102-104` says that the cell scripts honour CH and FREQ;
  `rx_grwifi_spec.sh:11` sets both to channel 36. The matrix model's ambient
  frames matter in the TX direction only.
* `gen_ht_ldpc()` writes the MCS it is given into HT-SIG but always sends BPSK:
  its header is right for MCS 0 only (`tools_gen_wifi.py:891-934`).
* `min_sum_decode()` calls itself flooding; updating in place, it is a serial
  schedule (`ldpc.py:221` against 234-248).
* The table of `R34_1296` (`ldpc.py:102-109`) is not of the form of the others:
  its dual diagonal begins where that of an eight-row matrix would, so that four
  block columns have one entry each, while the docstring (5) calls all of them
  the tables of Annex F. What `DecodeAssumption` says of the tables holds of it.
* `rx_direction_check.sh:59-65` exits 0 for any rate, its header (6-8) says that
  it asserts the rate; `tx_direction_check.sh:40-62` looks for `HT-DATA.*PASS`,
  which VHT lines match too.
* `iq_burst_scan.py:120-125` compares other samples for its RL-SIG test than its
  docstring (12-13) says.

## Not modelled

* Sample arithmetic: FFTs, training waveforms, IQ files, thresholds of the burst
  scanners. There is no state to speak of, and real numbers are out of reach.
* The external blocks: PHY receiver, `decode_mac`, `stream_fec`, the driver. They
  appear as nondeterministic environments, modelled from how the code uses them.
* `soft_viterbi_check.py` compares two external decoders within six seconds
  each; any pair of counts is possible, and its verdict is one comparison of them.
* `run_fused_rung3.sh` only starts the transmitter before the window.
* Labels and bandwidth names of `desc_rate.py`, RMS figures of survey and matrix.
* Wiring, device I/O, plotting, build files and the straight-line bench scripts:
  no decision of theirs depends on more than one observation.
* Pipes: `producer | grep -q` under `pipefail` depends on buffer sizes.

## Plan

Built in this order: the experiment (`FusedFec`, its abstract specification and
proofs), the gate, the diagnostics, the coding chain, the frame layout and its
proofs, LDPC, the matrix, the on-air tools, the bits and their proofs; then the
rate descriptors, the survey and the session, headers, the LDPC decoder, the
two-antenna link, and the proofs about session, gate, diagnostics and link;
last the proofs about the streams, the headers, LDPC, the on-air tools, the
refinement, the free distance and the correction of weak errors. Left, in this
order:

1. **Composition.** The gate over `tools_replay_iq.py` as the producer of the
   lines it matches, so that a line stands for a frame.
2. **More of the system.** The TX and RX direction checks, which share adapter
   and SDR with the matrix, as further scripts of a session.
