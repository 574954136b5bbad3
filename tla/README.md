# airspyhf-wsprd: a TLA+ verification project

airspyhf-wsprd is a headless receiver for the Airspy HF+ SDR. It cuts the sample
stream into frames aligned to UTC slots (120 s for WSPR, 15 s for FT8), decodes
every frame and uploads the decoded spots to WSPRnet or PSK Reporter. It is a
small program with many threads: the difficulty is in how they hand frames,
flags and queues to one another, and in the message codecs and decoders it carries
along. This project models the control of the first and the discrete algorithms of
the second.

## 1. Inventory

### Parts, state, operations

| part | source | state | operations |
|---|---|---|---|
| IQ queue | `sample_queue.c` | ring of `slot_count` blocks (`head`, `tail`, `count`), pending overrun counters, `stopping` | push (never waits), wait, try_peek, release, reset, stop |
| receiver core | `airspyhf_wsprd.c` | `rx_state` (capture, decode and exit flags, `iqIndex`, overrun counters, frame metadata), `dec` (locks, `busy`), tuned dial frequency | USB callback, DSP thread, decoder thread, main loop, signal handler, shutdown |
| decimation | `decimator.c`, `ft8_resampler.c` | phase counter, filter state | init, reset, process |
| WSPRnet reporter | `reporter.c` | ring of spots with sequence, attempts, `retry_at` | start, enqueue, uploader thread, pending, stop |
| PSK Reporter | `psk_reporter.c` | array queue, recent-sender table, template and flush timers | start, enqueue, reporter thread, pending, stop |
| hop plan | `bands.c` | none (pure) | parse a list, band at a UTC time, adaptive band with exploration slots |
| band advisor | `band_advisor.c` | `pending` plan, `update_ready`, `stopping` | advisor thread, take, wait, stop; response parsers |
| jt9 decoder | `jt9_decoder.c` | runtime directory, job (child, files, deadline) | init, start, finish, warm-up, merge, free |
| WSPR decoder bridge | `decoder_bridge.c` | runtime directory, temporary files | decode one frame through the `wsprd` child |
| FT8 decoder | `ft8_decoder.c` | callsign hash table, per-frame duplicate table | save, look up, age, decode one frame |
| health server | `health_server.c` | status fields behind one mutex | setters, HTTP thread, start, stop |
| service | `service_notify.c`, `clock_health.c` | time of the last ping | READY, STATUS, WATCHDOG, clock probe |
| station | `station.c` | none (pure) | normalise callsign and grid |
| WSPR core | `core/` (vendored) | hash table and its file, decodes of three passes, Fano tree | pack and unpack a message, decode the candidates of a pass, sequential decoding |
| FT8 library | `ft8_lib/` (vendored) | candidate heap; callsigns behind two callbacks | pack and unpack a message, find candidates |
| installer, scripts | `install.sh`, `scripts/`, `test-hw/` | none | not modelled, except the unit file `systemd/airspyhf-wsprd.service` |

### How the parts interact

```
libairspyhf callback --push--> IQ queue --peek/release--> DSP thread --decode_flag, ready_cond--> decoder thread
                                  ^ reset, stop               ^ dsp_mutex, rw                       | enqueue
main loop: clock gate -> hop plan/tune -> slot wait -> init -> poll -> ... -> shutdown        WSPRnet / PSK reporter thread --> network
signal handler: exit_flag                                                                    health server (HTTP thread), watchdog
```

- The callback only pushes. The DSP thread holds `dsp_mutex` while it works on a
  block; the main thread takes it to start a frame and to ask whether one is still
  being captured.
- One frame buffer (`rx_state`, under `rw`) is shared by the DSP thread that fills
  it, the main thread that restarts it and the decoder thread that copies it.
- `decode_flag` and `ready_cond` (under `ready_mutex`) hand a complete frame to the
  decoder thread. `exit_flag` is a `sig_atomic_t` that the signal handler, the main
  loop and its error paths set without a lock.
- The decoder thread enqueues spots to one of two reporters, each with a thread of
  its own that sends without holding its mutex.
- The band advisor queries web services in its own thread and leaves a plan in
  `pending`; the main loop takes it at the start of a dwell only.
- systemd starts the process, expects READY, heartbeats and an end within its timers,
  and starts it again after a failure.
- Shutdown: stop advisor, stop device, stop queue, join DSP, signal and join
  decoder, stop health server, stop reporting.

### What is hard

Interleavings around the one frame buffer and the ring; condition variables whose
predicate a signal handler changes; overruns that must be accounted for at the
right place; a slow decoder; a device that disappears; shutdown from any state;
retries and timers of the reporters; state that changes while a packet is on its
way; advice that arrives in the middle of a dwell; timers of four parties that must
fit into one another; hash tables whose entries are cleared by age or read from a
file; fields of messages that share their ranges. `PROJECT.json` lists each hazard at its line.

### What makes each part correct

| part | properties |
|---|---|
| IQ queue | no sample unaccounted for; no lost wakeup; a peeked block stays put; stop ends the consumer |
| receiver core | a frame holds one band's samples and keeps sample time; frames are decoded whole; nothing sleeps through an event; shutdown ends; nobody uses a stopped reporter; unsynchronized spots are not reported |
| WSPRnet reporter | in-order, at-least-once delivery; bounded exponential backoff; every spot resolved; stop returns |
| PSK Reporter | no duplicate within five minutes; nothing unsent dropped; strongest spot sent; templates known on every socket; retries paced; stop returns |
| jt9 decoder, bridge | a child never outlives its deadline; no file or child leaks; only this frame's lines are reported, and all of them; three failures in a row disable jt9; the union of two decoders adds nothing twice and misses nothing |
| hop plan | a UTC time determines the band; every band of a plan is visited in turn, every left out band explored in turn; no dwell falls on a band the receiver cannot tune to |
| band advisor | the band changes only at the start of a dwell; boot waits long enough for the first advice; queries keep their phase; a stop is bounded |
| service, health, watchdog | a hung decoder is killed, a working process is not; a failure always leads to a restart; no thread outlives what it uses |
| FT8 decoder | each payload is printed once; a hashed call is printed as the call heard last in clear, if it is recent enough, and as nobody else's |
| FT8 library | a packed message is printed as it was; a full heap keeps the strongest candidates |
| WSPR core | a spot names only calls that were sent; the subtracted signal is the decoded one; a faded message is decoded, and no other message fits what was received better all along |
| station, options | accepted options give a schedule of tunable frequencies |

## 2. Plan

In the order in which the modules were written; all of them are done:

1. `SampleQueue`; 2. `Receiver` on top of it; 3. `WsprReporter` and its abstract
   specification `SpotDelivery`; 4. `PskReporter`; 5. `Jt9Decoder` and `ResultMerge`;
   6. `DecoderBridge`; proofs for 1, 2, 3 and the merge;
7. `HopPlan` and `Configuration` (pure), `BandAdvisor` composed with the main loop's
   choice of a band; proofs about the schedule;
8. `Service`: startup with its error exits, shutdown, watchdog and systemd, with time;
9. `Ft8Decoder` (callsign table, payload table) on top of `ResultMerge`, `Ft8Message`,
   `CandidateHeap`;
10. the vendored WSPR decoder: `WsprCodec`, `WsprCore`, `FanoDecoder`.

What is left: the time of the slots in the receiver (section 6); the JSON and HTTP of
the health server and the advisor; proofs about the codec of FT8.

## 3. Modules

Every action is what one thread does between two points at which another thread can
see or disturb it: one critical section, or the code between two of them. Names
follow the source. A definition marked "mutant" is not part of a specification: it
is a plausible bug, used to show that a property can fail.

**`SampleQueue`** models `sample_queue.c`. `slots`, `head`, `tail`, `count`, the two
pending counters and `stopping` are the struct's fields. A block is known by its
position `at` in the radio's stream and the frequency `freq` it was received on;
`produced` and `consumed` are history. `Push`, `Wait`, `TryPeek`, `Release`, `Reset`,
`Stop` are the functions; `sample_queue_wait` is two steps because it gives the mutex
up; `SpuriousWakeup` is allowed at any time. The counters saturate at `CounterMax`.

**`Receiver`** extends it with the receiver core. `RxCallback`; `DspWait`, `DspPeek`,
`DspProcess`, `DspNotify`, `DspRelease` (`wsprDsp`, `process_sample_block`);
`DecoderLoop` ... `DecoderFinish` (`wsprDecoder`, `postSpots`); `MainClock`,
`MainSelect`, `MainFails`, `MainSlot`, `InitSampleStorage`, `MainPoll`, `MainPolled` (main
loop); `MainStopStream` ... `MainStopReporting` (shutdown); `SigintHandler`,
`StreamLost`, `ClockChange` (environment). Signal processing is counting: `Factor`
inputs make an output, `Target` outputs a frame (in reality 512 and 43500 for WSPR at
192 kS/s, 16 and 175200 for FT8).
The decoder may take any time, fail, and find any number of spots up to `MaxSpots`.
The fields `from`, `heard`, `synchronized` and `late` of a frame and the variable
`posted` are history. Nothing is assumed of the decoder's speed: main starts a frame
whether or not the decoder has copied the last one, and `late` says that it had not.

**`WsprReporter`** models `reporter.c`: the ring, `Enqueue`, the uploader's turn
(`UploaderTurn`), the transport without the mutex (`Transport`), `HandleAnswer`,
`Stop`, `StopJoin`. The server may store a spot and have its answer lost, refuse it,
be busy or be out of reach; `upload_result` is the code's reading of the status.
`retry_in` is the time until `retry_at`. Nothing limits how often a spot fails, as nothing does in the code; `attempts` is
counted only up to `MaxAttempts`, where the delay has reached its limit and grows no
more (`AttemptsAssumption`). `stored`, `refused` and `waited` are history.
**`SpotDelivery`** is the abstract specification: spots are accepted, offered in
order, and resolved only once the server stored or refused them.

**`PskReporter`** models `psk_reporter.c`: the array of spots, the recent-sender table
(`MarkRecent`), `Enqueue`, the thread's turn (`ThreadEnds`, `ThreadWaits`, `ThreadIdle`,
`BuildPacket`), the socket (`TransportSends`, `TransportFails`), `HandleSent`,
`HandleFailed`, `Stop`, `StopJoin`. Time stamps are kept as distances from now, cut off
where no test can tell them apart, so time is unbounded and the state finite.
A packet always holds 40 reports (at most 1276 of 1400 bytes), so the branch that
drops a report that fits no packet is unreachable and left out.

**`Jt9Decoder`** models the child process of `jt9_decoder.c` and the FT8 branch of
`wsprDecoder` that runs it next to `ft8_lib`. The thread starts the child, decodes
with `ft8_lib` meanwhile, then polls until the child ends or its deadline passes,
kills it if it must, reads `decode.out` and removes the files. The child prints
lines, ends well or badly, hangs, or cannot be waited for. `elapsed` counts seconds as
the code does (a difference of `tv_sec`), and the 20 ms loop polls in every one of
them. `directory` and `files` are the runtime directory. `frame`, `reported`,
`outcomes` and `ft8_done` are history.

**`ResultMerge`** models `jt9_merge_results`, one step per turn of the outer
loop. Two results are duplicates if their messages are equal and their frequencies
differ by at most 10 Hz, a relation that is not transitive. A duplicate hands its
callsign over when the result kept has none. Once the array is full the loop ends:
duplicates further on are not looked at and their callsigns are not taken over.

**`DecoderBridge`** models `decode_wspr_frame` step by step, each of which may fail,
the core process with its four files, and a kill of the whole control group between
any two steps (`Crash`), after which it starts again (`Restart`). `configured` says
whether the runtime directory is the service's, preserved over a restart, or one made
by the program. A line of `wspr_spots.txt` is known by its frame and the form of its
message. `printed`, `failed_at`, `posted` and `crashed` are history.

**`HopPlan`** models `bands.c`: the two band tables, `hop_plan_parse` on the fields of
a list, and the two schedules as functions of the number of a dwell. Every sixth dwell
explores a band the advice leaves out; the code finds it by counting down over the
candidates, `Nth` by the number of those before it. **`Configuration`** extends it with the options:
`station_normalize_callsign` and the locator check on character classes, what `main`
accepts of mode, band, hop list, rate, frequency, shift and upconverter, and the
frequency each dwell is tuned to.

**`BandAdvisor`** extends `HopPlan` with `band_advisor.c` and the part of `main` that
uses it. `adv` is the struct with the position of its thread, `main` the position of the
main thread, `hop` the plan in use. `wait_until` is the timed wait, `QueryEnds` the end
of a request with an answer, a failure or the timeout, `MainBoot` ... `MainJoin` the main
thread. The three parsers work on rows of an answer, with `Bad` for text that does not
parse, and the response buffer on the sizes of chunks. Time is UTC; a thread that can
run does so before the clock moves.

**`Service`** models the process under systemd: `StartSkips`, `StartSucceeds`,
`StartFails` go through the steps of `main` up to READY, each failure with its own
clean-up; `LoopPoll`, `LoopMoves`, `LoopFails`, `LoopEnds` are the loop with its heartbeat
and what it publishes to the health server; `Cleanup`, `Exit` the shutdown; `Kill`,
`Restart`, `Asked` are systemd and the operator, `Tick` the clock. Threads are alive, busy
or ended, and `Uses` says what each touches.

**`Ft8Decoder`** extends `ResultMerge` with `ft8_decoder.c`: `save_callsign`, the three
look-ups by hash, ageing, `decoded[]` by CRC, the frequency buckets and the transmitter
of a report (`DecodeCandidate`, `NextPass`, `EndFrame`, `Merge`, `NextFrame`). A payload is
the fields the decoder looks at. `heard` is history. **`Ft8Message`** is `message.c` and
`text.c`: every layout the program can pack or print, as records of the integers the
code computes; the 58-bit call is a sequence of base-38 digits. **`CandidateHeap`** is the
min-heap of `ftx_find_candidates` and the final sort. Its loops are recursive functions of
the number of rounds, at least as many as the loop can need; the rounds after a `break`
change nothing.

**`WsprCodec`** holds `unpk_` with its helpers and `get_wspr_channel_symbols` up to the
payload. A text is the sequence of its characters' codes in the packer's alphabet.
**`WsprCore`** extends it with the runs of `wsprd`: passes, candidates,
duplicates, the hash table and `hashtable.txt`. `onair`, one of the
sets `Airs`, holds the payloads sent. A candidate decodes to any of them at any frequency.
The file is `hash_file`, its whole lines, and `cut_line`, what `fgets` and `sscanf` make of a
last line that was cut short: `PrintSpots` empties it, `SaveTable` writes and closes it, and
`DiesSaving` is a kill in between, after stdio has written some blocks, of which
the last ends anywhere in a line (`CutLine`: the hash with fewer digits and the call of the
line before, or the start of a call). `BlockLines` is how many whole lines a block
has at least (170 in the code). `decodes[]` has `MaxSpots` entries (50); nothing tests that one is left,
and a run that writes beyond the end is at `overrun`, from where it can only die. `spelled`,
`misread` and `torn` are history: the callsigns spelled out in frames, those that only the signals
generated for subtraction spell, and the entries read from a line cut short.

**`FanoDecoder`** is `encode`, the interleaver and `fano()`, one look of the decoder per
step, with received symbols reduced to 0, 1 and erased. The interleaver counts to 256 and
skips the places that are too large; `Earlier` says how many it has used before it comes to
a place. A decoder that ends in its last cycle is taken for one that timed out, as
`fano()` returns -1 there. `Tree` is the set of all messages with a tail, `MetricAlong` the
metric of one of them at each of its nodes: with these `StaysHighest` compares what was
decoded with everything that could have been.

**`ReceiverProofs`** (with the IQ queue's), **`WsprReporterProofs`**, **`PskProofs`**,
**`Ft8Proofs`** (with the merge's and the heap's), **`Jt9Proofs`**, **`WsprProofs`** (the
decoder bridge, the codec, the core and the Fano decoder), **`BandAdvisorProofs`** (with the
hop plan's) and **`ServiceProofs`** hold the proofs. **`MC*`** modules and configurations
hold the instances; `MCDecoding` puts everything that is computed from the samples of a
frame or from the command line into one instance: an initial state is the start of one of
three machines (`Ft8Decoder`, `WsprCore`, `FanoDecoder`) or one input of an algorithm
without state.

## 4. Runs

| run | shows | instance |
|---|---|---|
| `receiver` | homogeneous frames, sample time, wakeups, whole frames, retunes | 2 slots, 2 bands, decimation 2, frames of 2 outputs, 5 samples, 2 frames |
| `receiver_live` | the program ends | 1 slot, frames of 1 output, 2 frames |
| `receiver_clock` | **violation**: spots of an unsynchronized frame are reported | 2 frames |
| `wspr_reporter` | delivery (refinement), backoff, liveness | ring of 2, 4 spots, any number of failures, delays 1, 2, 3, 3, ... |
| `psk_reporter` | duplicates, retention, strongest spot, templates, pacing | 3 senders, 2 SNRs, packets of 2, array of 3 |
| `psk_reporter_live` | queued spots are sent | 3 senders, packets of 2, array of 2, recent table of 2 |
| `jt9_decoder` | no child or file left, own results only, failures in a row, every frame concluded | deadlines of 2 and 3 s, given up after 2 failures (3 in the code), 3 frames, array of 1, 2 lines |
| `decoder_bridge` | a frame's spots are posted whole; no files are left | 3 frames, array of 2, 3 lines, both kinds of directory |
| `decoder_bridge_types` | **violation**: a type 2 message loses every spot of its frame | both forms of message |
| `band_advisor` | bands change at dwells, first advice at boot, phase of the queries, bounded stop | both modes, 3 candidates, units of 6 s and 3 s, dwells of 2 slots, 2 to 5 dwells from any start time |
| `service` | what threads use is there, hung decoder killed, restart, no unjustified kill | 16 combinations of options; units of about 15 s: heartbeat 1, decode 6, device 2, warm-up 4, boot 3, query 3, upload 1, watchdog 3, start 12, stop 2, restart 1 |
| `decoding` | faithful results, hashes resolved, one result each, union of the decoders; codecs, heap, schedule, Fano, spots of the core | see below |

The bounds are the smallest at which the cases that matter occur: a ring that fills,
wraps and overflows; a transfer larger than a block; a frame that ends in the middle
of a block; a second frame that starts with samples of the first still queued; more
spots than the ring holds; a backoff that reaches its cap; a packet in flight while
the array grows; a child that misses its deadline before and after `ft8_lib` is done;
a jt9 that fails, recovers and fails again; an answer that takes its whole timeout,
and one that arrives while a frame is captured; a decode that hangs in the loop and
one that hangs at the stop. Two frames suffice for the safety of a
hand-over. `MaxProduced`, `MaxFrames`, `MaxSequence`, `MaxDecodes`, `Horizon` only end
the exploration. Deadlock is not checked where the system really stops: the receiver
and the service end, the reporters and the advisor are joined, the machines of
`decoding` reach their last frame and its inputs take no step. `Terminates`,
`StopReturns` and `UsesHeld` say that what stops is at its end.

`decoding` has 343 thousand states. FT8: three callsigns, two with the same 12-bit hash
and the third in their probe chain, in a table of three with entries that live to the end of the next frame,
so that holes appear in front of younger entries; nine payloads of all kinds, two of
each CRC; two passes; three frequencies 0, 1, 10 and 11 Hz apart, at which jt9's lists repeat one
another and ft8_lib's. Codecs: 448 FT8 messages of
14 spellings of callsigns with 19 grids, acknowledgements and reports from -99 to +99, 6 free texts, 7866 WSPR payloads at
the edges of every field. All scores of five places in heaps of 3 and 4. About 780 sets
of options. Fano: 3 messages, each with 4 bursts of 6 inverted symbols, to the end of
the search. WSPR core: four sets of payloads (a plain one, one with a prefix and one that
names the latter by its hash; a plain one and a hash that is another's with its last digits
cut off; NYN, and a hash its false reading has; K1/03, and one that is not printed) at three
frequencies 1, 3 and 4 Hz apart, 2 candidates per pass, 3 decodes, an array of 2 spots,
2 runs, a file that can be cut after its first line.

The two violations are findings, described in `PROJECT.json`:

- *Unsynchronized spots.* The clock is tested before the slot wait and when a spot is
  posted, never in between.
- *Type 2 messages.* `wsprd` prints a compound callsign and a power without a grid.
  The line then has 11 of the 12 fields `sscanf` is asked for, the file is called
  malformed, and every spot of that frame is dropped.

Behaviours worth knowing, which no run refutes a document with:

- `WholeUnlessLate` holds only with its exception: there is one buffer and one flag, so
  a decoder that is still busy when the next frame completes later copies the buffer of
  the frame after that, decodes a fragment, and the complete frame is lost. This takes a
  decode longer than a whole frame (120 s for WSPR, where the watchdog strikes earlier;
  15 s for FT8, where nothing prevents it).
- `RetryPaced` holds only with its exception: with a full packet queued, a failing
  network is tried again without a pause. A stronger spot accepted for a sender whose
  packet is on its way is removed with it, unsent.
- `NoDuplicateSent` is checked with as many entries in the recent table as senders, and
  proved while those sent within the flush period fit into it. The
  table has 256; with more senders than that in five minutes it forgets the oldest and
  reports it again.
- `SubtractsDecoded` leaves out the one prefix value 32768, for which `m > 32768`
  (`wsprsim_utils.c`) does not set the bit that `unpk_` would need. Hashes of 32400 and
  above are never printed in a type 3 message, and a payload with `ntype` 63 packs into
  another type. The `break` at `wsprd.c:1433` leaves the whole pass, not the candidate,
  when a line cannot be packed again.
- A kill while `wsprd` writes `hashtable.txt` (`wsprd.c:1549-1557`) may leave a line cut
  short, and the next run reads it (`wsprd.c:984-989`) as a callsign under a hash that is not its
  own: `   32` left of `32399` gets the call of the line before, `PJ4/K` left of `PJ4/K1ABC`
  the hash of the latter. Spots then name that callsign, and the signal subtracted for
  such a message is generated with another hash. `SubtractsDecoded` (`TornName`) and
  `CoreSpotsHonest` (`Vouched`) say that this is all: it happens to that hash alone.
- `CoreSpotsHonest` has another exception, stated in it: of a prefix NYN (32768, sent again as 000) or a
  call like K1/03 (a prefix before the two characters 0 and a digit, sent again as K1 with a
  suffix) the signal generated for subtraction is that of another callsign, which is
  unpacked into the table, and a hash may then be printed as a callsign that nobody sent. No other message
  has that effect.
- `decodes[50]` and `allcalls[100]` of `wsprd.c` are indexed by a number of spots that nothing
  limits (`wsprd.c:1443`). What a run does after its 51st spot is undefined;
  the model ends it there.
- `MessagesRoundTrip` leaves out reports below -30 dB: `packgrid` does not check their
  range (`message.c:926`, a TODO there), so -31 to -34 are sent with the codes of 73,
  RR73, RRR and of no report, and lower ones with the codes of grids. A receiver prints
  them as such.
- A device that streams nothing and says it streams is detected by nothing: main polls
  and sends its heartbeat for ever (`airspyhf_wsprd.c:1484`).
- The state `decoder_timeout` that the heartbeat publishes for an overdue decode is
  overwritten by the main loop when it changes from waiting to capturing.
- An FT8 frame leaves 0.4 s to notice its end by a 250 ms poll and compute the next slot;
  a slot may be skipped. The schedule is a function of the clock, so this moves no band.
- The WSPRnet reporter retries its oldest spot without a limit on the attempts
  (`reporter.c:196-201`) and sends no other before it: a spot that the server only ever
  answers with 5xx, a redirect or a timeout holds up the ring until the process stops.
- A wall clock that is set back lengthens the WSPRnet reporter's wait by as much.
- Stopping the advisor may take the 42 s of a round of requests, longer than the
  stop timeout of 30 s; systemd then kills the process, which `KillJustified` allows.

### Fairness

`Receiver`: weak fairness of the DSP and decoder threads (they are scheduled;
decoding ends, which for WSPR means that the core does not hang) and strong fairness of the main thread, which competes with the DSP
thread for `dsp_mutex` and would otherwise be allowed to lose that race for ever. The
radio, the clock and signals have none. `WsprReporter`: the uploader is scheduled and
libcurl's timeouts end every transfer, time passes, a join returns. That the server
answers a spot for good in the end is no fairness of the program and not part of `Spec`:
it is the hypothesis `ServerAnswers` of `EverySpotResolved`, strong fairness of a final
answer, without which TLC refutes that property. `PskReporter`: the same, and strong fairness
of a successful send: a network that is tried again and again works in the end.
`Jt9Decoder`: the decoder thread is scheduled (`ft8_lib`'s loops are bounded) and time
passes; nothing is assumed of the child. `DecoderBridge` states no liveness: its wait
for the core has no deadline, and only the watchdog ends it, which `HungCaught` shows
with time instead of fairness. `BandAdvisor` and `Service` need no fairness either: their
properties are bounds in time, and their clocks stand still while a thread can run
(scheduling is short against the units), so a bound that holds is a bound reached.

## 5. Proofs

All theorems hold for every value of the constants that satisfies the named
assumptions of the modules (ring and block sizes positive, and so on).

*IQ queue* (`ReceiverProofs`, first part). `QueueTypeCorrect`, `OverrunsAccounted`,
`WakeupsKept`, `PeekedBlockKept`. The properties are not inductive: nothing in them
says that `push` writes a free slot. `QueueInv` adds `RingShape` (`head` is `count`
slots after `tail`), `InStream` (blocks end before `produced`) and `HeldIsQueued` (a
held block is still queued, which `Reset` under `dsp_mutex` guarantees).

*Receiver* (`ReceiverProofs`). `QueueRefined`: each receiver step is a queue step, so
`QueueInv` carries over. `ReceiverTypeCorrect` needs `CaptureRoom` (a capture under way
has room left) and arithmetic of the decimation loop (`LoopCounts`).
`FramesHomogeneous` needs to know where stale blocks can be: `CapturePhase` and
`QueueOnLabel` say that during a capture only blocks of the frame's band are queued.
`TunedBetweenCaptures` follows from the same invariant. `SampleTimeKept` relates the
stored samples to the stream; it assumes `MaxProduced <= CounterMax`, that is, that no
counter saturates (2^64 samples). `DecoderStaysAwake` and `ReporterOutlivesDecoder`
rest on `ThreadInv`, the order of the shutdown. `FramesAreWhole` rests on `HandOver`: from
the block that completes a frame (`LoopCompletes`: the decimation loop then ends exactly at
the target) to the decoder's copy the buffer stays whole, unless the frame is marked late: it started while another one waited for the decoder.

*WSPRnet reporter* (`WsprReporterProofs`). `ReporterDelivers`: the reporter implements
`SpotDelivery`. `DeliveryInv` says that the k-th slot from `head` holds the k-th
unresolved spot, that the uploader's copy is the oldest, and that a final answer not
yet handled is the server's. `UploaderStaysAwake` is inductive by itself.
`BackoffIsHonoured` rests on `BackoffInv`: only the head of the ring has ever failed, and
the time it has waited and its `retry_in` make up the delay of its attempts. The delay is
recursive; `RetryDelay` exhibits its closed form, the base doubled for each attempt up to
the limit, as a solution of the equation, with `PowerDoubles` from the number of subsets of
a set (the prover knows no rule for powers).

*PSK Reporter* (`PskProofs`). `UnsentKept`, `StrongestSent`, `TemplatesBeforeData`,
`RetriesPaced`. `QueueInv` says that while a packet is being sent its spots are the first
of the array, sender by sender, although a stronger spot may have replaced one
(`PacketAtFront`), that the array holds a sender once (`QueueShape`), and that what is
queued is the strongest accepted (`StrongestQueued`): removing the first
`report_count` spots then removes what was sent. `CountBehind` ties the count of packets with
templates to what the socket carried, `PauseCovered` the thread's wait to the retry delay.
`DuplicatesSuppressed` has a hypothesis, `[]RoomInTable`: whenever a packet was sent, its
senders and those with an entry younger than the flush period are at most as many as the
table has slots (256 in the code). It holds in any run with no more senders than that.
`RecentInv` says that a sender
sent lately is in the table, with an age that is not too high, or in the packet that waits
to be marked, and that only spots in that packet are queued of such a sender. `OneMarked`
is the heart of it: if all that matters fits, then by counting a full table has an entry that
does not matter, so neither does the oldest, and that one is overwritten. `MarkedInTurn`
and `PacketMarked` carry it through the loop over a packet.

*Result merge* (`Ft8Proofs`, first part). `MergeDeduplicates`, `MergeIsUnion`,
`MergeAttributes` and `MergeKeeps` follow from `MergeCorrect`, that `MergeInv` holds:
the conjunction of the four properties with the type invariant, which is inductive
only as a whole. `SameIsDuplicates` says that the loop's test is the duplicate
relation, and `Completion` that taking a callsign over changes neither the message nor
the frequency, so that no duplicate appears or is lost by it.

*FT8 decoder* (`Ft8Proofs`), for any hash function, table sizes and payloads that satisfy
`Ft8Assumption`, `PayloadAssumption` (the fields a payload of each type can have) and
`TextAssumption` (the two decoders print texts of the same kind). Nothing else is assumed
of the hash, so callsigns may collide in any way. `HeardIsResolvable` says
nothing of old entries, and clearing those breaks probe chains: `TableInv` is what
survives it. An entry has its callsign's hash and is no older than its age
says (`TableSound`, `TableHeard`), and the callsigns of this frame are reached by their
probes without a hole (`Reached`), as entries are cleared only between frames. `SaveIs` and `FirstProbeIs` say what a search does, `Saved` and
`SavedThen` what a sequence of saves leaves, `SameHome` that both lengths of a hash lead
to one home. For `ResultsAreFaithful`, `Redecode` shows that the second decode of a payload finds
the transmitter of the first: a callsign looked up was there already, and saving the other
one again changes nothing (`SaveTwice`). `DecodesAreUnique` rests on `Chained`: a retained
payload is reached from its CRC without a free slot before it. `FramesMissNothing` carries
`MergeInv` through the frames: each leaves the merge a state that `MergeCorrect` starts
from (`MergeStarts`).

*Candidates* (`Ft8Proofs`, last part). `CandidatesChosen` is the run's `CandidatesStrongest` for all scores, any room
and any threshold. It rests on
nothing but the definitions. `LoopRuns` and `LoopEnds` are the induction over a loop: if every
round leads from the m-th of a list of sets of states to the next, the recursive function that
models the loop exists and ends in the last. The sets are the loop invariants. `SiftsDown`: the
places are in heap order but for one node and its children, which are not weaker than that
node's parent; the node's number grows in every round, so `heap_size` rounds suffice
(`HeapifiedDown`). `SiftsUp` is the same upwards (`HeapifiedUp`). `RootWeakest` makes
the replaced candidate the weakest, so that `Strongest` survives the scan: a place that was
seen and reaches the threshold is in the heap, or the heap is full of places that are not
weaker. `Sorting` is the invariant of the final sort: what is behind the shrinking heap is in
falling order and not stronger than anything in the heap.

*jt9 decoder* (`Jt9Proofs`). `ChildrenReaped` follows from `JobOwned` (a job is under
way, and jt9 in use, from its start to `jt9_decoder_finish`, and the child is reaped
before that) and `FilesOwned` (without a job the directory holds at most the wisdom,
without jt9 nothing), which together are inductive; that freeing the decoder removes the
directory is `FreedWhole`, as `rmdir` needs it empty. `GivenUpAfterLimit` relates the
counter to the history: `FailuresCounted` says that the outcomes end with a run of
exactly `failures` failures, below the limit while jt9 is used. `ResultsAreOwn` rests on
`OwnInv` (without a job nothing waits to be read, and below the counts there are only entries
of the frame under way), and on `ReadsDecodes`, what the loop over the printed lines takes.
Induction along such a loop is `UpTo`, from the least number at which it would fail
(`LeastNatural`, by the well-foundedness of the numbers).

*Decoder bridge* (`WsprProofs`, first part). `FramesPostedWhole` and `DirectorySwept` are not
inductive: they say nothing of the steps in between. `BridgeInv` adds `CoreWaited` (a core
exists only while it is waited for), `OwnOutput` (the file is this frame's output from
the core's opening it until it is parsed), `TemporaryOwned` (a temporary directory is the
frame's or one a crash left) and `SweptClean` (the sweep ends with nothing but the hash
table, whatever it found).

*WSPR codec* (`WsprProofs`, second part), for any hash function of fifteen bits (`FifteenBits`).
`EveryPayloadPacksBack`: of any 28 and 22 bits, whatever callsign of that hash the table holds,
the line that is printed packs back into the payload, if the payload is in the canonical form
that a packer makes (`Canonical`). There is one part for each kind of message; what carries
them is that digits of mixed bases can be cut off and put back, for callsigns, prefixes and
locators, and that the packer, given a printed text, finds the kind it was printed as.

*WSPR core* (`WsprProofs`, third part). `SignalsSubtracted` and `SpotsHonest` are
`SubtractsDecoded` and `CoreSpotsHonest` as invariants of every sequence of passes, runs and kills, over any
payloads: none is assumed away. Both follow from `CoreSound`: whatever the tables hold,
in memory (`hashtab`) and in the file, is a pair of `Names`, which are the callsigns spelled
out in frames or in generated signals, under their own hashes, and the pairs read from lines cut short (`Listed`); the
spots have names out of the same set (`Sound`); and what generated signals spell comes from
messages that are not `Regenerable` (`OnlyIrregular`). The steps to show are `Decoded`
(`SettlesTable`, `SettlesSpots`), where subtracting a signal unpacks what was generated for it, and
`AgainLeaves` says that this adds nothing for a `Regenerable` message; `DiesSaving`, where `CutIsEntry`
says that the remains of a line are a hash of the instance and a string; and `LoadTable`, which enters
them (`TornListed`). For `SignalsSubtracted`, a hash that no cut line named has a callsign
of that hash, which is what `EveryPayloadPacksBack` asks of a table. Sorting the spots
(`SortedPermutes`) keeps them.

*Fano decoder* (`WsprProofs`, last part), for any length, tail, step and number of cycles with
`FanoAssumption` (at most 128 bits, as the interleaver has 256 places; a positive step), and
any message and fading. `SearchFindsHighest` proves `StaysHighest`, which no run repeats: at
the length of the code it ranges over 2^50 messages. The property speaks of
the end only, and nothing in the decoder's state says what it has given up. `FanoInv` does:
up to the present node the better branch of each comes first (`InOrder`); a branch that was
given up was refused by a threshold that neither the present one nor any node since has
fallen below (`Tried`); the threshold the root was left with last refuses every message one
step higher (`Rooted`); and a decoder that looks backward has found every continuation of
its path refused (`Stuck`). A branch is refused if each message through it dips below the
threshold somewhere (`Dips`), so that raising the threshold or moving on takes nothing back. A look
forward is `Advances` or `BlockedStuck`, one backward `Relaxes`, `RetreatsStuck` or
`RetreatsTurning`, and `Ends` draws the conclusion from `Rooted`; the other parts are
what the decoder needs to come back to the root with every message refused. Metrics along a path are
recursive functions; that they exist (`ScoreExists`) and agree on common prefixes is shown
from the least place at which it would fail. `CleanDecodes` proves `FadedDecodes` for a
channel that changes nothing: it needs that the interleaver uses each place once
(`EarlierPermutes`, and `InterleaveInverts` with it) and what the comment in `fano.c` assumes
of the polynomials, that both are odd, so that the symbols of the two branches are
complementary (`LastBitTaps`).

*Hop plan* (`BandAdvisorProofs`, first part). `RotationContinuous`: from a dwell spent listening to the
next one, with or without an exploring dwell between them, the receiver moves on by one
ranked band, for every ranking, plan and dwell. `ExplorationRotates`: every sixth dwell
is spent on a left out band and the sixth after it on the next one. Both rest on
`RankedSlotAdvances`, that the count without the exploring dwells advances by one, and on
`NextInRing`, that counting on by one moves on by one place. `SchedulesSound` is the run's
`HopScheduleSound` for every record of options with a list of names, and every advice of
distinct bands of the plan (`Advice`, which is what the advisor ranks). Its part about the
receiver holds for every dwell there is, not only for those of one round (`DwellsTunable`). The shares are
counted by exhibiting the dwells of a band one by one: `TurnsFair` without exploration,
`RankedFair` and `ExploredFair` with it. They need to know that the ranked bands and the bands
left out share the plan, each once (`PlanShared`), which follows from the tables: one band
has one name and one number in the database (`TablesConsistent`).

*Band advisor* (`BandAdvisorProofs`), for all timers with `TimingAssumption`, by far the
strongest of the assumptions and all of it arithmetic on constants of the code: WSPR's
query starts 90 s into an hour and takes at most 12 s, before the end of that frame's
capture at 114 s; FT8's two requests take at most 30 s and 12 s, less than the 45 s of the
boot wait; timeouts are shorter than the interval of an hour, which is a multiple of the
slot, as the dwell is. `OneBandPerDwell` rests on `DwellPlanned` (the last capture
was on the band that the plan in use gives for its dwell, unless a later dwell has been
chosen since), `StopIsBounded` on `StopPace` (the time
since the stop and what is left of the round, `RoundLeft`, together never exceed a whole
one), `FirstAdviceUsed` on `BootWaits` (the same sum against the boot's deadline),
`AdviceInTime` on `QueryPhased` and `CapturePhased` (where in its slot a query and a
capture may be, which every wait, retry and timeout must keep).

*Service* (`ServiceProofs`), for all timers with `ServiceAssumption`: a heartbeat period
is shorter than the watchdog's, and the deadlines of warm-up and first advice and the time the
device takes to start together
shorter than the start timeout. In the code and the unit file these are 10 s and 45 s, and
60 s + 45 s and 180 s, which leaves 75 s to the device: that it needs no more is
an assumption about libairspyhf and libusb. `UsesAreHeld` rests on `StartupHeld` (what each
position of the startup has acquired) and `CleanupCovers`: the calls still to make release
everything that is held, and end each thread before anything it uses is released. There is
one lemma for every clean-up list of `main`. `SelfHeals` needs `StopsExplained` (how the
exit status, the request and the state of the unit belong together), `HungIsCaught`
`HungBound` (the age of a decode is at most its deadline and the time since the last
heartbeat), `KillsAreJustified` `StartPace` and `LoopPace` (the same for startup and loop,
step by step).

Proved but not repeated in the runs: the type correctness of the IQ queue, the receiver
and the merge, `StaysHighest`, `StreamAccounted`, `NoLostWakeup`, `PeekedBlockStable`, `ReporterAlive`,
`UploaderAwake`, `GivenKept`, `CallsAttributed` and `NothingAddedTwice`.

Only model-checked: all liveness (outside the prover's reach); `MessagesRoundTrip`, whose
codec takes strings apart, of which the provers know nothing; and `FadedDecodes` with
fading, which is true of the bursts that were tried and not of every one (`CleanDecodes` is
its case without fading).

## 6. Not modelled

- Numeric code: filters, FFT, synchronization, demodulation, LDPC and CRC, subtraction of
  a signal, the search for candidates of `wsprd`, positions and distances of locators.
  Of the vendored code, the FT4 and FST4 modes and the Jelinek decoder are not used by
  this program, and OSD is a stub in its build.
- Text: HTTP, JSON, URLs, packet bytes, the WAV and `.c2` files, status messages, usage.
  The parsers of the advisor are modelled on rows, `hop_plan_parse` on fields, the
  locator and callsign checks on character classes.
- Options that are only handed to the device (attenuation, AGC, serial number).
- Real time in the receiver: slots are steps there. Time is in `BandAdvisor` (slots,
  dwells, queries) and `Service` (decodes, heartbeat, systemd's timers).
- Counters of the health report, which nothing in the program reads back.
- The installer and scripts, which run once and keep no state.
- A program's own directory left in `/dev/shm` by a crash; a core that outlives a program
  killed outside systemd.
- Data races on `capture_flag` between the DSP thread and `is_capture_active`: there
  are none, since both hold `dsp_mutex`; `exit_flag` is `volatile sig_atomic_t` and
  read as an atomic value.
