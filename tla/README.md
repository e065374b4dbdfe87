# edm-loadgen: specification, model checking and proofs

TLA+ models of `edm-loadgen`, the dnstap load generator for DNSTAPIR's EDM: what its
goroutines, processes, files and counters do, the properties that make them correct, TLC
configurations that check the properties on small instances, and theorems that TLAPS proves
for every instance. Every definition is read off the Go code; `PROJECT.json` maps each one
to its lines (paths below are relative to the repository's root).

## 1. The system

```
  flags, config file ──Startup──> State  <──sliders, buttons── web UI
                                    │  weights, running, rate
                     ┌──────────────┼──────────────────────────────┐
                     v              v                              │ Sent.*
   mixer ──Pick──> builders ──> channel ──> sender ──> sink ══> EDM process
   (Mixer)         beacon  ──────^    (Producer)                (EdmProcess)
                                                                 │ /metrics  │ MQTT
                                 State.Observed <── scraper <────┘           v
                                        │           (Verify)         broker (Broker)
                                        v                            keys   (Pki)
                                   Reconcile, benchmark report (Benchmark)
```

`Command` puts the pieces that `run`, `benchmark` and `serve` start and stop under one main
goroutine; `Traffic` is what goes into a frame: the generators behind the mixer and the encoders.

One process with many goroutines, a child process group, a directory of keys that outlives
both, and counters that everybody reads without a lock.

| component | code | state | operations | what makes it correct |
|---|---|---|---|---|
| producer pipeline | `internal/producer/producer.go` | send channel, buffer pool, builders, beacon goroutine, sender, rate publisher, `State.Sent` | spawn, build, offer, send, bump, close, return | one owner per buffer; channel closed after its builders; a cancel drains and ends it |
| mixer | `internal/mix/mix.go` | weights in `State.Mix`, read without a lock | `Pick` | proportional; nil exactly when nothing is wanted |
| verifier | `internal/verify` | baseline, snapshot, `State.Observed` | scrape, apply, store, `Reconcile` | never claims more than EDM was given; catches up |
| benchmark command | `cmd/edm-loadgen/main.go` `runBenchmark` | two contexts, result channel, progress goroutine | baseline, first frame, timed select, stop, drain, report | the report is final and honest, and comes |
| EDM process | `cmd/edm-loadgen/edm.go` | `edm.toml`, the DAWG and its `.tmp`, process group, exit channel | bootstrap, launch, readiness, `Stop` | no orphan; no half-written DAWG; `Stop` ends |
| key material | `internal/pki/pki.go` | three PEM pairs and a JWK on disk | `Ensure` | after any history of crashes a successful call leaves a verifiable chain |
| MQTT broker | `internal/mqtt/broker.go`, `startMQTT` | `Run`'s two selects, `Serve`'s goroutine, publish counters | run, cancel, hooks, `Stats` | nothing left after a cancel; no packet uncounted |
| settings | `internal/state`, flag overlay in `main.go` | State, flags, config file | `New`, `LoadConfig`, `Apply`, overlay | precedence |
| `run`, `serve` | `main.go` | two contexts, deferred stops | start, status loop, web server, interrupt, exit | what they start is stopped; after a cancel nothing new is begun for it; an interrupt ends them |
| patterns | `internal/pattern`, packed by `internal/dns` | per-builder client pools; one exfil session that two generators share | construction, `Next`, packing | an exfil session is queued chunk by chunk, once and in order; which settings lose a frame or panic |
| rate bucket, sink, encoders | `internal/rate`, `internal/sink`, `internal/dns`, `internal/dnstap` | ticker; one connection | `Wait`, `SendBytes`, encode | – |
| web UI | `internal/web` | bindings to State | button, sliders | – |
| `smoke`, `verify` | `main.go` | none | one-shot loops | – |

**Interactions.** Builders and the beacon meet the sender only in the bounded channel
(8 slots per worker) and in the buffer pool. `Producer.Run` waits for the builders (a
`WaitGroup`) and the sender (a channel), *not* for the beacon or the rate publisher, which
watch a context of their own. The sender's counters are atomics that the status line, the
UI and `Reconcile` read one at a time. The scraper has a mutex around its baseline but
stores its results after the unlock. `startMQTT` and `Broker.Run` each take "nothing went
wrong within so many milliseconds" for success. `die` is `os.Exit` and runs no deferred
`Stop`.

**Where it is hard.** Order of shutdown (who may still send on a closed channel); stale
reads (a weight read before a minute's sleep, a baseline read after a restart); a panic in a
generator, which nobody recovers; a metric that is missing and read as 0; two atomics
bumped or read as if they were one; a process that may ignore SIGTERM or leave a child; a
file created and not yet filled when the process dies; three receivers for one value in
`prodDone`; a select whose two cases race a timer. `PROJECT.json` lists these hazards at
their lines, with the properties that would catch each going wrong.

## 2. Plan

The order is by what matters most: the pipeline is the program, the verifier is its purpose,
the commands put everything together, and the patterns are what is sent.

1. `Pipeline` (abstract) and `Producer`: invariants, liveness, refinement, proofs – done.
2. `Verify`: done, with proofs.
3. `Benchmark` over `Pipeline`; `EdmProcess`; both composed, with the producer, the scraper,
   EDM and the signal handler, into `Command`: done, with proofs by way of a second refinement.
4. `Traffic`, `Pki`, `Broker`, `Startup`, `Mixer`: done, with proofs.
5. Left, in this order: two processes that run `Ensure` in one keys directory at the same time
   (today `Pki` runs one call after the other); the web UI's button and broadcast loop as a
   component of its own; the one-shot commands `smoke` and `verify`.

## 3. Modules

| module | models | how |
|---|---|---|
| `Pipeline` | what `Producer.Run` promises its caller | `phase`, frames `pending`, `delivered`, `reported`, a `Bound`; no goroutines |
| `Producer` | `producer.go` | one action per step between two accesses to shared state; `main`, `bpc`, `cpc`, `spc`, `ppc` say where `Run`, the builders, the beacon, the sender and the publisher are; each case of a `select` is an action; a generator or a send that panics ends the process |
| `Verify` | `metrics.go`, `report.go`, with the sender's counting and EDM as the verifier sees them | counter 1 is `edm_processed_dnstap_total`; `Apply` is the critical section, the stores after the unlock are single steps; EDM has a past (`Before`) and a `Backlog`, may restart, which zeroes counters and loses its input, and may leave metrics out of an answer, which reads them as 0 |
| `Benchmark` | `runBenchmark` | EXTENDS `Pipeline` as its producer; `main` walks through the command, `prodCh` is the one-place result channel |
| `EdmProcess` | `edm.go`, and where the commands return or die | files `absent`, `torn` (created, not filled) or `whole`; the process group has one process (binary) or two (`go run` and its child); the exit channel holds a value, is drained or closed; another EDM may have the ports |
| `Command` | `main.go` from `startEDMIfRequested` to the exit, for the three commands | EXTENDS `EdmProcess` for start and stop and INSTANCEs `Benchmark` for the work between them; the EDM that is started is the one that takes frames and answers scrapes, and a sink whose EDM is gone blocks |
| `Mixer` | `Pick` | the two passes over the weights slot by slot, a slider moving between any two; `int32` wraps at `IntMax` |
| `Traffic` | `internal/pattern`, the limits of `internal/dns`, `buildLoop`'s dropping of what does not pack | construction of the generators, one action per `Next`; a query is the lengths of the labels put before a name of the lists and settings (whose length is the knob `zone`), of its TXT string and its NULL data, whether it has an answer, and the chunk it carries |
| `Pki` | `Ensure` | a key pair is a number, a certificate the pair it is about and the pair that signed it; writes are open-then-fill |
| `Broker` | `broker.go`, `startMQTT`, `countingHook` | `Run` with its two selects, `Serve` external, one goroutine per client |
| `Startup` | State, config file, flags, `--edm` | a value is named by where it came from; `Apply` field by field, in the order of the code |
| `*Proofs` | – | theorems about the module of that name; `CommandProofs` has those about `EdmProcess` too |
| `MC_*` | – | instances for TLC: sets, symmetry |

`Producer` is shown to implement `Pipeline` (`phase` from `main`, `pending` the channel plus
the sender's unfinished item, `reported` the total, `Bound` the capacity plus one), so
`Benchmark`, which composes `Pipeline` with the command, the scraper and EDM, speaks about
the real producer without its interleavings. `Command` in turn is shown to implement
`EdmProcess`, whose "the rest of the command" it spells out: what holds of every life of an
EDM holds of the composed program.

Comments headed "Mutants" mark definitions that are no part of any specification: each is a
bug the code could plausibly have, and each property is known to fail with one.

## 4. Runs

Run one with `tlc -config X.cfg MC_M.tla`. All configurations switch the deadlock check off
because the systems stop: `Run` returns, commands exit, `Ensure` uses up its calls.

| run | cfg | shows | instance, and why it is enough |
|---|---|---|---|
| pipeline | `MC_Producer_pipeline` | `BufferOwnership`, `CloseAfterBuilders`, `StopDrains`, `CancelDrains`, `ImplementsPipeline` | two builders, the beacon, one channel slot, five buffers: one per holder (2 + 1 + 1 + 1), so nobody waits for a buffer; both senders compete for the slot; one delivery, then the sink refuses; a builder may panic at any pick. 307 000 states under symmetry |
| termination | `MC_Producer_termination` | `RunReturns`, `BackgroundEnds` | a rate-limited producer, one builder; `MaxSent = 0`: every send fails, which is the path back to the loop (the two bumps after a good send are steps of the sender alone); three buffers, so that a full channel, a busy sender and a builder at its select occur together; no symmetry, for liveness |
| closepanic | `MC_Producer_closepanic` | `CloseAfterBeacon` is **violated** | one unthrottled builder and the beacon |
| verify | `MC_Verify_counters` | `NeverClamps`, `ObservedIsOurs`, `TotalCovered`, `DriftIsBaseline`, `CatchesUp` | two patterns, two EDM counters (one that counts every frame, one that need not), one frame before us and one in EDM's backlog, one frame of ours, one restart, one answer that lacks a metric: each of what can be confused with another occurs once, and the theorems cover any number. 565 000 states, about 50 s |
| restart | `MC_Verify_restart` | `BackwardsResets` is **violated** | three frames, one restart |
| pick | `MC_Mixer_pick` | `PickProportional`, `NilWhenSilent` | three slots, weights -1, 0, 2, 3 and an integer that wraps above 5, so that negative, zero, fitting and wrapping sums occur |
| chain | `MC_Pki_chain` | `Chained`, `KeepsWhole` | four calls, each killed or failing anywhere, with a leaf pair, the JWK or everything deleted between them. 73 000 states |
| broker | `MC_Broker_life` | `Counted`, `NothingLeft`, `CancelEnds` | two clients, three packets; 311 000 states |
| overlay | `MC_Startup_overlay` | `FlagsWin`, `ConfigHolds` | every command, config file and environment; up to two flags given at a time, since the overlay treats fields one by one and only `listen` with `--edm` interacts. 1.7 million states |
| command | `MC_Command_command` | `NoOrphan`, `WholeDawg`, `ReportFinal`, `ReportHonest`, `StopReturns`, `BenchmarkEnds`, `InterruptExits` | the three commands with and without `--edm`; a checkout, whose group has a leader and a child; another EDM on the ports or none; one kill in the bootstrap and one pause between polls, so that both are retried; two frames through a pipeline of one, one frame before us and one in EDM's backlog. 451 000 states, about two minutes |
| traffic | `MC_Traffic_traffic` | `SessionSent`, `LostOnlyOverLimit`, `PanicOnlyBadKnobs`, `Constructed` | the default settings and, one or two at a time, values at and past the edges of their ranges (negative, zero, reversed, one below and above each limit of DNS: labels, strings, 65535 bytes of data, names of 191 to 256 bytes; a payload over the cap); a session of at most 100 bytes, which is three whole chunks and a rest; five hosts, with pools that ask for more than there are, for fewer, and for fewer than the pool that stops early. 68 000 states |
| presets | `MC_Traffic_presets` | `EveryQueryPacks` is **violated** | the numbers of `configs/*.json` and of the code's session, to the byte |

Each passing run also checks its module's type invariant, `termination` excepted (the
invariant is checked by `pipeline` and proved).

**Bounds.** `MaxSent`, `MaxFrames`, `MaxPublish`, `MaxRestarts`, `MaxGaps`, `MaxRuns`, `MaxCrashes`,
`MaxPolls` and `MaxFlags` cap counters in guards. None is a number of the code; at `MaxSent`
and `MaxFrames` the sink only fails (or takes nothing) from then on, which it may do anyway.
`QueueCap`, `Bound`, `NSlots`, `NCounters`, `IntMax`, `DefaultSession`, `SessionCap`,
`PoolSizes`, `Hosts` and `PoolStop` are code constants made small, with their order kept.
`Before` and `Backlog` are what EDM had done and been given before us.

### Fairness

- *Scheduler.* Every goroutine that can run does: weak fairness of each goroutine's steps
  (`SchedulerFairness`, `Apply`/`Store`, `RunStep`, `MainGoes`, ...). A builder's
  includes that the ticker it waits on ticks.
- *Select.* Go's select picks at random among ready cases, so a `ctx.Done` that is ready
  again and again is taken in the end: strong fairness of the beacon's cancelled cases.
- *Sink.* `RunReturns` assumes that `SendBytes` returns (in `FairSpec`, part of the sender's
  fairness). The dnstap writer retries for ever; `FairSpecDeadSink` drops the assumption, see below.
- *EDM.* In `Verify` EDM works off its input and some of the repeated scrapes bring
  every metric (strong fairness of `ScrapeOk({})`, which a cancel ends).
- *Commands.* In `FairCommand` timers fire (a part of `MainGoes`), a SIGKILLed process dies,
  and `cmd.Wait` returns for a dead leader; nothing says that EDM heeds SIGTERM or stays
  alive. The producer closes and drains after its cancel, which is `Producer`'s `RunReturns`,
  but only while somebody takes its frames: the drain is not enabled once EDM is gone.
- *Broker.* `Serve` returns: with the in-process listener of the mochi server it does not block.
- *Traffic.* The random draw for a client pool finds an address that is not in the pool yet
  as long as there is one (`FairSpec`).

## 5. Where the code departs from what it says

Three are runs of their own:

- **The beacon may send on the closed channel** (`closepanic`). The sender's comment says the
  channel "closes when builders are done AND beacon is done" (`producer.go:154`). `Run` waits
  for the builders only; the beacon, at its select with its context cancelled *and* the
  channel closed, may take the send case, which panics the process (`BeaconPanics`).
- **A restart of EDM may be missed** (`restart`). "EDM restarts are detected as any counter
  going backwards; the baseline resets" (`metrics.go:39`). `apply` compares with the
  *baseline*, not with the previous snapshot: when EDM restarts and is back above the
  baseline at the next scrape, the old baseline stays and the observed count falls short for good.
  (`ObservedIsOurs` still holds: what a missed restart leaves is an under-count.)
- **Long TXT answers are never sent** (`presets`). Exotic is said to carry its answers "in TXT,
  CNAME, or NULL records of configurable size" (`exotic.go:14`), and `payload_bytes_max` to be
  the "answer payload upper bound" (`configs/README.md:121`). The payload becomes one TXT
  string (`exotic.go:77`), which holds 255 bytes; the packer refuses a longer one, and
  `buildLoop` drops the frame without a count (`producer.go:203`). Both shipped presets ask for
  more (480 and 800 bytes): every TXT query over 255 bytes that their exotic slot makes is lost.

The modules state further promises that TLC refutes. To see one, put it in the place of the
invariants and properties of the configuration named:

| property | configuration | promise | what happens |
|---|---|---|---|
| `BeaconSilent` | `MC_Producer_pipeline` | "when zero, the beacon is silent" (`producer.go:224`) | the weight is read before the beacon's wait, not after it |
| `RunReturns` under `FairSpecDeadSink` | `MC_Producer_termination` | `Run` "blocks until ctx is cancelled" (`producer.go:120`) | with a collector that is gone for good the sender, and `Run` with it, never ends |
| `ClampCatchesRestart` | `MC_Verify_counters` | `relativeTo`'s clamp acts "momentarily during EDM restarts before the caller resets the baseline" (`metrics.go:180`) | `apply` resets the baseline first, so the clamp never acts (`NeverClamps`) |
| `PriorIsZero` | `MC_Verify_counters` | what EDM processed "before the load-gen attached shows up as 0 ... and drift starts honest" (`metrics.go:35`) | a backlog that EDM works off after the baseline is credited to us; and an answer without the counter reads as 0 (`metrics.go:84`), which resets the baseline to 0 and credits EDM's whole past; `ObservedIsOurs` says how much at most |
| `DriftMeansLoss` | `MC_Verify_counters` | "Persistent drift means EDM is dropping or backed up" (`README.md:243`) | frames of ours processed before the first successful scrape are in the baseline and stay a drift, a backlog is one the other way; `DriftIsBaseline` says exactly how much |
| `ZeroWeightSkipped` | `MC_Mixer_pick` | slots without weight "are skipped automatically" (`mix.go:32`) | a weight lowered between the two passes lets the walk run off the end, to the last slot whatever its weight; no other slot is picked without one (`OnlyFallbackUnweighted`) |
| `PickReturns` | `MC_Mixer_pick` | `Pick` returns a generator or nil (`mix.go:41`) | an `int32` sum that wraps to a negative panics `rand.IntN`; the sliders alone cannot make one (`PickAlwaysReturns`: 100 each, `web/assets/index.html`) |
| `KeepsExisting` | `MC_Pki_chain` | "existing files are kept" (`pki.go:56`) | a certificate without its key is overwritten with a new pair |
| `FilesWhole` | `MC_Pki_chain` | no file is empty (`pki_test.go:22`) | a leaf or JWK file left empty by a killed write is kept, and `Ensure` succeeds |
| `KidIsNodeName` | `MC_Pki_chain` | the kid is the node name (`main.go:725`) | a JWK made under another node name is kept |
| `ServeLikeRun` | `MC_Command_command` | `runServe` "is identical to runHeadless" up to the UI (`main.go:582`) | a web server that fails (its port is taken) makes `serve` call `die`, no deferred `Stop` runs and EDM stays behind |
| `InterruptAlwaysExits` | `MC_Command_command` | "Ctrl-C exits cleanly" (`main.go:221`) | `benchmark` waits for the producer (`main.go:416`), and the producer for a sink whose EDM has died |
| `SinkOneAtATime` | `MC_Command_command` | the sink is used by "one goroutine at a time" (`framestream.go:79`) | `run` and `serve` do not wait for the producer and close the sink under its sender |
| `AlwaysAnswered` | `MC_Traffic_traffic` | responses "always have at least one answer" (`background.go:152`) | `synthAnswer` has none for NULL, which the config may ask for |
| `OffIsOff` | `MC_Traffic_traffic` | `"off"` "disables evasion entirely" (`evasion.go:55`) | with all weights zero the pick falls to DGA, and a query is sent |
| `ChunkCarried` | `MC_Traffic_traffic` | "subdomain labels carry encoded payload bytes" (`exfil.go:18`) | iodine's label is longer than 63 bytes for a full chunk and is cut, so its last bytes are not sent |
| `RunBlocks` | `MC_Broker_life` | `Run` "blocks until ctx is cancelled" (`broker.go:106`) | `Serve`'s nil, later than 50 ms, ends it |
| `NilMeansDisabled` | `MC_Broker_life` | nil "when MQTT is disabled" (`main.go:713`) | the same nil within 75 ms makes `startMQTT` answer nil, nil for a broker that listens |
| `StatsConsistent` | `MC_Broker_life` | "a snapshot" (`broker.go:142`) | the total is loaded first, the EDM count, bumped last, after it |
| `DefaultsHold` | `MC_Startup_overlay` | "flag defaults < config file < explicit flags" (`README.md:226`) | with `--config`, flags not given are ignored and `state.New` decides: keys directory and node name are empty |
| `DomainsPathHolds` | `MC_Startup_overlay` | `background.domains_path` (`README.md:277`) | only the flag is read |

A few comments are off without a property here: a Zipf exponent of 1.0 is documented as
allowed (`configs/README.md:62`), and `rand.NewZipf` answers nil for it, whose first use panics
(`PanicOnlyBadKnobs` lists it); the DGA lengths of the config (`configs/README.md:77`) do not
bind suppobox, and necurs only above 16 (`LengthsOf`).

## 6. Proofs

`tlapm M.tla` checks a module. The theorems hold for every value of the constants under the
modules' named assumptions, which TLC evaluates on every run: `ProducerAssumption` (finitely
many builders and at least one, since `Run` takes GOMAXPROCS for a number below one
(`producer.go:91`); a positive capacity, "beacon" not a builder's pattern, `NoFrame` not a
buffer), `VerifyAssumption` (finitely many patterns, at least one counter, natural bounds),
`MixerAssumption` (at least one slot, weights that are `int32`s), `TrafficAssumption` (settings of the
right types, in range or not; sizes and pools of at least one), `EdmAssumption`,
`CommandAssumption`, `BrokerAssumption`, `StartupAssumption` (the commands, finitely many
clients, natural bounds), `PkiAssumption` and `OperatorAssumption` (who deletes a certificate
deletes its key as well, and with the CA all that it signed; without it a deleted CA leaves
old leaves behind, which `Ensure` keeps).

| theorem | statement |
|---|---|
| `ProducerProofs!TypeCorrect` | `Spec => []TypeOK`, with the channel within its capacity |
| `ProducerProofs!ClosedAfterBuilders` | `Spec => []CloseAfterBuilders` |
| `ProducerProofs!BuffersOwnedOnce` | `Spec => []BufferOwnership` |
| `ProducerProofs!StopTakesEffect` | `Spec => StopDrains` |
| `ProducerProofs!ProducerImplementsPipeline` | `Spec => ImplementsPipeline` |
| `ProducerProofs!CancelTakesEffect` | `Spec => CancelDrains` |
| `ProducerProofs!RunBlocksUntilCancelled` | `Run` closes the channel and returns only after the cancel, and the process crashes only then or in a builder's `Pick` or `Next` |
| `ProducerProofs!ClosesOnCancel` | `Pipeline`'s `Close`, as the producer takes it, is a step under a cancelled context: what `Benchmark` assumes |
| `ProducerProofs!CancelledRunWindsDown` | after the cancel the steps of builders and sender only lead to their ends |
| `ProducerProofs!NeverStuck` | until `Run` is over `Run`, the sender or a builder can go |
| `VerifyProofs!TypeCorrect` | `Spec => []TypeOK` |
| `VerifyProofs!ClampUnreachable` | `Spec => []NeverClamps` |
| `VerifyProofs!NoOverclaim` | `Spec => []ObservedIsOurs` |
| `VerifyProofs!DriftExplained` | `Spec => []DriftIsBaseline` |
| `VerifyProofs!ReportCovered` | `Spec => []TotalCovered` |
| `MixerProofs!TypeCorrect` | `Spec => []TypeOK` |
| `MixerProofs!Proportional`, `SilentWhenZero` | `Spec => []PickProportional`, `Spec => []NilWhenSilent` |
| `MixerProofs!PickAlwaysReturns` | `Spec => []PickReturns` if no weight is above some `m` with `m * NSlots <= IntMax` |
| `MixerProofs!OnlyFallbackUnweighted` | what is picked had a weight during the pick, or is the last slot |
| `CommandProofs!DawgWhole`, `GroupStopped` | `EdmProcess`'s `Spec => []WholeDawg`, `Spec => []NoOrphan` |
| `CommandProofs!CommandIsEdmProcess` | `CommandSpec => ImplementsEdmProcess` |
| `CommandProofs!CommandTyped` | `CommandSpec => []CommandTypeOK` |
| `CommandProofs!CommandLeavesNoOrphan`, `CommandStartsOnWholeDawg` | the same for `CommandSpec` |
| `CommandProofs!StopNeverStuck`, `CommandStopNeverStuck` | `Stop`'s wait after the SIGKILL has something to end it |
| `CommandProofs!BenchmarkNeverStuck` | so have `runBenchmark`'s waits for the producer and the progress goroutine |
| `CommandProofs!ReportCountsAll`, `ReportCreditsNoMore` | `CommandSpec => []ReportFinal`, `CommandSpec => []ReportHonest` |
| `TrafficProofs!TypeCorrect` | `Spec => []TypeOK` |
| `TrafficProofs!SessionDelivered` | `Spec => []SessionSent` |
| `TrafficProofs!LossExplained`, `PanicExplained` | `Spec => []LostOnlyOverLimit`, `Spec => []PanicOnlyBadKnobs` |
| `PkiProofs!TypeCorrect`, `ChainHolds`, `WholeIsKept` | `Spec => []TypeOK`, `Spec => []Chained`, `Spec => KeepsWhole` |
| `BrokerProofs!TypeCorrect`, `AllCounted`, `CancelledIsClosed` | `Spec => []TypeOK`, `Spec => []Counted`, `Spec => []NothingLeft` |
| `StartupProofs!TypeCorrect`, `GivenFlagsWin`, `FileHolds` | `Spec => []TypeOK`, `Spec => []FlagsWin`, `Spec => []ConfigHolds` |

*Producer.* `CloseAfterBuilders` alone is not inductive: that no builder comes back to life
after the close needs to know where `Run` is. `IInv` couples the two: `Spawning` (a builder
is idle exactly until it is spawned, and all are spawned once `Run` waits), `Closing` (the
channel is closed in `Run`'s last phases only, and from `close` on every builder is done),
`Sending` (the sender is off before `Run` starts it; done only with a closed, empty channel;
`Run` has returned only after it), `Counting` (delivered is ahead of the total exactly
between the send and the second bump), and who holds a frame at which step (`BuildersHold`,
`BeaconHolds`, `SenderHolds`). One lemma per conjunct shows that every step keeps it.
`BufferOwnership` is inductive on top of `IInv`: `GetFresh` says that a buffer that was just
taken is nobody's, `PutOnce` that a buffer its only holder returns is pooled once, and
`OwnershipKept` goes through the actions that move a frame. `StopTakesEffect` splits the frames
in flight by their place: a builder leaves the set of those that have one when it queues its
frame, which the theorems on finite sets turn into numbers. `CancelTakesEffect` goes the same way, with
the builders that have begun a frame in the place of those that have one.

*The end of a run.* `RunReturns` needs fairness and stays with TLC. What it rests on is proved.
`EndsOnCancel`: a builder ends only under a cancelled context, and so nothing behind `Run`'s
wait for the builders happens before (this is `ClosesOnCancel` too, a clause that `Benchmark`'s
producer has and `Pipeline` has not). `WindsDown` is a variant: the steps a builder has left
before its end go down with each of its steps once the context is cancelled, and what the sender
has left to drain once the channel is closed. `NeverStuck` says that there is a step to take; its
guards are those of the actions (that they equal ENABLED was checked with TLC), and a sender
inside `SendBytes` counts as able to go, which is the assumption on the sink.

*First refinement.* From `IInv`: `Offer` and `BeaconOffer` are `Accept`, `SendOk` `Deliver`,
`SendFails` `Refuse`, `BumpTotal` `Report`, `CloseQueue` `Close`, `Return` `Finish`,
`SpawnFails` `Fail`, `BuilderPanics` and `BeaconPanics` `Crash`; every other step leaves the four abstract
variables as they are.

*Verify.* `NeverClamps` follows from `apply`'s reset. `ObservedIsOurs` needs a history: `IInv`
bounds EDM's counter in each of its lives by where that life started plus what was delivered
(`EdmBound`), a snapshot by the life it was taken in (`SnapBound`), and says that a baseline
taken in EDM's first life contains what was there before us (`BaseBound`), unless the counter was
once missing there (`blind`), so that the difference is in `Claimable` even when the baseline and
the snapshot are from different lives.
`DriftInv` adds the other direction, for a life without restarts: nothing delivered is lost,
and what `apply` stored is the snapshot less the baseline.

*Sums.* `TotalCovered` compares a total with a sum over the patterns, and Mixer's properties
speak of `Before`, a recursive function. To the provers both are a CHOOSE of a function that
satisfies an equation, which says nothing until such a function is shown to exist. `Sums` builds
one as a cardinality (the sum over a set is how many tokens `<<p, k>>` it has, with `k` in
`1 .. f[p]`), `LineExists` one slot at a time. Both go through `WFMin`, that a nonempty set has
a minimal element, which takes a set and no operator and so can be used where the induction
theorems cannot. From there on `SumBump` (one more for one pattern is one more in the sum) and
`LineSteps`, `LineRises`, `LineFlat` are all the proofs need.

*`TotalCovered`.* The sender counts for the pattern before it counts in the total. `CoverInv`
says that the total, with the frame between the two bumps (`Lag`), is covered by the patterns'
counts, and that the total which `Reconcile` read first stays covered by what it has read of the
patterns since and what it has yet to read (`Report`).

*Mixer.* `LineInv` holds while the weights are those of the pick's start and their sum fits: in
the first pass the sum is where the line is at the slot, in the second the rest of the draw plus
the line is the draw. A slot is then chosen exactly for the draws between its two ends on the
line. With weights that move nothing of this holds; what remains is `SumBelow` (the sum of
slots seen is at most that many times the largest weight, and cannot wrap) and `Seen` (a weight
that is there now was there at some time during the pick).

*EdmProcess, second refinement, Command.* `EdmInv` says what runs at which point of the start,
that whatever `Stop` has passed was signalled, and that a `.tmp` file that is about to be renamed
is whole. Every step of `CommandNext` is a step of `EdmProcess` or leaves its variables alone
(`StepIsEdmStep`), so the theorems carry over. `ReapInv` adds that the leader is reaped once and
only after a launch, and that its result stays in the channel until somebody takes it. What is new
in the composition is in `WorkInv`: `PipeInv` (the pipeline's accounts, and that nothing is sent
before the work begins), `Results` (what the producer's result says about the producer, and how
far the main goroutine is because of it), `Steps` (only a benchmark goes past the timed part, and
not without a first frame), `Scrapes` and `Printed` (each count between what was there before and
what was given to EDM, `Creditable`), and `Begun` (a benchmark that has its baseline is at work or
on its way out). `WaitInv` counts the producer's one result: it is in the channel, still to come,
or taken, and once it is taken the benchmark is past the place where it would wait for it.

*Traffic.* One lemma per kind of generator says what its `Next` may return for settings that
need not be in range; `NextCases` sums them up: a call panics for a bad setting, makes a query
that carries nothing and packs unless a limit is passed, or takes the session on. The invariant
of the session says that all its chunks but the last one are full and that what was queued lags
behind the cursor by the query at hand. `LabelRange` is why a chunk's frame cannot be dropped
where a label leaves its name short enough (`ZoneShort`), and `CarriedRange` what of a chunk its
label holds: all of it with hex and base32, and with iodine none of a full one.

*Pki.* `Chained` holds at the end of a successful call only, and is true there because of what
holds in between: a key never stands without its certificate (`KeyAfterCrt`: the certificate is
written first, so a crash leaves a pair that will be made anew), the two files of the CA belong
together (`CaSound`), what there is of a leaf was signed by the CA that is there (`LeavesSound`),
the pair in hand has no whole key yet (`WritingSound`), and pairs come in their order (`Order`).

*Broker.* `Counted` compares the counters with a cardinality, the clients with a packet in
hand; one step adds or removes one client, by the theorems on finite sets. `NothingLeft` follows
from where Run's and Serve's results can be (`Results`, `Ending`).

*Startup.* `Applying` says that `Apply` is done with the fields before the next one, `Kept` that
from the overlay on a setting holds its flag's value, the file's, or its default.

## 7. What is only model-checked, and what is not modelled

Only TLC: the liveness properties `RunReturns`, `BackgroundEnds`, `CatchesUp`, `CancelEnds`,
`StopReturns`, `BenchmarkEnds`, `InterruptExits` and `Constructed` (fairness and ENABLED are
outside what the provers do here). The theorems on the end of a run, on `Stop` and on the
benchmark's waits are their safety halves: that nobody waits for what cannot come, and that what
is done does not come undone. Every invariant of a passing run is a theorem.

Abstracted: what a frame says beyond the lengths that decide whether it packs, rates and
durations (a timer may fire whenever it is waited for), formatting and logging. The pool may
drop a buffer at any put, which stands for oversized buffers; `sync.Pool`'s own clearing is the
same. `Bucket.Wait`'s false branch does not occur, since the bucket is closed after the builders
have ended. A list and a CIDR of the patterns are valid or absent. The names of the lists and settings
have one length (`zone`); one that is no name counts as one over the limit, and whether the packer
refuses a name that is too long as a whole is left open (both happen). A compressed chunk has its
typical length, and `carried` counts an iodine chunk that was cut as not sent at all.

Not modelled: the bytes of DNS and dnstap messages (library code behind a success or a failure);
the templates, widgets and the broadcast loop of the web UI; the `smoke` and `verify` commands
(a sequential loop of sends; one scrape, printed); two calls of `Ensure` in one directory at
the same time; shell tools. Mochi, the dnstap writer, `rand` and the operating system
appear only as the code uses them.
