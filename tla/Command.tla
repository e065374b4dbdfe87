------------------------------ MODULE Command ------------------------------
(***************************************************************************)
(* cmd/edm-loadgen: run, benchmark and serve as a whole, with or without   *)
(* --edm.  EdmProcess is the start and the stop of the EDM they launch;    *)
(* Benchmark is what runBenchmark does in between, and its producer, the   *)
(* Pipeline, is also the one that run and serve start and do not wait for. *)
(* The EDM that is started and stopped is the one that takes the frames    *)
(* and answers the scrapes; a sink whose EDM is gone blocks for ever.      *)
(* The model ends with the load generator.                                 *)
(***************************************************************************)
EXTENDS EdmProcess

CONSTANTS Bound, Before, Backlog, MaxFrames     \* those of Benchmark

ASSUME CommandAssumption ==
    Bound \in Nat /\ Before \in Nat /\ Backlog \in Nat /\ MaxFrames \in Nat

\* Benchmark's variables.  For run and serve, `main` is "baseline" until the
\* producer is started and "timing" in the status loop or the web server.
VARIABLES
    phase, pending, delivered, reported,
    main, runDone, prodCh, prodErr, prodStopped, interrupted, progress,
    processed, baseline, observed, report

Bench == INSTANCE Benchmark WITH rootDone <- ctxDone

edmVars == <<fileVars, procVars, sigVars, polls, origin>>
mainRest == <<prodCh, prodErr, prodStopped, interrupted, progress>>
countVars == <<processed, baseline, observed, report>>
workVars == <<phase, pending, delivered, reported, main, runDone, mainRest, countVars>>
allVars == <<vars, workVars>>

CommandInit == Init /\ Bench!BenchInit

Exited == {"stopped", "died", "panicked"}

\* Whoever takes the frames is there: somebody else's EDM, or ours.
EdmDown == requested /\ ~foreign /\ Edm \notin alive

-----------------------------------------------------------------------------
(* The start, the stop and EDM itself.                                     *)

Going == pc \notin Exited /\ UNCHANGED workVars

EdmStep ==
    /\ Going
    /\ \/ BootStep \/ Crash \/ StartStep \/ StopStep
       \/ Listen \/ (\E p \in Group : Exit(p)) \/ Reap \/ CloseDone

\* The goroutine at sigCh cancels rootCtx, and runCtx with it.
Signalled == pc \notin Exited /\ Interrupt /\ Bench!Interrupt

-----------------------------------------------------------------------------
(* The producer, EDM's input and the user interface.                       *)

\* WriteFrame tries again until somebody takes the frame.
SinkWaits == delivered' = delivered /\ pending' + reported' >= pending + reported

\* It runs until the process ends: a benchmark's is waited for, the others' go on
\* while EDM is being stopped.
ProducerRuns ==
    /\ pc \notin Exited
    /\ Bench!ProducerStep
    /\ EdmDown => SinkWaits
    /\ UNCHANGED <<pc, edmVars>>

ProducerPanics == WorkPanics /\ Bench!ProducerPanics

EdmProcesses ==
    /\ pc \notin Exited /\ ~EdmDown
    /\ Bench!EdmProcesses
    /\ UNCHANGED <<pc, edmVars>>

-----------------------------------------------------------------------------
(* benchmark.                                                              *)

\* Every step of runBenchmark; a scrape fails when no EDM answers.
BenchmarkStep ==
    /\ command = "benchmark" /\ pc = "work" /\ main \notin Bench!Ended
    /\ Bench!MainStep \/ Bench!ProgressEnds
    /\ requested /\ ~serving /\ ~foreign => baseline' = baseline /\ observed' = observed
    /\ UNCHANGED <<pc, edmVars>>

\* It returns, or has called die.
BenchmarkOver ==
    /\ command = "benchmark"
    /\ \/ main = "printed" /\ WorkDone
       \/ main = "died" /\ WorkDies
    /\ UNCHANGED workVars

-----------------------------------------------------------------------------
(* run and serve.                                                          *)

\* go prod.Run, go scraper.Run, and into the loop.
Loop ==
    /\ command # "benchmark" /\ pc = "work" /\ main = "baseline"
    /\ main' = "timing"
    /\ UNCHANGED <<vars, phase, pending, delivered, reported, runDone, mainRest, countVars>>

\* run's --duration, if it has one.
Timeout ==
    /\ command = "run" /\ pc = "work" /\ main = "timing" /\ ~runDone
    /\ runDone' = TRUE
    /\ UNCHANGED <<vars, phase, pending, delivered, reported, main, mainRest, countVars>>

\* mutant: --duration makes a context of its own
RunReturnsOnTimeout == runDone /\ ~ctxDone

\* statusLoop sees its context done and prints the last line.
RunReturns == runDone

\* srv.Run sees its context done and shuts the server down.
ServeReturns == ctxDone

LoopOver ==
    /\ main = "timing"
    /\ \/ command = "run" /\ RunReturns
       \/ command = "serve" /\ ServeReturns
    /\ WorkDone /\ UNCHANGED workVars

\* The web server fails.
ServeDies ==
    /\ command = "serve" /\ main = "timing"
    /\ WorkDies /\ UNCHANGED workVars

WorkStep == BenchmarkStep \/ BenchmarkOver \/ Loop \/ LoopOver
CommandNext == \/ EdmStep \/ Signalled \/ ProducerRuns \/ ProducerPanics \/ EdmProcesses
               \/ WorkStep \/ Timeout \/ ServeDies

CommandSpec == CommandInit /\ [][CommandNext]_allVars

\* The main goroutine, from start to stop.
MainGoes == (Going /\ (BootStep \/ StartStep \/ StopStep)) \/ WorkStep

\* The goroutines run, the timers fire, what was killed dies, and the producer
\* drains (Producer's RunReturns) as long as its frames are taken.
FairCommand ==
    /\ CommandSpec
    /\ WF_allVars(MainGoes) /\ WF_allVars(Going /\ (Reap \/ CloseDone))
    /\ \A p \in {"leader", "edm"} : WF_allVars(Going /\ p \in killed /\ Exit(p))
    /\ WF_allVars(BenchmarkStep /\ progress' # progress)
    /\ WF_allVars(ProducerRuns /\ phase # phase' /\ phase' \in {"closing", "returned"})
    /\ WF_allVars(ProducerRuns /\ pending' < pending)

-----------------------------------------------------------------------------
(* Properties.                                                             *)

\* The types of the parts; the producer runs only once the work has begun, so a
\* start that fails has nothing to stop but EDM.
CommandTypeOK ==
    /\ TypeOK /\ Bench!TypeOK
    /\ main # "baseline" => pc \in {"work", "signal", "term", "killed", "drain1", "drain2"} \cup Exited
    /\ main = "baseline" => phase = "open" /\ pending = 0

\* The benchmark's report is final and honest, and it ends, also with an EDM of
\* its own that may die at any time: Benchmark has the properties.
ReportFinal == Bench!ReportFinal
ReportHonest == Bench!ReportHonest

\* A timed benchmark ends, with a report or an error, unless the EDM that it
\* started dies under it: then the wait for the producer is a wait for the sink.
BenchmarkEnds ==
    (command = "benchmark" /\ main = "timing") ~> (pc \in Exited \/ EdmDown)

\* An interrupt ends the load generator, whatever it is doing: bootstrapping,
\* waiting for EDM, working, or stopping.  run and serve do not wait for the
\* producer, and end even when the sink is blocked.
InterruptExits ==
    ctxDone ~> (pc \in Exited \/ (command = "benchmark" /\ EdmDown))

\* The comment on the signal handler: "Ctrl-C exits cleanly".  It does not when
\* the EDM that the benchmark started is gone.
InterruptAlwaysExits == ctxDone ~> (pc \in Exited)

\* The comment on SendBytes: "one goroutine at a time".  run and serve return,
\* and close the sink, while the sender may be at it.
SinkOneAtATime == pc = "stopped" => phase = "returned" \/ pending = 0

\* The composition is an EDM life as EdmProcess tells it.
ImplementsEdmProcess == Spec
=============================================================================
