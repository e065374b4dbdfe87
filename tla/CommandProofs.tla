--------------------------- MODULE CommandProofs ---------------------------
(***************************************************************************)
(* Theorems about EdmProcess, for both kinds of --edm, any number of kills *)
(* during the bootstrap and any number of polls, and about Command, for    *)
(* every number of frames and whatever EDM had processed before.  The      *)
(* composition is an EdmProcess, so the first theorems hold of it; the     *)
(* work it does in between has an invariant of its own.                    *)
(***************************************************************************)
EXTENDS Command, Integers, TLAPS

-----------------------------------------------------------------------------
(* The life of the EDM that is launched: theorems of EdmProcess.           *)

\* Nothing of EDM runs before it is launched, or when nobody asked for it.
Boot == {"start", "config", "configFill", "dawg", "fetch", "fetching", "rename", "launch"}
NotBefore == /\ pc \in Boot => alive = {}
             /\ ~requested => alive = {} /\ pc \in {"start", "work", "stopped", "died", "panicked"}

\* run calls die only when it has nothing to stop.
RunDies == pc = "died" /\ command = "run" => alive = {}

\* Stop signals the whole group, and is over when the group is gone or killed.
Signalling == /\ pc \in {"term", "killed", "drain1"} => alive \subseteq termed
              /\ pc \in {"drain2", "stopped"} => alive \subseteq killed

\* The download: what is renamed is whole, and what is launched is in place.
Download == /\ dawg \in {"absent", "whole"}
            /\ pc = "rename" => tmp = "whole"
            /\ pc = "launch" => dawg = "whole"

EdmInv == TypeOK /\ NotBefore /\ RunDies /\ Signalling /\ Download /\ WholeDawg

-----------------------------------------------------------------------------
LEMMA GroupOfTwo == Group \subseteq {"leader", "edm"} /\ Edm \in Group
BY DEF Group, Edm

LEMMA EdmInit == Init => EdmInv
<1> SUFFICES ASSUME Init PROVE EdmInv
  OBVIOUS
<1>1. TypeOK
  <2>1. foreign \in {FALSE, requested} /\ requested \in BOOLEAN
    BY DEF Init
  <2>2. foreign \in BOOLEAN
    BY <2>1, Zenon
  <2>3. crashes \in 0 .. MaxCrashes /\ polls \in 0 .. MaxPolls
    BY EdmAssumption DEF Init
  <2> QED
    BY <2>2, <2>3 DEF Init, TypeOK, FileStates
<1>2. NotBefore /\ RunDies /\ Signalling
  BY DEF Init, NotBefore, RunDies, Signalling, Boot
<1>3. Download /\ WholeDawg
  BY DEF Init, Download, WholeDawg
<1> QED
  BY <1>1, <1>2, <1>3 DEF EdmInv

\* The bootstrap starts nothing.
LEMMA BootKeeps == ASSUME EdmInv, BootStep \/ Crash PROVE EdmInv'
<1> USE DEF EdmInv, TypeOK, NotBefore, RunDies, Signalling, Download, WholeDawg,
            FileStates, Boot, procVars, sigVars, origin, fileVars, Elsewhere
<1>1. CASE StartIfRequested
  BY <1>1 DEF StartIfRequested
<1>2. CASE ConfigThere \/ ConfigOpen \/ ConfigFill
  BY <1>2 DEF ConfigThere, ConfigOpen, ConfigFill
<1>3. CASE DawgThere \/ DawgMissing
  BY <1>3 DEF DawgThere, DawgMissing
<1>4. CASE FetchOpen \/ FetchFill
  BY <1>4 DEF FetchOpen, FetchFill
<1>5. CASE Rename \/ RenameFails
  BY <1>5 DEF Rename, RenameFails
<1>6. CASE BootFails
  BY <1>6 DEF BootFails
<1>7. CASE Crash
  BY <1>7, EdmAssumption DEF Crash
<1> QED
  BY <1>1, <1>2, <1>3, <1>4, <1>5, <1>6, <1>7 DEF BootStep

\* From the launch until somebody takes frames.
LEMMA StartKeeps == ASSUME EdmInv, StartStep PROVE EdmInv'
<1> USE DEF EdmInv, TypeOK, NotBefore, RunDies, Signalling, Download, WholeDawg,
            FileStates, Boot, procVars, sigVars, origin, fileVars
<1>1. CASE Launch
  BY <1>1, EdmAssumption DEF Launch
<1>2. CASE Stable \/ Paused
  BY <1>2 DEF Stable, Paused
<1>3. CASE NotReady
  BY <1>3, EdmAssumption DEF NotReady
<1>4. CASE Ready \/ GiveUp
  BY <1>4, EdmAssumption DEF Ready, GiveUp
<1>5. CASE PollAgain
  BY <1>5, EdmAssumption DEF PollAgain
<1> QED
  BY <1>1, <1>2, <1>3, <1>4, <1>5 DEF StartStep

\* The command's own end, on each of its three ways.
LEMMA WorkKeeps == ASSUME EdmInv, WorkDone \/ WorkDies \/ WorkPanics PROVE EdmInv'
<1> USE DEF EdmInv, TypeOK, NotBefore, RunDies, Signalling, Download, WholeDawg,
            FileStates, Boot, procVars, sigVars, origin, fileVars
<1>1. CASE WorkDone
  BY <1>1 DEF WorkDone
<1>2. CASE WorkDies
  BY <1>2 DEF WorkDies
<1>3. CASE WorkPanics
  BY <1>3 DEF WorkPanics
<1> QED
  BY <1>1, <1>2, <1>3

\* Stop and the drain of the group.
LEMMA StopKeeps == ASSUME EdmInv, StopStep PROVE EdmInv'
<1> USE DEF EdmInv, TypeOK, NotBefore, RunDies, Signalling, Download, WholeDawg,
            FileStates, Boot, procVars, sigVars, origin, fileVars
<1>1. CASE Signal
  BY <1>1 DEF Signal
<1>2. CASE TermDone \/ KillDone
  BY <1>2 DEF TermDone, KillDone, DoneIn
<1>3. CASE TermTimeout
  BY <1>3 DEF TermTimeout
<1>4. CASE Drained
  BY <1>4 DEF Drained, GroupExists
<1>5. CASE DrainTimeout
  BY <1>5 DEF DrainTimeout
<1>6. CASE Stopped
  BY <1>6 DEF Stopped
<1> QED
  BY <1>1, <1>2, <1>3, <1>4, <1>5, <1>6 DEF StopStep

\* What the processes and the user do: no process is ever added to the group.
LEMMA OthersKeep ==
    ASSUME EdmInv, Listen \/ (\E p \in Group : Exit(p)) \/ Reap \/ CloseDone \/ Interrupt
    PROVE  EdmInv'
<1> USE DEF EdmInv, TypeOK, NotBefore, RunDies, Signalling, Download, WholeDawg,
            FileStates, Boot, procVars, sigVars, origin, fileVars
<1>1. CASE Listen
  BY <1>1 DEF Listen
<1>2. ASSUME NEW p \in Group, Exit(p) PROVE EdmInv'
  BY <1>2 DEF Exit
<1>3. CASE Reap
  BY <1>3 DEF Reap
<1>4. CASE CloseDone
  BY <1>4 DEF CloseDone
<1>5. CASE Interrupt
  BY <1>5 DEF Interrupt
<1> QED
  BY <1>1, <1>2, <1>3, <1>4, <1>5

LEMMA EdmKeeps == EdmInv /\ [Next]_vars => EdmInv'
<1> SUFFICES ASSUME EdmInv, [Next]_vars PROVE EdmInv'
  OBVIOUS
<1>1. CASE UNCHANGED vars
  BY <1>1 DEF EdmInv, TypeOK, NotBefore, RunDies, Signalling, Download, WholeDawg,
              vars, procVars, sigVars, origin, fileVars
<1> QED
  BY <1>1, BootKeeps, StartKeeps, WorkKeeps, StopKeeps, OthersKeep DEF Next

LEMMA EdmInvariant == Spec => []EdmInv
BY EdmInit, EdmKeeps, PTL DEF Spec

\* What the invariant says of a load generator that has ended.
LEMMA NoOrphanFollows == EdmInv => NoOrphan
BY DEF EdmInv, RunDies, Signalling, NoOrphan

\* EDM is never started on a half-written DAWG, however often and wherever the
\* bootstrap was killed (edm.go fetchWellKnownDomains).
THEOREM DawgWhole == Spec => []WholeDawg
<1>1. EdmInv => WholeDawg
  BY DEF EdmInv
<1> QED
  BY <1>1, EdmInvariant, PTL

\* When run is gone, or benchmark or serve has returned, every process of EDM's
\* group has ended or was sent SIGKILL, whatever EDM did with the signals
\* (edm.go Stop, drainProcessGroup).
THEOREM GroupStopped == Spec => []NoOrphan
BY NoOrphanFollows, EdmInvariant, PTL

-----------------------------------------------------------------------------
(* Stop's wait for cmd.Wait, without fairness.                             *)

\* The leader is reaped once, after a launch, and its result is in the channel
\* until somebody takes it; Stop runs only after a launch.
Launched == {"stabilise", "poll", "pause", "signal", "term", "killed", "drain1", "drain2"}
ReapInv == /\ channel = "empty" <=> ~waited
           /\ pc \in Boot \cup {"start"} => startedWith = "none"
           /\ startedWith = "none" => ~waited
           /\ pc \in Launched => startedWith # "none"
           /\ pc = "work" /\ requested => startedWith # "none"
           /\ pc = "killed" => alive \subseteq killed

LEMMA ReapKept == EdmInv /\ ReapInv /\ [Next]_vars => ReapInv'
<1> SUFFICES ASSUME EdmInv, ReapInv, [Next]_vars PROVE ReapInv'
  OBVIOUS
<1>0. /\ pc = "launch" => dawg = "whole"
      /\ ~requested => pc \in {"start", "work", "stopped", "died", "panicked"}
  BY DEF EdmInv, Download, NotBefore
<1> USE DEF ReapInv, Launched, Boot, procVars, sigVars, origin, fileVars, Elsewhere
<1>1. CASE BootStep \/ Crash
  BY <1>0, <1>1 DEF BootStep, StartIfRequested, ConfigThere, ConfigOpen, ConfigFill, DawgThere,
     DawgMissing, FetchOpen, FetchFill, Rename, RenameFails, BootFails, Crash
<1>2. CASE Launch
  <2>1. pc' \in {"stabilise", "poll"} /\ startedWith' = "whole"
    BY <1>0, <1>2, EdmAssumption DEF Launch
  <2>2. channel' = channel /\ waited' = waited /\ ~waited
    BY <1>2 DEF Launch
  <2> QED
    BY <2>1, <2>2
<1>3. CASE Stable \/ NotReady \/ Ready \/ GiveUp \/ PollAgain \/ Paused
  BY <1>0, <1>3 DEF Stable, NotReady, Ready, GiveUp, PollAgain, Paused
<1>4. CASE StopStep
  BY <1>0, <1>4 DEF StopStep, Signal, TermDone, TermTimeout, KillDone, DoneIn, Drained,
                    DrainTimeout, Stopped
<1>5. CASE WorkDone \/ WorkDies \/ WorkPanics
  BY <1>0, <1>5 DEF WorkDone, WorkDies, WorkPanics
<1>6. ASSUME NEW p \in Group, Exit(p) PROVE ReapInv'
  BY <1>6 DEF Exit
<1>7. CASE Listen \/ Reap \/ CloseDone \/ Interrupt \/ UNCHANGED vars
  BY <1>7 DEF Listen, Reap, CloseDone, Interrupt, vars
<1> QED
  BY <1>1, <1>2, <1>3, <1>4, <1>5, <1>6, <1>7 DEF Next, StartStep

\* Whoever waits for the result of cmd.Wait after the SIGKILL waits for something
\* that is there or must come: the value, the close behind a value that was
\* taken before, the reaping of a dead leader, or the end of a killed one.
StopIsReleased ==
    pc = "killed" =>
       \/ channel \in {"value", "closed"}
       \/ channel = "taken"
       \/ channel = "empty" /\ startedWith # "none" /\ ~waited /\ "leader" \notin alive
       \/ channel = "empty" /\ "leader" \in alive \cap killed

LEMMA ReapInvariant == Spec => []ReapInv
<1>1. Init => ReapInv
  BY DEF Init, ReapInv, Launched, Boot
<1> QED
  BY <1>1, ReapKept, EdmInvariant, PTL DEF Spec

\* Stop's wait after the SIGKILL is never for a result that nobody will send,
\* although an earlier receive may have taken it (edm.go Stop).
THEOREM StopNeverStuck == Spec => []StopIsReleased
<1>1. EdmInv /\ ReapInv => StopIsReleased
  BY DEF EdmInv, TypeOK, ReapInv, Launched, StopIsReleased
<1> QED
  BY <1>1, ReapInvariant, EdmInvariant, PTL

-----------------------------------------------------------------------------
(* The composition and EdmProcess.                                         *)

\* runBenchmark and its goroutines leave the context of the signal alone.
LEMMA BenchLeavesRoot ==
    ASSUME Bench!MainStep \/ Bench!ProgressEnds \/ Bench!ProducerStep \/ Bench!EdmProcesses
    PROVE  ctxDone' = ctxDone
<1>1. CASE Bench!ProgressEnds \/ Bench!ProducerStep \/ Bench!EdmProcesses
  BY <1>1 DEF Bench!ProgressEnds, Bench!ProducerStep, Bench!EdmProcesses, Bench!mainVars
<1>2. CASE Bench!MainStep
  BY <1>2 DEF Bench!MainStep, Bench!Baseline, Bench!FirstFrame, Bench!NoFirstFrame,
              Bench!TimeIsUp, Bench!Interrupted, Bench!ProducerEnded, Bench!StopRun,
              Bench!StopAfterProducer, Bench!TakeResult, Bench!CheckError,
              Bench!FinalScrape, Bench!PrintReport
<1> QED
  BY <1>1, <1>2

\* Steps that EdmProcess does not see.
LEMMA Unseen == ASSUME UNCHANGED <<pc, edmVars>>, ctxDone' = ctxDone PROVE UNCHANGED vars
BY DEF edmVars, vars

LEMMA StepIsEdmStep == [CommandNext]_allVars => [Next]_vars
<1> SUFFICES ASSUME [CommandNext]_allVars PROVE [Next]_vars
  OBVIOUS
<1>1. CASE EdmStep
  BY <1>1 DEF EdmStep, Next
<1>2. CASE Signalled
  BY <1>2 DEF Signalled, Next
<1>3. CASE ProducerRuns \/ EdmProcesses
  BY <1>3, BenchLeavesRoot, Unseen DEF ProducerRuns, EdmProcesses
<1>4. CASE ProducerPanics
  BY <1>4 DEF ProducerPanics, Next
<1>5. CASE BenchmarkStep
  BY <1>5, BenchLeavesRoot, Unseen DEF BenchmarkStep
<1>6. CASE BenchmarkOver \/ LoopOver \/ ServeDies
  BY <1>6 DEF BenchmarkOver, LoopOver, ServeDies, Next
<1>7. CASE Loop \/ Timeout
  BY <1>7 DEF Loop, Timeout
<1>8. CASE UNCHANGED allVars
  BY <1>8 DEF allVars
<1> QED
  BY <1>1, <1>2, <1>3, <1>4, <1>5, <1>6, <1>7, <1>8 DEF CommandNext, WorkStep

\* Starting, working and stopping as one program is an EDM life as EdmProcess
\* tells it, for each of the three commands.
THEOREM CommandIsEdmProcess == CommandSpec => ImplementsEdmProcess
<1>1. CommandInit => Init
  BY DEF CommandInit
<1> QED
  BY <1>1, StepIsEdmStep, PTL DEF CommandSpec, ImplementsEdmProcess, Spec

\* No command that has returned, and no run that is gone, leaves a process of the
\* EDM it started that was not killed.
THEOREM CommandLeavesNoOrphan == CommandSpec => []NoOrphan
BY CommandIsEdmProcess, GroupStopped, PTL DEF ImplementsEdmProcess

\* No command starts EDM on a DAWG whose download was cut short.
THEOREM CommandStartsOnWholeDawg == CommandSpec => []WholeDawg
BY CommandIsEdmProcess, DawgWhole, PTL DEF ImplementsEdmProcess

\* Whatever the work was, Stop's wait for the end of EDM has something to end it.
THEOREM CommandStopNeverStuck == CommandSpec => []StopIsReleased
BY CommandIsEdmProcess, StopNeverStuck, PTL DEF ImplementsEdmProcess

LEMMA CommandEdmInv == CommandSpec => []EdmInv
BY CommandIsEdmProcess, EdmInvariant, PTL DEF ImplementsEdmProcess

-----------------------------------------------------------------------------
(* The work.                                                               *)

\* The producer: what is not reported yet is in the pipeline.
PipeInv == /\ phase \in {"open", "closing", "returned", "failed", "crashed"}
           /\ pending \in 0 .. Bound /\ delivered \in Nat /\ reported \in Nat
           /\ delivered = reported \/ (delivered = reported + 1 /\ pending > 0)
           /\ phase = "returned" => pending = 0
           /\ main = "baseline" => phase = "open" /\ pending = 0

\* runBenchmark's own variables have their types.
MainTyped == /\ main \in {"baseline", "first", "timing", "stop", "drain", "check",
                          "final", "report", "printed", "died"}
             /\ runDone \in BOOLEAN
             /\ prodCh \in {"empty", "ctx", "err"} /\ prodErr \in {"none", "ctx", "err"}
             /\ prodStopped \in BOOLEAN /\ interrupted \in BOOLEAN
             /\ progress \in {"none", "running", "done"}

\* What the producer's result says of it, and how far main is because of that.
Results == /\ prodCh = "ctx" \/ prodErr = "ctx" => phase \in {"returned", "crashed"}
           /\ phase = "crashed" => main = "died"
           /\ prodStopped \/ main = "check" => prodErr # "none"
           /\ main \in {"final", "report", "printed"} => phase = "returned" /\ runDone
           /\ ctxDone => runDone

\* Only benchmark goes past the timing, and not before a frame was counted.
Steps == /\ command # "benchmark" => main \in {"baseline", "timing", "died"}
         /\ command = "benchmark" /\ main \notin {"baseline", "first", "died"} => reported > 0

\* The most that a scrape can make of it: with EDM's past only when the baseline
\* is 0.
Creditable == Backlog + delivered + (IF baseline = 0 THEN Before ELSE 0)

\* What was scraped is between what was there before and what was delivered.
Scrapes == /\ processed \in Nat /\ Before <= processed /\ processed <= Before + Backlog + delivered
           /\ baseline = -1 \/ baseline = 0
                \/ (baseline \in Nat /\ Before <= baseline /\ baseline <= processed)
           /\ observed \in Nat /\ observed <= Creditable

\* What was printed is what was sent.
Printed == /\ report \in [sent : Nat, edm : Nat, interrupted : BOOLEAN]
           /\ main = "printed" => report.sent = reported /\ report.edm <= Creditable

Leaving == {"signal", "term", "killed", "drain1", "drain2", "stopped"}

\* EDM is up before the work begins.
Begun == main # "baseline" => pc \in Leaving \cup {"work", "died", "panicked"}

WorkInv == /\ PipeInv /\ MainTyped /\ Results /\ Steps
           /\ Scrapes /\ Printed /\ Begun

USE DEF Creditable

LEMMA WorkInit == CommandInit => WorkInv
<1> SUFFICES ASSUME CommandInit PROVE WorkInv
  OBVIOUS
<1> USE CommandAssumption DEF CommandInit, Bench!BenchInit, Bench!Init
<1>1. PipeInv
  BY DEF PipeInv
<1>2. MainTyped
  BY DEF MainTyped
<1>3. Results
  BY DEF Results
<1>4. Steps
  BY DEF Steps
<1>5. Scrapes /\ Begun
  BY DEF Scrapes, Begun, Leaving, Bench!None
<1>6. Printed
  BY DEF Printed, Bench!NoReport
<1> QED
  BY <1>1, <1>2, <1>3, <1>4, <1>5, <1>6 DEF WorkInv

\* The producer's steps keep the pipeline's own part.
LEMMA ProducerKeepsPipe ==
    ASSUME WorkInv, Bench!ProducerStep
    PROVE  PipeInv' /\ delivered <= delivered' /\ reported <= reported'
<1> USE CommandAssumption DEF WorkInv, PipeInv
<1>0. main # "baseline" /\ main' = main
  BY DEF Bench!ProducerStep, Bench!NotYet
<1>1. CASE Bench!Accept
  BY <1>0, <1>1 DEF Bench!Accept
<1>2. CASE Bench!Deliver
  BY <1>0, <1>2 DEF Bench!Deliver
<1>3. CASE Bench!Refuse
  BY <1>0, <1>3 DEF Bench!Refuse
<1>4. CASE Bench!Report
  BY <1>0, <1>4 DEF Bench!Report
<1>5. CASE Bench!Close \/ Bench!Finish \/ Bench!Fail
  BY <1>0, <1>5 DEF Bench!Close, Bench!Finish, Bench!Fail
<1> QED
  BY <1>1, <1>2, <1>3, <1>4, <1>5 DEF Bench!ProducerStep


\* What bounds a count still does when more was delivered.
LEMMA MoreIsBetween ==
    \A b, c, d, e, x \in Nat : d <= e =>
        /\ x <= b + c + d => x <= b + c + e
        /\ x <= c + d + b => x <= c + e + b
OBVIOUS

LEMMA ProducerKeeps == ASSUME WorkInv, ProducerRuns PROVE WorkInv'
<1> USE DEF WorkInv, ProducerRuns
<1>0. PipeInv' /\ delivered <= delivered' /\ reported <= reported'
  BY ProducerKeepsPipe
<1>1. /\ delivered <= delivered' /\ reported <= reported'
      /\ delivered \in Nat /\ delivered' \in Nat /\ reported \in Nat /\ reported' \in Nat
  BY <1>0 DEF PipeInv
<1>2. UNCHANGED <<main, runDone, prodErr, prodStopped, interrupted, progress,
                  processed, baseline, observed, report, pc, command, ctxDone>>
  BY BenchLeavesRoot DEF Bench!ProducerStep, Bench!edmVars, edmVars, origin
<1>3. Begun' /\ Steps'
  BY <1>1, <1>2 DEF Begun, Steps, Leaving
<1>4. phase = "returned" => phase' = "returned" /\ reported' = reported
  BY DEF Bench!ProducerStep, Bench!Accept, Bench!Deliver, Bench!Refuse, Bench!Report,
         Bench!Close, Bench!Finish, Bench!Fail, PipeInv
<1>5. phase = "crashed" <=> phase' = "crashed"
  BY DEF Bench!ProducerStep, Bench!Accept, Bench!Deliver, Bench!Refuse, Bench!Report,
         Bench!Close, Bench!Finish, Bench!Fail
<1>6. prodCh' \in {"empty", "ctx", "err"} /\ (prodCh' = "ctx" => prodCh = "ctx" \/ phase' = "returned")
  BY DEF Bench!ProducerStep, MainTyped
<1>7. MainTyped'
  BY <1>2, <1>6 DEF MainTyped
<1>8. Results'
  BY <1>2, <1>4, <1>5, <1>6 DEF Results
<1>9. Scrapes'
  BY <1>1, <1>2, MoreIsBetween, CommandAssumption DEF Scrapes
<1>10. Printed'
  <2>1. main = "printed" => reported' = reported
    BY <1>4 DEF Results
  <2>2. report.edm \in Nat
    BY DEF Printed
  <2>3. Creditable <= Creditable' /\ Creditable \in Nat /\ Creditable' \in Nat
    <3> DEFINE past == IF baseline = 0 THEN Before ELSE 0
    <3>1. past \in Nat
      BY CommandAssumption
    <3>2. Creditable = Backlog + delivered + past /\ Creditable' = Backlog + delivered' + past
      BY <1>2
    <3>3. \A b, d, e, x \in Nat : d <= e =>
            b + d + x <= b + e + x /\ b + d + x \in Nat /\ b + e + x \in Nat
      OBVIOUS
    <3> HIDE DEF past
    <3> QED
      BY <1>1, <3>1, <3>2, <3>3, CommandAssumption
  <2> QED
    BY <1>2, <2>1, <2>2, <2>3 DEF Printed
<1> QED
  BY <1>0, <1>3, <1>7, <1>8, <1>9, <1>10

\* A panic is the end of the work, whatever it was at.
LEMMA PanicKeeps == ASSUME WorkInv, ProducerPanics PROVE WorkInv'
<1> USE DEF WorkInv, ProducerPanics, WorkPanics, Bench!ProducerPanics, Bench!Crash,
            origin, Bench!edmVars
<1>1. main' = "died" /\ pc' = "panicked" /\ phase' = "crashed"
  OBVIOUS
<1>2. PipeInv' /\ MainTyped'
  BY <1>1 DEF PipeInv, MainTyped
<1>3. Results' /\ Steps' /\ Begun'
  BY <1>1 DEF Results, Steps, Begun, Leaving
<1>4. Scrapes' /\ Printed'
  BY <1>1 DEF Scrapes, Printed
<1> QED
  BY <1>2, <1>3, <1>4

LEMMA WorkingOffKeeps == ASSUME WorkInv, EdmProcesses PROVE WorkInv'
<1>1. /\ UNCHANGED <<phase, pending, delivered, reported, main, runDone, mainRest,
                    baseline, observed, report, pc, command, ctxDone>>
      /\ processed < Before + Backlog + delivered /\ processed' = processed + 1
  BY DEF EdmProcesses, Bench!EdmProcesses, Bench!pipeVars, Bench!mainVars, mainRest,
         edmVars, origin
<1>2. PipeInv' /\ MainTyped' /\ Results'
  BY <1>1 DEF WorkInv, PipeInv, MainTyped, Results, mainRest
<1>3. Steps' /\ Begun' /\ Printed'
  BY <1>1 DEF WorkInv, Steps, Begun, Printed
<1>4. Scrapes'
  BY <1>1, CommandAssumption DEF WorkInv, Scrapes, PipeInv
<1> QED
  BY <1>2, <1>3, <1>4 DEF WorkInv

\* Starting and stopping EDM, and an interrupt, leave the work alone.
LEMMA LifeKeeps == ASSUME WorkInv, EdmStep \/ Signalled PROVE WorkInv'
<1> USE DEF WorkInv
<1>1. CASE Signalled
  BY <1>1 DEF Signalled, Interrupt, Bench!Interrupt, Bench!pipeVars, Bench!edmVars, origin,
         PipeInv, MainTyped, Results, Steps, Scrapes, Printed, Begun
<1>2. CASE EdmStep
  <2>1. UNCHANGED workVars /\ ctxDone' = ctxDone /\ command' = command
    BY <1>2 DEF EdmStep, Going, BootStep, Crash, StartStep, StopStep, Listen, Exit, Reap, CloseDone,
           StartIfRequested, ConfigThere, ConfigOpen, ConfigFill, DawgThere, DawgMissing,
           FetchOpen, FetchFill, Rename, RenameFails, BootFails, Launch, Stable, NotReady,
           Ready, GiveUp, PollAgain, Paused, Signal, DoneIn, TermDone, TermTimeout,
           KillDone, Drained, DrainTimeout, Stopped, Elsewhere, origin
  <2>2. PipeInv' /\ MainTyped' /\ Results' /\ Steps' /\ Scrapes' /\ Printed'
    BY <2>1 DEF workVars, mainRest, countVars, PipeInv, MainTyped, Results, Steps,
                Scrapes, Printed
  <2>3. \/ pc' = pc
        \/ pc \in Boot \cup {"stabilise", "poll", "pause"}
        \/ pc \in Leaving /\ pc' \in Leaving
    BY <1>2 DEF EdmStep, BootStep, Crash, StartStep, StopStep, Listen, Exit, Reap, CloseDone,
           StartIfRequested, ConfigThere, ConfigOpen, ConfigFill, DawgThere, DawgMissing,
           FetchOpen, FetchFill, Rename, RenameFails, BootFails, Launch, Stable, NotReady,
           Ready, GiveUp, PollAgain, Paused, Signal, DoneIn, TermDone, TermTimeout,
           KillDone, Drained, DrainTimeout, Stopped, Boot, Leaving
  <2>4. Begun'
    BY <2>1, <2>3 DEF Begun, Leaving, Boot, workVars
  <2> QED
    BY <2>2, <2>4
<1> QED
  BY <1>1, <1>2


\* A scrape is between the baseline and what was delivered.
LEMMA ScrapeKeeps ==
    ASSUME WorkInv, Bench!Scraped, delivered' = delivered
    PROVE  Scrapes'
<1>1. /\ processed \in Nat /\ Before \in Nat /\ Backlog \in Nat /\ delivered \in Nat
      /\ processed' = processed
      /\ Before <= processed /\ processed <= Before + Backlog + delivered
      /\ baseline = -1 \/ baseline = 0
           \/ (baseline \in Nat /\ Before <= baseline /\ baseline <= processed)
  BY CommandAssumption DEF WorkInv, Scrapes, PipeInv, Bench!Scraped
<1>2. PICK seen \in {processed, 0}, otherBack \in BOOLEAN :
        /\ baseline' = IF baseline = -1 \/ seen < baseline \/ otherBack THEN seen ELSE baseline
        /\ observed' = seen - baseline'
  BY DEF Bench!Scraped, Bench!None
<1>3. /\ seen \in Nat /\ seen <= processed
      /\ baseline' \in Nat /\ baseline' <= seen
      /\ baseline' = 0 \/ Before <= baseline'
  BY <1>1, <1>2
<1>4. observed' \in Nat /\ observed' <= Creditable'
  <2>1. observed' = seen - baseline'
    BY <1>2
  <2>2. CASE baseline' = 0
    BY <1>1, <1>3, <2>1, <2>2 DEF Creditable
  <2>3. CASE baseline' # 0
    <3>1. Creditable' = Backlog + delivered
      BY <1>1, <2>3
    <3>2. \A x, y, b, s, l \in Nat : b <= l /\ l <= s /\ s <= b + x + y =>
            s - l \in Nat /\ s - l <= x + y
      OBVIOUS
    <3>3. seen <= Before + Backlog + delivered /\ Before <= baseline'
      BY <1>1, <1>3, <2>3
    <3> QED
      BY <1>1, <1>3, <2>1, <3>1, <3>2, <3>3
  <2> QED
    BY <2>2, <2>3
<1> QED
  BY <1>1, <1>3, <1>4 DEF Scrapes

\* Each step of runBenchmark.
LEMMA BenchmarkKeeps == ASSUME WorkInv, BenchmarkStep PROVE WorkInv'
<1>0. /\ command = "benchmark" /\ pc = "work" /\ main \notin {"printed", "died"}
      /\ command' = command /\ pc' = pc /\ ctxDone' = ctxDone
  BY BenchLeavesRoot DEF BenchmarkStep, edmVars, origin, Bench!Ended
<1>1. Begun'
  BY <1>0 DEF Begun, Leaving
<1>2. CASE Bench!ProgressEnds
  <2> USE <1>2 DEF Bench!ProgressEnds, Bench!pipeVars, Bench!edmVars
  <2>1. PipeInv' /\ MainTyped' /\ Results' /\ Steps'
    BY <1>0 DEF WorkInv, PipeInv, MainTyped, Results, Steps
  <2>2. Scrapes' /\ Printed'
    BY <1>0 DEF WorkInv, Scrapes, Printed
  <2> QED
    BY <1>1, <2>1, <2>2 DEF WorkInv
<1>3. CASE Bench!Baseline
  <2> USE <1>3 DEF Bench!Baseline, Bench!pipeVars
  <2>1. PipeInv' /\ MainTyped' /\ Results' /\ Steps'
    BY <1>0 DEF WorkInv, PipeInv, MainTyped, Results, Steps
  <2>2. Scrapes'
    BY ScrapeKeeps DEF WorkInv, Scrapes, Bench!edmVars
  <2>3. Printed'
    BY <1>0 DEF WorkInv, Printed
  <2> QED
    BY <1>1, <2>1, <2>2, <2>3 DEF WorkInv
<1>4. CASE Bench!FinalScrape
  <2> USE <1>4 DEF Bench!FinalScrape, Bench!pipeVars
  <2>1. PipeInv' /\ MainTyped' /\ Results' /\ Steps'
    BY <1>0 DEF WorkInv, PipeInv, MainTyped, Results, Steps
  <2>2. Scrapes'
    BY ScrapeKeeps DEF WorkInv, Scrapes, Bench!edmVars
  <2>3. Printed'
    BY <1>0 DEF WorkInv, Printed
  <2> QED
    BY <1>1, <2>1, <2>2, <2>3 DEF WorkInv
<1>5. CASE Bench!PrintReport
  <2> USE <1>5 DEF Bench!PrintReport, Bench!pipeVars, Bench!edmVars
  <2>1. PipeInv' /\ MainTyped' /\ Results' /\ Steps'
    BY <1>0 DEF WorkInv, PipeInv, MainTyped, Results, Steps
  <2>2. Scrapes'
    BY <1>0 DEF WorkInv, Scrapes
  <2>3. Printed'
    BY <1>0 DEF WorkInv, Printed, PipeInv, MainTyped, Scrapes
  <2> QED
    BY <1>1, <2>1, <2>2, <2>3 DEF WorkInv
<1>6. CASE \/ Bench!FirstFrame \/ Bench!NoFirstFrame \/ Bench!TimeIsUp \/ Bench!Interrupted
           \/ Bench!ProducerEnded \/ Bench!StopRun \/ Bench!StopAfterProducer
           \/ Bench!TakeResult \/ Bench!CheckError
  <2> USE <1>6 DEF Bench!FirstFrame, Bench!NoFirstFrame, Bench!TimeIsUp, Bench!Interrupted,
          Bench!ProducerEnded, Bench!StopRun, Bench!StopAfterProducer, Bench!TakeResult,
          Bench!CheckError, Bench!pipeVars, Bench!edmVars
  <2>1. PipeInv'
    BY <1>0 DEF WorkInv, PipeInv
  <2>2. MainTyped'
    BY <1>0 DEF WorkInv, MainTyped
  <2>3. Results'
    <3>1. CASE Bench!ProducerEnded \/ Bench!TakeResult
      BY <1>0, <3>1 DEF WorkInv, Results, MainTyped
    <3>2. CASE Bench!StopAfterProducer
      BY <1>0, <3>2 DEF WorkInv, Results, MainTyped
    <3>3. CASE Bench!CheckError
      BY <1>0, <3>3 DEF WorkInv, Results, MainTyped
    <3>4. CASE Bench!FirstFrame \/ Bench!NoFirstFrame \/ Bench!TimeIsUp \/ Bench!Interrupted \/ Bench!StopRun
      BY <1>0, <3>4 DEF WorkInv, Results, MainTyped
    <3> QED
      BY <3>1, <3>2, <3>3, <3>4
  <2>4. Steps'
    BY <1>0 DEF WorkInv, Steps
  <2>5. Scrapes' /\ Printed'
    BY <1>0 DEF WorkInv, Scrapes, Printed
  <2> QED
    BY <1>1, <2>1, <2>2, <2>3, <2>4, <2>5 DEF WorkInv
<1> QED
  BY <1>2, <1>3, <1>4, <1>5, <1>6 DEF BenchmarkStep, Bench!MainStep

\* The loops of run and serve, and the ends of all three.
LEMMA LoopKeeps ==
    ASSUME WorkInv, BenchmarkOver \/ Loop \/ LoopOver \/ Timeout \/ ServeDies
    PROVE  WorkInv'
<1>1. CASE BenchmarkOver
  <2>1. UNCHANGED <<workVars, command, ctxDone>> /\ main \in {"printed", "died"}
    BY <1>1 DEF BenchmarkOver, WorkDone, WorkDies, origin
  <2>2. PipeInv' /\ MainTyped' /\ Results' /\ Steps' /\ Scrapes' /\ Printed'
    BY <2>1 DEF WorkInv, workVars, mainRest, countVars, PipeInv, MainTyped, Results, Steps,
                Scrapes, Printed
  <2>3. Begun'
    BY <1>1, <2>1 DEF BenchmarkOver, WorkDone, WorkDies, WorkInv, Begun, Results, Leaving,
                      workVars
  <2> QED
    BY <2>2, <2>3 DEF WorkInv
<1>2. CASE LoopOver \/ ServeDies
  <2>1. UNCHANGED <<workVars, command, ctxDone>> /\ main = "timing" /\ command # "benchmark"
    BY <1>2 DEF LoopOver, ServeDies, WorkDone, WorkDies, origin
  <2>2. PipeInv' /\ MainTyped' /\ Results' /\ Steps' /\ Scrapes' /\ Printed'
    BY <2>1 DEF WorkInv, workVars, mainRest, countVars, PipeInv, MainTyped, Results, Steps,
                Scrapes, Printed
  <2>3. Begun'
    BY <1>2, <2>1 DEF LoopOver, ServeDies, RunReturns, ServeReturns, WorkDone, WorkDies,
                      WorkInv, Begun, Results, Leaving, workVars
  <2> QED
    BY <2>2, <2>3 DEF WorkInv
<1>3. CASE Loop \/ Timeout
  <2>1. /\ UNCHANGED <<phase, pending, delivered, reported, mainRest, countVars>>
        /\ UNCHANGED <<pc, command, ctxDone>>
        /\ command # "benchmark" /\ pc = "work"
        /\ main \in {"baseline", "timing"} /\ main' = "timing"
        /\ runDone' = runDone \/ runDone' = TRUE
    BY <1>3 DEF Loop, Timeout, vars, origin
  <2>2. PipeInv' /\ MainTyped'
    BY <2>1 DEF mainRest, WorkInv, PipeInv, MainTyped
  <2>3. Results' /\ Steps' /\ Begun'
    BY <2>1 DEF mainRest, WorkInv, Results, Steps, Begun, Leaving
  <2>4. Scrapes' /\ Printed'
    BY <2>1 DEF countVars, WorkInv, Scrapes, Printed
  <2> QED
    BY <2>2, <2>3, <2>4 DEF WorkInv
<1> QED
  BY <1>1, <1>2, <1>3

LEMMA WorkKept == WorkInv /\ [CommandNext]_allVars => WorkInv'
<1> SUFFICES ASSUME WorkInv, [CommandNext]_allVars PROVE WorkInv'
  OBVIOUS
<1>1. CASE UNCHANGED allVars
  BY <1>1 DEF allVars, vars, origin, workVars, mainRest, countVars, WorkInv, PipeInv, MainTyped,
              Results, Steps, Scrapes, Printed, Begun
<1>2. CASE CommandNext
  BY <1>2, LifeKeeps, ProducerKeeps, PanicKeeps, WorkingOffKeeps, BenchmarkKeeps, LoopKeeps
     DEF CommandNext, WorkStep
<1> QED
  BY <1>1, <1>2

LEMMA WorkInvariant == CommandSpec => []WorkInv
BY WorkInit, WorkKept, PTL DEF CommandSpec

-----------------------------------------------------------------------------
(* The theorems about the work.                                            *)

\* The variables of the whole program keep their types.
THEOREM CommandTyped == CommandSpec => []CommandTypeOK
<1>1. EdmInv /\ WorkInv => CommandTypeOK
  BY DEF EdmInv, TypeOK, WorkInv, PipeInv, MainTyped, Scrapes, Printed, Begun, Leaving, Exited,
         CommandTypeOK, Bench!TypeOK, Bench!None
<1> QED
  BY <1>1, CommandEdmInv, WorkInvariant, PTL

\* A report is only printed after the producer has returned: it counts every
\* frame EDM was given, and at least one.
THEOREM ReportCountsAll == CommandSpec => []ReportFinal
<1>1. WorkInv => ReportFinal
  BY DEF WorkInv, PipeInv, Results, Steps, Printed, ReportFinal, Bench!ReportFinal
<1> QED
  BY <1>1, WorkInvariant, PTL

\* A report never credits EDM with more than the frames that were sent and its
\* backlog, whichever scrapes failed, and with what it had processed before only
\* when an answer lacked the counter.
THEOREM ReportCreditsNoMore == CommandSpec => []ReportHonest
<1>1. WorkInv => ReportHonest
  <2>1. CASE main = "printed" /\ WorkInv
    <3>1. report.sent = delivered /\ report.sent \in Nat
      BY <2>1 DEF WorkInv, PipeInv, Results, Printed
    <3>2. report.edm <= Backlog + report.sent + (IF baseline = 0 THEN Before ELSE 0)
      BY <2>1, <3>1 DEF WorkInv, Printed
    <3> QED
      BY <3>1, <3>2, CommandAssumption DEF ReportHonest, Bench!ReportHonest
  <2> QED
    BY <2>1 DEF ReportHonest, Bench!ReportHonest
<1> QED
  BY <1>1, WorkInvariant, PTL

-----------------------------------------------------------------------------
(* runBenchmark's waits, without fairness.                                 *)

Later == {"stop", "drain", "check", "final", "report", "printed", "died"}

\* The producer puts one result into prodDone and main takes it once; the
\* progress goroutine is there when main waits for it.
WaitInv == /\ prodStopped => main \in Later \ {"drain"}
           /\ main = "drain" => runDone
           /\ phase \in {"returned", "failed"} /\ prodCh = "empty" =>
                prodStopped \/ main \in {"check", "final", "report", "printed", "died"}
           /\ main \in Later \ {"died"} => progress # "none"
           /\ main = "timing" /\ command = "benchmark" => progress # "none"

LEMMA WaitKept == WorkInv /\ WaitInv /\ [CommandNext]_allVars => WaitInv'
<1> SUFFICES ASSUME WorkInv, WaitInv, [CommandNext]_allVars PROVE WaitInv'
  OBVIOUS
<1> USE DEF WaitInv, Later
<1>0. /\ phase = "crashed" => main = "died"
      /\ command # "benchmark" => main \in {"baseline", "timing", "died"}
      /\ phase \in {"open", "closing", "returned", "failed", "crashed"}
      /\ main = "baseline" => phase = "open"
  BY DEF WorkInv, Results, Steps, PipeInv
<1>1. CASE EdmStep \/ BenchmarkOver \/ LoopOver \/ ServeDies \/ UNCHANGED allVars
  <2>1. UNCHANGED workVars /\ command' = command
    BY <1>1 DEF EdmStep, Going, BenchmarkOver, LoopOver, ServeDies, WorkDone, WorkDies, allVars,
       vars, origin, BootStep, Crash, StartStep, StopStep, Listen, Exit, Reap, CloseDone,
       StartIfRequested, ConfigThere, ConfigOpen, ConfigFill, DawgThere, DawgMissing, FetchOpen,
       FetchFill, Rename, RenameFails, BootFails, Elsewhere, Launch, Stable, NotReady, Ready,
       GiveUp, PollAgain, Paused, Signal, TermDone, TermTimeout, KillDone, DoneIn, Drained,
       DrainTimeout, Stopped
  <2> QED
    BY <2>1 DEF workVars, mainRest
<1>2. CASE Signalled
  BY <1>2 DEF Signalled, Interrupt, Bench!Interrupt, Bench!pipeVars, origin
<1>3. CASE ProducerRuns
  <2>1. /\ main # "baseline" /\ UNCHANGED <<main, runDone, prodStopped, progress, command>>
        /\ prodCh' = CASE phase # "returned" /\ phase' = "returned" -> "ctx"
                       [] phase # "failed" /\ phase' = "failed" -> "err"
                       [] OTHER -> prodCh
    BY <1>3 DEF ProducerRuns, Bench!ProducerStep, Bench!NotYet, edmVars, origin
  <2> QED
    BY <2>1
<1>4. CASE ProducerPanics
  BY <1>4 DEF ProducerPanics, WorkPanics, Bench!ProducerPanics, Bench!Crash, origin
<1>5. CASE EdmProcesses
  BY <1>5 DEF EdmProcesses, Bench!EdmProcesses, Bench!pipeVars, Bench!mainVars, edmVars, origin
<1>6. CASE BenchmarkStep
  <2>1. command' = command /\ command = "benchmark"
    BY <1>6 DEF BenchmarkStep, edmVars, origin
  <2>2. CASE Bench!ProgressEnds
    BY <2>1, <2>2 DEF Bench!ProgressEnds, Bench!pipeVars
  <2>3. CASE Bench!Baseline \/ Bench!FirstFrame \/ Bench!NoFirstFrame \/ Bench!TimeIsUp
             \/ Bench!Interrupted
    BY <1>0, <2>1, <2>3 DEF Bench!Baseline, Bench!FirstFrame, Bench!NoFirstFrame,
       Bench!TimeIsUp, Bench!Interrupted, Bench!pipeVars
  <2>4. CASE Bench!ProducerEnded \/ Bench!StopRun \/ Bench!StopAfterProducer
             \/ Bench!TakeResult \/ Bench!CheckError
    BY <1>0, <2>1, <2>4 DEF Bench!ProducerEnded, Bench!StopRun, Bench!StopAfterProducer,
       Bench!TakeResult, Bench!CheckError, Bench!pipeVars
  <2>5. CASE Bench!FinalScrape \/ Bench!PrintReport
    BY <2>1, <2>5 DEF Bench!FinalScrape, Bench!PrintReport, Bench!pipeVars
  <2> QED
    BY <1>6, <2>2, <2>3, <2>4, <2>5 DEF BenchmarkStep, Bench!MainStep
<1>7. CASE Loop \/ Timeout
  BY <1>0, <1>7 DEF Loop, Timeout, mainRest, vars, origin
<1> QED
  BY <1>1, <1>2, <1>3, <1>4, <1>5, <1>6, <1>7 DEF CommandNext, WorkStep

\* When the benchmark waits for the producer it has cancelled it, and the result
\* is there or still to come; when it waits for the progress goroutine, that one
\* was started and is cancelled.
WaitsAreReleased ==
    /\ main = "drain" => runDone /\ (prodCh # "empty" \/ phase \in {"open", "closing"})
    /\ main = "final" => runDone /\ progress \in {"running", "done"}

\* No result of the producer is waited for twice, however the select of the
\* timed part was left (main.go runBenchmark).
THEOREM BenchmarkNeverStuck == CommandSpec => []WaitsAreReleased
<1>1. CommandInit => WaitInv
  BY DEF CommandInit, Bench!BenchInit, Bench!Init, WaitInv, Later
<1>2. WorkInv /\ WaitInv => WaitsAreReleased
  BY DEF WorkInv, PipeInv, MainTyped, Results, WaitInv, Later, WaitsAreReleased
<1>3. CommandSpec => []WaitInv
  BY <1>1, WaitKept, WorkInvariant, PTL DEF CommandSpec
<1> QED
  BY <1>2, <1>3, WorkInvariant, PTL
=============================================================================
