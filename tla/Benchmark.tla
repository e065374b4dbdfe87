----------------------------- MODULE Benchmark -----------------------------
(***************************************************************************)
(* runBenchmark: a baseline scrape, an uncapped producer, a wait for its   *)
(* first frame, a timed interval, and a report.  The producer is the       *)
(* Pipeline that Producer is shown to implement; EDM works off what was    *)
(* delivered to it.                                                        *)
(***************************************************************************)
EXTENDS Pipeline

CONSTANTS
    Before,       \* frames EDM had processed before the load generator came
    Backlog,      \* frames EDM had been given by then and not processed yet
    MaxFrames     \* bound on the frames a sink takes in one behaviour

VARIABLES
    main,         \* the goroutine of runBenchmark
    rootDone,     \* Ctrl-C: rootCtx is cancelled
    runDone,      \* runCtx is cancelled, by stopRun or with rootCtx
    prodCh,       \* prodDone: "empty", "ctx" (context.Canceled) or "err"
    prodErr,      \* the variable of that name
    prodStopped,  \* likewise
    interrupted,  \* interruptedEarly
    progress,     \* logBenchmarkProgress: "none", "running" or "done"
    processed,    \* frames EDM has processed
    baseline,     \* the scraper's baseline, None before the first scrape
    observed,     \* State.Observed.Processed
    report        \* the result printed

None == -1

mainVars == <<main, rootDone, runDone, prodCh, prodErr, prodStopped, interrupted, progress>>
edmVars  == <<processed, baseline, observed>>
vars == <<pipeVars, mainVars, edmVars, report>>

NoReport == [sent |-> 0, edm |-> 0, interrupted |-> FALSE]

BenchInit ==
    /\ Init
    /\ main = "baseline" /\ rootDone = FALSE /\ runDone = FALSE
    /\ prodCh = "empty" /\ prodErr = "none" /\ prodStopped = FALSE
    /\ interrupted = FALSE /\ progress = "none"
    /\ processed = Before /\ baseline = None /\ observed = 0
    /\ report = NoReport

Ended == {"printed", "died"}
NotYet == main = "baseline"

\* Update, if EDM answered: a counter that is not in the answer is read as 0, and
\* apply takes a new baseline when this or another counter went backwards.
Scraped ==
    /\ \E seen \in {processed, 0}, otherBack \in BOOLEAN :
         /\ baseline' = IF baseline = None \/ seen < baseline \/ otherBack
                        THEN seen ELSE baseline
         /\ observed' = seen - baseline'
    /\ UNCHANGED processed

-----------------------------------------------------------------------------
(* Mutants, for the properties to catch; no part of BenchSpec.             *)

\* the report does not wait for the producer
StopRunNoWait ==
    /\ main = "stop" /\ ~prodStopped
    /\ runDone' = TRUE /\ main' = "final"
    /\ UNCHANGED <<pipeVars, rootDone, prodCh, prodErr, prodStopped, interrupted,
                   progress, edmVars, report>>

\* the result of the producer is received twice
StopAfterProducerTwice ==
    /\ main = "stop" /\ prodStopped
    /\ main' = "drain"
    /\ UNCHANGED <<pipeVars, rootDone, runDone, prodCh, prodErr, prodStopped,
                   interrupted, progress, edmVars, report>>

\* there is no baseline scrape, and the first value counts as ours
FinalScrapeAbsolute ==
    /\ main = "final" /\ progress = "done"
    /\ observed' = processed /\ UNCHANGED <<processed, baseline>>
    /\ main' = "report"
    /\ UNCHANGED <<pipeVars, rootDone, runDone, prodCh, prodErr, prodStopped,
                   interrupted, progress, report>>

-----------------------------------------------------------------------------
(* The producer, EDM and the user.                                         *)

\* The builders end only with runCtx; Fail is the mixer that cannot be built.
\* Run's result goes into prodDone, which has room for it.
ProducerStep ==
    /\ ~NotYet
    /\ \/ Accept \/ Refuse \/ Report
       \/ Deliver /\ delivered < MaxFrames
       \/ Close /\ runDone
       \/ Finish \/ Fail
    /\ prodCh' = CASE phase # "returned" /\ phase' = "returned" -> "ctx"
                   [] phase # "failed" /\ phase' = "failed" -> "err"
                   [] OTHER -> prodCh
    /\ UNCHANGED <<main, rootDone, runDone, prodErr, prodStopped, interrupted,
                   progress, edmVars, report>>

\* A panic in the producer, of a builder or of the beacon, ends the whole process.
ProducerPanics ==
    /\ ~NotYet /\ Crash /\ main' = "died"
    /\ UNCHANGED <<rootDone, runDone, prodCh, prodErr, prodStopped, interrupted,
                   progress, edmVars, report>>

EdmProcesses ==
    /\ processed < Before + Backlog + delivered /\ processed' = processed + 1
    /\ UNCHANGED <<pipeVars, mainVars, baseline, observed, report>>

Interrupt ==
    /\ ~rootDone /\ rootDone' = TRUE /\ runDone' = TRUE
    /\ UNCHANGED <<pipeVars, main, prodCh, prodErr, prodStopped, interrupted,
                   progress, edmVars, report>>

\* logBenchmarkProgress ends with runCtx.
ProgressEnds ==
    /\ progress = "running" /\ runDone /\ progress' = "done"
    /\ UNCHANGED <<pipeVars, main, rootDone, runDone, prodCh, prodErr, prodStopped,
                   interrupted, edmVars, report>>

-----------------------------------------------------------------------------
(* runBenchmark, from the baseline scrape on.                              *)

\* The baseline, if EDM answers; then the producer is started.
Baseline ==
    /\ main = "baseline" /\ main' = "first"
    /\ Scraped \/ UNCHANGED edmVars
    /\ UNCHANGED <<pipeVars, rootDone, runDone, prodCh, prodErr, prodStopped,
                   interrupted, progress, report>>

\* waitForFirstBenchmarkFrame: a frame was counted...
FirstFrame ==
    /\ main = "first" /\ reported > 0
    /\ main' = "timing" /\ progress' = "running"
    /\ UNCHANGED <<pipeVars, rootDone, runDone, prodCh, prodErr, prodStopped,
                   interrupted, edmVars, report>>

\* ...or the producer stopped, or the user did: die.
NoFirstFrame ==
    /\ main = "first"
    /\ \/ prodCh # "empty" /\ prodCh' = "empty"
       \/ rootDone /\ UNCHANGED prodCh
    /\ main' = "died" /\ runDone' = TRUE
    /\ UNCHANGED <<pipeVars, rootDone, prodErr, prodStopped, interrupted, progress,
                   edmVars, report>>

\* The three cases of the select.
TimeIsUp ==
    /\ main = "timing" /\ main' = "stop"
    /\ UNCHANGED <<pipeVars, rootDone, runDone, prodCh, prodErr, prodStopped,
                   interrupted, progress, edmVars, report>>

Interrupted ==
    /\ main = "timing" /\ rootDone
    /\ interrupted' = TRUE /\ main' = "stop"
    /\ UNCHANGED <<pipeVars, rootDone, runDone, prodCh, prodErr, prodStopped,
                   progress, edmVars, report>>

ProducerEnded ==
    /\ main = "timing" /\ prodCh # "empty"
    /\ prodErr' = prodCh /\ prodCh' = "empty"
    /\ prodStopped' = TRUE /\ interrupted' = TRUE /\ main' = "stop"
    /\ UNCHANGED <<pipeVars, rootDone, runDone, progress, edmVars, report>>

\* stopRun(), and wait for the producer unless it has ended before.
StopRun ==
    /\ main = "stop" /\ ~prodStopped
    /\ runDone' = TRUE /\ main' = "drain"
    /\ UNCHANGED <<pipeVars, rootDone, prodCh, prodErr, prodStopped, interrupted,
                   progress, edmVars, report>>

StopAfterProducer ==
    /\ main = "stop" /\ prodStopped
    /\ main' = "check"
    /\ UNCHANGED <<pipeVars, rootDone, runDone, prodCh, prodErr, prodStopped,
                   interrupted, progress, edmVars, report>>

TakeResult ==
    /\ main = "drain" /\ prodCh # "empty"
    /\ prodErr' = prodCh /\ prodCh' = "empty" /\ main' = "check"
    /\ UNCHANGED <<pipeVars, rootDone, runDone, prodStopped, interrupted, progress,
                   edmVars, report>>

\* An error other than the cancel, or a producer that stopped by itself: die.
CheckError ==
    /\ main = "check"
    /\ main' = IF prodErr = "err" \/ (prodStopped /\ ~rootDone) THEN "died" ELSE "final"
    /\ runDone' = TRUE
    /\ UNCHANGED <<pipeVars, rootDone, prodCh, prodErr, prodStopped, interrupted,
                   progress, edmVars, report>>

\* <-progressDone, then the last scrape, if EDM answers.
FinalScrape ==
    /\ main = "final" /\ progress = "done"
    /\ Scraped \/ UNCHANGED edmVars
    /\ main' = "report"
    /\ UNCHANGED <<pipeVars, rootDone, runDone, prodCh, prodErr, prodStopped,
                   interrupted, progress, report>>

PrintReport ==
    /\ main = "report" /\ main' = "printed"
    /\ report' = [sent |-> reported, edm |-> observed, interrupted |-> interrupted]
    /\ UNCHANGED <<pipeVars, rootDone, runDone, prodCh, prodErr, prodStopped,
                   interrupted, progress, edmVars>>

MainStep == \/ Baseline \/ FirstFrame \/ NoFirstFrame \/ TimeIsUp \/ Interrupted
            \/ ProducerEnded \/ StopRun \/ StopAfterProducer \/ TakeResult
            \/ CheckError \/ FinalScrape \/ PrintReport

\* The end of main is the end of the process.
BenchNext ==
    /\ main \notin Ended
    /\ MainStep \/ ProducerStep \/ ProducerPanics \/ EdmProcesses \/ Interrupt \/ ProgressEnds

BenchSpec == BenchInit /\ [][BenchNext]_vars

-----------------------------------------------------------------------------
(* Properties.                                                             *)

TypeOK ==
    /\ phase \in {"open", "closing", "returned", "failed", "crashed"}
    /\ pending \in 0 .. Bound /\ delivered \in Nat /\ reported \in Nat
    /\ main \in {"baseline", "first", "timing", "stop", "drain", "check", "final",
                 "report", "printed", "died"}
    /\ rootDone \in BOOLEAN /\ runDone \in BOOLEAN
    /\ prodCh \in {"empty", "ctx", "err"} /\ prodErr \in {"none", "ctx", "err"}
    /\ prodStopped \in BOOLEAN /\ interrupted \in BOOLEAN
    /\ progress \in {"none", "running", "done"}
    /\ processed \in Nat /\ baseline \in Nat \cup {None} /\ observed \in Nat
    /\ report \in [sent : Nat, edm : Nat, interrupted : BOOLEAN]

\* The report is final: it is taken after the producer has returned, so it
\* counts every frame EDM was given and nothing is sent any more.
ReportFinal ==
    main = "printed" =>
        phase = "returned" /\ pending = 0 /\ report.sent = delivered /\ report.sent > 0

\* EDM is never credited with more frames than were sent and its backlog, whether
\* or not the baseline scrape succeeded; with its past only if the baseline fell
\* to 0 because an answer lacked the counter.
ReportHonest ==
    main = "printed" =>
        report.edm <= report.sent + Backlog + (IF baseline = 0 THEN Before ELSE 0)
=============================================================================
