------------------------------- MODULE Verify -------------------------------
(***************************************************************************)
(* internal/verify: the scraper that turns EDM's counters into             *)
(* State.Observed, and Reconcile, which holds them against State.Sent.     *)
(* The sender's counting (producer.bumpCounter) and EDM itself are modelled*)
(* as far as the verifier sees them.  EDM's counter 1 is                   *)
(* edm_processed_dnstap_total; the others stand for the remaining ones.    *)
(***************************************************************************)
EXTENDS Integers, FiniteSets, Functions

CONSTANTS
    Patterns,     \* the traffic patterns with a counter in State.Sent
    NCounters,    \* EDM counters the scraper reads (6 in the code)
    Before,       \* frames EDM had processed before the load generator came
    Backlog,      \* frames EDM had been given by then and not processed yet
    MaxFrames,    \* bound on the frames delivered in one behaviour
    MaxRestarts,  \* bound on the restarts of EDM
    MaxGaps       \* bound on the answers that lack a metric

ASSUME VerifyAssumption ==
    /\ IsFiniteSet(Patterns)
    /\ NCounters \in Nat \ {0}
    /\ Before \in Nat /\ Backlog \in Nat /\ MaxFrames \in Nat /\ MaxRestarts \in Nat
    /\ MaxGaps \in Nat

Counters  == 1 .. NCounters
Processed == 1

VARIABLES
    \* the sender
    spc, spattern, delivered, sent, total,
    \* EDM: its counters, the frames it still has to process, its restarts
    edm, inbox, restarts,
    \* the scraper: its loop, baseline, the snapshot in hand, values to store
    vpc, baselineSet, baseline, snap, snapLife, rel, next, previous,
    observed, ctxDone,
    \* history: the answers that lacked a metric, and whether one of EDM's first
    \* life lacked the processed counter
    gaps, blind,
    \* Reconcile in progress
    rpc, repTotal, repObserved, repPattern, unread

senderVars == <<spc, spattern, delivered, sent, total>>
edmVars    == <<edm, inbox, restarts>>
baseVars   == <<baselineSet, baseline>>
snapVars   == <<snap, snapLife, rel, next, previous, gaps, blind>>
readerVars == <<rpc, repTotal, repObserved, repPattern, unread>>
vars == <<senderVars, edmVars, baseVars, snapVars, vpc, observed, ctxDone, readerVars>>

Zero == [c \in Counters |-> 0]
SumOf(f) == FoldFunctionOnSet(+, 0, f, Patterns)

Init ==
    /\ spc = "send" /\ spattern \in Patterns /\ delivered = 0
    /\ sent = [p \in Patterns |-> 0] /\ total = 0
    /\ edm = [c \in Counters |-> Before] /\ inbox = Backlog /\ restarts = 0
    /\ vpc = "scrape" /\ baselineSet = FALSE /\ baseline = Zero
    /\ snap = Zero /\ snapLife = 0 /\ rel = Zero /\ next = 1 /\ previous = Zero
    /\ observed = Zero /\ ctxDone = FALSE /\ gaps = 0 /\ blind = FALSE
    /\ rpc = "total" /\ repTotal = 0 /\ repObserved = 0
    /\ repPattern = [p \in Patterns |-> 0] /\ unread = {}

-----------------------------------------------------------------------------
(* Mutants, for the properties to catch; no part of Spec.                  *)

\* the operands of the comparison swapped
RelativeToSwapped(s, b) ==
    [c \in Counters |-> IF b[c] <= s[c] THEN b[c] - s[c] ELSE 0]

\* only the processed counter is looked at
WentBackwardsFirstOnly(s, b) == s[Processed] < b[Processed]

\* the first snapshot is no baseline
ApplyWithoutFirst ==
    /\ vpc = "apply"
    /\ baseline' = IF \E c \in Counters : snap[c] < baseline[c] THEN snap ELSE baseline
    /\ baselineSet' = TRUE
    /\ rel' = [c \in Counters |-> snap[c] - baseline'[c]]
    /\ next' = 1 /\ previous' = snap
    /\ vpc' = "store"
    /\ UNCHANGED <<senderVars, edmVars, snap, snapLife, gaps, blind, observed, ctxDone, readerVars>>

\* a scrape that fails ends the loop
ScrapeFailsForGood ==
    /\ vpc = "scrape"
    /\ vpc' = "done"
    /\ UNCHANGED <<senderVars, edmVars, baseVars, snapVars, observed, ctxDone,
                   readerVars>>

\* bumpCounter has no case for the pattern
DeliverNoCase ==
    /\ spc = "send" /\ delivered < MaxFrames
    /\ delivered' = delivered + 1 /\ inbox' = inbox + 1
    /\ spattern' \in Patterns
    /\ spc' = "total"
    /\ UNCHANGED <<sent, total, edm, restarts, baseVars, snapVars, vpc,
                   observed, ctxDone, readerVars>>

-----------------------------------------------------------------------------
(* The sender: SendBytes hands a frame to EDM, bumpCounter counts it.      *)

Deliver ==
    /\ spc = "send" /\ delivered < MaxFrames
    /\ delivered' = delivered + 1 /\ inbox' = inbox + 1
    /\ spattern' \in Patterns
    /\ spc' = "pattern"
    /\ UNCHANGED <<sent, total, edm, restarts, baseVars, snapVars, vpc,
                   observed, ctxDone, readerVars>>

CountPattern ==
    /\ spc = "pattern"
    /\ sent' = [sent EXCEPT ![spattern] = @ + 1]
    /\ spc' = "total"
    /\ UNCHANGED <<spattern, delivered, total, edmVars, baseVars, snapVars,
                   vpc, observed, ctxDone, readerVars>>

CountTotal ==
    /\ spc = "total"
    /\ total' = total + 1
    /\ spc' = "send"
    /\ UNCHANGED <<spattern, delivered, sent, edmVars, baseVars, snapVars,
                   vpc, observed, ctxDone, readerVars>>

-----------------------------------------------------------------------------
(* EDM: every frame is processed and may bump other counters; a restart    *)
(* zeroes the counters and loses what was not yet processed.               *)

Process ==
    /\ inbox > 0
    /\ inbox' = inbox - 1
    /\ \E others \in SUBSET (Counters \ {Processed}) :
         edm' = [c \in Counters |->
                   IF c = Processed \/ c \in others THEN edm[c] + 1 ELSE edm[c]]
    /\ UNCHANGED <<senderVars, restarts, baseVars, snapVars, vpc,
                   observed, ctxDone, readerVars>>

Restart ==
    /\ restarts < MaxRestarts
    /\ restarts' = restarts + 1
    /\ edm' = Zero /\ inbox' = 0
    /\ UNCHANGED <<senderVars, baseVars, snapVars, vpc, observed, ctxDone,
                   readerVars>>

-----------------------------------------------------------------------------
(* Scraper.Run: scrape at once, then at every tick; apply what came back.  *)

WentBackwards(s, b) == \E c \in Counters : s[c] < b[c]

RelativeTo(s, b) ==
    [c \in Counters |-> IF s[c] <= b[c] THEN 0 ELSE s[c] - b[c]]

\* Once: EDM's counters at one moment, if it answers.  A metric that is not in
\* the answer is read as 0.
ScrapeOk(absent) ==
    /\ vpc = "scrape" /\ ~ctxDone
    /\ snap' = [c \in Counters |-> IF c \in absent THEN 0 ELSE edm[c]]
    /\ snapLife' = restarts
    /\ absent # {} => gaps < MaxGaps
    /\ gaps' = IF absent = {} THEN gaps ELSE gaps + 1
    /\ blind' = (blind \/ (restarts = 0 /\ Processed \in absent))
    /\ vpc' = "apply"
    /\ UNCHANGED <<senderVars, edmVars, baseVars, rel, next, previous, observed,
                   ctxDone, readerVars>>

ScrapeFails ==
    /\ vpc = "scrape"
    /\ UNCHANGED vars

\* mutant: the difference is taken before the baseline is
ApplyRelativeFirst ==
    /\ vpc = "apply"
    /\ rel' = RelativeTo(snap, baseline)
    /\ baseline' = IF ~baselineSet \/ WentBackwards(snap, baseline)
                   THEN snap ELSE baseline
    /\ baselineSet' = TRUE
    /\ next' = 1 /\ previous' = snap
    /\ vpc' = "store"
    /\ UNCHANGED <<senderVars, edmVars, snap, snapLife, gaps, blind, observed, ctxDone, readerVars>>

\* apply, under the scraper's mutex.
Apply ==
    /\ vpc = "apply"
    /\ LET reset == ~baselineSet \/ WentBackwards(snap, baseline)
       IN  /\ baseline' = IF reset THEN snap ELSE baseline
           /\ baselineSet' = TRUE
           /\ rel' = RelativeTo(snap, baseline')
    /\ next' = 1 /\ previous' = snap
    /\ vpc' = "store"
    /\ UNCHANGED <<senderVars, edmVars, snap, snapLife, gaps, blind, observed, ctxDone, readerVars>>

\* apply's stores into State.Observed, one counter at a time.
Store ==
    /\ vpc = "store" /\ next <= NCounters
    /\ observed' = [observed EXCEPT ![next] = rel[next]]
    /\ next' = next + 1
    /\ UNCHANGED <<senderVars, edmVars, baseVars, snap, snapLife, rel, previous,
                   gaps, blind, vpc, ctxDone, readerVars>>

Stored ==
    /\ vpc = "store" /\ next > NCounters
    /\ vpc' = "scrape"
    /\ UNCHANGED <<senderVars, edmVars, baseVars, snapVars, observed, ctxDone,
                   readerVars>>

RunEnds ==
    /\ vpc = "scrape" /\ ctxDone
    /\ vpc' = "done"
    /\ UNCHANGED <<senderVars, edmVars, baseVars, snapVars, observed, ctxDone,
                   readerVars>>

Cancel ==
    /\ ~ctxDone /\ ctxDone' = TRUE
    /\ UNCHANGED <<senderVars, edmVars, baseVars, snapVars, vpc, observed, readerVars>>

-----------------------------------------------------------------------------
(* Reconcile: Sent.Total first, then the observed counter, then the        *)
(* patterns; each load is atomic, the report as a whole is not.            *)

ReadTotal ==
    /\ rpc = "total"
    /\ repTotal' = total
    /\ rpc' = "observed"
    /\ UNCHANGED <<senderVars, edmVars, baseVars, snapVars, vpc, observed,
                   ctxDone, repObserved, repPattern, unread>>

ReadObserved ==
    /\ rpc = "observed"
    /\ repObserved' = observed[Processed]
    /\ unread' = Patterns
    /\ rpc' = "patterns"
    /\ UNCHANGED <<senderVars, edmVars, baseVars, snapVars, vpc, observed,
                   ctxDone, repTotal, repPattern>>

ReadPattern ==
    /\ rpc = "patterns"
    /\ \E p \in unread :
         /\ repPattern' = [repPattern EXCEPT ![p] = sent[p]]
         /\ unread' = unread \ {p}
    /\ UNCHANGED <<senderVars, edmVars, baseVars, snapVars, vpc, observed,
                   ctxDone, rpc, repTotal, repObserved>>

\* The report is returned; the next Reconcile starts afresh.
ReportDone ==
    /\ rpc = "patterns" /\ unread = {}
    /\ rpc' = "total"
    /\ repTotal' = 0 /\ repObserved' = 0 /\ repPattern' = [p \in Patterns |-> 0]
    /\ UNCHANGED <<senderVars, edmVars, baseVars, snapVars, vpc, observed,
                   ctxDone, unread>>

SenderStep  == Deliver \/ CountPattern \/ CountTotal
EdmStep     == Process \/ Restart
ScraperStep == \/ \E absent \in SUBSET Counters : ScrapeOk(absent)
               \/ ScrapeFails \/ Apply \/ Store \/ Stored \/ RunEnds
ReaderStep  == ReadTotal \/ ReadObserved \/ ReadPattern \/ ReportDone

Next == SenderStep \/ EdmStep \/ ScraperStep \/ Cancel \/ ReaderStep

Spec == Init /\ [][Next]_vars

\* EDM works off its input, the scraper's goroutine runs, and of the scrapes
\* that go out again and again some bring every metric.
FairSpec ==
    /\ Spec
    /\ WF_vars(Process) /\ SF_vars(ScrapeOk({}))
    /\ WF_vars(Apply \/ Store \/ Stored \/ RunEnds)

-----------------------------------------------------------------------------
(* Properties.                                                             *)

TypeOK ==
    /\ spc \in {"send", "pattern", "total"} /\ spattern \in Patterns
    /\ delivered \in Nat /\ total \in Nat /\ sent \in [Patterns -> Nat]
    /\ edm \in [Counters -> Nat] /\ inbox \in Nat /\ restarts \in Nat
    /\ vpc \in {"scrape", "apply", "store", "done"}
    /\ baselineSet \in BOOLEAN /\ baseline \in [Counters -> Nat]
    /\ snap \in [Counters -> Nat] /\ snapLife \in Nat
    /\ rel \in [Counters -> Nat] /\ previous \in [Counters -> Nat]
    /\ next \in 1 .. NCounters + 1
    /\ observed \in [Counters -> Nat] /\ ctxDone \in BOOLEAN /\ gaps \in Nat /\ blind \in BOOLEAN
    /\ rpc \in {"total", "observed", "patterns"}
    /\ repTotal \in Nat /\ repObserved \in Nat /\ repPattern \in [Patterns -> Nat]
    /\ unread \subseteq Patterns

\* relativeTo's clamp never acts, against its comment: by the time it runs the
\* baseline is no counter's future, so what is stored is an exact difference.
NeverClamps ==
    vpc = "store" => \A c \in Counters : /\ baseline[c] <= snap[c]
                                         /\ rel[c] = snap[c] - baseline[c]

\* The comment on relativeTo: negative results "are clamped to zero, which only
\* happens momentarily during EDM restarts before the caller resets the
\* baseline".  The caller resets it first: no restart shows the clamp.
ClampCatchesRestart ==
    [][Apply /\ baselineSet /\ WentBackwards(snap, baseline)
         => \E c \in Counters : snap[c] < baseline'[c]]_vars

\* The most that could be claimed: what EDM was given by us, its backlog, and,
\* if the processed counter was ever missing from an answer of its first life,
\* which takes the baseline down to 0, what it had done before.
Claimable == delivered + Backlog + (IF blind THEN Before ELSE 0)

\* The load generator claims no more frames of EDM than those, however often EDM
\* restarts, whatever other metric is missing, and whenever the baseline is taken.
ObservedIsOurs == observed[Processed] <= Claimable

\* The comment on Scraper: frames EDM processed "before the load-gen attached"
\* show up "as 0", "and drift starts honest".  A backlog is credited to us, and so
\* is EDM's whole past after an answer without the counter.
PriorIsZero == observed[Processed] <= delivered

\* In every report the total is covered by the patterns: Reconcile loads the
\* total first and the sender bumps it last.
TotalCovered ==
    rpc = "patterns" /\ unread = {} => repTotal <= SumOf(repPattern)

\* Nothing is under way: every delivered frame was counted and processed, and
\* the newest snapshot is in State.Observed.
Settled == /\ spc = "send" /\ inbox = 0
           /\ vpc = "scrape" /\ baselineSet /\ snap = edm /\ snapLife = restarts

\* Without restarts, the drift that remains once everything has settled is
\* what EDM processed before the first successful scrape, less what it had been
\* given before us, no more, no less: negative when it still had a backlog.
DriftIsBaseline ==
    Settled /\ restarts = 0 =>
        total - observed[Processed] = baseline[Processed] - (Before + Backlog)

\* The README: "Persistent drift means EDM is dropping or backed up"; it drops
\* nothing here without a restart.
DriftMeansLoss ==
    Settled /\ restarts = 0 => total = observed[Processed]

\* The comment on Scraper: "EDM restarts are detected as any counter going
\* backwards; the baseline resets to the new snapshot".
BackwardsResets ==
    [][Apply /\ baselineSet /\ WentBackwards(snap, previous)
         => baseline' = snap]_vars

\* What is published catches up with EDM: once EDM has worked off its input
\* the difference to the baseline arrives in State.Observed, unless the run is
\* cancelled or EDM moves on.
CatchesUp ==
    (inbox = 0) ~> \/ ctxDone \/ inbox > 0
                   \/ \A c \in Counters : observed[c] = edm[c] - baseline[c]
=============================================================================
