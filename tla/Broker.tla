------------------------------- MODULE Broker -------------------------------
(***************************************************************************)
(* internal/mqtt and startMQTT: the embedded broker's life, and the        *)
(* counters its hooks bump for every client while Stats reads them.  The   *)
(* MQTT server itself (mochi) is external: Serve opens the listener,       *)
(* returns at some time, and Close ends it.  Timers may fire at any time   *)
(* they are waited for.                                                    *)
(***************************************************************************)
EXTENDS Naturals, FiniteSets

CONSTANTS
    Clients,      \* connections, each served by a goroutine of its own
    MaxPublish    \* bound on the packets in one behaviour

ASSUME BrokerAssumption == IsFiniteSet(Clients) /\ MaxPublish \in Nat

VARIABLES
    main,        \* startMQTT: "wait", "up", "failed" or "none" (nil, nil)
    run,         \* Broker.Run
    serve,       \* the goroutine that calls Serve: "none", "in" or "out"
    serveCh,     \* Run's errCh: "empty", "nil" or "err"
    serveReturned,
    runCh,       \* startMQTT's errCh: "empty", "nil", "ctx" or "err"
    listening,   \* the listener accepts
    closed,      \* Close was called
    ctxDone,
    client,      \* per client: "off", "idle", "total", "prefix"
    topicMatches,\* per client: the packet in hand has the EDM prefix
    published, matching, \* history: packets, and the ones with the prefix
    total, edmTopic, connections,   \* the counters
    reader, stats                   \* Stats

lifeVars  == <<main, run, serve, serveCh, serveReturned, runCh, listening, closed, ctxDone>>
countVars == <<client, topicMatches, published, matching, total, edmTopic,
               connections>>
statVars  == <<reader, stats>>
vars == <<lifeVars, countVars, statVars>>

Init ==
    /\ main = "wait" /\ run = "spawn" /\ serve = "none" /\ serveCh = "empty"
    /\ serveReturned = FALSE /\ runCh = "empty"
    /\ listening = FALSE /\ closed = FALSE /\ ctxDone = FALSE
    /\ client = [c \in Clients |-> "off"]
    /\ topicMatches = [c \in Clients |-> FALSE]
    /\ published = 0 /\ matching = 0 /\ total = 0 /\ edmTopic = 0
    /\ connections = 0
    /\ reader = "total" /\ stats = [total |-> 0, edmTopic |-> 0, connections |-> 0]

-----------------------------------------------------------------------------
(* Mutants, for the properties to catch; no part of Spec.                  *)

\* Run waits for Serve although its result was taken before
CancelWaitsAgain ==
    /\ run = "select2" /\ ctxDone
    /\ closed' = TRUE /\ listening' = FALSE
    /\ run' = "wait"
    /\ UNCHANGED <<main, serve, serveCh, serveReturned, runCh, ctxDone, countVars, statVars>>

\* Run leaves the broker open
CancelNoClose ==
    /\ run = "select2" /\ ctxDone
    /\ run' = IF serveReturned THEN "ctx" ELSE "wait"
    /\ UNCHANGED <<main, serve, serveCh, serveReturned, runCh, listening, closed,
                   ctxDone, countVars, statVars>>

\* every packet is taken for EDM's
CountPrefixAlways(c) ==
    /\ client[c] = "prefix"
    /\ edmTopic' = edmTopic + 1
    /\ client' = [client EXCEPT ![c] = "idle"]
    /\ UNCHANGED <<lifeVars, topicMatches, published, matching, total, connections, statVars>>

\* the number of connections is decremented where it should be incremented
OnConnectCountsDown(c) ==
    /\ client[c] = "off" /\ listening
    /\ client' = [client EXCEPT ![c] = "idle"]
    /\ connections' = connections - 1
    /\ UNCHANGED <<lifeVars, topicMatches, published, matching, total, edmTopic, statVars>>

-----------------------------------------------------------------------------
(* Broker.Run.                                                             *)

RunStarts ==
    /\ run = "spawn"
    /\ serve' = "in" /\ run' = "select1"
    /\ UNCHANGED <<main, serveCh, serveReturned, runCh, listening, closed, ctxDone,
                   countVars, statVars>>

\* Serve returns at once or late, with an error or without; the channel has
\* room for its result.
ServeReturns ==
    /\ serve = "in"
    /\ serve' = "out"
    /\ \/ serveCh' = "nil" /\ listening' = ~closed
       \/ serveCh' = "err" /\ UNCHANGED listening
    /\ UNCHANGED <<main, run, serveReturned, runCh, closed, ctxDone, countVars, statVars>>

\* <-errCh, in either select: an error ends Run.
ServeError ==
    /\ run \in {"select1", "select2"} /\ serveCh = "err"
    /\ serveCh' = "empty" /\ run' = "err"
    /\ UNCHANGED <<main, serve, serveReturned, runCh, listening, closed, ctxDone,
                   countVars, statVars>>

\* Within the first 50 ms success is remembered...
ServedInTime ==
    /\ run = "select1" /\ serveCh = "nil"
    /\ serveCh' = "empty" /\ serveReturned' = TRUE /\ run' = "select2"
    /\ UNCHANGED <<main, serve, runCh, listening, closed, ctxDone, countVars, statVars>>

Pause50 ==
    /\ run = "select1" /\ run' = "select2"
    /\ UNCHANGED <<main, serve, serveCh, serveReturned, runCh, listening, closed,
                   ctxDone, countVars, statVars>>

\* ...later it ends Run.
ServedLate ==
    /\ run = "select2" /\ serveCh = "nil"
    /\ serveCh' = "empty" /\ run' = "nil"
    /\ UNCHANGED <<main, serve, serveReturned, runCh, listening, closed, ctxDone,
                   countVars, statVars>>

CancelRun ==
    /\ run = "select2" /\ ctxDone
    /\ closed' = TRUE /\ listening' = FALSE
    /\ run' = IF serveReturned THEN "ctx" ELSE "wait"
    /\ UNCHANGED <<main, serve, serveCh, serveReturned, runCh, ctxDone, countVars, statVars>>

ServeEnded ==
    /\ run = "wait" /\ serveCh # "empty"
    /\ serveCh' = "empty" /\ run' = "ctx"
    /\ UNCHANGED <<main, serve, serveReturned, runCh, listening, closed, ctxDone,
                   countVars, statVars>>

\* errCh <- br.Run(ctx)
RunReturns ==
    /\ run \in {"nil", "ctx", "err"}
    /\ runCh' = run /\ run' = "done"
    /\ UNCHANGED <<main, serve, serveCh, serveReturned, listening, closed, ctxDone,
                   countVars, statVars>>

-----------------------------------------------------------------------------
(* startMQTT, after pki.Ensure and mqtt.New.                               *)

\* return nil, err -- also when err is nil.
StartEnds ==
    /\ main = "wait" /\ runCh # "empty"
    /\ main' = IF runCh = "nil" THEN "none" ELSE "failed"
    /\ runCh' = "empty"
    /\ UNCHANGED <<run, serve, serveCh, serveReturned, listening, closed, ctxDone,
                   countVars, statVars>>

Pause75 ==
    /\ main = "wait" /\ main' = "up"
    /\ UNCHANGED <<run, serve, serveCh, serveReturned, runCh, listening, closed,
                   ctxDone, countVars, statVars>>

Cancel ==
    /\ ~ctxDone /\ ctxDone' = TRUE
    /\ UNCHANGED <<main, run, serve, serveCh, serveReturned, runCh, listening, closed,
                   countVars, statVars>>

-----------------------------------------------------------------------------
(* countingHook, per client, and Stats.                                    *)

OnConnect(c) ==
    /\ client[c] = "off" /\ listening
    /\ client' = [client EXCEPT ![c] = "idle"]
    /\ connections' = connections + 1
    /\ UNCHANGED <<lifeVars, topicMatches, published, matching, total, edmTopic, statVars>>

Publish(c) ==
    /\ client[c] = "idle" /\ ~closed /\ published < MaxPublish
    /\ \E m \in BOOLEAN :
         /\ topicMatches' = [topicMatches EXCEPT ![c] = m]
         /\ matching' = IF m THEN matching + 1 ELSE matching
    /\ published' = published + 1
    /\ client' = [client EXCEPT ![c] = "total"]
    /\ UNCHANGED <<lifeVars, total, edmTopic, connections, statVars>>

\* OnPublish: the total first...
CountTotal(c) ==
    /\ client[c] = "total"
    /\ total' = total + 1
    /\ client' = [client EXCEPT ![c] = "prefix"]
    /\ UNCHANGED <<lifeVars, topicMatches, published, matching, edmTopic, connections, statVars>>

\* ...then, for a topic with the prefix, the other one.
CountPrefix(c) ==
    /\ client[c] = "prefix"
    /\ edmTopic' = IF topicMatches[c] THEN edmTopic + 1 ELSE edmTopic
    /\ client' = [client EXCEPT ![c] = "idle"]
    /\ UNCHANGED <<lifeVars, topicMatches, published, matching, total, connections, statVars>>

\* Stats loads the three counters one after the other.
LoadTotal ==
    /\ reader = "total" /\ reader' = "edmTopic"
    /\ stats' = [stats EXCEPT !.total = total]
    /\ UNCHANGED <<lifeVars, countVars>>

LoadEdmTopic ==
    /\ reader = "edmTopic" /\ reader' = "connections"
    /\ stats' = [stats EXCEPT !.edmTopic = edmTopic]
    /\ UNCHANGED <<lifeVars, countVars>>

LoadConnections ==
    /\ reader = "connections" /\ reader' = "done"
    /\ stats' = [stats EXCEPT !.connections = connections]
    /\ UNCHANGED <<lifeVars, countVars>>

StatsAgain ==
    /\ reader = "done" /\ reader' = "total"
    /\ UNCHANGED <<lifeVars, countVars, stats>>

RunStep   == \/ RunStarts \/ ServeError \/ ServedInTime \/ Pause50 \/ ServedLate
             \/ CancelRun \/ ServeEnded \/ RunReturns
MainStep  == StartEnds \/ Pause75
StatsStep == LoadTotal \/ LoadEdmTopic \/ LoadConnections \/ StatsAgain
ClientStep(c) == OnConnect(c) \/ Publish(c) \/ CountTotal(c) \/ CountPrefix(c)

Next == \/ RunStep \/ ServeReturns \/ MainStep \/ Cancel \/ StatsStep
        \/ \E c \in Clients : ClientStep(c)

Spec == Init /\ [][Next]_vars

\* Run's goroutine and Serve's are scheduled; Serve does return.
FairSpec == Spec /\ WF_vars(RunStep) /\ WF_vars(ServeReturns)

-----------------------------------------------------------------------------
(* Properties.                                                             *)

TypeOK ==
    /\ main \in {"wait", "up", "failed", "none"}
    /\ run \in {"spawn", "select1", "select2", "wait", "nil", "ctx", "err", "done"}
    /\ serve \in {"none", "in", "out"} /\ serveCh \in {"empty", "nil", "err"}
    /\ serveReturned \in BOOLEAN /\ runCh \in {"empty", "nil", "ctx", "err"}
    /\ listening \in BOOLEAN /\ closed \in BOOLEAN /\ ctxDone \in BOOLEAN
    /\ client \in [Clients -> {"off", "idle", "total", "prefix"}]
    /\ topicMatches \in [Clients -> BOOLEAN]
    /\ published \in Nat /\ matching \in Nat /\ total \in Nat /\ edmTopic \in Nat
    /\ connections \in Nat
    /\ reader \in {"total", "edmTopic", "connections", "done"}
    /\ stats \in [total : Nat, edmTopic : Nat, connections : Nat]

\* No packet is lost or counted twice: what is missing from the counters is
\* exactly what some client's goroutine still has in hand.
Counted ==
    /\ total + Cardinality({c \in Clients : client[c] = "total"}) = published
    /\ edmTopic + Cardinality({c \in Clients :
          client[c] \in {"total", "prefix"} /\ topicMatches[c]}) = matching

\* Run reports the cancellation only after the broker was closed and the
\* goroutine it started has ended: nothing of the broker is left.
NothingLeft == run = "ctx" \/ runCh = "ctx" => closed /\ ~listening /\ serve = "out"

\* A cancelled Run returns, and so does the goroutine that called Serve,
\* however the two selects and the 50 ms fell.
CancelEnds == ctxDone ~> (run = "done" /\ serve # "in")

\* The comment on Run: "Run starts the broker and blocks until ctx is
\* cancelled".
RunBlocks == run = "nil" => ctxDone

\* The comment on startMQTT: "Returns the generated key bundle, or nil when
\* MQTT is disabled"; here it is enabled.
NilMeansDisabled == main # "none"

\* The comment on Stats: "Stats is a snapshot of the broker's per-publish
\* counters": there was a moment at which they had these values, so the EDM
\* count is within the total.
StatsConsistent == reader = "done" => stats.edmTopic <= stats.total
=============================================================================
