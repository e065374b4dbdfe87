------------------------------ MODULE Pipeline ------------------------------
(***************************************************************************)
(* What the producer promises its caller, without goroutines, channels or  *)
(* buffers: a bounded pipeline that accepts frames while it is open, hands *)
(* them to the sink one at a time, reports a frame only after the sink     *)
(* took it, and returns only when nothing is left in it.                   *)
(***************************************************************************)
EXTENDS Integers

CONSTANT Bound      \* how many frames the pipeline may hold, a natural number

VARIABLES
    phase,          \* "open", "closing", "returned", "failed" or "crashed"
    pending,        \* frames accepted and neither reported nor refused
    delivered,      \* frames the sink took
    reported        \* frames counted in State.Sent.Total

pipeVars == <<phase, pending, delivered, reported>>

Init == phase = "open" /\ pending = 0 /\ delivered = 0 /\ reported = 0

Accept ==
    /\ phase \in {"open", "failed"} /\ pending < Bound
    /\ pending' = pending + 1
    /\ UNCHANGED <<phase, delivered, reported>>

Deliver ==
    /\ phase \in {"open", "closing"}
    /\ pending > 0 /\ delivered = reported
    /\ delivered' = delivered + 1
    /\ UNCHANGED <<phase, pending, reported>>

Refuse ==
    /\ phase \in {"open", "closing"}
    /\ pending > 0 /\ delivered = reported
    /\ pending' = pending - 1
    /\ UNCHANGED <<phase, delivered, reported>>

Report ==
    /\ phase \in {"open", "closing"}
    /\ reported < delivered
    /\ reported' = reported + 1
    /\ pending' = pending - 1
    /\ UNCHANGED <<phase, delivered>>

Close == phase = "open" /\ phase' = "closing"
         /\ UNCHANGED <<pending, delivered, reported>>

Finish == phase = "closing" /\ pending = 0 /\ phase' = "returned"
          /\ UNCHANGED <<pending, delivered, reported>>

\* A producer whose mixers cannot be built gives up before it sent anything.
Fail == phase = "open" /\ delivered = 0 /\ phase' = "failed"
        /\ UNCHANGED <<pending, delivered, reported>>

\* A panic of any goroutine ends the process: a generator's while the pipeline
\* is open, the beacon's on the closed channel.  A failed one has nobody left
\* that could.
Crash == phase \in {"open", "closing", "returned"} /\ phase' = "crashed"
         /\ UNCHANGED <<pending, delivered, reported>>

Next == Accept \/ Deliver \/ Refuse \/ Report \/ Close \/ Finish \/ Fail \/ Crash

Spec == Init /\ [][Next]_pipeVars
=============================================================================
