------------------------------ MODULE Producer ------------------------------
(***************************************************************************)
(* The load-generation pipeline of internal/producer: Producer.Run, its N  *)
(* builders, the beacon, the single sender and the rate publisher.         *)
(*                                                                         *)
(* Go's select picks at random among its ready cases, so each case is a    *)
(* disjunct of its own.  Sending on a closed channel panics, and so may a  *)
(* generator; nothing recovers, and a panic ends the whole process: main   *)
(* becomes "crashed" and nothing moves any more.                           *)
(***************************************************************************)
EXTENDS Integers, Sequences, FiniteSets, Functions

CONSTANTS
    Builders,     \* the builder goroutines (Producer.workers of them)
    Buffers,      \* the frame buffers the program may ever hold
    BuildPatterns,\* what the mixer can pick: never "beacon"
    NoFrame,      \* "no buffer in hand"
    QueueCap,     \* capacity of the send channel (8 * workers in the code)
    MaxSent,      \* bound: after so many deliveries the sink refuses every frame
    Unbounded     \* NewUnbounded's producer: no rate bucket, no publisher

ASSUME ProducerAssumption ==
    /\ IsFiniteSet(Builders) /\ Builders # {}
    /\ "beacon" \notin BuildPatterns
    /\ NoFrame \notin Buffers
    /\ QueueCap \in Nat \ {0}
    /\ MaxSent \in Nat
    /\ Unbounded \in BOOLEAN

VARIABLES
    main,       \* where Producer.Run is
    started,    \* the builders Run has spawned
    bpc,        \* where each builder is
    bitem,      \* the frame a builder holds, with its pattern
    cpc,        \* where the beacon goroutine is
    cframe,     \* the frame the beacon holds
    firstSent,  \* Beacon.firstSent
    spc,        \* where the sender is
    sitem,      \* the item the sender holds
    ppc,        \* where publishRate is
    observed,   \* whether state.ObservedQPS is non-zero
    queue,      \* the send channel's buffer
    closed,     \* the send channel is closed
    ctxDone,    \* Run's ctx is cancelled
    bgDone,     \* bgCtx is cancelled
    running,    \* State.IsRunning
    beaconOn,   \* Mix.Beacon > 0
    pool,       \* how often each buffer sits in frameBufferPool
    sent,       \* State.Sent, per pattern
    total,      \* State.Sent.Total
    delivered   \* history: the frames SendBytes took

mainVars   == <<main, started>>
buildVars  == <<bpc, bitem>>
beaconVars == <<cpc, cframe, firstSent>>
senderVars == <<spc, sitem>>
rateVars   == <<ppc, observed>>
chanVars   == <<queue, closed>>
ctxVars    == <<ctxDone, bgDone>>
knobVars   == <<running, beaconOn>>
countVars  == <<sent, total, delivered>>
vars == <<mainVars, buildVars, beaconVars, senderVars, rateVars, chanVars,
          ctxVars, knobVars, countVars, pool>>

Patterns == BuildPatterns \cup {"beacon"}
Items    == [pattern : Patterns, frame : Buffers]
NoItem   == [pattern |-> "beacon", frame |-> NoFrame]
Slots    == Items \cup {NoItem}

-----------------------------------------------------------------------------
(* The frame buffer pool (frameBufferPool).                                *)

\* The frames some goroutine or the channel still refers to.
Held == {bitem[b].frame : b \in Builders} \cup {cframe, sitem.frame}
        \cup {queue[i].frame : i \in 1 .. Len(queue)}

\* get hands out a pooled buffer, or a fresh one: one nobody refers to.
Get(f) ==
    /\ f \in Buffers
    /\ \/ /\ pool[f] > 0
          /\ pool' = [pool EXCEPT ![f] = @ - 1]
       \/ /\ pool[f] = 0 /\ f \notin Held
          /\ UNCHANGED pool

\* put keeps the buffer, or drops it when it grew beyond maxPooledFrameCap.
Put(f) == \/ pool' = [pool EXCEPT ![f] = @ + 1]
          \/ UNCHANGED pool

-----------------------------------------------------------------------------
(* Mutants: bugs this code could plausibly have, each checked to be caught *)
(* by the property it is paired with.  They are no part of Spec.           *)

\* the channel grows instead of making builders wait
OfferWithoutRoom(b) ==
    /\ bpc[b] = "offer" /\ ~closed /\ Len(queue) <= QueueCap
    /\ queue' = Append(queue, bitem[b])
    /\ bitem' = [bitem EXCEPT ![b] = NoItem]
    /\ bpc' = [bpc EXCEPT ![b] = "wait"]
    /\ UNCHANGED <<mainVars, beaconVars, senderVars, rateVars, closed,
                   ctxVars, knobVars, countVars, pool>>

\* no continue after a failed send: the frame is counted and put again
SendFailsGoesOn ==
    /\ spc = "send"
    /\ Put(sitem.frame)
    /\ spc' = "bump"
    /\ UNCHANGED <<mainVars, buildVars, beaconVars, sitem, rateVars, chanVars,
                   ctxVars, knobVars, countVars>>

\* Run does not wait for the builders
CancelBgEarly ==
    /\ main = "waitBuilders"
    /\ main' = "close"
    /\ bgDone' = TRUE
    /\ UNCHANGED <<started, buildVars, beaconVars, senderVars, rateVars,
                   chanVars, ctxDone, knobVars, countVars, pool>>

\* Run does not close the channel
CloseQueueForgotten ==
    /\ main = "close"
    /\ main' = "waitSender"
    /\ UNCHANGED <<started, buildVars, beaconVars, senderVars, rateVars,
                   chanVars, ctxVars, knobVars, countVars, pool>>

\* Run does not wait for the sender
ReturnEarly ==
    /\ main = "waitSender"
    /\ main' = "returned"
    /\ UNCHANGED <<started, buildVars, beaconVars, senderVars, rateVars,
                   chanVars, ctxVars, knobVars, countVars, pool>>

\* a builder does not look at the Stop button
CheckRunningSkipped(b) ==
    /\ bpc[b] = "gate"
    /\ bpc' = [bpc EXCEPT ![b] = "pick"]
    /\ UNCHANGED <<mainVars, bitem, beaconVars, senderVars, rateVars, chanVars,
                   ctxVars, knobVars, countVars, pool>>

\* a builder does not look at ctx before the next frame
CheckCtxSkipped(b) ==
    /\ bpc[b] = "ctx"
    /\ bpc' = [bpc EXCEPT ![b] = "gate"]
    /\ UNCHANGED <<mainVars, bitem, beaconVars, senderVars, rateVars, chanVars,
                   ctxVars, knobVars, countVars, pool>>

\* publishRate leaves the last rate behind
PublishZeroForgotten ==
    /\ ppc = "run" /\ bgDone
    /\ ppc' = "done"
    /\ UNCHANGED <<mainVars, buildVars, beaconVars, senderVars, observed,
                   chanVars, ctxVars, knobVars, countVars, pool>>

-----------------------------------------------------------------------------
(* Run: spawn, wait, cancelBg, close, wait for the sender.                 *)

Init ==
    /\ main = "spawn"      /\ started = {}
    /\ bpc = [b \in Builders |-> "idle"]
    /\ bitem = [b \in Builders |-> NoItem]
    /\ cpc = "weight"      /\ cframe = NoFrame   /\ firstSent = FALSE
    /\ spc = "off"         /\ sitem = NoItem
    /\ ppc = IF Unbounded THEN "off" ELSE "run"
    /\ observed = FALSE
    /\ queue = << >>       /\ closed = FALSE
    /\ ctxDone = FALSE     /\ bgDone = FALSE
    /\ running \in BOOLEAN /\ beaconOn \in BOOLEAN
    /\ pool = [f \in Buffers |-> 0]
    /\ sent = [p \in Patterns |-> 0]
    /\ total = 0 /\ delivered = 0

Spawn(b) ==
    /\ main = "spawn" /\ b \notin started
    /\ started' = started \cup {b}
    /\ bpc' = [bpc EXCEPT ![b] = "wait"]
    /\ UNCHANGED <<main, bitem, beaconVars, senderVars, rateVars, chanVars,
                   ctxVars, knobVars, countVars, pool>>

\* A mixer that cannot be built ends Run at once; the deferred cancelBg runs.
\* Every mixer is built from the same configuration, which nothing writes
\* while Run spawns: the first one fails or none does.
SpawnFails ==
    /\ main = "spawn" /\ started = {}
    /\ main' = "failed"
    /\ bgDone' = TRUE
    /\ UNCHANGED <<started, buildVars, beaconVars, senderVars, rateVars,
                   chanVars, ctxDone, knobVars, countVars, pool>>

StartSender ==
    /\ main = "spawn" /\ started = Builders
    /\ main' = "waitBuilders"
    /\ spc' = "recv"
    /\ UNCHANGED <<started, buildVars, beaconVars, sitem, rateVars, chanVars,
                   ctxVars, knobVars, countVars, pool>>

CancelBg ==
    /\ main = "waitBuilders"
    /\ \A b \in Builders : bpc[b] = "done"
    /\ main' = "close"
    /\ bgDone' = TRUE
    /\ UNCHANGED <<started, buildVars, beaconVars, senderVars, rateVars,
                   chanVars, ctxDone, knobVars, countVars, pool>>

CloseQueue ==
    /\ main = "close"
    /\ main' = "waitSender"
    /\ closed' = TRUE
    /\ UNCHANGED <<started, buildVars, beaconVars, senderVars, rateVars,
                   queue, ctxVars, knobVars, countVars, pool>>

Return ==
    /\ main = "waitSender" /\ spc = "done"
    /\ main' = "returned"
    /\ UNCHANGED <<started, buildVars, beaconVars, senderVars, rateVars,
                   chanVars, ctxVars, knobVars, countVars, pool>>

MainStep == \/ \E b \in Builders : Spawn(b)
            \/ StartSender \/ CancelBg \/ CloseQueue \/ Return

-----------------------------------------------------------------------------
(* buildLoop.                                                              *)

GoTo(b, l) == bpc' = [bpc EXCEPT ![b] = l]

\* wait, then the ctx check: a tick of the bucket, which does not watch ctx,
\* or (unbounded) the ctx check alone.
Wait(b) ==
    /\ bpc[b] = "wait"
    /\ GoTo(b, IF Unbounded /\ ctxDone THEN "done" ELSE "ctx")
    /\ UNCHANGED <<mainVars, bitem, beaconVars, senderVars, rateVars, chanVars,
                   ctxVars, knobVars, countVars, pool>>

CheckCtx(b) ==
    /\ bpc[b] = "ctx"
    /\ GoTo(b, IF ctxDone THEN "done" ELSE "gate")
    /\ UNCHANGED <<mainVars, bitem, beaconVars, senderVars, rateVars, chanVars,
                   ctxVars, knobVars, countVars, pool>>

CheckRunning(b) ==
    /\ bpc[b] = "gate"
    /\ GoTo(b, IF running THEN "pick" ELSE "wait")
    /\ UNCHANGED <<mainVars, bitem, beaconVars, senderVars, rateVars, chanVars,
                   ctxVars, knobVars, countVars, pool>>

\* Pick returns nil, or the generator's Next fails: no frame this time.
PickNothing(b) ==
    /\ bpc[b] = "pick"
    /\ \/ GoTo(b, "wait")
       \/ ctxDone /\ GoTo(b, "done")
    /\ UNCHANGED <<mainVars, bitem, beaconVars, senderVars, rateVars, chanVars,
                   ctxVars, knobVars, countVars, pool>>

PickAndGet(b) ==
    /\ bpc[b] = "pick"
    /\ \E p \in BuildPatterns, f \in Buffers :
         /\ Get(f)
         /\ bitem' = [bitem EXCEPT ![b] = [pattern |-> p, frame |-> f]]
    /\ GoTo(b, "build")
    /\ UNCHANGED <<mainVars, beaconVars, senderVars, rateVars, chanVars,
                   ctxVars, knobVars, countVars>>

\* Pick panics when its sum of weights has wrapped (Mixer's PickReturns), and
\* Next for a setting it cannot use (Traffic's Panics).
BuilderPanics(b) ==
    /\ bpc[b] = "pick"
    /\ main' = "crashed"
    /\ GoTo(b, "panicked")
    /\ UNCHANGED <<started, bitem, beaconVars, senderVars, rateVars, chanVars,
                   ctxVars, knobVars, countVars, pool>>

BuildOk(b) ==
    /\ bpc[b] = "build"
    /\ GoTo(b, "offer")
    /\ UNCHANGED <<mainVars, bitem, beaconVars, senderVars, rateVars, chanVars,
                   ctxVars, knobVars, countVars, pool>>

BuildFails(b) ==
    /\ bpc[b] = "build"
    /\ Put(bitem[b].frame)
    /\ bitem' = [bitem EXCEPT ![b] = NoItem]
    /\ GoTo(b, "wait")
    /\ UNCHANGED <<mainVars, beaconVars, senderVars, rateVars, chanVars,
                   ctxVars, knobVars, countVars>>

\* The select of buildLoop: the send case ...
Offer(b) ==
    /\ bpc[b] = "offer" /\ ~closed /\ Len(queue) < QueueCap
    /\ queue' = Append(queue, bitem[b])
    /\ bitem' = [bitem EXCEPT ![b] = NoItem]
    /\ GoTo(b, "wait")
    /\ UNCHANGED <<mainVars, beaconVars, senderVars, rateVars, closed,
                   ctxVars, knobVars, countVars, pool>>

\* ... and the ctx.Done case.
OfferCancelled(b) ==
    /\ bpc[b] = "offer" /\ ctxDone
    /\ Put(bitem[b].frame)
    /\ bitem' = [bitem EXCEPT ![b] = NoItem]
    /\ GoTo(b, "done")
    /\ UNCHANGED <<mainVars, beaconVars, senderVars, rateVars, chanVars,
                   ctxVars, knobVars, countVars>>

BuilderStep(b) ==
    \/ Wait(b) \/ CheckCtx(b) \/ CheckRunning(b)
    \/ PickNothing(b) \/ PickAndGet(b) \/ BuilderPanics(b)
    \/ BuildOk(b) \/ BuildFails(b)
    \/ Offer(b) \/ OfferCancelled(b)

-----------------------------------------------------------------------------
(* runBeacon and Beacon.Next.                                              *)

\* With a positive weight the loop goes on to Next; otherwise it sleeps a
\* second and looks again, or sees ctx.Done and returns.
BeaconWeight ==
    /\ cpc = "weight"
    /\ \/ beaconOn /\ cpc' = "next"
       \/ ~beaconOn /\ UNCHANGED cpc
    /\ UNCHANGED <<mainVars, buildVars, cframe, firstSent, senderVars,
                   rateVars, chanVars, ctxVars, knobVars, countVars, pool>>

\* ctx.Done, in the sleep of a silent beacon or in the wait inside Next.
BeaconCancelled ==
    /\ bgDone
    /\ \/ cpc = "weight" /\ ~beaconOn
       \/ cpc = "next" /\ firstSent
    /\ cpc' = "done"
    /\ UNCHANGED <<mainVars, buildVars, cframe, firstSent, senderVars,
                   rateVars, chanVars, ctxVars, knobVars, countVars, pool>>

\* Next returns a query: at once the first time, later after its interval.
BeaconNext ==
    /\ cpc = "next"
    /\ cpc' = "gate"
    /\ firstSent' = TRUE
    /\ UNCHANGED <<mainVars, buildVars, cframe, senderVars, rateVars, chanVars,
                   ctxVars, knobVars, countVars, pool>>

BeaconStopped ==
    /\ cpc = "gate" /\ ~running
    /\ cpc' = "weight"
    /\ UNCHANGED <<mainVars, buildVars, cframe, firstSent, senderVars,
                   rateVars, chanVars, ctxVars, knobVars, countVars, pool>>

BeaconGet ==
    /\ cpc = "gate" /\ running
    /\ \E f \in Buffers : Get(f) /\ cframe' = f
    /\ cpc' = "build"
    /\ UNCHANGED <<mainVars, buildVars, firstSent, senderVars, rateVars,
                   chanVars, ctxVars, knobVars, countVars>>

BeaconBuilt ==
    /\ cpc = "build"
    /\ cpc' = "offer"
    /\ UNCHANGED <<mainVars, buildVars, cframe, firstSent, senderVars,
                   rateVars, chanVars, ctxVars, knobVars, countVars, pool>>

BeaconBuildFails ==
    /\ cpc = "build"
    /\ Put(cframe)
    /\ cframe' = NoFrame
    /\ cpc' = "weight"
    /\ UNCHANGED <<mainVars, buildVars, firstSent, senderVars, rateVars,
                   chanVars, ctxVars, knobVars, countVars>>

\* The select of runBeacon: the send case on an open channel ...
BeaconOffer ==
    /\ cpc = "offer" /\ ~closed /\ Len(queue) < QueueCap
    /\ queue' = Append(queue, [pattern |-> "beacon", frame |-> cframe])
    /\ cframe' = NoFrame
    /\ cpc' = "weight"
    /\ UNCHANGED <<mainVars, buildVars, firstSent, senderVars, rateVars, closed,
                   ctxVars, knobVars, countVars, pool>>

\* ... the same case on a closed one, which panics ...
BeaconPanics ==
    /\ cpc = "offer" /\ closed
    /\ main' = "crashed"
    /\ UNCHANGED <<started, buildVars, beaconVars, senderVars, rateVars,
                   chanVars, ctxVars, knobVars, countVars, pool>>

\* ... and the ctx.Done case.
BeaconOfferCancelled ==
    /\ cpc = "offer" /\ bgDone
    /\ Put(cframe)
    /\ cframe' = NoFrame
    /\ cpc' = "done"
    /\ UNCHANGED <<mainVars, buildVars, firstSent, senderVars, rateVars,
                   chanVars, ctxVars, knobVars, countVars>>

BeaconStep ==
    \/ BeaconWeight \/ BeaconCancelled \/ BeaconNext \/ BeaconStopped
    \/ BeaconGet \/ BeaconBuilt \/ BeaconBuildFails
    \/ BeaconOffer \/ BeaconPanics \/ BeaconOfferCancelled

-----------------------------------------------------------------------------
(* The sender goroutine, with bumpCounter.                                 *)

Receive ==
    /\ spc = "recv" /\ queue # << >>
    /\ sitem' = Head(queue)
    /\ queue' = Tail(queue)
    /\ spc' = "send"
    /\ UNCHANGED <<mainVars, buildVars, beaconVars, rateVars, closed,
                   ctxVars, knobVars, countVars, pool>>

SenderDone ==
    /\ spc = "recv" /\ queue = << >> /\ closed
    /\ spc' = "done"
    /\ UNCHANGED <<mainVars, buildVars, beaconVars, sitem, rateVars, chanVars,
                   ctxVars, knobVars, countVars, pool>>

SendOk ==
    /\ spc = "send" /\ delivered < MaxSent
    /\ delivered' = delivered + 1
    /\ spc' = "bump"
    /\ UNCHANGED <<mainVars, buildVars, beaconVars, sitem, rateVars, chanVars,
                   ctxVars, knobVars, sent, total, pool>>

SendFails ==
    /\ spc = "send"
    /\ Put(sitem.frame)
    /\ sitem' = NoItem
    /\ spc' = "recv"
    /\ UNCHANGED <<mainVars, buildVars, beaconVars, rateVars, chanVars,
                   ctxVars, knobVars, countVars>>

\* bumpCounter adds to the pattern's counter first ...
BumpPattern ==
    /\ spc = "bump"
    /\ sent' = [sent EXCEPT ![sitem.pattern] = @ + 1]
    /\ spc' = "total"
    /\ UNCHANGED <<mainVars, buildVars, beaconVars, sitem, rateVars, chanVars,
                   ctxVars, knobVars, total, delivered, pool>>

\* ... and to the total last.
BumpTotal ==
    /\ spc = "total"
    /\ total' = total + 1
    /\ spc' = "put"
    /\ UNCHANGED <<mainVars, buildVars, beaconVars, sitem, rateVars, chanVars,
                   ctxVars, knobVars, sent, delivered, pool>>

PutSent ==
    /\ spc = "put"
    /\ Put(sitem.frame)
    /\ sitem' = NoItem
    /\ spc' = "recv"
    /\ UNCHANGED <<mainVars, buildVars, beaconVars, rateVars, chanVars,
                   ctxVars, knobVars, countVars>>

SenderStep == Receive \/ SenderDone \/ SendOk \/ SendFails
              \/ BumpPattern \/ BumpTotal \/ PutSent

-----------------------------------------------------------------------------
(* publishRate, and what the rest of the program does to the producer.     *)

\* Every tick publishes the bucket's rate, some value that may be zero.
PublishTick ==
    /\ ppc = "run"
    /\ observed' \in BOOLEAN
    /\ UNCHANGED <<mainVars, buildVars, beaconVars, senderVars, ppc, chanVars,
                   ctxVars, knobVars, countVars, pool>>

PublishZero ==
    /\ ppc = "run" /\ bgDone
    /\ observed' = FALSE
    /\ ppc' = "done"
    /\ UNCHANGED <<mainVars, buildVars, beaconVars, senderVars, chanVars,
                   ctxVars, knobVars, countVars, pool>>

\* The caller cancels ctx; bgCtx is its child and is cancelled with it.
Cancel ==
    /\ ~ctxDone
    /\ ctxDone' = TRUE /\ bgDone' = TRUE
    /\ UNCHANGED <<mainVars, buildVars, beaconVars, senderVars, rateVars,
                   chanVars, knobVars, countVars, pool>>

\* The Start/Stop button, and the beacon's weight slider.
SetRunning ==
    /\ running' = ~running
    /\ UNCHANGED <<mainVars, buildVars, beaconVars, senderVars, rateVars,
                   chanVars, ctxVars, beaconOn, countVars, pool>>

SetBeaconWeight ==
    /\ beaconOn' = ~beaconOn
    /\ UNCHANGED <<mainVars, buildVars, beaconVars, senderVars, rateVars,
                   chanVars, ctxVars, running, countVars, pool>>

EnvStep == Cancel \/ SetRunning \/ SetBeaconWeight

Next ==
    /\ main # "crashed"
    /\ \/ MainStep \/ SpawnFails
       \/ \E b \in Builders : BuilderStep(b)
       \/ BeaconStep \/ SenderStep
       \/ PublishTick \/ PublishZero
       \/ EnvStep

Spec == Init /\ [][Next]_vars

-----------------------------------------------------------------------------
(* Fairness.  The Go scheduler runs every goroutine that can run.  Wait's  *)
(* fairness is the ticker ticking; SenderStep's includes SendBytes         *)
(* returning.  A select whose ctx.Done case is ready again and again takes *)
(* it in the end, since it picks at random: hence SF for the beacon.       *)

Alive(A) == main # "crashed" /\ A

SchedulerFairness ==
    /\ WF_vars(Alive(MainStep))
    /\ \A b \in Builders : WF_vars(Alive(BuilderStep(b)))
    /\ WF_vars(Alive(BeaconStep))
    /\ SF_vars(Alive(BeaconCancelled \/ BeaconOfferCancelled))
    /\ WF_vars(Alive(PublishZero))

FairSpec == Spec /\ SchedulerFairness /\ WF_vars(Alive(SenderStep))

\* The collector is gone: SendBytes keeps retrying and need never return.
SinkStepsAside == Receive \/ SenderDone \/ BumpPattern \/ BumpTotal \/ PutSent
FairSpecDeadSink == Spec /\ SchedulerFairness /\ WF_vars(Alive(SinkStepsAside))

-----------------------------------------------------------------------------
(* Properties.                                                             *)

MainStates   == {"spawn", "waitBuilders", "close", "waitSender",
                 "returned", "failed", "crashed"}
BuilderStates == {"idle", "wait", "ctx", "gate", "pick", "build", "offer", "done",
                  "panicked"}
BeaconStates == {"weight", "next", "gate", "build", "offer", "done"}
SenderStates == {"off", "recv", "send", "bump", "total", "put", "done"}

\* Type correctness of every variable, goroutine by goroutine.
MainTyped    == main \in MainStates /\ started \in SUBSET Builders
BuildersTyped == bpc \in [Builders -> BuilderStates] /\ bitem \in [Builders -> Slots]
BeaconTyped  == cpc \in BeaconStates /\ cframe \in Buffers \cup {NoFrame}
                /\ firstSent \in BOOLEAN
SenderTyped  == spc \in SenderStates /\ sitem \in Slots
RateTyped    == ppc \in {"off", "run", "done"} /\ observed \in BOOLEAN
ChannelTyped == queue \in Seq(Items) /\ Len(queue) <= QueueCap /\ closed \in BOOLEAN
KnobsTyped   == ctxDone \in BOOLEAN /\ bgDone \in BOOLEAN
                /\ running \in BOOLEAN /\ beaconOn \in BOOLEAN
PoolTyped    == pool \in [Buffers -> Nat]
CountsTyped  == sent \in [Patterns -> Nat] /\ total \in Nat /\ delivered \in Nat

TypeOK == /\ MainTyped /\ BuildersTyped /\ BeaconTyped /\ SenderTyped /\ RateTyped
          /\ ChannelTyped /\ KnobsTyped /\ PoolTyped /\ CountsTyped

\* A frame buffer has one owner at a time: two goroutines never hold the same
\* buffer, the channel never holds one twice or one a goroutine still has, and
\* what the pool can hand out is referred to by nobody and is there once.  A
\* put too many, or a put before the last use, would let a builder overwrite
\* a frame that is queued or being written to the socket.
Unshared ==
    /\ \A b, c \in Builders : b # c /\ bitem[b].frame # NoFrame
                                => bitem[b].frame # bitem[c].frame
    /\ \A i, j \in 1 .. Len(queue) : i # j => queue[i].frame # queue[j].frame
    /\ \A b \in Builders : bitem[b].frame # NoFrame =>
         /\ bitem[b].frame # cframe /\ bitem[b].frame # sitem.frame
         /\ \A i \in 1 .. Len(queue) : bitem[b].frame # queue[i].frame
    /\ cframe # NoFrame => cframe # sitem.frame
    /\ \A i \in 1 .. Len(queue) : queue[i].frame \notin {cframe, sitem.frame}

PooledOnce == \A f \in Buffers : pool[f] <= 1 /\ (pool[f] = 1 => f \notin Held)

BufferOwnership == Unshared /\ PooledOnce

\* The channel is closed only when no builder is left that could send on it,
\* and Run gets there only after every builder was spawned.
CloseAfterBuilders ==
    closed => started = Builders /\ \A b \in Builders : bpc[b] = "done"

\* The comment on the sender in Run: the channel "closes when builders are done
\* AND beacon is done".  The beacon is not in the wait group.
CloseAfterBeacon == closed => cpc = "done"

\* The comment on runBeacon: "when zero, the beacon is silent".  The weight is
\* read before Next waits out the beacon's interval and not after it.
BeaconSilent == [][BeaconNext /\ firstSent => beaconOn]_vars

\* Frames past the IsRunning check and not yet through the sender.
InFlight == Cardinality({b \in Builders : bpc[b] \in {"pick", "build", "offer"}})
            + (IF cpc \in {"build", "offer"} THEN 1 ELSE 0)
            + Len(queue)
            + (IF spc \in {"send", "bump", "total", "put"} THEN 1 ELSE 0)

\* Stop takes effect although nobody waits for it: while the Stop button is in
\* force the number of frames on their way to the sink never grows, so at most
\* the frames in flight at the click are still sent.
StopDrains == [][~running /\ ~running' => InFlight' <= InFlight]_vars

\* Frames a builder or the beacon has begun, and those on to the sender.
ToCome == Cardinality({b \in Builders : bpc[b] \in {"gate", "pick", "build", "offer"}})
          + (IF cpc \in {"next", "gate", "build", "offer"} THEN 1 ELSE 0)
          + Len(queue)
          + (IF spc \in {"send", "bump", "total", "put"} THEN 1 ELSE 0)

\* A cancel takes effect although run and serve do not wait for the producer:
\* from then on no builder begins another frame, so that at most what was begun
\* still reaches the sink while EDM is being stopped.  Only the beacon may begin
\* one more when it finds a weight, since its loop looks at ctx in waits alone.
CancelDrains == [][ctxDone /\ ~BeaconWeight => ToCome' <= ToCome]_vars

\* Run answers a cancel: it returns, unless the process crashed or Run had
\* given up.  It needs ticks and a sink that answers.
RunReturns == ctxDone ~> main \in {"returned", "failed", "crashed"}

\* The goroutines Run does not wait for come to an end as well, and the
\* published rate is zero for good: no stale rate stays on the screen.
BackgroundEnds == bgDone ~> main = "crashed" \/ (cpc = "done" /\ []~observed)

-----------------------------------------------------------------------------
(* The producer implements the pipeline.                                   *)

Pending == Len(queue) + (IF spc \in {"send", "bump", "total"} THEN 1 ELSE 0)

Phase == IF main \in {"spawn", "waitBuilders", "close"} THEN "open"
         ELSE IF main = "waitSender" THEN "closing" ELSE main

Pipe == INSTANCE Pipeline WITH
    Bound <- QueueCap + 1, phase <- Phase, pending <- Pending, reported <- total

\* Every behaviour of the goroutines, their panics among them, is one of the
\* pipeline: nothing enters it after the close, frames are reported only after
\* the sink took them, and Run returns only when it is empty.
ImplementsPipeline == Pipe!Spec
=============================================================================
