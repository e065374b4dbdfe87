--------------------------- MODULE ProducerProofs ---------------------------
(***************************************************************************)
(* Theorems about Producer, for any set of builders, any buffers, any      *)
(* channel capacity and both kinds of producer.  IInv is the inductive     *)
(* invariant; one lemma per conjunct shows that every step keeps it, with  *)
(* a leaf for each action that can disturb that conjunct.                  *)
(***************************************************************************)
EXTENDS Producer, FiniteSetTheorems, TLAPS

\* Who holds a frame is a matter of where it is in its loop.
BuildersHold == \A b \in Builders :
                   bitem[b] = NoItem <=> bpc[b] \notin {"build", "offer"}
BeaconHolds  == cframe = NoFrame <=> cpc \notin {"build", "offer"}
SenderHolds  == sitem = NoItem <=> spc \notin {"send", "bump", "total", "put"}

BuildersOK == BuildersTyped /\ BuildersHold
BeaconOK   == BeaconTyped /\ BeaconHolds
SenderOK   == SenderTyped /\ SenderHolds
ChannelOK  == queue \in Seq(Items) /\ Len(queue) <= QueueCap /\ closed \in BOOLEAN
RestTyped  == MainTyped /\ RateTyped /\ KnobsTyped

\* How far Run is decides what the builders, the sender and the channel do.
Spawning  == /\ \A b \in Builders : bpc[b] = "idle" <=> b \notin started
             /\ main \notin {"spawn", "failed", "crashed"} => started = Builders
             /\ main = "failed" => started = {}
             /\ \A b \in Builders : bpc[b] = "panicked" => main = "crashed"
Closing   == /\ closed => main \in {"waitSender", "returned", "crashed"}
             /\ main \in {"waitSender", "returned"} => closed
             /\ closed \/ main = "close" =>
                  started = Builders /\ \A b \in Builders : bpc[b] = "done"
Sending   == /\ spc = "off" => main \in {"spawn", "failed", "crashed"}
             /\ main \in {"spawn", "failed"} => spc = "off"
             /\ spc = "done" => closed /\ queue = << >>
             /\ main = "returned" => spc = "done"

\* The sender counts a frame two steps after the sink took it.
Counting == /\ delivered = total + (IF spc \in {"bump", "total"} THEN 1 ELSE 0)
            /\ spc = "off" => delivered = 0
CountsOK == CountsTyped /\ Counting

IInv == /\ RestTyped /\ BuildersOK /\ BeaconOK /\ SenderOK /\ ChannelOK
        /\ PoolTyped /\ CountsOK /\ MainTyped
        /\ Spawning /\ Closing /\ Sending

-----------------------------------------------------------------------------
\* get and put keep the pool a count of every buffer.
LEMMA PoolSteps ==
    ASSUME pool \in [Buffers -> Nat], NEW f \in Buffers, Get(f) \/ Put(f)
    PROVE  pool' \in [Buffers -> Nat]
BY DEF Get, Put

\* A frame is a buffer, an item is not NoItem.
LEMMA ItemsHaveFrames ==
    /\ NoItem \in Slots /\ NoItem \notin Items /\ Items \subseteq Slots
    /\ \A x \in Slots : x # NoItem <=> x \in Items
    /\ \A x \in Items : x.frame \in Buffers /\ x.pattern \in Patterns
                       /\ x.frame # NoFrame
BY ProducerAssumption DEF NoItem, Items, Slots, Patterns

-----------------------------------------------------------------------------
\* The program starts with nothing in hand, in the channel or counted.
LEMMA InitInvariant == Init => IInv
<1> SUFFICES ASSUME Init PROVE IInv
  OBVIOUS
<1>1. RestTyped /\ MainTyped
  BY DEF Init, RestTyped, MainTyped, MainStates, RateTyped, KnobsTyped
<1>2. BuildersOK
  BY ItemsHaveFrames DEF Init, BuildersOK, BuildersTyped, BuildersHold, BuilderStates
<1>3. BeaconOK
  BY DEF Init, BeaconOK, BeaconTyped, BeaconHolds, BeaconStates
<1>4. SenderOK
  BY ItemsHaveFrames DEF Init, SenderOK, SenderTyped, SenderHolds, SenderStates
<1>5. ChannelOK
  <2>1. queue \in Seq(Items) /\ Len(queue) <= QueueCap
    BY ProducerAssumption DEF Init
  <2>2. closed \in BOOLEAN
    BY DEF Init
  <2> QED
    BY <2>1, <2>2 DEF ChannelOK
<1>6. PoolTyped /\ CountsOK
  BY DEF Init, PoolTyped, CountsOK, CountsTyped, Counting
<1>7. Spawning /\ Closing /\ Sending
  BY DEF Init, Spawning, Closing, Sending
<1> QED
  BY <1>1, <1>2, <1>3, <1>4, <1>5, <1>6, <1>7 DEF IInv

\* A builder holds an item exactly while it builds and offers it.
LEMMA BuildersKept == IInv /\ [Next]_vars => BuildersOK'
<1> SUFFICES ASSUME BuildersOK, Spawning, [Next]_vars PROVE BuildersOK'
  BY DEF IInv
<1> USE DEF mainVars, buildVars, beaconVars, senderVars,
            rateVars, chanVars, ctxVars, knobVars, countVars
<1> USE DEF BuildersOK, BuildersTyped, BuildersHold, BuilderStates, Spawning
<1>1. CASE StartSender \/ CancelBg \/ CloseQueue \/ Return \/ SpawnFails
  BY <1>1 DEF StartSender, CancelBg, CloseQueue, Return, SpawnFails
<1>2. CASE BeaconWeight \/ BeaconCancelled \/ BeaconNext \/ BeaconStopped \/
               BeaconGet \/ BeaconBuilt \/ BeaconBuildFails \/ BeaconOffer \/
               BeaconPanics \/ BeaconOfferCancelled
  BY <1>2 DEF BeaconWeight, BeaconCancelled, BeaconNext, BeaconStopped, BeaconGet,
      BeaconBuilt, BeaconBuildFails, BeaconOffer, BeaconPanics,
      BeaconOfferCancelled
<1>3. CASE Receive \/ SenderDone \/ SendOk \/ SendFails \/ BumpPattern \/
               BumpTotal \/ PutSent
  BY <1>3 DEF Receive, SenderDone, SendOk, SendFails, BumpPattern, BumpTotal,
      PutSent
<1>4. CASE PublishTick \/ PublishZero \/ Cancel \/ SetRunning \/
               SetBeaconWeight
  BY <1>4 DEF PublishTick, PublishZero, Cancel, SetRunning, SetBeaconWeight
<1>5. ASSUME NEW b \in Builders, Spawn(b) PROVE BuildersOK'
  BY <1>5, ItemsHaveFrames DEF Spawn, GoTo
<1>6. ASSUME NEW b \in Builders, Wait(b) PROVE BuildersOK'
  BY <1>6, ItemsHaveFrames DEF Wait, GoTo
<1>7. ASSUME NEW b \in Builders, CheckCtx(b) PROVE BuildersOK'
  BY <1>7, ItemsHaveFrames DEF CheckCtx, GoTo
<1>8. ASSUME NEW b \in Builders, CheckRunning(b) PROVE BuildersOK'
  BY <1>8, ItemsHaveFrames DEF CheckRunning, GoTo
<1>9. ASSUME NEW b \in Builders, PickNothing(b) \/ BuilderPanics(b) PROVE BuildersOK'
  BY <1>9, ItemsHaveFrames DEF PickNothing, BuilderPanics, GoTo
<1>10. ASSUME NEW b \in Builders, PickAndGet(b) PROVE BuildersOK'
  <2>1. PICK p \in BuildPatterns, f \in Buffers :
           bitem' = [bitem EXCEPT ![b] = [pattern |-> p, frame |-> f]]
    BY <1>10 DEF PickAndGet
  <2>2. [pattern |-> p, frame |-> f] \in Items
    BY DEF Items, Patterns
  <2> QED
    BY <1>10, <2>1, <2>2, ItemsHaveFrames DEF PickAndGet, GoTo
<1>11. ASSUME NEW b \in Builders, BuildOk(b) PROVE BuildersOK'
  BY <1>11, ItemsHaveFrames DEF BuildOk, GoTo
<1>12. ASSUME NEW b \in Builders, BuildFails(b) PROVE BuildersOK'
  BY <1>12, ItemsHaveFrames DEF BuildFails, GoTo
<1>13. ASSUME NEW b \in Builders, Offer(b) PROVE BuildersOK'
  BY <1>13, ItemsHaveFrames DEF Offer, GoTo
<1>14. ASSUME NEW b \in Builders, OfferCancelled(b) PROVE BuildersOK'
  BY <1>14, ItemsHaveFrames DEF OfferCancelled, GoTo
<1>15. CASE UNCHANGED vars
  BY <1>15 DEF vars
<1> QED
  BY <1>1, <1>2, <1>3, <1>4, <1>5, <1>6, <1>7, <1>8, <1>9, <1>10, <1>11, <1>12,
      <1>13, <1>14, <1>15
     DEF Next, MainStep, BuilderStep, BeaconStep, SenderStep, EnvStep

\* The beacon holds a buffer exactly while it builds and offers it.
LEMMA BeaconKept == IInv /\ [Next]_vars => BeaconOK'
<1> SUFFICES ASSUME BeaconOK, [Next]_vars PROVE BeaconOK'
  BY DEF IInv
<1> USE DEF mainVars, buildVars, beaconVars, senderVars,
            rateVars, chanVars, ctxVars, knobVars, countVars
<1> USE DEF BeaconOK, BeaconTyped, BeaconHolds, BeaconStates
<1>1. CASE StartSender \/ CancelBg \/ CloseQueue \/ Return \/ SpawnFails
  BY <1>1 DEF StartSender, CancelBg, CloseQueue, Return, SpawnFails
<1>2. CASE BeaconWeight
  BY <1>2, ProducerAssumption DEF BeaconWeight
<1>3. CASE BeaconCancelled
  BY <1>3, ProducerAssumption DEF BeaconCancelled
<1>4. CASE BeaconNext
  BY <1>4, ProducerAssumption DEF BeaconNext
<1>5. CASE BeaconStopped
  BY <1>5, ProducerAssumption DEF BeaconStopped
<1>6. CASE BeaconGet
  BY <1>6, ProducerAssumption DEF BeaconGet
<1>7. CASE BeaconBuilt
  BY <1>7, ProducerAssumption DEF BeaconBuilt
<1>8. CASE BeaconBuildFails
  BY <1>8, ProducerAssumption DEF BeaconBuildFails
<1>9. CASE BeaconOffer
  BY <1>9, ProducerAssumption DEF BeaconOffer
<1>10. CASE BeaconPanics
  BY <1>10, ProducerAssumption DEF BeaconPanics
<1>11. CASE BeaconOfferCancelled
  BY <1>11, ProducerAssumption DEF BeaconOfferCancelled
<1>12. CASE Receive \/ SenderDone \/ SendOk \/ SendFails \/ BumpPattern \/
               BumpTotal \/ PutSent
  BY <1>12 DEF Receive, SenderDone, SendOk, SendFails, BumpPattern, BumpTotal,
      PutSent
<1>13. CASE PublishTick \/ PublishZero \/ Cancel \/ SetRunning \/
               SetBeaconWeight
  BY <1>13 DEF PublishTick, PublishZero, Cancel, SetRunning, SetBeaconWeight
<1>14. ASSUME NEW b \in Builders,
             Spawn(b) \/ Wait(b) \/ CheckCtx(b) \/ CheckRunning(b) \/
                 PickNothing(b) \/ BuilderPanics(b) \/ PickAndGet(b) \/ BuildOk(b) \/ BuildFails(b)
                 \/ Offer(b) \/ OfferCancelled(b)
      PROVE  BeaconOK'
  BY <1>14 DEF GoTo, Spawn, Wait, CheckCtx, CheckRunning, PickNothing, BuilderPanics, PickAndGet,
      BuildOk, BuildFails, Offer, OfferCancelled
<1>15. CASE UNCHANGED vars
  BY <1>15 DEF vars
<1> QED
  BY <1>1, <1>2, <1>3, <1>4, <1>5, <1>6, <1>7, <1>8, <1>9, <1>10, <1>11, <1>12,
      <1>13, <1>14, <1>15
     DEF Next, MainStep, BuilderStep, BeaconStep, SenderStep, EnvStep

\* The sender holds an item from Receive until it put the buffer back.
LEMMA SenderKept == IInv /\ [Next]_vars => SenderOK'
<1> SUFFICES ASSUME SenderOK, ChannelOK, Sending, [Next]_vars PROVE SenderOK'
  BY DEF IInv
<1> USE DEF mainVars, buildVars, beaconVars, senderVars,
            rateVars, chanVars, ctxVars, knobVars, countVars
<1> USE DEF SenderOK, SenderTyped, SenderHolds, SenderStates, ChannelOK,
    Sending
<1>1. CASE StartSender
  BY <1>1, ItemsHaveFrames DEF StartSender
<1>2. CASE CancelBg \/ CloseQueue \/ Return \/ SpawnFails
  BY <1>2 DEF CancelBg, CloseQueue, Return, SpawnFails
<1>3. CASE BeaconWeight \/ BeaconCancelled \/ BeaconNext \/ BeaconStopped \/
               BeaconGet \/ BeaconBuilt \/ BeaconBuildFails \/ BeaconOffer \/
               BeaconPanics \/ BeaconOfferCancelled
  BY <1>3 DEF BeaconWeight, BeaconCancelled, BeaconNext, BeaconStopped, BeaconGet,
      BeaconBuilt, BeaconBuildFails, BeaconOffer, BeaconPanics,
      BeaconOfferCancelled
<1>4. CASE Receive
  BY <1>4, ItemsHaveFrames DEF Receive
<1>5. CASE SenderDone
  BY <1>5, ItemsHaveFrames DEF SenderDone
<1>6. CASE SendOk
  BY <1>6, ItemsHaveFrames DEF SendOk
<1>7. CASE SendFails
  BY <1>7, ItemsHaveFrames DEF SendFails
<1>8. CASE BumpPattern
  BY <1>8, ItemsHaveFrames DEF BumpPattern
<1>9. CASE BumpTotal
  BY <1>9, ItemsHaveFrames DEF BumpTotal
<1>10. CASE PutSent
  BY <1>10, ItemsHaveFrames DEF PutSent
<1>11. CASE PublishTick \/ PublishZero \/ Cancel \/ SetRunning \/
               SetBeaconWeight
  BY <1>11 DEF PublishTick, PublishZero, Cancel, SetRunning, SetBeaconWeight
<1>12. ASSUME NEW b \in Builders,
             Spawn(b) \/ Wait(b) \/ CheckCtx(b) \/ CheckRunning(b) \/
                 PickNothing(b) \/ BuilderPanics(b) \/ PickAndGet(b) \/ BuildOk(b) \/ BuildFails(b)
                 \/ Offer(b) \/ OfferCancelled(b)
      PROVE  SenderOK'
  BY <1>12 DEF GoTo, Spawn, Wait, CheckCtx, CheckRunning, PickNothing, BuilderPanics, PickAndGet,
      BuildOk, BuildFails, Offer, OfferCancelled
<1>13. CASE UNCHANGED vars
  BY <1>13 DEF vars
<1> QED
  BY <1>1, <1>2, <1>3, <1>4, <1>5, <1>6, <1>7, <1>8, <1>9, <1>10, <1>11, <1>12,
      <1>13
     DEF Next, MainStep, BuilderStep, BeaconStep, SenderStep, EnvStep

\* The channel holds items and never more than its capacity.
LEMMA ChannelKept == IInv /\ [Next]_vars => ChannelOK'
<1> SUFFICES ASSUME ChannelOK, BuildersOK, BeaconOK, [Next]_vars PROVE ChannelOK'
  BY DEF IInv
<1> USE DEF mainVars, buildVars, beaconVars, senderVars,
            rateVars, chanVars, ctxVars, knobVars, countVars
<1> USE DEF ChannelOK
<1>1. CASE StartSender \/ CancelBg \/ CloseQueue \/ Return \/ SpawnFails
  BY <1>1 DEF StartSender, CancelBg, CloseQueue, Return, SpawnFails
<1>2. CASE BeaconOffer
  <2>1. [pattern |-> "beacon", frame |-> cframe] \in Items
    BY <1>2 DEF BeaconOffer, BeaconOK, BeaconTyped, BeaconHolds, Items, Patterns
  <2> QED
    BY <1>2, <2>1, ProducerAssumption DEF BeaconOffer
<1>3. CASE BeaconWeight \/ BeaconCancelled \/ BeaconNext \/ BeaconStopped \/
               BeaconGet \/ BeaconBuilt \/ BeaconBuildFails \/ BeaconPanics \/
               BeaconOfferCancelled
  BY <1>3 DEF BeaconWeight, BeaconCancelled, BeaconNext, BeaconStopped, BeaconGet,
      BeaconBuilt, BeaconBuildFails, BeaconPanics, BeaconOfferCancelled
<1>4. CASE Receive
  <2>1. Tail(queue) \in Seq(Items) /\ Len(Tail(queue)) = Len(queue) - 1
    BY <1>4 DEF Receive
  <2> QED
    BY <1>4, <2>1, ProducerAssumption DEF Receive
<1>5. CASE SenderDone \/ SendOk \/ SendFails \/ BumpPattern \/ BumpTotal \/
               PutSent
  BY <1>5 DEF SenderDone, SendOk, SendFails, BumpPattern, BumpTotal, PutSent
<1>6. CASE PublishTick \/ PublishZero \/ Cancel \/ SetRunning \/
               SetBeaconWeight
  BY <1>6 DEF PublishTick, PublishZero, Cancel, SetRunning, SetBeaconWeight
<1>7. ASSUME NEW b \in Builders, Offer(b) PROVE ChannelOK'
  <2>1. bitem[b] \in Items
    BY <1>7, ItemsHaveFrames DEF Offer, BuildersOK, BuildersTyped, BuildersHold
  <2> QED
    BY <1>7, <2>1, ProducerAssumption DEF Offer
<1>8. ASSUME NEW b \in Builders,
             Spawn(b) \/ Wait(b) \/ CheckCtx(b) \/ CheckRunning(b) \/
                 PickNothing(b) \/ BuilderPanics(b) \/ PickAndGet(b) \/ BuildOk(b) \/ BuildFails(b)
                 \/ OfferCancelled(b)
      PROVE  ChannelOK'
  BY <1>8 DEF GoTo, Spawn, Wait, CheckCtx, CheckRunning, PickNothing, BuilderPanics, PickAndGet,
      BuildOk, BuildFails, OfferCancelled
<1>9. CASE UNCHANGED vars
  BY <1>9 DEF vars
<1> QED
  BY <1>1, <1>2, <1>3, <1>4, <1>5, <1>6, <1>7, <1>8, <1>9
     DEF Next, MainStep, BuilderStep, BeaconStep, SenderStep, EnvStep

\* The pool counts buffers.
LEMMA PoolKept == IInv /\ [Next]_vars => PoolTyped'
<1> SUFFICES ASSUME PoolTyped, BuildersOK, BeaconOK, SenderOK, [Next]_vars PROVE PoolTyped'
  BY DEF IInv
<1> USE DEF mainVars, buildVars, beaconVars, senderVars,
            rateVars, chanVars, ctxVars, knobVars, countVars
<1> USE DEF PoolTyped
<1>1. CASE StartSender \/ CancelBg \/ CloseQueue \/ Return \/ SpawnFails
  BY <1>1 DEF StartSender, CancelBg, CloseQueue, Return, SpawnFails
<1>2. CASE BeaconGet
  BY <1>2, PoolSteps DEF BeaconGet, BeaconOK, BeaconTyped, BeaconHolds
<1>3. CASE BeaconBuildFails
  BY <1>3, PoolSteps DEF BeaconBuildFails, BeaconOK, BeaconTyped, BeaconHolds
<1>4. CASE BeaconOfferCancelled
  BY <1>4, PoolSteps DEF BeaconOfferCancelled, BeaconOK, BeaconTyped, BeaconHolds
<1>5. CASE BeaconWeight \/ BeaconCancelled \/ BeaconNext \/ BeaconStopped \/
               BeaconBuilt \/ BeaconOffer \/ BeaconPanics
  BY <1>5 DEF BeaconWeight, BeaconCancelled, BeaconNext, BeaconStopped,
      BeaconBuilt, BeaconOffer, BeaconPanics
<1>6. CASE SendFails
  BY <1>6, PoolSteps, ItemsHaveFrames DEF SendFails, SenderOK, SenderTyped, SenderHolds
<1>7. CASE PutSent
  BY <1>7, PoolSteps, ItemsHaveFrames DEF PutSent, SenderOK, SenderTyped, SenderHolds
<1>8. CASE Receive \/ SenderDone \/ SendOk \/ BumpPattern \/ BumpTotal
  BY <1>8 DEF Receive, SenderDone, SendOk, BumpPattern, BumpTotal
<1>9. CASE PublishTick \/ PublishZero \/ Cancel \/ SetRunning \/
               SetBeaconWeight
  BY <1>9 DEF PublishTick, PublishZero, Cancel, SetRunning, SetBeaconWeight
<1>10. ASSUME NEW b \in Builders, PickAndGet(b) PROVE PoolTyped'
  BY <1>10, PoolSteps, ItemsHaveFrames
     DEF PickAndGet, BuildersOK, BuildersTyped, BuildersHold
<1>11. ASSUME NEW b \in Builders, BuildFails(b) PROVE PoolTyped'
  BY <1>11, PoolSteps, ItemsHaveFrames
     DEF BuildFails, BuildersOK, BuildersTyped, BuildersHold
<1>12. ASSUME NEW b \in Builders, OfferCancelled(b) PROVE PoolTyped'
  BY <1>12, PoolSteps, ItemsHaveFrames
     DEF OfferCancelled, BuildersOK, BuildersTyped, BuildersHold
<1>13. ASSUME NEW b \in Builders,
             Spawn(b) \/ Wait(b) \/ CheckCtx(b) \/ CheckRunning(b) \/
                 PickNothing(b) \/ BuilderPanics(b) \/ BuildOk(b) \/ Offer(b)
      PROVE  PoolTyped'
  BY <1>13 DEF GoTo, Spawn, Wait, CheckCtx, CheckRunning, PickNothing, BuilderPanics, BuildOk,
      Offer
<1>14. CASE UNCHANGED vars
  BY <1>14 DEF vars
<1> QED
  BY <1>1, <1>2, <1>3, <1>4, <1>5, <1>6, <1>7, <1>8, <1>9, <1>10, <1>11, <1>12,
      <1>13, <1>14
     DEF Next, MainStep, BuilderStep, BeaconStep, SenderStep, EnvStep

\* The counters are numbers, and the total trails what the sink took.
LEMMA CountsKept == IInv /\ [Next]_vars => CountsOK'
<1> SUFFICES ASSUME CountsOK, SenderOK, Sending, [Next]_vars PROVE CountsOK'
  BY DEF IInv
<1> USE DEF mainVars, buildVars, beaconVars, senderVars,
            rateVars, chanVars, ctxVars, knobVars, countVars
<1> USE DEF Sending, CountsOK, CountsTyped, Counting, SenderOK, SenderTyped,
    SenderHolds
<1>1. CASE StartSender
  BY <1>1, ItemsHaveFrames DEF StartSender
<1>2. CASE CancelBg \/ CloseQueue \/ Return \/ SpawnFails
  BY <1>2 DEF CancelBg, CloseQueue, Return, SpawnFails
<1>3. CASE BeaconWeight \/ BeaconCancelled \/ BeaconNext \/ BeaconStopped \/
               BeaconGet \/ BeaconBuilt \/ BeaconBuildFails \/ BeaconOffer \/
               BeaconPanics \/ BeaconOfferCancelled
  BY <1>3 DEF BeaconWeight, BeaconCancelled, BeaconNext, BeaconStopped, BeaconGet,
      BeaconBuilt, BeaconBuildFails, BeaconOffer, BeaconPanics,
      BeaconOfferCancelled
<1>4. CASE Receive
  BY <1>4, ItemsHaveFrames DEF Receive
<1>5. CASE SenderDone
  BY <1>5, ItemsHaveFrames DEF SenderDone
<1>6. CASE SendOk
  BY <1>6, ItemsHaveFrames DEF SendOk
<1>7. CASE SendFails
  BY <1>7, ItemsHaveFrames DEF SendFails
<1>8. CASE BumpPattern
  BY <1>8, ItemsHaveFrames DEF BumpPattern
<1>9. CASE BumpTotal
  BY <1>9, ItemsHaveFrames DEF BumpTotal
<1>10. CASE PutSent
  BY <1>10, ItemsHaveFrames DEF PutSent
<1>11. CASE PublishTick \/ PublishZero \/ Cancel \/ SetRunning \/
               SetBeaconWeight
  BY <1>11 DEF PublishTick, PublishZero, Cancel, SetRunning, SetBeaconWeight
<1>12. ASSUME NEW b \in Builders,
             Spawn(b) \/ Wait(b) \/ CheckCtx(b) \/ CheckRunning(b) \/
                 PickNothing(b) \/ BuilderPanics(b) \/ PickAndGet(b) \/ BuildOk(b) \/ BuildFails(b)
                 \/ Offer(b) \/ OfferCancelled(b)
      PROVE  CountsOK'
  BY <1>12 DEF GoTo, Spawn, Wait, CheckCtx, CheckRunning, PickNothing, BuilderPanics, PickAndGet,
      BuildOk, BuildFails, Offer, OfferCancelled
<1>13. CASE UNCHANGED vars
  BY <1>13 DEF vars
<1> QED
  BY <1>1, <1>2, <1>3, <1>4, <1>5, <1>6, <1>7, <1>8, <1>9, <1>10, <1>11, <1>12,
      <1>13
     DEF Next, MainStep, BuilderStep, BeaconStep, SenderStep, EnvStep

\* Builders run once they are spawned, and all are before Run goes on.
LEMMA SpawningKept == IInv /\ [Next]_vars => Spawning'
<1> SUFFICES ASSUME MainTyped, BuildersOK, Spawning, Closing, Sending, [Next]_vars PROVE Spawning'
  BY DEF IInv
<1> USE DEF mainVars, buildVars, beaconVars, senderVars,
            rateVars, chanVars, ctxVars, knobVars, countVars
<1> USE DEF MainTyped, MainStates, BuildersOK, BuildersTyped, Spawning, Closing
<1>1. CASE StartSender
  BY <1>1 DEF StartSender
<1>2. CASE CancelBg
  BY <1>2 DEF CancelBg
<1>3. CASE CloseQueue
  BY <1>3 DEF CloseQueue
<1>4. CASE Return
  BY <1>4 DEF Return
<1>5. CASE SpawnFails
  BY <1>5 DEF SpawnFails
<1>6. CASE BeaconWeight \/ BeaconCancelled \/ BeaconNext \/ BeaconStopped \/
               BeaconGet \/ BeaconBuilt \/ BeaconBuildFails \/ BeaconOffer \/
               BeaconPanics \/ BeaconOfferCancelled
  BY <1>6 DEF BeaconWeight, BeaconCancelled, BeaconNext, BeaconStopped, BeaconGet,
      BeaconBuilt, BeaconBuildFails, BeaconOffer, BeaconPanics,
      BeaconOfferCancelled
<1>7. CASE Receive \/ SenderDone \/ SendOk \/ SendFails \/ BumpPattern \/
               BumpTotal \/ PutSent
  BY <1>7 DEF Receive, SenderDone, SendOk, SendFails, BumpPattern, BumpTotal,
      PutSent
<1>8. CASE PublishTick \/ PublishZero \/ Cancel \/ SetRunning \/
               SetBeaconWeight
  BY <1>8 DEF PublishTick, PublishZero, Cancel, SetRunning, SetBeaconWeight
<1>9. ASSUME NEW b \in Builders, Spawn(b) PROVE Spawning'
  BY <1>9 DEF Spawn, GoTo
<1>10. ASSUME NEW b \in Builders,
             Wait(b) \/ CheckCtx(b) \/ CheckRunning(b) \/ PickNothing(b) \/ BuilderPanics(b) \/
                 PickAndGet(b) \/ BuildOk(b) \/ BuildFails(b) \/ Offer(b) \/
                 OfferCancelled(b)
      PROVE  Spawning'
  BY <1>10 DEF GoTo, Wait, CheckCtx, CheckRunning, PickNothing, BuilderPanics, PickAndGet,
      BuildOk, BuildFails, Offer, OfferCancelled
<1>11. CASE UNCHANGED vars
  BY <1>11 DEF vars
<1> QED
  BY <1>1, <1>2, <1>3, <1>4, <1>5, <1>6, <1>7, <1>8, <1>9, <1>10, <1>11
     DEF Next, MainStep, BuilderStep, BeaconStep, SenderStep, EnvStep

\* Run closes the channel once every builder is done.
LEMMA ClosingKept == IInv /\ [Next]_vars => Closing'
<1> SUFFICES ASSUME MainTyped, BuildersOK, Spawning, Closing, Sending, [Next]_vars PROVE Closing'
  BY DEF IInv
<1> USE DEF mainVars, buildVars, beaconVars, senderVars,
            rateVars, chanVars, ctxVars, knobVars, countVars
<1> USE DEF BuildersOK, BuildersTyped, Spawning, Closing
<1>1. CASE CancelBg
  BY <1>1 DEF CancelBg
<1>2. CASE CloseQueue
  BY <1>2 DEF CloseQueue
<1>3. CASE StartSender \/ Return \/ SpawnFails
  BY <1>3 DEF StartSender, Return, SpawnFails
<1>4. CASE BeaconPanics
  BY <1>4 DEF BeaconPanics
<1>5. CASE BeaconWeight \/ BeaconCancelled \/ BeaconNext \/ BeaconStopped \/
               BeaconGet \/ BeaconBuilt \/ BeaconBuildFails \/ BeaconOffer \/
               BeaconOfferCancelled
  BY <1>5 DEF BeaconWeight, BeaconCancelled, BeaconNext, BeaconStopped, BeaconGet,
      BeaconBuilt, BeaconBuildFails, BeaconOffer, BeaconOfferCancelled
<1>6. CASE Receive \/ SenderDone \/ SendOk \/ SendFails \/ BumpPattern \/
               BumpTotal \/ PutSent
  BY <1>6 DEF Receive, SenderDone, SendOk, SendFails, BumpPattern, BumpTotal,
      PutSent
<1>7. CASE PublishTick \/ PublishZero \/ Cancel \/ SetRunning \/
               SetBeaconWeight
  BY <1>7 DEF PublishTick, PublishZero, Cancel, SetRunning, SetBeaconWeight
<1>8. ASSUME NEW b \in Builders, Spawn(b) PROVE Closing'
  BY <1>8 DEF Spawn, GoTo
<1>9. ASSUME NEW b \in Builders,
             Wait(b) \/ CheckCtx(b) \/ CheckRunning(b) \/ PickNothing(b) \/ BuilderPanics(b) \/
                 PickAndGet(b) \/ BuildOk(b) \/ BuildFails(b) \/ Offer(b) \/
                 OfferCancelled(b)
      PROVE  Closing'
  BY <1>9 DEF GoTo, Wait, CheckCtx, CheckRunning, PickNothing, BuilderPanics, PickAndGet,
      BuildOk, BuildFails, Offer, OfferCancelled
<1>10. CASE UNCHANGED vars
  BY <1>10 DEF vars
<1> QED
  BY <1>1, <1>2, <1>3, <1>4, <1>5, <1>6, <1>7, <1>8, <1>9, <1>10
     DEF Next, MainStep, BuilderStep, BeaconStep, SenderStep, EnvStep

\* The sender runs from the last spawn until the closed channel is empty.
LEMMA SendingKept == IInv /\ [Next]_vars => Sending'
<1> SUFFICES ASSUME MainTyped, ChannelOK, Closing, Sending, SenderOK, BuildersOK, [Next]_vars PROVE Sending'
  BY DEF IInv
<1> USE DEF mainVars, buildVars, beaconVars, senderVars,
            rateVars, chanVars, ctxVars, knobVars, countVars
<1> USE DEF Sending, Closing, MainTyped, MainStates, ChannelOK, SenderOK,
    SenderTyped, SenderStates
<1>1. CASE StartSender
  BY <1>1 DEF StartSender
<1>2. CASE CancelBg
  BY <1>2 DEF CancelBg
<1>3. CASE CloseQueue
  BY <1>3 DEF CloseQueue
<1>4. CASE Return
  BY <1>4 DEF Return
<1>5. CASE SpawnFails
  BY <1>5 DEF SpawnFails
<1>6. CASE BeaconOffer
  BY <1>6 DEF BeaconOffer
<1>7. CASE BeaconPanics
  BY <1>7 DEF BeaconPanics
<1>8. CASE BeaconWeight \/ BeaconCancelled \/ BeaconNext \/ BeaconStopped \/
               BeaconGet \/ BeaconBuilt \/ BeaconBuildFails \/
               BeaconOfferCancelled
  BY <1>8 DEF BeaconWeight, BeaconCancelled, BeaconNext, BeaconStopped, BeaconGet,
      BeaconBuilt, BeaconBuildFails, BeaconOfferCancelled
<1>9. CASE Receive
  BY <1>9 DEF Receive
<1>10. CASE SenderDone
  BY <1>10 DEF SenderDone
<1>11. CASE SendOk
  BY <1>11 DEF SendOk
<1>12. CASE SendFails
  BY <1>12 DEF SendFails
<1>13. CASE BumpPattern
  BY <1>13 DEF BumpPattern
<1>14. CASE BumpTotal
  BY <1>14 DEF BumpTotal
<1>15. CASE PutSent
  BY <1>15 DEF PutSent
<1>16. CASE PublishTick \/ PublishZero \/ Cancel \/ SetRunning \/
               SetBeaconWeight
  BY <1>16 DEF PublishTick, PublishZero, Cancel, SetRunning, SetBeaconWeight
<1>17. ASSUME NEW b \in Builders,
             Spawn(b) \/ Wait(b) \/ CheckCtx(b) \/ CheckRunning(b) \/
                 PickNothing(b) \/ BuilderPanics(b) \/ PickAndGet(b) \/ BuildOk(b) \/ BuildFails(b)
                 \/ Offer(b) \/ OfferCancelled(b)
      PROVE  Sending'
  BY <1>17 DEF GoTo, Spawn, Wait, CheckCtx, CheckRunning, PickNothing, BuilderPanics, PickAndGet,
      BuildOk, BuildFails, Offer, OfferCancelled
<1>18. CASE UNCHANGED vars
  BY <1>18 DEF vars
<1> QED
  BY <1>1, <1>2, <1>3, <1>4, <1>5, <1>6, <1>7, <1>8, <1>9, <1>10, <1>11, <1>12,
      <1>13, <1>14, <1>15, <1>16, <1>17, <1>18
     DEF Next, MainStep, BuilderStep, BeaconStep, SenderStep, EnvStep

\* Run's progress, the published rate and the switches keep their types.
LEMMA RestKept == IInv /\ [Next]_vars => RestTyped'
<1> SUFFICES ASSUME RestTyped, [Next]_vars PROVE RestTyped'
  BY DEF IInv
<1> USE DEF mainVars, buildVars, beaconVars, senderVars,
            rateVars, chanVars, ctxVars, knobVars, countVars
<1> USE DEF RestTyped, MainTyped, MainStates, RateTyped, KnobsTyped
<1>1. CASE StartSender \/ CancelBg \/ CloseQueue \/ Return \/ SpawnFails
  BY <1>1 DEF StartSender, CancelBg, CloseQueue, Return, SpawnFails
<1>2. CASE BeaconWeight \/ BeaconCancelled \/ BeaconNext \/ BeaconStopped \/
               BeaconGet \/ BeaconBuilt \/ BeaconBuildFails \/ BeaconOffer \/
               BeaconPanics \/ BeaconOfferCancelled
  BY <1>2 DEF BeaconWeight, BeaconCancelled, BeaconNext, BeaconStopped, BeaconGet,
      BeaconBuilt, BeaconBuildFails, BeaconOffer, BeaconPanics,
      BeaconOfferCancelled
<1>3. CASE Receive \/ SenderDone \/ SendOk \/ SendFails \/ BumpPattern \/
               BumpTotal \/ PutSent
  BY <1>3 DEF Receive, SenderDone, SendOk, SendFails, BumpPattern, BumpTotal,
      PutSent
<1>4. CASE PublishTick \/ PublishZero \/ Cancel \/ SetRunning \/
               SetBeaconWeight
  BY <1>4 DEF PublishTick, PublishZero, Cancel, SetRunning, SetBeaconWeight
<1>5. ASSUME NEW b \in Builders, Spawn(b) PROVE RestTyped'
  BY <1>5 DEF Spawn, GoTo
<1>6. ASSUME NEW b \in Builders,
             Wait(b) \/ CheckCtx(b) \/ CheckRunning(b) \/ PickNothing(b) \/ BuilderPanics(b) \/
                 PickAndGet(b) \/ BuildOk(b) \/ BuildFails(b) \/ Offer(b) \/
                 OfferCancelled(b)
      PROVE  RestTyped'
  BY <1>6 DEF GoTo, Wait, CheckCtx, CheckRunning, PickNothing, BuilderPanics, PickAndGet,
      BuildOk, BuildFails, Offer, OfferCancelled
<1>7. CASE UNCHANGED vars
  BY <1>7 DEF vars
<1> QED
  BY <1>1, <1>2, <1>3, <1>4, <1>5, <1>6, <1>7
     DEF Next, MainStep, BuilderStep, BeaconStep, SenderStep, EnvStep

-----------------------------------------------------------------------------
\* IInv is inductive.
LEMMA NextInvariant == IInv /\ [Next]_vars => IInv'
BY BuildersKept, BeaconKept, SenderKept, ChannelKept, PoolKept, CountsKept,
   SpawningKept, ClosingKept, SendingKept, RestKept DEF IInv, RestTyped

LEMMA Invariance == Spec => []IInv
BY InitInvariant, NextInvariant, PTL DEF Spec

\* Every variable of the producer keeps its type in every behaviour.
THEOREM TypeCorrect == Spec => []TypeOK
<1>1. IInv => TypeOK
  BY DEF IInv, TypeOK, RestTyped, BuildersOK, BeaconOK, SenderOK, ChannelOK,
         ChannelTyped, CountsOK
<1> QED
  BY <1>1, Invariance, PTL

\* However many builders there are, none of them is alive to send on the
\* channel once Run has closed it.
THEOREM ClosedAfterBuilders == Spec => []CloseAfterBuilders
<1>1. IInv => CloseAfterBuilders
  BY DEF IInv, Closing, CloseAfterBuilders
<1> QED
  BY <1>1, Invariance, PTL

-----------------------------------------------------------------------------
(* Ownership of the frame buffers.                                         *)

\* Nobody refers to a buffer that get hands out, and it leaves the pool.
LEMMA GetFresh ==
    ASSUME PoolTyped, PooledOnce, NEW f \in Buffers, Get(f)
    PROVE  /\ f \notin Held /\ pool'[f] = 0
           /\ \A g \in Buffers \ {f} : pool'[g] = pool[g]
BY DEF Get, PoolTyped, PooledOnce

\* A buffer somebody still had is in the pool at most once after its put.
LEMMA PutOnce ==
    ASSUME PoolTyped, PooledOnce, NEW f \in Buffers, f \in Held, Put(f)
    PROVE  /\ pool' \in [Buffers -> Nat] /\ pool'[f] \in {0, 1}
           /\ \A g \in Buffers \ {f} : pool'[g] = pool[g]
BY DEF Put, PoolTyped, PooledOnce

\* Held, spelled out place by place.
LEMMA HeldPlaces ==
    /\ \A b \in Builders : bitem[b].frame \in Held
    /\ cframe \in Held /\ sitem.frame \in Held
    /\ \A i \in 1 .. Len(queue) : queue[i].frame \in Held
    /\ \A f \in Held : \/ \E b \in Builders : f = bitem[b].frame
                       \/ f = cframe \/ f = sitem.frame
                       \/ \E i \in 1 .. Len(queue) : f = queue[i].frame
BY DEF Held

\* No step makes two places share a buffer or pools one that is held.
LEMMA OwnershipKept == IInv /\ BufferOwnership /\ [Next]_vars => BufferOwnership'
<1> SUFFICES ASSUME IInv, Unshared, PooledOnce, [Next]_vars
             PROVE  Unshared' /\ PooledOnce'
  BY DEF BufferOwnership
<1> USE DEF mainVars, buildVars, beaconVars, senderVars,
            rateVars, chanVars, ctxVars, knobVars, countVars
<1>a. PoolTyped /\ PoolTyped'
  BY NextInvariant DEF IInv
<1>b. /\ bitem \in [Builders -> Slots] /\ sitem \in Slots
      /\ cframe \in Buffers \cup {NoFrame}
      /\ queue \in Seq(Items)
  BY DEF IInv, BuildersOK, BuildersTyped, SenderOK, SenderTyped, BeaconOK,
         BeaconTyped, ChannelOK
<1>c. /\ \A x \in Slots : x.frame = NoFrame <=> x = NoItem
      /\ \A x \in Items : x.frame \in Buffers /\ x.frame # NoFrame
      /\ \A x \in Slots : x.frame \in Buffers \cup {NoFrame}
      /\ NoFrame \notin Buffers
      /\ NoItem.frame = NoFrame
  BY ProducerAssumption, ItemsHaveFrames DEF NoItem, Slots
<1>d. \A i \in 1 .. Len(queue) : queue[i].frame \in Buffers
  BY <1>b, <1>c
\* A builder takes a buffer out of the pool.
<1>1. ASSUME NEW b \in Builders, PickAndGet(b) PROVE Unshared' /\ PooledOnce'
  <2>1. PICK p \in BuildPatterns, f \in Buffers :
           /\ Get(f)
           /\ bitem' = [bitem EXCEPT ![b] = [pattern |-> p, frame |-> f]]
    BY <1>1 DEF PickAndGet
  <2>2. /\ UNCHANGED <<cframe, sitem, queue>>
        /\ bitem'[b].frame = f
        /\ \A c \in Builders \ {b} : bitem'[c] = bitem[c]
    BY <1>1, <2>1, <1>b DEF PickAndGet
  <2>3. f \notin Held /\ pool'[f] = 0
        /\ \A g \in Buffers \ {f} : pool'[g] = pool[g]
    BY <2>1, <1>a, GetFresh
  <2>4. Unshared'
    BY <2>2, <2>3, HeldPlaces, <1>c DEF Unshared
  <2>5. \A g \in Held' : g \in Held \/ g = f
    BY <2>2, HeldPlaces DEF Held
  <2>6. PooledOnce'
    BY <2>3, <2>5, <1>a DEF PooledOnce, PoolTyped
  <2> QED
    BY <2>4, <2>6
\* A builder puts its buffer back.
<1>2. ASSUME NEW b \in Builders, BuildFails(b) \/ OfferCancelled(b)
      PROVE  Unshared' /\ PooledOnce'
  <2> DEFINE f == bitem[b].frame
  <2>1. f \in Buffers /\ f \in Held /\ Put(f)
    BY <1>2, <1>b, ItemsHaveFrames, HeldPlaces
       DEF BuildFails, OfferCancelled, IInv, BuildersOK, BuildersHold
  <2>2. /\ UNCHANGED <<cframe, sitem, queue>>
        /\ bitem'[b].frame = NoFrame
        /\ \A c \in Builders \ {b} : bitem'[c] = bitem[c]
    BY <1>2, <1>b, <1>c DEF BuildFails, OfferCancelled
  <2>3. Unshared'
    BY <2>2, <1>c, <1>d DEF Unshared
  <2>4. \A g \in Held' : g = NoFrame \/ (g \in Held /\ g # f)
    BY <2>1, <2>2, <1>c DEF Held, Unshared
  <2>5. PooledOnce'
    BY <2>1, <2>4, <1>a, <1>c, PutOnce DEF PooledOnce
  <2> QED
    BY <2>3, <2>5
\* A builder hands its frame to the channel.
<1>3. ASSUME NEW b \in Builders, Offer(b) PROVE Unshared' /\ PooledOnce'
  <2>1. /\ UNCHANGED <<cframe, sitem, pool>>
        /\ bitem'[b].frame = NoFrame
        /\ \A c \in Builders \ {b} : bitem'[c] = bitem[c]
        /\ bitem[b] \in Items
    BY <1>3, <1>b, <1>c, ItemsHaveFrames DEF Offer, IInv, BuildersOK, BuildersHold
  <2>2. /\ Len(queue') = Len(queue) + 1
        /\ queue'[Len(queue) + 1] = bitem[b]
        /\ \A i \in 1 .. Len(queue) : queue'[i] = queue[i]
        /\ Len(queue) \in Nat
    BY <1>3, <1>b, <2>1 DEF Offer
  <2>3. Unshared'
    BY <2>1, <2>2, <1>c, <1>d DEF Unshared
  <2>4. \A g \in Held' : g = NoFrame \/ g \in Held
    BY <2>1, <2>2 DEF Held
  <2>5. PooledOnce'
    BY <2>1, <2>4, <1>c DEF PooledOnce
  <2> QED
    BY <2>3, <2>5
\* The beacon takes a buffer out of the pool.
<1>4. CASE BeaconGet
  <2>1. Get(cframe') /\ cframe' \in Buffers
    BY <1>4 DEF BeaconGet
  <2>2. UNCHANGED <<bitem, sitem, queue>>
    BY <1>4 DEF BeaconGet
  <2>3. cframe' \notin Held /\ pool'[cframe'] = 0
        /\ \A g \in Buffers \ {cframe'} : pool'[g] = pool[g]
    <3> DEFINE f == cframe'
    <3> HIDE DEF f
    <3>1. f \in Buffers /\ Get(f)
      BY <2>1 DEF f
    <3>2. f \notin Held /\ pool'[f] = 0 /\ \A g \in Buffers \ {f} : pool'[g] = pool[g]
      BY <3>1, <1>a, GetFresh
    <3> QED
      BY <3>2 DEF f
  <2>4. Unshared'
    BY <2>2, <2>3, HeldPlaces, <1>c DEF Unshared
  <2>5. \A g \in Held' : g \in Held \/ g = cframe'
    BY <2>2 DEF Held
  <2>6. PooledOnce'
    BY <2>1, <2>3, <2>5, <1>a DEF PooledOnce, PoolTyped
  <2> QED
    BY <2>4, <2>6
\* The beacon puts its buffer back.
<1>5. CASE BeaconBuildFails \/ BeaconOfferCancelled
  <2>1. cframe \in Buffers /\ cframe \in Held /\ Put(cframe)
    BY <1>5, <1>b, HeldPlaces
       DEF BeaconBuildFails, BeaconOfferCancelled, IInv, BeaconOK, BeaconHolds
  <2>2. UNCHANGED <<bitem, sitem, queue>> /\ cframe' = NoFrame
    BY <1>5 DEF BeaconBuildFails, BeaconOfferCancelled
  <2>3. Unshared'
    BY <2>2, <1>c, <1>d DEF Unshared
  <2>4. \A g \in Held' : g = NoFrame \/ (g \in Held /\ g # cframe)
    BY <2>1, <2>2, <1>c DEF Held, Unshared
  <2>5. PooledOnce'
    BY <2>1, <2>4, <1>a, <1>c, PutOnce DEF PooledOnce
  <2> QED
    BY <2>3, <2>5
\* The beacon hands its frame to the channel.
<1>6. CASE BeaconOffer
  <2> DEFINE item == [pattern |-> "beacon", frame |-> cframe]
  <2>1. UNCHANGED <<bitem, sitem, pool>> /\ cframe' = NoFrame
        /\ item \in Items /\ item.frame = cframe /\ cframe # NoFrame
    BY <1>6, <1>b DEF BeaconOffer, IInv, BeaconOK, BeaconHolds, Items, Patterns
  <2>2. /\ Len(queue') = Len(queue) + 1
        /\ queue'[Len(queue) + 1].frame = cframe
        /\ \A i \in 1 .. Len(queue) : queue'[i] = queue[i]
        /\ Len(queue) \in Nat
    BY <1>6, <1>b, <2>1 DEF BeaconOffer
  <2>3. Unshared'
    BY <2>1, <2>2, <1>c, <1>d DEF Unshared
  <2>4. \A g \in Held' : g = NoFrame \/ g \in Held
    BY <2>1, <2>2 DEF Held
  <2>5. PooledOnce'
    BY <2>1, <2>4, <1>c DEF PooledOnce
  <2> QED
    BY <2>3, <2>5
\* The sender takes the oldest frame out of the channel.
<1>7. CASE Receive
  <2>1. /\ UNCHANGED <<bitem, cframe, pool>> /\ sitem' = queue[1]
        /\ sitem.frame = NoFrame
    BY <1>7, <1>c DEF Receive, IInv, SenderOK, SenderHolds
  <2>2. /\ Len(queue') = Len(queue) - 1 /\ Len(queue) \in Nat \ {0}
        /\ \A i \in 1 .. Len(queue') : queue'[i] = queue[i + 1]
    BY <1>7, <1>b DEF Receive
  <2>3. Unshared'
    <3>1. \A i \in 1 .. Len(queue') : queue'[i].frame = queue[i + 1].frame
                                      /\ i + 1 \in 1 .. Len(queue)
      BY <2>2
    <3>2. 1 \in 1 .. Len(queue) /\ sitem'.frame = queue[1].frame
      BY <2>1, <2>2
    <3>3. \A i, j \in 1 .. Len(queue') :
             i # j => queue'[i].frame # queue'[j].frame
      BY <3>1 DEF Unshared
    <3>4. \A b \in Builders : bitem[b].frame # NoFrame =>
             /\ bitem[b].frame # cframe /\ bitem[b].frame # sitem'.frame
             /\ \A i \in 1 .. Len(queue') : bitem[b].frame # queue'[i].frame
      BY <3>1, <3>2 DEF Unshared
    <3>5. cframe # sitem'.frame
      BY <3>2 DEF Unshared
    <3>6. \A i \in 1 .. Len(queue') : queue'[i].frame \notin {cframe, sitem'.frame}
      BY <3>1, <3>2 DEF Unshared
    <3> QED
      BY <2>1, <3>3, <3>4, <3>5, <3>6 DEF Unshared
  <2>4. \A g \in Held' : g \in Held
    BY <2>1, <2>2 DEF Held
  <2>5. PooledOnce'
    BY <2>1, <2>4 DEF PooledOnce
  <2> QED
    BY <2>3, <2>5
\* The sender puts the buffer back, sent or not.
<1>8. CASE SendFails \/ PutSent
  <2> DEFINE f == sitem.frame
  <2>1. f \in Buffers /\ f \in Held /\ Put(f)
    BY <1>8, <1>b, ItemsHaveFrames, HeldPlaces
       DEF SendFails, PutSent, IInv, SenderOK, SenderHolds
  <2>2. UNCHANGED <<bitem, cframe, queue>> /\ sitem'.frame = NoFrame
    BY <1>8, <1>c DEF SendFails, PutSent
  <2>3. Unshared'
    BY <2>2, <1>c, <1>d DEF Unshared
  <2>4. \A g \in Held' : g = NoFrame \/ (g \in Held /\ g # f)
    BY <2>1, <2>2, <1>c DEF Held, Unshared
  <2>5. PooledOnce'
    BY <2>1, <2>4, <1>a, <1>c, PutOnce DEF PooledOnce
  <2> QED
    BY <2>3, <2>5
\* Every other step leaves the frames where they are.
<1>9. CASE UNCHANGED <<bitem, cframe, sitem, queue, pool>>
  BY <1>9 DEF Unshared, PooledOnce, Held
<1>10. CASE StartSender \/ CancelBg \/ CloseQueue \/ Return \/ SpawnFails
  BY <1>9, <1>10 DEF StartSender, CancelBg, CloseQueue, Return, SpawnFails
<1>11. CASE BeaconWeight \/ BeaconCancelled \/ BeaconNext \/ BeaconStopped
            \/ BeaconBuilt \/ BeaconPanics
  BY <1>9, <1>11 DEF BeaconWeight, BeaconCancelled, BeaconNext, BeaconStopped,
                     BeaconBuilt, BeaconPanics
<1>12. CASE SenderDone \/ SendOk \/ BumpPattern \/ BumpTotal
  BY <1>9, <1>12 DEF SenderDone, SendOk, BumpPattern, BumpTotal
<1>13. CASE PublishTick \/ PublishZero \/ Cancel \/ SetRunning \/ SetBeaconWeight
  BY <1>9, <1>13 DEF PublishTick, PublishZero, Cancel, SetRunning, SetBeaconWeight
<1>14. ASSUME NEW b \in Builders,
              Spawn(b) \/ Wait(b) \/ CheckCtx(b) \/ CheckRunning(b)
              \/ PickNothing(b) \/ BuilderPanics(b) \/ BuildOk(b)
       PROVE  Unshared' /\ PooledOnce'
  BY <1>9, <1>14 DEF Spawn, Wait, CheckCtx, CheckRunning, PickNothing, BuilderPanics, BuildOk
<1>15. CASE UNCHANGED vars
  BY <1>9, <1>15 DEF vars
<1> QED
  BY <1>1, <1>2, <1>3, <1>4, <1>5, <1>6, <1>7, <1>8, <1>10, <1>11, <1>12, <1>13,
     <1>14, <1>15
     DEF Next, MainStep, BuilderStep, BeaconStep, SenderStep, EnvStep

\* For any number of builders and any channel capacity, a frame buffer never
\* has two owners and the pool never hands out one that is in use.
THEOREM BuffersOwnedOnce == Spec => []BufferOwnership
<1>1. Init => BufferOwnership
  BY ProducerAssumption
     DEF Init, BufferOwnership, Unshared, PooledOnce, Held, NoItem
<1> QED
  BY <1>1, OwnershipKept, Invariance, PTL DEF Spec

-----------------------------------------------------------------------------
(* A Stop drains.                                                          *)

BuildersInFlight == {b \in Builders : bpc[b] \in {"pick", "build", "offer"}}
BeaconInFlight == IF cpc \in {"build", "offer"} THEN 1 ELSE 0
SenderInFlight == IF spc \in {"send", "bump", "total", "put"} THEN 1 ELSE 0

LEMMA InFlightParts ==
    /\ InFlight = Cardinality(BuildersInFlight) + BeaconInFlight + Len(queue) + SenderInFlight
    /\ InFlight' = Cardinality(BuildersInFlight') + BeaconInFlight' + Len(queue') + SenderInFlight'
BY DEF InFlight, BuildersInFlight, BeaconInFlight, SenderInFlight

\* Any set of builders is finite and can be counted.
LEMMA InFlightTyped ==
    ASSUME queue \in Seq(Items)
    PROVE  /\ IsFiniteSet(BuildersInFlight) /\ Cardinality(BuildersInFlight) \in Nat
           /\ BeaconInFlight \in Nat /\ SenderInFlight \in Nat /\ Len(queue) \in Nat
<1>1. IsFiniteSet(BuildersInFlight)
  BY ProducerAssumption, FS_Subset DEF BuildersInFlight
<1> QED
  BY <1>1, FS_CardinalityType DEF BeaconInFlight, SenderInFlight

\* While the producer is stopped a builder only gives a frame up or queues it.
LEMMA StoppedBuilder ==
    ASSUME IInv, NEW b \in Builders, BuilderStep(b), ~running
    PROVE  InFlight' <= InFlight
<1>1. bpc \in [Builders -> BuilderStates] /\ queue \in Seq(Items)
  BY DEF IInv, BuildersOK, BuildersTyped, ChannelOK
<1>2. BeaconInFlight' = BeaconInFlight /\ SenderInFlight' = SenderInFlight
  BY DEF BuilderStep, Wait, CheckCtx, CheckRunning, PickNothing, BuilderPanics, PickAndGet, BuildOk,
         BuildFails, Offer, OfferCancelled, BeaconInFlight, SenderInFlight, beaconVars, senderVars
<1>3. CASE Wait(b) \/ CheckCtx(b) \/ CheckRunning(b) \/ PickAndGet(b) \/ BuildOk(b)
  <2>1. BuildersInFlight' = BuildersInFlight
    BY <1>1, <1>3 DEF Wait, CheckCtx, CheckRunning, PickAndGet, BuildOk, GoTo, BuildersInFlight
  <2>2. queue' = queue
    BY <1>3 DEF Wait, CheckCtx, CheckRunning, PickAndGet, BuildOk, chanVars
  <2> QED
    BY <1>1, <1>2, <2>1, <2>2, InFlightParts, InFlightTyped
<1>4. CASE PickNothing(b) \/ BuilderPanics(b) \/ BuildFails(b) \/ Offer(b) \/ OfferCancelled(b)
  <2>1. b \in BuildersInFlight /\ BuildersInFlight' = BuildersInFlight \ {b}
    BY <1>1, <1>4 DEF PickNothing, BuilderPanics, BuildFails, Offer, OfferCancelled, GoTo, BuildersInFlight
  <2>2. Cardinality(BuildersInFlight') = Cardinality(BuildersInFlight) - 1
    BY <1>1, <2>1, InFlightTyped, FS_RemoveElement
  <2>3. Len(queue') <= Len(queue) + 1 /\ Len(queue') \in Nat
    <3>1. CASE Offer(b)
      <4>1. bitem[b] \in Items
        BY <3>1, ItemsHaveFrames DEF Offer, IInv, BuildersOK, BuildersTyped, BuildersHold
      <4> QED
        BY <1>1, <3>1, <4>1 DEF Offer
    <3>2. CASE queue' = queue
      BY <1>1, <3>2
    <3> QED
      BY <1>4, <3>1, <3>2 DEF PickNothing, BuilderPanics, BuildFails, OfferCancelled, chanVars
  <2> QED
    BY <1>1, <1>2, <2>2, <2>3, InFlightParts, InFlightTyped
<1> QED
  BY <1>3, <1>4 DEF BuilderStep

\* Nor does the beacon take a new buffer; the sender takes from the channel.
LEMMA StoppedOthers ==
    ASSUME IInv, ~running, BeaconStep \/ SenderStep
    PROVE  InFlight' <= InFlight
<1>1. queue \in Seq(Items)
  BY DEF IInv, ChannelOK
<1>2. BuildersInFlight' = BuildersInFlight
  BY DEF BeaconStep, BeaconWeight, BeaconCancelled, BeaconNext, BeaconStopped, BeaconGet,
         BeaconBuilt, BeaconBuildFails, BeaconOffer, BeaconPanics, BeaconOfferCancelled,
         SenderStep, Receive, SenderDone, SendOk, SendFails, BumpPattern, BumpTotal, PutSent,
         BuildersInFlight, buildVars
<1>3. CASE BeaconStep
  <2>1. SenderInFlight' = SenderInFlight
    BY <1>3 DEF BeaconStep, BeaconWeight, BeaconCancelled, BeaconNext, BeaconStopped, BeaconGet,
         BeaconBuilt, BeaconBuildFails, BeaconOffer, BeaconPanics, BeaconOfferCancelled,
         SenderInFlight, senderVars
  <2>2. CASE BeaconOffer
    <3>1. [pattern |-> "beacon", frame |-> cframe] \in Items
      BY <2>2 DEF BeaconOffer, IInv, BeaconOK, BeaconTyped, BeaconHolds, Items, Patterns
    <3>2. Len(queue') = Len(queue) + 1
      BY <1>1, <2>2, <3>1 DEF BeaconOffer
    <3>3. BeaconInFlight = 1 /\ BeaconInFlight' = 0
      BY <2>2 DEF BeaconOffer, BeaconInFlight
    <3> QED
      BY <1>1, <1>2, <2>1, <3>2, <3>3, InFlightParts, InFlightTyped
  <2>3. CASE ~BeaconOffer
    <3>1. queue' = queue
      BY <1>3, <2>3 DEF BeaconStep, BeaconWeight, BeaconCancelled, BeaconNext, BeaconStopped,
         BeaconGet, BeaconBuilt, BeaconBuildFails, BeaconPanics, BeaconOfferCancelled, chanVars
    <3>2. BeaconInFlight' <= BeaconInFlight /\ BeaconInFlight' \in Nat
      BY <1>3, <2>3 DEF BeaconStep, BeaconWeight, BeaconCancelled, BeaconNext, BeaconStopped,
         BeaconGet, BeaconBuilt, BeaconBuildFails, BeaconPanics, BeaconOfferCancelled,
         BeaconInFlight, beaconVars
    <3> QED
      BY <1>1, <1>2, <2>1, <3>1, <3>2, InFlightParts, InFlightTyped
  <2> QED
    BY <2>2, <2>3
<1>4. CASE SenderStep
  <2>1. BeaconInFlight' = BeaconInFlight
    BY <1>4 DEF SenderStep, Receive, SenderDone, SendOk, SendFails, BumpPattern, BumpTotal,
                PutSent, BeaconInFlight, beaconVars
  <2>2. CASE Receive
    <3>1. Len(queue') = Len(queue) - 1
      BY <1>1, <2>2 DEF Receive
    <3>2. SenderInFlight = 0 /\ SenderInFlight' = 1
      BY <2>2 DEF Receive, SenderInFlight
    <3> QED
      BY <1>1, <1>2, <2>1, <3>1, <3>2, InFlightParts, InFlightTyped
  <2>3. CASE SenderDone \/ SendOk \/ SendFails \/ BumpPattern \/ BumpTotal \/ PutSent
    <3>1. queue' = queue /\ SenderInFlight' <= SenderInFlight /\ SenderInFlight' \in Nat
      BY <2>3 DEF SenderDone, SendOk, SendFails, BumpPattern, BumpTotal, PutSent,
                  SenderInFlight, chanVars
    <3> QED
      BY <1>1, <1>2, <2>1, <3>1, InFlightParts, InFlightTyped
  <2> QED
    BY <1>4, <2>2, <2>3 DEF SenderStep
<1> QED
  BY <1>3, <1>4

\* The rest of the program puts no frame on its way.
LEMMA StoppedRest ==
    ASSUME IInv, MainStep \/ SpawnFails \/ PublishTick \/ PublishZero \/ EnvStep
    PROVE  InFlight' <= InFlight
<1>1. bpc \in [Builders -> BuilderStates] /\ queue \in Seq(Items)
  BY DEF IInv, BuildersOK, BuildersTyped, ChannelOK
<1>2. queue' = queue /\ BeaconInFlight' = BeaconInFlight
  BY DEF MainStep, Spawn, StartSender, CancelBg, CloseQueue, Return, SpawnFails, PublishTick,
         PublishZero, EnvStep, Cancel, SetRunning, SetBeaconWeight, BeaconInFlight, beaconVars, chanVars
<1>3. SenderInFlight' <= SenderInFlight /\ SenderInFlight' \in Nat
  BY DEF MainStep, Spawn, StartSender, CancelBg, CloseQueue, Return, SpawnFails, PublishTick,
         PublishZero, EnvStep, Cancel, SetRunning, SetBeaconWeight, SenderInFlight, senderVars
<1>4. BuildersInFlight' = BuildersInFlight
  <2>1. CASE \E b \in Builders : Spawn(b)
    BY <1>1, <2>1 DEF Spawn, GoTo, BuildersInFlight, IInv, Spawning
  <2>2. CASE bpc' = bpc
    BY <2>2 DEF BuildersInFlight
  <2> QED
    BY <2>1, <2>2 DEF MainStep, StartSender, CancelBg, CloseQueue, Return, SpawnFails,
         PublishTick, PublishZero, EnvStep, Cancel, SetRunning, SetBeaconWeight, buildVars
<1> QED
  BY <1>1, <1>2, <1>3, <1>4, InFlightParts, InFlightTyped

\* After the Stop button the number of frames on their way to the sink never
\* grows, for any number of builders and any channel (producer.go buildLoop,
\* runBeacon).
THEOREM StopTakesEffect == Spec => StopDrains
<1>1. ASSUME IInv, [Next]_vars PROVE [~running /\ ~running' => InFlight' <= InFlight]_vars
  <2>1. SUFFICES ASSUME Next, ~running PROVE InFlight' <= InFlight
    BY <1>1
  <2> QED
    BY <1>1, <2>1, StoppedBuilder, StoppedOthers, StoppedRest DEF Next
<1> QED
  BY <1>1, Invariance, PTL DEF Spec, StopDrains

-----------------------------------------------------------------------------
(* A cancel drains, in the same parts.                                     *)

BuildersToCome == {b \in Builders : bpc[b] \in {"gate", "pick", "build", "offer"}}
BeaconToCome == IF cpc \in {"next", "gate", "build", "offer"} THEN 1 ELSE 0

LEMMA ToComeParts ==
    /\ ToCome = Cardinality(BuildersToCome) + BeaconToCome + Len(queue) + SenderInFlight
    /\ ToCome' = Cardinality(BuildersToCome') + BeaconToCome' + Len(queue') + SenderInFlight'
BY DEF ToCome, BuildersToCome, BeaconToCome, SenderInFlight

LEMMA ToComeTyped ==
    ASSUME queue \in Seq(Items)
    PROVE  /\ IsFiniteSet(BuildersToCome) /\ Cardinality(BuildersToCome) \in Nat
           /\ BeaconToCome \in Nat /\ SenderInFlight \in Nat /\ Len(queue) \in Nat
<1>1. IsFiniteSet(BuildersToCome)
  BY ProducerAssumption, FS_Subset DEF BuildersToCome
<1> QED
  BY <1>1, FS_CardinalityType DEF BeaconToCome, SenderInFlight

\* A builder that was cancelled only gives a frame up or queues it.
LEMMA CancelledBuilder ==
    ASSUME IInv, NEW b \in Builders, BuilderStep(b), ctxDone
    PROVE  ToCome' <= ToCome
<1>1. bpc \in [Builders -> BuilderStates] /\ queue \in Seq(Items)
  BY DEF IInv, BuildersOK, BuildersTyped, ChannelOK
<1>2. BeaconToCome' = BeaconToCome /\ SenderInFlight' = SenderInFlight
  BY DEF BuilderStep, Wait, CheckCtx, CheckRunning, PickNothing, BuilderPanics, PickAndGet, BuildOk,
         BuildFails, Offer, OfferCancelled, BeaconToCome, SenderInFlight, beaconVars, senderVars
<1>3. CASE /\ Wait(b) \/ CheckCtx(b) \/ CheckRunning(b) \/ PickAndGet(b) \/ BuildOk(b)
           /\ ~(bpc[b] = "gate" /\ bpc'[b] = "wait")
  <2>1. BuildersToCome' = BuildersToCome
    BY <1>1, <1>3 DEF Wait, CheckCtx, CheckRunning, PickAndGet, BuildOk, GoTo, BuildersToCome
  <2>2. queue' = queue
    BY <1>3 DEF Wait, CheckCtx, CheckRunning, PickAndGet, BuildOk, chanVars
  <2> QED
    BY <1>1, <1>2, <2>1, <2>2, ToComeParts, ToComeTyped
<1>4. CASE \/ CheckRunning(b) /\ bpc[b] = "gate" /\ bpc'[b] = "wait"
           \/ PickNothing(b) \/ BuilderPanics(b) \/ BuildFails(b) \/ Offer(b) \/ OfferCancelled(b)
  <2>1. b \in BuildersToCome /\ BuildersToCome' = BuildersToCome \ {b}
    BY <1>1, <1>4 DEF CheckRunning, PickNothing, BuilderPanics, BuildFails, Offer, OfferCancelled,
                      GoTo, BuildersToCome
  <2>2. Cardinality(BuildersToCome') = Cardinality(BuildersToCome) - 1
    BY <1>1, <2>1, ToComeTyped, FS_RemoveElement
  <2>3. Len(queue') <= Len(queue) + 1 /\ Len(queue') \in Nat
    <3>1. CASE Offer(b)
      <4>1. bitem[b] \in Items
        BY <3>1, ItemsHaveFrames DEF Offer, IInv, BuildersOK, BuildersTyped, BuildersHold
      <4> QED
        BY <1>1, <3>1, <4>1 DEF Offer
    <3>2. CASE queue' = queue
      BY <1>1, <3>2
    <3> QED
      BY <1>4, <3>1, <3>2
         DEF CheckRunning, PickNothing, BuilderPanics, BuildFails, OfferCancelled, chanVars
  <2> QED
    BY <1>1, <1>2, <2>2, <2>3, ToComeParts, ToComeTyped
<1>5. bpc[b] = "gate" /\ bpc'[b] = "wait" =>
        ~(Wait(b) \/ CheckCtx(b) \/ PickAndGet(b) \/ BuildOk(b))
  BY <1>1 DEF Wait, CheckCtx, PickAndGet, BuildOk
<1> QED
  BY <1>3, <1>4, <1>5 DEF BuilderStep

\* The beacon begins a frame at its weight alone; the sender takes from the
\* channel.
LEMMA CancelledOthers ==
    ASSUME IInv, ctxDone, (BeaconStep /\ ~BeaconWeight) \/ SenderStep
    PROVE  ToCome' <= ToCome
<1>1. queue \in Seq(Items)
  BY DEF IInv, ChannelOK
<1>2. BuildersToCome' = BuildersToCome
  BY DEF BeaconStep, BeaconCancelled, BeaconNext, BeaconStopped, BeaconGet,
         BeaconBuilt, BeaconBuildFails, BeaconOffer, BeaconPanics, BeaconOfferCancelled,
         SenderStep, Receive, SenderDone, SendOk, SendFails, BumpPattern, BumpTotal, PutSent,
         BuildersToCome, buildVars
<1>3. CASE BeaconStep /\ ~BeaconWeight
  <2>1. SenderInFlight' = SenderInFlight
    BY <1>3 DEF BeaconStep, BeaconCancelled, BeaconNext, BeaconStopped, BeaconGet,
         BeaconBuilt, BeaconBuildFails, BeaconOffer, BeaconPanics, BeaconOfferCancelled,
         SenderInFlight, senderVars
  <2>2. CASE BeaconOffer
    <3>1. [pattern |-> "beacon", frame |-> cframe] \in Items
      BY <2>2 DEF BeaconOffer, IInv, BeaconOK, BeaconTyped, BeaconHolds, Items, Patterns
    <3>2. Len(queue') = Len(queue) + 1
      BY <1>1, <2>2, <3>1 DEF BeaconOffer
    <3>3. BeaconToCome = 1 /\ BeaconToCome' = 0
      BY <2>2 DEF BeaconOffer, BeaconToCome
    <3> QED
      BY <1>1, <1>2, <2>1, <3>2, <3>3, ToComeParts, ToComeTyped
  <2>3. CASE ~BeaconOffer
    <3>1. queue' = queue
      BY <1>3, <2>3 DEF BeaconStep, BeaconCancelled, BeaconNext, BeaconStopped,
         BeaconGet, BeaconBuilt, BeaconBuildFails, BeaconPanics, BeaconOfferCancelled, chanVars
    <3>2. BeaconToCome' <= BeaconToCome /\ BeaconToCome' \in Nat
      BY <1>3, <2>3 DEF BeaconStep, BeaconCancelled, BeaconNext, BeaconStopped,
         BeaconGet, BeaconBuilt, BeaconBuildFails, BeaconPanics, BeaconOfferCancelled,
         BeaconToCome, beaconVars
    <3> QED
      BY <1>1, <1>2, <2>1, <3>1, <3>2, ToComeParts, ToComeTyped
  <2> QED
    BY <2>2, <2>3
<1>4. CASE SenderStep
  <2>1. BeaconToCome' = BeaconToCome
    BY <1>4 DEF SenderStep, Receive, SenderDone, SendOk, SendFails, BumpPattern, BumpTotal,
                PutSent, BeaconToCome, beaconVars
  <2>2. CASE Receive
    <3>1. Len(queue') = Len(queue) - 1
      BY <1>1, <2>2 DEF Receive
    <3>2. SenderInFlight = 0 /\ SenderInFlight' = 1
      BY <2>2 DEF Receive, SenderInFlight
    <3> QED
      BY <1>1, <1>2, <2>1, <3>1, <3>2, ToComeParts, ToComeTyped
  <2>3. CASE SenderDone \/ SendOk \/ SendFails \/ BumpPattern \/ BumpTotal \/ PutSent
    <3>1. queue' = queue /\ SenderInFlight' <= SenderInFlight /\ SenderInFlight' \in Nat
      BY <2>3 DEF SenderDone, SendOk, SendFails, BumpPattern, BumpTotal, PutSent,
                  SenderInFlight, chanVars
    <3> QED
      BY <1>1, <1>2, <2>1, <3>1, ToComeParts, ToComeTyped
  <2> QED
    BY <1>4, <2>2, <2>3 DEF SenderStep
<1> QED
  BY <1>3, <1>4

LEMMA CancelledRest ==
    ASSUME IInv, MainStep \/ SpawnFails \/ PublishTick \/ PublishZero \/ EnvStep
    PROVE  ToCome' <= ToCome
<1>1. bpc \in [Builders -> BuilderStates] /\ queue \in Seq(Items)
  BY DEF IInv, BuildersOK, BuildersTyped, ChannelOK
<1>2. queue' = queue /\ BeaconToCome' = BeaconToCome
  BY DEF MainStep, Spawn, StartSender, CancelBg, CloseQueue, Return, SpawnFails, PublishTick,
         PublishZero, EnvStep, Cancel, SetRunning, SetBeaconWeight, BeaconToCome, beaconVars, chanVars
<1>3. SenderInFlight' <= SenderInFlight /\ SenderInFlight' \in Nat
  BY DEF MainStep, Spawn, StartSender, CancelBg, CloseQueue, Return, SpawnFails, PublishTick,
         PublishZero, EnvStep, Cancel, SetRunning, SetBeaconWeight, SenderInFlight, senderVars
<1>4. BuildersToCome' = BuildersToCome
  <2>1. CASE \E b \in Builders : Spawn(b)
    BY <1>1, <2>1 DEF Spawn, GoTo, BuildersToCome, IInv, Spawning
  <2>2. CASE bpc' = bpc
    BY <2>2 DEF BuildersToCome
  <2> QED
    BY <2>1, <2>2 DEF MainStep, StartSender, CancelBg, CloseQueue, Return, SpawnFails,
         PublishTick, PublishZero, EnvStep, Cancel, SetRunning, SetBeaconWeight, buildVars
<1> QED
  BY <1>1, <1>2, <1>3, <1>4, ToComeParts, ToComeTyped

\* After a cancel no builder begins another frame, for any number of builders and
\* any channel: what run and serve leave behind when they return is bounded by
\* what was under way (main.go runHeadless, producer.go buildLoop, runBeacon).
THEOREM CancelTakesEffect == Spec => CancelDrains
<1>1. ASSUME IInv, [Next]_vars PROVE [ctxDone /\ ~BeaconWeight => ToCome' <= ToCome]_vars
  <2>1. SUFFICES ASSUME Next, ctxDone, ~BeaconWeight PROVE ToCome' <= ToCome
    BY <1>1
  <2> QED
    BY <1>1, <2>1, CancelledBuilder, CancelledOthers, CancelledRest DEF Next
<1> QED
  BY <1>1, Invariance, PTL DEF Spec, CancelDrains

-----------------------------------------------------------------------------
(* The producer implements the Pipeline: each step of its goroutines is a  *)
(* step of the pipeline or leaves phase, pending, delivered and reported   *)
(* as they are.                                                            *)

\* The pipeline's variables, as the refinement mapping defines them.
abstract == <<Phase, Pending, delivered, total>>

LEMMA InitRefines == Init => Pipe!Init
BY DEF Init, Pipe!Init, Phase, Pending

\* What the inductive invariant says in the terms the steps below need.
LEMMA Facts ==
    ASSUME IInv
    PROVE  /\ Len(queue) \in Nat /\ Len(queue) <= QueueCap /\ QueueCap \in Nat
           /\ main \in MainStates /\ spc \in SenderStates
           /\ total \in Nat /\ delivered \in Nat
BY ProducerAssumption
   DEF IInv, ChannelOK, MainTyped, SenderOK, SenderTyped, CountsOK, CountsTyped

LEMMA StepRefines == IInv /\ [Next]_vars => [Pipe!Next]_(Pipe!pipeVars)
<1> SUFFICES ASSUME IInv, [Next]_vars
             PROVE  Pipe!Next \/ abstract' = abstract
  BY DEF Pipe!pipeVars, abstract
<1> USE Facts
    DEF mainVars, buildVars, beaconVars, senderVars, rateVars, chanVars,
        ctxVars, knobVars, countVars, MainStates, SenderStates, Phase, Pending
\* Steps that move the pipeline.
<1>1. ASSUME main # "crashed", NEW b \in Builders, Offer(b) PROVE Pipe!Accept
  <2>1. bitem[b] \in Items /\ queue \in Seq(Items)
    BY <1>1, ItemsHaveFrames
       DEF Offer, IInv, BuildersOK, BuildersTyped, BuildersHold, ChannelOK
  <2>2. Len(queue') = Len(queue) + 1 /\ Len(queue) < QueueCap
    BY <1>1, <2>1 DEF Offer
  <2> QED
    BY <1>1, <2>2 DEF Offer, Pipe!Accept, IInv, Closing
<1>2. ASSUME main # "crashed", BeaconOffer PROVE Pipe!Accept
  <2>1. [pattern |-> "beacon", frame |-> cframe] \in Items /\ queue \in Seq(Items)
    BY <1>2 DEF BeaconOffer, IInv, BeaconOK, BeaconTyped, BeaconHolds, Items,
                Patterns, ChannelOK
  <2>2. Len(queue') = Len(queue) + 1 /\ Len(queue) < QueueCap
    BY <1>2, <2>1 DEF BeaconOffer
  <2> QED
    BY <1>2, <2>2 DEF BeaconOffer, Pipe!Accept, IInv, Closing
<1>3. ASSUME main # "crashed" /\ SendOk PROVE Pipe!Deliver
  <2>1. main \notin {"spawn", "failed", "returned"} /\ delivered = total
    BY <1>3 DEF SendOk, IInv, Sending, CountsOK, Counting
  <2> QED
    BY <1>3, <2>1 DEF SendOk, Pipe!Deliver
<1>4. ASSUME main # "crashed" /\ SendFails PROVE Pipe!Refuse
  <2>1. main \notin {"spawn", "failed", "returned"} /\ delivered = total
    BY <1>4 DEF SendFails, IInv, Sending, CountsOK, Counting
  <2> QED
    BY <1>4, <2>1 DEF SendFails, Pipe!Refuse
<1>5. ASSUME main # "crashed" /\ BumpTotal PROVE Pipe!Report
  <2>1. main \notin {"spawn", "failed", "returned"} /\ delivered = total + 1
    BY <1>5 DEF BumpTotal, IInv, Sending, CountsOK, Counting
  <2> QED
    BY <1>5, <2>1 DEF BumpTotal, Pipe!Report
<1>6. ASSUME CloseQueue PROVE Pipe!Close
  BY <1>6 DEF CloseQueue, Pipe!Close
<1>7. ASSUME Return PROVE Pipe!Finish
  <2>1. Len(queue) = 0
    BY <1>7 DEF Return, IInv, Sending
  <2> QED
    BY <1>7, <2>1 DEF Return, Pipe!Finish
<1>8. ASSUME SpawnFails PROVE Pipe!Fail
  <2>1. delivered = 0
    BY <1>8 DEF SpawnFails, IInv, Sending, CountsOK, Counting
  <2> QED
    BY <1>8, <2>1 DEF SpawnFails, Pipe!Fail
<1>9. ASSUME main # "crashed",
             BeaconPanics \/ \E b \in Builders : BuilderPanics(b)
      PROVE  Pipe!Crash
  <2>1. CASE BeaconPanics
    BY <1>9, <2>1 DEF BeaconPanics, Pipe!Crash, IInv, Closing
  <2>2. ASSUME NEW b \in Builders, BuilderPanics(b) PROVE Pipe!Crash
    BY <1>9, <2>2 DEF BuilderPanics, Pipe!Crash, IInv, Spawning, Closing
  <2> QED
    BY <1>9, <2>1, <2>2
\* Steps the pipeline does not see.
<1>10. ASSUME Receive PROVE abstract' = abstract
  <2>1. Len(queue') = Len(queue) - 1
    BY <1>10 DEF Receive, IInv, ChannelOK
  <2> QED
    BY <1>10, <2>1 DEF Receive, abstract
<1>11. ASSUME StartSender PROVE abstract' = abstract
  BY <1>11 DEF StartSender, IInv, Sending, abstract
<1>12. ASSUME CancelBg PROVE abstract' = abstract
  BY <1>12 DEF CancelBg, abstract
<1>13. ASSUME SenderDone \/ BumpPattern \/ PutSent PROVE abstract' = abstract
  BY <1>13 DEF SenderDone, BumpPattern, PutSent, abstract
<1>14. ASSUME BeaconWeight \/ BeaconCancelled \/ BeaconNext \/ BeaconStopped
              \/ BeaconGet \/ BeaconBuilt \/ BeaconBuildFails
              \/ BeaconOfferCancelled
       PROVE  abstract' = abstract
  BY <1>14 DEF BeaconWeight, BeaconCancelled, BeaconNext, BeaconStopped,
               BeaconGet, BeaconBuilt, BeaconBuildFails, BeaconOfferCancelled,
               abstract
<1>15. ASSUME PublishTick \/ PublishZero \/ EnvStep PROVE abstract' = abstract
  BY <1>15 DEF PublishTick, PublishZero, EnvStep, Cancel, SetRunning,
               SetBeaconWeight, abstract
<1>16. ASSUME NEW b \in Builders,
              Spawn(b) \/ Wait(b) \/ CheckCtx(b) \/ CheckRunning(b)
              \/ PickNothing(b) \/ PickAndGet(b) \/ BuildOk(b)
              \/ BuildFails(b) \/ OfferCancelled(b)
       PROVE  abstract' = abstract
  BY <1>16 DEF Spawn, Wait, CheckCtx, CheckRunning, PickNothing, PickAndGet,
               BuildOk, BuildFails, OfferCancelled, abstract
<1>17. CASE UNCHANGED vars
  BY <1>17 DEF vars, abstract
<1> QED
  BY <1>1, <1>2, <1>3, <1>4, <1>5, <1>6, <1>7, <1>8, <1>9, <1>10, <1>11, <1>12,
     <1>13, <1>14, <1>15, <1>16, <1>17
     DEF Next, MainStep, BuilderStep, BeaconStep, SenderStep, Pipe!Next

\* Whatever the number of builders and the capacity: nothing enters after the
\* close, frames are counted only after the sink took them, and Run returns
\* only when the pipeline is empty.
THEOREM ProducerImplementsPipeline == Spec => ImplementsPipeline
BY InitRefines, StepRefines, Invariance, PTL
   DEF Spec, ImplementsPipeline, Pipe!Spec

-----------------------------------------------------------------------------
(* The cancellation: what RunReturns rests on without fairness.            *)

\* How many steps a builder has left once ctx is cancelled.
StepsLeft(l) ==
    CASE l = "idle" -> 7 [] l = "gate" -> 6 [] l = "pick" -> 5 [] l = "build" -> 4
      [] l = "offer" -> 3 [] l = "wait" -> 2 [] l = "ctx" -> 1 [] OTHER -> 0

\* And how many the sender has left for the frame it holds.
SendsLeft(l) ==
    CASE l = "send" -> 5 [] l = "bump" -> 4 [] l = "total" -> 3 [] l = "put" -> 2
      [] l = "recv" -> 1 [] OTHER -> 0

Drain == 6 * Len(queue) + SendsLeft(spc)

\* A cancelled context stays so, and where a builder may be afterwards.
LEMMA CancelLasts == [Next]_vars => (ctxDone => ctxDone')
BY DEF Next, MainStep, Spawn, StartSender, CancelBg, CloseQueue, Return, SpawnFails,
       BuilderStep, Wait, CheckCtx, CheckRunning, PickNothing, BuilderPanics, PickAndGet, BuildOk, BuildFails,
       Offer, OfferCancelled,
       BeaconStep, BeaconWeight, BeaconCancelled, BeaconNext, BeaconStopped, BeaconGet,
       BeaconBuilt, BeaconBuildFails, BeaconOffer, BeaconPanics, BeaconOfferCancelled,
       SenderStep, Receive, SenderDone, SendOk, SendFails, BumpPattern, BumpTotal, PutSent,
       PublishTick, PublishZero, EnvStep, Cancel, SetRunning, SetBeaconWeight, vars, ctxVars

LEMMA OthersLeaveBuilders ==
    ASSUME StartSender \/ CancelBg \/ CloseQueue \/ Return \/ SpawnFails \/ BeaconStep
           \/ SenderStep \/ PublishTick \/ PublishZero \/ EnvStep \/ UNCHANGED vars
    PROVE  bpc' = bpc
BY DEF StartSender, CancelBg, CloseQueue, Return, SpawnFails,
       BeaconStep, BeaconWeight, BeaconCancelled, BeaconNext, BeaconStopped, BeaconGet,
       BeaconBuilt, BeaconBuildFails, BeaconOffer, BeaconPanics, BeaconOfferCancelled,
       SenderStep, Receive, SenderDone, SendOk, SendFails, BumpPattern, BumpTotal, PutSent,
       PublishTick, PublishZero, EnvStep, Cancel, SetRunning, SetBeaconWeight, vars, buildVars

\* Each builder on its way: it ends only with ctx, and once ctx is cancelled it
\* does not get past the check a second time.
LEMMA BuilderMoves ==
    ASSUME IInv, NEW b \in Builders, Spawn(b) \/ BuilderStep(b)
    PROVE  /\ \A c \in Builders \ {b} : bpc'[c] = bpc[c]
           /\ bpc'[b] = "done" => ctxDone
           /\ ctxDone => StepsLeft(bpc'[b]) < StepsLeft(bpc[b])
<1>1. bpc \in [Builders -> BuilderStates] /\ (b \notin started => bpc[b] = "idle")
  BY DEF IInv, BuildersOK, BuildersTyped, Spawning
<1>2. CASE Spawn(b) \/ Wait(b) \/ CheckCtx(b)
  BY <1>1, <1>2 DEF Spawn, Wait, CheckCtx, GoTo, StepsLeft
<1>3. CASE CheckRunning(b) \/ PickNothing(b) \/ BuilderPanics(b)
  BY <1>1, <1>3 DEF CheckRunning, PickNothing, BuilderPanics, GoTo, StepsLeft
<1>4. CASE PickAndGet(b) \/ BuildOk(b) \/ BuildFails(b)
  BY <1>1, <1>4 DEF PickAndGet, BuildOk, BuildFails, GoTo, StepsLeft
<1>5. CASE Offer(b) \/ OfferCancelled(b)
  BY <1>1, <1>5 DEF Offer, OfferCancelled, GoTo, StepsLeft
<1> QED
  BY <1>2, <1>3, <1>4, <1>5 DEF BuilderStep

\* A builder ends, and Run gets past its wait for the builders, only after ctx
\* was cancelled.
EndsOnCancel == \A b \in Builders : bpc[b] = "done" => ctxDone

LEMMA EndsOnCancelKept == IInv /\ EndsOnCancel /\ [Next]_vars => EndsOnCancel'
<1> SUFFICES ASSUME IInv, EndsOnCancel, [Next]_vars PROVE EndsOnCancel'
  OBVIOUS
<1>1. ASSUME NEW b \in Builders, Spawn(b) \/ BuilderStep(b) PROVE EndsOnCancel'
  BY <1>1, BuilderMoves, CancelLasts DEF EndsOnCancel
<1>2. CASE bpc' = bpc
  BY <1>2, CancelLasts DEF EndsOnCancel
<1> QED
  BY <1>1, <1>2, OthersLeaveBuilders DEF Next, MainStep

LEMMA EndsOnCancelHolds == Spec => []EndsOnCancel
<1>1. Init => EndsOnCancel
  BY DEF Init, EndsOnCancel
<1> QED
  BY <1>1, EndsOnCancelKept, Invariance, PTL DEF Spec

\* Run "blocks until ctx is cancelled": it closes the channel and returns only
\* then, and so does the beacon's panic come only then.  The other ends are a
\* mixer that cannot be built and a generator's panic, which leaves a builder in
\* the middle of a frame.
THEOREM RunBlocksUntilCancelled ==
    Spec => [](/\ main \in {"close", "waitSender", "returned"} => ctxDone
               /\ main = "crashed" => ctxDone \/ \E b \in Builders : bpc[b] = "panicked")
<1> DEFINE Crashed == main = "crashed" => closed \/ \E b \in Builders : bpc[b] = "panicked"
<1>1. IInv /\ EndsOnCancel /\ Crashed =>
        /\ main \in {"close", "waitSender", "returned"} => ctxDone
        /\ main = "crashed" => ctxDone \/ \E b \in Builders : bpc[b] = "panicked"
  BY ProducerAssumption DEF IInv, Closing, EndsOnCancel
<1>2. Init => Crashed
  BY DEF Init
<1>3. IInv /\ Crashed /\ [Next]_vars => Crashed'
  <2> SUFFICES ASSUME IInv, Crashed, [Next]_vars PROVE Crashed'
    OBVIOUS
  <2>1. CASE UNCHANGED vars
    BY <2>1 DEF vars, mainVars, buildVars, chanVars
  <2>2. CASE Next /\ main' # "crashed"
    BY <2>2
  <2>3. ASSUME main # "crashed", NEW b \in Builders, BuilderPanics(b) PROVE Crashed'
    BY <2>3 DEF BuilderPanics, GoTo, IInv, BuildersOK, BuildersTyped
  <2>4. CASE BeaconPanics
    BY <2>4 DEF BeaconPanics, chanVars
  <2>5. main # "crashed" /\ Next /\ main' = "crashed" =>
          BeaconPanics \/ \E b \in Builders : BuilderPanics(b)
    BY DEF Next, MainStep, Spawn, StartSender, CancelBg, CloseQueue, Return, SpawnFails,
       BuilderStep, Wait, CheckCtx, CheckRunning, PickNothing, PickAndGet, BuildOk,
       BuildFails, Offer, OfferCancelled,
       BeaconStep, BeaconWeight, BeaconCancelled, BeaconNext, BeaconStopped, BeaconGet,
       BeaconBuilt, BeaconBuildFails, BeaconOffer, BeaconOfferCancelled,
       SenderStep, Receive, SenderDone, SendOk, SendFails, BumpPattern, BumpTotal, PutSent,
       PublishTick, PublishZero, EnvStep, Cancel, SetRunning, SetBeaconWeight, mainVars
  <2> QED
    BY <2>1, <2>2, <2>3, <2>4, <2>5 DEF Next
<1> QED
  BY <1>1, <1>2, <1>3, EndsOnCancelHolds, Invariance, PTL DEF Spec

\* The pipeline closes only when ctx is cancelled, which is what Benchmark takes
\* for granted of its producer.
THEOREM ClosesOnCancel == Spec => [][Pipe!Close => ctxDone]_vars
<1>1. ASSUME IInv, EndsOnCancel, [Next]_vars PROVE [Pipe!Close => ctxDone]_vars
  <2> SUFFICES ASSUME Next, Pipe!Close PROVE ctxDone
    BY <1>1
  <2>1. main' # main /\ main' # "failed" /\ main' # "crashed"
        /\ Phase = "open" /\ Phase' = "closing"
    BY DEF Pipe!Close, Phase
  <2>2. CloseQueue
    BY <2>1 DEF Next, MainStep, Spawn, StartSender, CancelBg, Return, SpawnFails,
       BuilderStep, Wait, CheckCtx, CheckRunning, PickNothing, BuilderPanics, PickAndGet, BuildOk, BuildFails,
       Offer, OfferCancelled,
       BeaconStep, BeaconWeight, BeaconCancelled, BeaconNext, BeaconStopped, BeaconGet,
       BeaconBuilt, BeaconBuildFails, BeaconOffer, BeaconPanics, BeaconOfferCancelled,
       SenderStep, Receive, SenderDone, SendOk, SendFails, BumpPattern, BumpTotal, PutSent,
       PublishTick, PublishZero, EnvStep, Cancel, SetRunning, SetBeaconWeight,
       mainVars, Phase
  <2>3. main = "close"
    BY <2>2 DEF CloseQueue
  <2> QED
    BY <1>1, <2>3, ProducerAssumption DEF IInv, Closing, EndsOnCancel
<1> QED
  BY <1>1, EndsOnCancelHolds, Invariance, PTL DEF Spec

\* Once ctx is cancelled every step of a builder brings it closer to its end and
\* no step sets one back; once the channel is closed every step of the sender
\* brings it closer to the empty channel and none fills it again.
WindsDown ==
    /\ ctxDone => \A b \in Builders :
         /\ StepsLeft(bpc'[b]) <= StepsLeft(bpc[b])
         /\ BuilderStep(b) => StepsLeft(bpc'[b]) < StepsLeft(bpc[b])
    /\ closed => Drain' <= Drain /\ (SenderStep => Drain' < Drain)

LEMMA StepsAreNats ==
    /\ \A l : StepsLeft(l) \in Nat
    /\ \A l : SendsLeft(l) \in Nat
BY DEF StepsLeft, SendsLeft

LEMMA SenderDrains ==
    ASSUME IInv, SenderStep
    PROVE  Drain' < Drain
<1>1. queue \in Seq(Items) /\ Len(queue) \in Nat
  BY DEF IInv, ChannelOK
<1>2. CASE Receive
  <2>1. Len(queue') = Len(queue) - 1 /\ spc = "recv" /\ spc' = "send"
    BY <1>1, <1>2 DEF Receive
  <2> QED
    BY <1>1, <2>1 DEF Drain, SendsLeft
<1>3. CASE SenderDone \/ SendOk \/ SendFails \/ BumpPattern \/ BumpTotal \/ PutSent
  <2>1. queue' = queue
    BY <1>3 DEF SenderDone, SendOk, SendFails, BumpPattern, BumpTotal, PutSent, chanVars
  <2>2. SendsLeft(spc') < SendsLeft(spc)
    BY <1>3 DEF SenderDone, SendOk, SendFails, BumpPattern, BumpTotal, PutSent, SendsLeft
  <2> QED
    BY <1>1, <2>1, <2>2, StepsAreNats DEF Drain
<1> QED
  BY <1>2, <1>3 DEF SenderStep

\* With the channel closed only the sender touches it.
LEMMA OthersLeaveDrain ==
    ASSUME IInv, closed, [Next]_vars, ~SenderStep
    PROVE  queue' = queue /\ spc' = spc
<1>1. main # "spawn"
  BY DEF IInv, Closing
<1> QED
  BY <1>1 DEF Next, MainStep, Spawn, StartSender, CancelBg, CloseQueue, Return, SpawnFails,
       BuilderStep, Wait, CheckCtx, CheckRunning, PickNothing, BuilderPanics, PickAndGet, BuildOk, BuildFails,
       Offer, OfferCancelled,
       BeaconStep, BeaconWeight, BeaconCancelled, BeaconNext, BeaconStopped, BeaconGet,
       BeaconBuilt, BeaconBuildFails, BeaconOffer, BeaconPanics, BeaconOfferCancelled,
       PublishTick, PublishZero, EnvStep, Cancel, SetRunning, SetBeaconWeight,
       vars, chanVars, senderVars

\* After a cancel the goroutines that Run waits for only get closer to their ends
\* (producer.go buildLoop, send): what RunReturns rests on besides fairness.
THEOREM CancelledRunWindsDown == Spec => [][WindsDown]_vars
<1>1. ASSUME IInv, [Next]_vars PROVE [WindsDown]_vars
  <2> SUFFICES ASSUME Next PROVE WindsDown
    BY <1>1
  <2>1. ASSUME ctxDone, NEW b \in Builders
        PROVE  /\ StepsLeft(bpc'[b]) <= StepsLeft(bpc[b])
               /\ BuilderStep(b) => StepsLeft(bpc'[b]) < StepsLeft(bpc[b])
    <3>1. BuilderStep(b) \/ Spawn(b) => StepsLeft(bpc'[b]) < StepsLeft(bpc[b])
      BY <1>1, <2>1, BuilderMoves
    <3>2. ~BuilderStep(b) /\ ~Spawn(b) => bpc'[b] = bpc[b]
      <4>1. ASSUME NEW c \in Builders, c # b, Spawn(c) \/ BuilderStep(c)
            PROVE  bpc'[b] = bpc[b]
        BY <1>1, <4>1, BuilderMoves
      <4> QED
        BY <4>1, OthersLeaveBuilders DEF Next, MainStep
    <3> QED
      BY <3>1, <3>2, StepsAreNats
  <2>2. ASSUME closed PROVE Drain' <= Drain /\ (SenderStep => Drain' < Drain)
    <3>1. Drain \in Nat
      BY <1>1, StepsAreNats DEF IInv, ChannelOK, Drain
    <3>2. Drain' \in Nat
      BY <1>1, NextInvariant, StepsAreNats DEF IInv, ChannelOK, Drain
    <3>3. ~SenderStep => Drain' = Drain
      BY <1>1, <2>2, OthersLeaveDrain DEF Drain
    <3>4. SenderStep => Drain' < Drain
      BY <1>1, SenderDrains
    <3> QED
      BY <3>1, <3>2, <3>3, <3>4
  <2> QED
    BY <2>1, <2>2 DEF WindsDown
<1> QED
  BY <1>1, Invariance, PTL DEF Spec

\* What each goroutine waits for, as the guards of its steps say it.
MainCanGo ==
    \/ main \in {"spawn", "close"}
    \/ main = "waitBuilders" /\ \A b \in Builders : bpc[b] = "done"
    \/ main = "waitSender" /\ spc = "done"
BuilderCanGo(b) ==
    \/ bpc[b] \in {"wait", "ctx", "gate", "pick", "build"}
    \/ bpc[b] = "offer" /\ (ctxDone \/ (~closed /\ Len(queue) < QueueCap))
SenderCanGo ==
    \/ spc \in {"send", "bump", "total", "put"}
    \/ spc = "recv" /\ (queue # << >> \/ closed)

\* Until Run is over nobody waits in a circle: a full channel finds the sender
\* able to take from it, and an empty one a builder able to fill it or to end. A
\* sender inside SendBytes counts as able: whether that returns is the sink's.
THEOREM NeverStuck ==
    Spec => [](main \in {"spawn", "waitBuilders", "close", "waitSender"} =>
                 MainCanGo \/ SenderCanGo \/ \E b \in Builders : BuilderCanGo(b))
<1>1. ASSUME IInv, main \in {"spawn", "waitBuilders", "close", "waitSender"}
      PROVE  MainCanGo \/ SenderCanGo \/ \E b \in Builders : BuilderCanGo(b)
  <2> SUFFICES ASSUME ~MainCanGo, ~SenderCanGo PROVE \E b \in Builders : BuilderCanGo(b)
    OBVIOUS
  <2>1. spc \in SenderStates /\ bpc \in [Builders -> BuilderStates]
    BY <1>1 DEF IInv, SenderOK, SenderTyped, BuildersOK, BuildersTyped
  \* The sender waits for a frame: Run is not past its wait for the builders.
  <2>2. spc = "recv" /\ queue = << >> /\ ~closed /\ main = "waitBuilders"
    BY <1>1, <2>1 DEF IInv, Sending, Closing, MainCanGo, SenderCanGo, SenderStates
  <2>3. PICK b \in Builders : bpc[b] # "done"
    BY <2>2 DEF MainCanGo
  <2>4. bpc[b] \notin {"idle", "panicked"}
    BY <1>1, <2>2 DEF IInv, Spawning
  <2>5. Len(queue) < QueueCap
    BY <2>2, ProducerAssumption
  <2> QED
    BY <2>1, <2>2, <2>3, <2>4, <2>5 DEF BuilderCanGo, BuilderStates
<1> QED
  BY <1>1, Invariance, PTL
=============================================================================
