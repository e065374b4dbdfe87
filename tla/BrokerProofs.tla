---------------------------- MODULE BrokerProofs ----------------------------
(***************************************************************************)
(* Theorems about Broker, for any finite set of clients and any number of  *)
(* packets.                                                                *)
(***************************************************************************)
EXTENDS Broker, FiniteSetTheorems, TLAPS

\* The packets some client's goroutine has not added to the total, and EDM's that
\* it has not added to the other counter.
InHand    == {c \in Clients : client[c] = "total"}
EdmInHand == {c \in Clients : client[c] \in {"total", "prefix"} /\ topicMatches[c]}

\* Which results can be there: Serve's after it returned, Run's after it ended.
Results ==
    /\ run = "spawn" => serve = "none"
    /\ serveCh # "empty" \/ serveReturned => serve = "out"
    /\ run # "done" => runCh = "empty"

\* Whoever reports the cancellation closed the broker and saw Serve return.
Ending ==
    /\ closed => ~listening
    /\ run = "wait" => closed
    /\ run = "ctx" \/ runCh = "ctx" => closed /\ serve = "out"

BrokerInv == TypeOK /\ Results /\ Ending /\ Counted

-----------------------------------------------------------------------------
\* What is in hand is finite, one packet per client.
LEMMA HandFinite ==
    /\ IsFiniteSet(InHand) /\ Cardinality(InHand) \in Nat
    /\ IsFiniteSet(EdmInHand) /\ Cardinality(EdmInHand) \in Nat
<1>1. InHand \subseteq Clients /\ EdmInHand \subseteq Clients
  BY DEF InHand, EdmInHand
<1>2. IsFiniteSet(InHand) /\ IsFiniteSet(EdmInHand)
  BY <1>1, BrokerAssumption, FS_Subset
<1> QED
  BY <1>2, FS_CardinalityType

LEMMA BrokerInit == Init => BrokerInv
<1> SUFFICES ASSUME Init PROVE BrokerInv
  OBVIOUS
<1>1. TypeOK
  BY DEF Init, TypeOK
<1>2. Results /\ Ending
  BY DEF Init, Results, Ending
<1>3. InHand = {} /\ EdmInHand = {}
  BY DEF Init, InHand, EdmInHand
<1>4. Counted
  BY <1>3, FS_EmptySet DEF Counted, InHand, EdmInHand, Init
<1> QED
  BY <1>1, <1>2, <1>4 DEF BrokerInv

-----------------------------------------------------------------------------
(* The broker's life.                                                      *)

LifeStep == RunStep \/ ServeReturns \/ MainStep \/ Cancel

LEMMA LifeKeeps == ASSUME BrokerInv, LifeStep PROVE BrokerInv'
<1> USE DEF BrokerInv, LifeStep, RunStep, MainStep, RunStarts, ServeReturns, ServeError,
            ServedInTime, Pause50, ServedLate, CancelRun, ServeEnded, RunReturns,
            StartEnds, Pause75, Cancel
<1>1. TypeOK'
  <2>1. UNCHANGED <<countVars, statVars>>
    OBVIOUS
  <2>2. listening' = listening \/ listening' = FALSE \/ listening' = TRUE
    OBVIOUS
  <2>3. /\ main' \in {"wait", "up", "failed", "none"}
        /\ run' \in {"spawn", "select1", "select2", "wait", "nil", "ctx", "err", "done"}
        /\ serve' \in {"none", "in", "out"} /\ serveCh' \in {"empty", "nil", "err"}
        /\ runCh' \in {"empty", "nil", "ctx", "err"}
    BY DEF TypeOK
  <2>4. serveReturned' \in BOOLEAN /\ closed' \in BOOLEAN /\ ctxDone' \in BOOLEAN
    BY DEF TypeOK
  <2> QED
    BY <2>1, <2>2, <2>3, <2>4 DEF TypeOK, countVars, statVars
<1>2. Results'
  BY DEF Results, TypeOK
<1>3. Ending'
  BY DEF Ending, Results, TypeOK
<1>4. Counted'
  BY DEF Counted, countVars
<1> QED
  BY <1>1, <1>2, <1>3, <1>4

LEMMA StatsKeeps == ASSUME BrokerInv, StatsStep PROVE BrokerInv'
<1> USE DEF BrokerInv, StatsStep, LoadTotal, LoadEdmTopic, LoadConnections, StatsAgain
<1>1. TypeOK'
  BY DEF TypeOK, lifeVars, countVars
<1>2. Results' /\ Ending' /\ Counted'
  BY DEF Results, Ending, Counted, lifeVars, countVars
<1> QED
  BY <1>1, <1>2

-----------------------------------------------------------------------------
(* The clients.                                                            *)

LEMMA ClientTyped ==
    ASSUME BrokerInv, NEW c \in Clients, ClientStep(c)
    PROVE  TypeOK' /\ Results' /\ Ending'
<1> USE DEF BrokerInv, ClientStep
<1>1. UNCHANGED <<lifeVars, statVars>>
  BY DEF OnConnect, Publish, CountTotal, CountPrefix
<1>2. CASE OnConnect(c)
  BY <1>1, <1>2 DEF OnConnect, TypeOK, Results, Ending, lifeVars, statVars
<1>3. CASE Publish(c)
  BY <1>1, <1>3 DEF Publish, TypeOK, Results, Ending, lifeVars, statVars
<1>4. CASE CountTotal(c) \/ CountPrefix(c)
  BY <1>1, <1>4 DEF CountTotal, CountPrefix, TypeOK, Results, Ending, lifeVars, statVars
<1> QED
  BY <1>2, <1>3, <1>4

LEMMA ClientCounted == ASSUME BrokerInv, NEW c \in Clients, ClientStep(c) PROVE Counted'
<1> USE DEF BrokerInv
<1>0. /\ client \in [Clients -> {"off", "idle", "total", "prefix"}]
      /\ topicMatches \in [Clients -> BOOLEAN]
      /\ published \in Nat /\ matching \in Nat /\ total \in Nat /\ edmTopic \in Nat
  BY DEF TypeOK
<1>1. total + Cardinality(InHand) = published /\ edmTopic + Cardinality(EdmInHand) = matching
  BY DEF Counted, InHand, EdmInHand
<1>2. SUFFICES /\ total' + Cardinality(InHand') = published'
               /\ edmTopic' + Cardinality(EdmInHand') = matching'
  BY DEF Counted, InHand, EdmInHand
<1>3. CASE OnConnect(c)
  <2>1. InHand' = InHand /\ EdmInHand' = EdmInHand
    BY <1>0, <1>3 DEF OnConnect, InHand, EdmInHand
  <2> QED
    BY <1>1, <1>3, <2>1 DEF OnConnect
<1>4. CASE Publish(c)
  <2>1. c \notin InHand /\ c \notin EdmInHand
    BY <1>4 DEF Publish, InHand, EdmInHand
  <2>2. InHand' = InHand \cup {c}
    BY <1>0, <1>4 DEF Publish, InHand
  <2>3. Cardinality(InHand') = Cardinality(InHand) + 1
    BY <2>1, <2>2, HandFinite, FS_AddElement
  <2>4. PICK m \in BOOLEAN : /\ topicMatches' = [topicMatches EXCEPT ![c] = m]
                             /\ matching' = IF m THEN matching + 1 ELSE matching
    BY <1>4 DEF Publish
  <2>5. EdmInHand' = IF m THEN EdmInHand \cup {c} ELSE EdmInHand
    BY <1>0, <1>4, <2>1, <2>4 DEF Publish, EdmInHand
  <2>6. Cardinality(EdmInHand') = Cardinality(EdmInHand) + (IF m THEN 1 ELSE 0)
    <3>1. Cardinality(EdmInHand \cup {c}) = Cardinality(EdmInHand) + 1
      BY <2>1, HandFinite, FS_AddElement
    <3>2. CASE m
      BY <2>5, <3>1, <3>2
    <3>3. CASE ~m
      BY <2>5, <3>3, HandFinite
    <3> QED
      BY <3>2, <3>3
  <2> QED
    BY <1>0, <1>1, <1>4, <2>3, <2>4, <2>6, HandFinite DEF Publish
<1>5. CASE CountTotal(c)
  <2>1. c \in InHand /\ InHand' = InHand \ {c} /\ EdmInHand' = EdmInHand
    BY <1>0, <1>5 DEF CountTotal, InHand, EdmInHand
  <2>2. Cardinality(InHand') = Cardinality(InHand) - 1
    BY <2>1, HandFinite, FS_RemoveElement
  <2> QED
    BY <1>0, <1>1, <1>5, <2>1, <2>2, HandFinite DEF CountTotal
<1>6. CASE CountPrefix(c)
  <2>1. InHand' = InHand
    BY <1>0, <1>6 DEF CountPrefix, InHand
  <2>2. EdmInHand' = EdmInHand \ {c} /\ (c \in EdmInHand <=> topicMatches[c])
    BY <1>0, <1>6 DEF CountPrefix, EdmInHand
  <2>3. Cardinality(EdmInHand') = Cardinality(EdmInHand) - (IF topicMatches[c] THEN 1 ELSE 0)
    <3>1. Cardinality(EdmInHand \ {c}) =
            IF c \in EdmInHand THEN Cardinality(EdmInHand) - 1 ELSE Cardinality(EdmInHand)
      BY HandFinite, FS_RemoveElement
    <3>2. CASE topicMatches[c]
      BY <2>2, <3>1, <3>2
    <3>3. CASE ~topicMatches[c]
      BY <2>2, <3>1, <3>3, HandFinite
    <3> QED
      BY <3>2, <3>3
  <2> QED
    BY <1>0, <1>1, <1>6, <2>1, <2>3, HandFinite DEF CountPrefix
<1> QED
  BY <1>3, <1>4, <1>5, <1>6 DEF ClientStep

-----------------------------------------------------------------------------
LEMMA BrokerKept == BrokerInv /\ [Next]_vars => BrokerInv'
<1> SUFFICES ASSUME BrokerInv, [Next]_vars PROVE BrokerInv'
  OBVIOUS
<1>1. CASE UNCHANGED vars
  BY <1>1 DEF vars, lifeVars, countVars, statVars, BrokerInv, TypeOK, Results, Ending, Counted
<1>2. CASE LifeStep \/ StatsStep
  BY <1>2, LifeKeeps, StatsKeeps
<1>3. CASE \E c \in Clients : ClientStep(c)
  BY <1>3, ClientTyped, ClientCounted DEF BrokerInv
<1> QED
  BY <1>1, <1>2, <1>3 DEF Next, LifeStep

LEMMA BrokerInvariant == Spec => []BrokerInv
BY BrokerInit, BrokerKept, PTL DEF Spec

\* The variables of the broker keep their types.
THEOREM TypeCorrect == Spec => []TypeOK
<1>1. BrokerInv => TypeOK
  BY DEF BrokerInv
<1> QED
  BY <1>1, BrokerInvariant, PTL

\* No packet of any client is lost or counted twice by the two counters.
THEOREM AllCounted == Spec => []Counted
<1>1. BrokerInv => Counted
  BY DEF BrokerInv
<1> QED
  BY <1>1, BrokerInvariant, PTL

\* When Run reports the cancellation, the broker is closed and Serve has returned.
THEOREM CancelledIsClosed == Spec => []NothingLeft
<1>1. BrokerInv => NothingLeft
  BY DEF BrokerInv, Ending, NothingLeft
<1> QED
  BY <1>1, BrokerInvariant, PTL
=============================================================================
