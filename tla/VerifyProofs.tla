---------------------------- MODULE VerifyProofs ----------------------------
(***************************************************************************)
(* Theorems about Verify for any patterns, any number of EDM counters, any *)
(* prior life and backlog of EDM, any number of restarts and of answers    *)
(* that lack metrics.                                                      *)
(***************************************************************************)
EXTENDS Verify, FiniteSetTheorems, WellFoundedInduction, TLAPS

\* Types, by owner, of what the theorems are about.
SenderTyped == delivered \in Nat
HistoryTyped == blind \in BOOLEAN
EdmTyped    == edm \in [Counters -> Nat] /\ inbox \in Nat /\ restarts \in Nat
ScrapeTyped == /\ vpc \in {"scrape", "apply", "store", "done"}
               /\ baselineSet \in BOOLEAN /\ baseline \in [Counters -> Nat]
               /\ snap \in [Counters -> Nat] /\ snapLife \in Nat
               /\ rel \in [Counters -> Nat] /\ next \in Nat \ {0}
StateTyped  == observed \in [Counters -> Nat]

\* Where EDM's processed counter starts in its r-th life.
Origin(r) == IF r = 0 THEN Before ELSE 0

\* What EDM has processed or still holds in this life it was given.
EdmBound == /\ edm[Processed] + inbox <= Origin(restarts) + Backlog + delivered
            /\ restarts = 0 => edm[Processed] >= Before

\* A snapshot is bounded like the life it was taken in, and from below unless an
\* answer lacked the counter.
SnapBound == /\ snapLife <= restarts
             /\ vpc \in {"apply", "store"} =>
                  /\ snap[Processed] <= Origin(snapLife) + Backlog + delivered
                  /\ snapLife = 0 /\ ~blind => snap[Processed] >= Before

\* A baseline of EDM's first life includes what was there before.
BaseBound == baselineSet /\ snapLife = 0 /\ ~blind => baseline[Processed] >= Before

RelBound  == vpc = "store" => rel[Processed] <= Claimable

IInv == /\ SenderTyped /\ HistoryTyped /\ EdmTyped /\ ScrapeTyped /\ StateTyped
        /\ EdmBound /\ SnapBound /\ BaseBound /\ RelBound
        /\ NeverClamps /\ ObservedIsOurs

Groups == <<senderVars, edmVars, baseVars, snapVars, vpc, observed>>

-----------------------------------------------------------------------------
LEMMA ProcessedCounter == Processed \in Counters
BY VerifyAssumption DEF Processed, Counters

\* apply picks a baseline no counter of the snapshot is below, so the values
\* it is about to store are exact and within what was delivered.
LEMMA ApplyExact ==
    ASSUME IInv, Apply
    PROVE  /\ baseline' \in [Counters -> Nat] /\ rel' \in [Counters -> Nat]
           /\ \A c \in Counters : /\ baseline'[c] <= snap[c]
                                  /\ rel'[c] = snap[c] - baseline'[c]
           /\ snapLife = 0 /\ ~blind => baseline'[Processed] >= Before
<1> USE DEF IInv, ScrapeTyped
<1>1. baseline' \in [Counters -> Nat] /\ \A c \in Counters : baseline'[c] <= snap[c]
  BY DEF Apply, WentBackwards
<1>2. rel' = RelativeTo(snap, baseline')
  BY DEF Apply
<1>3. rel' \in [Counters -> Nat]
      /\ \A c \in Counters : rel'[c] = snap[c] - baseline'[c]
  BY <1>1, <1>2 DEF RelativeTo
<1>4. snapLife = 0 /\ ~blind => baseline'[Processed] >= Before
  BY DEF Apply, BaseBound, SnapBound
<1> QED
  BY <1>1, <1>3, <1>4

LEMMA InitInvariant == Init => IInv
<1> SUFFICES ASSUME Init PROVE IInv
  OBVIOUS
<1> USE VerifyAssumption, ProcessedCounter DEF Init, Zero
<1>1. SenderTyped /\ HistoryTyped /\ EdmTyped /\ StateTyped
  BY DEF SenderTyped, HistoryTyped, EdmTyped, StateTyped
<1>2. ScrapeTyped
  <2>1. baseline \in [Counters -> Nat] /\ snap \in [Counters -> Nat]
        /\ rel \in [Counters -> Nat] /\ next \in Nat \ {0}
    OBVIOUS
  <2>2. baselineSet \in BOOLEAN /\ vpc = "scrape" /\ snapLife = 0
    OBVIOUS
  <2> QED
    BY <2>1, <2>2 DEF ScrapeTyped
<1>3. EdmBound /\ SnapBound /\ BaseBound
  BY DEF EdmBound, SnapBound, BaseBound, Origin
<1>4. RelBound /\ NeverClamps /\ ObservedIsOurs
  BY DEF RelBound, NeverClamps, ObservedIsOurs, Claimable
<1> QED
  BY <1>1, <1>2, <1>3, <1>4 DEF IInv

LEMMA NextInvariant == IInv /\ [Next]_vars => IInv'
<1> SUFFICES ASSUME IInv, [Next]_vars PROVE IInv'
  OBVIOUS
<1> USE VerifyAssumption, ProcessedCounter
    DEF IInv, SenderTyped, HistoryTyped, EdmTyped, ScrapeTyped, StateTyped, EdmBound,
        SnapBound, BaseBound, RelBound, NeverClamps, ObservedIsOurs, Claimable, Origin,
        senderVars, edmVars, baseVars, snapVars, readerVars
\* A frame delivered widens every bound.
<1>1. CASE Deliver
  BY <1>1 DEF Deliver
\* EDM moves a frame from its input to its counters, or starts a new life.
<1>2. CASE Process
  <2>1. /\ edm' \in [Counters -> Nat] /\ edm'[Processed] = edm[Processed] + 1
        /\ inbox' = inbox - 1 /\ inbox' \in Nat
    BY <1>2 DEF Process
  <2> QED
    BY <1>2, <2>1 DEF Process
<1>3. CASE Restart
  <2>1. edm' \in [Counters -> Nat] /\ edm'[Processed] = 0
    BY <1>3 DEF Restart, Zero
  <2> QED
    BY <1>3, <2>1 DEF Restart
\* A snapshot, complete or with zeroes for what the answer lacks.
<1>4. ASSUME NEW absent \in SUBSET Counters, ScrapeOk(absent) PROVE IInv'
  <2>1. snap' \in [Counters -> Nat] /\ snap'[Processed] <= edm[Processed]
        /\ (Processed \notin absent => snap'[Processed] = edm[Processed])
    BY <1>4 DEF ScrapeOk
  <2>2. blind' \in BOOLEAN /\ (blind => blind')
        /\ (restarts = 0 /\ Processed \in absent => blind')
    BY <1>4, Zenon DEF ScrapeOk
  <2>3. /\ UNCHANGED <<senderVars, edmVars, baseVars, rel, next, observed>>
        /\ snapLife' = restarts /\ vpc' = "apply"
    BY <1>4 DEF ScrapeOk
  <2> QED
    BY <2>1, <2>2, <2>3
<1>5. CASE Apply
  <2>1. UNCHANGED <<senderVars, edmVars, snap, snapLife, blind, observed>>
        /\ vpc = "apply" /\ vpc' = "store" /\ next' = 1 /\ baselineSet' = TRUE
    BY <1>5 DEF Apply
  <2>2. rel'[Processed] <= Claimable
    BY <1>5, <2>1, ApplyExact
  <2> QED
    BY <1>5, <2>1, <2>2, ApplyExact
<1>6. CASE Store
  <2>1. observed' \in [Counters -> Nat] /\ observed'[Processed] <= Claimable
    BY <1>6 DEF Store, Counters
  <2> QED
    BY <1>6, <2>1 DEF Store
<1>7. CASE Stored \/ RunEnds \/ Cancel
  BY <1>7 DEF Stored, RunEnds, Cancel
<1>8. CASE UNCHANGED Groups
  BY <1>8 DEF Groups
<1>9. CASE CountPattern \/ CountTotal
  BY <1>9 DEF CountPattern, CountTotal
<1>10. CASE ReaderStep
  BY <1>8, <1>10 DEF ReaderStep, ReadTotal, ReadObserved, ReadPattern,
                     ReportDone, Groups
<1>11. CASE ScrapeFails \/ UNCHANGED vars
  BY <1>8, <1>11 DEF ScrapeFails, vars, Groups
<1> QED
  BY <1>1, <1>2, <1>3, <1>4, <1>5, <1>6, <1>7, <1>9, <1>10, <1>11
     DEF Next, SenderStep, EdmStep, ScraperStep

LEMMA Invariance == Spec => []IInv
BY InitInvariant, NextInvariant, PTL DEF Spec

\* The clamp in relativeTo is never reached, however often EDM restarts.
THEOREM ClampUnreachable == Spec => []NeverClamps
<1>1. IInv => NeverClamps
  BY DEF IInv
<1> QED
  BY <1>1, Invariance, PTL

\* EDM is never credited with more frames than it was given by us and by those
\* before us, and with its past only if it once did not report its counter.
THEOREM NoOverclaim == Spec => []ObservedIsOurs
<1>1. IInv => ObservedIsOurs
  BY DEF IInv
<1> QED
  BY <1>1, Invariance, PTL

-----------------------------------------------------------------------------
(* What is left over when everything has settled.                          *)

\* A frame is delivered and then counted.
CountInv == /\ total \in Nat
            /\ delivered = total + (IF spc = "send" THEN 0 ELSE 1)

\* In EDM's first life nothing is lost.
FirstLife == restarts = 0 => edm[Processed] + inbox = Before + Backlog + delivered

\* What apply has stored, and what it leaves behind.
StoredInv == /\ vpc = "store" /\ next > 1 => observed[Processed] = rel[Processed]
             /\ vpc = "scrape" /\ baselineSet =>
                  observed[Processed] = snap[Processed] - baseline[Processed]

DriftInv == CountInv /\ FirstLife /\ StoredInv

LEMMA DriftInit == Init => DriftInv
<1> SUFFICES ASSUME Init PROVE DriftInv
  OBVIOUS
<1> USE VerifyAssumption, ProcessedCounter DEF Init, Zero
<1>1. CountInv
  BY DEF CountInv
<1>2. FirstLife
  BY DEF FirstLife
<1>3. StoredInv
  BY DEF StoredInv
<1> QED
  BY <1>1, <1>2, <1>3 DEF DriftInv

LEMMA DriftNext == IInv /\ DriftInv /\ [Next]_vars => DriftInv'
<1> SUFFICES ASSUME IInv, DriftInv, [Next]_vars PROVE DriftInv'
  OBVIOUS
<1>0. /\ delivered \in Nat /\ total \in Nat /\ inbox \in Nat /\ Before \in Nat /\ Backlog \in Nat
      /\ edm \in [Counters -> Nat] /\ Processed \in Counters /\ restarts \in Nat
      /\ next \in Nat \ {0} /\ NCounters \in Nat \ {0} /\ observed \in [Counters -> Nat]
  BY VerifyAssumption, ProcessedCounter
     DEF IInv, DriftInv, CountInv, SenderTyped, EdmTyped, ScrapeTyped, StateTyped
<1> USE DEF DriftInv, CountInv, FirstLife, StoredInv,
            senderVars, edmVars, baseVars, snapVars, readerVars
<1>1. CASE Deliver
  <2>1. /\ delivered' = delivered + 1 /\ inbox' = inbox + 1
        /\ spc = "send" /\ spc' = "pattern" /\ total' = total
        /\ edm' = edm /\ restarts' = restarts
    BY <1>1 DEF Deliver
  <2>2. /\ vpc' = vpc /\ next' = next /\ observed' = observed /\ rel' = rel
        /\ baselineSet' = baselineSet /\ snap' = snap /\ baseline' = baseline
    BY <1>1 DEF Deliver
  <2>3. edm[Processed] \in Nat
    BY <1>0
  <2>4. CountInv'
    BY <1>0, <2>1
  <2>5. FirstLife'
    BY <1>0, <2>1, <2>3
  <2>6. StoredInv'
    BY <2>2
  <2> QED
    BY <2>4, <2>5, <2>6
<1>2. CASE CountPattern \/ CountTotal
  BY <1>0, <1>2 DEF CountPattern, CountTotal
<1>3. CASE Process
  <2>1. edm'[Processed] = edm[Processed] + 1 /\ inbox' = inbox - 1
    BY <1>0, <1>3 DEF Process
  <2> QED
    BY <1>0, <1>3, <2>1 DEF Process
<1>4. CASE Restart
  BY <1>0, <1>4 DEF Restart
<1>5. CASE \E absent \in SUBSET Counters : ScrapeOk(absent)
  BY <1>0, <1>5 DEF ScrapeOk
<1>6. CASE Apply
  BY <1>0, <1>6 DEF Apply
<1>7. CASE Store
  <2>1. observed'[Processed] = IF next = Processed THEN rel[Processed] ELSE observed[Processed]
    BY <1>0, <1>7 DEF Store
  <2> QED
    BY <1>0, <1>7, <2>1 DEF Store, Processed
<1>8. CASE Stored
  BY <1>0, <1>8 DEF Stored, IInv, NeverClamps
<1>9. CASE RunEnds \/ Cancel
  BY <1>0, <1>9 DEF RunEnds, Cancel
<1>10. CASE UNCHANGED Groups
  BY <1>10 DEF Groups
<1>11. CASE ReaderStep
  BY <1>10, <1>11 DEF ReaderStep, ReadTotal, ReadObserved, ReadPattern, ReportDone, Groups
<1>12. CASE ScrapeFails \/ UNCHANGED vars
  BY <1>10, <1>12 DEF ScrapeFails, vars, Groups
<1> QED
  BY <1>1, <1>2, <1>3, <1>4, <1>5, <1>6, <1>7, <1>8, <1>9, <1>11, <1>12
     DEF Next, SenderStep, EdmStep, ScraperStep

LEMMA DriftInvariant == Spec => []DriftInv
BY DriftInit, DriftNext, Invariance, PTL DEF Spec

\* Without restarts, the drift that stays once nothing is under way is what EDM
\* had processed before the baseline less what others had given it, however many
\* scrapes failed before it and whatever they lacked.
THEOREM DriftExplained == Spec => []DriftIsBaseline
<1>1. IInv /\ DriftInv => DriftIsBaseline
  <2> SUFFICES ASSUME IInv, DriftInv, Settled, restarts = 0
               PROVE  total - observed[Processed] = baseline[Processed] - (Before + Backlog)
    BY DEF DriftIsBaseline
  <2>1. /\ total = delivered /\ edm[Processed] = Before + Backlog + delivered
        /\ observed[Processed] = edm[Processed] - baseline[Processed]
    BY VerifyAssumption, ProcessedCounter
       DEF IInv, SenderTyped, EdmTyped, DriftInv, CountInv, FirstLife, StoredInv, Settled
  <2>2. delivered \in Nat /\ baseline[Processed] \in Nat /\ Before \in Nat /\ Backlog \in Nat
    BY VerifyAssumption, ProcessedCounter DEF IInv, SenderTyped, ScrapeTyped
  <2> QED
    BY <2>1, <2>2
<1> QED
  BY <1>1, Invariance, DriftInvariant, PTL
-----------------------------------------------------------------------------
(* Types.                                                                  *)

LEMMA TypeInit == Init => TypeOK
<1> SUFFICES ASSUME Init PROVE TypeOK
  OBVIOUS
<1> USE VerifyAssumption DEF Init, Zero, Counters
<1>1. /\ spc \in {"send", "pattern", "total"} /\ spattern \in Patterns
      /\ delivered \in Nat /\ total \in Nat /\ sent \in [Patterns -> Nat]
  OBVIOUS
<1>2. /\ edm \in [Counters -> Nat] /\ inbox \in Nat /\ restarts \in Nat
      /\ baseline \in [Counters -> Nat] /\ snap \in [Counters -> Nat] /\ snapLife \in Nat
      /\ rel \in [Counters -> Nat] /\ previous \in [Counters -> Nat]
      /\ next \in 1 .. NCounters + 1 /\ observed \in [Counters -> Nat]
  OBVIOUS
<1>3. /\ vpc \in {"scrape", "apply", "store", "done"} /\ baselineSet \in BOOLEAN
      /\ ctxDone \in BOOLEAN /\ gaps \in Nat /\ blind \in BOOLEAN /\ rpc \in {"total", "observed", "patterns"}
      /\ repTotal \in Nat /\ repObserved \in Nat /\ repPattern \in [Patterns -> Nat]
      /\ unread \subseteq Patterns
  OBVIOUS
<1> QED
  BY <1>1, <1>2, <1>3 DEF TypeOK

LEMMA TypeNext == TypeOK /\ [Next]_vars => TypeOK'
<1> SUFFICES ASSUME TypeOK, [Next]_vars PROVE TypeOK'
  OBVIOUS
<1>0. Processed \in Counters /\ NCounters \in Nat
  BY VerifyAssumption DEF Processed, Counters
<1> USE DEF TypeOK, senderVars, edmVars, baseVars, snapVars, readerVars
<1>1. CASE Deliver
  BY <1>1 DEF Deliver
<1>2. CASE CountPattern
  BY <1>2 DEF CountPattern
<1>3. CASE CountTotal
  BY <1>3 DEF CountTotal
<1>4. CASE Process
  <2>1. edm' \in [Counters -> Nat] /\ inbox' \in Nat
    BY <1>4 DEF Process
  <2> QED
    BY <1>4, <2>1 DEF Process
<1>5. CASE Restart
  BY <1>5 DEF Restart, Zero
<1>6. CASE \E absent \in SUBSET Counters : ScrapeOk(absent)
  BY <1>6 DEF ScrapeOk
<1>7. CASE Apply
  <2>1. baseline' \in [Counters -> Nat]
    BY <1>7 DEF Apply
  <2>2. rel' \in [Counters -> Nat]
    BY <1>7, <2>1 DEF Apply, RelativeTo
  <2>3. next' \in 1 .. NCounters + 1
    BY <1>0, <1>7 DEF Apply
  <2> QED
    BY <1>7, <2>1, <2>2, <2>3 DEF Apply
<1>8. CASE Store
  <2>1. next' \in 1 .. NCounters + 1
    BY <1>0, <1>8 DEF Store
  <2>2. observed' \in [Counters -> Nat]
    BY <1>8 DEF Store
  <2> QED
    BY <1>8, <2>1, <2>2 DEF Store
<1>9. CASE Stored \/ RunEnds
  BY <1>9 DEF Stored, RunEnds
<1>10. CASE Cancel
  BY <1>10 DEF Cancel
<1>11. CASE ReadTotal \/ ReportDone
  BY <1>11 DEF ReadTotal, ReportDone
<1>12. CASE ReadObserved
  BY <1>0, <1>12 DEF ReadObserved
<1>13. CASE ReadPattern
  BY <1>13 DEF ReadPattern
<1>14. CASE ScrapeFails \/ UNCHANGED vars
  BY <1>14 DEF ScrapeFails, vars
<1> QED
  BY <1>1, <1>2, <1>3, <1>4, <1>5, <1>6, <1>7, <1>8, <1>9, <1>10, <1>11, <1>12,
     <1>13, <1>14
     DEF Next, SenderStep, EdmStep, ScraperStep, ReaderStep

\* Every variable of the sender, EDM, the scraper and Reconcile keeps its type.
THEOREM TypeCorrect == Spec => []TypeOK
BY TypeInit, TypeNext, PTL DEF Spec

-----------------------------------------------------------------------------
(* Sums over the patterns.  The fold is a function defined by recursion on *)
(* the set; it has values because counting tokens solves its equation, and *)
(* no smallest set can be the first on which the two differ.               *)

\* The fold's recursion: the pattern it takes next, and its equation.
First(S) == CHOOSE x \in S : TRUE
SumEquation(f, it) ==
    it = [S \in SUBSET Patterns |->
            IF S = {} THEN 0 ELSE f[First(S)] + it[S \ {First(S)}]]
Sums(f) == CHOOSE it : SumEquation(f, it)

LEMMA SumOfIsSums == ASSUME NEW f PROVE SumOf(f) = Sums(f)[Patterns]
BY Zenon DEF SumOf, FoldFunctionOnSet, MapThenFoldSet, Sums, SumEquation, First

\* What the sum counts: f[x] tokens for every x.
Tokens(f, S) == UNION {{x} \X (1 .. f[x]) : x \in S}

LEMMA TokensFinite ==
    ASSUME NEW f \in [Patterns -> Nat], NEW S \in SUBSET Patterns
    PROVE  IsFiniteSet(Tokens(f, S))
<1> DEFINE Parts == {{x} \X (1 .. f[x]) : x \in S}
<1>1. IsFiniteSet(Parts)
  <2>1. IsFiniteSet(S)
    BY VerifyAssumption, FS_Subset
  <2>2. [x \in S |-> {x} \X (1 .. f[x])] \in Surjection(S, Parts)
    BY DEF Surjection
  <2> QED
    BY <2>1, <2>2, FS_Surjection
<1>2. \A T \in Parts : IsFiniteSet(T)
  <2> SUFFICES ASSUME NEW x \in S PROVE IsFiniteSet({x} \X (1 .. f[x]))
    OBVIOUS
  <2>1. IsFiniteSet({x})
    BY FS_Singleton
  <2>2. f[x] \in Int /\ 1 \in Int
    OBVIOUS
  <2>3. IsFiniteSet(1 .. f[x])
    BY <2>2, FS_Interval
  <2> QED
    BY <2>1, <2>3, FS_Product
<1> HIDE DEF Parts
<1>3. IsFiniteSet(UNION Parts)
  BY <1>1, <1>2, FS_UNION
<1> QED
  BY <1>3 DEF Tokens, Parts

LEMMA TokensSplit ==
    ASSUME NEW f \in [Patterns -> Nat], NEW S \in SUBSET Patterns, NEW x \in S
    PROVE  Cardinality(Tokens(f, S)) = f[x] + Cardinality(Tokens(f, S \ {x}))
<1> DEFINE Own == {x} \X (1 .. f[x])
           Rest == Tokens(f, S \ {x})
<1>1. IsFiniteSet(Own) /\ Cardinality(Own) = f[x]
  <2>1. f[x] \in Nat
    OBVIOUS
  <2>2. IsFiniteSet({x}) /\ Cardinality({x}) = 1
    BY FS_Singleton
  <2>3. IsFiniteSet(1 .. f[x]) /\ Cardinality(1 .. f[x]) = f[x]
    BY <2>1, FS_Interval
  <2>4. IsFiniteSet({x} \X (1 .. f[x]))
        /\ Cardinality({x} \X (1 .. f[x])) = Cardinality({x}) * Cardinality(1 .. f[x])
    BY <2>2, <2>3, FS_Product
  <2> QED
    BY <2>1, <2>2, <2>3, <2>4
<1>2. IsFiniteSet(Rest)
  BY TokensFinite
<1>3. Tokens(f, S) = Own \cup Rest
  BY DEF Tokens
<1>4. Own \cap Rest = {}
  BY DEF Tokens
<1> HIDE DEF Own, Rest
<1>5. Cardinality(Own \cup Rest) = f[x] + Cardinality(Rest)
  <2>1. Cardinality(Own \cap Rest) = 0
    BY <1>4, FS_EmptySet
  <2>2. Cardinality(Rest) \in Nat /\ f[x] \in Nat
    BY <1>2, FS_CardinalityType
  <2>3. Cardinality(Own \cup Rest)
          = Cardinality(Own) + Cardinality(Rest) - Cardinality(Own \cap Rest)
    BY <1>1, <1>2, FS_Union
  <2> QED
    BY <1>1, <2>1, <2>2, <2>3
<1> QED
  BY <1>3, <1>5 DEF Rest

LEMMA NoTokens == ASSUME NEW f PROVE Cardinality(Tokens(f, {})) = 0
<1>1. Tokens(f, {}) = {}
  BY DEF Tokens
<1> QED
  BY <1>1, FS_EmptySet

LEMMA SumsEquation ==
    ASSUME NEW f \in [Patterns -> Nat] PROVE SumEquation(f, Sums(f))
<1> DEFINE count == [S \in SUBSET Patterns |-> Cardinality(Tokens(f, S))]
<1>1. \A S \in SUBSET Patterns :
        count[S] = IF S = {} THEN 0 ELSE f[First(S)] + count[S \ {First(S)}]
  <2> TAKE S \in SUBSET Patterns
  <2>1. CASE S = {}
    BY <2>1, NoTokens
  <2>2. CASE S # {}
    <3>1. First(S) \in S
      BY <2>2 DEF First
    <3>2. S \ {First(S)} \in SUBSET Patterns
      OBVIOUS
    <3>3. Cardinality(Tokens(f, S)) = f[First(S)] + Cardinality(Tokens(f, S \ {First(S)}))
      BY <3>1, TokensSplit
    <3> QED
      BY <2>2, <3>2, <3>3, Zenon
  <2> QED
    BY <2>1, <2>2
<1>2. count = [S \in SUBSET Patterns |-> count[S]]
  OBVIOUS
<1> HIDE DEF count
<1>3. SumEquation(f, count)
  BY <1>1, <1>2, Zenon DEF SumEquation
<1> QED
  BY <1>3, Zenon DEF Sums

LEMMA SumCounts ==
    ASSUME NEW f \in [Patterns -> Nat]
    PROVE  SumOf(f) = Cardinality(Tokens(f, Patterns))
<1> DEFINE Wrong == {S \in SUBSET Patterns : Sums(f)[S] # Cardinality(Tokens(f, S))}
<1>1. SUFFICES Wrong = {}
  BY <1>1, SumOfIsSums
<1>2. SUFFICES ASSUME Wrong # {} PROVE FALSE
  OBVIOUS
<1>3. Wrong \subseteq FiniteSubsetsOf(Patterns)
  BY VerifyAssumption, FS_Subset DEF FiniteSubsetsOf
<1> HIDE DEF Wrong
<1>4. PICK S \in Wrong : \A T \in Wrong : ~ (<<T, S>> \in StrictSubsetOrdering(Patterns))
  BY <1>2, <1>3, FS_StrictSubsetOrderingWellFounded, WFMin
<1>5. S \in SUBSET Patterns /\ Sums(f)[S] # Cardinality(Tokens(f, S))
  BY DEF Wrong
<1>6. Sums(f)[S] = IF S = {} THEN 0 ELSE f[First(S)] + Sums(f)[S \ {First(S)}]
  <2>1. \A it, T : T \in SUBSET Patterns /\ SumEquation(f, it) =>
               it[T] = IF T = {} THEN 0 ELSE f[First(T)] + it[T \ {First(T)}]
    BY Zenon DEF SumEquation
  <2> QED
    BY <1>5, <2>1, SumsEquation
<1>7. S # {}
  BY <1>5, <1>6, NoTokens
<1>8. First(S) \in S
  BY <1>7 DEF First
<1>9. S \ {First(S)} \notin Wrong
  <2>1. <<S \ {First(S)}, S>> \in StrictSubsetOrdering(Patterns)
    BY <1>5, <1>8 DEF StrictSubsetOrdering
  <2> QED
    BY <1>4, <2>1
<1>10. Sums(f)[S \ {First(S)}] = Cardinality(Tokens(f, S \ {First(S)}))
  BY <1>5, <1>9 DEF Wrong
<1> QED
  BY <1>5, <1>6, <1>7, <1>8, <1>10, TokensSplit

LEMMA SumNat == ASSUME NEW f \in [Patterns -> Nat] PROVE SumOf(f) \in Nat
BY SumCounts, TokensFinite, FS_CardinalityType

LEMMA SumBump ==
    ASSUME NEW f \in [Patterns -> Nat], NEW x \in Patterns
    PROVE  SumOf([f EXCEPT ![x] = @ + 1]) = SumOf(f) + 1
<1> DEFINE g == [f EXCEPT ![x] = @ + 1]
<1>1. g \in [Patterns -> Nat] /\ g[x] = f[x] + 1 /\ \A y \in Patterns \ {x} : g[y] = f[y]
  OBVIOUS
<1>2. Tokens(g, Patterns \ {x}) = Tokens(f, Patterns \ {x})
  BY <1>1 DEF Tokens
<1>3. /\ SumOf(g) = g[x] + Cardinality(Tokens(g, Patterns \ {x}))
      /\ SumOf(f) = f[x] + Cardinality(Tokens(f, Patterns \ {x}))
  <2>1. Patterns \in SUBSET Patterns
    OBVIOUS
  <2>2. \A h \in [Patterns -> Nat] :
          SumOf(h) = h[x] + Cardinality(Tokens(h, Patterns \ {x}))
    BY <2>1, SumCounts, TokensSplit
  <2> HIDE DEF g
  <2> QED
    BY <1>1, <2>2
<1>4. Cardinality(Tokens(f, Patterns \ {x})) \in Nat /\ f[x] \in Nat
  BY TokensFinite, FS_CardinalityType
<1> QED
  BY <1>1, <1>2, <1>3, <1>4

-----------------------------------------------------------------------------
(* What a report says.                                                     *)

\* The report that would come out if nothing were sent from now on.
Report == [p \in Patterns |-> IF p \in unread THEN sent[p] ELSE repPattern[p]]

\* The frame that the sender has counted for its pattern and not in the total.
Lag == IF spc = "total" THEN 1 ELSE 0

\* The sender bumps the pattern first: the total lags by the frame at hand.
\* What Reconcile took for the total is in the patterns it has yet to load.
CoverInv == /\ total + Lag <= SumOf(sent)
            /\ rpc = "observed" => repTotal <= SumOf(sent)
            /\ rpc = "patterns" => repTotal <= SumOf(Report)

LEMMA CoverInit == Init => CoverInv
<1> SUFFICES ASSUME Init PROVE CoverInv
  OBVIOUS
<1>1. SumOf(sent) \in Nat
  <2>1. sent \in [Patterns -> Nat]
    BY DEF Init
  <2> QED
    BY <2>1, SumNat
<1> QED
  BY <1>1 DEF Init, CoverInv, Lag

\* A pattern is bumped: the sums over what was sent, and over what the report
\* still has to load, grow by one or stay.
LEMMA CountKeeps == ASSUME TypeOK, CoverInv, CountPattern PROVE CoverInv'
<1>1. /\ sent \in [Patterns -> Nat] /\ spattern \in Patterns
      /\ total \in Nat /\ repTotal \in Nat
      /\ repPattern \in [Patterns -> Nat] /\ unread \subseteq Patterns
  BY DEF TypeOK
<1>2. /\ sent' = [sent EXCEPT ![spattern] = @ + 1]
      /\ UNCHANGED <<rpc, total, repTotal, repPattern, unread>>
      /\ spc = "pattern" /\ spc' = "total"
  BY DEF CountPattern, readerVars
<1>3. Report \in [Patterns -> Nat]
  BY <1>1 DEF Report
<1>4. SumOf(sent) \in Nat /\ SumOf(Report) \in Nat
  BY <1>1, <1>3, SumNat
<1>5. SumOf(sent') = SumOf(sent) + 1
  BY <1>1, <1>2, SumBump
<1>6. SumOf(Report') >= SumOf(Report)
  <2>1. CASE spattern \in unread
    <3>1. Report' = [Report EXCEPT ![spattern] = @ + 1]
      BY <1>1, <1>2, <2>1 DEF Report
    <3>2. SumOf([Report EXCEPT ![spattern] = @ + 1]) = SumOf(Report) + 1
      BY <1>1, <1>3, SumBump
    <3> QED
      BY <1>4, <3>1, <3>2
  <2>2. CASE spattern \notin unread
    <3>1. Report' = Report
      BY <1>1, <1>2, <2>2 DEF Report
    <3> QED
      BY <1>4, <3>1
  <2> QED
    BY <2>1, <2>2
<1>7. SumOf(sent)' = SumOf(sent') /\ SumOf(Report)' = SumOf(Report')
  OBVIOUS
<1>8. SumOf(Report') \in Nat
  <2>1. Report' \in [Patterns -> Nat]
    BY <1>1, <1>2 DEF Report
  <2> QED
    BY <2>1, SumNat
<1> QED
  BY <1>1, <1>2, <1>4, <1>5, <1>6, <1>7, <1>8 DEF CoverInv, Lag

\* Reconcile loads a counter: the report is the same as it would have been.
LEMMA ReadKeeps == ASSUME TypeOK, CoverInv, ReaderStep PROVE CoverInv'
<1>1. /\ sent \in [Patterns -> Nat] /\ total \in Nat
      /\ repPattern \in [Patterns -> Nat] /\ unread \subseteq Patterns
  BY DEF TypeOK
<1>2. SumOf(sent) \in Nat
  BY <1>1, SumNat
<1>3. UNCHANGED <<sent, total, spc>>
  BY DEF ReaderStep, ReadTotal, ReadObserved, ReadPattern, ReportDone, senderVars
<1>4. SumOf(sent)' = SumOf(sent)
  BY <1>3
<1>5. CASE ReadTotal
  BY <1>1, <1>2, <1>3, <1>4, <1>5 DEF ReadTotal, CoverInv, Lag
<1>6. CASE ReadObserved
  <2>1. Report' = sent
    BY <1>1, <1>3, <1>6 DEF ReadObserved, Report
  <2>2. SumOf(Report)' = SumOf(sent)
    BY <2>1
  <2> QED
    BY <1>3, <1>4, <1>6, <2>2 DEF ReadObserved, CoverInv, Lag
<1>7. CASE ReadPattern
  <2>1. Report' = Report
    BY <1>1, <1>3, <1>7 DEF ReadPattern, Report
  <2>2. SumOf(Report)' = SumOf(Report)
    BY <2>1
  <2> QED
    BY <1>3, <1>4, <1>7, <2>2 DEF ReadPattern, CoverInv, Lag
<1>8. CASE ReportDone
  BY <1>3, <1>4, <1>8 DEF ReportDone, CoverInv, Lag
<1> QED
  BY <1>5, <1>6, <1>7, <1>8 DEF ReaderStep

LEMMA CoverNext == TypeOK /\ CoverInv /\ [Next]_vars => CoverInv'
<1> SUFFICES ASSUME TypeOK, CoverInv, [Next]_vars PROVE CoverInv'
  OBVIOUS
<1>1. ASSUME UNCHANGED <<sent, readerVars>>,
             total' \in Nat, total' + Lag' <= total + Lag
      PROVE  CoverInv'
  <2>1. SumOf(sent)' = SumOf(sent) /\ SumOf(Report)' = SumOf(Report)
    BY <1>1 DEF readerVars, Report
  <2>2. SumOf(sent) \in Nat /\ total \in Nat
    BY SumNat DEF TypeOK
  <2>3. total' + Lag' <= SumOf(sent)
    <3>1. Lag \in Nat /\ Lag' \in Nat
      BY DEF Lag
    <3>2. total + Lag <= SumOf(sent)
      BY DEF CoverInv
    <3>3. total' \in Nat /\ total' + Lag' <= total + Lag
      BY <1>1
    <3>4. total' + Lag' \in Int /\ total + Lag \in Int
      BY <2>2, <3>1, <3>3
    <3>5. \A a, b, c \in Int : a <= b /\ b <= c => a <= c
      OBVIOUS
    <3> QED
      BY <2>2, <3>2, <3>3, <3>4, <3>5
  <2>4. UNCHANGED <<rpc, repTotal>>
    BY <1>1 DEF readerVars
  <2> QED
    BY <2>1, <2>3, <2>4 DEF CoverInv
<1>2. CASE Deliver
  BY <1>1, <1>2 DEF Deliver, TypeOK, Lag
<1>3. CASE CountTotal
  BY <1>1, <1>3 DEF CountTotal, TypeOK, Lag
<1>4. CASE EdmStep \/ ScraperStep \/ Cancel \/ UNCHANGED vars
  <2>1. UNCHANGED <<sent, total, spc, readerVars>>
    BY <1>4 DEF EdmStep, Process, Restart, ScraperStep, ScrapeOk, ScrapeFails, Apply,
                Store, Stored, RunEnds, Cancel, vars, senderVars, readerVars
  <2> QED
    BY <1>1, <2>1 DEF TypeOK, Lag
<1> QED
  BY <1>2, <1>3, <1>4, CountKeeps, ReadKeeps DEF Next, SenderStep

\* Every report's total is covered by its patterns, for any set of patterns and
\* wherever the sender is while Reconcile goes through them.
THEOREM ReportCovered == Spec => []TotalCovered
<1>1. TypeOK /\ CoverInv => TotalCovered
  <2> SUFFICES ASSUME TypeOK, CoverInv, rpc = "patterns", unread = {}
               PROVE  repTotal <= SumOf(repPattern)
    BY DEF TotalCovered
  <2>1. Report = repPattern
    BY DEF TypeOK, Report
  <2> QED
    BY <2>1 DEF CoverInv
<1>2. Spec => []CoverInv
  BY CoverInit, CoverNext, TypeCorrect, PTL DEF Spec
<1> QED
  BY <1>1, <1>2, TypeCorrect, PTL
=============================================================================
