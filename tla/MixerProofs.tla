---------------------------- MODULE MixerProofs ----------------------------
(***************************************************************************)
(* Theorems about Mixer for any number of slots, any weights and any width *)
(* of the sum.                                                             *)
(***************************************************************************)
EXTENDS Mixer, WellFoundedInduction, TLAPS

-----------------------------------------------------------------------------
(* Induction over slots: the least slot outside a set that contains the    *)
(* first one and, with every slot, the next.                               *)

Below == {p \in Nat \X Nat : p[1] < p[2]}

LEMMA BelowWellFounded == IsWellFoundedOn(Below, Nat)
BY NatLessThanWellFounded DEF OpToRel, Below

LEMMA UpTheSlots ==
    ASSUME NEW n \in Nat, NEW T, 1 \in T, \A s \in 1 .. n : s \in T => s + 1 \in T
    PROVE  1 .. n + 1 \subseteq T
<1> DEFINE Rest == (1 .. n + 1) \ T
<1> SUFFICES ASSUME Rest # {} PROVE FALSE
  OBVIOUS
<1>1. Rest \subseteq Nat
  OBVIOUS
<1> HIDE DEF Rest
<1>2. PICK s \in Rest : \A t \in Rest : ~ (<<t, s>> \in Below)
  BY <1>1, BelowWellFounded, WFMin
<1>3. s \in 1 .. n + 1 /\ s \notin T /\ s # 1
  BY DEF Rest
<1>4. s - 1 \in 1 .. n /\ (s - 1) + 1 = s
  BY <1>3
<1>5. s - 1 \notin Rest
  <2>1. <<s - 1, s>> \in Below
    BY <1>3, <1>4 DEF Below
  <2> QED
    BY <1>2, <2>1
<1>6. s - 1 \in T
  BY <1>4, <1>5 DEF Rest
<1> QED
  BY <1>3, <1>4, <1>6

-----------------------------------------------------------------------------
(* The line that the weights make: Before is the function Line(weight),    *)
(* and there is one.                                                       *)

Gain(w, s) == IF w[s] > 0 THEN w[s] ELSE 0
LineEquation(w, f) ==
    f = [s \in 1 .. NSlots + 1 |->
           IF s = 1 THEN 0 ELSE f[s - 1] + (IF w[s - 1] > 0 THEN w[s - 1] ELSE 0)]
Line(w) == CHOOSE f : LineEquation(w, f)

LEMMA BeforeIsLine == Before = Line(weight)
BY Zenon DEF Before, Line, LineEquation

LEMMA WeightsAreInts ==
    ASSUME NEW w \in [Slots -> Weights], NEW s \in Slots
    PROVE  w[s] \in Int /\ Gain(w, s) \in Nat /\ (w[s] > 0 <=> Gain(w, s) > 0)
<1>1. w[s] \in Weights
  OBVIOUS
<1>2. w[s] \in Int
  <2>1. -(IntMax + 1) \in Int /\ IntMax \in Int
    BY MixerAssumption
  <2>2. \A x \in -(IntMax + 1) .. IntMax : x \in Int
    BY <2>1
  <2> QED
    BY <1>1, <2>2, MixerAssumption
<1> QED
  BY <1>2 DEF Gain

\* A function that starts at zero and gains each weight is found slot by slot.
LEMMA LineExists ==
    ASSUME NEW w \in [Slots -> Weights] PROVE \E f : LineEquation(w, f)
<1> DEFINE Upto(n) == {f \in [1 .. n -> Nat] :
                         f[1] = 0 /\ \A s \in 1 .. n - 1 : f[s + 1] = f[s] + Gain(w, s)}
           T == {n \in Nat \ {0} : Upto(n) # {}}
<1>1. 1 \in T
  <2>1. [s \in 1 .. 1 |-> 0] \in Upto(1)
    OBVIOUS
  <2> QED
    BY <2>1
<1>2. \A n \in 1 .. NSlots : n \in T => n + 1 \in T
  <2> SUFFICES ASSUME NEW n \in 1 .. NSlots, n \in T PROVE n + 1 \in T
    OBVIOUS
  <2>1. PICK f : f \in Upto(n)
    OBVIOUS
  <2> DEFINE g == [s \in 1 .. n + 1 |-> IF s <= n THEN f[s] ELSE f[n] + Gain(w, n)]
  <2>2. Gain(w, n) \in Nat
    BY WeightsAreInts DEF Slots
  <2>3. g \in [1 .. n + 1 -> Nat]
    BY <2>1, <2>2
  <2>4. g[1] = 0
    BY <2>1
  <2>5. \A s \in 1 .. (n + 1) - 1 : g[s + 1] = g[s] + Gain(w, s)
    <3>0. (n + 1) - 1 = n
      OBVIOUS
    <3> SUFFICES ASSUME NEW s \in 1 .. n PROVE g[s + 1] = g[s] + Gain(w, s)
      BY <3>0
    <3>1. CASE s = n
      BY <3>1
    <3>2. CASE s # n
      <4>1. s \in 1 .. n - 1
        BY <3>2
      <4>2. f[s + 1] = f[s] + Gain(w, s)
        BY <2>1, <4>1
      <4> QED
        BY <4>1, <4>2
    <3> QED
      BY <3>1, <3>2
  <2>6. g \in Upto(n + 1)
    BY <2>3, <2>4, <2>5
  <2> HIDE DEF g, Upto
  <2> QED
    BY <2>6
<1>3. NSlots + 1 \in T
  <2> HIDE DEF T
  <2>1. NSlots \in Nat /\ NSlots + 1 \in 1 .. NSlots + 1
    BY MixerAssumption
  <2> QED
    BY <1>1, <1>2, <2>1, UpTheSlots
<1>4. PICK f : f \in Upto(NSlots + 1)
  BY <1>3
<1>5. f = [s \in 1 .. NSlots + 1 |-> f[s]] /\ f[1] = 0
  BY <1>4
<1>6. \A s \in 1 .. NSlots + 1 :
        s # 1 => f[s] = f[s - 1] + (IF w[s - 1] > 0 THEN w[s - 1] ELSE 0)
  <2> SUFFICES ASSUME NEW s \in 1 .. NSlots + 1, s # 1
               PROVE  f[s] = f[s - 1] + Gain(w, s - 1)
    BY DEF Gain
  <2>1. s - 1 \in 1 .. (NSlots + 1) - 1 /\ (s - 1) + 1 = s
    BY MixerAssumption
  <2> QED
    BY <1>4, <2>1
<1> QED
  BY <1>5, <1>6 DEF LineEquation

\* What the proofs use of the line: it starts at zero, gains the positive
\* weights, never falls, and is flat only where no slot has a weight.
LEMMA LineSteps ==
    ASSUME NEW w \in [Slots -> Weights]
    PROVE  /\ Line(w)[1] = 0
           /\ \A s \in Slots : Line(w)[s + 1] = Line(w)[s] + Gain(w, s)
<1>1. LineEquation(w, Line(w))
  BY LineExists, Zenon DEF Line
<1>2. \A s \in 1 .. NSlots + 1 :
        Line(w)[s] = IF s = 1 THEN 0
                     ELSE Line(w)[s - 1] + (IF w[s - 1] > 0 THEN w[s - 1] ELSE 0)
  <2>1. \A f, s : LineEquation(w, f) /\ s \in 1 .. NSlots + 1 =>
           f[s] = IF s = 1 THEN 0
                  ELSE f[s - 1] + (IF w[s - 1] > 0 THEN w[s - 1] ELSE 0)
    BY Zenon DEF LineEquation
  <2> QED
    BY <1>1, <2>1
<1>3. 1 \in 1 .. NSlots + 1
  BY MixerAssumption
<1>4. ASSUME NEW s \in Slots PROVE Line(w)[s + 1] = Line(w)[s] + Gain(w, s)
  <2>1. s + 1 \in 1 .. NSlots + 1 /\ s + 1 # 1 /\ (s + 1) - 1 = s
    BY MixerAssumption DEF Slots
  <2> QED
    BY <1>2, <2>1 DEF Gain
<1> QED
  BY <1>2, <1>3, <1>4

LEMMA LineNat ==
    ASSUME NEW w \in [Slots -> Weights], NEW s \in 1 .. NSlots + 1
    PROVE  Line(w)[s] \in Nat
<1> DEFINE T == {t \in 1 .. NSlots + 1 : Line(w)[t] \in Nat}
<1>1. NSlots \in Nat \ {0}
  BY MixerAssumption
<1>2. 1 \in T
  BY <1>1, LineSteps
<1>3. \A t \in 1 .. NSlots : t \in T => t + 1 \in T
  <2> TAKE t \in 1 .. NSlots
  <2>1. Gain(w, t) \in Nat /\ Line(w)[t + 1] = Line(w)[t] + Gain(w, t)
    BY WeightsAreInts, LineSteps DEF Slots
  <2> QED
    BY <1>1, <2>1
<1> HIDE DEF T
<1>4. s \in T
  BY <1>1, <1>2, <1>3, UpTheSlots
<1> QED
  BY <1>4 DEF T

LEMMA LineRises ==
    ASSUME NEW w \in [Slots -> Weights], NEW s \in 1 .. NSlots + 1
    PROVE  Line(w)[s] <= Line(w)[NSlots + 1]
<1> DEFINE T == {t \in 1 .. NSlots + 1 : s <= t => Line(w)[s] <= Line(w)[t]}
<1>1. NSlots \in Nat \ {0}
  BY MixerAssumption
<1>2. 1 \in T
  <2>1. s <= 1 => s = 1
    OBVIOUS
  <2>2. Line(w)[s] \in Nat
    BY LineNat
  <2> QED
    BY <1>1, <2>1, <2>2
<1>3. \A t \in 1 .. NSlots : t \in T => t + 1 \in T
  <2> SUFFICES ASSUME NEW t \in 1 .. NSlots, t \in T, s <= t + 1
               PROVE  Line(w)[s] <= Line(w)[t + 1]
    BY <1>1
  <2>1. Gain(w, t) \in Nat /\ Line(w)[t + 1] = Line(w)[t] + Gain(w, t)
    BY WeightsAreInts, LineSteps DEF Slots
  <2>2. Line(w)[t] \in Nat /\ Line(w)[s] \in Nat
    BY <1>1, LineNat
  <2>3. CASE s <= t
    BY <2>1, <2>2, <2>3
  <2>4. CASE s = t + 1
    BY <2>2, <2>4
  <2> QED
    BY <2>3, <2>4
<1> HIDE DEF T
<1>4. NSlots + 1 \in T
  BY <1>1, <1>2, <1>3, UpTheSlots
<1> QED
  BY <1>1, <1>4 DEF T

LEMMA LineFlat ==
    ASSUME NEW w \in [Slots -> Weights]
    PROVE  Line(w)[NSlots + 1] = 0 <=> PositiveIn(w) = {}
<1>1. NSlots \in Nat \ {0}
  BY MixerAssumption
<1>2. ASSUME NEW s \in Slots, w[s] > 0 PROVE Line(w)[NSlots + 1] # 0
  <2>1. s \in 1 .. NSlots + 1 /\ s + 1 \in 1 .. NSlots + 1 /\ NSlots + 1 \in 1 .. NSlots + 1
    BY <1>1 DEF Slots
  <2>2. Line(w)[s] \in Nat /\ Line(w)[s + 1] \in Nat /\ Line(w)[NSlots + 1] \in Nat
    BY <2>1, LineNat
  <2>3. Line(w)[s + 1] = Line(w)[s] + Gain(w, s) /\ Gain(w, s) \in Nat /\ Gain(w, s) > 0
    BY <1>2, LineSteps, WeightsAreInts
  <2>4. Line(w)[s + 1] <= Line(w)[NSlots + 1]
    BY <2>1, LineRises
  <2> QED
    BY <2>2, <2>3, <2>4
<1>3. ASSUME PositiveIn(w) = {} PROVE Line(w)[NSlots + 1] = 0
  <2> DEFINE T == {t \in 1 .. NSlots + 1 : Line(w)[t] = 0}
  <2>1. 1 \in T
    BY <1>1, LineSteps
  <2>2. \A t \in 1 .. NSlots : t \in T => t + 1 \in T
    <3> TAKE t \in 1 .. NSlots
    <3>1. Gain(w, t) = 0
      BY <1>3 DEF PositiveIn, Gain, Slots
    <3>2. Line(w)[t + 1] = Line(w)[t] + Gain(w, t)
      BY LineSteps DEF Slots
    <3> QED
      BY <1>1, <3>1, <3>2
  <2> HIDE DEF T
  <2>3. NSlots + 1 \in T
    BY <1>1, <2>1, <2>2, UpTheSlots
  <2> QED
    BY <2>3 DEF T
<1> QED
  BY <1>2, <1>3 DEF PositiveIn

-----------------------------------------------------------------------------
(* The int32 sum.                                                          *)

LEMMA Modulus ==
    ASSUME NEW a \in Int, NEW m \in Nat \ {0}
    PROVE  a % m \in 0 .. m - 1 /\ (a \in 0 .. m - 1 => a % m = a)
OBVIOUS

LEMMA WrapRange ==
    ASSUME NEW x \in Int
    PROVE  /\ Wrap(x) \in -(IntMax + 1) .. IntMax
           /\ x \in 0 .. IntMax => Wrap(x) = x
<1>1. IntMax \in Nat /\ x + IntMax + 1 \in Int /\ 2 * (IntMax + 1) \in Nat \ {0}
  BY MixerAssumption
<1>2. (x + IntMax + 1) % (2 * (IntMax + 1)) \in 0 .. 2 * (IntMax + 1) - 1
  BY <1>1, Modulus
<1>3. x \in 0 .. IntMax => (x + IntMax + 1) % (2 * (IntMax + 1)) = x + IntMax + 1
  <2>1. x \in 0 .. IntMax => x + IntMax + 1 \in 0 .. 2 * (IntMax + 1) - 1
    BY <1>1
  <2> QED
    BY <1>1, <2>1, Modulus
<1> QED
  BY <1>1, <1>2, <1>3 DEF Wrap
-----------------------------------------------------------------------------
(* Types.                                                                  *)

LEMMA TypeInit == Init => TypeOK
<1> SUFFICES ASSUME Init PROVE TypeOK
  OBVIOUS
<1> USE MixerAssumption DEF Init
<1>1. weight \in [Slots -> Weights] /\ positive \subseteq Slots /\ written \in BOOLEAN
  BY DEF PositiveIn
<1>2. /\ pc \in {"sum", "walk", "done", "panic"} /\ i \in 1 .. NSlots + 1
      /\ total \in -(IntMax + 1) .. IntMax /\ r \in Int /\ draw \in Nat
      /\ result \in Slots \cup {Nil}
  OBVIOUS
<1> QED
  BY <1>1, <1>2 DEF TypeOK

LEMMA TypeNext == TypeOK /\ [Next]_vars => TypeOK'
<1> SUFFICES ASSUME TypeOK, [Next]_vars PROVE TypeOK'
  OBVIOUS
<1>0. /\ NSlots \in Nat \ {0} /\ IntMax \in Nat
      /\ \A s \in Slots : weight[s] \in Int
  <2>1. \A s \in Slots : weight[s] \in Int
    BY WeightsAreInts DEF TypeOK
  <2> QED
    BY <2>1, MixerAssumption
<1> USE DEF TypeOK
<1>1. CASE Sum
  <2>1. i \in Slots /\ i' \in 1 .. NSlots + 1
    BY <1>0, <1>1 DEF Sum, Slots
  <2>2. total' \in -(IntMax + 1) .. IntMax
    <3>1. total + weight[i] \in Int
      BY <1>0, <2>1
    <3>2. Wrap(total + weight[i]) \in -(IntMax + 1) .. IntMax
      BY <3>1, WrapRange
    <3> QED
      BY <1>1, <3>2 DEF Sum
  <2> QED
    BY <1>1, <2>1, <2>2 DEF Sum
<1>2. CASE NothingToPick
  BY <1>2 DEF NothingToPick
<1>3. CASE Draw
  BY <1>0, <1>3 DEF Draw
<1>4. CASE DrawPanics
  BY <1>4 DEF DrawPanics
<1>5. CASE Walk
  <2>1. i \in Slots
    BY <1>0, <1>5 DEF Walk, Slots
  <2>2. /\ i' \in 1 .. NSlots + 1 /\ r' \in Int /\ result' \in Slots \cup {Nil}
        /\ pc' \in {"sum", "walk", "done", "panic"}
    BY <1>0, <1>5, <2>1 DEF Walk
  <2> QED
    BY <1>5, <2>2 DEF Walk
<1>6. CASE WalkedOff
  <2>1. NSlots \in Slots
    BY <1>0 DEF Slots
  <2> QED
    BY <1>6, <2>1 DEF WalkedOff
<1>7. CASE Again
  <2>1. PositiveIn(weight) \subseteq Slots
    BY DEF PositiveIn
  <2>2. i' \in 1 .. NSlots + 1 /\ total' \in -(IntMax + 1) .. IntMax
    BY <1>0, <1>7 DEF Again
  <2>3. /\ weight' \in [Slots -> Weights] /\ positive' \subseteq Slots
        /\ written' \in BOOLEAN
    BY <1>7, <2>1 DEF Again
  <2>4. /\ pc' \in {"sum", "walk", "done", "panic"} /\ r' \in Int /\ draw' \in Nat
        /\ result' \in Slots \cup {Nil}
    BY <1>7 DEF Again
  <2> QED
    BY <2>2, <2>3, <2>4
<1>8. ASSUME NEW s \in Slots, NEW w \in Weights, SetWeight(s, w) PROVE TypeOK'
  BY <1>8 DEF SetWeight
<1>9. CASE UNCHANGED vars
  BY <1>9 DEF vars
<1> QED
  BY <1>1, <1>2, <1>3, <1>4, <1>5, <1>6, <1>7, <1>8, <1>9 DEF Next, PickStep

\* The sum stays an int32, the index within a slot of the end, and the result a
\* slot or nil, for any weights and however they change during a pick.
THEOREM TypeCorrect == Spec => []TypeOK
BY TypeInit, TypeNext, PTL DEF Spec

-----------------------------------------------------------------------------
(* Proportionality.                                                        *)

\* Undisturbed, in terms of the line.
Fits == ~written /\ Line(weight)[NSlots + 1] <= IntMax

\* The first pass has the line up to slot i; the second has the draw from there
\* on, and stops in the stretch that the draw falls into.
OnLine == /\ pc = "sum"  => total = Line(weight)[i]
          /\ pc = "walk" => /\ total = Line(weight)[NSlots + 1] /\ draw < total
                            /\ r = draw - Line(weight)[i] /\ r >= 0
          /\ pc = "done" => /\ result = Nil <=> PositiveIn(weight) = {}
                            /\ result # Nil => /\ Line(weight)[result] <= draw
                                               /\ draw < Line(weight)[result + 1]
          /\ pc # "panic"

LineInv == Fits => OnLine

LEMMA FitsIsUndisturbed == Fits <=> Undisturbed
BY BeforeIsLine DEF Fits, Undisturbed

LEMMA WalkEnds == ASSUME TypeOK, Fits, OnLine, pc = "walk" PROVE i <= NSlots
<1>1. NSlots \in Nat /\ draw \in Nat /\ r \in Int /\ i \in 1 .. NSlots + 1
  BY MixerAssumption DEF TypeOK
<1>2. Line(weight)[NSlots + 1] \in Nat
  BY <1>1, LineNat DEF TypeOK
<1>3. i # NSlots + 1
  BY <1>1, <1>2 DEF OnLine
<1> QED
  BY <1>1, <1>3

LEMMA LineInit == Init => LineInv
<1> SUFFICES ASSUME Init PROVE LineInv
  OBVIOUS
<1>1. Line(weight)[1] = 0
  BY LineSteps DEF Init
<1> QED
  BY <1>1 DEF Init, LineInv, OnLine

LEMMA LineNext == TypeOK /\ LineInv /\ [Next]_vars => LineInv'
<1> SUFFICES ASSUME TypeOK, LineInv, [Next]_vars, Fits' PROVE OnLine'
  BY DEF LineInv
<1>1. ASSUME NEW s \in Slots, NEW w \in Weights, SetWeight(s, w) PROVE FALSE
  BY <1>1 DEF SetWeight, Fits
<1>2. weight' = weight
  BY <1>1 DEF Next, PickStep, Sum, NothingToPick, Draw, DrawPanics, Walk, WalkedOff,
              Again, vars
<1>3. /\ weight \in [Slots -> Weights] /\ NSlots \in Nat \ {0} /\ IntMax \in Nat
      /\ i \in 1 .. NSlots + 1 /\ draw \in Nat /\ r \in Int /\ total \in Int
      /\ result \in Slots \cup {Nil}
  BY MixerAssumption DEF TypeOK
<1> DEFINE L == Line(weight)
<1>4. /\ L[1] = 0 /\ \A s \in Slots : L[s + 1] = L[s] + Gain(weight, s)
      /\ \A s \in 1 .. NSlots + 1 : L[s] \in Nat /\ L[s] <= L[NSlots + 1]
      /\ L[NSlots + 1] = 0 <=> PositiveIn(weight) = {}
  <2>1. L[1] = 0 /\ \A s \in Slots : L[s + 1] = L[s] + Gain(weight, s)
    BY <1>3, LineSteps
  <2>2. \A s \in 1 .. NSlots + 1 : L[s] \in Nat /\ L[s] <= L[NSlots + 1]
    BY <1>3, LineNat, LineRises
  <2>3. L[NSlots + 1] = 0 <=> PositiveIn(weight) = {}
    BY <1>3, LineFlat
  <2> QED
    BY <2>1, <2>2, <2>3
<1>5. L[NSlots + 1] <= IntMax
  BY <1>2 DEF Fits
<1>6. Line(weight)' = L
  BY <1>2
<1>7. CASE Again
  BY <1>4, <1>6, <1>7 DEF Again, OnLine
<1>8. ASSUME PickStep \/ UNCHANGED vars PROVE Fits /\ OnLine
  <2>1. written' = written
    BY <1>8 DEF PickStep, Sum, NothingToPick, Draw, DrawPanics, Walk, WalkedOff, vars
  <2>2. Fits
    BY <1>2, <2>1 DEF Fits
  <2> QED
    BY <2>2 DEF LineInv
<1>9. \A s \in Slots : /\ Gain(weight, s) = IF weight[s] > 0 THEN weight[s] ELSE 0
                       /\ weight[s] \in Int
  BY <1>3, WeightsAreInts DEF Gain
<1> HIDE DEF L
\* The sum so far and the next weight are below the whole line: nothing wraps.
<1>10. CASE Sum
  <2>1. i \in Slots /\ i + 1 \in 1 .. NSlots + 1 /\ total = L[i]
    BY <1>3, <1>8, <1>10 DEF Sum, Slots, OnLine, PickStep, L
  <2>2. weight[i] > 0 => Wrap(total + weight[i]) = total + weight[i]
    <3>1. SUFFICES ASSUME weight[i] > 0 PROVE total + weight[i] \in 0 .. IntMax
      BY <1>3, <1>9, <2>1, WrapRange
    <3>2. L[i + 1] = total + weight[i]
      BY <1>4, <1>9, <2>1, <3>1
    <3>3. L[i + 1] \in Nat /\ L[i + 1] <= L[NSlots + 1] /\ L[NSlots + 1] \in Nat
      BY <1>3, <1>4, <2>1
    <3> QED
      BY <1>3, <1>5, <3>2, <3>3
  <2>3. total' = L[i + 1]
    <3>1. L[i + 1] = L[i] + Gain(weight, i) /\ L[i] \in Nat
      BY <1>3, <1>4, <2>1
    <3>2. CASE weight[i] > 0
      BY <1>9, <1>10, <2>1, <2>2, <3>1, <3>2 DEF Sum
    <3>3. CASE ~(weight[i] > 0)
      BY <1>9, <1>10, <2>1, <3>1, <3>3 DEF Sum
    <3> QED
      BY <3>2, <3>3
  <2> QED
    BY <1>6, <1>10, <2>1, <2>3 DEF Sum, OnLine
<1>11. CASE NothingToPick
  <2>1. L[NSlots + 1] = 0
    BY <1>3, <1>8, <1>11 DEF NothingToPick, OnLine, PickStep, L
  <2> QED
    BY <1>2, <1>4, <1>6, <1>11, <2>1 DEF NothingToPick, OnLine
<1>12. CASE Draw
  <2>1. total = L[NSlots + 1]
    BY <1>3, <1>8, <1>12 DEF Draw, OnLine, PickStep, L
  <2>2. draw' \in Nat /\ draw' < total /\ r' = draw' /\ i' = 1 /\ pc' = "walk" /\ total' = total
    BY <1>3, <1>12 DEF Draw
  <2> QED
    BY <1>3, <1>4, <1>6, <2>1, <2>2 DEF OnLine
<1>13. CASE DrawPanics
  <2>1. total = L[NSlots + 1]
    BY <1>3, <1>8, <1>13 DEF DrawPanics, OnLine, PickStep, L
  <2> QED
    BY <1>3, <1>4, <1>13, <2>1 DEF DrawPanics
\* The draw is in the stretch of this slot, or beyond it.
<1>14. CASE Walk
  <2>1. /\ i \in Slots /\ total = L[NSlots + 1] /\ draw < total
        /\ r = draw - L[i] /\ r >= 0
    BY <1>3, <1>8, <1>14 DEF Walk, Slots, OnLine, PickStep, L
  <2>2. L[i + 1] = L[i] + Gain(weight, i) /\ L[i] \in Nat /\ L[i + 1] \in Nat
        /\ L[NSlots + 1] \in Nat
    BY <1>3, <1>4, <2>1 DEF Slots
  <2>3. CASE weight[i] > 0 /\ r < weight[i]
    <3>1. result' = i /\ pc' = "done" /\ draw' = draw
      BY <1>14, <2>3 DEF Walk
    <3>2. L[i] <= draw /\ draw < L[i + 1]
      BY <1>3, <1>9, <2>1, <2>2, <2>3
    <3>3. PositiveIn(weight) # {} /\ i # Nil
      BY <2>1, <2>3 DEF PositiveIn, Slots, Nil
    <3> QED
      BY <1>2, <1>6, <3>1, <3>2, <3>3 DEF OnLine
  <2>4. CASE ~(weight[i] > 0 /\ r < weight[i])
    <3>1. /\ pc' = "walk" /\ i' = i + 1 /\ draw' = draw /\ total' = total
          /\ r' = r - Gain(weight, i)
      BY <1>3, <1>9, <1>14, <2>1, <2>4 DEF Walk
    <3>2. r' = draw - L[i + 1] /\ r' >= 0
      BY <1>3, <1>9, <2>1, <2>2, <2>4, <3>1
    <3> QED
      BY <1>6, <2>1, <3>1, <3>2 DEF OnLine
  <2> QED
    BY <2>3, <2>4
<1>15. CASE WalkedOff
  BY <1>3, <1>8, <1>15, WalkEnds DEF WalkedOff, PickStep
<1>16. CASE UNCHANGED vars
  BY <1>6, <1>8, <1>16 DEF vars, OnLine, L
<1> QED
  BY <1>1, <1>7, <1>10, <1>11, <1>12, <1>13, <1>14, <1>15, <1>16 DEF Next, PickStep

LEMMA LineInvariant == Spec => []LineInv
BY LineInit, LineNext, TypeCorrect, PTL DEF Spec

\* While nobody touches the weights, each slot is chosen for exactly as many
\* draws as it has weight, for any number of slots and any weights that fit.
THEOREM Proportional == Spec => []PickProportional
<1>1. LineInv => PickProportional
  BY FitsIsUndisturbed, BeforeIsLine DEF LineInv, OnLine, PickProportional
<1> QED
  BY <1>1, LineInvariant, PTL

\* While nobody touches the weights, Pick returns nil exactly when no slot has
\* one, does not fall off the end and does not panic.
THEOREM SilentWhenZero == Spec => []NilWhenSilent
<1>1. TypeOK /\ LineInv => NilWhenSilent
  BY FitsIsUndisturbed, WalkEnds DEF LineInv, OnLine, NilWhenSilent
<1> QED
  BY <1>1, LineInvariant, TypeCorrect, PTL

-----------------------------------------------------------------------------
(* While the weights do change.                                            *)

\* No weight is above m: m * n is all that n slots can add up to.
SumBelow(m) == /\ pc = "sum" => total \in 0 .. m * (i - 1)
               /\ pc # "panic"

LEMMA SumBelowKept ==
    ASSUME NEW m \in Nat, \A w \in Weights : w <= m, m * NSlots <= IntMax,
           TypeOK, SumBelow(m), [Next]_vars
    PROVE  SumBelow(m)'
<1>1. /\ NSlots \in Nat \ {0} /\ IntMax \in Nat /\ i \in 1 .. NSlots + 1
      /\ \A s \in Slots : weight[s] \in Int /\ weight[s] <= m
  <2>1. \A s \in Slots : weight[s] \in Weights
    BY DEF TypeOK
  <2>2. \A s \in Slots : weight[s] \in Int
    BY WeightsAreInts DEF TypeOK
  <2> QED
    BY <2>1, <2>2, MixerAssumption DEF TypeOK
\* What is added up stays below what all slots can add up to.
<1>2. CASE Sum
  <2>1. i \in Slots /\ total \in 0 .. m * (i - 1)
    BY <1>1, <1>2 DEF Sum, Slots, SumBelow
  <2>2. m * (i - 1) \in Nat /\ m * i = m * (i - 1) + m
    BY <1>1
  <2>3. m * i <= m * NSlots
    <3>1. \A n \in Nat : m * n \in Nat
      OBVIOUS
    <3>2. NSlots - i \in Nat /\ m * NSlots = m * i + m * (NSlots - i)
      BY <1>1, <2>1 DEF Slots
    <3>3. m * i \in Nat /\ m * (NSlots - i) \in Nat
      BY <1>1, <3>1, <3>2
    <3> QED
      BY <3>2, <3>3
  <2>4. m * i \in Nat /\ m * NSlots \in Nat
    BY <1>1
  <2>5. weight[i] > 0 => /\ total + weight[i] \in 0 .. m * i
                         /\ Wrap(total + weight[i]) = total + weight[i]
    <3>1. SUFFICES ASSUME weight[i] > 0
                   PROVE  total + weight[i] \in 0 .. m * i /\ total + weight[i] \in 0 .. IntMax
      BY <1>1, <2>1, WrapRange
    <3>2. weight[i] \in Int /\ weight[i] <= m /\ total \in Nat /\ total <= m * (i - 1)
      BY <1>1, <2>1, <2>2
    <3>3. total + weight[i] <= m * i
      BY <2>2, <3>2
    <3> QED
      BY <1>1, <2>3, <2>4, <3>1, <3>2, <3>3
  <2>6. total' \in 0 .. m * i
    BY <1>2, <2>1, <2>2, <2>4, <2>5 DEF Sum
  <2>7. i' = i + 1 /\ pc' = pc /\ (i + 1) - 1 = i
    BY <1>1, <1>2 DEF Sum
  <2> QED
    BY <2>6, <2>7 DEF SumBelow
<1>3. CASE DrawPanics
  <2>1. total \in 0 .. m * (i - 1) /\ m * (i - 1) \in Nat
    BY <1>1, <1>3 DEF DrawPanics, SumBelow
  <2> QED
    BY <1>3, <2>1 DEF DrawPanics
<1>4. CASE NothingToPick \/ Draw \/ Walk \/ WalkedOff
  BY <1>4 DEF NothingToPick, Draw, Walk, WalkedOff, SumBelow
<1>5. CASE Again
  BY <1>5 DEF Again, SumBelow
<1>6. ASSUME NEW s \in Slots, NEW w \in Weights, SetWeight(s, w) PROVE SumBelow(m)'
  BY <1>6 DEF SetWeight, SumBelow
<1>7. CASE UNCHANGED vars
  BY <1>7 DEF vars, SumBelow
<1> QED
  BY <1>2, <1>3, <1>4, <1>5, <1>6, <1>7 DEF Next, PickStep

\* With weights that cannot add up to more than an int32, which the sliders' 100
\* and eight slots cannot, Pick always returns, also while they move.
THEOREM PickAlwaysReturns ==
    ASSUME NEW m \in Nat, \A w \in Weights : w <= m, m * NSlots <= IntMax
    PROVE  Spec => []PickReturns
<1>1. Init => SumBelow(m)
  BY DEF Init, SumBelow
<1>2. TypeOK /\ SumBelow(m) /\ [Next]_vars => SumBelow(m)'
  BY SumBelowKept
<1>3. SumBelow(m) => PickReturns
  BY DEF SumBelow, PickReturns
<1> QED
  BY <1>1, <1>2, <1>3, TypeCorrect, PTL DEF Spec

\* What has a weight now had one during this pick.
Seen == /\ pc # "done" => PositiveIn(weight) \subseteq positive
        /\ pc = "done" => result \in positive \cup {Nil, NSlots}

LEMMA SeenKept == TypeOK /\ Seen /\ [Next]_vars => Seen'
<1> SUFFICES ASSUME TypeOK, Seen, [Next]_vars PROVE Seen'
  OBVIOUS
<1>1. CASE Sum \/ Draw \/ DrawPanics
  BY <1>1 DEF Sum, Draw, DrawPanics, Seen
<1>2. CASE NothingToPick \/ WalkedOff
  BY <1>2 DEF NothingToPick, WalkedOff, Seen
<1>3. CASE Walk
  <2>1. i \in Slots /\ PositiveIn(weight) \subseteq positive
    BY <1>3, MixerAssumption DEF Walk, Seen, Slots, TypeOK
  <2>2. weight[i] > 0 => i \in positive
    BY <2>1 DEF PositiveIn
  <2> QED
    BY <1>3, <2>1, <2>2 DEF Walk, Seen
<1>4. CASE Again
  BY <1>4 DEF Again, Seen
<1>5. ASSUME NEW s \in Slots, NEW w \in Weights, SetWeight(s, w) PROVE Seen'
  <2>1. /\ UNCHANGED <<pc, result>> /\ weight' = [weight EXCEPT ![s] = w]
        /\ positive' = IF pc # "done" /\ w > 0 THEN positive \cup {s} ELSE positive
    BY <1>5 DEF SetWeight
  <2>2. PositiveIn(weight') \subseteq PositiveIn(weight) \cup (IF w > 0 THEN {s} ELSE {})
    BY <2>1 DEF PositiveIn, TypeOK
  <2>3. PositiveIn(weight)' = PositiveIn(weight')
    OBVIOUS
  <2> QED
    BY <2>1, <2>2, <2>3 DEF Seen
<1>6. CASE UNCHANGED vars
  BY <1>6 DEF vars, Seen
<1> QED
  BY <1>1, <1>2, <1>3, <1>4, <1>5, <1>6 DEF Next, PickStep

\* Only the last slot can be picked without having had a weight at some time
\* during the pick: the fallback is all that ZeroWeightSkipped fails by.
THEOREM OnlyFallbackUnweighted ==
    Spec => [](pc = "done" => result \in positive \cup {Nil, NSlots})
<1>1. Init => Seen
  BY DEF Init, Seen
<1>2. Seen => (pc = "done" => result \in positive \cup {Nil, NSlots})
  BY DEF Seen
<1> QED
  BY <1>1, <1>2, SeenKept, TypeCorrect, PTL DEF Spec
=============================================================================
