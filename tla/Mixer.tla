------------------------------- MODULE Mixer -------------------------------
(***************************************************************************)
(* internal/mix: Mixer.Pick draws a slot in proportion to weights that the *)
(* user changes while it runs.  Pick loads every weight twice, once for    *)
(* the sum and once for the walk, and the sum is an int32.                 *)
(***************************************************************************)
EXTENDS Integers

CONSTANTS
    NSlots,     \* how many generators the mixer has (8 in the code)
    Weights,    \* the weights the flags, the config and the sliders give
    IntMax      \* largest int32; smaller in the models

ASSUME MixerAssumption ==
    /\ NSlots \in Nat \ {0}
    /\ IntMax \in Nat
    /\ Weights \subseteq -(IntMax + 1) .. IntMax

Slots == 1 .. NSlots
Nil   == 0

VARIABLES
    weight,     \* State.Mix, one word per slot
    pc,         \* where Pick is
    i,          \* the slot it looks at next
    total,      \* the int32 sum of the first pass
    r,          \* what is left of the draw in the second
    draw,       \* history: the draw
    result,     \* what Pick returned
    written,    \* history: some weight changed during this pick
    positive    \* history: the slots whose weight was positive during it

vars == <<weight, pc, i, total, r, draw, result, written, positive>>

\* Two's complement: int32 addition wraps.
Wrap(x) == ((x + IntMax + 1) % (2 * (IntMax + 1))) - (IntMax + 1)

PositiveIn(w) == {s \in Slots : w[s] > 0}

Init ==
    /\ weight \in [Slots -> Weights]
    /\ pc = "sum" /\ i = 1 /\ total = 0 /\ r = 0 /\ draw = 0 /\ result = Nil
    /\ written = FALSE /\ positive = PositiveIn(weight)

\* mutant: the walk compares with <=, one too many for every slot
WalkOffByOne ==
    /\ pc = "walk" /\ i <= NSlots
    /\ IF weight[i] > 0 /\ r <= weight[i]
         THEN result' = i /\ pc' = "done" /\ UNCHANGED <<i, r>>
         ELSE /\ r' = IF weight[i] > 0 THEN r - weight[i] ELSE r
              /\ i' = i + 1
              /\ UNCHANGED <<pc, result>>
    /\ UNCHANGED <<weight, total, draw, written, positive>>

\* mutant: negative weights are summed as well
SumNegatives ==
    /\ pc = "sum" /\ i <= NSlots
    /\ total' = Wrap(total + weight[i])
    /\ i' = i + 1
    /\ UNCHANGED <<weight, pc, r, draw, result, written, positive>>

\* mutant: the fallback indexes one past the last slot
WalkedOffPastEnd ==
    /\ pc = "walk" /\ i > NSlots
    /\ result' = i /\ pc' = "done"
    /\ UNCHANGED <<weight, i, total, r, draw, written, positive>>

\* The first pass: add up the positive weights.
Sum ==
    /\ pc = "sum" /\ i <= NSlots
    /\ total' = IF weight[i] > 0 THEN Wrap(total + weight[i]) ELSE total
    /\ i' = i + 1
    /\ UNCHANGED <<weight, pc, r, draw, result, written, positive>>

\* A sum of zero means nothing to send.
NothingToPick ==
    /\ pc = "sum" /\ i > NSlots /\ total = 0
    /\ result' = Nil /\ pc' = "done"
    /\ UNCHANGED <<weight, i, total, r, draw, written, positive>>

\* rand.IntN over the sum; it panics when the sum wrapped to a negative.
Draw ==
    /\ pc = "sum" /\ i > NSlots /\ total > 0
    /\ draw' \in 0 .. total - 1
    /\ r' = draw' /\ i' = 1 /\ pc' = "walk"
    /\ UNCHANGED <<weight, total, result, written, positive>>

DrawPanics ==
    /\ pc = "sum" /\ i > NSlots /\ total < 0
    /\ pc' = "panic"
    /\ UNCHANGED <<weight, i, total, r, draw, result, written, positive>>

\* The second pass: skip what is not positive, walk down the draw.
Walk ==
    /\ pc = "walk" /\ i <= NSlots
    /\ IF weight[i] > 0 /\ r < weight[i]
         THEN result' = i /\ pc' = "done" /\ UNCHANGED <<i, r>>
         ELSE /\ r' = IF weight[i] > 0 THEN r - weight[i] ELSE r
              /\ i' = i + 1
              /\ UNCHANGED <<pc, result>>
    /\ UNCHANGED <<weight, total, draw, written, positive>>

\* "unreachable except on race": the last slot, whatever its weight.
WalkedOff ==
    /\ pc = "walk" /\ i > NSlots
    /\ result' = NSlots /\ pc' = "done"
    /\ UNCHANGED <<weight, i, total, r, draw, written, positive>>

\* The builder comes back for the next frame.
Again ==
    /\ pc = "done"
    /\ pc' = "sum" /\ i' = 1 /\ total' = 0 /\ r' = 0 /\ draw' = 0 /\ result' = Nil
    /\ written' = FALSE /\ positive' = PositiveIn(weight)
    /\ UNCHANGED weight

\* A slider moves.
SetWeight(s, w) ==
    /\ pc # "panic" /\ w # weight[s]
    /\ weight' = [weight EXCEPT ![s] = w]
    /\ written' = TRUE
    /\ positive' = IF pc # "done" /\ w > 0 THEN positive \cup {s} ELSE positive
    /\ UNCHANGED <<pc, i, total, r, draw, result>>

PickStep == Sum \/ NothingToPick \/ Draw \/ DrawPanics \/ Walk \/ WalkedOff
Next == PickStep \/ Again \/ \E s \in Slots, w \in Weights : SetWeight(s, w)

Spec == Init /\ [][Next]_vars

-----------------------------------------------------------------------------
(* Properties.                                                             *)

TypeOK ==
    /\ weight \in [Slots -> Weights]
    /\ pc \in {"sum", "walk", "done", "panic"}
    /\ i \in 1 .. NSlots + 1
    /\ total \in -(IntMax + 1) .. IntMax
    /\ r \in Int /\ draw \in Nat
    /\ result \in Slots \cup {Nil}
    /\ written \in BOOLEAN /\ positive \subseteq Slots

\* The positive weights before slot s.
Before[s \in 1 .. NSlots + 1] ==
    IF s = 1 THEN 0
    ELSE Before[s - 1] + (IF weight[s - 1] > 0 THEN weight[s - 1] ELSE 0)

\* Nobody touched the weights during the pick and their sum is an int32.
Undisturbed == ~written /\ Before[NSlots + 1] <= IntMax

\* While nobody touches the weights, slot s is picked for exactly weight[s] of
\* the draws, the ones that fall into its stretch of the line: the choice is
\* proportional, and a slot with no weight is never chosen.
PickProportional ==
    pc = "done" /\ Undisturbed /\ result # Nil =>
        Before[result] <= draw /\ draw < Before[result + 1]

\* While nobody touches the weights, nothing is sent exactly when no weight is
\* positive, the walk does not fall off the end and the draw does not panic.
NilWhenSilent ==
    Undisturbed => /\ pc = "done" => (result = Nil <=> PositiveIn(weight) = {})
                   /\ pc = "walk" => i <= NSlots
                   /\ pc # "panic"

\* The comment on New: "Slots with zero or negative weight at pick time are
\* skipped automatically": the chosen slot had a weight at some time during
\* the pick.
ZeroWeightSkipped == pc = "done" => result = Nil \/ result \in positive

\* The comment on Pick: "Pick returns the next generator.  When all weights are
\* zero, returns nil": there is no third outcome.
PickReturns == pc # "panic"
=============================================================================
