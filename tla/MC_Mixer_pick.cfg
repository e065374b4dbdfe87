\* Three slots, weights that change under the picker, no overflow.
SPECIFICATION Spec
CONSTANTS
    NSlots = 3
    Weights <- SmallWeights
    IntMax = 5
INVARIANTS TypeOK PickProportional NilWhenSilent
CHECK_DEADLOCK FALSE
