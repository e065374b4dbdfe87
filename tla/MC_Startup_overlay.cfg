\* Every command, every config file, up to two flags.
SPECIFICATION Spec
CONSTANT MaxFlags = 2
INVARIANTS TypeOK FlagsWin ConfigHolds
CHECK_DEADLOCK FALSE
