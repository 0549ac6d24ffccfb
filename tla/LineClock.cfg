SPECIFICATION Spec
INVARIANTS TypeOK ResetExclusive ResetQuiet
PROPERTIES EnabledTicks ResetEnds
