CONSTANT Budget <- CycleBudget
SPECIFICATION FairSpec
INVARIANTS TypeOK PausesOnlyForData NoStaleStart RadioForGnss
PROPERTIES KeepsAlternating
CHECK_DEADLOCK FALSE
