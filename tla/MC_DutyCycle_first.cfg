CONSTANT Budget <- CycleBudget
SPECIFICATION Spec
INVARIANTS FirstLteConnection
