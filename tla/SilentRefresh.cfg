SPECIFICATION Spec
CONSTANTS
    Callers = {c1, c2}
    Tenants <- MCTenants
    Slots <- MCSlots
    SlotsOf <- MCSlotsOf
    FlowOf <- MCFlowOf
    MaxTokens = 2
INVARIANTS TypeOK FlagHeldByOne NeverRefreshedTwice
PROPERTIES NobodyWaitsForTheRefresher FlagReleased ImplementsLease
