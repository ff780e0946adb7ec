SPECIFICATION RemoteFairSpec
CONSTANTS
    j1 = j1
    j2 = j2
    c1 = c1
    c2 = c2
    Job <- MCJob
    Client <- MCClient
    Quality = {1}
    MaxRestarts = 1
INVARIANTS SlotAccounted ResolvedIsOwnResult UnwatchedOnlyByLostContact
PROPERTIES SlotReturns CallSettles
CHECK_DEADLOCK FALSE
