SPECIFICATION PxSpec
CONSTANTS PxClients = {c1, c2}  RetryMax = 1  PxMaxEvents = 4  PxMaxFaults = 0
INVARIANT ExchangeComplete
CHECK_DEADLOCK FALSE
