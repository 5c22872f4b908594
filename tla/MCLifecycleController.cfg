SPECIFICATION Spec
CONSTANTS
  Agents = {a1, a2}
  OtherEntries = {failure_recorded}
  Payloads <- MCPayloads
  MaxBusSeq = 6
  TornWrites = TRUE
INVARIANTS DiskIsOrdered MemoryMatchesFile OneLossPerFragment HistoryIsPath LogFirst FileTellsState
PROPERTIES ImplementsAgentLifecycle
