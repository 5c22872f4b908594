SPECIFICATION LogSpec
CONSTANTS
  Payloads = {p, q}
  MaxBusSeq = 4
  TornWrites = TRUE
INVARIANT AckedIsRecoverable
