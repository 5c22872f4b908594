SPECIFICATION SandboxSpec
CONSTANTS
  Calls = {c1, c2}
  Contained = {c1}
  Git = {}
PROPERTY RunawaysAreKilled
CHECK_DEADLOCK FALSE
