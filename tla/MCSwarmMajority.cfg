SPECIFICATION Spec
CONSTANTS
  a1 = a1
  a2 = a2
  e1 = e1
  nobody = nobody
  Configs <- MCConfigs
  EventKinds = {e1}
  Channels <- MCChannels
  Voters = {a1, a2}
  VoterLists <- MCVoterLists
  MaxSubtasks = 2
  MaxMessages = 6
  MaxListeners = 2
INVARIANT AcceptedByMajority
CHECK_DEADLOCK FALSE
