SPECIFICATION HostSpec
CONSTANTS
  a1 = a1
  a2 = a2
  e1 = e1
  nobody = nobody
  Configs <- MCHostConfigs
  pA = pA
  pB = pB
  null = null
  nothing = nothing
  noManifest = noManifest
  notJson = notJson
  noPath = noPath
  outside = outside
  Pages = {p1}
  MaxBuffered = 2
  Calls = {c1, c2, c3}
  Contained = {c1}
  Git = {c3}
  Visits = {v1, v2}
  Closers = {k1, k2}
  ToolNames = {"a.x", "a.y", "b.x", "system.fetch", "system.ask_user"}
  CoreTools <- MCCoreTools
  namespaceOf <- namespace
  Disks <- MCDisks
  Tools <- MCTools
  Files = {"README.md", "app.js"}
  Actions = {"read", "write"}
  Resources <- MCResources
  EventKinds <- MCEventKinds
  Channels <- MCChannels
  Voters = {a1, a2}
  VoterLists <- MCVoterLists
  MaxSubtasks = 2
  MaxMessages = 8
  MaxListeners = 2
INVARIANTS ReturnedReachedAll DeliveryIsOrdered SubtasksAreWorked PipelineChains VotesAreSound PageShowsLatest SettledCallsAreClean OrphansComeFromOverlap RegistryIsTrusted CallsSettleInOrder NothingOutlivesProgram
CHECK_DEADLOCK FALSE
