SPECIFICATION MCSpec
CONSTANTS
  Processes = {p1, p2}
  Rival = rival
  Configurations = {c1, c2}
  None = none
  Unset = unset
  MaxPolls = 2
  VirtualChannels = 6
  BankCount = 3
  MaxFlows = 3
  ChannelCounts = {1, 2}
  PortMax = 4
  AddressMax = 11
  Multicast = {4, 5, 6, 7, 8, 9}
  Loopback = {1, 2}
  PayloadMax = 2
  JitterPackets = {2, 3}
  NewFlow <- MCNewFlow
  Profiles <- MCProfiles
  Stored <- MCStored
  Sessions <- MCSessions
  Typed <- MCTyped
  Interfaces = {"lo0", "en0"}
  Stamps = {1, 2}
  Options <- MCOptions
  MaxEdits = 2
INVARIANTS
  NoEngineForgotten
  NothingLeftBehind
  FlowsListed
  SupportedIsAccepted
  EngineStaysInBounds
  BanksServeFlows
PROPERTIES
  StartedIsOurs
  OrphansEnd
  CommandsReturn
