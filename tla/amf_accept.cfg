CONSTANTS
  Peers = {p1, p2}
  NoPeer = NoPeer
  Configs <- AllConfigs
SPECIFICATION FairSpec
INVARIANTS TypeOK StopsOnlyWhenTold NoneForgotten OneHelper
PROPERTIES ImplementsLifecycle Attended Stops
