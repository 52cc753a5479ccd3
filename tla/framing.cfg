CONSTANTS
  Header = 2
  Body <- MCBody
  MaxBody = 3
  Window = 3
  Offsets = {0, 2}
  Mark = 1
  Timeouts = {TRUE, FALSE}
SPECIFICATION FairSpec
INVARIANTS TypeOK DeliversInOrder AcceptsGenuine AcceptsIntact
PROPERTIES Delivered ImplementsChannel
CHECK_DEADLOCK FALSE
