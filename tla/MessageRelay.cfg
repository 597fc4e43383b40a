SPECIFICATION FairSpec
CONSTANTS
  MaxRos = 2
  MaxZmq = 2
INVARIANTS
  NoThreadStuck
  OutboundIsFresh
  InboundIsKept
PROPERTIES
  QuietAfterStop
  CommandsGoOut
CHECK_DEADLOCK FALSE
