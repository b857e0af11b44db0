SPECIFICATION Spec
CONSTANTS
  Messages = {a, b}
  Listener = listener
  Sender = sender
  Nobody = nobody
  MaxPushes = 5
INVARIANTS
  PermitsDoNotPileUp
PROPERTIES
  ImplementsStandard
  NotifyReturns
  ListenerStops
