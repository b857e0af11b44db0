SPECIFICATION Spec
CONSTANTS
  Messages = {a, b}
  Listeners = {l1, l2}
  Sender = sender
  Nobody = nobody
  MaxPushes = 3
INVARIANTS
  Conservation
  NobodySleepsOnItems
  DismissedOnlyWhenDrained
PROPERTIES
  EveryListenerStops
  ImplementsChannel
