SPECIFICATION Spec
CONSTANTS
  Messages = {a, b}
  Listener = listener
  Sender = sender
  Nobody = nobody
  MaxPushes = 2
PROPERTIES
  EveryPushIsTaken
