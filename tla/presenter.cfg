SPECIFICATION BothSpec
CONSTANTS
  c1 = c1  c2 = c2
  Consumers = {c1, c2}
  NoConsumer = NoConsumer
  MaxFrames = 6
  MaxVersion = 2
INVARIANTS
  OneUser FreshFrame BlankIsSent OnePainter PaintIsToCome
PROPERTIES ActsAsRegister
