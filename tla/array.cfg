CONSTANTS
  Values = {a, b}
  Empty = Empty
  MinCapacity = 2
  MaxCapacity = 8
SPECIFICATION ArraySpec
INVARIANTS CountIsLive NextFreeIsFirstEmpty
PROPERTY PushOverwritesNothing
