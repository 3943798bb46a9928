SPECIFICATION Spec
CONSTANTS
  Base = 32
  Word = 256
  MaxVarintLen = 2
  Width8 = 2
  Width4 = 1
  Word4 = 64
  Second = 4
  ZeroTime <- NegZeroTime
  FixedLen = 2
  Callers = {c1}
  Text = {}
  Digest = {}
  Texts = {}
  Num = {}
  Opt = {}
  Packed = {}
  Maps = {5}
  Stamp = {}
  Span = {}
  Ptr = {}
  Inl = {}
  Elem = {}
  Sint = {}
  Fixed8 = {}
  Fixed4 = {}
  Doubles = {5}
  Names = {}
  Flags = {}
  Branch = {}
  Mixed = {}
  None = None
  Nil = Nil
  Messages <- SampleMessages
  Buffers = {0}
INVARIANT RoundTrips
