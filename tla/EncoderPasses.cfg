SPECIFICATION Spec
CONSTANTS
  Base = 32
  Word = 256
  MaxVarintLen = 2
  Width8 = 2
  Width4 = 1
  Word4 = 64
  Second = 4
  ZeroTime <- NegZeroTime
  FixedLen = 2
  Callers = {c1, c2}
  Text = {1}
  Digest = {9}
  Texts = {12}
  Num = {2, 10, 13}
  Opt = {3}
  Packed = {4, 14, 15, 17}
  Maps = {5, 18, 19}
  Stamp = {16, 20}
  Span = {21}
  Ptr = {6, 11}
  Inl = {7}
  Elem = {8}
  Sint = {13, 14}
  Fixed8 = {3, 17}
  Fixed4 = {15}
  Doubles = {}
  Names = {18}
  Flags = {19}
  Branch = {10, 11, 20}
  Mixed = {1, 4, 5, 6, 8, 21}
  None = None
  Nil = Nil
  Messages <- SampleMessages
  Buffers = {0, 6, 250}
SYMMETRY Symmetric
INVARIANTS TypeOK FitsExactly WritesOnlyTheMessage Deterministic RoundTrips
