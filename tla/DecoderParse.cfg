SPECIFICATION Spec
CONSTANTS
  Base = 128
  Word = 256
  MaxVarintLen = 2
  Width8 = 2
  Width4 = 1
  Word4 = 16
  Second = 4
  ZeroTime <- NegZeroTime
  Packed = {1}
  Fixed8 = {2}
  Fixed4 = {8, 15}
  Num = {9}
  Text = {4}
  Bytes = {6, 14}
  Digest = {6}
  Msg = {3}
  Map = {5, 11, 12, 13}
  Stamp = {7}
  Span = {10}
  Repeated = {1, 2, 3, 5, 8, 11, 12, 13}
  MapKinds <- MCMapKinds
  FixedLen = 2
  Inputs <- AllInputs
INVARIANTS TypeOK DecodeIsParse CursorOnRecord PrescanExact SlabHolds
PROPERTY Terminates
CHECK_DEADLOCK FALSE
