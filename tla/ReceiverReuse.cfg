SPECIFICATION WarmSpec
CONSTANTS
  Nil = Nil
  None = None
  Zero = Zero
  one = one
  Val <- BothVal
  Payloads <- WarmBodies
  Plain = {p}
  Rep = {}
  Maps = {}
  Keys = {k1, k2}
  Opt = {o}
  Ptr = {c}
  Inl = {v}
  Elem = {e}
  PointerElem = {e}
  Branch = {}
  Wide = {}
  ResetBetween = FALSE
  MaxWire = 2
  MaxSlack = 1
INVARIANTS TypeOK AbsentIsNil WarmDecodeAllocatesUnpooled
PROPERTY DecodesAsFresh
