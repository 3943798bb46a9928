SPECIFICATION Spec
CONSTANTS
  Nil = Nil
  None = None
  Zero = Zero
  one = one
  Val <- BothVal
  Payloads <- PlainBodies
  Plain = {p}
  Rep = {}
  Maps = {}
  Keys = {k1, k2}
  Opt = {o}
  Ptr = {c}
  Inl = {v}
  Elem = {}
  PointerElem = {}
  Branch = {}
  Wide = {o}
  ResetBetween = FALSE
  MaxWire = 3
  MaxSlack = 1
INVARIANT AbsentIsNil
