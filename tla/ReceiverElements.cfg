SPECIFICATION Spec
CONSTANTS
  Nil = Nil
  None = None
  Zero = Zero
  one = one
  Val <- BothVal
  Payloads <- OneofBodies
  Plain = {p}
  Rep = {r}
  Maps = {m}
  Keys = {k1}
  Opt = {o}
  Ptr = {}
  Inl = {}
  Elem = {e, g}
  PointerElem = {e}
  Branch = {}
  Wide = {o}
  ResetBetween = FALSE
  MaxWire = 3
  MaxSlack = 1
INVARIANT SpareIsBlank
PROPERTIES DecodesAsFresh CapacityNeverShrinks
