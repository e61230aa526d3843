SPECIFICATION Spec
CONSTANTS
  SELECTOR <- MCSelector
  TO_PADDING = 1
  TO_BYTES = 1
  AMOUNT_PADDING = 1
  AMOUNT_BYTES = 2
  AMOUNT_INT_DIGITS = 2
  AMOUNT_FRAC_DIGITS = 1
  PREFIX <- MCPrefix
  MIDDLE <- MCMiddle
  TEXT_BYTES = 9
  P = 65537
  CHUNK = 2
  Err = Err
  None = None
  MaxProofs = 3
  Witnesses <- MCWitnesses
  Several <- FewWitnesses
  Texts <- OtherLengths
INVARIANTS TypeOK DisplayedIsRendering DisplayedWasProved
PROPERTIES GenuineIsShown
