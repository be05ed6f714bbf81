SPECIFICATION FairSpec
CONSTANTS
  s1 = s1
  s2 = s2
  f1 = f1
  f2 = f2
  f3 = f3
  f4 = f4
  None = None
  Senders = {s1, s2}
  Files = {f1, f2, f3, f4}
  Owner <- FourOwners
  Bytes <- FourSizes
  Earlier <- Second
  Modulus = 1048576
  MaxKey = 2
  MaxExtras = 1
INVARIANTS Consent WholeFileSent SavedIntact NoFatal PromptCloses
PROPERTY Settles
CHECK_DEADLOCK FALSE
