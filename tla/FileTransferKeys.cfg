SPECIFICATION Spec
CONSTANTS
  s1 = s1
  s2 = s2
  f1 = f1
  f2 = f2
  f3 = f3
  f4 = f4
  None = None
  Senders = {s1, s2}
  Files = {f1, f2}
  Owner <- TwoOwners
  Bytes <- TwoSizes
  Earlier <- First
  Modulus = 1048576
  MaxKey = 1
  MaxExtras = 0
INVARIANT ReceivedExactly
CHECK_DEADLOCK FALSE
