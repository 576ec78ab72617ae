SPECIFICATION Spec
CONSTANTS
  Requests = {r1, r2, r3}
  r1 = r1
  r2 = r2
  r3 = r3
  c1 = c1
  c2 = c2
  Ids <- MCIds
  a = a
  A = A
  b = b
  Emails <- MCEmails
  Fold <- MCFold
  p = p
  q = q
  long = long
  Passwords <- MCPasswords
  Digest <- MCDigest
  Unhashable <- MCUnhashable
  Registered <- MCRegistered
  Expiry = 1
  MaxClock = 1
  MaxBroken = 1
  Traffic <- Representative
  Operations <- MCOperations
  Forged = forged
  Null = null
  NoRow = noRow
SYMMETRY Symmetry
INVARIANTS TypeOK OneAccountPerEmail LoginIsAtomic PasswordsHaveOwners HandlersRunAsEarned
CHECK_DEADLOCK FALSE
