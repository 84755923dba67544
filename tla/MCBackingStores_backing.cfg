SPECIFICATION Spec
CONSTANTS
  Threads = {t1, t2}
  RustIsolates = {t1}
  Stores = {s1, s2}
  Bufs = {b1, b2}
  Addrs = {a1, a2, a3}
  None = None
  MaxRefs = 2
  ExternalLimit = 0
  MaxExternal = 1
  Uses = {}
INVARIANTS
  CountsExact
  NoDanglingAccess
  DestroyedAtHome
  NoDeadContext
  BlocksOwnedOnce
  RegistriesExact
SYMMETRY StoreSymmetry
