CONSTANTS
  t1 = t1
  t2 = t2
  t3 = t3
  Harts <- TwoHarts
  Threads = {t1, t2}
  Home <- OneEach
  Locks = {a, b}
  None = None
  CountMod = 2
SPECIFICATION Spec
INVARIANTS MutualExclusion
