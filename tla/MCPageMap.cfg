CONSTANTS
  Pages = {q1, q2, q3, q4, q5, q6}
  NoPage = NoPage
  Envs = {e1, e2}
  Pds = {0, 1}
  Pts = {t1, t2}
  RefMod = 65536
SPECIFICATION Spec
SYMMETRY Symmetry
INVARIANTS RefCounts FreeListSound TablesPrivate
PROPERTY WriteNotGained
