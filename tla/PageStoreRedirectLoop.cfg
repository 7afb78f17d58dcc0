SPECIFICATION PagesSpec
CONSTANTS
  a = a
  b = b
  c = c
  d = d
  t1 = t1
  t2 = t2
  t3 = t3
  i1 = i1
  i2 = i2
  p0 = p0
  p1 = p1
  p2 = p2
  Paths = {a, b}
  Ids = {i1, i2}
  Texts = {t1}
  Drafts <- OneText
  Procs = {p1}
  None = None
  IndexMode = "transaction"
  MaxClock = 0
  MaxRevisions = 2
SYMMETRY Interchangeable
INVARIANT NoReaderLoops
