SPECIFICATION Spec
CONSTANTS
  None = None
  Sides = {a, b}
  Anchors = {k1}
  Docs = {d1}
  Headings = {h1, h2}
  Lines = {l1, l2}
  Headers = {m1, m2}
  MaxEdits = 2
  MaxFailures = 1
INVARIANTS
  HeaderBaseWasShared
