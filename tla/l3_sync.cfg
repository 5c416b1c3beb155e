SPECIFICATION Spec
CONSTANTS
  None = None
  Sides = {a, b}
  Anchors = {k1}
  Docs = {d1, d2}
  Headings = {h1, h2}
  Lines = {l1, l2}
  Headers = {m1, m2}
  MaxEdits = 3
  MaxFailures = 1
INVARIANTS
  TypeOK
  BaseWasShared
PROPERTIES
  EditsStick
  LinesConverge
