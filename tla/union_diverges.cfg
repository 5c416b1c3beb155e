SPECIFICATION Spec
CONSTANTS
  None = None
  Sides = {a, b}
  Anchors = {k1}
  Docs = {d1}
  Headings = {h1}
  Lines = {l1, l2}
  Headers = {m1}
  MaxEdits = 2
  MaxFailures = 0
PROPERTIES
  BodiesConverge
