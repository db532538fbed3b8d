SPECIFICATION Spec
CONSTANTS
  a = a
  b = b
  l1 = l1
  l2 = l2
  p1 = p1
  p2 = p2
  Rows <- FourRows
  Kinds = {a, b}
  Texts = {"", "x"}
  Blank = ""
  Hits <- NameHits
  Every = "every"
  Inputs <- TwoInputs
  Directions = {"asc", "desc"}
  Sizes <- OneAndTwo
  Loads = {l1, l2}
  Posts = {p1, p2}
  MaxSteps = 3
  Weight = 2
  Stored <- TwoStored
  Null = Null
SYMMETRY SlotSymmetry
CHECK_DEADLOCK FALSE
INVARIANTS
  RemovalsShow
