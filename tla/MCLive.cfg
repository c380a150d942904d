SPECIFICATION Spec
CONSTANTS
  Indices = {a, b, c}
  TableOf <- TwoTables
  Relations <- TwoRelations
  Boxes <- LineBoxes
  Grow = 0
  Margin = 1
  Most <- Half
  Few = 1
  MaxWait = 2
  MaxChanges = 1
  MaxDeaths = 1
SYMMETRY Alike
INVARIANTS Exact KeptAsChecked
CHECK_DEADLOCK FALSE
