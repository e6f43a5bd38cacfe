SPECIFICATION Spec
CONSTANTS
  MaxTask = 4
  Code = {c1}
  Signals = FALSE
INVARIANT ParentExists
