SPECIFICATION Spec
CONSTANTS
  Vars = {a, b, t}
  Locals = {t}
  Limit = 10
  Cap = 3
  Header = 2
  Sizes = {1, 2}
SYMMETRY Statics
INVARIANTS TypeOK Intact
PROPERTIES RefusedOnlyWhenFull CompactionLeavesNoGarbage
