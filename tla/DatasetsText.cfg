SPECIFICATION SpecText
CONSTANTS
  Vars = {a, b, t}
  Locals = {t}
  Limit = 8
  Cap = 4
  Header = 1
  Sizes = {1, 2}
INVARIANTS Intact
