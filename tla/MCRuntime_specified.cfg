\* One program, parsed: what of it is listed, against SPEC.md 15.2 and 15.4.
SPECIFICATION Spec
CONSTANTS
  Clauses = {"c", "d", "e", "f", "x", "y"}
  Corpora <- CircularProgram
  Programs = {"main"}
  Typed = {}
  MaxTexts = 1
  None = None
INVARIANT ParsesAsSpecified
CHECK_DEADLOCK FALSE
