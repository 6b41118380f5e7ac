\* A program, a session at the prompt, or a program and then a session.
SPECIFICATION FairSpec
CONSTANTS
  Clauses = {"c", "d", "e", "f", "x", "y"}
  Corpora <- AllCorpora
  Programs = {None, "main"}
  Typed = {"t1", "t2"}
  MaxTexts = 2
  None = None
INVARIANTS TypeOK SeesEarlierWork ProgramExitCodeTells NothingInFlight InlineImports
PROPERTY ProgramEnds
CHECK_DEADLOCK FALSE
