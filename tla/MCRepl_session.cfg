\* Any four lines at the prompt, and the end of input after each.
SPECIFICATION Spec
CONSTANTS
  Words <- MCWords
  Variables = {"$a"}
  Digits = {"1"}
  Lines <- MCLines
  Files <- MCFiles
  MaxLines = 4
INVARIANTS RunsWhatIsTyped LikeOneFile HoldsNothingBack ErrorsTell
CHECK_DEADLOCK FALSE
