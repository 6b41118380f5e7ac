\* The parser appends while the worker asserts, retracts and scans.
SPECIFICATION FairSpec
CONSTANTS
  b = b  r = r  f1 = f1  f2 = f2
  Parser = Parser  Worker = Worker  None = None
  Threads = {Parser, Worker}
  Clauses <- SmallClauses
  Facts <- SmallFacts
  Builtins <- MCBuiltins
  Iterators = {i1}
INVARIANTS TypeOK GenerationOrder AtMostOneStraggler CompleteScan
PROPERTIES RetractTakesFirst ImplementsLogicalUpdateView AppendsLand
CHECK_DEADLOCK FALSE
