\* One worker, two queries, an IDE that waits for its replies.
SPECIFICATION FairSpecSession
CONSTANTS
  q1 = q1  q2 = q2  None = None
  Jobs = {q1, q2}
  Barriers <- NoBarriers
  Adders = {main}
  Workers = {w1}
  Requests = {"START", "STEP_INTO"}
  MaxVisits = 2
  Commands = {"run", "step_into", "incomplete", "stack_get", "status", "source", "feature_get"}
  Window = 1
  MaxCommands = 3
INVARIANTS TypeOKSession RepliesMatch ReportsWhereItHalted StepsEveryContext CommandsDelivered
PROPERTY CommandsAnswered
