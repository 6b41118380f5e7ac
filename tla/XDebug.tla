-------------------------------- MODULE XDebug --------------------------------
(***************************************************************************)
(* A debugging session: an IDE that sends commands over a stream, the      *)
(* reader of that stream (XDebugContext::consumeInput()), the controller   *)
(* (XDebugCombine), which turns commands into requests to the engine and   *)
(* halts of the engine into replies, and the engine itself.                *)
(*                                                                         *)
(* The reader and the command handlers run on the socket's thread,         *)
(* onDebugStateChanged() on the worker that halted.  A step is a critical  *)
(* section of the controller or of the engine, a reply, or an access to    *)
(* the members that the code does not guard (m_strLastId).                 *)
(*                                                                         *)
(* A command is two pieces on the wire: its name, and the rest up to the   *)
(* terminating NUL.  The transaction id of a command is its number.  A     *)
(* command without an option that it requires goes by a name of its own,   *)
(* "incomplete": parseCommand() fails, whatever its name is.               *)
(***************************************************************************)
EXTENDS Engine, SequencesExt

CONSTANTS
  Commands,      \* the names the IDE sends
  Window,        \* how many commands the IDE leaves unanswered
  MaxCommands    \* a bound on the commands of a session

ASSUME SessionAssumption == {Window, MaxCommands} \subseteq Nat

VARIABLES
  commands,       \* history: the commands sent, by transaction id
  stream,         \* the pieces sent and not read yet
  inputArgs,      \* m_currInputArgs with m_currentInputArg
  spc,            \* socket thread: "reading", "executing", "requesting", "clearing"
  line,           \* the command that consumeXDebugCommand() was called with
  taken,          \* history: the commands it was called with
  controllerState,  \* m_controllerState: whether a response is waited for
  expected,       \* m_expectedChangeReason
  lastId,         \* m_strLastId, 0 for an empty one
  listener,       \* what onDebugStateChanged() has read, for each worker
  replies         \* the replies sent

inputVars == <<commands, stream, inputArgs, taken>>
socketVars == <<spc, line>>
controllerVars == <<controllerState, expected, lastId>>
sessionVars == <<inputVars, socketVars, controllerVars, listener, replies>>
allVars == <<vars, sessionVars>>

-----------------------------------------------------------------------------

\* XDebugContext::changeReasonString().
ChangeReasonString(r) ==
  CASE r = "START" -> "run"
    [] r = "STEP_INTO" -> "step_into"
    [] r = "STEP_OVER" -> "step_over"
    [] r = "STEP_OUT" -> "step_out"
    [] r = "STOP" -> "stop"
    [] OTHER -> "unsupported"

\* The commands that are answered at once and change nothing.
Queries == {"breakpoint_set", "context_get", "context_names", "feature_set",
            "stack_get", "status", "stderr", "stdout"}

\* The command that a reply names: sendStack() and sendStatus() both write
\* "status".
ResponseName(c) == IF c = "stack_get" THEN "status" ELSE c

\* getDebugLocation(): how far the job at the front is, if the engine is halted.
DebugLocation ==
  IF isDebugHalted /\ readyJobs # <<>>
    THEN <<Head(readyJobs), visits[Head(readyJobs)]>>
    ELSE None

\* A listener that has not been called.
Quiet == [at |-> "none", location |-> None, waiting |-> FALSE, reason |-> "REGULAR"]

Reply(id, name, location) ==
  replies' = Append(replies, [id |-> id, name |-> name, location |-> location])

Answered == {replies[k].id : k \in DOMAIN replies}
Outstanding == DOMAIN commands \ Answered

InitSession ==
  /\ Init
  /\ commands = <<>>
  /\ stream = <<>>
  /\ inputArgs = <<>>
  /\ spc = "reading"
  /\ line = 0
  /\ taken = {}
  /\ controllerState = "ControllerIdle"
  /\ expected \in {"REGULAR"}
  /\ lastId = 0
  /\ listener = [w \in Workers |-> Quiet]
  /\ replies = <<>>

-----------------------------------------------------------------------------
(* The IDE and the reader.                                                 *)

SendCommand(name) ==
  /\ Len(commands) < MaxCommands
  /\ Cardinality(Outstanding) < Window
  /\ commands' = Append(commands, name)
  /\ stream' = stream \o << [id |-> Len(commands'), ends |-> FALSE],
                            [id |-> Len(commands'), ends |-> TRUE] >>
  /\ UNCHANGED <<vars, inputArgs, taken, socketVars, controllerVars, listener, replies>>

\* A slip: the arguments of a line are kept when it has been executed.
ConsumeInputKeepsArgs(n) ==
  LET chunk == SubSeq(stream, 1, n)
      end == SelectInSeq(chunk, LAMBDA piece : piece.ends)
      args == inputArgs \o SubSeq(chunk, 1, IF end = 0 THEN n ELSE end)
      known == Len(args) = 2 /\ ~args[1].ends
  IN
  /\ spc = "reading"
  /\ stream' = SubSeq(stream, n + 1, Len(stream))
  /\ inputArgs' = args
  /\ line' = IF end # 0 /\ known THEN args[1].id ELSE 0
  /\ taken' = taken \cup ({line'} \ {0})
  /\ spc' = IF line' = 0 THEN "reading" ELSE "executing"
  /\ UNCHANGED <<vars, commands, controllerVars, listener, replies>>

\* consumeInput(), with what one read returned, which may be any prefix of the
\* stream.  The loop is left at the first terminator: what follows it in the
\* same read is dropped.  A line that does not begin with a command's name is
\* no command.
ConsumeInput(n) ==
  LET chunk == SubSeq(stream, 1, n)
      end == SelectInSeq(chunk, LAMBDA piece : piece.ends)
      args == inputArgs \o SubSeq(chunk, 1, IF end = 0 THEN n ELSE end)
      known == Len(args) = 2 /\ ~args[1].ends
  IN
  /\ spc = "reading"
  /\ stream' = SubSeq(stream, n + 1, Len(stream))
  /\ inputArgs' = IF end = 0 THEN args ELSE <<>>
  /\ line' = IF end # 0 /\ known THEN args[1].id ELSE 0
  /\ taken' = taken \cup ({line'} \ {0})
  /\ spc' = IF line' = 0 THEN "reading" ELSE "executing"
  /\ UNCHANGED <<vars, commands, controllerVars, listener, replies>>

-----------------------------------------------------------------------------
(* consumeXDebugCommand(): one action for each group of branches.          *)

\* The command has one of the names, and the options it requires.
Executing(names) == spc = "executing" /\ commands[line] \in names

\* A slip: the command is not forgotten.
CommandDoneKeepsLine == spc' = "reading" /\ UNCHANGED line

\* consumeXDebugCommand() returns.
CommandDone == spc' = "reading" /\ line' = 0

\* A slip: the controller is left idle.
ExpectResponseIdle(reason) ==
  /\ lastId' = line
  /\ expected' = reason
  /\ spc' = "requesting"
  /\ UNCHANGED <<vars, inputVars, line, controllerState, listener, replies>>

\* The controller waits for the response to the command, and the lock is left.
ExpectResponse(reason) ==
  /\ lastId' = line
  /\ controllerState' = "ControllerWaitForResponse"
  /\ expected' = reason
  /\ spc' = "requesting"
  /\ UNCHANGED <<vars, inputVars, line, listener, replies>>

\* "run" does not look at the controller's state.
ExecuteRun == Executing({"run"}) /\ ExpectResponse("START")

\* "step_into" is forgotten, and never answered, while a response is waited for.
ExecuteStepInto ==
  /\ Executing({"step_into"})
  /\ IF controllerState = "ControllerIdle"
       THEN ExpectResponse("STEP_INTO")
       ELSE CommandDone /\ UNCHANGED <<vars, inputVars, controllerVars, listener, replies>>

\* A slip: the request is made of the engine only if the engine is not halted.
RequestUnhalted ==
  /\ spc = "requesting"
  /\ IF isDebugHalted THEN UNCHANGED vars ELSE RequestDebugState(expected)
  /\ CommandDone
  /\ UNCHANGED <<inputVars, controllerVars, listener, replies>>

\* m_pExecutionController->run() or stepInto(), without the controller's lock.
Request ==
  /\ spc = "requesting"
  /\ RequestDebugState(CASE commands[line] = "run" -> "START"
                         [] commands[line] = "step_into" -> "STEP_INTO")
  /\ CommandDone
  /\ UNCHANGED <<inputVars, controllerVars, listener, replies>>

ExecuteQuery ==
  /\ Executing(Queries)
  /\ Reply(line, ResponseName(commands[line]), DebugLocation)
  /\ CommandDone
  /\ UNCHANGED <<vars, inputVars, controllerVars, listener>>

\* "source" leaves its id behind.
ExecuteSource ==
  /\ Executing({"source"})
  /\ lastId' = line
  /\ Reply(line, "source", None)
  /\ CommandDone
  /\ UNCHANGED <<vars, inputVars, controllerState, expected, listener>>

\* "feature_get" replies under m_strLastId, and clears it.
ExecuteFeatureGet ==
  /\ Executing({"feature_get"})
  /\ lastId' = line
  /\ Reply(line, "feature_get", None)
  /\ spc' = "clearing"
  /\ UNCHANGED <<vars, inputVars, line, controllerState, expected, listener>>

ClearLastId ==
  /\ spc = "clearing"
  /\ lastId' = 0
  /\ CommandDone
  /\ UNCHANGED <<vars, inputVars, controllerState, expected, listener, replies>>

\* Any other command is dropped without a reply: one whose options
\* parseCommand() misses, a name that is not known, and "step_over", as the
\* branch that calls stepOver() tests for "step_into" again and is never reached.
ExecuteUnknown ==
  /\ spc = "executing"
  /\ commands[line] \notin Queries \cup {"run", "step_into", "source", "feature_get"}
  /\ CommandDone
  /\ UNCHANGED <<vars, inputVars, controllerVars, listener, replies>>

-----------------------------------------------------------------------------
(* onDebugStateChanged( INTERRUPTED ), on the worker that halted.          *)

FetchLocation(w) ==
  /\ wpc[w] = "telling"
  /\ listener[w].at = "none"
  /\ listener' = [listener EXCEPT ![w] = [Quiet EXCEPT !.at = "located",
                                                       !.location = DebugLocation]]
  /\ UNCHANGED <<vars, inputVars, socketVars, controllerVars, replies>>

\* The critical section: the controller's state is copied and becomes idle.
MirrorState(w) ==
  /\ listener[w].at = "located"
  /\ listener' = [listener EXCEPT ![w].at = "mirrored",
                    ![w].waiting = (controllerState = "ControllerWaitForResponse"),
                    ![w].reason = expected]
  /\ controllerState' = "ControllerIdle"
  /\ UNCHANGED <<vars, inputVars, socketVars, expected, lastId, replies>>

\* The reply carries the id that m_strLastId has by now, not the one copied
\* above.  A halt nobody asked for is reported as one of "run".
SendReply(w) ==
  /\ listener[w].at = "mirrored"
  /\ Reply(lastId, IF listener[w].waiting THEN ChangeReasonString(listener[w].reason) ELSE "run",
           listener[w].location)
  /\ listener' = [listener EXCEPT ![w] = Quiet]
  /\ TellListener(w)
  /\ UNCHANGED <<inputVars, socketVars, controllerVars>>

-----------------------------------------------------------------------------

\* What the engine does without the controller.
EngineWork(w) == (Sleep(w) \/ TakeJob(w) \/ Halt(w) \/ Finish(w)) /\ UNCHANGED sessionVars

ListenerStep(w) == FetchLocation(w) \/ MirrorState(w) \/ SendReply(w)

SocketStep ==
  \/ \E n \in 1..Len(stream) : ConsumeInput(n)
  \/ ExecuteRun \/ ExecuteStepInto \/ Request
  \/ ExecuteQuery \/ ExecuteSource \/ ExecuteFeatureGet \/ ClearLastId
  \/ ExecuteUnknown

NextSession ==
  \/ \E c \in Commands : SendCommand(c)
  \/ SocketStep
  \/ \E w \in Workers : EngineWork(w) \/ ListenerStep(w)
  \/ \E w \in Workers : SpuriousWake(w) /\ UNCHANGED sessionVars
  \/ \E a \in Adders : AdderStep(a) /\ UNCHANGED sessionVars

SpecSession == InitSession /\ [][NextSession]_allVars

\* The threads run: a command that was sent is read, and a worker goes on.
\* Nothing is assumed of the IDE or of the queries a program submits.
FairSpecSession ==
  /\ SpecSession
  /\ WF_allVars(SocketStep)
  /\ \A w \in Workers : WF_allVars(EngineWork(w)) /\ WF_allVars(ListenerStep(w))
  /\ \A a \in Adders : WF_allVars(AddJobPush(a) /\ UNCHANGED sessionVars)

-----------------------------------------------------------------------------
(* Properties.                                                             *)

\* Every variable of the session has its type.
TypeOKSession ==
  /\ TypeOK
  /\ commands \in Seq(Commands)
  /\ Range(stream) \cup Range(inputArgs) \subseteq [id : DOMAIN commands, ends : BOOLEAN]
  /\ spc \in {"reading", "executing", "requesting", "clearing"}
  /\ line \in DOMAIN commands \cup {0}
  /\ line = 0 <=> spc = "reading"
  /\ controllerState \in {"ControllerIdle", "ControllerWaitForResponse"}
  /\ expected \in ChangeReasons
  /\ lastId \in DOMAIN commands \cup {0}
  /\ \A w \in Workers : listener[w].at # "none" => wpc[w] = "telling"

\* Every reply carries the id of a command and the name its reply has (that of
\* the command, or "status" for "stack_get"), and no command is answered twice:
\* the IDE pairs replies with its commands by that id, while the controller
\* pairs halts with them by what it remembers of the last one.
RepliesMatch ==
  \A k \in DOMAIN replies :
    /\ replies[k].id \in DOMAIN commands
    /\ replies[k].name = ResponseName(commands[replies[k].id])
    /\ \A l \in DOMAIN replies : replies[k].id = replies[l].id => k = l

\* A halt is reported while it lasts, at the context where it is: what the IDE
\* asks for next (stack, properties) is of the place it was told.
ReportsWhereItHalted ==
  \A w \in Workers :
    listener[w].at = "mirrored" =>
      /\ listener[w].location # None
      /\ jobState[listener[w].location[1]] = "DEBUGHALTED"
      /\ listener[w].location = DebugLocation

\* The replies that report a halt, and the last of them.
Halts == {k \in DOMAIN replies : replies[k].name \in {"run", "step_into"}}
IsLastHalt(k) == k \in Halts /\ \A l \in Halts : l <= k

\* Stepping misses no context of a job: the place a "step_into" is answered
\* with is the next one of the job that was halted, or is in another job, and
\* a "run" never comes back to the job that it set going.
StepsEveryContext ==
  \A k, l \in Halts :
    /\ k < l
    /\ ~ \E m \in Halts : k < m /\ m < l
    /\ replies[l].location[1] = replies[k].location[1]
    => /\ replies[l].name = "step_into"
       /\ replies[l].location[2] = replies[k].location[2] - 1

\* No command is lost between the IDE and the controller, however the stream
\* is cut into reads.
CommandsDelivered ==
  \A id \in DOMAIN commands \ taken :
    \E k \in DOMAIN stream : stream[k] = [id |-> id, ends |-> TRUE]

\* A "run" or "step_into" is answered, unless the engine runs out of jobs: the
\* end of a job is not reported, so the answer waits for the next one.
CommandsAnswered ==
  \A id \in 1..MaxCommands :
    (id \in Outstanding /\ commands[id] \in {"run", "step_into"})
      ~> (id \in Answered \/ (readyJobs = <<>> /\ Waiting = Workers))
=============================================================================
