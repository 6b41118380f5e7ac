---------------------------- MODULE XDebugProofs ----------------------------
(***************************************************************************)
(* A debugging session runs the engine as Engine specifies it, whatever    *)
(* the IDE sends.  With an IDE that waits for each answer, no command is   *)
(* lost; with one worker thread besides, every reply is that to the        *)
(* command it names, every halt is reported where it is, and stepping      *)
(* misses no context.                                                      *)
(***************************************************************************)
EXTENDS XDebug, EngineProofs, SequenceLemmas

\* The engine keeps its invariant.
LEMMA EngineKeepsIInv == ASSUME IInv, [Next]_vars PROVE IInv'
BY EngineAssumption, NextTypeOK, NextCountInv, NextPlaceInv, NextHaltedJobInFront,
   NextNoLostWakeup DEF IInv

Pieces == [id : 1..Len(commands), ends : BOOLEAN]

Places == {None} \cup (Jobs \X (0..MaxVisits))

Told == [at : {"none", "located", "mirrored"}, location : Places, waiting : BOOLEAN,
         reason : ChangeReasons]

ReplyNames == Commands \cup {"run", "step_into", "step_over", "step_out", "stop",
                             "unsupported", "source", "feature_get", "status"}

ReplyRecords == [id : Nat, name : ReplyNames, location : Places]

\* The IDE and the reader.
InputInv ==
  /\ commands \in Seq(Commands)
  /\ stream \in Seq(Pieces)
  /\ inputArgs \in Seq(Pieces)

\* The command that is executed.
SocketInv ==
  /\ spc \in {"reading", "executing", "requesting", "clearing"}
  /\ line \in 0..Len(commands)
  /\ line = 0 <=> spc = "reading"
  /\ spc = "requesting" => commands[line] \in {"run", "step_into"}

\* What the controller remembers, and what it says.
ControllerInv ==
  /\ controllerState \in {"ControllerIdle", "ControllerWaitForResponse"}
  /\ expected \in ChangeReasons
  /\ lastId \in 0..Len(commands)
  /\ listener \in [Workers -> Told]
  /\ \A w \in Workers : listener[w].at # "none" => wpc[w] = "telling"
  /\ replies \in Seq(ReplyRecords)

SessionInv == IInv /\ InputInv /\ SocketInv /\ ControllerInv

-----------------------------------------------------------------------------

\* The place that SelectInSeq() finds.
LEMMA LeastIsIn ==
  ASSUME NEW n \in Nat, NEW T \in SUBSET (1..n), T # {}
  PROVE  Min(T) \in T
<1>1. \E x \in T : \A y \in T : x <= y
  BY LeastNumber
<1> QED BY <1>1 DEF Min

\* The place of the job at the front.
LEMMA LocationTyped == ASSUME IInv PROVE DebugLocation \in Places
<1>1. readyJobs \in Seq(Jobs) /\ visits \in [Jobs -> 0..MaxVisits]
  BY DEF IInv, TypeOK
<1>2. readyJobs # <<>> => Head(readyJobs) \in Jobs
  BY <1>1
<1> QED BY <1>1, <1>2 DEF DebugLocation, Places

-----------------------------------------------------------------------------

\* Every step of a session is a step of the engine, or none.
LEMMA SessionStepsEngine ==
  ASSUME SessionInv, {"START", "STEP_INTO"} \subseteq Requests, [NextSession]_allVars
  PROVE  [Next]_vars
<1>1. ASSUME NEW c \in Commands, SendCommand(c) PROVE UNCHANGED vars
  BY <1>1 DEF SendCommand
<1>2. ASSUME NEW n \in 1..Len(stream), ConsumeInput(n) PROVE UNCHANGED vars
  BY <1>2 DEF ConsumeInput
<1>3. CASE Request
  <2>1. commands[line] \in {"run", "step_into"}
    BY <1>3 DEF Request, SessionInv, SocketInv
  <2>2. \E r \in {"START", "STEP_INTO"} : RequestDebugState(r)
    BY <1>3, <2>1 DEF Request
  <2> QED BY <2>2 DEF Next
<1>4. CASE \/ ExecuteRun \/ ExecuteStepInto \/ ExecuteQuery \/ ExecuteSource
           \/ ExecuteFeatureGet \/ ClearLastId \/ ExecuteUnknown
  BY <1>4 DEF ExecuteRun, ExecuteStepInto, ExecuteQuery, ExecuteSource, ExecuteFeatureGet,
              ClearLastId, ExecuteUnknown, ExpectResponse
<1>5. ASSUME NEW w \in Workers, EngineWork(w) \/ ListenerStep(w) PROVE [Next]_vars
  BY <1>5 DEF EngineWork, ListenerStep, FetchLocation, MirrorState, SendReply, Next, WorkerStep
<1>6. ASSUME NEW w \in Workers, SpuriousWake(w) PROVE Next
  BY <1>6 DEF Next
<1>7. ASSUME NEW a \in Adders, AdderStep(a) PROVE Next
  BY <1>7 DEF Next
<1>8. CASE UNCHANGED allVars
  BY <1>8 DEF allVars
<1> QED BY <1>1, <1>2, <1>3, <1>4, <1>5, <1>6, <1>7, <1>8 DEF NextSession, SocketStep

\* A worker that is telling the listener goes on telling it while others work.
LEMMA TellingStays ==
  ASSUME IInv,
         \/ \E w \in Workers : (Sleep(w) \/ TakeJob(w) \/ Halt(w) \/ Finish(w) \/ SpuriousWake(w))
         \/ \E a \in Adders : AdderStep(a)
         \/ \E r \in Requests : RequestDebugState(r)
  PROVE  \A u \in Workers : wpc[u] = "telling" => wpc'[u] = "telling"
<1>0. wpc \in [Workers -> {"looping", "waiting", "woken", "slice", "telling"}]
  BY DEF IInv, TypeOK
<1>1. ASSUME NotifyOne \/ UNCHANGED wpc
      PROVE  \A u \in Workers : wpc[u] = "telling" => wpc'[u] = "telling"
  BY <1>0, <1>1 DEF NotifyOne, Waiting
<1>2. CASE \E w \in Workers : (Sleep(w) \/ TakeJob(w) \/ Halt(w) \/ Finish(w) \/ SpuriousWake(w))
  <2>1. PICK w \in Workers : Sleep(w) \/ TakeJob(w) \/ Halt(w) \/ Finish(w) \/ SpuriousWake(w)
    BY <1>2
  <2>2. wpc[w] # "telling" /\ \E p : wpc' = [wpc EXCEPT ![w] = p]
    BY <2>1 DEF Sleep, TakeJob, Halt, Finish, SpuriousWake
  <2> QED BY <1>0, <2>2
<1>3. CASE \E a \in Adders : AdderStep(a)
  <2>1. NotifyOne \/ UNCHANGED wpc
    BY <1>3 DEF AdderStep, AddJobRead, AddJobPush, IdleReached, workerVars
  <2> QED BY <1>1, <2>1
<1>4. CASE \E r \in Requests : RequestDebugState(r)
  <2>1. NotifyOne \/ UNCHANGED wpc
    BY <1>4 DEF RequestDebugState
  <2> QED BY <1>1, <2>1
<1> QED BY <1>2, <1>3, <1>4

\* One read and one line.
LEMMA ReadKeepsInput ==
  ASSUME InputInv, SocketInv, NEW n \in 1..Len(stream), ConsumeInput(n)
  PROVE  InputInv' /\ SocketInv' /\ line' \in 0..Len(commands)
<1> DEFINE chunk == SubSeq(stream, 1, n)
           I == {i \in 1..Len(chunk) : chunk[i].ends}
           end == SelectInSeq(chunk, LAMBDA piece : piece.ends)
           args == inputArgs \o SubSeq(chunk, 1, IF end = 0 THEN n ELSE end)
           known == Len(args) = 2 /\ ~args[1].ends
<1>1. /\ stream' = SubSeq(stream, n + 1, Len(stream))
      /\ inputArgs' = IF end = 0 THEN args ELSE <<>>
      /\ line' = IF end # 0 /\ known THEN args[1].id ELSE 0
      /\ spc' = IF line' = 0 THEN "reading" ELSE "executing"
      /\ commands' = commands
  BY DEF ConsumeInput
<1>2. /\ chunk \in Seq(Pieces) /\ Len(chunk) = n
      /\ stream' \in Seq(Pieces)
  BY <1>1, Parts DEF InputInv
<1>3. end \in 0..n
  <2>1. CASE I = {}
    BY <2>1 DEF SelectInSeq
  <2>2. CASE I # {}
    <3>1. I \in SUBSET (1..n) /\ n \in Nat
      BY <1>2
    <3>2. Min(I) \in I
      <4> HIDE DEF I
      <4> QED BY <2>2, <3>1, LeastIsIn
    <3>3. end = Min(I)
      BY <2>2 DEF SelectInSeq
    <3>4. I \subseteq 1..n
      BY <1>2
    <3>5. end \in 1..n
      <4> HIDE DEF I, end
      <4> QED BY <3>2, <3>3, <3>4
    <3> HIDE DEF end
    <3> QED BY <3>5
  <2> HIDE DEF I, end
  <2> QED BY <2>1, <2>2
<1> DEFINE m == IF end = 0 THEN n ELSE end
<1>4. m \in 1..n
  BY <1>3
<1> HIDE DEF chunk, end
<1>5. args \in Seq(Pieces)
  <2>1. SubSeq(chunk, 1, m) \in Seq(Pieces)
    <3> HIDE DEF m
    <3> QED BY <1>2, <1>4, Parts
  <2> QED BY <2>1, ConcatProperties DEF InputInv
<1>6. known => args[1].id \in 1..Len(commands)
  <2> HIDE DEF args
  <2>1. known => args[1] \in Pieces
    BY <1>5
  <2> QED BY <2>1 DEF Pieces
<1> HIDE DEF args
<1>7. inputArgs' \in Seq(Pieces)
  BY <1>1, <1>5
<1>8. line' \in 0..Len(commands)
  <2>1. Len(commands) \in Nat
    BY DEF InputInv
  <2> HIDE DEF known
  <2> QED BY <1>1, <1>6, <2>1
<1>9. Pieces' = Pieces
  BY <1>1 DEF Pieces
<1>10. InputInv'
  BY <1>1, <1>2, <1>7, <1>9 DEF InputInv
<1>11. SocketInv'
  BY <1>1, <1>8 DEF SocketInv
<1> QED BY <1>8, <1>10, <1>11

\* The IDE sends one more.
LEMMA SendKeepsInv ==
  ASSUME SessionInv, NEW c \in Commands, SendCommand(c)
  PROVE  /\ InputInv' /\ SocketInv' /\ ControllerInv'
         /\ Len(commands') = Len(commands) + 1
         /\ \A k \in 1..Len(commands) : commands'[k] = commands[k]
<1>0. InputInv /\ SocketInv /\ ControllerInv
  BY DEF SessionInv
<1>1. /\ commands' = Append(commands, c)
      /\ stream' = stream \o << [id |-> Len(commands'), ends |-> FALSE],
                                [id |-> Len(commands'), ends |-> TRUE] >>
      /\ UNCHANGED <<vars, inputArgs, taken, socketVars, controllerVars, listener, replies>>
  BY DEF SendCommand
<1>2. /\ commands' \in Seq(Commands) /\ Len(commands') = Len(commands) + 1
      /\ Len(commands) \in Nat
      /\ \A k \in 1..Len(commands) : commands'[k] = commands[k]
  BY <1>0, <1>1 DEF InputInv
<1> DEFINE p == [id |-> Len(commands'), ends |-> FALSE]
           q == [id |-> Len(commands'), ends |-> TRUE]
<1>3. p \in Pieces' /\ q \in Pieces' /\ Pieces \subseteq Pieces'
  BY <1>2 DEF Pieces
<1>4. stream \in Seq(Pieces') /\ inputArgs \in Seq(Pieces')
  <2>1. ASSUME NEW s \in Seq(Pieces) PROVE s \in Seq(Pieces')
    <3> DEFINE P == Pieces'
    <3>1. Pieces \subseteq P
      BY <1>3
    <3> HIDE DEF P
    <3>2. s \in Seq(P)
      BY <3>1
    <3> QED BY <3>2 DEF P
  <2> QED BY <1>0, <2>1 DEF InputInv
<1>5. stream' \in Seq(Pieces')
  <2> DEFINE P == Pieces'
  <2>1. stream \in Seq(P) /\ p \in P /\ q \in P
    BY <1>3, <1>4
  <2> HIDE DEF P, p, q
  <2>2. <<p, q>> \in Seq(P)
    BY <2>1
  <2>3. stream \o <<p, q>> \in Seq(P)
    BY <2>1, <2>2, ConcatProperties
  <2> QED BY <1>1, <2>3 DEF P, p, q
<1>6. InputInv'
  BY <1>1, <1>2, <1>4, <1>5 DEF InputInv
<1>7. SocketInv'
  <2>1. UNCHANGED <<spc, line>>
    BY <1>1 DEF socketVars
  <2>2. spc = "requesting" => line \in 1..Len(commands)
    BY <1>0, <1>2 DEF SocketInv
  <2> QED BY <1>0, <1>2, <2>1, <2>2 DEF SocketInv
<1>8. ControllerInv'
  <2>1. UNCHANGED <<controllerState, expected, lastId, listener, replies, wpc>>
    BY <1>1 DEF controllerVars, vars, workerVars
  <2> QED BY <1>0, <1>2, <2>1 DEF ControllerInv, Told, Places, ReplyRecords, ReplyNames
<1> QED BY <1>2, <1>6, <1>7, <1>8

\* The commands and the requests they lead to.
LEMMA ExecuteKeepsInv ==
  ASSUME SessionInv,
         \/ ExecuteRun \/ ExecuteStepInto \/ Request \/ ExecuteQuery \/ ExecuteSource
         \/ ExecuteFeatureGet \/ ClearLastId \/ ExecuteUnknown,
         \A u \in Workers : wpc[u] = "telling" => wpc'[u] = "telling"
  PROVE  InputInv' /\ SocketInv' /\ ControllerInv'
<1>0. InputInv /\ SocketInv /\ ControllerInv /\ IInv
  BY DEF SessionInv
<1>1. UNCHANGED <<commands, stream, inputArgs, listener>>
  BY DEF ExecuteRun, ExecuteStepInto, Request, ExecuteQuery, ExecuteSource, ExecuteFeatureGet,
         ClearLastId, ExecuteUnknown, ExpectResponse, inputVars
<1>2. InputInv'
  BY <1>0, <1>1 DEF InputInv, Pieces
<1>3. Len(commands) \in Nat /\ \A k \in 1..Len(commands) : commands[k] \in Commands
  BY <1>0 DEF InputInv
<1>4. spc # "reading" => line \in 1..Len(commands) /\ commands[line] \in Commands
  BY <1>0, <1>3 DEF SocketInv
<1>5. ASSUME UNCHANGED <<controllerState, expected, lastId, replies>> PROVE ControllerInv'
  BY <1>0, <1>1, <1>5 DEF ControllerInv, Told, Places, ReplyRecords, ReplyNames
<1>6. ASSUME CommandDone PROVE SocketInv'
  BY <1>1, <1>3, <1>6 DEF CommandDone, SocketInv
<1>7. ASSUME NEW r \in {"START", "STEP_INTO"}, spc = "executing",
             commands[line] \in {"run", "step_into"}, ExpectResponse(r)
      PROVE  SocketInv' /\ ControllerInv'
  <2>1. /\ lastId' = line /\ controllerState' = "ControllerWaitForResponse"
        /\ expected' = r /\ spc' = "requesting" /\ UNCHANGED <<line, replies>>
    BY <1>7 DEF ExpectResponse
  <2> QED BY <1>0, <1>1, <1>4, <1>7, <2>1
          DEF ControllerInv, SocketInv, ChangeReasons, Told, Places, ReplyRecords, ReplyNames
<1>8. ASSUME NEW name \in ReplyNames, NEW place \in Places, spc = "executing",
             Reply(line, name, place), lastId' \in {lastId, line},
             UNCHANGED <<controllerState, expected>>
      PROVE  ControllerInv'
  <2> DEFINE r == [id |-> line, name |-> name, location |-> place]
  <2>1. r \in ReplyRecords /\ replies' = Append(replies, r)
    BY <1>4, <1>8 DEF Reply, ReplyRecords
  <2> HIDE DEF r
  <2>2. replies' \in Seq(ReplyRecords)
    BY <1>0, <2>1 DEF ControllerInv
  <2>3. lastId' \in 0..Len(commands)
    BY <1>0, <1>3, <1>4, <1>8 DEF ControllerInv
  <2> QED BY <1>0, <1>1, <1>8, <2>2, <2>3
          DEF ControllerInv, Told, Places, ReplyRecords, ReplyNames
<1>9. CASE ExecuteRun
  BY <1>2, <1>7, <1>9 DEF ExecuteRun, Executing
<1>10. CASE ExecuteStepInto
  BY <1>2, <1>5, <1>6, <1>7, <1>10 DEF ExecuteStepInto, Executing, controllerVars
<1>11. CASE Request \/ ExecuteUnknown
  BY <1>2, <1>5, <1>6, <1>11 DEF Request, ExecuteUnknown, controllerVars
<1>12. CASE ExecuteQuery
  <2>1. ResponseName(commands[line]) \in ReplyNames /\ DebugLocation \in Places /\ spc = "executing"
    BY <1>0, <1>4, <1>12, LocationTyped DEF ExecuteQuery, Executing, ReplyNames, ResponseName
  <2> QED BY <1>2, <1>6, <1>8, <1>12, <2>1 DEF ExecuteQuery, controllerVars
<1>13. CASE ExecuteSource
  <2>1. "source" \in ReplyNames /\ None \in Places /\ spc = "executing"
    BY <1>13 DEF ExecuteSource, Executing, ReplyNames, Places
  <2> QED BY <1>2, <1>6, <1>8, <1>13, <2>1 DEF ExecuteSource
<1>14. CASE ExecuteFeatureGet
  <2>1. "feature_get" \in ReplyNames /\ None \in Places /\ spc = "executing"
    BY <1>14 DEF ExecuteFeatureGet, Executing, ReplyNames, Places
  <2>2. SocketInv'
    BY <1>0, <1>1, <1>14, <2>1 DEF ExecuteFeatureGet, SocketInv
  <2> QED BY <1>2, <1>8, <1>14, <2>1, <2>2 DEF ExecuteFeatureGet
<1>15. CASE ClearLastId
  <2>1. lastId' = 0 /\ UNCHANGED <<controllerState, expected, replies>> /\ CommandDone
    BY <1>15 DEF ClearLastId
  <2>2. ControllerInv'
    BY <1>0, <1>1, <1>3, <2>1 DEF ControllerInv, Told, Places, ReplyRecords, ReplyNames
  <2> QED BY <1>2, <1>6, <2>1, <2>2
<1> QED BY <1>9, <1>10, <1>11, <1>12, <1>13, <1>14, <1>15

\* The listener.
LEMMA ListenerKeepsInv ==
  ASSUME SessionInv, NEW w \in Workers, ListenerStep(w)
  PROVE  InputInv' /\ SocketInv' /\ ControllerInv'
<1>0. InputInv /\ SocketInv /\ ControllerInv /\ IInv
  BY DEF SessionInv
<1>1. UNCHANGED <<commands, stream, inputArgs, spc, line>>
  BY DEF ListenerStep, FetchLocation, MirrorState, SendReply, inputVars, socketVars
<1>2. InputInv' /\ SocketInv'
  BY <1>0, <1>1 DEF InputInv, SocketInv, Pieces
<1>3. ASSUME NEW x \in Told, listener' = [listener EXCEPT ![w] = x],
             \A u \in Workers : u # w => wpc'[u] = wpc[u],
             x.at # "none" => wpc'[w] = "telling",
             controllerState' \in {"ControllerIdle", "ControllerWaitForResponse"},
             UNCHANGED <<expected, lastId>>, replies' \in Seq(ReplyRecords)
      PROVE  ControllerInv'
  BY <1>0, <1>1, <1>3 DEF ControllerInv, Told, Places, ReplyRecords, ReplyNames
<1>4. listener[w] \in Told
  BY <1>0 DEF ControllerInv
<1>5. CASE FetchLocation(w)
  <2> DEFINE place == DebugLocation
             x == [Quiet EXCEPT !.at = "located", !.location = place]
  <2>1. place \in Places
    BY <1>0, LocationTyped
  <2>2. /\ listener' = [listener EXCEPT ![w] = x] /\ wpc[w] = "telling" /\ wpc' = wpc
        /\ UNCHANGED <<controllerState, expected, lastId, replies>>
    BY <1>5 DEF FetchLocation, vars, workerVars, controllerVars
  <2> HIDE DEF place
  <2>3. x \in Told
    BY <2>1 DEF Quiet, Told, ChangeReasons
  <2> HIDE DEF x
  <2> QED BY <1>0, <1>2, <1>3, <2>2, <2>3 DEF ControllerInv
<1>6. CASE MirrorState(w)
  <2> DEFINE waits == controllerState = "ControllerWaitForResponse"
             x == [listener[w] EXCEPT !.at = "mirrored", !.waiting = waits, !.reason = expected]
  <2>1. /\ listener' = [listener EXCEPT ![w] = x]
        /\ listener[w].at = "located" /\ wpc' = wpc /\ controllerState' = "ControllerIdle"
        /\ UNCHANGED <<expected, lastId, replies>>
    BY <1>0, <1>6 DEF MirrorState, vars, workerVars, ControllerInv
  <2>2. waits \in BOOLEAN /\ expected \in ChangeReasons /\ wpc[w] = "telling"
    BY <1>0, <2>1 DEF ControllerInv
  <2> HIDE DEF waits
  <2>3. x \in Told
    BY <1>4, <2>2 DEF Told
  <2> HIDE DEF x
  <2> QED BY <1>0, <1>2, <1>3, <2>1, <2>2, <2>3 DEF ControllerInv
<1>7. CASE SendReply(w)
  <2> DEFINE name == IF listener[w].waiting THEN ChangeReasonString(listener[w].reason) ELSE "run"
             place == listener[w].location
             r == [id |-> lastId, name |-> name, location |-> place]
  <2>1. /\ listener' = [listener EXCEPT ![w] = Quiet] /\ replies' = Append(replies, r)
        /\ wpc' = [wpc EXCEPT ![w] = "looping"]
        /\ UNCHANGED <<controllerState, expected, lastId>>
    BY <1>7 DEF SendReply, TellListener, Reply, controllerVars
  <2>2. name \in ReplyNames /\ place \in Places /\ lastId \in Nat
    BY <1>0, <1>4 DEF ChangeReasonString, ReplyNames, Told, ControllerInv
  <2> HIDE DEF name, place
  <2>3. r \in ReplyRecords /\ Quiet \in Told /\ Quiet.at = "none"
    BY <2>2 DEF ReplyRecords, Quiet, Told, Places, ChangeReasons
  <2> HIDE DEF r
  <2>4. replies' \in Seq(ReplyRecords)
    BY <1>0, <2>1, <2>3 DEF ControllerInv
  <2>5. \A u \in Workers : u # w => wpc'[u] = wpc[u]
    BY <1>0, <2>1 DEF IInv, TypeOK
  <2> QED BY <1>0, <1>2, <1>3, <2>1, <2>3, <2>4, <2>5 DEF ControllerInv
<1> QED BY <1>5, <1>6, <1>7 DEF ListenerStep

LEMMA InitSessionInv == InitSession => SessionInv
<1> SUFFICES ASSUME InitSession PROVE SessionInv
  OBVIOUS
<1>1. IInv
  BY InitIInv DEF InitSession
<1>2. /\ commands = <<>> /\ stream = <<>> /\ inputArgs = <<>> /\ spc = "reading" /\ line = 0
      /\ controllerState = "ControllerIdle" /\ expected = "REGULAR" /\ lastId = 0
      /\ listener = [w \in Workers |-> Quiet] /\ replies = <<>>
  BY DEF InitSession
<1>3. Quiet \in Told /\ Quiet.at = "none"
  BY DEF Quiet, Told, Places, ChangeReasons
<1>4. InputInv
  BY <1>2 DEF InputInv
<1>5. SocketInv
  BY <1>2 DEF SocketInv
<1>6. ControllerInv
  BY <1>2, <1>3 DEF ControllerInv, ChangeReasons
<1> QED BY <1>1, <1>4, <1>5, <1>6 DEF SessionInv

\* Every step keeps the invariant of the session.
LEMMA SessionKeepsInv ==
  ASSUME SessionInv, {"START", "STEP_INTO"} \subseteq Requests, [NextSession]_allVars
  PROVE  SessionInv'
<1>0. IInv'
  BY SessionStepsEngine, EngineKeepsIInv DEF SessionInv
<1>1. ASSUME UNCHANGED sessionVars,
             \A u \in Workers : wpc[u] = "telling" => wpc'[u] = "telling"
      PROVE  InputInv' /\ SocketInv' /\ ControllerInv'
  BY <1>1 DEF sessionVars, inputVars, socketVars, controllerVars, SessionInv, InputInv, SocketInv,
              ControllerInv, Pieces, Told, Places, ReplyRecords, ReplyNames
<1>2. ASSUME NEW c \in Commands, SendCommand(c) PROVE SessionInv'
  BY <1>0, <1>2, SendKeepsInv DEF SessionInv
<1>3. ASSUME NEW n \in 1..Len(stream), ConsumeInput(n) PROVE SessionInv'
  <2>1. InputInv' /\ SocketInv'
    BY <1>3, ReadKeepsInput DEF SessionInv
  <2>2. UNCHANGED <<commands, controllerState, expected, lastId, listener, replies, wpc>>
    BY <1>3 DEF ConsumeInput, controllerVars, vars, workerVars
  <2>3. ControllerInv'
    BY <2>2 DEF SessionInv, ControllerInv, Told, Places, ReplyRecords, ReplyNames
  <2> QED BY <1>0, <2>1, <2>3 DEF SessionInv
<1>4. CASE \/ ExecuteRun \/ ExecuteStepInto \/ ExecuteQuery \/ ExecuteSource
           \/ ExecuteFeatureGet \/ ClearLastId \/ ExecuteUnknown
  <2>1. wpc' = wpc
    BY <1>4 DEF ExecuteRun, ExecuteStepInto, ExecuteQuery, ExecuteSource, ExecuteFeatureGet,
                ClearLastId, ExecuteUnknown, ExpectResponse, vars, workerVars
  <2> QED BY <1>0, <1>4, <2>1, ExecuteKeepsInv DEF SessionInv
<1>5. CASE Request
  <2>1. commands[line] \in {"run", "step_into"}
    BY <1>5 DEF Request, SessionInv, SocketInv
  <2>2. \E r \in Requests : RequestDebugState(r)
    BY <1>5, <2>1 DEF Request
  <2>3. \A u \in Workers : wpc[u] = "telling" => wpc'[u] = "telling"
    BY <2>2, TellingStays DEF SessionInv
  <2> QED BY <1>0, <1>5, <2>3, ExecuteKeepsInv DEF SessionInv
<1>6. ASSUME NEW w \in Workers, EngineWork(w) \/ (SpuriousWake(w) /\ UNCHANGED sessionVars)
      PROVE  SessionInv'
  <2>1. \A u \in Workers : wpc[u] = "telling" => wpc'[u] = "telling"
    BY <1>6, TellingStays DEF SessionInv, EngineWork
  <2> QED BY <1>0, <1>1, <1>6, <2>1 DEF SessionInv, EngineWork
<1>7. ASSUME NEW a \in Adders, AdderStep(a), UNCHANGED sessionVars PROVE SessionInv'
  <2>1. \A u \in Workers : wpc[u] = "telling" => wpc'[u] = "telling"
    BY <1>7, TellingStays DEF SessionInv
  <2> QED BY <1>0, <1>1, <1>7, <2>1 DEF SessionInv
<1>8. ASSUME NEW w \in Workers, ListenerStep(w) PROVE SessionInv'
  BY <1>0, <1>8, ListenerKeepsInv DEF SessionInv
<1>9. CASE UNCHANGED allVars
  BY <1>0, <1>1, <1>9 DEF allVars, vars, workerVars, SessionInv
<1> QED BY <1>2, <1>3, <1>4, <1>5, <1>6, <1>7, <1>8, <1>9 DEF NextSession, SocketStep

LEMMA SessionInductive ==
  ASSUME {"START", "STEP_INTO"} \subseteq Requests
  PROVE  SpecSession => []SessionInv
BY InitSessionInv, SessionKeepsInv, PTL DEF SpecSession

\* The debugger is one of the clients Engine allows for: every session is a
\* behaviour of Engine, so all that is proved of the engine holds in it, its
\* queue and its wake-ups included.
THEOREM SessionRunsEngine ==
  ASSUME {"START", "STEP_INTO"} \subseteq Requests
  PROVE  SpecSession => Spec
<1>1. InitSession => Init
  BY DEF InitSession
<1>2. SessionInv /\ [NextSession]_allVars => [Next]_vars
  BY SessionStepsEngine
<1> QED BY SessionInductive, <1>1, <1>2, PTL DEF SpecSession, Spec

\* TypeOKSession, for any commands, cut into any reads, and any number of
\* workers, jobs and commands under way.
THEOREM SessionTypeCorrect ==
  ASSUME {"START", "STEP_INTO"} \subseteq Requests
  PROVE  SpecSession => []TypeOKSession
<1>1. SessionInv => TypeOKSession
  <2> SUFFICES ASSUME SessionInv PROVE TypeOKSession
    OBVIOUS
  <2>1. InputInv /\ SocketInv /\ ControllerInv /\ TypeOK
    BY DEF SessionInv, IInv
  <2>2. DOMAIN commands = 1..Len(commands) /\ Len(commands) \in Nat
    BY <2>1 DEF InputInv
  <2>3. Range(stream) \cup Range(inputArgs) \subseteq [id : DOMAIN commands, ends : BOOLEAN]
    <3>1. ASSUME NEW s \in Seq(Pieces) PROVE Range(s) \subseteq Pieces
      BY DEF Range
    <3>2. Pieces = [id : DOMAIN commands, ends : BOOLEAN]
      BY <2>2 DEF Pieces
    <3> QED BY <2>1, <3>1, <3>2 DEF InputInv
  <2>4. line \in DOMAIN commands \cup {0} /\ lastId \in DOMAIN commands \cup {0}
    BY <2>1, <2>2 DEF SocketInv, ControllerInv
  <2> QED BY <2>1, <2>3, <2>4 DEF TypeOKSession, InputInv, SocketInv, ControllerInv
<1> QED BY SessionInductive, <1>1, PTL

-----------------------------------------------------------------------------
(* An IDE that waits for each answer: Window = 1.                          *)

Sent == Len(commands)

Unended == [id |-> Sent, ends |-> FALSE]
Ended == [id |-> Sent, ends |-> TRUE]

\* Where the last command is: taken, or behind its first piece, or on the wire.
Delivery ==
  \/ stream = <<>> /\ inputArgs = <<>> /\ taken = 1..Sent
  \/ stream = <<Ended>> /\ inputArgs = <<Unended>> /\ Sent \notin taken
  \/ stream = <<Unended, Ended>> /\ inputArgs = <<>> /\ Sent \notin taken

\* All but the last command were taken, and only those that were are answered.
DeliveryInv ==
  /\ taken \subseteq 1..Sent
  /\ 1..(Sent - 1) \subseteq taken
  /\ line \in taken \cup {0}
  /\ lastId \in taken \cup {0}
  /\ \A k \in 1..Len(replies) : replies[k].id \in taken \cup {0}
  /\ Delivery

LEMMA MinOfOne == ASSUME NEW k \in Nat PROVE Min({k}) = k
BY DEF Min

LEMMA InitDelivery == InitSession => DeliveryInv
BY DEF InitSession, DeliveryInv, Delivery, Sent

\* The IDE sends the next command when it has the answer to the one before:
\* by then the wire is empty.
LEMMA SendWhenAnswered ==
  ASSUME Window = 1, SessionInv, DeliveryInv, NEW c \in Commands, SendCommand(c)
  PROVE  /\ stream = <<>> /\ inputArgs = <<>> /\ taken = 1..Sent
         /\ \A k \in 1..Sent : \E l \in 1..Len(replies) : replies[l].id = k
<1>1. Sent \in Nat /\ DOMAIN commands = 1..Sent
  BY DEF SessionInv, InputInv, Sent
<1>2. DOMAIN replies = 1..Len(replies)
  BY DEF SessionInv, ControllerInv
<1>3. Outstanding = {}
  <2>1. IsFiniteSet(Outstanding)
    <3>1. IsFiniteSet(1..Sent) /\ Outstanding \subseteq 1..Sent
      BY <1>1, FS_Interval DEF Outstanding
    <3> QED BY <3>1, FS_Subset
  <2>2. Cardinality(Outstanding) < 1
    BY DEF SendCommand
  <2> QED BY <2>1, <2>2, FS_CardinalityType, FS_EmptySet
<1>4. 1..Sent \subseteq Answered
  BY <1>1, <1>3 DEF Outstanding
<1>5. \A k \in 1..Sent : \E l \in 1..Len(replies) : replies[l].id = k
  BY <1>2, <1>4 DEF Answered
<1>6. Answered \subseteq taken \cup {0}
  BY <1>2 DEF Answered, DeliveryInv
<1>7. 1..Sent \subseteq taken
  BY <1>1, <1>4, <1>6
<1>8. Sent \in taken \/ Sent = 0
  BY <1>1, <1>7
<1>9. CASE Sent = 0
  <2>1. Unended \notin Pieces /\ Ended \notin Pieces
    BY <1>9 DEF Unended, Ended, Pieces, Sent
  <2>2. stream # <<Ended>> /\ stream # <<Unended, Ended>>
    <3>1. ASSUME NEW k \in 1..Len(stream) PROVE stream[k] \in Pieces
      BY <3>1 DEF SessionInv, InputInv
    <3>2. ASSUME stream = <<Ended>> \/ stream = <<Unended, Ended>> PROVE FALSE
      BY <2>1, <3>1, <3>2
    <3> QED BY <3>2
  <2> QED BY <1>5, <2>2 DEF DeliveryInv, Delivery
<1> QED BY <1>5, <1>8, <1>9 DEF DeliveryInv, Delivery

LEMMA SendKeepsDelivery ==
  ASSUME Window = 1, SessionInv, DeliveryInv, NEW c \in Commands, SendCommand(c)
  PROVE  DeliveryInv'
<1>1. /\ stream' = stream \o << [id |-> Sent', ends |-> FALSE], [id |-> Sent', ends |-> TRUE] >>
      /\ UNCHANGED <<inputArgs, taken, line, lastId, replies>>
  BY DEF SendCommand, Sent, socketVars, controllerVars
<1>2. Sent \in Nat /\ Sent' = Sent + 1
  BY SendKeepsInv DEF SessionInv, InputInv, Sent
<1>3. stream = <<>> /\ inputArgs = <<>> /\ taken = 1..Sent
  BY SendWhenAnswered
<1>4. stream' = <<Unended, Ended>>'
  <2> DEFINE pair == << [id |-> Sent', ends |-> FALSE], [id |-> Sent', ends |-> TRUE] >>
  <2>1. stream' = <<>> \o pair
    BY <1>1, <1>3
  <2>2. <<>> \o pair = pair
    OBVIOUS
  <2> QED BY <2>1, <2>2 DEF Unended, Ended
<1>5. taken' = 1..(Sent' - 1) /\ Sent' \notin taken' /\ taken' \subseteq 1..Sent'
  BY <1>1, <1>2, <1>3
<1>6. Delivery'
  BY <1>1, <1>3, <1>4, <1>5 DEF Delivery
<1> QED BY <1>1, <1>5, <1>6 DEF DeliveryInv

\* A read takes the first piece, the second, or both.
LEMMA ReadKeepsDelivery ==
  ASSUME SessionInv, DeliveryInv, NEW n \in 1..Len(stream), ConsumeInput(n)
  PROVE  DeliveryInv' /\ line' \in {0, Sent} /\ (line' # 0 => Sent \notin taken)
<1> DEFINE chunk == SubSeq(stream, 1, n)
           end == SelectInSeq(chunk, LAMBDA piece : piece.ends)
           args == inputArgs \o SubSeq(chunk, 1, IF end = 0 THEN n ELSE end)
           known == Len(args) = 2 /\ ~args[1].ends
           rest == SubSeq(stream, n + 1, Len(stream))
<1>1. /\ stream' = rest
      /\ inputArgs' = IF end = 0 THEN args ELSE <<>>
      /\ line' = IF end # 0 /\ known THEN args[1].id ELSE 0
      /\ taken' = taken \cup ({line'} \ {0})
      /\ UNCHANGED <<commands, lastId, replies>>
  BY DEF ConsumeInput, controllerVars
<1>2. Sent \in Nat /\ Sent' = Sent /\ Ended' = Ended /\ Unended' = Unended
  BY <1>1 DEF SessionInv, InputInv, Sent, Ended, Unended
<1>3. Sent # 0 \/ stream = <<>>
  <2>1. stream # <<>> => stream[1] \in Pieces
    BY DEF SessionInv, InputInv
  <2> QED BY <2>1 DEF Pieces, Sent
<1>4. ASSUME stream' = <<>>, inputArgs' = <<>>, line' = Sent, Sent # 0, Sent \notin taken
      PROVE  DeliveryInv'
  <2>1. taken' = taken \cup {Sent}
    BY <1>1, <1>4
  <2>2. taken \subseteq 1..Sent /\ 1..(Sent - 1) \subseteq taken
    BY DEF DeliveryInv
  <2>3. 1..Sent = 1..(Sent - 1) \cup {Sent}
    <3> DEFINE l == Sent
    <3>1. l \in Nat /\ l # 0
      BY <1>2, <1>4
    <3> HIDE DEF l
    <3>2. 1..l = 1..(l - 1) \cup {l}
      BY <3>1
    <3> QED BY <3>2 DEF l
  <2>4. taken' = 1..Sent
    BY <2>1, <2>2, <2>3
  <2>5. Delivery'
    BY <1>2, <1>4, <2>4 DEF Delivery
  <2> QED BY <1>1, <1>2, <1>4, <2>1, <2>2, <2>4, <2>5 DEF DeliveryInv
<1>5. CASE stream = <<Ended>> /\ inputArgs = <<Unended>> /\ Sent \notin taken
  <2>1. n = 1
    BY <1>5
  <2>2. chunk = <<Ended>> /\ rest = <<>>
    <3>1. SubSeq(<<Ended>>, 1, 1) = <<Ended>> /\ SubSeq(<<Ended>>, 2, 1) = <<>>
      BY TwoPieces
    <3>2. Len(stream) = 1 /\ n + 1 = 2
      BY <1>5, <2>1
    <3> QED BY <1>5, <2>1, <3>1, <3>2
  <2>3. end = 1
    <3>1. {i \in 1..Len(<<Ended>>) : <<Ended>>[i].ends} = {1}
      BY DEF Ended
    <3> QED BY <2>2, <3>1, MinOfOne DEF SelectInSeq
  <2>4. args = <<Unended, Ended>>
    <3>1. SubSeq(<<Ended>>, 1, 1) = <<Ended>> /\ <<Unended>> \o <<Ended>> = <<Unended, Ended>>
      BY TwoPieces
    <3> HIDE DEF end, chunk
    <3>2. SubSeq(chunk, 1, 1) = <<Ended>>
      BY <2>2, <3>1
    <3>3. args = <<Unended>> \o <<Ended>>
      <4> DEFINE p == <<Unended>>
                 q == SubSeq(chunk, 1, 1)
      <4>1. inputArgs = p /\ args = inputArgs \o q
        BY <1>5, <2>3
      <4> HIDE DEF p, q, args
      <4>2. args = p \o q
        BY <4>1
      <4>3. args = p \o <<Ended>>
        BY <3>2, <4>2 DEF q
      <4> QED BY <4>3 DEF p
    <3> QED BY <3>1, <3>3
  <2> HIDE DEF args, end, rest
  <2>5. known /\ args[1].id = Sent
    BY <2>4 DEF Unended
  <2> HIDE DEF known
  <2> QED BY <1>1, <1>3, <1>4, <1>5, <2>2, <2>3, <2>5
<1>6. CASE stream = <<Unended, Ended>> /\ inputArgs = <<>> /\ Sent \notin taken
  <2>1. n \in {1, 2}
    BY <1>6
  <2>2. CASE n = 1
    <3>1. chunk = <<Unended>> /\ rest = <<Ended>>
      <4>1. SubSeq(<<Unended, Ended>>, 1, 1) = <<Unended>> /\ SubSeq(<<Unended, Ended>>, 2, 2) = <<Ended>>
        BY TwoPieces
      <4>2. Len(stream) = 2 /\ n + 1 = 2
        BY <1>6, <2>2
      <4> QED BY <1>6, <2>2, <4>1, <4>2
    <3>2. end = 0
      <4>1. {i \in 1..Len(<<Unended>>) : <<Unended>>[i].ends} = {}
        BY DEF Unended
      <4> QED BY <3>1, <4>1 DEF SelectInSeq
    <3>3. args = <<Unended>>
      <4> HIDE DEF end, chunk
      <4>1. SubSeq(chunk, 1, 1) = <<Unended>>
        BY <3>1, TwoPieces
      <4> QED BY <1>6, <2>2, <3>2, <4>1
    <3> HIDE DEF args, end, known, rest
    <3>4. stream' = <<Ended>> /\ inputArgs' = <<Unended>> /\ line' = 0 /\ taken' = taken
      BY <1>1, <3>1, <3>2, <3>3
    <3>5. Delivery'
      BY <1>2, <1>6, <3>4 DEF Delivery
    <3> QED BY <1>1, <1>2, <3>4, <3>5 DEF DeliveryInv
  <2>3. CASE n = 2
    <3>1. chunk = <<Unended, Ended>> /\ rest = <<>>
      <4>1. SubSeq(<<Unended, Ended>>, 1, 2) = <<Unended, Ended>> /\ SubSeq(<<Unended, Ended>>, 3, 2) = <<>>
        BY TwoPieces
      <4>2. Len(stream) = 2 /\ n + 1 = 3
        BY <1>6, <2>3
      <4> QED BY <1>6, <2>3, <4>1, <4>2
    <3>2. end = 2
      <4>1. {i \in 1..Len(<<Unended, Ended>>) : <<Unended, Ended>>[i].ends} = {2}
        BY DEF Unended, Ended
      <4> QED BY <3>1, <4>1, MinOfOne DEF SelectInSeq
    <3>3. args = <<Unended, Ended>>
      <4> HIDE DEF end, chunk
      <4>1. SubSeq(chunk, 1, 2) = <<Unended, Ended>>
        BY <3>1, TwoPieces
      <4> QED BY <1>6, <2>3, <3>2, <4>1
    <3> HIDE DEF args, end, rest
    <3>4. known /\ args[1].id = Sent
      BY <3>3 DEF Unended
    <3> HIDE DEF known
    <3> QED BY <1>1, <1>3, <1>4, <1>6, <3>1, <3>2, <3>4
  <2> QED BY <2>1, <2>2, <2>3
<1>7. stream # <<>>
  OBVIOUS
<1> QED BY <1>5, <1>6, <1>7 DEF DeliveryInv, Delivery

\* The other steps leave the wire alone, and answer a command that was taken.
LEMMA OthersKeepDelivery ==
  ASSUME SessionInv, DeliveryInv,
         UNCHANGED <<commands, stream, inputArgs, taken>>,
         line' \in {0, line}, lastId' \in {0, line, lastId},
         \/ UNCHANGED replies
         \/ \E id \in {line, lastId} : \E name, place : Reply(id, name, place)
  PROVE  DeliveryInv'
<1>1. Delivery' /\ Sent' = Sent /\ line' \in taken \cup {0} /\ lastId' \in taken \cup {0}
  BY DEF DeliveryInv, Delivery, Sent, Ended, Unended
<1>2. \A k \in 1..Len(replies') : replies'[k].id \in taken \cup {0}
  <2>1. CASE UNCHANGED replies
    BY <2>1 DEF DeliveryInv
  <2>2. ASSUME NEW id \in {line, lastId}, NEW name, NEW place, Reply(id, name, place)
        PROVE  \A k \in 1..Len(replies') : replies'[k].id \in taken \cup {0}
    <3> DEFINE r == [id |-> id, name |-> name, location |-> place]
    <3>1. replies \in Seq(ReplyRecords) /\ replies' = Append(replies, r)
      BY <2>2 DEF SessionInv, ControllerInv, Reply
    <3>2. r.id \in taken \cup {0}
      BY <2>2 DEF DeliveryInv
    <3> HIDE DEF r
    <3>3. Len(replies') = Len(replies) + 1 /\ replies'[Len(replies) + 1] = r
          /\ \A k \in 1..Len(replies) : replies'[k] = replies[k]
      BY <3>1
    <3>4. Len(replies) \in Nat
      BY <3>1
    <3> QED BY <3>2, <3>3, <3>4 DEF DeliveryInv
  <2> QED BY <2>1, <2>2
<1> QED BY <1>1, <1>2 DEF DeliveryInv

LEMMA SessionKeepsDelivery ==
  ASSUME Window = 1, SessionInv, DeliveryInv, [NextSession]_allVars
  PROVE  DeliveryInv'
<1>1. ASSUME NEW c \in Commands, SendCommand(c) PROVE DeliveryInv'
  BY <1>1, SendKeepsDelivery
<1>2. ASSUME NEW n \in 1..Len(stream), ConsumeInput(n) PROVE DeliveryInv'
  BY <1>2, ReadKeepsDelivery
<1>3. CASE \/ ExecuteRun \/ ExecuteStepInto \/ Request \/ ExecuteUnknown \/ ClearLastId
  <2>1. /\ UNCHANGED <<commands, stream, inputArgs, taken, replies>>
        /\ line' \in {0, line} /\ lastId' \in {0, line, lastId}
    BY <1>3 DEF ExecuteRun, ExecuteStepInto, Request, ExecuteUnknown, ClearLastId,
                ExpectResponse, CommandDone, inputVars, controllerVars
  <2> QED BY <2>1, OthersKeepDelivery
<1>4. CASE ExecuteQuery \/ ExecuteSource \/ ExecuteFeatureGet
  <2>1. /\ UNCHANGED <<commands, stream, inputArgs, taken>>
        /\ line' \in {0, line} /\ lastId' \in {0, line, lastId}
        /\ \E name, place : Reply(line, name, place)
    BY <1>4 DEF ExecuteQuery, ExecuteSource, ExecuteFeatureGet, CommandDone, inputVars,
                controllerVars
  <2> QED BY <2>1, OthersKeepDelivery
<1>5. ASSUME NEW w \in Workers, ListenerStep(w) PROVE DeliveryInv'
  <2>1. /\ UNCHANGED <<commands, stream, inputArgs, taken, line, lastId>>
        /\ UNCHANGED replies \/ \E name, place : Reply(lastId, name, place)
    BY <1>5 DEF ListenerStep, FetchLocation, MirrorState, SendReply, inputVars, socketVars,
                controllerVars
  <2> QED BY <2>1, OthersKeepDelivery
<1>6. CASE UNCHANGED sessionVars
  <2>1. UNCHANGED <<commands, stream, inputArgs, taken, line, lastId, replies>>
    BY <1>6 DEF sessionVars, inputVars, socketVars, controllerVars
  <2> QED BY <2>1, OthersKeepDelivery
<1> QED BY <1>1, <1>2, <1>3, <1>4, <1>5, <1>6 DEF NextSession, SocketStep, EngineWork, allVars

\* CommandsDelivered: however the stream is cut into reads, no command of an
\* IDE that waits for its answers is lost, for any number of them.
THEOREM NoCommandLost ==
  ASSUME Window = 1, {"START", "STEP_INTO"} \subseteq Requests
  PROVE  SpecSession => []CommandsDelivered
<1>1. InitSession => DeliveryInv
  BY InitDelivery
<1>2. SessionInv /\ DeliveryInv /\ [NextSession]_allVars => DeliveryInv'
  BY SessionKeepsDelivery
<1>3. SessionInv /\ DeliveryInv => CommandsDelivered
  <2> SUFFICES ASSUME SessionInv, DeliveryInv, NEW id \in DOMAIN commands \ taken
               PROVE  \E k \in DOMAIN stream : stream[k] = [id |-> id, ends |-> TRUE]
    BY DEF CommandsDelivered
  <2>1. Sent \in Nat /\ id \in 1..Sent
    BY DEF SessionInv, InputInv, Sent
  <2>2. id = Sent
    BY <2>1 DEF DeliveryInv
  <2>3. Ended = [id |-> id, ends |-> TRUE]
    BY <2>2 DEF Ended
  <2>4. stream = <<Ended>> \/ stream = <<Unended, Ended>>
    BY <2>1 DEF DeliveryInv, Delivery
  <2>5. (stream = <<Ended>> => 1 \in DOMAIN stream /\ stream[1] = Ended)
        /\ (stream = <<Unended, Ended>> => 2 \in DOMAIN stream /\ stream[2] = Ended)
    OBVIOUS
  <2> QED BY <2>3, <2>4, <2>5
<1> QED BY <1>1, <1>2, <1>3, SessionInductive, PTL DEF SpecSession

-----------------------------------------------------------------------------
(* One worker thread besides: Workers = {w}.                               *)

\* A halt may come of what was asked for, or is being told.
Armed(w) ==
  \/ debugTargetState \in {"START", "STEP_INTO"}
  \/ running[w] \in Jobs /\ jobTarget[running[w]] \in {"START", "STEP_INTO"}
  \/ wpc[w] = "telling"

\* The last command has no answer, and the controller remembers what it was.
Unanswered == \A k \in 1..Len(replies) : replies[k].id # Sent

Awaited(w) ==
  /\ Sent # 0
  /\ lastId = Sent
  /\ Unanswered
  /\ expected \in {"START", "STEP_INTO"}
  /\ commands[Sent] = ChangeReasonString(expected)
  /\ IF listener[w].at = "mirrored"
       THEN listener[w].waiting /\ listener[w].reason = expected
       ELSE controllerState = "ControllerWaitForResponse"

\* A halt comes only while the command that asked for it is the last one, and
\* the socket's thread is idle until the halt has been told.
AskInv(w) ==
  /\ spc = "requesting" \/ Armed(w) => Awaited(w)
  /\ Armed(w) => spc = "reading"
  /\ spc \in {"executing", "requesting"} => line = Sent
  /\ spc = "executing" => Unanswered
  /\ wpc[w] = "telling" => debugTargetState = "REGULAR" /\ isDebugHalted
  /\ listener[w].at # "none" => listener[w].location = DebugLocation

SoloInv(w) == SessionInv /\ DeliveryInv /\ AskInv(w) /\ RepliesMatch

LEMMA InitSolo ==
  ASSUME NEW w, Workers = {w}, InitSession
  PROVE  AskInv(w) /\ RepliesMatch
<1>1. /\ spc = "reading" /\ debugTargetState = "REGULAR" /\ wpc[w] = "looping"
      /\ running[w] = None /\ None \notin Jobs /\ listener[w] = Quiet /\ replies = <<>>
  BY EngineAssumption DEF InitSession, Init
<1>2. ~Armed(w)
  BY <1>1 DEF Armed
<1> QED BY <1>1, <1>2 DEF AskInv, RepliesMatch, Quiet

LEMMA SendKeepsSolo ==
  ASSUME NEW w, Workers = {w}, Window = 1, SoloInv(w), NEW c \in Commands, SendCommand(c)
  PROVE  AskInv(w)' /\ RepliesMatch'
<1>1. \A k \in 1..Sent : \E l \in 1..Len(replies) : replies[l].id = k
  BY SendWhenAnswered DEF SoloInv
<1>2. Sent \in Nat /\ Sent' = Sent + 1 /\ \A k \in 1..Sent : commands'[k] = commands[k]
  BY SendKeepsInv DEF SoloInv, SessionInv, InputInv, Sent
<1>3. Unanswered => Sent = 0
  <2> SUFFICES ASSUME Sent # 0 PROVE \E l \in 1..Len(replies) : replies[l].id = Sent
    BY DEF Unanswered
  <2>1. Sent \in 1..Sent
    BY <1>2
  <2> QED BY <1>1, <2>1
<1>4. ~Armed(w) /\ spc # "requesting"
  BY <1>3 DEF SoloInv, AskInv, Awaited
<1>5. spc # "executing"
  BY <1>3 DEF SoloInv, AskInv, SessionInv, SocketInv
<1>6. UNCHANGED <<vars, spc, line, lastId, listener, replies>>
  BY DEF SendCommand, socketVars, controllerVars
<1>7. ~Armed(w)' /\ DebugLocation' = DebugLocation
  BY <1>4, <1>6 DEF Armed, DebugLocation, vars, engineVars, workerVars, jobVars
<1>8. AskInv(w)'
  BY <1>4, <1>5, <1>6, <1>7 DEF SoloInv, AskInv, vars, engineVars, workerVars
<1>9. RepliesMatch'
  <2>1. DOMAIN commands = 1..Sent /\ DOMAIN commands' = 1..Sent'
    BY SendKeepsInv DEF SoloInv, SessionInv, InputInv, Sent
  <2> QED BY <1>2, <1>6, <2>1 DEF SoloInv, RepliesMatch
<1> QED BY <1>8, <1>9

LEMMA ReadKeepsSolo ==
  ASSUME NEW w, Workers = {w}, SoloInv(w), NEW n \in 1..Len(stream), ConsumeInput(n)
  PROVE  AskInv(w)' /\ RepliesMatch'
<1>1. line' \in {0, Sent} /\ (line' # 0 => Sent \notin taken)
  BY ReadKeepsDelivery DEF SoloInv
<1>2. /\ UNCHANGED <<vars, commands, lastId, listener, replies>>
      /\ spc' = IF line' = 0 THEN "reading" ELSE "executing"
  BY DEF ConsumeInput, controllerVars
<1>3. ~Armed(w)
  <2>1. stream # <<>>
    OBVIOUS
  <2>2. Sent \notin taken
    BY <2>1 DEF SoloInv, DeliveryInv, Delivery
  <2>3. lastId \in taken \cup {0}
    BY DEF SoloInv, DeliveryInv
  <2> QED BY <2>2, <2>3 DEF SoloInv, AskInv, Awaited
<1>4. ~Armed(w)' /\ DebugLocation' = DebugLocation /\ Sent' = Sent
  BY <1>2, <1>3 DEF Armed, DebugLocation, vars, engineVars, workerVars, jobVars, Sent
<1>5. line' # 0 => Unanswered
  BY <1>1 DEF SoloInv, DeliveryInv, Unanswered
<1>6. AskInv(w)'
  BY <1>1, <1>2, <1>4, <1>5 DEF SoloInv, AskInv, Unanswered, vars, engineVars, workerVars
<1> QED BY <1>2, <1>6 DEF SoloInv, RepliesMatch

\* An answer to the last command, the only one there is.
LEMMA AnswerKeepsMatch ==
  ASSUME SessionInv, RepliesMatch, Unanswered, Sent # 0, UNCHANGED commands,
         NEW name, NEW place, name = ResponseName(commands[Sent]), Reply(Sent, name, place)
  PROVE  RepliesMatch'
<1> DEFINE r == [id |-> Sent, name |-> name, location |-> place]
<1>1. replies \in Seq(ReplyRecords) /\ replies' = Append(replies, r)
  BY DEF SessionInv, ControllerInv, Reply
<1>2. r.id = Sent /\ r.name = ResponseName(commands[Sent])
  OBVIOUS
<1>3. Sent \in Nat /\ DOMAIN commands = 1..Sent
  BY DEF SessionInv, InputInv, Sent
<1> HIDE DEF r
<1>4. /\ Len(replies) \in Nat /\ Len(replies') = Len(replies) + 1
      /\ replies'[Len(replies) + 1] = r
      /\ \A k \in 1..Len(replies) : replies'[k] = replies[k]
      /\ DOMAIN replies = 1..Len(replies) /\ DOMAIN replies' = 1..Len(replies')
  BY <1>1
<1>5. \A k \in DOMAIN replies' : k \in DOMAIN replies \/ k = Len(replies')
  BY <1>4
<1>6. \A k \in DOMAIN replies : replies'[k].id = replies[k].id /\ replies'[k].name = replies[k].name
  BY <1>4
<1>7. replies'[Len(replies')].id = Sent /\ replies'[Len(replies')].name = ResponseName(commands[Sent])
  BY <1>2, <1>4
<1>8. \A k \in DOMAIN replies : replies[k].id # Sent
  BY <1>4 DEF Unanswered
<1>9. Sent \in DOMAIN commands
  BY <1>3
<1> HIDE DEF Sent
<1> QED BY <1>5, <1>6, <1>7, <1>8, <1>9 DEF RepliesMatch

\* The command that is executed is the last one, and no halt is on its way.
LEMMA ExecutingLast ==
  ASSUME NEW w, SoloInv(w), spc # "reading"
  PROVE  /\ ~Armed(w)
         /\ spc \in {"executing", "requesting"} => line = Sent /\ Sent # 0 /\ Unanswered
<1>1. ~Armed(w)
  BY DEF SoloInv, AskInv
<1>2. line # 0
  BY DEF SoloInv, SessionInv, SocketInv
<1> QED BY <1>1, <1>2 DEF SoloInv, AskInv, Awaited

LEMMA ExecuteKeepsSolo ==
  ASSUME NEW w, Workers = {w}, SoloInv(w),
         \/ ExecuteRun \/ ExecuteStepInto \/ ExecuteQuery \/ ExecuteSource
         \/ ExecuteFeatureGet \/ ClearLastId \/ ExecuteUnknown
  PROVE  AskInv(w)' /\ RepliesMatch'
<1>1. UNCHANGED <<vars, commands, listener>> /\ spc # "reading"
  BY DEF ExecuteRun, ExecuteStepInto, ExecuteQuery, ExecuteSource, ExecuteFeatureGet, ClearLastId,
         ExecuteUnknown, ExpectResponse, Executing, inputVars
<1>2. ~Armed(w) /\ (spc = "executing" => line = Sent /\ Sent # 0 /\ Unanswered)
  BY <1>1, ExecutingLast
<1>3. ~Armed(w)' /\ DebugLocation' = DebugLocation /\ Sent' = Sent
  BY <1>1, <1>2 DEF Armed, DebugLocation, vars, engineVars, workerVars, jobVars, Sent
<1>4. ASSUME spc' \in {"reading", "clearing"} PROVE AskInv(w)'
  BY <1>1, <1>3, <1>4 DEF SoloInv, AskInv, vars, engineVars, workerVars
<1>5. ASSUME UNCHANGED replies PROVE RepliesMatch'
  BY <1>1, <1>5 DEF SoloInv, RepliesMatch
<1>6. ASSUME NEW r \in {"START", "STEP_INTO"}, spc = "executing",
             commands[line] = ChangeReasonString(r), ExpectResponse(r)
      PROVE  AskInv(w)' /\ RepliesMatch'
  <2>1. /\ lastId' = line /\ controllerState' = "ControllerWaitForResponse"
        /\ expected' = r /\ spc' = "requesting" /\ UNCHANGED <<line, replies>>
    BY <1>6 DEF ExpectResponse
  <2>2. listener[w].at = "none"
    BY <1>2 DEF Armed, SoloInv, SessionInv, ControllerInv
  <2>3. Awaited(w)'
    BY <1>1, <1>2, <1>3, <1>6, <2>1, <2>2 DEF Awaited, Unanswered, ChangeReasonString
  <2>4. AskInv(w)'
    BY <1>1, <1>2, <1>3, <1>6, <2>1, <2>2, <2>3 DEF SoloInv, AskInv, vars, engineVars, workerVars
  <2> QED BY <1>5, <2>1, <2>4
<1>7. ASSUME NEW place, spc = "executing", Reply(line, ResponseName(commands[line]), place)
      PROVE  RepliesMatch'
  BY <1>1, <1>2, <1>7, AnswerKeepsMatch DEF SoloInv
<1>8. CASE ExecuteRun
  BY <1>6, <1>8 DEF ExecuteRun, Executing, ChangeReasonString
<1>9. CASE ExecuteStepInto
  BY <1>4, <1>5, <1>6, <1>9 DEF ExecuteStepInto, Executing, ChangeReasonString, CommandDone
<1>10. CASE ExecuteQuery
  <2>1. spc = "executing" /\ Reply(line, ResponseName(commands[line]), DebugLocation) /\ spc' = "reading"
    BY <1>10 DEF ExecuteQuery, Executing, CommandDone
  <2> QED BY <1>4, <1>7, <2>1
<1>11. CASE ExecuteSource
  <2>1. spc = "executing" /\ Reply(line, ResponseName(commands[line]), None) /\ spc' = "reading"
    BY <1>11 DEF ExecuteSource, Executing, CommandDone, ResponseName
  <2> QED BY <1>4, <1>7, <2>1
<1>12. CASE ExecuteFeatureGet
  <2>1. spc = "executing" /\ Reply(line, ResponseName(commands[line]), None) /\ spc' = "clearing"
    BY <1>12 DEF ExecuteFeatureGet, Executing, ResponseName
  <2> QED BY <1>4, <1>7, <2>1
<1>13. CASE ClearLastId \/ ExecuteUnknown
  BY <1>4, <1>5, <1>13 DEF ClearLastId, ExecuteUnknown, CommandDone
<1> QED BY <1>8, <1>9, <1>10, <1>11, <1>12, <1>13

\* The request arms the engine, or finds it with nothing to run.
LEMMA RequestKeepsSolo ==
  ASSUME NEW w, Workers = {w}, SoloInv(w), Request
  PROVE  AskInv(w)' /\ RepliesMatch'
<1>1. /\ UNCHANGED <<commands, expected, lastId, controllerState, listener, replies, running>>
      /\ spc = "requesting" /\ spc' = "reading"
      /\ NotifyOne \/ UNCHANGED wpc
  BY DEF Request, CommandDone, RequestDebugState, inputVars, controllerVars
<1>2. ~Armed(w) /\ Awaited(w)
  BY <1>1, ExecutingLast DEF SoloInv, AskInv
<1>3. wpc[w] # "telling" /\ wpc'[w] # "telling" /\ listener[w].at = "none"
  <2>1. wpc \in [Workers -> {"looping", "waiting", "woken", "slice", "telling"}]
    BY DEF SoloInv, SessionInv, IInv, TypeOK
  <2>2. wpc[w] # "telling" /\ listener[w].at = "none"
    BY <1>2 DEF Armed, SoloInv, SessionInv, ControllerInv
  <2> QED BY <1>1, <2>1, <2>2 DEF NotifyOne
<1>4. Awaited(w)'
  BY <1>1, <1>2 DEF Awaited, Unanswered, Sent
<1>5. AskInv(w)'
  BY <1>1, <1>3, <1>4 DEF AskInv
<1> QED BY <1>1, <1>5 DEF SoloInv, RepliesMatch

\* The engine halts only when it was asked to.
LEMMA EngineKeepsSolo ==
  ASSUME NEW w, Workers = {w}, SoloInv(w), UNCHANGED sessionVars,
         \/ Sleep(w) \/ TakeJob(w) \/ Halt(w) \/ Finish(w) \/ SpuriousWake(w)
         \/ \E a \in Adders : AdderStep(a)
  PROVE  AskInv(w)' /\ RepliesMatch'
<1>0. TypeOK /\ HaltedJobInFront
  BY DEF SoloInv, SessionInv, IInv
<1>1. UNCHANGED <<commands, expected, lastId, controllerState, listener, replies, spc, line>>
  BY DEF sessionVars, inputVars, socketVars, controllerVars
<1>2. /\ wpc \in [Workers -> {"looping", "waiting", "woken", "slice", "telling"}]
      /\ running \in [Workers -> Jobs \cup {None}] /\ jobTarget \in [Jobs -> ChangeReasons]
      /\ readyJobs \in Seq(Jobs) /\ None \notin Jobs
  BY <1>0, EngineAssumption DEF TypeOK
<1>3. /\ Armed(w)' => Armed(w)
      /\ wpc'[w] = "telling" => debugTargetState' = "REGULAR" /\ isDebugHalted'
      /\ wpc[w] = "telling" => wpc'[w] = "telling" /\ DebugLocation' = DebugLocation
  <2>1. CASE Sleep(w) \/ SpuriousWake(w)
    BY <1>2, <2>1 DEF Sleep, SpuriousWake, Armed, engineVars, jobVars
  <2>2. CASE TakeJob(w)
    <3>1. Head(readyJobs) \in Jobs
      BY <1>2, <2>2 DEF TakeJob
    <3> QED BY <1>2, <2>2, <3>1 DEF TakeJob, Armed
  <2>3. CASE Halt(w)
    <3>1. wpc[w] = "slice" /\ running[w] \in Jobs
      BY <1>0, <1>2, <2>3 DEF Halt, TypeOK
    <3>2. Armed(w)
      BY <2>3, <3>1 DEF Halt, SliceHalts, Armed
    <3> QED BY <2>3, <3>1, <3>2 DEF Halt
  <2>4. CASE Finish(w)
    BY <1>2, <2>4 DEF Finish, Armed, engineVars
  <2>5. ASSUME NEW a \in Adders, AdderStep(a)
        PROVE  /\ Armed(w)' => Armed(w)
               /\ wpc'[w] = "telling" => debugTargetState' = "REGULAR" /\ isDebugHalted'
               /\ wpc[w] = "telling" => wpc'[w] = "telling" /\ DebugLocation' = DebugLocation
    <3>1. CASE \E j \in Jobs : AddJobRead(a, j)
      <4>1. PICK j \in Jobs : AddJobRead(a, j)
        BY <3>1
      <4>2. /\ jobTarget' = [jobTarget EXCEPT ![j] = debugTargetState]
            /\ UNCHANGED <<engineVars, workerVars, visits>>
        BY <4>1 DEF AddJobRead
      <4> QED BY <1>2, <4>2 DEF SoloInv, AskInv, Armed, DebugLocation, engineVars, workerVars
    <3>2. CASE AddJobPush(a)
      <4>1. /\ readyJobs' = Append(readyJobs, adding[a]) /\ NotifyOne
            /\ UNCHANGED <<isDebugHalted, debugTargetState, running, jobTarget, visits>>
        BY <3>2 DEF AddJobPush, jobVars
      <4>2. wpc'[w] = "telling" <=> wpc[w] = "telling"
        BY <1>2, <4>1 DEF NotifyOne, Waiting
      <4>3. readyJobs # <<>> => readyJobs' # <<>> /\ Head(readyJobs') = Head(readyJobs)
        <5>1. adding[a] \in Jobs
          BY <1>0, <3>2 DEF AddJobPush, TypeOK
        <5> QED BY <1>2, <4>1, <5>1
      <4>4. wpc[w] = "telling" => DebugLocation' = DebugLocation
        BY <1>0, <4>1, <4>3 DEF SoloInv, AskInv, DebugLocation, HaltedJobInFront
      <4> QED BY <4>1, <4>2, <4>4 DEF SoloInv, AskInv, Armed
    <3>3. CASE IdleReached(a)
      BY <3>3 DEF IdleReached, SoloInv, AskInv, Armed, DebugLocation, engineVars, workerVars,
                  jobVars
    <3> QED BY <2>5, <3>1, <3>2, <3>3 DEF AdderStep
  <2> QED BY <2>1, <2>2, <2>3, <2>4, <2>5
<1>4. listener[w].at # "none" => wpc[w] = "telling"
  BY DEF SoloInv, SessionInv, ControllerInv
<1>5. AskInv(w)'
  BY <1>1, <1>3, <1>4 DEF SoloInv, AskInv, Awaited, Unanswered, Sent
<1> QED BY <1>1, <1>5 DEF SoloInv, RepliesMatch

\* The halt is told, and that is the answer to the last command.
LEMMA ListenerKeepsSolo ==
  ASSUME NEW w, Workers = {w}, SoloInv(w), ListenerStep(w)
  PROVE  AskInv(w)' /\ RepliesMatch'
<1>1. /\ wpc[w] = "telling" /\ listener \in [Workers -> Told]
      /\ UNCHANGED <<commands, spc, line, lastId, expected>>
  BY DEF ListenerStep, FetchLocation, MirrorState, SendReply, TellListener, SoloInv, SessionInv,
         ControllerInv, inputVars, socketVars, controllerVars
<1>2. /\ Armed(w) /\ Awaited(w) /\ spc = "reading"
      /\ debugTargetState = "REGULAR" /\ isDebugHalted
  BY <1>1 DEF Armed, SoloInv, AskInv
<1>3. ASSUME UNCHANGED <<vars, replies>>, Awaited(w)',
             listener'[w].location = DebugLocation
      PROVE  AskInv(w)' /\ RepliesMatch'
  <2>1. DebugLocation' = DebugLocation /\ wpc' = wpc
        /\ UNCHANGED <<debugTargetState, isDebugHalted>>
    BY <1>3 DEF DebugLocation, vars, engineVars, workerVars, jobVars
  <2> QED BY <1>1, <1>2, <1>3, <2>1 DEF SoloInv, AskInv, RepliesMatch
<1>4. CASE FetchLocation(w)
  <2>1. /\ listener[w].at = "none" /\ UNCHANGED <<vars, controllerState, replies>>
        /\ listener'[w].at = "located" /\ listener'[w].location = DebugLocation
    BY <1>1, <1>4 DEF FetchLocation, controllerVars, Quiet, Told
  <2>2. Awaited(w)'
    BY <1>1, <1>2, <2>1 DEF Awaited, Unanswered, Sent
  <2> QED BY <1>3, <2>1, <2>2
<1>5. CASE MirrorState(w)
  <2>1. /\ listener[w].at = "located" /\ UNCHANGED <<vars, replies>>
        /\ listener'[w].at = "mirrored" /\ listener'[w].location = listener[w].location
        /\ listener'[w].waiting = (controllerState = "ControllerWaitForResponse")
        /\ listener'[w].reason = expected
    <3>1. listener[w] \in Told
      BY <1>1
    <3> QED BY <1>1, <1>5, <3>1 DEF MirrorState, Told
  <2>2. Awaited(w)'
    BY <1>1, <1>2, <2>1 DEF Awaited, Unanswered, Sent
  <2>3. listener[w].location = DebugLocation
    BY <2>1 DEF SoloInv, AskInv
  <2> QED BY <1>3, <2>1, <2>2, <2>3
<1>6. CASE SendReply(w)
  <2>1. /\ listener[w].at = "mirrored" /\ listener'[w].at = "none" /\ wpc'[w] = "looping"
        /\ UNCHANGED <<debugTargetState, running, jobTarget>>
        /\ \E place : Reply(lastId, IF listener[w].waiting
                                      THEN ChangeReasonString(listener[w].reason) ELSE "run", place)
    BY <1>1, <1>6 DEF SendReply, TellListener, Quiet, engineVars, jobVars, SoloInv, SessionInv,
                      IInv, TypeOK
  <2>2. \E place : Reply(Sent, ResponseName(commands[Sent]), place)
    BY <1>2, <2>1 DEF Awaited, ChangeReasonString, ResponseName
  <2>3. RepliesMatch'
    BY <1>1, <1>2, <2>2, AnswerKeepsMatch DEF Awaited, SoloInv
  <2>4. ~Armed(w)'
    <3>1. running[w] \notin Jobs
      BY <1>1, EngineAssumption DEF SoloInv, SessionInv, IInv, TypeOK
    <3> QED BY <1>2, <2>1, <3>1 DEF Armed
  <2>5. AskInv(w)'
    BY <1>1, <1>2, <2>1, <2>4 DEF AskInv
  <2> QED BY <2>3, <2>5
<1> QED BY <1>4, <1>5, <1>6 DEF ListenerStep

LEMMA SessionKeepsSolo ==
  ASSUME NEW w, Workers = {w}, Window = 1, SoloInv(w), [NextSession]_allVars
  PROVE  AskInv(w)' /\ RepliesMatch'
<1>1. ASSUME NEW c \in Commands, SendCommand(c) PROVE AskInv(w)' /\ RepliesMatch'
  BY <1>1, SendKeepsSolo
<1>2. ASSUME NEW n \in 1..Len(stream), ConsumeInput(n) PROVE AskInv(w)' /\ RepliesMatch'
  BY <1>2, ReadKeepsSolo
<1>3. CASE \/ ExecuteRun \/ ExecuteStepInto \/ ExecuteQuery \/ ExecuteSource
           \/ ExecuteFeatureGet \/ ClearLastId \/ ExecuteUnknown
  BY <1>3, ExecuteKeepsSolo
<1>4. CASE Request
  BY <1>4, RequestKeepsSolo
<1>5. ASSUME UNCHANGED sessionVars,
             \/ Sleep(w) \/ TakeJob(w) \/ Halt(w) \/ Finish(w) \/ SpuriousWake(w)
             \/ \E a \in Adders : AdderStep(a)
      PROVE  AskInv(w)' /\ RepliesMatch'
  BY <1>5, EngineKeepsSolo
<1>6. CASE ListenerStep(w)
  BY <1>6, ListenerKeepsSolo
<1>7. CASE UNCHANGED allVars
  BY <1>7 DEF allVars, vars, engineVars, workerVars, jobVars, sessionVars, inputVars, socketVars,
              controllerVars, SoloInv, AskInv, Armed, Awaited, Unanswered, Sent, DebugLocation,
              RepliesMatch
<1>8. CASE \E u \in Workers : \/ EngineWork(u) \/ ListenerStep(u)
                              \/ SpuriousWake(u) /\ UNCHANGED sessionVars
  BY <1>5, <1>6, <1>8 DEF EngineWork
<1>9. CASE \E a \in Adders : AdderStep(a) /\ UNCHANGED sessionVars
  BY <1>5, <1>9
<1> QED BY <1>1, <1>2, <1>3, <1>4, <1>7, <1>8, <1>9 DEF NextSession, SocketStep

LEMMA SoloInductive ==
  ASSUME NEW w, Workers = {w}, Window = 1, {"START", "STEP_INTO"} \subseteq Requests
  PROVE  SpecSession => []SoloInv(w)
<1>1. InitSession => SoloInv(w)
  BY InitSessionInv, InitDelivery, InitSolo DEF SoloInv
<1>2. SoloInv(w) /\ [NextSession]_allVars => SoloInv(w)'
  BY SessionKeepsInv, SessionKeepsDelivery, SessionKeepsSolo DEF SoloInv
<1> QED BY <1>1, <1>2, PTL DEF SpecSession

\* RepliesMatch: with one worker and an IDE that waits for each answer, every
\* reply carries the id of a command and the name that command is answered
\* with, and none is answered twice, though a halt is paired with its command
\* by what the controller remembers, and though a halt nobody asked for would
\* be reported as one.
THEOREM EveryReplyIsAnAnswer ==
  ASSUME NEW w, Workers = {w}, Window = 1, {"START", "STEP_INTO"} \subseteq Requests
  PROVE  SpecSession => []RepliesMatch
BY SoloInductive, PTL DEF SoloInv

\* ReportsWhereItHalted: there, the place that a halt is reported at is that of
\* the job at the front, which is halted.
THEOREM HaltsReportedInPlace ==
  ASSUME NEW w, Workers = {w}, Window = 1, {"START", "STEP_INTO"} \subseteq Requests,
         None \notin Jobs \X Nat
  PROVE  SpecSession => []ReportsWhereItHalted
<1>1. SoloInv(w) => ReportsWhereItHalted
  <2> SUFFICES ASSUME SoloInv(w), listener[w].at = "mirrored"
               PROVE  /\ listener[w].location # None
                      /\ jobState[listener[w].location[1]] = "DEBUGHALTED"
                      /\ listener[w].location = DebugLocation
    BY DEF ReportsWhereItHalted
  <2>1. listener[w].location = DebugLocation /\ isDebugHalted
    BY DEF SoloInv, AskInv, SessionInv, ControllerInv
  <2>2. readyJobs # <<>> /\ jobState[Head(readyJobs)] = "DEBUGHALTED"
    BY <2>1 DEF SoloInv, SessionInv, IInv, HaltedJobInFront
  <2>3. DebugLocation = <<Head(readyJobs), visits[Head(readyJobs)]>>
    BY <2>1, <2>2 DEF DebugLocation
  <2>4. Head(readyJobs) \in Jobs /\ visits[Head(readyJobs)] \in Nat
    BY <2>2 DEF SoloInv, SessionInv, IInv, TypeOK
  <2>5. <<Head(readyJobs), visits[Head(readyJobs)]>> # None
    BY <2>4
  <2> QED BY <2>1, <2>2, <2>3, <2>5
<1> QED BY <1>1, SoloInductive, PTL

-----------------------------------------------------------------------------
(* Stepping, with one worker thread and an IDE that waits.                 *)

\* The requests that halt a job.
Asking == {"START", "STEP_INTO"}

\* What the worker is asked to do is what the controller expects, and a job
\* that runs or has just halted has begun its first slice.
SliceInv(w) ==
  /\ debugTargetState \in Asking => debugTargetState = expected
  /\ running[w] \in Jobs =>
       /\ sliceCount[running[w]] > 0
       /\ jobTarget[running[w]] \in Asking => jobTarget[running[w]] = expected
  /\ wpc[w] = "telling" => sliceCount[Head(readyJobs)] > 0

\* Job j was last reported with v contexts to go.  It has as many, or none any
\* more, and a slice it runs since is not its first; while a halt of it is being
\* told, it has one less, and a step was asked for.
PlaceKept(w, j, v) ==
  /\ sliceCount[j] > 0
  /\ IF wpc[w] = "telling" /\ Head(readyJobs) = j
       THEN visits[j] = v - 1 /\ expected = "STEP_INTO"
       ELSE visits[j] \in {v, 0} /\ (running[w] = j => sliceCount[j] = 2)

HaltInv(w) ==
  \A k \in Halts : IsLastHalt(k) =>
    /\ replies[k].location \in Jobs \X Nat
    /\ PlaceKept(w, replies[k].location[1], replies[k].location[2])

StepInv(w) == SliceInv(w) /\ HaltInv(w) /\ StepsEveryContext

\* A reply that reports no halt, or none, leaves the halts as they are.
LEMMA HaltsStay ==
  ASSUME replies \in Seq(ReplyRecords),
         \/ UNCHANGED replies
         \/ \E id, name, place : Reply(id, name, place) /\ name \notin {"run", "step_into"}
  PROVE  /\ Halts' = Halts
         /\ \A k \in Halts : replies'[k] = replies[k]
         /\ \A k \in Halts : IsLastHalt(k)' <=> IsLastHalt(k)
         /\ StepsEveryContext => StepsEveryContext'
<1>1. Halts' = Halts /\ \A k \in Halts : replies'[k] = replies[k]
  <2>1. CASE UNCHANGED replies
    BY <2>1 DEF Halts
  <2>2. ASSUME NEW id, NEW name, NEW place, Reply(id, name, place),
               name \notin {"run", "step_into"}
        PROVE  Halts' = Halts /\ \A k \in Halts : replies'[k] = replies[k]
    <3> DEFINE r == [id |-> id, name |-> name, location |-> place]
    <3>1. replies' = Append(replies, r) /\ r.name = name
      BY <2>2 DEF Reply
    <3> HIDE DEF r
    <3>2. /\ Len(replies) \in Nat /\ Len(replies') = Len(replies) + 1
          /\ replies'[Len(replies) + 1] = r
          /\ \A k \in 1..Len(replies) : replies'[k] = replies[k]
          /\ DOMAIN replies = 1..Len(replies) /\ DOMAIN replies' = 1..Len(replies')
      BY <3>1
    <3>3. \A k \in DOMAIN replies' : k \in DOMAIN replies \/ k = Len(replies) + 1
      BY <3>2
    <3>4. \A k \in DOMAIN replies : k \in DOMAIN replies'
      BY <3>2
    <3> QED BY <2>2, <3>1, <3>2, <3>3, <3>4 DEF Halts
  <2> QED BY <2>1, <2>2
<1>2. \A k \in Halts : IsLastHalt(k)' <=> IsLastHalt(k)
  BY <1>1 DEF IsLastHalt
<1>3. StepsEveryContext => StepsEveryContext'
  BY <1>1 DEF StepsEveryContext
<1> QED BY <1>1, <1>2, <1>3

\* Where no halt is reported, the jobs last reported keep their places if each
\* of them does.
LEMMA PlacesStay ==
  ASSUME NEW w, replies \in Seq(ReplyRecords), HaltInv(w), StepsEveryContext,
         \/ UNCHANGED replies
         \/ \E id, name, place : Reply(id, name, place) /\ name \notin {"run", "step_into"},
         \A j \in Jobs, v \in Nat : PlaceKept(w, j, v) => PlaceKept(w, j, v)'
  PROVE  HaltInv(w)' /\ StepsEveryContext'
<1>1. /\ Halts' = Halts
      /\ \A k \in Halts : replies'[k] = replies[k]
      /\ \A k \in Halts : IsLastHalt(k)' <=> IsLastHalt(k)
      /\ StepsEveryContext'
  BY HaltsStay
<1>2. ASSUME NEW k \in Halts, IsLastHalt(k)
      PROVE  /\ replies'[k].location \in Jobs \X Nat
             /\ PlaceKept(w, replies[k].location[1], replies[k].location[2])'
  <2> DEFINE j == replies[k].location[1]
             v == replies[k].location[2]
  <2>1. replies[k].location \in Jobs \X Nat /\ PlaceKept(w, j, v)
    BY <1>2 DEF HaltInv
  <2>2. j \in Jobs /\ v \in Nat
    BY <2>1
  <2>3. j' = j /\ v' = v
    BY <1>1, <1>2
  <2> HIDE DEF j, v
  <2>4. /\ sliceCount'[j] > 0
        /\ IF wpc'[w] = "telling" /\ Head(readyJobs') = j
             THEN visits'[j] = v - 1 /\ expected' = "STEP_INTO"
             ELSE visits'[j] \in {v, 0} /\ (running'[w] = j => sliceCount'[j] = 2)
    BY <2>1, <2>2 DEF PlaceKept
  <2>5. PlaceKept(w, j, v)'
    BY <2>3, <2>4 DEF PlaceKept
  <2> QED BY <1>1, <2>1, <2>5 DEF j, v
<1> QED BY <1>1, <1>2 DEF HaltInv

LEMMA InitSteps ==
  ASSUME NEW w, Workers = {w}, InitSession
  PROVE  StepInv(w)
<1>1. /\ debugTargetState = "REGULAR" /\ running[w] = None /\ wpc[w] = "looping"
      /\ replies = <<>> /\ None \notin Jobs
  BY EngineAssumption DEF InitSession, Init
<1>2. Halts = {}
  BY <1>1 DEF Halts
<1> QED BY <1>1, <1>2 DEF StepInv, SliceInv, Asking, HaltInv, StepsEveryContext

\* The IDE, the reader and the commands leave the engine alone; what the
\* controller expects changes only while nothing is asked of the engine.
LEMMA SocketKeepsSteps ==
  ASSUME NEW w, Workers = {w}, SoloInv(w), StepInv(w), UNCHANGED vars,
         UNCHANGED expected \/ ~Armed(w),
         \/ UNCHANGED replies
         \/ \E id, name, place : Reply(id, name, place) /\ name \notin {"run", "step_into"}
  PROVE  StepInv(w)'
<1>1. UNCHANGED <<debugTargetState, running, wpc, readyJobs, sliceCount, jobTarget, visits>>
  BY DEF vars, engineVars, workerVars, jobVars
<1>2. UNCHANGED expected \/ wpc[w] # "telling"
  BY DEF Armed
<1>3. SliceInv(w)'
  BY <1>1 DEF StepInv, SliceInv, Armed, Asking
<1>4. \A j \in Jobs, v \in Nat : PlaceKept(w, j, v) => PlaceKept(w, j, v)'
  BY <1>1, <1>2 DEF PlaceKept
<1>5. replies \in Seq(ReplyRecords) /\ HaltInv(w) /\ StepsEveryContext
  BY DEF SoloInv, SessionInv, ControllerInv, StepInv
<1>6. HaltInv(w)' /\ StepsEveryContext'
  BY <1>4, <1>5, PlacesStay
<1> QED BY <1>3, <1>6 DEF StepInv

LEMMA ExecuteKeepsSteps ==
  ASSUME NEW w, Workers = {w}, SoloInv(w), StepInv(w),
         \/ ExecuteRun \/ ExecuteStepInto \/ ExecuteQuery \/ ExecuteSource
         \/ ExecuteFeatureGet \/ ClearLastId \/ ExecuteUnknown
  PROVE  StepInv(w)'
<1>1. UNCHANGED vars /\ spc # "reading"
  BY DEF ExecuteRun, ExecuteStepInto, ExecuteQuery, ExecuteSource, ExecuteFeatureGet, ClearLastId,
         ExecuteUnknown, ExpectResponse, Executing
<1>2. ~Armed(w)
  BY <1>1, ExecutingLast
<1>3. \/ UNCHANGED replies
      \/ \E id, name, place : Reply(id, name, place) /\ name \notin {"run", "step_into"}
  <2>1. CASE ExecuteQuery
    <3>1. Reply(line, ResponseName(commands[line]), DebugLocation) /\ commands[line] \in Queries
      BY <2>1 DEF ExecuteQuery, Executing
    <3>2. ResponseName(commands[line]) \notin {"run", "step_into"}
      BY <3>1 DEF Queries, ResponseName
    <3> QED BY <3>1, <3>2
  <2>2. CASE ExecuteSource
    <3>1. Reply(line, "source", None)
      BY <2>2 DEF ExecuteSource
    <3> QED BY <3>1
  <2>3. CASE ExecuteFeatureGet
    <3>1. Reply(line, "feature_get", None)
      BY <2>3 DEF ExecuteFeatureGet
    <3> QED BY <3>1
  <2>4. CASE ExecuteRun \/ ExecuteStepInto \/ ClearLastId \/ ExecuteUnknown
    BY <2>4 DEF ExecuteRun, ExecuteStepInto, ClearLastId, ExecuteUnknown, ExpectResponse
  <2> QED BY <2>1, <2>2, <2>3, <2>4
<1> QED BY <1>1, <1>2, <1>3, SocketKeepsSteps

\* The engine is asked for what the controller expects.
LEMMA RequestKeepsSteps ==
  ASSUME NEW w, Workers = {w}, SoloInv(w), StepInv(w), Request
  PROVE  StepInv(w)'
<1> DEFINE r == CASE commands[line] = "run" -> "START"
                  [] commands[line] = "step_into" -> "STEP_INTO"
<1>1. /\ UNCHANGED <<expected, replies, running, readyJobs, sliceCount, visits>>
      /\ spc = "requesting"
      /\ debugTargetState' = r
      /\ \/ UNCHANGED jobTarget
         \/ readyJobs # <<>> /\ jobTarget' = [jobTarget EXCEPT ![Head(readyJobs)] = r]
      /\ NotifyOne \/ UNCHANGED wpc
  BY DEF Request, RequestDebugState, controllerVars
<1>2. ~Armed(w) /\ Awaited(w) /\ line = Sent
  BY <1>1, ExecutingLast DEF SoloInv, AskInv
<1>3. r = expected
  BY <1>2 DEF Awaited, ChangeReasonString
<1>4. wpc[w] # "telling" /\ wpc'[w] # "telling"
  <2>1. wpc \in [Workers -> {"looping", "waiting", "woken", "slice", "telling"}]
    BY DEF SoloInv, SessionInv, IInv, TypeOK
  <2> QED BY <1>1, <1>2, <2>1 DEF NotifyOne, Armed
<1> HIDE DEF r
<1>5. \A j \in Jobs : jobTarget'[j] = jobTarget[j] \/ jobTarget'[j] = r
  <2>1. jobTarget \in [Jobs -> ChangeReasons]
    BY DEF SoloInv, SessionInv, IInv, TypeOK
  <2> QED BY <1>1, <2>1
<1>6. SliceInv(w)'
  BY <1>1, <1>3, <1>4, <1>5 DEF StepInv, SliceInv
<1>7. \A j \in Jobs, v \in Nat : PlaceKept(w, j, v) => PlaceKept(w, j, v)'
  BY <1>1, <1>4 DEF PlaceKept
<1>8. replies \in Seq(ReplyRecords) /\ HaltInv(w) /\ StepsEveryContext
  BY DEF SoloInv, SessionInv, ControllerInv, StepInv
<1>9. HaltInv(w)' /\ StepsEveryContext'
  BY <1>1, <1>7, <1>8, PlacesStay
<1> QED BY <1>6, <1>9 DEF StepInv

\* A job that halts again was asked to step and has one context less to go; one
\* that is taken again is not in its first slice.
LEMMA EngineKeepsSteps ==
  ASSUME NEW w, Workers = {w}, SoloInv(w), StepInv(w), UNCHANGED sessionVars,
         \/ Sleep(w) \/ TakeJob(w) \/ Halt(w) \/ Finish(w) \/ SpuriousWake(w)
         \/ \E a \in Adders : AdderStep(a)
  PROVE  StepInv(w)'
<1>0. /\ TypeOK /\ HaltedJobInFront /\ SliceInv(w)
      /\ replies \in Seq(ReplyRecords) /\ HaltInv(w) /\ StepsEveryContext
  BY DEF SoloInv, SessionInv, IInv, ControllerInv, StepInv
<1>1. UNCHANGED <<expected, replies>>
  BY DEF sessionVars, controllerVars
<1>2. /\ wpc \in [Workers -> {"looping", "waiting", "woken", "slice", "telling"}]
      /\ running \in [Workers -> Jobs \cup {None}] /\ jobTarget \in [Jobs -> ChangeReasons]
      /\ sliceCount \in [Jobs -> 0..2] /\ visits \in [Jobs -> 0..MaxVisits] /\ MaxVisits \in Nat
      /\ readyJobs \in Seq(Jobs) /\ None \notin Jobs
      /\ running[w] # None <=> wpc[w] = "slice"
  BY <1>0, EngineAssumption DEF TypeOK
<1>3. ASSUME SliceInv(w)',
             \A j \in Jobs, v \in Nat : PlaceKept(w, j, v) => PlaceKept(w, j, v)'
      PROVE  StepInv(w)'
  BY <1>0, <1>1, <1>3, PlacesStay DEF StepInv
<1>4. CASE Sleep(w) \/ SpuriousWake(w)
  <2>1. /\ wpc'[w] # "telling" /\ wpc[w] # "telling"
        /\ UNCHANGED <<debugTargetState, running, readyJobs, sliceCount, jobTarget, visits>>
    BY <1>2, <1>4 DEF Sleep, SpuriousWake, engineVars, jobVars
  <2> QED BY <1>0, <1>1, <1>3, <2>1 DEF SliceInv, PlaceKept
<1>5. CASE TakeJob(w)
  <2> DEFINE j == Head(readyJobs)
  <2>1. /\ j \in Jobs /\ wpc[w] # "telling" /\ wpc'[w] = "slice"
        /\ UNCHANGED <<debugTargetState, visits>>
        /\ running[w] = None /\ running'[w] = j
        /\ jobTarget'[j] = debugTargetState
        /\ sliceCount'[j] = IF sliceCount[j] = 0 THEN 1 ELSE 2
        /\ \A i \in Jobs : i # j => sliceCount'[i] = sliceCount[i]
    BY <1>2, <1>5 DEF TakeJob
  <2> HIDE DEF j
  <2>2. SliceInv(w)'
    BY <1>0, <1>1, <2>1 DEF SliceInv
  <2>3. \A i \in Jobs, v \in Nat : PlaceKept(w, i, v) => PlaceKept(w, i, v)'
    BY <1>2, <2>1 DEF PlaceKept
  <2> QED BY <1>3, <2>2, <2>3
<1>6. CASE Halt(w)
  <2> DEFINE j == running[w]
  <2>1. /\ j \in Jobs /\ wpc[w] = "slice" /\ wpc'[w] = "telling"
        /\ UNCHANGED <<jobTarget, sliceCount>>
        /\ visits[j] > 0 /\ visits'[j] = visits[j] - 1
        /\ \A i \in Jobs : i # j => visits'[i] = visits[i]
        /\ running'[w] = None /\ debugTargetState' = "REGULAR"
        /\ (sliceCount[j] = 1 /\ jobTarget[j] = "START") \/ jobTarget[j] = "STEP_INTO"
    BY <1>2, <1>6 DEF Halt, SliceHalts
  <2>2. Head(readyJobs') = j
    <3> HIDE DEF j
    <3>1. readyJobs' = <<j>> \o readyJobs
      BY <1>6 DEF Halt, j
    <3> QED BY <1>2, <2>1, <3>1
  <2>3. sliceCount[j] > 0 /\ jobTarget[j] = expected
    BY <1>0, <2>1 DEF SliceInv, Asking
  <2> HIDE DEF j
  <2>4. SliceInv(w)'
    BY <1>1, <1>2, <2>1, <2>2, <2>3 DEF SliceInv, Asking
  <2>5. ASSUME NEW i \in Jobs, NEW v \in Nat, PlaceKept(w, i, v) PROVE PlaceKept(w, i, v)'
    <3>1. CASE i = j
      <4>1. sliceCount[j] = 2 /\ visits[j] = v
        BY <2>1, <2>5, <3>1 DEF PlaceKept, j
      <4>2. expected = "STEP_INTO"
        BY <2>1, <2>3, <4>1
      <4> QED BY <1>1, <2>1, <2>2, <3>1, <4>1, <4>2 DEF PlaceKept
    <3>2. CASE i # j
      BY <1>2, <2>1, <2>2, <2>5, <3>2 DEF PlaceKept
    <3> QED BY <3>1, <3>2
  <2> QED BY <1>3, <2>4, <2>5
<1>7. CASE Finish(w)
  <2>1. /\ wpc[w] = "slice" /\ wpc'[w] = "looping" /\ running'[w] = None
        /\ UNCHANGED <<debugTargetState, readyJobs, jobTarget, sliceCount>>
        /\ \A i \in Jobs : visits'[i] \in {visits[i], 0}
    BY <1>2, <1>7 DEF Finish, engineVars
  <2>2. SliceInv(w)'
    BY <1>0, <1>1, <1>2, <2>1 DEF SliceInv
  <2>3. \A i \in Jobs, v \in Nat : PlaceKept(w, i, v) => PlaceKept(w, i, v)'
    BY <1>2, <2>1 DEF PlaceKept
  <2> QED BY <1>3, <2>2, <2>3
<1>8. ASSUME NEW a \in Adders, NEW j \in Jobs, AddJobRead(a, j) PROVE StepInv(w)'
  <2>1. /\ UNCHANGED <<debugTargetState, readyJobs, wpc, running, sliceCount, visits>>
        /\ \A i \in Jobs : jobTarget'[i] \in {jobTarget[i], debugTargetState}
    BY <1>2, <1>8 DEF AddJobRead, engineVars, workerVars
  <2>2. SliceInv(w)'
    BY <1>0, <1>1, <2>1 DEF SliceInv
  <2>3. \A i \in Jobs, v \in Nat : PlaceKept(w, i, v) => PlaceKept(w, i, v)'
    BY <1>1, <2>1 DEF PlaceKept
  <2> QED BY <1>3, <2>2, <2>3
<1>9. ASSUME NEW a \in Adders, AddJobPush(a) PROVE StepInv(w)'
  <2>1. /\ readyJobs' = Append(readyJobs, adding[a]) /\ NotifyOne
        /\ UNCHANGED <<debugTargetState, running, jobTarget, sliceCount, visits>>
        /\ adding[a] \in Jobs
    BY <1>0, <1>9 DEF AddJobPush, jobVars, TypeOK
  <2>2. wpc'[w] = "telling" <=> wpc[w] = "telling"
    BY <1>2, <2>1 DEF NotifyOne, Waiting
  <2>3. wpc[w] = "telling" => Head(readyJobs') = Head(readyJobs)
    <3>1. wpc[w] = "telling" => readyJobs # <<>>
      BY <1>0 DEF SoloInv, AskInv, HaltedJobInFront
    <3> QED BY <1>2, <2>1, <3>1
  <2>4. SliceInv(w)'
    BY <1>0, <1>1, <2>1, <2>2, <2>3 DEF SliceInv
  <2>5. \A i \in Jobs, v \in Nat : PlaceKept(w, i, v) => PlaceKept(w, i, v)'
    BY <1>1, <2>1, <2>2, <2>3 DEF PlaceKept
  <2> QED BY <1>3, <2>4, <2>5
<1>10. ASSUME NEW a \in Adders, IdleReached(a) PROVE StepInv(w)'
  <2>1. UNCHANGED <<debugTargetState, readyJobs, wpc, running, sliceCount, visits, jobTarget>>
    BY <1>10 DEF IdleReached, engineVars, workerVars, jobVars
  <2> QED BY <1>0, <1>1, <1>3, <2>1 DEF SliceInv, PlaceKept
<1> QED BY <1>4, <1>5, <1>6, <1>7, <1>8, <1>9, <1>10 DEF AdderStep

\* The reply to a halt is the last one; the one before it, if it is of the same
\* job, is of the context before, and a step was asked for.
LEMMA ReplyKeepsSteps ==
  ASSUME NEW w, Workers = {w}, SoloInv(w), StepInv(w), SendReply(w)
  PROVE  StepInv(w)'
<1> DEFINE j == Head(readyJobs)
           n == Len(replies)
           r == [id |-> lastId, name |-> ChangeReasonString(expected), location |-> <<j, visits[j]>>]
<1>1. /\ wpc[w] = "telling" /\ wpc'[w] = "looping" /\ listener[w].at = "mirrored"
      /\ UNCHANGED <<debugTargetState, readyJobs, running, sliceCount, jobTarget, visits, expected>>
      /\ running[w] = None /\ None \notin Jobs
  BY EngineAssumption
  DEF SendReply, TellListener, SoloInv, SessionInv, IInv, TypeOK, engineVars, jobVars, controllerVars
<1>2. Armed(w) /\ Awaited(w) /\ isDebugHalted
  BY <1>1 DEF Armed, SoloInv, AskInv
<1>3. readyJobs # <<>> /\ j \in Jobs /\ visits[j] \in Nat /\ DebugLocation = <<j, visits[j]>>
  <2>1. readyJobs # <<>> /\ readyJobs \in Seq(Jobs) /\ visits \in [Jobs -> 0..MaxVisits]
    BY <1>2 DEF SoloInv, SessionInv, IInv, TypeOK, HaltedJobInFront
  <2> QED BY <1>2, <2>1 DEF DebugLocation
<1>4. replies' = Append(replies, r)
  <2>1. listener[w].waiting /\ listener[w].reason = expected
    BY <1>1, <1>2 DEF Awaited
  <2>2. listener[w].location = <<j, visits[j]>>
    BY <1>1, <1>3 DEF SoloInv, AskInv
  <2> QED BY <2>1, <2>2 DEF SendReply, Reply
<1>5. /\ r.name \in {"run", "step_into"}
      /\ expected = "STEP_INTO" => r.name = "step_into"
      /\ r.location = <<j, visits[j]>>
  BY <1>2 DEF Awaited, ChangeReasonString
<1>6. replies \in Seq(ReplyRecords) /\ HaltInv(w) /\ StepsEveryContext /\ SliceInv(w)
  BY DEF SoloInv, SessionInv, ControllerInv, StepInv
<1> HIDE DEF j, n, r
<1>7. /\ n \in Nat /\ Len(replies') = n + 1 /\ replies'[n + 1] = r
      /\ \A k \in 1..n : replies'[k] = replies[k]
      /\ DOMAIN replies = 1..n /\ DOMAIN replies' = 1..(n + 1)
  BY <1>4, <1>6 DEF n
<1>8. \A k \in 1..(n + 1) : k \in 1..n \/ k = n + 1
  BY <1>7
<1>9. \A k \in 1..n : k \in 1..(n + 1) /\ k < n + 1
  BY <1>7
<1>10. n + 1 \in 1..(n + 1) /\ n + 1 \notin 1..n
  BY <1>7
<1>11. Halts' = Halts \cup {n + 1}
  BY <1>5, <1>7, <1>8, <1>9, <1>10 DEF Halts
<1>12. Halts \subseteq 1..n
  BY <1>7 DEF Halts
<1>13. \A k \in Halts : replies'[k] = replies[k]
  BY <1>7, <1>12
<1>14. SliceInv(w)'
  BY <1>1, <1>6 DEF SliceInv
<1>15. \A k \in Halts' : IsLastHalt(k)' => k = n + 1
  <2>1. \A k \in Halts : ~(n + 1 <= k)
    BY <1>7, <1>12
  <2> QED BY <1>11, <2>1 DEF IsLastHalt
<1>16. HaltInv(w)'
  <2>1. r.location \in Jobs \X Nat /\ r.location[1] = j /\ r.location[2] = visits[j]
    BY <1>3, <1>5
  <2>2. sliceCount[j] > 0
    BY <1>1, <1>6 DEF SliceInv, j
  <2>3. /\ sliceCount'[j] > 0 /\ wpc'[w] # "telling" /\ visits'[j] = visits[j]
        /\ running'[w] # j
    BY <1>1, <1>3, <2>2
  <2>4. replies'[n + 1] = r
    BY <1>7
  <2>5. ASSUME NEW k \in Halts', IsLastHalt(k)'
        PROVE  /\ replies'[k].location \in Jobs \X Nat
               /\ PlaceKept(w, replies[k].location[1], replies[k].location[2])'
    <3>1. k = n + 1
      BY <1>15, <2>5
    <3>2. replies'[k].location = r.location
      BY <2>4, <3>1
    <3>3. replies'[k].location[1] = j /\ replies'[k].location[2] = visits[j]
      BY <2>1, <3>2
    <3> QED BY <2>1, <2>3, <3>2, <3>3 DEF PlaceKept
  <2> QED BY <2>5 DEF HaltInv
<1>17. ASSUME NEW k \in Halts, ~ \E m \in Halts : k < m, replies[k].location[1] = j
       PROVE  r.name = "step_into" /\ visits[j] = replies[k].location[2] - 1
  <2>1. IsLastHalt(k)
    BY <1>7, <1>12, <1>17 DEF IsLastHalt
  <2>2. PlaceKept(w, j, replies[k].location[2])
    BY <1>6, <1>17, <2>1 DEF HaltInv
  <2> QED BY <1>1, <1>5, <2>2 DEF PlaceKept, j
<1>18. ASSUME NEW k \in Halts', NEW l \in Halts', k < l,
              ~ \E m \in Halts' : k < m /\ m < l,
              replies'[l].location[1] = replies'[k].location[1]
       PROVE  /\ replies'[l].name = "step_into"
              /\ replies'[l].location[2] = replies'[k].location[2] - 1
  <2>1. k \in Halts
    <3>1. l \in 1..(n + 1)
      BY <1>7, <1>9, <1>10, <1>11, <1>12
    <3> QED BY <1>7, <1>11, <1>18, <3>1
  <2>2. CASE l \in Halts
    BY <1>6, <1>11, <1>13, <1>18, <2>1, <2>2 DEF StepsEveryContext
  <2>3. CASE l = n + 1
    <3>1. ~ \E m \in Halts : k < m
      BY <1>9, <1>11, <1>12, <1>18, <2>3
    <3>2. replies'[l] = r /\ replies'[k] = replies[k] /\ replies[k].location[1] = j
      BY <1>5, <1>7, <1>13, <1>18, <2>1, <2>3
    <3> QED BY <1>5, <1>17, <2>1, <3>1, <3>2
  <2> QED BY <1>11, <2>2, <2>3
<1>19. StepsEveryContext'
  BY <1>18 DEF StepsEveryContext
<1> QED BY <1>14, <1>16, <1>19 DEF StepInv

LEMMA SessionKeepsSteps ==
  ASSUME NEW w, Workers = {w}, SoloInv(w), StepInv(w), [NextSession]_allVars
  PROVE  StepInv(w)'
<1>1. ASSUME NEW c \in Commands, SendCommand(c) PROVE StepInv(w)'
  BY <1>1, SocketKeepsSteps DEF SendCommand, controllerVars
<1>2. ASSUME NEW n \in 1..Len(stream), ConsumeInput(n) PROVE StepInv(w)'
  <2>1. UNCHANGED <<vars, expected, replies>>
    BY <1>2 DEF ConsumeInput, controllerVars
  <2> QED BY <2>1, SocketKeepsSteps
<1>3. CASE \/ ExecuteRun \/ ExecuteStepInto \/ ExecuteQuery \/ ExecuteSource
           \/ ExecuteFeatureGet \/ ClearLastId \/ ExecuteUnknown
  BY <1>3, ExecuteKeepsSteps
<1>4. CASE Request
  BY <1>4, RequestKeepsSteps
<1>5. ASSUME UNCHANGED sessionVars,
             \/ Sleep(w) \/ TakeJob(w) \/ Halt(w) \/ Finish(w) \/ SpuriousWake(w)
             \/ \E a \in Adders : AdderStep(a)
      PROVE  StepInv(w)'
  BY <1>5, EngineKeepsSteps
<1>6. CASE FetchLocation(w) \/ MirrorState(w)
  <2>1. UNCHANGED <<vars, expected, replies>>
    BY <1>6 DEF FetchLocation, MirrorState, controllerVars
  <2> QED BY <2>1, SocketKeepsSteps
<1>7. CASE SendReply(w)
  BY <1>7, ReplyKeepsSteps
<1>8. CASE UNCHANGED allVars
  BY <1>8, SocketKeepsSteps DEF allVars, sessionVars, controllerVars
<1>9. CASE \E u \in Workers : \/ EngineWork(u) \/ ListenerStep(u)
                              \/ SpuriousWake(u) /\ UNCHANGED sessionVars
  BY <1>5, <1>6, <1>7, <1>9 DEF EngineWork, ListenerStep
<1>10. CASE \E a \in Adders : AdderStep(a) /\ UNCHANGED sessionVars
  BY <1>5, <1>10
<1> QED BY <1>1, <1>2, <1>3, <1>4, <1>8, <1>9, <1>10 DEF NextSession, SocketStep

\* StepsEveryContext: there, a "step_into" is answered with the next context of
\* the job or with another job, and a "run" with another job, though a job is
\* left, queued and taken again at every halt.
THEOREM NoContextSkipped ==
  ASSUME NEW w, Workers = {w}, Window = 1, {"START", "STEP_INTO"} \subseteq Requests
  PROVE  SpecSession => []StepsEveryContext
<1>1. InitSession => StepInv(w)
  BY InitSteps
<1>2. SoloInv(w) /\ StepInv(w) /\ [NextSession]_allVars => StepInv(w)'
  BY SessionKeepsSteps
<1>3. StepInv(w) => StepsEveryContext
  BY DEF StepInv
<1> QED BY <1>1, <1>2, <1>3, SoloInductive, PTL DEF SpecSession
=============================================================================
