--------------------------- MODULE RuntimeProofs ----------------------------
(***************************************************************************)
(* What the match runtime guarantees for any number of seats, turns,       *)
(* starts and closes and any pipe capacity: close() leaves no child behind *)
(* and, although replies carry no turn number, no seat that kept its       *)
(* deadlines ever has an action counted for another turn.                  *)
(***************************************************************************)
EXTENDS AgentRuntime, TLAPS

\* The part of the type invariant the arguments use.
ProcessesTyped ==
    /\ phase \in Phases
    /\ at \in Seats
    /\ process \in [Seats -> Processes]

\* Seats are started upwards and closed downwards, so what lies above the
\* current seat has not been started yet or is closed already.
SeatsInOrder ==
    /\ phase = "starting" => \A s \in Seats : s > at => process[s] = "none"
    /\ phase = "closing" => \A s \in Seats : s > at => ~Running(s)
    /\ phase = "closed" => \A s \in Seats : ~Running(s)

OrphanInv == ProcessesTyped /\ SeatsInOrder

-----------------------------------------------------------------------------
CallsTyped ==
    /\ wait \in [Seats -> Waits]
    /\ DOMAIN reply = Seats /\ DOMAIN requests = Seats
    /\ DOMAIN stdin = Seats /\ DOMAIN stdout = Seats /\ DOMAIN buffer = Seats

\* Requests run only inside start, for the seat being started, and inside a
\* step; a sequential step asks a seat once the lower ones have answered.
CallsInOrder ==
    /\ phase \notin {"starting", "stepping"} => \A s \in Seats : wait[s] = "idle"
    /\ phase = "starting" =>
         /\ \A s \in Seats : s # at => wait[s] = "idle"
         /\ process[at] = "none" => wait[at] = "idle"
    /\ phase = "stepping" /\ mode = "sequential" =>
         \A s \in Seats : wait[s] # "idle" => \A r \in Seats : r < s => wait[r] = "answered"

\* The pipes of a seat hold nothing at all ...
Silent(s) == stdin[s] = <<>> /\ stdout[s] = <<>> /\ buffer[s] = <<>>

\* ... or one line, the request that was written last or the answer to it.
Only(pipe, serial) == pipe # <<>> /\ pipe = <<Head(pipe)>> /\ Head(pipe).serial = serial

OneLine(s) ==
    \/ Only(stdin[s], requests[s]) /\ stdout[s] = <<>> /\ buffer[s] = <<>>
    \/ stdin[s] = <<>> /\ Only(stdout[s], requests[s]) /\ buffer[s] = <<>>
    \/ stdin[s] = <<>> /\ stdout[s] = <<>> /\ Only(buffer[s], requests[s])

\* A seat that missed no deadline is in step with the runtime.
InStep(s) ==
    /\ wait[s] = "waiting" => OneLine(s)
    /\ wait[s] # "waiting" /\ process[s] \in {"none", "alive"} => Silent(s)
    /\ wait[s] = "answered" => reply[s].serial = requests[s]

TurnInv ==
    /\ OrphanInv
    /\ mode \in {"sequential", "simultaneous"}
    /\ CallsTyped
    /\ CallsInOrder
    /\ \A s \in Seats \ missed : InStep(s)

-----------------------------------------------------------------------------
\* Every step keeps seats started upwards and closed downwards.
LEMMA OrphanStep ==
    ASSUME OrphanInv, [RuntimeNext]_runtimeVars PROVE OrphanInv'
  <1> USE RuntimeAssumption DEF OrphanInv, ProcessesTyped, SeatsInOrder, Running, Seats, Phases, Processes
  <1>1. CASE UNCHANGED <<phase, at, process>>
    BY <1>1
  <1>2. ASSUME NEW e \in BOOLEAN, Launch(e) PROVE OrphanInv'
    BY <1>2 DEF Launch, control
  <1>3. CASE Started
    BY <1>3 DEF Started, AbortStart
  <1>4. CASE StepRaises \/ Collect \/ CarryOn \/ \E m \in {"sequential", "simultaneous"} : BeginStep(m)
    BY <1>4 DEF StepRaises, Collect, CarryOn, BeginStep
  <1>5. CASE CloseSeat
    BY <1>5 DEF CloseSeat
  <1>6. CASE CloseOnClosedPipe \/ CloseRaises
    BY <1>6 DEF CloseOnClosedPipe, CloseRaises
  <1>7. CASE Start
    BY <1>7 DEF Start
  <1>8. CASE Leave
    BY <1>8 DEF Leave
  <1>9. CASE LaunchFails
    BY <1>9 DEF LaunchFails, AbortStart
  <1>10. ASSUME NEW s \in Seats, AgentExits(s) PROVE OrphanInv'
    BY <1>10 DEF AgentExits, control
  <1> HIDE DEF OrphanInv, ProcessesTyped, SeatsInOrder, Running, Seats, Phases, Processes
  <1>11. ASSUME NEW s \in Seats, RequestStep(s) PROVE OrphanInv'
    BY <1>1, <1>11
    DEF RequestStep, Ask, Write, ReadLine, SawExit, ReadChunk, TimeOut, control
  <1>12. ASSUME NEW s \in Seats, Agent(s) PROVE OrphanInv'
    BY <1>1, <1>10, <1>12 DEF Agent, AgentReplies, BudgetRunsOut, control
  <1>13. CASE RuntimeStep
    BY <1>2, <1>3, <1>4, <1>5, <1>6, <1>11, <1>13 DEF RuntimeStep
  <1>14. CASE Referee
    BY <1>4, <1>7, <1>8, <1>14 DEF Referee
  <1>15. CASE Outside
    BY <1>6, <1>9, <1>12, <1>15 DEF Outside
  <1>16. CASE UNCHANGED runtimeVars
    BY <1>1, <1>16 DEF runtimeVars, control
  <1> QED BY <1>13, <1>14, <1>15, <1>16 DEF RuntimeNext

\* A new runtime has no processes.
LEMMA OrphanInit == RuntimeInit => OrphanInv
  BY RuntimeAssumption
  DEF RuntimeInit, OrphanInv, ProcessesTyped, SeatsInOrder, Running, Seats, Phases, Processes

\* close() leaves no child process behind, for any number of seats, also when a
\* start is broken off in the middle or an earlier close() was.
THEOREM NothingOutlivesClose == RuntimeSpec => []NoOrphans
  <1>1. OrphanInv /\ [RuntimeNext]_runtimeVars => OrphanInv'
    BY OrphanStep
  <1>2. OrphanInv => NoOrphans
    BY DEF OrphanInv, SeatsInOrder, NoOrphans
  <1> QED BY OrphanInit, <1>1, <1>2, PTL DEF RuntimeSpec

-----------------------------------------------------------------------------
\* What the pipe operations do to a pipe of at most one line.
LEMMA OneLinePipe ==
    ASSUME NEW line
    PROVE  /\ Append(<<>>, line) = <<line>> /\ <<line>> # <<>>
           /\ Head(<<line>>) = line /\ Tail(<<line>>) = <<>>
  OBVIOUS

\* Calls stay on existing seats.
LEMMA CallsTypedStep ==
    ASSUME TurnInv, [RuntimeNext]_runtimeVars PROVE CallsTyped'
  <1> USE DEF TurnInv, OrphanInv, ProcessesTyped, CallsTyped, Waits
  <1>1. CASE UNCHANGED <<pipes, calls>>
    BY <1>1 DEF pipes, calls
  <1>2. ASSUME NEW e \in BOOLEAN, Launch(e) PROVE CallsTyped'
    BY <1>2 DEF Launch, BeginRequest, pipes
  <1>3. ASSUME ForgetResults, UNCHANGED pipes PROVE CallsTyped'
    BY <1>3 DEF ForgetResults, pipes
  <1>4. CASE Start
    BY <1>4 DEF Start
  <1>5. ASSUME CountShutdown, CloseStreams \/ UNCHANGED pipes, UNCHANGED <<wait, reply>> PROVE CallsTyped'
    BY <1>5 DEF CountShutdown, CloseStreams, pipes
  <1>6. ASSUME NEW s \in Seats, NEW e \in BOOLEAN, Ask(s, e) PROVE CallsTyped'
    BY <1>6 DEF Ask, BeginRequest, pipes
  <1>7. ASSUME NEW s \in Seats, NEW kind, Write(s, kind) PROVE CallsTyped'
    BY <1>7 DEF Write
  <1>8. ASSUME NEW s \in Seats, NEW outcome \in {"answered", "failed"}, NEW line, Returns(s, outcome, line)
        PROVE  /\ wait' \in [Seats -> Waits]
               /\ DOMAIN reply' = Seats /\ DOMAIN requests' = Seats
    BY <1>8 DEF Returns
  <1>9. ASSUME NEW s \in Seats, ReadLine(s) PROVE CallsTyped'
    BY <1>8, <1>9 DEF ReadLine
  <1>10. ASSUME NEW s \in Seats, SawExit(s) \/ TimeOut(s) PROVE CallsTyped'
    BY <1>8, <1>10 DEF SawExit, TimeOut, pipes
  <1>11. ASSUME NEW s \in Seats, ReadChunk(s) PROVE CallsTyped'
    BY <1>8, <1>11 DEF ReadChunk, calls
  <1>12. ASSUME NEW s \in Seats, Agent(s) PROVE CallsTyped'
    BY <1>12 DEF Agent, AgentReplies, AgentExits, BudgetRunsOut, pipes, calls
  <1> HIDE DEF TurnInv, OrphanInv, ProcessesTyped, CallsTyped, Waits
  <1>13. ASSUME NEW s \in Seats, RequestStep(s) PROVE CallsTyped'
    BY <1>6, <1>7, <1>9, <1>10, <1>11, <1>13 DEF RequestStep
  <1>14. CASE RuntimeStep
    BY <1>2, <1>3, <1>5, <1>13, <1>14
    DEF RuntimeStep, Started, StepRaises, Collect, CloseSeat, CloseOnClosedPipe
  <1>15. CASE Referee
    BY <1>1, <1>4, <1>15 DEF Referee, CarryOn, Leave, BeginStep
  <1>16. CASE Outside
    BY <1>1, <1>5, <1>12, <1>16 DEF Outside, LaunchFails, CloseRaises
  <1>17. CASE UNCHANGED runtimeVars
    BY <1>1, <1>17 DEF runtimeVars
  <1> QED BY <1>14, <1>15, <1>16, <1>17 DEF RuntimeNext

\* A call goes on for the seat that is asked, so the order of the calls holds.
LEMMA CallsInOrderStep ==
    ASSUME TurnInv, [RuntimeNext]_runtimeVars PROVE CallsInOrder'
  <1>0. OrphanInv' /\ CallsTyped'
    BY OrphanStep, CallsTypedStep DEF TurnInv
  <1> USE RuntimeAssumption DEF TurnInv, OrphanInv, ProcessesTyped, CallsTyped, CallsInOrder, Waits, Seats
  <1>1. ASSUME UNCHANGED <<phase, mode, at, wait>>,
               \A s \in Seats : process'[s] = "none" => process[s] = "none"
        PROVE  CallsInOrder'
    BY <1>1
  <1>2. ASSUME NEW e \in BOOLEAN, Launch(e) PROVE CallsInOrder'
    BY <1>2 DEF Launch, BeginRequest, control
  <1>3. ASSUME ForgetResults PROVE CallsInOrder'
    BY <1>0, <1>3 DEF ForgetResults
  <1>4. CASE Start
    BY <1>4 DEF Start
  <1>5. ASSUME phase \notin {"starting", "stepping"}, phase' # "starting", UNCHANGED wait PROVE CallsInOrder'
    BY <1>5
  <1>6. ASSUME NEW s \in Seats, NEW e \in BOOLEAN, Ask(s, e) PROVE CallsInOrder'
    BY <1>6 DEF Ask, BeginRequest, control
  <1>7. ASSUME NEW s \in Seats, NEW w \in Waits, wait[s] \in {"writing", "waiting"},
               wait' = [wait EXCEPT ![s] = w], UNCHANGED <<phase, mode, at, process>>
        PROVE  CallsInOrder'
    BY <1>7
  <1>8. CASE LaunchFails
    BY <1>8 DEF LaunchFails, AbortStart, calls
  <1> HIDE DEF TurnInv, OrphanInv, ProcessesTyped, CallsTyped, CallsInOrder
  <1>9. ASSUME NEW s \in Seats, RequestStep(s) PROVE CallsInOrder'
    <2>1. ASSUME NEW kind, Write(s, kind) PROVE CallsInOrder'
      BY <1>7, <2>1 DEF Write, control
    <2>2. CASE ReadLine(s)
      BY <1>7, <2>2 DEF ReadLine, Returns, control
    <2>3. CASE SawExit(s) \/ TimeOut(s)
      BY <1>7, <2>3 DEF SawExit, TimeOut, MayTimeOut, Returns, control
    <2>4. CASE ReadChunk(s)
      BY <1>1, <1>7, <2>4 DEF ReadChunk, Returns, control, calls
    <2> QED BY <1>6, <1>9, <2>1, <2>2, <2>3, <2>4 DEF RequestStep
  <1>10. CASE RuntimeStep
    BY <1>2, <1>3, <1>5, <1>9, <1>10
    DEF RuntimeStep, Started, StepRaises, Collect, CloseSeat, CloseOnClosedPipe
  <1>11. CASE Referee
    BY <1>4, <1>5, <1>11 DEF Referee, CarryOn, Leave, BeginStep, calls
  <1>12. ASSUME NEW s \in Seats, Agent(s) PROVE CallsInOrder'
    <2>1. \A r \in Seats : process'[r] = "none" => process[r] = "none"
      BY <1>12
      DEF Agent, AgentReplies, AgentExits, BudgetRunsOut, TurnInv, OrphanInv, ProcessesTyped
    <2> QED BY <1>1, <1>12, <2>1 DEF Agent, AgentReplies, AgentExits, BudgetRunsOut, control, calls
  <1>13. CASE Outside
    BY <1>5, <1>8, <1>12, <1>13 DEF Outside, CloseRaises
  <1>14. CASE UNCHANGED runtimeVars
    BY <1>1, <1>14 DEF runtimeVars, control, calls
  <1> QED BY <1>10, <1>11, <1>13, <1>14 DEF RuntimeNext

\* When results are forgotten, no request() is still waiting: the pool is left
\* only when every thread is done, and a sequential step stops at the failure.
LEMMA NobodyWaits ==
    ASSUME TurnInv, Started \/ StepRaises \/ Collect, NEW s \in Seats
    PROVE  wait[s] # "waiting" /\ ForgetResults /\ UNCHANGED <<process, pipes, missed>>
  <1> USE RuntimeAssumption DEF TurnInv, OrphanInv, ProcessesTyped, CallsTyped, CallsInOrder, Seats
  <1>1. CASE Started
    BY <1>1 DEF Started
  <1>2. CASE StepRaises
    <2>1. PICK f \in Seats : wait[f] = "failed"
      BY <1>2 DEF StepRaises, StepHasFailed
    <2>2. CASE mode = "simultaneous"
      BY <1>2, <2>2 DEF StepRaises, StepHasFailed
    <2>3. CASE mode = "sequential"
      BY <1>2, <2>1, <2>3 DEF StepRaises
    <2>4. mode \in {"sequential", "simultaneous"}
      BY DEF TurnInv
    <2> QED BY <1>2, <2>2, <2>3, <2>4 DEF StepRaises
  <1>3. CASE Collect
    BY <1>3 DEF Collect
  <1> QED BY <1>1, <1>2, <1>3

\* A seat that missed no deadline stays in step: a line is written only into
\* empty pipes, moves through them unchanged in number, and is read before the
\* next one is written.
LEMMA InStepStep ==
    ASSUME TurnInv, [RuntimeNext]_runtimeVars, NEW s \in Seats \ missed' PROVE InStep(s)'
  <1>1. CASE Start
    BY <1>1 DEF Start, InStep, Silent
  <1> SUFFICES ASSUME ~ Start PROVE InStep(s)'
    BY <1>1
  <1>2. missed \subseteq missed'
    BY DEF RuntimeNext, RuntimeStep, Referee, Outside, Launch, Started, StepRaises, Collect, CloseSeat,
           CloseOnClosedPipe, RequestStep, Ask, Write, ReadLine, SawExit, ReadChunk, TimeOut, CarryOn, Leave,
           BeginStep, LaunchFails, CloseRaises, Agent, AgentReplies, AgentExits, BudgetRunsOut, runtimeVars
  <1>3. InStep(s)
    BY <1>2 DEF TurnInv
  <1>4. ASSUME process'[s] = process[s] \/ process'[s] \notin {"none", "alive"},
               wait'[s] = wait[s] \/ (wait[s] # "waiting" /\ wait'[s] \notin {"waiting", "answered"}),
               reply'[s] = reply[s] \/ wait'[s] # "answered",
               requests'[s] = requests[s] \/ wait'[s] \notin {"waiting", "answered"},
               stdin'[s] = stdin[s], stdout'[s] = stdout[s], buffer'[s] = buffer[s]
        PROVE  InStep(s)'
    BY <1>3, <1>4 DEF InStep, Silent, OneLine
  <1> USE DEF ProcessesTyped, CallsTyped
  <1>5. ProcessesTyped /\ CallsTyped
    BY DEF TurnInv, OrphanInv
  <1>6. ASSUME NEW e \in BOOLEAN, Launch(e) PROVE InStep(s)'
    <2>1. process[at] = "none" /\ wait[at] = "idle"
      BY <1>6 DEF Launch, TurnInv, CallsInOrder
    <2>2. CASE s # at
      BY <1>4, <1>5, <1>6, <2>2 DEF Launch, BeginRequest, pipes
    <2>3. CASE s = at
      <3>1. Silent(s)
        BY <1>3, <2>1, <2>3 DEF InStep
      <3>2. wait'[s] \in {"writing", "failed"}
        BY <1>5, <1>6, <2>3 DEF Launch, BeginRequest
      <3> QED BY <1>6, <3>1, <3>2 DEF InStep, Silent, Launch, pipes
    <2> QED BY <2>2, <2>3
  <1>7. CASE Started \/ StepRaises \/ Collect
    <2>1. wait[s] # "waiting" /\ ForgetResults /\ UNCHANGED <<process, pipes, missed>>
      BY <1>7, NobodyWaits
    <2>2. wait'[s] = "idle"
      BY <2>1 DEF ForgetResults
    <2> QED BY <1>3, <2>1, <2>2 DEF InStep, Silent, pipes
  <1>8. ASSUME phase \notin {"starting", "stepping"}, CountShutdown, UNCHANGED <<wait, reply>>,
               CloseStreams \/ UNCHANGED pipes, \A r \in Seats : process'[r] \in {process[r], "exited", "killed"}
        PROVE  InStep(s)'
    <2>1. wait[s] = "idle" /\ wait'[s] = "idle"
      BY <1>8 DEF TurnInv, CallsInOrder
    <2>2. process'[s] \in {"none", "alive"} => Silent(s)
      BY <1>3, <1>8, <2>1 DEF InStep
    <2>3. Silent(s) => Silent(s)'
      BY <1>5, <1>8 DEF Silent, CloseStreams, pipes
    <2> QED BY <2>1, <2>2, <2>3 DEF InStep
  <1>9. CASE CloseSeat \/ CloseRaises \/ CloseOnClosedPipe
    BY <1>5, <1>8, <1>9 DEF CloseSeat, CloseRaises, CloseOnClosedPipe
  <1>10. ASSUME NEW r \in Seats, NEW e \in BOOLEAN, Ask(r, e) PROVE InStep(s)'
    BY <1>4, <1>5, <1>10 DEF Ask, BeginRequest, pipes
  <1>11. ASSUME NEW r \in Seats, NEW kind, Write(r, kind) PROVE InStep(s)'
    <2>1. CASE s # r
      BY <1>4, <1>5, <1>11, <2>1 DEF Write
    <2>2. CASE s = r /\ process[s] = "exited" /\ wait' = [wait EXCEPT ![r] = "failed"]
      BY <1>5, <1>11, <2>2 DEF Write, InStep
    <2>3. CASE /\ s = r /\ process[s] = "alive" /\ wait' = [wait EXCEPT ![r] = "waiting"]
               /\ stdin' = [stdin EXCEPT ![r] = Append(@, [kind |-> kind, serial |-> requests[r] + 1])]
      <3> DEFINE line == [kind |-> kind, serial |-> requests[s] + 1]
      <3>1. Silent(s)
        BY <1>3, <1>11, <2>3 DEF InStep, Write
      <3>2. line.serial = requests[s] + 1
        OBVIOUS
      <3>3. stdin'[s] = Append(stdin[s], line)
        BY <1>5, <2>3
      <3> HIDE DEF line
      <3>4. stdin'[s] = <<line>> /\ stdout'[s] = <<>> /\ buffer'[s] = <<>>
        BY <1>11, <3>1, <3>3, OneLinePipe DEF Write, Silent
      <3>5. requests'[s] = requests[s] + 1
        BY <1>5, <1>11, <2>3 DEF Write
      <3>6. OneLine(s)'
        BY <3>2, <3>4, <3>5, OneLinePipe DEF OneLine, Only
      <3>7. wait'[s] = "waiting"
        BY <1>5, <2>3
      <3> QED BY <3>6, <3>7 DEF InStep
    <2> QED BY <1>11, <2>1, <2>2, <2>3 DEF Write
  <1>12. ASSUME NEW r \in Seats, ReadLine(r) PROVE InStep(s)'
    <2>1. CASE s # r
      BY <1>4, <1>5, <1>12, <2>1 DEF ReadLine, Returns
    <2>2. CASE s = r
      <3>1. stdin[s] = <<>> /\ stdout[s] = <<>> /\ Only(buffer[s], requests[s])
        BY <1>3, <1>12, <2>2 DEF ReadLine, InStep, OneLine
      <3>2. buffer'[s] = Tail(buffer[s])
        BY <1>5, <1>12, <2>2 DEF ReadLine
      <3>3. Silent(s)'
        BY <1>12, <3>1, <3>2, OneLinePipe DEF ReadLine, Silent, Only
      <3>4. requests'[s] = requests[s] /\ wait'[s] \in {"failed", "answered"}
        BY <1>5, <1>12, <2>2 DEF ReadLine, Returns
      <3>5. wait'[s] = "answered" => reply'[s] = Head(buffer[s])
        BY <1>5, <1>12, <2>2 DEF ReadLine, Returns
      <3> QED BY <3>1, <3>3, <3>4, <3>5 DEF InStep, Only
    <2> QED BY <2>1, <2>2
  <1>13. ASSUME NEW r \in Seats, SawExit(r) PROVE InStep(s)'
    <2>1. CASE s # r
      BY <1>4, <1>5, <1>13, <2>1 DEF SawExit, Returns, pipes
    <2>2. CASE s = r
      BY <1>5, <1>13, <2>2 DEF SawExit, Returns, InStep
    <2> QED BY <2>1, <2>2
  <1>14. ASSUME NEW r \in Seats, ReadChunk(r) PROVE InStep(s)'
    <2>1. CASE s # r
      BY <1>4, <1>5, <1>14, <2>1 DEF ReadChunk, Returns, calls
    <2>2. CASE s = r
      <3>1. UNCHANGED <<calls, process, stdin>> /\ wait[s] = "waiting" /\ stdout[s] # <<>>
        BY <1>14, <2>2 DEF ReadChunk
      <3>2. stdin[s] = <<>> /\ Only(stdout[s], requests[s]) /\ buffer[s] = <<>>
        BY <1>3, <3>1 DEF InStep, OneLine
      <3>3. buffer'[s] = stdout[s] /\ stdout'[s] = <<>>
        BY <1>5, <1>14, <2>2 DEF ReadChunk
      <3>4. OneLine(s)'
        BY <3>1, <3>2, <3>3 DEF OneLine, calls
      <3> QED BY <3>1, <3>4 DEF InStep, calls
    <2> QED BY <2>1, <2>2
  <1>15. ASSUME NEW r \in Seats, TimeOut(r) PROVE InStep(s)'
    BY <1>4, <1>5, <1>15 DEF TimeOut, Returns, pipes
  <1>16. ASSUME NEW r \in Seats, NEW kind, AgentReplies(r, kind) PROVE InStep(s)'
    <2>1. CASE s # r
      BY <1>4, <1>5, <1>16, <2>1 DEF AgentReplies, calls
    <2>2. CASE s = r
      <3> DEFINE line == [kind |-> kind, serial |-> Head(stdin[s]).serial]
      <3>1. wait[s] = "waiting"
        BY <1>3, <1>16, <2>2 DEF AgentReplies, InStep, Silent
      <3>2. Only(stdin[s], requests[s]) /\ stdout[s] = <<>> /\ buffer[s] = <<>>
        BY <1>3, <1>16, <2>2, <3>1 DEF AgentReplies, InStep, OneLine
      <3>3. line.serial = Head(stdin[s]).serial
        OBVIOUS
      <3>4. stdout'[s] = Append(stdout[s], line) /\ stdin'[s] = Tail(stdin[s])
        BY <1>5, <1>16, <2>2 DEF AgentReplies
      <3> HIDE DEF line
      <3>5. stdin'[s] = <<>> /\ stdout'[s] = <<line>>
        BY <3>2, <3>4, OneLinePipe DEF Only
      <3>6. OneLine(s)'
        BY <1>16, <3>2, <3>3, <3>5, OneLinePipe DEF AgentReplies, OneLine, Only, calls
      <3> QED BY <1>16, <3>1, <3>6 DEF AgentReplies, InStep, calls
    <2> QED BY <2>1, <2>2
  <1>17. ASSUME NEW r \in Seats, AgentExits(r) PROVE InStep(s)'
    BY <1>4, <1>5, <1>17 DEF AgentExits, pipes, calls
  <1>18. CASE UNCHANGED <<process, pipes, calls>>
    BY <1>4, <1>18 DEF pipes, calls
  <1> HIDE DEF ProcessesTyped, CallsTyped
  <1>19. ASSUME NEW r \in Seats, RequestStep(r) PROVE InStep(s)'
    BY <1>10, <1>11, <1>12, <1>13, <1>14, <1>15, <1>19 DEF RequestStep
  <1>20. ASSUME NEW r \in Seats, Agent(r) PROVE InStep(s)'
    BY <1>16, <1>17, <1>18, <1>20 DEF Agent, BudgetRunsOut
  <1>21. CASE RuntimeStep
    BY <1>6, <1>7, <1>9, <1>19, <1>21 DEF RuntimeStep
  <1>22. CASE Referee
    BY <1>18, <1>22 DEF Referee, CarryOn, Leave, BeginStep
  <1>23. CASE Outside
    BY <1>9, <1>18, <1>20, <1>23 DEF Outside, LaunchFails
  <1>24. CASE UNCHANGED runtimeVars
    BY <1>18, <1>24 DEF runtimeVars
  <1> QED BY <1>21, <1>22, <1>23, <1>24 DEF RuntimeNext

-----------------------------------------------------------------------------
\* The runtime and every punctual seat are in step in all reachable states.
THEOREM TurnInvariance == RuntimeSpec => []TurnInv
  <1>1. RuntimeInit => TurnInv
    <2> SUFFICES ASSUME RuntimeInit PROVE TurnInv
      OBVIOUS
    <2>1. CallsTyped /\ CallsInOrder
      BY RuntimeAssumption DEF RuntimeInit, CallsTyped, CallsInOrder, Waits, Seats
    <2>2. \A s \in Seats : InStep(s)
      BY DEF RuntimeInit, InStep, Silent
    <2> QED BY OrphanInit, <2>1, <2>2 DEF TurnInv, RuntimeInit
  <1>2. TurnInv /\ [RuntimeNext]_runtimeVars => TurnInv'
    <2> SUFFICES ASSUME TurnInv, [RuntimeNext]_runtimeVars PROVE TurnInv'
      OBVIOUS
    <2>1. OrphanInv' /\ CallsTyped' /\ CallsInOrder'
      BY OrphanStep, CallsTypedStep, CallsInOrderStep DEF TurnInv
    <2>2. (mode \in {"sequential", "simultaneous"})'
      BY DEF TurnInv, RuntimeNext, RuntimeStep, Referee, Outside, Launch, Started, StepRaises, Collect, CloseSeat,
             CloseOnClosedPipe, RequestStep, Ask, Write, ReadLine, SawExit, ReadChunk, TimeOut, CarryOn, Leave,
             Start, BeginStep, LaunchFails, CloseRaises, Agent, AgentReplies, AgentExits, BudgetRunsOut,
             runtimeVars, control
    <2> QED BY <2>1, <2>2, InStepStep DEF TurnInv
  <1> QED BY <1>1, <1>2, PTL DEF RuntimeSpec

\* step() counts, for every seat that never missed a deadline, the answer to the
\* request of that very turn, though the protocol does not number replies.
THEOREM ActionsBelongToTheirTurn == RuntimeSpec => ActionAnswersItsTurn
  <1>1. TurnInv /\ [RuntimeNext]_runtimeVars =>
          [phase = "stepping" /\ phase' = "open" =>
             \A s \in Seats \ missed : reply[s].serial = requests[s]]_runtimeVars
    <2> SUFFICES ASSUME TurnInv, [RuntimeNext]_runtimeVars, phase = "stepping", phase' = "open"
                 PROVE  \A s \in Seats \ missed : reply[s].serial = requests[s]
      OBVIOUS
    <2>1. Collect
      BY DEF RuntimeNext, RuntimeStep, Referee, Outside, Launch, Started, StepRaises, CloseSeat,
             CloseOnClosedPipe, RequestStep, Ask, Write, ReadLine, SawExit, ReadChunk, TimeOut, CarryOn, Leave,
             Start, BeginStep, LaunchFails, CloseRaises, Agent, AgentReplies, AgentExits, BudgetRunsOut,
             runtimeVars, control
    <2> QED BY <2>1 DEF Collect, TurnInv, InStep
  <1> QED BY <1>1, TurnInvariance, PTL DEF RuntimeSpec, ActionAnswersItsTurn
=============================================================================
