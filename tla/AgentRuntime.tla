---------------------------- MODULE AgentRuntime ----------------------------
(***************************************************************************)
(* The runtime of a match (grader/agent_runtime.py): one child process per *)
(* seat, line messages over its pipes, and a referee that starts the       *)
(* seats, asks all of them for an action turn by turn, in seat order or at *)
(* once, and closes them.                                                  *)
(*                                                                         *)
(* A request writes one line and reads one line; nothing in a reply says   *)
(* which request it answers.  In the model it carries the serial number of *)
(* that request (_requests of the seat), for the properties only.          *)
(*                                                                         *)
(* The agents are external.  They answer requests in order, one line each, *)
(* as late as they like, with a line of the right or the wrong type, an    *)
(* invalid or an oversized one, and may exit at any time.  The referee is  *)
(* external too: an exception reaches it, and it leaves the runtime or     *)
(* catches the exception and asks for another turn.  The turn number is    *)
(* always the runtime's own, and start is called on a new or a closed      *)
(* runtime only.                                                           *)
(***************************************************************************)
EXTENDS Integers, Sequences

CONSTANTS Count,      \* number of seats
          MaxTurns,   \* limits.max_turns
          MaxStarts,  \* how often the referee starts the runtime
          MaxCloses,  \* how often it is closed after one start
          PipeRoom,   \* unread messages the stdin pipe of an agent holds
          NULL

ASSUME RuntimeAssumption ==
    /\ Count \in Nat \ {0} /\ PipeRoom \in Nat \ {0}
    /\ MaxTurns \in Nat /\ MaxStarts \in Nat /\ MaxCloses \in Nat \ {0}

VARIABLES phase,      \* where the runtime is
          mode,       \* "sequential" or "simultaneous"
          at,         \* the seat being started or closed
          turn,       \* _turn
          starts,     \* starts so far
          closes,     \* calls of close() since the last of them
          process,    \* of each seat; "killed" but not yet reaped is one state
          spent,      \* its total runtime is used up
          stdin,      \* requests it has not answered
          stdout,     \* lines in its pipe
          buffer,     \* lines in _stdout_buffer
          wait,       \* where its request() call is
          reply,      \* what it returned, or NULL
          requests,   \* _requests
          turns,      \* _turns
          missed      \* ghost: seats where a request() ended before its reply was read

control == <<phase, mode, at, turn, starts, closes>>
pipes == <<stdin, stdout, buffer>>
calls == <<wait, reply, requests>>
runtimeVars == <<control, process, spent, pipes, calls, turns, missed>>

Seats == 0 .. Count - 1
Phases == {"new", "starting", "open", "stepping", "failed", "closing", "unclosed", "closed"}

Processes == {"none", "alive", "killed", "exited"}
Waits == {"idle", "writing", "waiting", "answered", "failed"}

\* One request at start, one per turn, one per close.
MaxRequests == 1 + MaxTurns + MaxCloses
Line == [kind : {"init", "turn", "ready", "action", "invalid", "oversized"},
         serial : 1 .. MaxRequests]

RuntimeTypeOK ==
    /\ phase \in Phases
    /\ mode \in {"sequential", "simultaneous"}
    /\ at \in Seats
    /\ turn \in 0 .. MaxTurns
    /\ starts \in 0 .. MaxStarts
    /\ closes \in 0 .. MaxCloses
    /\ process \in [Seats -> Processes]
    /\ spent \in [Seats -> BOOLEAN]
    /\ \A s \in Seats : \A p \in {stdin[s], stdout[s], buffer[s]} :
         \A i \in DOMAIN p : p[i] \in Line
    /\ wait \in [Seats -> Waits]
    /\ reply \in [Seats -> Line \cup {NULL}]
    /\ requests \in [Seats -> 0 .. MaxRequests]
    /\ turns \in [Seats -> 0 .. MaxTurns]
    /\ missed \subseteq Seats

RuntimeInit ==
    /\ phase = "new" /\ mode = "sequential" /\ at = 0 /\ turn = 0
    /\ starts = 0 /\ closes = 0
    /\ process = [s \in Seats |-> "none"]
    /\ spent = [s \in Seats |-> FALSE]
    /\ stdin = [s \in Seats |-> <<>>]
    /\ stdout = [s \in Seats |-> <<>>]
    /\ buffer = [s \in Seats |-> <<>>]
    /\ wait = [s \in Seats |-> "idle"]
    /\ reply = [s \in Seats |-> NULL]
    /\ requests = [s \in Seats |-> 0]
    /\ turns = [s \in Seats |-> 0]
    /\ missed = {}

-----------------------------------------------------------------------------
\* request() up to the write: nothing is sent when the message cannot be
\* encoded or the total runtime is used up.
BeginRequest(s, encodes) ==
    wait' = [wait EXCEPT ![s] = IF encodes /\ ~spent[s] THEN "writing" ELSE "failed"]

\* The write blocks while the pipe is full, without a timeout; a dead reader
\* breaks it.  It counts as a request either way.
Write(s, kind) ==
    /\ wait[s] = "writing"
    /\ requests' = [requests EXCEPT ![s] = @ + 1]
    /\ \/ /\ process[s] = "alive" /\ Len(stdin[s]) < PipeRoom
          /\ stdin' = [stdin EXCEPT ![s] =
                         Append(@, [kind |-> kind, serial |-> requests[s] + 1])]
          /\ wait' = [wait EXCEPT ![s] = "waiting"]
       \/ /\ process[s] = "exited"
          /\ wait' = [wait EXCEPT ![s] = "failed"]
          /\ UNCHANGED stdin
    /\ UNCHANGED <<control, process, spent, stdout, buffer, reply, turns, missed>>

Returns(s, outcome, line) ==
    /\ wait' = [wait EXCEPT ![s] = outcome]
    /\ reply' = [reply EXCEPT ![s] = line]
    /\ UNCHANGED requests

\* The results of a step are locals of it.
ForgetResults ==
    /\ wait' = [s \in Seats |-> "idle"]
    /\ reply' = [s \in Seats |-> NULL]
    /\ UNCHANGED requests

\* _read_message: a complete line in the buffer comes first ...
ReadLine(s) ==
    /\ wait[s] = "waiting" /\ buffer[s] # <<>>
    /\ LET line == Head(buffer[s]) IN
         IF line.kind \in {"invalid", "oversized"} THEN Returns(s, "failed", NULL)
         ELSE Returns(s, "answered", line)
    /\ buffer' = [buffer EXCEPT ![s] = Tail(@)]
    /\ UNCHANGED <<control, process, spent, stdin, stdout, turns, missed>>

\* ... then a dead process is reported, whatever its pipe still holds ...
SawExit(s) ==
    /\ wait[s] = "waiting" /\ buffer[s] = <<>>
    /\ process[s] = "exited"
    /\ Returns(s, "failed", NULL)
    /\ UNCHANGED <<control, process, spent, pipes, turns, missed>>

\* ... and a live one is read from.  Too much unread text fails the request
\* and stays in the buffer.
ReadChunk(s) ==
    /\ wait[s] = "waiting" /\ buffer[s] = <<>>
    /\ process[s] = "alive"
    /\ stdout[s] # <<>>
    /\ buffer' = [buffer EXCEPT ![s] = stdout[s]]
    /\ stdout' = [stdout EXCEPT ![s] = <<>>]
    /\ IF \E i \in DOMAIN stdout[s] : stdout[s][i].kind = "oversized"
       THEN Returns(s, "failed", NULL) /\ missed' = missed \cup {s}
       ELSE UNCHANGED <<calls, missed>>
    /\ UNCHANGED <<control, process, spent, stdin, turns>>

\* Variant: the deadline is not checked while the agent lives.
TimesOutOnlyDead(s) == wait[s] = "waiting" /\ buffer[s] = <<>> /\ process[s] = "exited"

MayTimeOut(s) == wait[s] = "waiting" /\ buffer[s] = <<>>

\* AgentTimeout: the agent keeps running and its reply may still come.
TimeOut(s) ==
    /\ MayTimeOut(s)
    /\ Returns(s, "failed", NULL)
    /\ missed' = missed \cup {s}
    /\ UNCHANGED <<control, process, spent, pipes, turns>>

-----------------------------------------------------------------------------
\* start() of a fresh or closed runtime: new processes, one after another.
Start ==
    /\ phase \in {"new", "closed"}
    /\ starts < MaxStarts
    /\ phase' = "starting" /\ at' = 0 /\ starts' = starts + 1 /\ closes' = 0
    /\ process' = [s \in Seats |-> "none"]
    /\ spent' = [s \in Seats |-> FALSE]
    /\ stdin' = [s \in Seats |-> <<>>]
    /\ stdout' = [s \in Seats |-> <<>>]
    /\ buffer' = [s \in Seats |-> <<>>]
    /\ wait' = [s \in Seats |-> "idle"]
    /\ reply' = [s \in Seats |-> NULL]
    /\ requests' = [s \in Seats |-> 0]
    /\ turns' = [s \in Seats |-> 0]
    /\ missed' = {}
    /\ UNCHANGED <<mode, turn>>

Launch(encodes) ==
    /\ phase = "starting" /\ process[at] = "none"
    /\ process' = [process EXCEPT ![at] = "alive"]
    /\ BeginRequest(at, encodes)
    /\ UNCHANGED <<control, spent, pipes, reply, requests, turns, missed>>

\* Variant: the exception of a failed start escapes without close().
AbortWithoutClose == phase' = "closed" /\ UNCHANGED <<at, closes>>

\* close() of the seats started so far, the failing one included.
AbortStart == phase' = "closing" /\ closes' = 1 /\ UNCHANGED at

LaunchFails ==
    /\ phase = "starting" /\ process[at] = "none"
    /\ AbortStart
    /\ UNCHANGED <<mode, turn, starts, process, spent, pipes, calls, turns, missed>>

Started ==
    /\ phase = "starting" /\ wait[at] \in {"answered", "failed"}
    /\ IF wait[at] = "answered" /\ reply[at].kind = "ready"
       THEN /\ IF at = Count - 1 THEN phase' = "open" /\ UNCHANGED at
               ELSE at' = at + 1 /\ UNCHANGED phase
            /\ UNCHANGED closes
       ELSE AbortStart
    /\ ForgetResults
    /\ UNCHANGED <<mode, turn, starts, process, spent, pipes, turns, missed>>

-----------------------------------------------------------------------------
WithinTurnLimit == turn + 1 <= MaxTurns

BeginStep(m) ==
    /\ phase = "open"
    /\ WithinTurnLimit
    /\ phase' = "stepping" /\ mode' = m /\ turn' = turn + 1
    /\ UNCHANGED <<at, starts, closes, process, spent, pipes, calls, turns, missed>>

\* In seat order, or from one thread per seat.
Ask(s, encodes) ==
    /\ phase = "stepping" /\ wait[s] = "idle"
    /\ mode = "sequential" => \A r \in 0 .. s - 1 : wait[r] = "answered"
    /\ BeginRequest(s, encodes)
    /\ UNCHANGED <<control, process, spent, pipes, reply, requests, turns, missed>>

\* Variant: the first failing future ends the step, the others run on.
RaisesAtOnce == \E s \in Seats : wait[s] = "failed"

\* The pool is left only when every thread is done.
StepHasFailed ==
    /\ \E s \in Seats : wait[s] = "failed"
    /\ mode = "simultaneous" => \A s \in Seats : wait[s] \in {"answered", "failed"}

StepRaises ==
    /\ phase = "stepping"
    /\ StepHasFailed
    /\ phase' = "failed"
    /\ ForgetResults
    /\ UNCHANGED <<mode, at, turn, starts, closes, process, spent, pipes, turns, missed>>

\* Actions are collected in seat order; a reply of another type ends that.
Collected == {s \in Seats : \A r \in 0 .. s : reply[r].kind = "action"}

Collect ==
    /\ phase = "stepping"
    /\ \A s \in Seats : wait[s] = "answered"
    /\ turns' = [s \in Seats |-> IF s \in Collected THEN turns[s] + 1 ELSE turns[s]]
    /\ phase' = IF Collected = Seats THEN "open" ELSE "failed"
    /\ ForgetResults
    /\ UNCHANGED <<mode, at, turn, starts, closes, process, spent, pipes, missed>>

-----------------------------------------------------------------------------
\* The referee catches the exception and goes on, or leaves.
CarryOn ==
    /\ phase = "failed"
    /\ phase' = "open"
    /\ UNCHANGED <<mode, at, turn, starts, closes, process, spent, pipes, calls, turns, missed>>

Leave ==
    /\ phase \in {"open", "failed", "unclosed"}
    /\ closes < MaxCloses
    /\ phase' = "closing" /\ at' = Count - 1 /\ closes' = closes + 1
    /\ UNCHANGED <<mode, turn, starts, process, spent, pipes, calls, turns, missed>>

\* The shutdown request of _AgentProcess.close is written like any other,
\* unless the total runtime is used up; its answer does not matter.
ShutdownIsSent == spent[at] \/ (process[at] = "alive" /\ Len(stdin[at]) < PipeRoom)

Running(s) == process[s] \in {"alive", "killed"}

\* The streams are closed however the process ends.
CloseStreams ==
    /\ stdin' = [stdin EXCEPT ![at] = <<>>]
    /\ stdout' = [stdout EXCEPT ![at] = <<>>]
    /\ buffer' = [buffer EXCEPT ![at] = <<>>]

CountShutdown ==
    requests' = IF Running(at) /\ ~spent[at]
                THEN [requests EXCEPT ![at] = @ + 1] ELSE requests

\* Then SIGTERM, then SIGKILL; seats are closed in reverse order.
CloseSeat ==
    /\ phase = "closing"
    /\ Running(at) => ShutdownIsSent
    /\ CountShutdown
    /\ process' = [process EXCEPT ![at] = IF Running(at) THEN "exited" ELSE @]
    /\ IF at = 0 THEN phase' = "closed" /\ UNCHANGED at
       ELSE at' = at - 1 /\ UNCHANGED phase
    /\ CloseStreams
    /\ UNCHANGED <<mode, turn, starts, closes, spent, wait, reply, turns, missed>>

\* The killed process is not reaped within the second wait: TimeoutExpired
\* leaves close() with this and all lower seats registered, its pipes closed.
CloseRaises ==
    /\ phase = "closing" /\ Running(at) /\ ShutdownIsSent
    /\ CountShutdown
    /\ process' = [process EXCEPT ![at] = "killed"]
    /\ phase' = "unclosed"
    /\ CloseStreams
    /\ UNCHANGED <<mode, at, turn, starts, closes, spent, wait, reply, turns, missed>>

\* A second close() writes the shutdown request to the closed pipe: ValueError.
CloseOnClosedPipe ==
    /\ phase = "closing" /\ process[at] = "killed" /\ ~spent[at]
    /\ CountShutdown
    /\ phase' = "unclosed"
    /\ UNCHANGED <<mode, at, turn, starts, closes, process, spent, pipes, wait, reply,
                   turns, missed>>

-----------------------------------------------------------------------------
AgentReplies(s, kind) ==
    /\ process[s] = "alive" /\ stdin[s] # <<>>
    /\ stdout' = [stdout EXCEPT ![s] =
                    Append(@, [kind |-> kind, serial |-> Head(stdin[s]).serial])]
    /\ stdin' = [stdin EXCEPT ![s] = Tail(@)]
    /\ UNCHANGED <<control, process, spent, buffer, calls, turns, missed>>

AgentExits(s) ==
    /\ Running(s)
    /\ process' = [process EXCEPT ![s] = "exited"]
    /\ UNCHANGED <<control, spent, pipes, calls, turns, missed>>

\* _deadline passes.
BudgetRunsOut(s) ==
    /\ process[s] = "alive" /\ ~spent[s]
    /\ spent' = [spent EXCEPT ![s] = TRUE]
    /\ UNCHANGED <<control, process, pipes, calls, turns, missed>>

-----------------------------------------------------------------------------
RequestStep(s) ==
    \/ \E encodes \in BOOLEAN : Ask(s, encodes)
    \/ Write(s, IF phase = "starting" THEN "init" ELSE "turn")
    \/ ReadLine(s) \/ SawExit(s) \/ ReadChunk(s) \/ TimeOut(s)

\* What the runtime does by itself once it has been called.
RuntimeStep ==
    \/ \E encodes \in BOOLEAN : Launch(encodes)
    \/ Started \/ StepRaises \/ Collect \/ CloseSeat \/ CloseOnClosedPipe
    \/ \E s \in Seats : RequestStep(s)

Referee ==
    \/ Start \/ CarryOn \/ Leave
    \/ \E m \in {"sequential", "simultaneous"} : BeginStep(m)

Agent(s) ==
    \/ \E kind \in {"ready", "action", "invalid", "oversized"} : AgentReplies(s, kind)
    \/ AgentExits(s) \/ BudgetRunsOut(s)

Outside == LaunchFails \/ CloseRaises \/ \E s \in Seats : Agent(s)

RuntimeNext == RuntimeStep \/ Referee \/ Outside

(***************************************************************************)
(* Fairness: the runtime's own code runs on.  Nothing is assumed of agents *)
(* and referees.                                                           *)
(***************************************************************************)
RuntimeSpec ==
    RuntimeInit /\ [][RuntimeNext]_runtimeVars /\ WF_runtimeVars(RuntimeStep)

-----------------------------------------------------------------------------
\* close() leaves no child process behind, whether the match ended, a step
\* failed, or some seat could not be started after others were.
NoOrphans == phase = "closed" => \A s \in Seats : ~Running(s)

\* Replies carry no turn number: an action belongs to its turn only because
\* every earlier reply was consumed.  That holds for each seat whose requests
\* never timed out or overflowed the buffer, also when the referee goes on after another seat failed in
\* the middle of a simultaneous turn.
ActionAnswersItsTurn ==
    [][phase = "stepping" /\ phase' = "open" =>
          \A s \in Seats \ missed : reply[s].serial = requests[s]]_runtimeVars

\* start, step and close come back whatever the agents do: hang, die between
\* reply and read, or answer nonsense ("The runtime terminates stalled or
\* crashed processes").  It needs pipes with room for all unread messages.
EveryCallReturns ==
    phase \in {"starting", "stepping", "closing"}
        ~> phase \in {"open", "failed", "unclosed", "closed"}
=============================================================================
