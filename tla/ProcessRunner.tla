--------------------------- MODULE ProcessRunner ---------------------------
(***************************************************************************)
(* A definition whose name is another one's with a suffix after "_" (as in *)
(* MayRead_StopsAtCap) is a seeded fault: it is used by no action, and     *)
(* stands for a plausible slip that a named property catches when it takes *)
(* the place of the definition after it.  All modules follow this.         *)
(*                                                                         *)
(* transports/base.py: run_process and its two _read_bounded tasks, on the *)
(* asyncio event loop, against a child process and the descendants that    *)
(* inherit the write ends of its pipes.                                    *)
(*                                                                         *)
(* Environment (external): the processes write, fork, close their ends and *)
(* exit as they like.  A kernel pipe and the StreamReader that asyncio     *)
(* fills from it are one bounded buffer, pipe[s].  asyncio reports two     *)
(* things through separate callbacks, the exit of the child and the end of *)
(* file of each pipe; which of them completes process.wait() depends on    *)
(* the Python release (wakeAtExit): at the exit alone, or only when both   *)
(* pipes are disconnected too.  Both satisfy requires-python, so both are  *)
(* explored.  Output is plain text: one byte per character, no secrets     *)
(* (SanitizeStreams covers the rest), so the size of a reply is exact.     *)
(***************************************************************************)
EXTENDS StreamBudgets

CONSTANTS
  Child,      \* the process run_process starts
  Heirs,      \* processes it may fork, directly or not
  Codes,      \* exit codes a process may end with
  KillCode,   \* the returncode of a process ended by SIGKILL (-9)
  NoCode,     \* returncode is None
  NoReply,    \* run_process has not returned a CommandResult
  Cap,        \* command.max_output_bytes
  Chunk,      \* _READ_CHUNK_BYTES
  PipeSize,   \* capacity of a pipe and its StreamReader
  MaxBytes    \* bound: bytes written to one stream

ASSUME ProcessAssumption == Child \notin Heirs
ASSUME CodeAssumption == NoCode \notin Codes \cup {KillCode}
ASSUME SizeAssumption ==
  Cap \in Nat /\ Chunk \in Nat \ {0} /\ PipeSize \in Nat \ {0} /\ MaxBytes \in Nat

Streams == {"stdout", "stderr"}
Procs == {Child} \cup Heirs

VARIABLES
  wakeAtExit,  \* which asyncio this is, chosen in Init
  pc,          \* where the coroutine run_process is suspended
  child,       \* "none", "running", or ended: "exited" by itself or "killed"
  code,        \* how the child ended
  ends,        \* ends[s]: processes holding the write end of pipe s
  born,        \* descendants forked so far
  produced,    \* produced[s]: bytes written to s so far
  pipe,        \* pipe[s]: bytes written and not yet read
  eof,         \* eof[s]: the loop has seen the end of pipe s
  returncode,  \* process.returncode, set when the loop collects the child
  lost,        \* the loop has dropped the process: collected, pipes at end
  woken,       \* the future behind process.wait() is done
  expired,     \* the timer of wait_for has fired
  reader,      \* reader[s]: state of the _read_bounded task
  retained,    \* retained[s]: len(retained) of that task
  truncated,   \* truncated[s]: its truncated flag
  outcome,     \* what the caller of run_process got
  reply        \* the CommandResult, if that

procVars   == <<child, code, ends, born, produced>>
loopVars   == <<eof, returncode, lost, woken>>
readerVars == <<reader, retained, truncated>>
vars == <<wakeAtExit, pc, procVars, pipe, loopVars, expired, readerVars,
          outcome, reply>>

Ended == {"exited", "killed"}

Init ==
  /\ wakeAtExit \in BOOLEAN
  /\ pc = "spawn"
  /\ child = "none"
  /\ code = KillCode
  /\ ends = [s \in Streams |-> {}]
  /\ born = {}
  /\ produced = [s \in Streams |-> 0]
  /\ pipe = [s \in Streams |-> 0]
  /\ eof = [s \in Streams |-> FALSE]
  /\ returncode = NoCode
  /\ lost = FALSE
  /\ woken = FALSE
  /\ expired = FALSE
  /\ reader = [s \in Streams |-> "absent"]
  /\ retained = [s \in Streams |-> 0]
  /\ truncated = [s \in Streams |-> FALSE]
  /\ outcome = "pending"
  /\ reply = NoReply

-----------------------------------------------------------------------------
(* run_process: starting the command.                                      *)

Spawn ==
  /\ pc = "spawn"
  /\ pc' = "waiting"
  /\ child' = "running"
  /\ ends' = [s \in Streams |-> {Child}]
  /\ reader' = [s \in Streams |-> "reading"]
  /\ UNCHANGED <<wakeAtExit, code, born, produced, pipe, loopVars, expired,
                 retained, truncated, outcome, reply>>

(* FileNotFoundError (missing_code), PermissionError, any other OSError.   *)
SpawnFails ==
  /\ pc = "spawn"
  /\ pc' = "done"
  /\ outcome' \in {"missing", "permission_denied", "command_failed"}
  /\ UNCHANGED <<wakeAtExit, procVars, pipe, loopVars, expired, readerVars, reply>>

-----------------------------------------------------------------------------
(* The processes (external).                                               *)

Write(p, s) ==
  /\ p \in ends[s]
  /\ pipe[s] < PipeSize           \* a write to a full pipe blocks
  /\ produced[s] < MaxBytes
  /\ produced' = [produced EXCEPT ![s] = @ + 1]
  /\ pipe' = [pipe EXCEPT ![s] = @ + 1]
  /\ UNCHANGED <<wakeAtExit, pc, child, code, ends, born, loopVars, expired,
                 readerVars, outcome, reply>>

Fork(p, h) ==
  /\ h \notin born
  /\ \E s \in Streams : p \in ends[s]
  /\ born' = born \cup {h}
  /\ ends' = [s \in Streams |-> IF p \in ends[s] THEN ends[s] \cup {h} ELSE ends[s]]
  /\ UNCHANGED <<wakeAtExit, pc, child, code, produced, pipe, loopVars, expired,
                 readerVars, outcome, reply>>

(* A process redirects a stream, or a descendant ends (one end at a time). *)
CloseEnd(p, s) ==
  /\ p \in ends[s]
  /\ ends' = [ends EXCEPT ![s] = @ \ {p}]
  /\ UNCHANGED <<wakeAtExit, pc, child, code, born, produced, pipe, loopVars,
                 expired, readerVars, outcome, reply>>

ChildExits(c) ==
  /\ child = "running"
  /\ child' = "exited"
  /\ code' = c
  /\ ends' = [s \in Streams |-> ends[s] \ {Child}]
  /\ UNCHANGED <<wakeAtExit, pc, born, produced, pipe, loopVars, expired,
                 readerVars, outcome, reply>>

-----------------------------------------------------------------------------
(* The event loop (external): what asyncio reports, in its own order.      *)

PipeAtEnd(s) ==
  /\ child # "none"
  /\ ends[s] = {}
  /\ ~eof[s]
  /\ eof' = [eof EXCEPT ![s] = TRUE]
  /\ UNCHANGED <<wakeAtExit, pc, procVars, pipe, returncode, lost, woken, expired,
                 readerVars, outcome, reply>>

ChildCollected ==
  /\ child \in Ended
  /\ returncode = NoCode
  /\ returncode' = code
  /\ woken' = (woken \/ wakeAtExit)
  /\ UNCHANGED <<wakeAtExit, pc, procVars, pipe, eof, lost, expired, readerVars,
                 outcome, reply>>

ProcessDropped ==
  /\ returncode # NoCode
  /\ \A s \in Streams : eof[s]
  /\ ~lost
  /\ lost' = TRUE
  /\ woken' = TRUE
  /\ UNCHANGED <<wakeAtExit, pc, procVars, pipe, eof, returncode, expired,
                 readerVars, outcome, reply>>

(* The timer may fire in the very iteration that completed process.wait(), *)
(* before run_process resumes: the deadline wins.                          *)
TimerFires ==
  /\ pc = "waiting"
  /\ ~expired
  /\ expired' = TRUE
  /\ UNCHANGED <<wakeAtExit, pc, procVars, pipe, loopVars, readerVars, outcome, reply>>

-----------------------------------------------------------------------------
(* _read_bounded: one chunk, whatever is there up to the chunk size.  It   *)
(* goes on reading when the cap is reached, and drops what is beyond.      *)

MayRead_StopsAtCap(s) == reader[s] = "reading" /\ retained[s] < Cap
MayRead(s) == reader[s] = "reading"

Taken_WholeChunk(s, n) == n
Taken(s, n) == Least(n, Cap - retained[s])

Overflows_ChunkOnly(s, n) == n > Cap
Overflows(s, n) == n > Cap - retained[s]

ReadChunk(s, n) ==
  /\ MayRead(s)
  /\ n <= pipe[s]
  /\ pipe' = [pipe EXCEPT ![s] = @ - n]
  /\ retained' = [retained EXCEPT ![s] = @ + Taken(s, n)]
  /\ truncated' = [truncated EXCEPT ![s] = @ \/ Overflows(s, n)]
  /\ UNCHANGED <<wakeAtExit, pc, procVars, loopVars, expired, reader, outcome, reply>>

ReadEnds(s) ==
  /\ reader[s] = "reading"
  /\ eof[s]
  /\ pipe[s] = 0
  /\ reader' = [reader EXCEPT ![s] = "finished"]
  /\ UNCHANGED <<wakeAtExit, pc, procVars, pipe, loopVars, expired, retained,
                 truncated, outcome, reply>>

-----------------------------------------------------------------------------
(* run_process: resuming from await wait_for(process.wait(), timeout).     *)

WaitReturns ==
  /\ pc = "waiting"
  /\ woken
  /\ ~expired
  /\ pc' = "stdout_task"
  /\ UNCHANGED <<wakeAtExit, procVars, pipe, loopVars, expired, readerVars,
                 outcome, reply>>

(* except TimeoutError: kill the child, if it is still there, and wait for *)
(* it; process.wait() does not suspend when returncode is set.             *)
AfterKill_NoWait == "stdout_task"
AfterKill == IF returncode = NoCode THEN "kill_wait" ELSE "stdout_task"

Signal_Ignored == UNCHANGED <<child, code, ends>>   \* as SIGTERM may be
Signal ==
  IF child = "running"
    THEN /\ child' = "killed"
         /\ code' = KillCode
         /\ ends' = [s \in Streams |-> ends[s] \ {Child}]
    ELSE UNCHANGED <<child, code, ends>>

KillAtTimeout ==
  /\ pc = "waiting"
  /\ expired
  /\ ~lost
  /\ pc' = AfterKill
  /\ Signal
  /\ UNCHANGED <<wakeAtExit, born, produced, pipe, loopVars, expired, readerVars,
                 outcome, reply>>

(* process.kill() of a process the loop has dropped: ProcessLookupError.   *)
KillFindsNothing ==
  /\ pc = "waiting"
  /\ expired
  /\ lost
  /\ pc' = "done"
  /\ outcome' = "lookup_error"
  /\ UNCHANGED <<wakeAtExit, procVars, pipe, loopVars, expired, readerVars, reply>>

KilledWaitReturns ==
  /\ pc = "kill_wait"
  /\ woken
  /\ pc' = "stdout_task"
  /\ UNCHANGED <<wakeAtExit, procVars, pipe, loopVars, expired, readerVars,
                 outcome, reply>>

StdoutJoined ==
  /\ pc = "stdout_task"
  /\ reader["stdout"] = "finished"
  /\ pc' = "stderr_task"
  /\ UNCHANGED <<wakeAtExit, procVars, pipe, loopVars, expired, readerVars,
                 outcome, reply>>

(* sanitize_streams on what the readers kept.                              *)
Sanitized_ForgetsCut(out, err, cut) ==
  [code      |-> returncode,
   stdout    |-> KeptStdout(out, err, Cap),
   stderr    |-> KeptStderr(out, err, Cap),
   truncated |-> ~Fits(out, err, Cap)]
Sanitized(out, err, cut) ==
  [code      |-> returncode,
   stdout    |-> KeptStdout(out, err, Cap),
   stderr    |-> KeptStderr(out, err, Cap),
   truncated |-> cut \/ ~Fits(out, err, Cap)]

InTime_Unchecked == TRUE
InTime == ~expired                  \* if timed_out: raise

Return ==
  /\ pc = "stderr_task"
  /\ reader["stderr"] = "finished"
  /\ InTime
  /\ pc' = "done"
  /\ outcome' = "result"
  /\ reply' = Sanitized(retained["stdout"], retained["stderr"],
                        truncated["stdout"] \/ truncated["stderr"])
  /\ UNCHANGED <<wakeAtExit, procVars, pipe, loopVars, expired, readerVars>>

RaiseTimeout ==
  /\ pc = "stderr_task"
  /\ reader["stderr"] = "finished"
  /\ expired
  /\ pc' = "done"
  /\ outcome' = "timeout"
  /\ UNCHANGED <<wakeAtExit, procVars, pipe, loopVars, expired, readerVars, reply>>

(* The MCP server cancels the call (external): CancelledError at whichever *)
(* await run_process is suspended in.  Awaiting a reader task passes the   *)
(* cancellation on to it; nothing kills the child.                         *)
Awaited == CASE pc = "stdout_task" -> {"stdout"}
             [] pc = "stderr_task" -> {"stderr"}
             [] OTHER              -> {}

Cancel ==
  /\ pc \notin {"spawn", "done"}
  /\ pc' = "done"
  /\ outcome' = "cancelled"
  /\ reader' = [s \in Streams |-> IF s \in Awaited /\ reader[s] = "reading"
                                  THEN "cancelled" ELSE reader[s]]
  /\ UNCHANGED <<wakeAtExit, procVars, pipe, loopVars, expired, retained,
                 truncated, reply>>

-----------------------------------------------------------------------------
Processes ==
  \/ \E p \in Procs, s \in Streams : Write(p, s) \/ CloseEnd(p, s)
  \/ \E p \in Procs, h \in Heirs : Fork(p, h)
  \/ \E c \in Codes : ChildExits(c)

Loop == ChildCollected \/ ProcessDropped \/ TimerFires \/ \E s \in Streams : PipeAtEnd(s)

Reading(s) == ReadEnds(s) \/ \E n \in 1..Chunk : ReadChunk(s, n)

Resume ==
  \/ WaitReturns \/ KillAtTimeout \/ KillFindsNothing \/ KilledWaitReturns
  \/ StdoutJoined \/ Return \/ RaiseTimeout

Next ==
  \/ Spawn \/ SpawnFails
  \/ Processes
  \/ Loop
  \/ \E s \in Streams : Reading(s)
  \/ Resume
  \/ Cancel

(* The event loop runs every callback that is due and every task that can  *)
(* go on, and the timer is armed for as long as run_process waits.  What   *)
(* processes do, and whether the call is cancelled, is not assumed.        *)
LoopFairness ==
  /\ WF_vars(Spawn \/ SpawnFails)
  /\ WF_vars(ChildCollected)
  /\ WF_vars(ProcessDropped)
  /\ WF_vars(TimerFires)
  /\ \A s \in Streams : WF_vars(PipeAtEnd(s)) /\ WF_vars(Reading(s))
  /\ WF_vars(Resume)

(* Every descendant sooner or later lets go of the pipes it inherited.     *)
HeirFairness == \A h \in Heirs, s \in Streams : WF_vars(CloseEnd(h, s))

Spec == Init /\ [][Next]_vars

FairSpec == Spec /\ LoopFairness

CooperativeSpec == Spec /\ LoopFairness /\ HeirFairness

-----------------------------------------------------------------------------
(* Properties.                                                             *)

Outcomes == {"pending", "missing", "permission_denied", "command_failed",
             "result", "timeout", "lookup_error", "cancelled"}

Replies == [code : Codes \cup {KillCode}, stdout : 0..Cap, stderr : 0..Cap,
            truncated : BOOLEAN]

(* Every variable has its type; retained sizes never pass the cap and a    *)
(* pipe never holds more than its capacity.                                *)
TypeOK ==
  /\ wakeAtExit \in BOOLEAN
  /\ pc \in {"spawn", "waiting", "kill_wait", "stdout_task", "stderr_task", "done"}
  /\ child \in {"none", "running"} \cup Ended
  /\ code \in Codes \cup {KillCode}
  /\ ends \in [Streams -> SUBSET Procs]
  /\ born \in SUBSET Heirs
  /\ produced \in [Streams -> 0..MaxBytes]
  /\ pipe \in [Streams -> 0..PipeSize]
  /\ eof \in [Streams -> BOOLEAN]
  /\ returncode \in Codes \cup {KillCode, NoCode}
  /\ lost \in BOOLEAN
  /\ woken \in BOOLEAN
  /\ expired \in BOOLEAN
  /\ reader \in [Streams -> {"absent", "reading", "finished", "cancelled"}]
  /\ retained \in [Streams -> 0..Cap]
  /\ truncated \in [Streams -> BOOLEAN]
  /\ outcome \in Outcomes
  /\ reply \in Replies \cup {NoReply}

(* Whatever sizes the chunks come in, a reader has kept exactly the first  *)
(* Cap of the bytes it has read (base.py:82-84), and its truncated flag    *)
(* says exactly whether it dropped any (base.py:85-86).                    *)
ReaderAccounting ==
  \A s \in Streams :
    LET read == produced[s] - pipe[s]
    IN  /\ retained[s] = Least(read, Cap)
        /\ truncated[s] <=> read > Cap

(* A CommandResult (base.py:62-69) is given only for a command that ended  *)
(* by itself before the deadline and whose pipes are closed everywhere, so *)
(* its exit code is genuine and its output final; it is marked truncated   *)
(* exactly when bytes are missing, and then the budget is used up.         *)
ResultIsComplete ==
  outcome = "result" =>
    /\ ~expired
    /\ child = "exited"
    /\ \A s \in Streams : ends[s] = {}
    /\ reply.code = code
    /\ reply.stdout <= produced["stdout"]
    /\ reply.stderr <= produced["stderr"]
    /\ reply.stdout + reply.stderr <= Cap
    /\ reply.truncated <=> reply.stdout + reply.stderr < produced["stdout"] + produced["stderr"]
    /\ reply.truncated => reply.stdout + reply.stderr = Cap

(* When run_process returns or raises, other than by being cancelled or    *)
(* failing to start anything, the child is gone and collected: no running  *)
(* child and no zombie is left (base.py:47-48), even when kill() raised.   *)
NothingLeftBehind ==
  outcome \in {"result", "timeout", "lookup_error"} =>
    /\ child \in Ended
    /\ returncode = code
    /\ \A s \in Streams : ends[s] = {} /\ eof[s]

(* run_process implements what a Transport promises.                       *)
BR == INSTANCE BoundedRun
ImplementsBoundedRun == BR!Spec

(* A process that writes faster or more than run_process keeps is never    *)
(* left blocked on a full pipe: the readers go on after the cap is reached *)
(* (base.py:78-86), after a timeout, and for a cancelled call as well,     *)
(* unless it was the reader being awaited that was cancelled.              *)
WriterNeverStalls ==
  \A s \in Streams :
    pipe[s] = PipeSize ~> (pipe[s] < PipeSize \/ reader[s] = "cancelled")

(* The deadline is enforced: once the timer has fired the caller gets its  *)
(* answer.  The design says commands run "with timeout and output bounds"; *)
(* the timeout branch waits for the readers without a bound                *)
(* (base.py:50-51), hence for every process that holds a pipe.             *)
DeadlineEnforced == expired ~> pc = "done"
=============================================================================
