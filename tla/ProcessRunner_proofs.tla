------------------------ MODULE ProcessRunner_proofs ------------------------
(***************************************************************************)
(* Proofs about ProcessRunner, for every cap, chunk size, pipe capacity,   *)
(* number of bytes, set of descendants and set of exit codes.  They follow *)
(* from one inductive invariant, IInv: what the event loop has reported is *)
(* true of the processes (HoldersInv, LoopInv), what run_process and its   *)
(* reader tasks conclude at each point follows from it (ControlInv,        *)
(* ReaderInv), and no byte is counted twice (ReaderAccounting).            *)
(***************************************************************************)
EXTENDS ProcessRunner, StreamBudgets_proofs, TLAPS

(* A process that is gone holds no pipe, and a pipe at its end has no      *)
(* holder left.                                                            *)
HoldersInv ==
  \A s \in Streams :
    /\ child # "running" => Child \notin ends[s]
    /\ child = "none" => ends[s] = {}
    /\ eof[s] => ends[s] = {} /\ child # "none"

(* What the loop reports is true of the child.                             *)
LoopInv ==
  /\ returncode # NoCode => child \in Ended /\ returncode = code
  /\ woken => returncode # NoCode
  /\ lost => returncode # NoCode /\ \A s \in Streams : eof[s]
  /\ child = "killed" => expired

(* What run_process knows at each point.                                   *)
ControlInv ==
  /\ pc = "spawn" => child = "none"
  /\ pc \in {"waiting", "kill_wait", "stdout_task", "stderr_task"} => child # "none"
  /\ pc = "waiting" => child # "killed"
  /\ pc = "kill_wait" => expired
  /\ pc \in {"stdout_task", "stderr_task"} => returncode # NoCode
  /\ pc = "stderr_task" => reader["stdout"] = "finished"
  /\ outcome = "pending" <=> pc # "done"
  /\ outcome \in {"result", "timeout"} => \A s \in Streams : reader[s] = "finished"
  /\ outcome \in {"result", "timeout", "lookup_error"} => returncode # NoCode
  /\ outcome = "lookup_error" => lost

(* A reader that has finished has seen everything.                         *)
ReaderInv == \A s \in Streams : reader[s] = "finished" => eof[s] /\ pipe[s] = 0

(* What is in a pipe has been written to it.                               *)
ByteInv == \A s \in Streams : pipe[s] <= produced[s]

IInv ==
  /\ TypeOK
  /\ HoldersInv
  /\ LoopInv
  /\ ControlInv
  /\ ReaderInv
  /\ ByteInv
  /\ ReaderAccounting
  /\ ResultIsComplete

-----------------------------------------------------------------------------
(* The initial states satisfy it.                                          *)
LEMMA InitIInv == Init => IInv
<1> SUFFICES ASSUME Init PROVE IInv
  OBVIOUS
<1>1. TypeOK
  <2>1. /\ produced \in [Streams -> 0..MaxBytes]
        /\ pipe \in [Streams -> 0..PipeSize]
        /\ retained \in [Streams -> 0..Cap]
    BY SizeAssumption DEF Init
  <2>2. /\ eof \in [Streams -> BOOLEAN]
        /\ truncated \in [Streams -> BOOLEAN]
        /\ ends \in [Streams -> SUBSET Procs]
        /\ reader \in [Streams -> {"absent", "reading", "finished", "cancelled"}]
    BY DEF Init
  <2> QED
    BY <2>1, <2>2 DEF Init, TypeOK, Outcomes
<1>2. HoldersInv /\ LoopInv /\ ControlInv /\ ReaderInv /\ ByteInv
  BY DEF Init, HoldersInv, LoopInv, ControlInv, ReaderInv, ByteInv, Streams
<1>3. ReaderAccounting
  BY SizeAssumption DEF Init, ReaderAccounting, Least
<1>4. ResultIsComplete
  BY DEF Init, ResultIsComplete
<1> QED
  BY <1>1, <1>2, <1>3, <1>4 DEF IInv

(* A reader that keeps what fits of a chunk n has kept what fits of all of *)
(* it: the arithmetic of base.py:82-86.                                    *)
LEMMA ChunkArithmetic ==
  ASSUME NEW read \in Nat, NEW n \in Nat, NEW max \in Nat
  PROVE  LET kept == Least(read, max)
         IN  /\ kept + Least(n, max - kept) = Least(read + n, max)
             /\ (read > max \/ n > max - kept) <=> read + n > max
BY DEF Least

(* What sanitize_streams returns for what the readers kept.                *)
LEMMA SanitizedReply ==
  ASSUME IInv
  PROVE  LET out == retained["stdout"]
             err == retained["stderr"]
         IN  /\ KeptStdout(out, err, Cap) \in 0..out
             /\ KeptStderr(out, err, Cap) \in 0..err
             /\ KeptStdout(out, err, Cap) + KeptStderr(out, err, Cap)
                  = Least(out + err, Cap)
             /\ out \in 0..Cap
             /\ err \in 0..Cap
<1>1. /\ retained["stdout"] \in 0..Cap
      /\ retained["stderr"] \in 0..Cap
  BY DEF IInv, TypeOK, Streams
<1>2. /\ retained["stdout"] \in Nat
      /\ retained["stderr"] \in Nat
      /\ Cap \in Nat
  BY <1>1, SizeAssumption
<1> QED
  BY <1>1, <1>2, BudgetsInRange, BudgetUsedUp

(* Every step keeps the types; a reply fits the cap.                       *)
LEMMA TypesKept ==
  ASSUME IInv, [Next]_vars
  PROVE  TypeOK'
<1> USE SizeAssumption
        DEF IInv, TypeOK, ControlInv, Streams, Procs, Ended, Outcomes,
            procVars, loopVars, readerVars
<1>1. CASE Spawn
  BY <1>1 DEF Spawn
<1>2. CASE SpawnFails
  BY <1>2 DEF SpawnFails
<1>3. ASSUME NEW p \in Procs, NEW s \in Streams, Write(p, s) PROVE TypeOK'
  BY <1>3 DEF Write
<1>4. ASSUME NEW p \in Procs, NEW s \in Streams, CloseEnd(p, s) PROVE TypeOK'
  BY <1>4 DEF CloseEnd
<1>5. ASSUME NEW p \in Procs, NEW h \in Heirs, Fork(p, h) PROVE TypeOK'
  BY <1>5 DEF Fork
<1>6. ASSUME NEW c \in Codes, ChildExits(c) PROVE TypeOK'
  BY <1>6 DEF ChildExits
<1>7. CASE ChildCollected
  BY <1>7 DEF ChildCollected
<1>8. CASE ProcessDropped
  BY <1>8 DEF ProcessDropped
<1>9. CASE TimerFires
  BY <1>9 DEF TimerFires
<1>10. ASSUME NEW s \in Streams, PipeAtEnd(s) PROVE TypeOK'
  BY <1>10 DEF PipeAtEnd
<1>11. ASSUME NEW s \in Streams, NEW n \in 1..Chunk, ReadChunk(s, n) PROVE TypeOK'
  BY <1>11 DEF ReadChunk, MayRead, Taken, Overflows, Least
<1>12. ASSUME NEW s \in Streams, ReadEnds(s) PROVE TypeOK'
  BY <1>12 DEF ReadEnds
<1>13. CASE WaitReturns
  BY <1>13 DEF WaitReturns
<1>14. CASE KillAtTimeout
  BY <1>14 DEF KillAtTimeout, Signal, AfterKill
<1>15. CASE KillFindsNothing
  BY <1>15 DEF KillFindsNothing
<1>16. CASE KilledWaitReturns
  BY <1>16 DEF KilledWaitReturns
<1>17. CASE StdoutJoined
  BY <1>17 DEF StdoutJoined
<1>18. CASE Return
  <2>1. reply' \in Replies
    <3>1. /\ KeptStdout(retained["stdout"], retained["stderr"], Cap) \in 0..Cap
          /\ KeptStderr(retained["stdout"], retained["stderr"], Cap) \in 0..Cap
      BY SanitizedReply
    <3>2. returncode \in Codes \cup {KillCode}
      BY <1>18 DEF Return
    <3> QED
      BY <1>18, <3>1, <3>2 DEF Return, Sanitized, Replies
  <2> QED
    BY <1>18, <2>1 DEF Return
<1>19. CASE RaiseTimeout
  BY <1>19 DEF RaiseTimeout
<1>20. CASE Cancel
  BY <1>20 DEF Cancel, Awaited
<1>21. CASE UNCHANGED vars
  BY <1>21 DEF vars
<1> QED
  BY <1>1, <1>2, <1>3, <1>4, <1>5, <1>6, <1>7, <1>8, <1>9, <1>10, <1>11,
  <1>12, <1>13, <1>14, <1>15, <1>16, <1>17, <1>18, <1>19, <1>20, <1>21
     DEF Next, Processes, Loop, Reading, Resume

(* A pipe without holders stays without: only a holder passes it on.       *)
LEMMA HoldersKept ==
  ASSUME IInv, [Next]_vars
  PROVE  HoldersInv'
<1> USE ProcessAssumption
        DEF IInv, TypeOK, HoldersInv, ControlInv, Streams, Procs, Ended,
            procVars, loopVars, readerVars
<1>1. CASE Spawn
  BY <1>1 DEF Spawn
<1>2. ASSUME NEW p \in Procs, NEW s \in Streams, CloseEnd(p, s) PROVE HoldersInv'
  BY <1>2 DEF CloseEnd
<1>3. ASSUME NEW p \in Procs, NEW h \in Heirs, Fork(p, h) PROVE HoldersInv'
  BY <1>3 DEF Fork
<1>4. ASSUME NEW c \in Codes, ChildExits(c) PROVE HoldersInv'
  BY <1>4 DEF ChildExits
<1>5. ASSUME NEW s \in Streams, PipeAtEnd(s) PROVE HoldersInv'
  BY <1>5 DEF PipeAtEnd
<1>6. CASE KillAtTimeout
  BY <1>6 DEF KillAtTimeout, Signal, AfterKill
<1>7. CASE UNCHANGED <<child, ends, eof>>
  BY <1>7
<1> QED
  BY <1>1, <1>2, <1>3, <1>4, <1>5, <1>6, <1>7
     DEF Next, Processes, Loop, Reading, Resume, vars, SpawnFails, Write,
         ChildCollected, ProcessDropped, TimerFires, ReadChunk, ReadEnds,
         WaitReturns, KillFindsNothing, KilledWaitReturns, StdoutJoined,
         Return, RaiseTimeout, Cancel

(* A child that has ended does not change, so what was reported stays true.*)
LEMMA LoopKept ==
  ASSUME IInv, [Next]_vars
  PROVE  LoopInv'
<1> USE CodeAssumption
        DEF IInv, TypeOK, LoopInv, ControlInv, Streams, Ended, procVars,
            loopVars, readerVars
<1>1. CASE Spawn
  BY <1>1 DEF Spawn
<1>2. ASSUME NEW c \in Codes, ChildExits(c) PROVE LoopInv'
  BY <1>2 DEF ChildExits
<1>3. CASE ChildCollected
  BY <1>3 DEF ChildCollected
<1>4. CASE ProcessDropped
  BY <1>4 DEF ProcessDropped
<1>5. CASE TimerFires
  BY <1>5 DEF TimerFires
<1>6. ASSUME NEW s \in Streams, PipeAtEnd(s) PROVE LoopInv'
  BY <1>6 DEF PipeAtEnd
<1>7. CASE KillAtTimeout
  BY <1>7 DEF KillAtTimeout, Signal, AfterKill
<1>8. CASE UNCHANGED <<child, code, eof, returncode, lost, woken, expired>>
  BY <1>8
<1> QED
  BY <1>1, <1>2, <1>3, <1>4, <1>5, <1>6, <1>7, <1>8
     DEF Next, Processes, Loop, Reading, Resume, vars, SpawnFails, Write,
         CloseEnd, Fork, ReadChunk, ReadEnds, WaitReturns, KillFindsNothing,
         KilledWaitReturns, StdoutJoined, Return, RaiseTimeout, Cancel

(* Each suspension point of run_process is reached with what it needs.     *)
LEMMA ControlKept ==
  ASSUME IInv, [Next]_vars
  PROVE  ControlInv'
<1> USE CodeAssumption
        DEF IInv, TypeOK, LoopInv, ControlInv, Streams, Ended, Outcomes,
            procVars, loopVars, readerVars
<1>1. CASE Spawn
  BY <1>1 DEF Spawn
<1>2. CASE SpawnFails
  BY <1>2 DEF SpawnFails
<1>3. ASSUME NEW p \in Procs, NEW s \in Streams, Write(p, s) PROVE ControlInv'
  BY <1>3 DEF Write
<1>4. ASSUME NEW p \in Procs, NEW s \in Streams, CloseEnd(p, s) PROVE ControlInv'
  BY <1>4 DEF CloseEnd
<1>5. ASSUME NEW p \in Procs, NEW h \in Heirs, Fork(p, h) PROVE ControlInv'
  BY <1>5 DEF Fork
<1>6. ASSUME NEW c \in Codes, ChildExits(c) PROVE ControlInv'
  BY <1>6 DEF ChildExits
<1>7. CASE ChildCollected
  BY <1>7 DEF ChildCollected
<1>8. CASE ProcessDropped
  BY <1>8 DEF ProcessDropped
<1>9. CASE TimerFires
  BY <1>9 DEF TimerFires
<1>10. ASSUME NEW s \in Streams, PipeAtEnd(s) PROVE ControlInv'
  BY <1>10 DEF PipeAtEnd
<1>11. ASSUME NEW s \in Streams, NEW n \in 1..Chunk, ReadChunk(s, n) PROVE ControlInv'
  BY <1>11 DEF ReadChunk, MayRead, Taken, Overflows, Least
<1>12. ASSUME NEW s \in Streams, ReadEnds(s) PROVE ControlInv'
  BY <1>12 DEF ReadEnds
<1>13. CASE WaitReturns
  BY <1>13 DEF WaitReturns
<1>14. CASE KillAtTimeout
  BY <1>14 DEF KillAtTimeout, Signal, AfterKill
<1>15. CASE KillFindsNothing
  BY <1>15 DEF KillFindsNothing
<1>16. CASE KilledWaitReturns
  BY <1>16 DEF KilledWaitReturns
<1>17. CASE StdoutJoined
  BY <1>17 DEF StdoutJoined
<1>18. CASE Return
  BY <1>18 DEF Return, InTime, Sanitized
<1>19. CASE RaiseTimeout
  BY <1>19 DEF RaiseTimeout
<1>20. CASE Cancel
  BY <1>20 DEF Cancel, Awaited
<1>21. CASE UNCHANGED vars
  BY <1>21 DEF vars
<1> QED
  BY <1>1, <1>2, <1>3, <1>4, <1>5, <1>6, <1>7, <1>8, <1>9, <1>10, <1>11,
  <1>12, <1>13, <1>14, <1>15, <1>16, <1>17, <1>18, <1>19, <1>20, <1>21
     DEF Next, Processes, Loop, Reading, Resume

(* A finished reader has nothing more to read: its pipe has no writer.     *)
LEMMA ReaderKept ==
  ASSUME IInv, [Next]_vars
  PROVE  ReaderInv'
<1> USE SizeAssumption
        DEF IInv, TypeOK, HoldersInv, ReaderInv, Streams, procVars, loopVars,
            readerVars
<1>1. CASE Spawn
  BY <1>1 DEF Spawn
<1>2. ASSUME NEW p \in Procs, NEW s \in Streams, Write(p, s) PROVE ReaderInv'
  BY <1>2 DEF Write
<1>3. ASSUME NEW s \in Streams, PipeAtEnd(s) PROVE ReaderInv'
  BY <1>3 DEF PipeAtEnd
<1>4. ASSUME NEW s \in Streams, NEW n \in 1..Chunk, ReadChunk(s, n) PROVE ReaderInv'
  BY <1>4 DEF ReadChunk, MayRead, Taken, Overflows, Least
<1>5. ASSUME NEW s \in Streams, ReadEnds(s) PROVE ReaderInv'
  BY <1>5 DEF ReadEnds
<1>6. CASE Cancel
  BY <1>6 DEF Cancel, Awaited
<1>7. CASE UNCHANGED <<pipe, eof, reader>>
  BY <1>7
<1> QED
  BY <1>1, <1>2, <1>3, <1>4, <1>5, <1>6, <1>7
     DEF Next, Processes, Loop, Reading, Resume, vars, SpawnFails, CloseEnd,
         Fork, ChildExits, ChildCollected, ProcessDropped, TimerFires,
         WaitReturns, KillAtTimeout, KillFindsNothing, KilledWaitReturns,
         StdoutJoined, Return, RaiseTimeout

(* Bytes enter a pipe as they are written and leave it as they are read.   *)
LEMMA BytesKept ==
  ASSUME IInv, [Next]_vars
  PROVE  ByteInv'
<1> USE SizeAssumption
        DEF IInv, TypeOK, ByteInv, Streams, procVars, loopVars, readerVars
<1>1. ASSUME NEW p \in Procs, NEW s \in Streams, Write(p, s) PROVE ByteInv'
  BY <1>1 DEF Write
<1>2. ASSUME NEW s \in Streams, NEW n \in 1..Chunk, ReadChunk(s, n) PROVE ByteInv'
  BY <1>2 DEF ReadChunk, MayRead, Taken, Overflows, Least
<1>3. CASE UNCHANGED <<produced, pipe>>
  BY <1>3
<1> QED
  BY <1>1, <1>2, <1>3
     DEF Next, Processes, Loop, Reading, Resume, vars, Spawn, SpawnFails,
         CloseEnd, Fork, ChildExits, ChildCollected, ProcessDropped,
         TimerFires, PipeAtEnd, ReadEnds, WaitReturns, KillAtTimeout,
         KillFindsNothing, KilledWaitReturns, StdoutJoined, Return,
         RaiseTimeout, Cancel

(* A chunk that does not fit fills what room there is and sets the flag.   *)
LEMMA AccountingKept ==
  ASSUME IInv, [Next]_vars
  PROVE  ReaderAccounting'
<1> USE SizeAssumption
        DEF IInv, TypeOK, ByteInv, ReaderAccounting, Streams, procVars,
            loopVars, readerVars
<1>1. ASSUME NEW p \in Procs, NEW s \in Streams, Write(p, s) PROVE ReaderAccounting'
  BY <1>1 DEF Write
<1>2. ASSUME NEW s \in Streams, NEW n \in 1..Chunk, ReadChunk(s, n) PROVE ReaderAccounting'
  <2>1. /\ produced[s] - pipe[s] \in Nat /\ n \in Nat /\ Cap \in Nat
        /\ produced[s] \in Nat /\ pipe[s] \in Nat
        /\ retained[s] = Least(produced[s] - pipe[s], Cap)
        /\ truncated[s] <=> produced[s] - pipe[s] > Cap
    BY <1>2 DEF ReadChunk
  <2>2. /\ pipe'[s] = pipe[s] - n
        /\ retained'[s] = retained[s] + Taken(s, n)
        /\ truncated'[s] <=> truncated[s] \/ Overflows(s, n)
        /\ produced' = produced
    BY <1>2 DEF ReadChunk
  <2>3. produced'[s] - pipe'[s] = (produced[s] - pipe[s]) + n
    BY <2>1, <2>2
  <2>4. retained'[s] = Least(produced'[s] - pipe'[s], Cap)
    BY <2>1, <2>2, <2>3, ChunkArithmetic DEF Taken
  <2>5. truncated'[s] <=> produced'[s] - pipe'[s] > Cap
    <3>1. (produced[s] - pipe[s] > Cap \/ Overflows(s, n))
            <=> produced'[s] - pipe'[s] > Cap
      BY <2>1, <2>3 DEF Overflows, Least
    <3> QED
      BY <2>1, <2>2, <3>1, Zenon
  <2>6. ASSUME NEW t \in Streams, t # s
        PROVE  /\ pipe'[t] = pipe[t] /\ retained'[t] = retained[t]
               /\ truncated'[t] = truncated[t]
    BY <1>2, <2>6 DEF ReadChunk
  <2> QED
    BY <2>2, <2>4, <2>5, <2>6
<1>3. CASE UNCHANGED <<produced, pipe, retained, truncated>>
  BY <1>3
<1> QED
  BY <1>1, <1>2, <1>3
     DEF Next, Processes, Loop, Reading, Resume, vars, Spawn, SpawnFails,
         CloseEnd, Fork, ChildExits, ChildCollected, ProcessDropped,
         TimerFires, PipeAtEnd, ReadEnds, WaitReturns, KillAtTimeout,
         KillFindsNothing, KilledWaitReturns, StdoutJoined, Return,
         RaiseTimeout, Cancel

(* A result is returned when everything is known, and nothing changes it.  *)
LEMMA ResultKept ==
  ASSUME IInv, [Next]_vars
  PROVE  ResultIsComplete'
<1> USE SizeAssumption
        DEF IInv, TypeOK, HoldersInv, LoopInv, ControlInv, ReaderInv, ByteInv,
            ReaderAccounting, ResultIsComplete, Streams, Ended, Outcomes,
            procVars, loopVars, readerVars
<1>1. CASE Spawn
  BY <1>1 DEF Spawn
<1>2. CASE SpawnFails
  BY <1>2 DEF SpawnFails
<1>3. ASSUME NEW p \in Procs, NEW s \in Streams, Write(p, s) PROVE ResultIsComplete'
  BY <1>3 DEF Write
<1>4. ASSUME NEW p \in Procs, NEW s \in Streams, CloseEnd(p, s) PROVE ResultIsComplete'
  BY <1>4 DEF CloseEnd
<1>5. ASSUME NEW p \in Procs, NEW h \in Heirs, Fork(p, h) PROVE ResultIsComplete'
  BY <1>5 DEF Fork
<1>6. ASSUME NEW c \in Codes, ChildExits(c) PROVE ResultIsComplete'
  BY <1>6 DEF ChildExits
<1>7. CASE TimerFires
  BY <1>7 DEF TimerFires
<1>8. CASE KillAtTimeout
  BY <1>8 DEF KillAtTimeout, Signal, AfterKill
<1>9. CASE KillFindsNothing
  BY <1>9 DEF KillFindsNothing
<1>10. CASE Return
  <2>1. /\ ~expired
        /\ returncode # NoCode
        /\ \A s \in Streams : reader[s] = "finished"
    BY <1>10 DEF Return, InTime
  <2>2. /\ child = "exited"
        /\ returncode = code
        /\ \A s \in Streams : ends[s] = {} /\ pipe[s] = 0
    BY <2>1
  <2>3. \A s \in Streams : /\ produced[s] \in Nat
                           /\ retained[s] = Least(produced[s], Cap)
                           /\ truncated[s] <=> produced[s] > Cap
    BY <2>2 DEF Least
  <2>4. UNCHANGED <<expired, child, code, ends, produced>>
    BY <1>10 DEF Return
  <2>5. reply' = Sanitized(retained["stdout"], retained["stderr"],
                           truncated["stdout"] \/ truncated["stderr"])
    BY <1>10 DEF Return
  <2>6. /\ reply'.code = code
        /\ reply'.stdout = KeptStdout(retained["stdout"], retained["stderr"], Cap)
        /\ reply'.stderr = KeptStderr(retained["stdout"], retained["stderr"], Cap)
        /\ reply'.truncated <=> \/ truncated["stdout"] \/ truncated["stderr"]
                               \/ retained["stdout"] + retained["stderr"] > Cap
    <3>1. reply'.truncated = ((truncated["stdout"] \/ truncated["stderr"])
                              \/ ~Fits(retained["stdout"], retained["stderr"], Cap))
      BY <2>5 DEF Sanitized
    <3>2. ~Fits(retained["stdout"], retained["stderr"], Cap)
            <=> retained["stdout"] + retained["stderr"] > Cap
      BY <2>3 DEF Fits, Least
    <3> QED
      BY <2>2, <2>5, <3>1, <3>2 DEF Sanitized
  <2>7. /\ reply'.stdout \in 0..retained["stdout"]
        /\ reply'.stderr \in 0..retained["stderr"]
        /\ reply'.stdout + reply'.stderr = Least(retained["stdout"] + retained["stderr"], Cap)
    BY <2>6, SanitizedReply
  <2>8. /\ reply'.stdout <= produced["stdout"]
        /\ reply'.stderr <= produced["stderr"]
        /\ reply'.stdout + reply'.stderr <= Cap
        /\ reply'.truncated <=> reply'.stdout + reply'.stderr
                                 < produced["stdout"] + produced["stderr"]
        /\ reply'.truncated => reply'.stdout + reply'.stderr = Cap
    <3>1. /\ produced["stdout"] \in Nat
          /\ produced["stderr"] \in Nat
          /\ retained["stdout"] = Least(produced["stdout"], Cap)
          /\ retained["stderr"] = Least(produced["stderr"], Cap)
          /\ truncated["stdout"] <=> produced["stdout"] > Cap
          /\ truncated["stderr"] <=> produced["stderr"] > Cap
      BY <2>3
    <3>2. /\ reply'.truncated <=> \/ produced["stdout"] > Cap
                                  \/ produced["stderr"] > Cap
                                  \/ retained["stdout"] + retained["stderr"] > Cap
      BY <2>6, <3>1
    <3> QED
      BY <2>7, <3>1, <3>2, SizeAssumption DEF Least
  <2> QED
    BY <2>1, <2>2, <2>4, <2>6, <2>8
<1>11. CASE RaiseTimeout
  BY <1>11 DEF RaiseTimeout
<1>12. CASE Cancel
  BY <1>12 DEF Cancel, Awaited
<1>13. CASE UNCHANGED <<expired, child, code, ends, produced, outcome, reply>>
  BY <1>13
<1> QED
  BY <1>1, <1>2, <1>3, <1>4, <1>5, <1>6, <1>7, <1>8, <1>9, <1>10, <1>11,
  <1>12, <1>13
     DEF Next, Processes, Loop, Reading, Resume, vars, ChildCollected,
         ProcessDropped, PipeAtEnd, ReadChunk, ReadEnds, WaitReturns,
         KilledWaitReturns, StdoutJoined

-----------------------------------------------------------------------------
(* IInv is an invariant: Init establishes it and every step keeps it.      *)
THEOREM Inductive == Spec => []IInv
<1>1. IInv /\ [Next]_vars => IInv'
  BY TypesKept, HoldersKept, LoopKept, ControlKept, ReaderKept, BytesKept,
     AccountingKept, ResultKept DEF IInv
<1> QED
  BY <1>1, InitIInv, PTL DEF Spec

(* Type correctness.                                                       *)
THEOREM TypeCorrect == Spec => []TypeOK
BY Inductive, PTL DEF IInv

(* The readers' accounting (base.py:72-87), whatever the chunks.           *)
THEOREM ReadersAccount == Spec => []ReaderAccounting
BY Inductive, PTL DEF IInv

(* What a CommandResult means (base.py:62-69).                             *)
THEOREM ResultsComplete == Spec => []ResultIsComplete
BY Inductive, PTL DEF IInv

(* After a result, a timeout or a failed kill the child is collected and   *)
(* nobody holds its pipes (base.py:42-53).                                 *)
THEOREM NothingLeft == Spec => []NothingLeftBehind
<1>1. IInv => NothingLeftBehind
  BY DEF IInv, TypeOK, HoldersInv, LoopInv, ControlInv, ReaderInv,
         NothingLeftBehind, Streams, Ended
<1> QED
  BY <1>1, Inductive, PTL
-----------------------------------------------------------------------------
(* run_process implements BoundedRun: each of its steps is one of the      *)
(* promised ones, or invisible to the caller and to the processes.         *)

(* It starts as a bounded run does: nothing started, nothing answered.     *)
LEMMA InitRefines == Init => BR!Init
BY DEF Init, BR!Init, Streams

(* What run_process returns is one of the truthful replies.                *)
LEMMA ReturnRefines ==
  ASSUME IInv, IInv', Return
  PROVE  BR!Answer
<1>1. /\ outcome = "pending"
      /\ outcome' = "result"
      /\ UNCHANGED procVars
  BY DEF Return, IInv, ControlInv, procVars
<1>2. /\ child = "exited"
      /\ \A s \in Streams : ends[s] = {}
      /\ reply'.code = code
  BY <1>1 DEF IInv, ResultIsComplete, procVars
<1>3. reply' \in BR!Replies
  <2>1. reply' \in Replies
    <3>1. /\ KeptStdout(retained["stdout"], retained["stderr"], Cap) \in 0..Cap
          /\ KeptStderr(retained["stdout"], retained["stderr"], Cap) \in 0..Cap
      BY SanitizedReply, SizeAssumption
    <3>2. returncode \in Codes \cup {KillCode}
      BY DEF Return, IInv, TypeOK, ControlInv
    <3>3. /\ truncated["stdout"] \in BOOLEAN
          /\ truncated["stderr"] \in BOOLEAN
      BY DEF IInv, TypeOK, Streams
    <3> QED
      BY <3>1, <3>2, <3>3 DEF Return, Sanitized, Replies
  <2> QED
    BY <2>1 DEF Replies, BR!Replies
<1>4. BR!Truthful(reply', produced["stdout"], produced["stderr"])
  <2>1. /\ reply'.stdout <= produced["stdout"]
        /\ reply'.stderr <= produced["stderr"]
        /\ reply'.stdout + reply'.stderr <= Cap
        /\ reply'.truncated <=> reply'.stdout + reply'.stderr
                                 < produced["stdout"] + produced["stderr"]
        /\ reply'.truncated => reply'.stdout + reply'.stderr = Cap
    BY <1>1 DEF IInv, ResultIsComplete, procVars
  <2>2. /\ reply'.stdout \in Nat /\ reply'.stderr \in Nat
        /\ produced["stdout"] \in Nat /\ produced["stderr"] \in Nat
    BY <1>3, SizeAssumption DEF BR!Replies, IInv, TypeOK, Streams
  <2> QED
    BY <2>1, <2>2 DEF BR!Truthful
<1> QED
  BY <1>1, <1>2, <1>3, <1>4
     DEF BR!Answer, BR!Finished, BR!environment, procVars

(* Every step of run_process is a step of a bounded run or a stutter.      *)
LEMMA StepRefines ==
  ASSUME IInv, IInv', [Next]_vars
  PROVE  [BR!Next]_(BR!vars)
<1> USE DEF procVars, loopVars, readerVars
<1>1. CASE Spawn
  <2>1. child = "none" /\ outcome = "pending"
    BY <1>1 DEF Spawn, IInv, ControlInv
  <2> QED
    BY <1>1, <2>1 DEF Spawn, BR!Next, BR!Start
<1>2. CASE SpawnFails
  <2>1. child = "none" /\ outcome = "pending"
    BY <1>2 DEF SpawnFails, IInv, ControlInv
  <2> QED
    BY <1>2, <2>1 DEF SpawnFails, BR!Next, BR!StartFails, BR!environment
<1>3. ASSUME NEW p \in Procs, NEW s \in Streams, Write(p, s)
      PROVE  [BR!Next]_(BR!vars)
  BY <1>3 DEF Write, Procs, BR!Next, BR!Produce
<1>4. ASSUME NEW p \in Procs, NEW s \in Streams, CloseEnd(p, s)
      PROVE  [BR!Next]_(BR!vars)
  BY <1>4 DEF CloseEnd, Procs, BR!Next, BR!Release
<1>5. ASSUME NEW p \in Procs, NEW h \in Heirs, Fork(p, h)
      PROVE  [BR!Next]_(BR!vars)
  BY <1>5 DEF Fork, Procs, BR!Next, BR!Inherit
<1>6. ASSUME NEW c \in Codes, ChildExits(c) PROVE [BR!Next]_(BR!vars)
  BY <1>6 DEF ChildExits, BR!Next, BR!Exit
<1>7. CASE KillAtTimeout
  <2>1. outcome = "pending"
    BY <1>7 DEF KillAtTimeout, IInv, ControlInv
  <2>2. CASE child = "running"
    BY <1>7, <2>1, <2>2 DEF KillAtTimeout, Signal, BR!Next, BR!Kill
  <2>3. CASE child # "running"
    BY <1>7, <2>3 DEF KillAtTimeout, Signal, BR!vars
  <2> QED
    BY <2>2, <2>3
<1>8. CASE KillFindsNothing
  <2>1. /\ outcome = "pending"
        /\ child = "exited"
        /\ \A s \in Streams : ends[s] = {}
    BY <1>8 DEF KillFindsNothing, IInv, ControlInv, LoopInv, HoldersInv, Ended
  <2> QED
    BY <1>8, <2>1
       DEF KillFindsNothing, BR!Next, BR!LookupError, BR!Finished, BR!environment
<1>9. CASE Return
  BY <1>9, ReturnRefines DEF BR!Next
<1>10. CASE RaiseTimeout
  <2>1. /\ outcome = "pending"
        /\ child \in Ended
        /\ \A s \in Streams : ends[s] = {}
    BY <1>10 DEF RaiseTimeout, IInv, ControlInv, LoopInv, ReaderInv, HoldersInv,
                 Streams
  <2> QED
    BY <1>10, <2>1
       DEF RaiseTimeout, Ended, BR!Next, BR!TimeOut, BR!Finished, BR!environment
<1>11. CASE Cancel
  <2>1. outcome = "pending" /\ child # "none"
    BY <1>11 DEF Cancel, IInv, TypeOK, ControlInv
  <2> QED
    BY <1>11, <2>1 DEF Cancel, BR!Next, BR!Cancel, BR!environment
<1>12. CASE UNCHANGED <<procVars, outcome, reply>>
  BY <1>12 DEF BR!vars
<1> QED
  BY <1>1, <1>2, <1>3, <1>4, <1>5, <1>6, <1>7, <1>8, <1>9, <1>10, <1>11, <1>12
     DEF Next, Processes, Loop, Reading, Resume, vars, ChildCollected,
         ProcessDropped, TimerFires, PipeAtEnd, ReadEnds, ReadChunk, WaitReturns,
         KilledWaitReturns, StdoutJoined

(* The refinement: whatever the sizes and the processes do.                *)
THEOREM Refinement == Spec => ImplementsBoundedRun
<1>1. IInv /\ IInv' /\ [Next]_vars => [BR!Next]_(BR!vars)
  BY StepRefines
<1> QED
  BY <1>1, InitRefines, Inductive, PTL DEF Spec, ImplementsBoundedRun, BR!Spec
=============================================================================
