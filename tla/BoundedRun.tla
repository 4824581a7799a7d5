----------------------------- MODULE BoundedRun -----------------------------
(***************************************************************************)
(* What Transport.run promises its caller, with no pipe, reader task,      *)
(* timer or event loop in sight: a command is started at most once; a      *)
(* result is given only for a command that ended by itself, when nothing   *)
(* can add to its output any more, and the result says exactly whether     *)
(* output was lost; a timeout is reported only for a process that is gone. *)
(* ProcessRunner is shown to implement it.                                 *)
(***************************************************************************)
EXTENDS Integers

CONSTANTS
  Streams,    \* {"stdout", "stderr"}
  Child,      \* the process the command starts
  Heirs,      \* descendants of Child that may inherit its pipes
  Codes,      \* exit codes a process may end with
  KillCode,   \* the returncode of a process ended by SIGKILL
  Cap,        \* CommandSpec.max_output_bytes
  MaxBytes,   \* bound: bytes a command writes to one stream
  NoReply     \* the reply before there is one

VARIABLES child, code, ends, born, produced, outcome, reply

vars == <<child, code, ends, born, produced, outcome, reply>>

environment == <<child, code, ends, born, produced>>

Replies == [code : Codes \cup {KillCode}, stdout : 0..Cap, stderr : 0..Cap,
            truncated : BOOLEAN]

Init ==
  /\ child = "none"
  /\ code = KillCode
  /\ ends = [s \in Streams |-> {}]
  /\ born = {}
  /\ produced = [s \in Streams |-> 0]
  /\ outcome = "pending"
  /\ reply = NoReply

Start ==
  /\ child = "none"
  /\ outcome = "pending"
  /\ child' = "running"
  /\ ends' = [s \in Streams |-> {Child}]
  /\ UNCHANGED <<code, born, produced, outcome, reply>>

StartFails ==
  /\ child = "none"
  /\ outcome = "pending"
  /\ outcome' \in {"missing", "permission_denied", "command_failed"}
  /\ UNCHANGED <<environment, reply>>

Produce(p, s) ==
  /\ p \in ends[s]
  /\ produced[s] < MaxBytes
  /\ produced' = [produced EXCEPT ![s] = @ + 1]
  /\ UNCHANGED <<child, code, ends, born, outcome, reply>>

Inherit(p, h) ==
  /\ h \notin born
  /\ \E s \in Streams : p \in ends[s]
  /\ born' = born \cup {h}
  /\ ends' = [s \in Streams |-> IF p \in ends[s] THEN ends[s] \cup {h} ELSE ends[s]]
  /\ UNCHANGED <<child, code, produced, outcome, reply>>

Release(p, s) ==
  /\ p \in ends[s]
  /\ ends' = [ends EXCEPT ![s] = @ \ {p}]
  /\ UNCHANGED <<child, code, born, produced, outcome, reply>>

Exit(c) ==
  /\ child = "running"
  /\ child' = "exited"
  /\ code' = c
  /\ ends' = [s \in Streams |-> ends[s] \ {Child}]
  /\ UNCHANGED <<born, produced, outcome, reply>>

Kill ==
  /\ child = "running"
  /\ outcome = "pending"
  /\ child' = "killed"
  /\ code' = KillCode
  /\ ends' = [s \in Streams |-> ends[s] \ {Child}]
  /\ UNCHANGED <<born, produced, outcome, reply>>

(* A reply r is truthful: it holds no more than was written nor than the   *)
(* cap allows for both streams together, it is marked truncated exactly    *)
(* when bytes are missing, and it wastes no room when it is.               *)
Truthful(r, out, err) ==
  /\ r.stdout \in 0..out
  /\ r.stderr \in 0..err
  /\ r.stdout + r.stderr <= Cap
  /\ r.truncated <=> (r.stdout < out \/ r.stderr < err)
  /\ r.truncated => r.stdout + r.stderr = Cap

Finished == \A s \in Streams : ends[s] = {}

Answer ==
  /\ outcome = "pending"
  /\ child = "exited"
  /\ Finished
  /\ outcome' = "result"
  /\ reply' \in {r \in Replies : /\ r.code = code
                                 /\ Truthful(r, produced["stdout"], produced["stderr"])}
  /\ UNCHANGED environment

TimeOut ==
  /\ outcome = "pending"
  /\ child \in {"exited", "killed"}
  /\ Finished
  /\ outcome' = "timeout"
  /\ UNCHANGED <<environment, reply>>

(* process.kill() may find the process already gone and collected.         *)
LookupError ==
  /\ outcome = "pending"
  /\ child = "exited"
  /\ Finished
  /\ outcome' = "lookup_error"
  /\ UNCHANGED <<environment, reply>>

Cancel ==
  /\ outcome = "pending"
  /\ child # "none"
  /\ outcome' = "cancelled"
  /\ UNCHANGED <<environment, reply>>

Next ==
  \/ Start \/ StartFails \/ Kill \/ Answer \/ TimeOut \/ LookupError \/ Cancel
  \/ \E s \in Streams, p \in {Child} \cup Heirs : Produce(p, s) \/ Release(p, s)
  \/ \E p \in {Child} \cup Heirs, h \in Heirs : Inherit(p, h)
  \/ \E c \in Codes : Exit(c)

Spec == Init /\ [][Next]_vars
=============================================================================
