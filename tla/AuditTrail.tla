----------------------------- MODULE AuditTrail -----------------------------
(***************************************************************************)
(* What audit.run_observed_tool promises of tool calls, whatever the tools *)
(* do: a call that is answered through it leaves exactly one event, at the *)
(* moment it is answered and with the outcome it is answered with; a call  *)
(* that is refused before it enters leaves none, and neither does one that *)
(* is cancelled; and an answer is final, as is the log.                    *)
(***************************************************************************)
EXTENDS Sequences

CONSTANTS
  Calls,     \* calls that are made
  Identifiers, \* identifiers as the log may show them
  Outcomes,  \* what a call may be answered with, and its event tells
  Refusals,  \* the outcomes of calls that are refused before they enter
  NoAnswer

VARIABLES
  status,  \* status[c]: "open", "answered" or "cancelled"
  answer,  \* answer[c]: how the call ended, as the client is told
  log      \* the events, in order

vars == <<status, answer, log>>

Init ==
  /\ status = [c \in Calls |-> "open"]
  /\ answer = [c \in Calls |-> NoAnswer]
  /\ log = <<>>

Closes(c, how) ==
  /\ status[c] = "open"
  /\ status' = [status EXCEPT ![c] = how]

Answer(c) ==
  /\ Closes(c, "answered")
  /\ \E x \in Identifiers, o \in Outcomes :
       /\ answer' = [answer EXCEPT ![c] = o]
       /\ log' = Append(log, [call |-> c, target |-> x, outcome |-> o])

Refuse(c) ==
  /\ Closes(c, "answered")
  /\ \E o \in Refusals : answer' = [answer EXCEPT ![c] = o]
  /\ UNCHANGED log

Cancel(c) ==
  /\ Closes(c, "cancelled")
  /\ UNCHANGED <<answer, log>>

Next == \E c \in Calls : Answer(c) \/ Refuse(c) \/ Cancel(c)

Spec == Init /\ [][Next]_vars
=============================================================================
