------------------------- MODULE ApprovedExecution -------------------------
(***************************************************************************)
(* What the execution lane promises: a command is launched only for a      *)
(* grant, which names one attempt of one workflow run and the exact        *)
(* document that was approved for it, and at most once for each grant.     *)
(* Evidence is only of something launched.  ExecutionBridge implements it. *)
(***************************************************************************)
CONSTANTS
  Grants,     \* all [run, attempt, doc] there can be
  ExitCodes

VARIABLES approved, launched, evidence

vars == <<approved, launched, evidence>>

Init ==
  /\ approved = {}
  /\ launched = {}
  /\ evidence = {}

Approve(g) ==
  /\ \A h \in approved : ~(h.run = g.run /\ h.attempt = g.attempt)
  /\ approved' = approved \cup {g}
  /\ UNCHANGED <<launched, evidence>>

Launch(g) ==
  /\ g \in approved
  /\ g \notin launched
  /\ launched' = launched \cup {g}
  /\ UNCHANGED <<approved, evidence>>

(* One piece of evidence for a launch, with one exit code.                 *)
Testify(g, c) ==
  /\ g \in launched
  /\ \A e \in evidence : e.grant # g
  /\ evidence' = evidence \cup {[grant |-> g, exitCode |-> c]}
  /\ UNCHANGED <<approved, launched>>

Next ==
  \E g \in Grants : Approve(g) \/ Launch(g) \/ \E c \in ExitCodes : Testify(g, c)

Spec == Init /\ [][Next]_vars
=============================================================================
