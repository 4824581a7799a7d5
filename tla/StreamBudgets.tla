--------------------------- MODULE StreamBudgets ---------------------------
(***************************************************************************)
(* How policy.py divides one output budget between the two streams of a    *)
(* command.  The functions here work on encoded sizes only; SanitizeStreams *)
(* adds the texts, and ProcessRunner uses them for the reply of a command. *)
(***************************************************************************)
EXTENDS Integers

Least(a, b) == IF a <= b THEN a ELSE b

(* The share stderr may take before stdout is considered: at most a        *)
(* quarter of the budget (rounded down).                                   *)
StderrShare_NotReserved(err, max) == 0
StderrShare(err, max) == Least(err, max \div 4)

(* What stdout gets of the rest, at most its own size.                     *)
StdoutShare(out, err, max) == Least(out, max - StderrShare(err, max))

(* What neither share uses is offered to stderr first ...                  *)
StderrBudget_ShareOnly(out, err, max) == StderrShare(err, max)
StderrBudget(out, err, max) ==
  LET share == StderrShare(err, max)
      rest  == max - StdoutShare(out, err, max) - share
  IN  share + Least(err - share, rest)

(* ... and what stderr leaves of it to stdout.                             *)
StdoutBudget(out, err, max) ==
  LET share == StdoutShare(out, err, max)
      rest  == max - share - StderrBudget(out, err, max)
  IN  share + Least(out - share, rest)

(* The sizes returned: the texts as they are if both fit, their budgets    *)
(* otherwise.                                                              *)
Fits(out, err, max) == out + err <= max

KeptStdout(out, err, max) ==
  IF Fits(out, err, max) THEN out ELSE StdoutBudget(out, err, max)

KeptStderr(out, err, max) ==
  IF Fits(out, err, max) THEN err ELSE StderrBudget(out, err, max)
=============================================================================
