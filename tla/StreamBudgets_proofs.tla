------------------------ MODULE StreamBudgets_proofs ------------------------
(***************************************************************************)
(* The budget arithmetic of policy.py, for texts and limits of any size.   *)
(***************************************************************************)
EXTENDS StreamBudgets, TLAPS

(* Each stream gets back at most what it had, and at least nothing.        *)
THEOREM BudgetsInRange ==
  ASSUME NEW out \in Nat, NEW err \in Nat, NEW max \in Nat
  PROVE  /\ KeptStdout(out, err, max) \in 0..out
         /\ KeptStderr(out, err, max) \in 0..err
BY DEF KeptStdout, KeptStderr, Fits, StdoutBudget, StderrBudget, StdoutShare,
       StderrShare, Least

(* The limit holds for both streams together, and texts that exceed it use *)
(* it up: no byte of the budget is wasted.                                 *)
THEOREM BudgetUsedUp ==
  ASSUME NEW out \in Nat, NEW err \in Nat, NEW max \in Nat
  PROVE  KeptStdout(out, err, max) + KeptStderr(out, err, max)
           = Least(out + err, max)
BY DEF KeptStdout, KeptStderr, Fits, StdoutBudget, StderrBudget, StdoutShare,
       StderrShare, Least

(* However much stdout there is, stderr keeps a quarter of the limit, or   *)
(* all it has if that is less; and the other way round for the rest.       *)
THEOREM NeitherStarves ==
  ASSUME NEW out \in Nat, NEW err \in Nat, NEW max \in Nat
  PROVE  /\ KeptStderr(out, err, max) >= Least(err, max \div 4)
         /\ KeptStdout(out, err, max) >= Least(out, max - max \div 4)
BY DEF KeptStdout, KeptStderr, Fits, StdoutBudget, StderrBudget, StdoutShare,
       StderrShare, Least
=============================================================================
