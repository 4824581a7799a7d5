----------------------- MODULE ExecutionBridge_proofs -----------------------
(***************************************************************************)
(* Proofs about ExecutionBridge, for any runs, request IDs, documents,     *)
(* registry, exit codes and numbers of runners, commits and attempts.      *)
(* They rest on one inductive invariant, IInv, whose parts follow a run on *)
(* its way: approvals belong to attempts (AttemptsInv), a run is cleared   *)
(* by preflight, approval and its group (ClearedInv), a client exists only *)
(* after a launch (LaunchInv), and evidence only after a client's end      *)
(* (EvidenceInv).                                                          *)
(***************************************************************************)
EXTENDS ExecutionBridge, TLAPS

Of(g, r) == g.run = r /\ g.attempt = attempt[r]

(* Approvals are for the document of the dispatched commit, and for        *)
(* attempts up to the current one, which has none before it is approved.   *)
AttemptsInv ==
  /\ \A r \in Runs : phase[r] = "none" <=> attempt[r] = 0
  /\ \A g \in approved :
       /\ phase[g.run] # "none"
       /\ g.attempt <= attempt[g.run]
       /\ g.doc = Document(g.run)
  /\ \A r \in Runs, g \in approved :
       Of(g, r) => phase[r] \notin {"none", "pending", "preflight", "waiting"}

(* A run that waits for approval or is past it has a valid document, one   *)
(* that is past it has its approval, and it has its group to itself.       *)
ClearedInv ==
  /\ \A r \in Runs :
       /\ phase[r] \in {"waiting", "ready", "executing"} => Valid(Document(r), id[r])
       /\ phase[r] \in {"ready", "executing"} => Grant(r) \in approved
  /\ \A q, r \in Runs :
       q # r /\ phase[q] \in Active /\ phase[r] \in Active => id[q] # id[r]

(* What is launched was approved and resolves; a client that may still do  *)
(* something belongs to a launch of the current attempt.                   *)
LaunchInv ==
  /\ launched \subseteq approved
  /\ running \subseteq launched
  /\ \A g \in launched : Valid(g.doc, id[g.run]) /\ Resolves(g.doc)
  /\ \A r \in Runs :
       /\ client[r] = "none" => \A g \in launched : ~Of(g, r)
       /\ client[r] \in {"connecting", "running", "exited", "killed"} =>
            phase[r] = "executing" /\ Grant(r) \in launched

(* There is at most one piece of evidence of a launch, none before its     *)
(* client is done, and a client that ended with its command has left       *)
(* nothing running.                                                        *)
EvidenceInv ==
  /\ \A e \in evidence : e.grant \in launched
  /\ \A r \in Runs :
       /\ client[r] # "gone" => \A e \in evidence : ~Of(e.grant, r)
       /\ client[r] = "exited" /\ ~SshFailed(r) => Grant(r) \notin running
       /\ phase[r] = "success" => client[r] = "gone"

IInv ==
  /\ TypeOK /\ AttemptsInv /\ ClearedInv /\ LaunchInv
  /\ EvidenceInv /\ SuccessIsEvidence

-----------------------------------------------------------------------------
(* The grant of a dispatched run with a valid document is one.             *)
LEMMA GrantTyped ==
  ASSUME TypeOK, NEW r \in Runs, attempt[r] # 0, Valid(Document(r), id[r])
  PROVE  /\ Grant(r) \in Grants
         /\ Execution(r) = Grant(r)
<1>1. Document(r) \in Docs
  BY DEF TypeOK, Document, Valid, Parses
<1>2. attempt[r] \in 1..MaxAttempts
  BY CountAssumption DEF TypeOK
<1> QED
  BY <1>1, <1>2 DEF Grant, Grants, Execution, Checkout, Document

(* Entering a group leaves every other run where it is, or cancels it when *)
(* it was pending, and is pending itself unless the group is its own.      *)
LEMMA EnterPhase ==
  ASSUME TypeOK, NEW r \in Runs, Enter(r, id[r])
  PROVE  /\ phase' \in [Runs -> {"none", "pending"} \cup Active \cup Concluded]
         /\ phase'[r] \in {"pending", "preflight"}
         /\ \A q \in Runs \ {r} :
              /\ phase'[q] = phase[q] \/ (phase[q] = "pending" /\ phase'[q] = "cancelled")
              /\ phase'[r] = "preflight" => id[q] # id[r] \/ phase[q] \notin Active
<1>1. phase'[r] = IF Taken(r, id[r]) THEN "pending" ELSE "preflight"
  BY Zenon DEF Enter
<1>2. ASSUME NEW q \in Runs \ {r}
      PROVE  phase'[q] = phase[q] \/ (phase[q] = "pending" /\ phase'[q] = "cancelled")
  BY Zenon DEF Enter
<1>3. ASSUME NEW q \in Runs \ {r}, phase'[r] = "preflight"
      PROVE  id[q] # id[r] \/ phase[q] \notin Active
  <2>1. ~Taken(r, id[r])
    BY <1>1, <1>3
  <2> QED
    BY <2>1 DEF Taken, Group
<1>4. DOMAIN phase' = Runs /\ phase' = [q \in Runs |-> phase'[q]]
  BY Zenon DEF Enter
<1>5. ASSUME NEW q \in Runs
      PROVE  phase'[q] \in {"none", "pending"} \cup Active \cup Concluded
  BY <1>1, <1>2 DEF TypeOK, Active, Concluded
<1> QED
  BY <1>1, <1>2, <1>3, <1>4, <1>5

(* Every step keeps the types.                                             *)
LEMMA TypesKept ==
  ASSUME IInv, [Next]_vars
  PROVE  TypeOK'
<1> USE DEF IInv
<1>1. CASE Commit
  BY <1>1, CountAssumption DEF Commit, TypeOK, Shas, bridge, executor, record
<1>2. ASSUME NEW r \in Runs, Dispatch(r) PROVE TypeOK'
  BY <1>2, CountAssumption, EnterPhase DEF Group, Dispatch, Fresh, TypeOK,
       AttemptsInv, Active, Concluded, Shas, bridge, executor, record
<1>3. ASSUME NEW r \in Runs, Rerun(r) PROVE TypeOK'
  BY <1>3, CountAssumption, EnterPhase DEF Group, Rerun, Fresh, TypeOK,
       Active, Concluded, bridge, executor, record
<1>4. ASSUME NEW r \in Runs, Admit(r) PROVE TypeOK'
  BY <1>4 DEF Admit, Moves, TypeOK, Active, Concluded, bridge, executor, record
<1>5. ASSUME NEW r \in Runs, CancelRun(r) PROVE TypeOK'
  BY <1>5 DEF CancelRun, Moves, TypeOK, Active, Concluded, bridge, executor,
       record
<1>6. ASSUME NEW r \in Runs, Preflight(r) PROVE TypeOK'
  BY <1>6 DEF Preflight, Moves, TypeOK, Active, Concluded, bridge, executor,
       record
<1>7. ASSUME NEW r \in Runs, Approve(r) PROVE TypeOK'
  BY <1>7, GrantTyped DEF Approve, Moves, TypeOK, AttemptsInv, ClearedInv,
       Active, Concluded, bridge, executor, record
<1>8. ASSUME NEW r \in Runs, Reject(r) PROVE TypeOK'
  BY <1>8 DEF Reject, Moves, TypeOK, Active, Concluded, bridge, executor,
       record
<1>9. ASSUME NEW r \in Runs, RunnerTakes(r) PROVE TypeOK'
  BY <1>9 DEF RunnerTakes, Moves, Cleared, TypeOK, Active, Concluded, bridge,
       executor, record
<1>10. ASSUME NEW r \in Runs, Refuse(r) PROVE TypeOK'
  BY <1>10 DEF Refuse, Fail, Moves, Forget, TypeOK, Codes, Active, Concluded,
       bridge, executor, record
<1>11. ASSUME NEW r \in Runs, Launch(r) PROVE TypeOK'
  BY <1>11, GrantTyped DEF Launch, TypeOK, AttemptsInv, ClearedInv, bridge,
       executor, record
<1>12. ASSUME NEW r \in Runs, TimesOut(r) PROVE TypeOK'
  BY <1>12 DEF TimesOut, TypeOK, Codes, Active,
       Concluded, bridge, executor, record
<1>13. ASSUME NEW r \in Runs, RaiseConnectionFailed(r) PROVE TypeOK'
  BY <1>13 DEF RaiseConnectionFailed, Fail, Moves, Forget, TypeOK, Codes,
       Active, Concluded, bridge, executor, record
<1>14. ASSUME NEW r \in Runs, Testify(r) PROVE TypeOK'
  BY <1>14, GrantTyped DEF Testify, Moves, Forget, Verdict, TypeOK, Codes,
       AttemptsInv, ClearedInv, LaunchInv, Active, Concluded, bridge,
       executor, record
<1>15. ASSUME NEW r \in Runs, RemoteStarts(r) PROVE TypeOK'
  BY <1>15 DEF RemoteStarts, TypeOK, LaunchInv, bridge, executor, record
<1>16. ASSUME NEW r \in Runs, ConnectionFails(r) PROVE TypeOK'
  BY <1>16 DEF ConnectionFails, TypeOK, Codes, bridge, executor, record
<1>17. ASSUME NEW r \in Runs, JobKilled(r) PROVE TypeOK'
  BY <1>17, ExitAssumption DEF JobKilled, Moves, Forget, TypeOK, Codes,
       Active, Concluded, bridge, executor, record
<1>18. ASSUME NEW g \in running, NEW c \in ExitCodes, CommandEnds(g, c)
       PROVE  TypeOK'
  <2> USE <1>18 DEF CommandEnds, TypeOK, Codes
  <2>1. client' \in [Runs -> {"none", "connecting", "running", "exited", "killed", "gone"}]
    OBVIOUS
  <2>2. code' \in [Runs -> Codes]
    OBVIOUS
  <2>3. running' \in SUBSET Grants
    OBVIOUS
  <2> QED
    BY <2>1, <2>2, <2>3 DEF bridge, executor, record
<1>19. ASSUME NEW r \in Runs, RaiseTimeout(r) PROVE TypeOK'
  BY <1>19 DEF RaiseTimeout, Fail, Moves, Forget, TypeOK, Codes,
       Active, Concluded, bridge, executor, record
<1>20. ASSUME NEW r \in Runs, Forks(r) PROVE TypeOK'
  BY <1>20 DEF Forks, TypeOK, LaunchInv, bridge, executor, record
<1>21. ASSUME NEW r \in Runs, LetsGo(r) PROVE TypeOK'
  BY <1>21 DEF LetsGo, TypeOK, LaunchInv, bridge, executor, record
<1>22. CASE UNCHANGED vars
  BY <1>22 DEF vars, TypeOK, bridge, executor, record
<1> QED
  BY <1>1, <1>2, <1>3, <1>4, <1>5, <1>6, <1>7, <1>8, <1>9, <1>10,
     <1>11, <1>12, <1>13, <1>14, <1>15, <1>16, <1>17, <1>18, <1>19, <1>20,
     <1>21, <1>22 DEF Next, Executes

(* No step gives an attempt a second approval, or one before its turn.     *)
LEMMA AttemptsKept ==
  ASSUME IInv, [Next]_vars
  PROVE  AttemptsInv'
<1> USE DEF IInv
<1>1. CASE Commit
  BY <1>1 DEF Commit, AttemptsInv, TypeOK, Grants, Document, Of, bridge,
       executor, record
<1>2. ASSUME NEW r \in Runs, Dispatch(r) PROVE AttemptsInv'
  <2>1. /\ TypeOK /\ Enter(r, id[r]) /\ phase[r] = "none"
        /\ attempt' = [attempt EXCEPT ![r] = @ + 1]
        /\ sha' = [sha EXCEPT ![r] = main]
        /\ UNCHANGED <<repo, id, approved>>
    BY <1>2 DEF Dispatch, Fresh, Group, record
  <2>2. /\ phase'[r] \in {"pending", "preflight"}
        /\ \A q \in Runs \ {r} :
             phase'[q] = phase[q] \/ (phase[q] = "pending" /\ phase'[q] = "cancelled")
    BY <2>1, EnterPhase
  <2>3. attempt[r] = 0 /\ attempt'[r] = 1 /\ \A q \in Runs \ {r} : attempt'[q] = attempt[q]
    BY <2>1 DEF TypeOK, AttemptsInv
  <2>4. \A q \in Runs : phase'[q] = "none" <=> attempt'[q] = 0
    BY <2>2, <2>3 DEF AttemptsInv
  <2>5. \A g \in approved : g.run \in Runs \ {r}
    BY <2>1 DEF TypeOK, AttemptsInv, Grants
  <2>6. \A g \in approved :
          phase'[g.run] # "none" /\ g.attempt <= attempt'[g.run] /\ g.doc = Document(g.run)'
    BY <2>1, <2>2, <2>3, <2>5 DEF TypeOK, AttemptsInv, Document
  <2>7. \A q \in Runs, g \in approved :
          Of(g, q)' => phase'[q] \notin {"none", "pending", "preflight", "waiting"}
    BY <2>2, <2>3, <2>5 DEF AttemptsInv, Of
  <2> QED BY <2>1, <2>4, <2>6, <2>7 DEF AttemptsInv
<1>3. ASSUME NEW r \in Runs, Rerun(r) PROVE AttemptsInv'
  BY <1>3, EnterPhase DEF Rerun, Fresh, Group, Concluded, AttemptsInv, TypeOK,
       Grants, Document, Of, bridge, executor, record
<1>4. ASSUME NEW r \in Runs, Admit(r) PROVE AttemptsInv'
  BY <1>4 DEF Admit, Moves, AttemptsInv, TypeOK, Grants, Document, Of, bridge,
       executor, record
<1>5. ASSUME NEW r \in Runs, CancelRun(r) PROVE AttemptsInv'
  BY <1>5 DEF CancelRun, Moves, AttemptsInv, TypeOK, Grants, Document, Of,
       bridge, executor, record
<1>6. ASSUME NEW r \in Runs, Preflight(r) PROVE AttemptsInv'
  BY <1>6 DEF Preflight, Moves, AttemptsInv, TypeOK, Grants, Document, Of,
       bridge, executor, record
<1>7. ASSUME NEW r \in Runs, Approve(r) PROVE AttemptsInv'
  BY <1>7 DEF Approve, Moves, Concluded, Grant, AttemptsInv, TypeOK, Grants,
       Document, Of, bridge, executor, record
<1>8. ASSUME NEW r \in Runs, Reject(r) PROVE AttemptsInv'
  BY <1>8 DEF Reject, Moves, AttemptsInv, TypeOK, Grants, Document, Of,
       bridge, executor, record
<1>9. ASSUME NEW r \in Runs, RunnerTakes(r) PROVE AttemptsInv'
  BY <1>9 DEF RunnerTakes, Moves, Cleared, AttemptsInv, TypeOK, Grants,
       Document, Of, bridge, executor, record
<1>10. ASSUME NEW r \in Runs, Refuse(r) PROVE AttemptsInv'
  BY <1>10 DEF Refuse, Fail, Moves, Forget, AttemptsInv, TypeOK, Grants,
       Document, Of, bridge, executor, record
<1>11. ASSUME NEW r \in Runs, Launch(r) PROVE AttemptsInv'
  BY <1>11 DEF Launch, AttemptsInv, TypeOK, Grants, Document, Of, bridge,
       executor, record
<1>12. ASSUME NEW r \in Runs, TimesOut(r) PROVE AttemptsInv'
  BY <1>12 DEF TimesOut, AttemptsInv, TypeOK, Grants,
       Document, Of, bridge, executor, record
<1>13. ASSUME NEW r \in Runs, RaiseConnectionFailed(r) PROVE AttemptsInv'
  BY <1>13 DEF RaiseConnectionFailed, Fail, Moves, Forget, AttemptsInv,
       TypeOK, Grants, Document, Of, bridge, executor, record
<1>14. ASSUME NEW r \in Runs, Testify(r) PROVE AttemptsInv'
  BY <1>14 DEF Testify, Moves, Forget, Verdict, AttemptsInv, TypeOK, Grants,
       Document, Of, bridge, executor, record
<1>15. ASSUME NEW r \in Runs, RemoteStarts(r) PROVE AttemptsInv'
  BY <1>15 DEF RemoteStarts, AttemptsInv, TypeOK, Grants, Document, Of,
       bridge, executor, record
<1>16. ASSUME NEW r \in Runs, ConnectionFails(r) PROVE AttemptsInv'
  BY <1>16 DEF ConnectionFails, AttemptsInv, TypeOK, Grants, Document, Of,
       bridge, executor, record
<1>17. ASSUME NEW r \in Runs, JobKilled(r) PROVE AttemptsInv'
  BY <1>17 DEF JobKilled, Moves, Forget, Concluded, AttemptsInv, TypeOK,
       Grants, Document, Of, bridge, executor, record
<1>18. ASSUME NEW g \in running, NEW c \in ExitCodes, CommandEnds(g, c)
       PROVE  AttemptsInv'
  BY <1>18 DEF CommandEnds, AttemptsInv, TypeOK, Grants, Document, Of, bridge,
       executor, record
<1>19. ASSUME NEW r \in Runs, RaiseTimeout(r) PROVE AttemptsInv'
  BY <1>19 DEF RaiseTimeout, Fail, Moves, Forget, AttemptsInv,
       TypeOK, Grants, Document, Of, bridge, executor, record
<1>20. ASSUME NEW r \in Runs, Forks(r) PROVE AttemptsInv'
  BY <1>20 DEF Forks, AttemptsInv, TypeOK, Grants, Document, Of,
       bridge, executor, record
<1>21. ASSUME NEW r \in Runs, LetsGo(r) PROVE AttemptsInv'
  BY <1>21 DEF LetsGo, AttemptsInv, TypeOK, Grants, Document, Of,
       bridge, executor, record
<1>22. CASE UNCHANGED vars
  BY <1>22 DEF vars, AttemptsInv, TypeOK, Grants, Document, Of, bridge,
       executor, record
<1> QED
  BY <1>1, <1>2, <1>3, <1>4, <1>5, <1>6, <1>7, <1>8, <1>9, <1>10,
     <1>11, <1>12, <1>13, <1>14, <1>15, <1>16, <1>17, <1>18, <1>19, <1>20,
     <1>21, <1>22 DEF Next, Executes

(* No step clears a run without the check, or two runs of a group.         *)
LEMMA ClearedKept ==
  ASSUME IInv, [Next]_vars
  PROVE  ClearedInv'
<1> USE DEF IInv
<1>1. CASE Commit
  BY <1>1 DEF Commit, ClearedInv, TypeOK, Grant, Document, Active, Concluded,
       bridge, executor, record
<1>2. ASSUME NEW r \in Runs, Dispatch(r) PROVE ClearedInv'
  BY <1>2, EnterPhase DEF Dispatch, Fresh, Group, ClearedInv, TypeOK, Grant,
       Document, Active, Concluded, bridge, executor, record
<1>3. ASSUME NEW r \in Runs, Rerun(r) PROVE ClearedInv'
  BY <1>3, EnterPhase DEF Rerun, Fresh, Group, ClearedInv, TypeOK, Grant,
       Document, Active, Concluded, bridge, executor, record
<1>4. ASSUME NEW r \in Runs, Admit(r) PROVE ClearedInv'
  BY <1>4 DEF Admit, Moves, Group, ClearedInv, TypeOK, Grant, Document,
       Active, Concluded, bridge, executor, record
<1>5. ASSUME NEW r \in Runs, CancelRun(r) PROVE ClearedInv'
  BY <1>5 DEF CancelRun, Moves, ClearedInv, TypeOK, Grant, Document, Active,
       Concluded, bridge, executor, record
<1>6. ASSUME NEW r \in Runs, Preflight(r) PROVE ClearedInv'
  BY <1>6 DEF Preflight, Moves, Checkout, ClearedInv, TypeOK, Grant, Document,
       Active, Concluded, bridge, executor, record
<1>7. ASSUME NEW r \in Runs, Approve(r) PROVE ClearedInv'
  BY <1>7 DEF Approve, Moves, ClearedInv, TypeOK, Grant, Document, Active,
       Concluded, bridge, executor, record
<1>8. ASSUME NEW r \in Runs, Reject(r) PROVE ClearedInv'
  BY <1>8 DEF Reject, Moves, ClearedInv, TypeOK, Grant, Document, Active,
       Concluded, bridge, executor, record
<1>9. ASSUME NEW r \in Runs, RunnerTakes(r) PROVE ClearedInv'
  BY <1>9 DEF RunnerTakes, Moves, Cleared, ClearedInv, TypeOK, Grant,
       Document, Active, Concluded, bridge, executor, record
<1>10. ASSUME NEW r \in Runs, Refuse(r) PROVE ClearedInv'
  BY <1>10 DEF Refuse, Fail, Moves, Forget, ClearedInv, TypeOK, Grant,
       Document, Active, Concluded, bridge, executor, record
<1>11. ASSUME NEW r \in Runs, Launch(r) PROVE ClearedInv'
  BY <1>11 DEF Launch, ClearedInv, TypeOK, Grant, Document, Active, Concluded,
       bridge, executor, record
<1>12. ASSUME NEW r \in Runs, TimesOut(r) PROVE ClearedInv'
  BY <1>12 DEF TimesOut, ClearedInv, TypeOK, Grant,
       Document, Active, Concluded, bridge, executor, record
<1>13. ASSUME NEW r \in Runs, RaiseConnectionFailed(r) PROVE ClearedInv'
  BY <1>13 DEF RaiseConnectionFailed, Fail, Moves, Forget, ClearedInv, TypeOK,
       Grant, Document, Active, Concluded, bridge, executor, record
<1>14. ASSUME NEW r \in Runs, Testify(r) PROVE ClearedInv'
  BY <1>14 DEF Testify, Moves, Forget, Verdict, ClearedInv, TypeOK, Grant,
       Document, Active, Concluded, bridge, executor, record
<1>15. ASSUME NEW r \in Runs, RemoteStarts(r) PROVE ClearedInv'
  BY <1>15 DEF RemoteStarts, ClearedInv, TypeOK, Grant, Document, Active,
       Concluded, bridge, executor, record
<1>16. ASSUME NEW r \in Runs, ConnectionFails(r) PROVE ClearedInv'
  BY <1>16 DEF ConnectionFails, ClearedInv, TypeOK, Grant, Document, Active,
       Concluded, bridge, executor, record
<1>17. ASSUME NEW r \in Runs, JobKilled(r) PROVE ClearedInv'
  BY <1>17 DEF JobKilled, Moves, Forget, ClearedInv, TypeOK, Grant, Document,
       Active, Concluded, bridge, executor, record
<1>18. ASSUME NEW g \in running, NEW c \in ExitCodes, CommandEnds(g, c)
       PROVE  ClearedInv'
  BY <1>18 DEF CommandEnds, ClearedInv, TypeOK, Grant, Document, Active,
       Concluded, bridge, executor, record
<1>19. ASSUME NEW r \in Runs, RaiseTimeout(r) PROVE ClearedInv'
  BY <1>19 DEF RaiseTimeout, Fail, Moves, Forget, ClearedInv, TypeOK,
       Grant, Document, Active, Concluded, bridge, executor, record
<1>20. ASSUME NEW r \in Runs, Forks(r) PROVE ClearedInv'
  BY <1>20 DEF Forks, ClearedInv, TypeOK, Grant, Document, Active,
       Concluded, bridge, executor, record
<1>21. ASSUME NEW r \in Runs, LetsGo(r) PROVE ClearedInv'
  BY <1>21 DEF LetsGo, ClearedInv, TypeOK, Grant, Document, Active,
       Concluded, bridge, executor, record
<1>22. CASE UNCHANGED vars
  BY <1>22 DEF vars, ClearedInv, TypeOK, Grant, Document, Active, Concluded,
       bridge, executor, record
<1> QED
  BY <1>1, <1>2, <1>3, <1>4, <1>5, <1>6, <1>7, <1>8, <1>9, <1>10,
     <1>11, <1>12, <1>13, <1>14, <1>15, <1>16, <1>17, <1>18, <1>19, <1>20,
     <1>21, <1>22 DEF Next, Executes

(* Launches stay approved, and a client belongs to one of this attempt.    *)
LEMMA LaunchKept ==
  ASSUME IInv, [Next]_vars
  PROVE  LaunchInv'
<1> USE DEF IInv
<1>1. CASE Commit
  BY <1>1 DEF Commit, LaunchInv, TypeOK, Grants, Grant, Document, Of, bridge,
       executor, record
<1>2. ASSUME NEW r \in Runs, Dispatch(r) PROVE LaunchInv'
  BY <1>2, EnterPhase DEF Dispatch, Fresh, AttemptsInv, Group, LaunchInv,
       TypeOK, Grants, Grant, Document, Of, bridge, executor, record
<1>3. ASSUME NEW r \in Runs, Rerun(r) PROVE LaunchInv'
  BY <1>3, EnterPhase DEF Rerun, Fresh, AttemptsInv, Concluded, Group,
       LaunchInv, TypeOK, Grants, Grant, Document, Of, bridge, executor,
       record
<1>4. ASSUME NEW r \in Runs, Admit(r) PROVE LaunchInv'
  BY <1>4 DEF Admit, Moves, LaunchInv, TypeOK, Grants, Grant, Document, Of,
       bridge, executor, record
<1>5. ASSUME NEW r \in Runs, CancelRun(r) PROVE LaunchInv'
  BY <1>5 DEF CancelRun, Moves, LaunchInv, TypeOK, Grants, Grant, Document,
       Of, bridge, executor, record
<1>6. ASSUME NEW r \in Runs, Preflight(r) PROVE LaunchInv'
  BY <1>6 DEF Preflight, Moves, LaunchInv, TypeOK, Grants, Grant, Document,
       Of, bridge, executor, record
<1>7. ASSUME NEW r \in Runs, Approve(r) PROVE LaunchInv'
  BY <1>7 DEF Approve, Moves, LaunchInv, TypeOK, Grants, Grant, Document, Of,
       bridge, executor, record
<1>8. ASSUME NEW r \in Runs, Reject(r) PROVE LaunchInv'
  BY <1>8 DEF Reject, Moves, LaunchInv, TypeOK, Grants, Grant, Document, Of,
       bridge, executor, record
<1>9. ASSUME NEW r \in Runs, RunnerTakes(r) PROVE LaunchInv'
  BY <1>9 DEF RunnerTakes, Moves, Cleared, LaunchInv, TypeOK, Grants, Grant,
       Document, Of, bridge, executor, record
<1>10. ASSUME NEW r \in Runs, Refuse(r) PROVE LaunchInv'
  BY <1>10 DEF Refuse, Fail, Moves, Forget, LaunchInv, TypeOK, Grants, Grant,
       Document, Of, bridge, executor, record
<1>11. ASSUME NEW r \in Runs, Launch(r) PROVE LaunchInv'
  BY <1>11 DEF Launch, ClearedInv, AttemptsInv, Execution, Checkout,
       LaunchInv, TypeOK, Grants, Grant, Document, Of, bridge, executor,
       record
<1>12. ASSUME NEW r \in Runs, TimesOut(r) PROVE LaunchInv'
  BY <1>12 DEF TimesOut, Expires, LaunchInv, TypeOK,
       Grants, Grant, Document, Of, bridge, executor, record
<1>13. ASSUME NEW r \in Runs, RaiseConnectionFailed(r) PROVE LaunchInv'
  BY <1>13 DEF RaiseConnectionFailed, Fail, Moves, Forget, LaunchInv, TypeOK,
       Grants, Grant, Document, Of, bridge, executor, record
<1>14. ASSUME NEW r \in Runs, Testify(r) PROVE LaunchInv'
  BY <1>14 DEF Testify, Moves, Forget, Verdict, LaunchInv, TypeOK, Grants,
       Grant, Document, Of, bridge, executor, record
<1>15. ASSUME NEW r \in Runs, RemoteStarts(r) PROVE LaunchInv'
  BY <1>15 DEF RemoteStarts, LaunchInv, TypeOK, Grants, Grant, Document, Of,
       bridge, executor, record
<1>16. ASSUME NEW r \in Runs, ConnectionFails(r) PROVE LaunchInv'
  BY <1>16 DEF ConnectionFails, LaunchInv, TypeOK, Grants, Grant, Document,
       Of, bridge, executor, record
<1>17. ASSUME NEW r \in Runs, JobKilled(r) PROVE LaunchInv'
  BY <1>17 DEF JobKilled, Moves, Forget, Concluded, LaunchInv, TypeOK, Grants,
       Grant, Document, Of, bridge, executor, record
<1>18. ASSUME NEW g \in running, NEW c \in ExitCodes, CommandEnds(g, c)
       PROVE  LaunchInv'
  BY <1>18 DEF CommandEnds, LaunchInv, TypeOK, Grants, Grant, Document, Of,
       bridge, executor, record
<1>19. ASSUME NEW r \in Runs, RaiseTimeout(r) PROVE LaunchInv'
  BY <1>19 DEF RaiseTimeout, Fail, Moves, Forget, LaunchInv, TypeOK,
       Grants, Grant, Document, Of, bridge, executor, record
<1>20. ASSUME NEW r \in Runs, Forks(r) PROVE LaunchInv'
  BY <1>20 DEF Forks, LaunchInv, TypeOK, Grants, Grant, Document, Of,
       bridge, executor, record
<1>21. ASSUME NEW r \in Runs, LetsGo(r) PROVE LaunchInv'
  BY <1>21 DEF LetsGo, LaunchInv, TypeOK, Grants, Grant, Document, Of,
       bridge, executor, record
<1>22. CASE UNCHANGED vars
  BY <1>22 DEF vars, LaunchInv, TypeOK, Grants, Grant, Document, Of, bridge,
       executor, record
<1> QED
  BY <1>1, <1>2, <1>3, <1>4, <1>5, <1>6, <1>7, <1>8, <1>9, <1>10,
     <1>11, <1>12, <1>13, <1>14, <1>15, <1>16, <1>17, <1>18, <1>19, <1>20,
     <1>21, <1>22 DEF Next, Executes

(* Evidence follows a launch whose client has ended.                       *)
LEMMA EvidenceKept ==
  ASSUME IInv, [Next]_vars
  PROVE  EvidenceInv' /\ SuccessIsEvidence'
<1> USE DEF IInv
<1>1. CASE Commit
  BY <1>1 DEF Commit, EvidenceInv, SuccessIsEvidence, LaunchInv, TypeOK,
       Grants, Grant, Document, Of, SshFailed, Remote, Checkout, bridge,
       executor, record
<1>2. ASSUME NEW r \in Runs, Dispatch(r)
      PROVE  EvidenceInv' /\ SuccessIsEvidence'
  BY <1>2, EnterPhase DEF Dispatch, Fresh, AttemptsInv, Group, EvidenceInv,
       SuccessIsEvidence, LaunchInv, TypeOK, Grants, Grant, Document, Of,
       SshFailed, Remote, Checkout, bridge, executor, record
<1>3. ASSUME NEW r \in Runs, Rerun(r) PROVE EvidenceInv' /\ SuccessIsEvidence'
  BY <1>3, EnterPhase DEF Rerun, Fresh, AttemptsInv, Concluded, Group,
       EvidenceInv, SuccessIsEvidence, LaunchInv, TypeOK, Grants, Grant,
       Document, Of, SshFailed, Remote, Checkout, bridge, executor, record
<1>4. ASSUME NEW r \in Runs, Admit(r) PROVE EvidenceInv' /\ SuccessIsEvidence'
  BY <1>4 DEF Admit, Moves, EvidenceInv, SuccessIsEvidence, LaunchInv, TypeOK,
       Grants, Grant, Document, Of, SshFailed, Remote, Checkout, bridge,
       executor, record
<1>5. ASSUME NEW r \in Runs, CancelRun(r)
      PROVE  EvidenceInv' /\ SuccessIsEvidence'
  BY <1>5 DEF CancelRun, Moves, EvidenceInv, SuccessIsEvidence, LaunchInv,
       TypeOK, Grants, Grant, Document, Of, SshFailed, Remote, Checkout,
       bridge, executor, record
<1>6. ASSUME NEW r \in Runs, Preflight(r)
      PROVE  EvidenceInv' /\ SuccessIsEvidence'
  BY <1>6 DEF Preflight, Moves, EvidenceInv, SuccessIsEvidence, LaunchInv,
       TypeOK, Grants, Grant, Document, Of, SshFailed, Remote, Checkout,
       bridge, executor, record
<1>7. ASSUME NEW r \in Runs, Approve(r)
      PROVE  EvidenceInv' /\ SuccessIsEvidence'
  BY <1>7 DEF Approve, Moves, EvidenceInv, SuccessIsEvidence, LaunchInv,
       TypeOK, Grants, Grant, Document, Of, SshFailed, Remote, Checkout,
       bridge, executor, record
<1>8. ASSUME NEW r \in Runs, Reject(r)
      PROVE  EvidenceInv' /\ SuccessIsEvidence'
  BY <1>8 DEF Reject, Moves, EvidenceInv, SuccessIsEvidence, LaunchInv,
       TypeOK, Grants, Grant, Document, Of, SshFailed, Remote, Checkout,
       bridge, executor, record
<1>9. ASSUME NEW r \in Runs, RunnerTakes(r)
      PROVE  EvidenceInv' /\ SuccessIsEvidence'
  BY <1>9 DEF RunnerTakes, Moves, Cleared, EvidenceInv, SuccessIsEvidence,
       LaunchInv, TypeOK, Grants, Grant, Document, Of, SshFailed, Remote,
       Checkout, bridge, executor, record
<1>10. ASSUME NEW r \in Runs, Refuse(r)
       PROVE  EvidenceInv' /\ SuccessIsEvidence'
  BY <1>10 DEF Refuse, Fail, Moves, Forget, EvidenceInv, SuccessIsEvidence,
       LaunchInv, TypeOK, Grants, Grant, Document, Of, SshFailed, Remote,
       Checkout, bridge, executor, record
<1>11. ASSUME NEW r \in Runs, Launch(r)
       PROVE  EvidenceInv' /\ SuccessIsEvidence'
  BY <1>11 DEF Launch, Execution, EvidenceInv, SuccessIsEvidence, LaunchInv,
       TypeOK, Grants, Grant, Document, Of, SshFailed, Remote, Checkout,
       bridge, executor, record
<1>12. ASSUME NEW r \in Runs, TimesOut(r)
       PROVE  EvidenceInv' /\ SuccessIsEvidence'
  <2>1. /\ client' = [client EXCEPT ![r] = "killed"]
        /\ client[r] \notin {"none", "gone"} /\ phase[r] = "executing"
    BY <1>12 DEF TimesOut, Expires, LaunchInv
  <2>2. running' \subseteq running
    BY <1>12 DEF TimesOut
  <2>3. UNCHANGED <<repo, phase, id, sha, attempt, code, launched, evidence>>
    BY <1>12 DEF TimesOut, bridge, record
  <2>4. \A q \in Runs : Grant(q)' = Grant(q) /\ (SshFailed(q))' = SshFailed(q)
    BY <2>3 DEF Grant, Document, SshFailed, Remote, Checkout
  <2>5. EvidenceInv'
    BY <2>1, <2>2, <2>3, <2>4 DEF EvidenceInv, TypeOK, Of
  <2>6. SuccessIsEvidence'
    BY <2>2, <2>3, <2>4 DEF SuccessIsEvidence
  <2> QED
    BY <2>5, <2>6
<1>13. ASSUME NEW r \in Runs, RaiseConnectionFailed(r)
       PROVE  EvidenceInv' /\ SuccessIsEvidence'
  BY <1>13 DEF RaiseConnectionFailed, Fail, Moves, Forget, EvidenceInv,
       SuccessIsEvidence, LaunchInv, TypeOK, Grants, Grant, Document, Of,
       SshFailed, Remote, Checkout, bridge, executor, record
<1>14. ASSUME NEW r \in Runs, Testify(r)
       PROVE  EvidenceInv' /\ SuccessIsEvidence'
  BY <1>14 DEF Testify, Moves, Forget, Verdict, EvidenceInv,
       SuccessIsEvidence, LaunchInv, TypeOK, Grants, Grant, Document, Of,
       SshFailed, Remote, Checkout, bridge, executor, record
<1>15. ASSUME NEW r \in Runs, RemoteStarts(r)
       PROVE  EvidenceInv' /\ SuccessIsEvidence'
  BY <1>15 DEF RemoteStarts, EvidenceInv, SuccessIsEvidence, LaunchInv,
       TypeOK, Grants, Grant, Document, Of, SshFailed, Remote, Checkout,
       bridge, executor, record
<1>16. ASSUME NEW r \in Runs, ConnectionFails(r)
       PROVE  EvidenceInv' /\ SuccessIsEvidence'
  BY <1>16 DEF ConnectionFails, EvidenceInv, SuccessIsEvidence, LaunchInv,
       TypeOK, Grants, Grant, Document, Of, SshFailed, Remote, Checkout,
       bridge, executor, record
<1>17. ASSUME NEW r \in Runs, JobKilled(r)
       PROVE  EvidenceInv' /\ SuccessIsEvidence'
  BY <1>17 DEF JobKilled, Moves, Forget, Concluded, EvidenceInv,
       SuccessIsEvidence, LaunchInv, TypeOK, Grants, Grant, Document, Of,
       SshFailed, Remote, Checkout, bridge, executor, record
<1>18. ASSUME NEW g \in running, NEW c \in ExitCodes, CommandEnds(g, c)
       PROVE  EvidenceInv' /\ SuccessIsEvidence'
  <2>1. running' = running \ {g}
    BY <1>18 DEF CommandEnds
  <2>2. UNCHANGED <<repo, phase, id, sha, attempt, launched, evidence>>
    BY <1>18 DEF CommandEnds, bridge, record
  <2>3. \A q \in Runs : Grant(q)' = Grant(q)
    BY <2>2 DEF Grant, Document
  <2>4. ASSUME NEW q \in Runs
        PROVE  \/ client'[q] = client[q] /\ code'[q] = code[q]
               \/ client[q] = "running" /\ client'[q] = "exited" /\ Grant(q) = g
    BY <1>18 DEF CommandEnds, TypeOK
  <2>5. ASSUME NEW q \in Runs, client'[q] = "exited", ~(SshFailed(q))'
        PROVE  Grant(q) \notin running'
    BY <2>1, <2>2, <2>4, <2>5 DEF EvidenceInv, SshFailed, Remote, Checkout
  <2>6. EvidenceInv'
    BY <2>2, <2>3, <2>4, <2>5 DEF EvidenceInv, Of
  <2>7. SuccessIsEvidence'
    BY <2>1, <2>2, <2>3 DEF SuccessIsEvidence
  <2> QED
    BY <2>6, <2>7
<1>19. ASSUME NEW r \in Runs, RaiseTimeout(r)
       PROVE  EvidenceInv' /\ SuccessIsEvidence'
  BY <1>19 DEF RaiseTimeout, Fail, Moves, Forget, EvidenceInv,
       SuccessIsEvidence, LaunchInv, TypeOK, Grants, Grant, Document, Of,
       SshFailed, Remote, Checkout, bridge, executor, record
<1>20. ASSUME NEW r \in Runs, Forks(r)
       PROVE  EvidenceInv' /\ SuccessIsEvidence'
  BY <1>20 DEF Forks, EvidenceInv, SuccessIsEvidence, LaunchInv,
       TypeOK, Grants, Grant, Document, Of, SshFailed, Remote, Checkout,
       bridge, executor, record
<1>21. ASSUME NEW r \in Runs, LetsGo(r)
       PROVE  EvidenceInv' /\ SuccessIsEvidence'
  BY <1>21 DEF LetsGo, EvidenceInv, SuccessIsEvidence, LaunchInv,
       TypeOK, Grants, Grant, Document, Of, SshFailed, Remote, Checkout,
       bridge, executor, record
<1>22. CASE UNCHANGED vars
  BY <1>22 DEF vars, EvidenceInv, SuccessIsEvidence, LaunchInv, TypeOK,
       Grants, Grant, Document, Of, SshFailed, Remote, Checkout, bridge,
       executor, record
<1> QED
  BY <1>1, <1>2, <1>3, <1>4, <1>5, <1>6, <1>7, <1>8, <1>9, <1>10,
     <1>11, <1>12, <1>13, <1>14, <1>15, <1>16, <1>17, <1>18, <1>19, <1>20,
     <1>21, <1>22 DEF Next, Executes

(* Nothing has happened in an initial state.                               *)
LEMMA InitIInv == Init => IInv
<1> SUFFICES ASSUME Init PROVE IInv
  OBVIOUS
<1>1. TypeOK
  BY CountAssumption DEF Init, TypeOK, Shas, Codes, Active, Concluded
<1>2. AttemptsInv /\ LaunchInv
  BY DEF Init, AttemptsInv, LaunchInv
<1>3. ClearedInv /\ EvidenceInv /\ SuccessIsEvidence
  BY DEF Init, ClearedInv, EvidenceInv, SuccessIsEvidence, Active
<1> QED
  BY <1>1, <1>2, <1>3 DEF IInv

(* The invariant the theorems below rest on.                               *)
THEOREM Inductive == Spec => []IInv
<1>1. IInv /\ [Next]_vars => IInv'
  BY TypesKept, AttemptsKept, ClearedKept, LaunchKept, EvidenceKept DEF IInv
<1> QED
  BY InitIInv, <1>1, PTL DEF Spec

-----------------------------------------------------------------------------
(* The state of the lane has its types in every reachable state.           *)
THEOREM Typed == Spec => []TypeOK
<1>1. IInv => TypeOK
  BY DEF IInv
<1> QED
  BY Inductive, <1>1, PTL

(* However many runs of a request ID are dispatched, re-run and cancelled, *)
(* and however many runners there are, one executor at a time works on it. *)
THEOREM OneExecutor == Spec => []OneExecutorPerRequest
<1>1. IInv => OneExecutorPerRequest
  BY DEF IInv, ClearedInv, OneExecutorPerRequest, Active
<1> QED
  BY Inductive, <1>1, PTL

(* Whatever is committed, a launched command carries the ID its run was    *)
(* dispatched with and goes to the host that owns its workspace.           *)
THEOREM AsWritten == Spec => []LaunchedAsWritten
<1>1. IInv => LaunchedAsWritten
  BY DEF IInv, LaunchInv, LaunchedAsWritten, Valid, Parses, Resolves
<1> QED
  BY Inductive, <1>1, PTL

(* A run is a success only on evidence of its own attempt's command, which *)
(* is over.                                                                *)
THEOREM SuccessProved == Spec => []SuccessIsEvidence
<1>1. IInv => SuccessIsEvidence
  BY DEF IInv
<1> QED
  BY Inductive, <1>1, PTL

-----------------------------------------------------------------------------
(* An approval is a first approval of its attempt.                         *)
LEMMA ApproveRefines ==
  ASSUME IInv, NEW r \in Runs, Approve(r)
  PROVE  AE!Next
<1>1. Grant(r) \in Grants
  BY GrantTyped DEF Approve, Moves, IInv, AttemptsInv, ClearedInv
<1>2. AE!Approve(Grant(r))
  <2>1. \A h \in approved : ~Of(h, r)
    BY DEF Approve, Moves, IInv, AttemptsInv
  <2> QED
    BY <2>1 DEF Approve, AE!Approve, Grant, Of
<1> QED
  BY <1>1, <1>2 DEF AE!Next

(* A launch is of an approved grant that was not launched before.          *)
LEMMA LaunchRefines ==
  ASSUME IInv, NEW r \in Runs, Launch(r)
  PROVE  AE!Next
<1>1. Grant(r) \in Grants /\ Execution(r) = Grant(r)
  BY GrantTyped DEF Launch, IInv, AttemptsInv, ClearedInv
<1>2. Grant(r) \in approved
  BY DEF Launch, IInv, ClearedInv
<1>3. Grant(r) \notin launched
  BY DEF Launch, IInv, LaunchInv, Of, Grant
<1>4. AE!Launch(Grant(r))
  BY <1>1, <1>2, <1>3 DEF Launch, AE!Launch
<1> QED
  BY <1>1, <1>4 DEF AE!Next

(* Evidence is the first of a launched grant.                              *)
LEMMA TestifyRefines ==
  ASSUME IInv, NEW r \in Runs, Testify(r)
  PROVE  AE!Next
<1>1. Grant(r) \in Grants /\ Grant(r) \in launched /\ code[r] \in Codes
  BY DEF Testify, IInv, LaunchInv, TypeOK
<1>2. \A e \in evidence : e.grant # Grant(r)
  BY DEF Testify, IInv, EvidenceInv, Of, Grant
<1>3. AE!Testify(Grant(r), code[r])
  BY <1>1, <1>2 DEF Testify, AE!Testify
<1> QED
  BY <1>1, <1>3 DEF AE!Next

(* Every command was approved, for that attempt and that very document,    *)
(* and is launched at most once for it; evidence is of launched commands,  *)
(* once.  The other steps leave approvals, launches and evidence alone.    *)
THEOREM ApprovedOnly == Spec => ImplementsApprovedExecution
<1>1. Init => AE!Init
  BY DEF Init, AE!Init
<1>2. IInv /\ [Next]_vars => [AE!Next]_(AE!vars)
  <2> SUFFICES ASSUME IInv, [Next]_vars PROVE AE!Next \/ UNCHANGED AE!vars
    OBVIOUS
  <2>1. CASE \E r \in Runs : Approve(r) \/ Launch(r) \/ Testify(r)
    BY <2>1, ApproveRefines, LaunchRefines, TestifyRefines
  <2>2. CASE \E r \in Runs :
               \/ Dispatch(r) \/ Rerun(r) \/ Admit(r) \/ CancelRun(r)
               \/ Preflight(r) \/ Reject(r) \/ RunnerTakes(r) \/ RemoteStarts(r)
               \/ ConnectionFails(r) \/ Forks(r) \/ LetsGo(r) \/ TimesOut(r)
               \/ JobKilled(r)
    BY <2>2 DEF Dispatch, Rerun, Admit, CancelRun, Preflight, Reject,
         RunnerTakes,
         RemoteStarts, ConnectionFails, Forks, LetsGo, TimesOut, JobKilled,
         record, AE!vars
  <2>3. CASE \E r \in Runs : Refuse(r) \/ RaiseTimeout(r) \/ RaiseConnectionFailed(r)
    BY <2>3 DEF Refuse, RaiseTimeout, RaiseConnectionFailed, Fail, record, AE!vars
  <2>4. CASE Commit \/ \E g \in running, c \in ExitCodes : CommandEnds(g, c)
    BY <2>4 DEF Commit, CommandEnds, record, AE!vars
  <2>5. CASE UNCHANGED vars
    BY <2>5 DEF vars, record, AE!vars
  <2> QED
    BY <2>1, <2>2, <2>3, <2>4, <2>5 DEF Next, Executes
<1> QED
  BY Inductive, <1>1, <1>2, PTL DEF Spec, ImplementsApprovedExecution, AE!Spec
=============================================================================
