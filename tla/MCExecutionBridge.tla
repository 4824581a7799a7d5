------------------------- MODULE MCExecutionBridge -------------------------
(* A small instance of ExecutionBridge: a host of each transport, and for  *)
(* one request ID a document of each kind that matters.                    *)
EXTENDS ExecutionBridge, TLC

Request(i, ok, m, k, h, w) ==
  [requestId |-> i, wellFormed |-> ok, mode |-> m, risk |-> k, host |-> h, workspace |-> w]

Good(i) == {Request(i, TRUE, "argv", "R1", "gpu1", NoWorkspace),
            Request(i, TRUE, "shell", "R4", "here", "home")}

Bad(i) == {Request(i, TRUE, "argv", "R1", "gpu1", "home"),
           Request("other", TRUE, "argv", "R1", "gpu1", NoWorkspace),
           Request(i, FALSE, "argv", "R1", "here", NoWorkspace),
           Request(i, TRUE, "shell", "R1", "here", NoWorkspace),
           Request(i, TRUE, "argv", "R1", "nowhere", NoWorkspace)}

AllDocs == UNION {Good(i) \cup Bad(i) : i \in Ids}
GoodDocs == UNION {Good(i) : i \in Ids}

RemoteDocs == {d \in GoodDocs : d.host = "gpu1"}

OneOfEach == {d \in GoodDocs : d.requestId = "exec1" <=> d.host = "gpu1"}

TwoHosts == {"here", "gpu1"}
TransportOf == [h \in TwoHosts |-> IF h = "here" THEN "local" ELSE "ssh"]
OneWorkspace == {"home"}
HostOf == [w \in OneWorkspace |-> "here"]

RunsAlike == Permutations(Runs)
=============================================================================
