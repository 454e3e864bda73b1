------------------------------- MODULE MCPasses ------------------------------
(* Passes for the CronJob's pod and the API, which has a pool of two. *)
EXTENDS Passes

MCProcesses == {"api", "cron"}
MCSessions == {"api1", "api2", "cron1"}
MCPoolOf == [s \in MCSessions |-> IF s \in {"api1", "api2"} THEN "api" ELSE "cron"]

\* Two requests at once, as POST /sync and the adoption scan allow, and one pod.
MCRuns == {"request1", "request2", "pod"}
MCProcessOf == [r \in MCRuns |-> IF r = "pod" THEN "cron" ELSE "api"]
MCScheduled == {"pod"}
MCKindsOf == [r \in MCRuns |->
                 CASE r = "pod" -> {"pass", "other"}
                   [] r = "request1" -> {"full pass"}
                   [] OTHER -> {"pass"}]

=============================================================================
