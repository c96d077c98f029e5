--------------------------- MODULE MCBenchmarkRun ---------------------------
(***************************************************************************)
(* Small instances of the BenchmarkRun reconciler for TLC.                 *)
(***************************************************************************)
EXTENDS BenchmarkRun

\* The operator treats every server role alike (a pod and a service), so two
\* of the three show every order of creation, start and failure of a pair.
TwoServers == <<"submission", "fairness-gateway">>

\* Enough where the servers play no part in the property.
OneServer == <<"submission">>

\* The user created everything the run names, and it is ready.
RefsReady == {[sub |-> "READY", scn |-> "hashed", swarm |-> "present"]}

\* Nothing the run names exists yet.
RefsAbsent == {[sub |-> "absent", scn |-> "absent", swarm |-> "absent"]}

=============================================================================
