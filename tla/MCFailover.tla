---------------------------- MODULE MCFailover ------------------------------
(* Small clusters for TLC.                                                 *)
EXTENDS Failover, TLC

CONSTANTS n1, n2, n3, s1, r1, r2

MCServedBy == [r \in Requests |-> s1]

\* The replicas are interchangeable: nothing but last_seen orders them.
ReplicaSymmetry == Permutations(Nodes \ {FirstPrimary})

\* Bound: one crash, failed write, fault of etcd or fault of a host; the last
\* with one promotion before or after it. Before a first promotion, a server
\* restarted after a crash may find etcd unreachable.
OneDisturbance ==
  /\ \/ used'["crashes"] + used'["errors"] + used'["etcd"] + used'["faults"] <= 1
     \/ used'["promotions"] + used'["errors"] + used'["faults"] = 0
  /\ used'["faults"] = 0 \/ used'["promotions"] <= 1
=============================================================================
