--------------------------- MODULE MCProvisioning ---------------------------
(* Small clusters for TLC.                                                 *)
EXTENDS Provisioning

CONSTANTS p, r

OnlyPrimary == <<p>>
PrimaryAndReplica == <<p, r>>

\* Of a docker cluster nothing is stated once a command was fetched from a list
\* that is still being queued.
OnTime == used["early"] = 0
=============================================================================
