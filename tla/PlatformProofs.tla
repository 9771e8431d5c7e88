--------------------------- MODULE PlatformProofs ---------------------------
(***************************************************************************)
(* The components of the platform together, for every set of parts: each   *)
(* behaviour of the composition is one of every component's own            *)
(* specification, so what is proved of a component holds in it.            *)
(***************************************************************************)
EXTENDS MCPlatform, FeaturesProofs, NodePoolProofs, ServicesProofs

-----------------------------------------------------------------------------
(* The composition implements its components.                              *)

LEMMA PlatformInit == Init => FeatInit /\ PoolInit /\ LogInit /\ ServInit /\ BackupInit
  BY DEF Init

\* A step of the platform is a step of one component, the others stand still.
LEMMA PlatformStep ==
  [Next]_all => /\ [FeatNext]_featVars /\ [PoolNext]_poolVars /\ [LogNext]_logVars
                /\ [ServNext]_servVars /\ [BackupNext]_backupVars
  <1> SUFFICES ASSUME [Next]_all
               PROVE  /\ [FeatNext]_featVars /\ [PoolNext]_poolVars /\ [LogNext]_logVars
                      /\ [ServNext]_servVars /\ [BackupNext]_backupVars
    OBVIOUS
  <1>1. CASE UNCHANGED all
    <2>1. UNCHANGED <<featVars, poolVars, logVars, servVars, backupVars>>
      BY <1>1 DEF all
    <2> QED
      BY <2>1
  <1>2. CASE Next
    BY <1>2 DEF Next, FeatStep, PoolStep, LogStep, ServingStep, BackupStep
  <1> QED
    BY <1>1, <1>2

\* Every behaviour of the platform is a behaviour of the features of a cluster,
\* of the node pool, of the log pipeline, of the serving process and of the
\* backups.
THEOREM PlatformImplements == Spec => FeatSpec /\ PoolSpec /\ LogSpec /\ ServSpec /\ BackupSpec
  BY PlatformInit, PlatformStep, PTL DEF Spec, FeatSpec, PoolSpec, LogSpec, ServSpec, BackupSpec

-----------------------------------------------------------------------------
(* What holds of the platform.                                             *)

\* The types of every component, whatever the others do.
THEOREM PlatformTypeCorrect == Spec => []PlatformTypeOK
  BY PlatformImplements, FeatTypeCorrect, PoolTypeCorrect, LogTypeCorrect, ServTypeCorrect, BackupTypeCorrect,
     PTL DEF PlatformTypeOK

=============================================================================
