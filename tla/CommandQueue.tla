---------------------------- MODULE CommandQueue ----------------------------
(***************************************************************************)
(* What the agent_commands table promises to those who queue commands: the *)
(* agent of a node attempts its commands one at a time and in the order    *)
(* they were queued; a command leaves the queue when the result of an      *)
(* attempt is stored or when all commands of the node are cancelled; an    *)
(* attempt whose result is not stored is made again.  So a command is      *)
(* attempted at least once unless it is cancelled, and none is attempted   *)
(* after a later one.                                                      *)
(***************************************************************************)
EXTENDS Naturals, Sequences

CONSTANTS Consumers,     \* nodes with an agent
          CommandKinds   \* actions of commands

VARIABLES pending,  \* per node, the commands queued, oldest first
          attempt   \* per node: none, head (of the oldest) or orphan (of a
                    \* command cancelled meanwhile)

queueVars == <<pending, attempt>>

QueueInit ==
    /\ pending = [n \in Consumers |-> <<>>]
    /\ attempt = [n \in Consumers |-> "none"]

\* One request queues commands for some nodes, after what is there.
Enqueue ==
    /\ pending' \in [Consumers -> Seq(CommandKinds)]
    /\ \A n \in Consumers : /\ Len(pending[n]) <= Len(pending'[n])
                            /\ SubSeq(pending'[n], 1, Len(pending[n])) = pending[n]
    /\ UNCHANGED attempt

Attempt(n) ==
    /\ attempt[n] = "none" /\ pending[n] # <<>>
    /\ attempt' = [attempt EXCEPT ![n] = "head"]
    /\ UNCHANGED pending

StoreResult(n) ==
    /\ attempt[n] = "head"
    /\ pending' = [pending EXCEPT ![n] = Tail(@)]
    /\ attempt' = [attempt EXCEPT ![n] = "none"]

\* The result is lost, or belongs to a cancelled command.
Forget(n) ==
    /\ attempt[n] # "none"
    /\ attempt' = [attempt EXCEPT ![n] = "none"]
    /\ UNCHANGED pending

Cancel(ns) ==
    /\ pending' = [n \in Consumers |-> IF n \in ns THEN <<>> ELSE pending[n]]
    /\ attempt' = [n \in Consumers |-> IF n \in ns /\ attempt[n] = "head" THEN "orphan"
                                       ELSE attempt[n]]

QueueNext ==
    \/ Enqueue
    \/ \E n \in Consumers : Attempt(n) \/ StoreResult(n) \/ Forget(n)
    \/ \E ns \in SUBSET Consumers : Cancel(ns)

QueueSpec == QueueInit /\ [][QueueNext]_queueVars
=============================================================================
