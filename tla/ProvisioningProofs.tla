-------------------------- MODULE ProvisioningProofs --------------------------
(***************************************************************************)
(* What is proved of Provisioning: the rows and the programs stay well     *)
(* typed, whatever the constants are; a failed docker provisioning leaves  *)
(* nothing to do; a cluster of docker nodes, or of one native node, is     *)
(* shown as running only when all its commands are done.                   *)
(***************************************************************************)
EXTENDS Provisioning, SequenceTheorems, TLAPS

-----------------------------------------------------------------------------
(* Types.                                                                  *)

Commands == [action : Actions, st : Statuses]
Beats == [state : InstallStates, running : BOOLEAN]
Handlers == [at : Steps, todo : Seq(Actions), next : ClusterStates]
Resolvers == [at : {"idle", "install", "abort", "queue", "stop"}, todo : Seq(Actions)]

RowType ==
  /\ cluster \in ClusterStates
  /\ inst \in [Nodes -> InstallStates]
  /\ status \in [Nodes -> {"online", "offline"}]

CmdType == cmds \in [Nodes -> Seq(Commands)]

HostType ==
  /\ pg \in [Nodes -> HostStates]
  /\ replUser \in BOOLEAN
  /\ agent \in [Nodes -> InstallStates]
  /\ beat \in [Nodes -> Beats \cup {None}]

JobType ==
  /\ job \in [Nodes -> Jobs]
  /\ \A n \in Nodes : job[n].at # "idle" => job[n].cmd \in DOMAIN cmds[n]

\* There is a command to queue exactly while a program is queueing.
CreatorType ==
  /\ creator \in [k : Nat, todo : Seq(Actions)]
  /\ creator.k # 0
  /\ Creating => creator.todo # <<>>

HandlerType ==
  /\ handler \in [Nodes -> Handlers]
  /\ \A n \in Nodes : /\ handler[n].at = "queue" <=> handler[n].todo # <<>>
                      /\ handler[n].at # "idle" <=> job[n].at = "wait"

ResolverType ==
  /\ resolver \in [Nodes -> Resolvers]
  /\ \A n \in Nodes : resolver[n].at \in {"install", "queue"} <=> resolver[n].todo # <<>>

UsedType == used \in [BoundNames -> Nat]

\* What has gone another way than planned.
Marks == {"aborts", "unmarked", "early", "outdated"}
SameMarks == \A b \in Marks : used'[b] = used[b]

TypeInv == /\ RowType /\ CmdType /\ HostType /\ JobType
           /\ CreatorType /\ HandlerType /\ ResolverType /\ UsedType

-----------------------------------------------------------------------------
(* The lists of commands.                                                  *)

LastCommand(n) == IF n = Primary THEN "pg_create_repl_user" ELSE "pg_start"

\* A list is empty when its length says so.
LEMMA NonEmpty ==
  ASSUME NEW S, NEW s \in Seq(S)
  PROVE  /\ Len(s) \in Nat /\ DOMAIN s = 1..Len(s) /\ s # <<>> <=> Len(s) >= 1
         /\ s # <<>> => /\ Head(s) = s[1] /\ Head(s) \in S /\ Tail(s) \in Seq(S)
                        /\ Len(Tail(s)) = Len(s) - 1
                        /\ \A i \in 1..Len(Tail(s)) : Tail(s)[i] = s[i+1]
  <1>1. Len(s) \in Nat /\ DOMAIN s = 1..Len(s) /\ Len(<<>>) = 0
    BY LenProperties
  <1>2. s # <<>> => Len(s) >= 1
    BY EmptySeq
  <1>3. s # <<>> => Head(s) = s[1]
    OBVIOUS
  <1> QED
    BY <1>1, <1>2, <1>3, HeadTailProperties

\* What is left of a list: nothing of a list of one, otherwise its end.
LEMMA TailKeepsLast ==
  ASSUME NEW S, NEW s \in Seq(S), s # <<>>
  PROVE  /\ Head(s) \in S /\ Tail(s) \in Seq(S) /\ Len(s) \in Nat
         /\ Tail(s) # <<>> <=> Len(s) > 1
         /\ Tail(s) # <<>> => Tail(s)[Len(Tail(s))] = s[Len(s)]
         /\ \A P : (\A i \in 1..Len(s) : s[i] # P) => \A i \in 1..Len(Tail(s)) : Tail(s)[i] # P
  <1> DEFINE l == Len(s)
  <1> DEFINE t == Tail(s)
  <1> DEFINE k == Len(t)
  <1>1. /\ Head(s) \in S /\ t \in Seq(S) /\ l \in Nat /\ l >= 1 /\ k = l - 1
        /\ \A i \in 1..k : t[i] = s[i+1]
    BY NonEmpty
  <1>2. t # <<>> <=> k >= 1
    <2> HIDE DEF t
    <2> QED
      BY <1>1, NonEmpty
  <1> HIDE DEF l, t, k
  <1>3. t # <<>> <=> l > 1
    BY <1>1, <1>2
  <1>4. t # <<>> => t[k] = s[l]
    <2>1. ASSUME k >= 1 PROVE k \in 1..k /\ k + 1 = l
      BY <1>1, <2>1
    <2> QED
      BY <1>1, <1>2, <2>1
  <1>5. \A P : (\A i \in 1..l : s[i] # P) => \A i \in 1..k : t[i] # P
    <2>1. ASSUME NEW i \in 1..k PROVE i + 1 \in 1..l
      BY <1>1
    <2> QED
      BY <1>1, <2>1
  <1> QED
    BY <1>1, <1>3, <1>4, <1>5 DEF l, t, k

\* One command before the three of a role.
LEMMA OneBefore ==
  ASSUME NEW a \in Actions, NEW s \in Seq(Actions), Len(s) = 3
  PROVE  LET t == <<a>> \o s IN
         /\ t \in Seq(Actions) /\ Len(t) = 4 /\ t[1] = a /\ t[4] = s[3]
         /\ \A i \in 1..4 : i # 1 => t[i] = s[i-1]
  <1>1. <<a>> \in Seq(Actions) /\ Len(<<a>>) = 1 /\ <<a>>[1] = a
    OBVIOUS
  <1> DEFINE t == <<a>> \o s
  <1>2. /\ t \in Seq(Actions) /\ Len(t) = Len(<<a>>) + Len(s)
        /\ \A i \in 1..Len(<<a>>) + Len(s) :
             t[i] = IF i <= Len(<<a>>) THEN <<a>>[i] ELSE s[i - Len(<<a>>)]
    BY <1>1, ConcatProperties
  <1>3. Len(<<a>>) + Len(s) = 4
    BY <1>1
  <1>4. /\ t \in Seq(Actions) /\ Len(t) = 4
        /\ \A i \in 1..4 : t[i] = IF i <= 1 THEN <<a>>[i] ELSE s[i - 1]
    BY <1>1, <1>2, <1>3
  <1> QED
    BY <1>1, <1>4

\* The commands of a role are three, the last one tells the role, and none of
\* them looks at the host first.
LEMMA RoleCommandsType ==
  ASSUME NEW n
  PROVE  /\ RoleCommands(n) \in Seq(Actions) /\ Len(RoleCommands(n)) = 3
         /\ RoleCommands(n)[3] = LastCommand(n)
         /\ RoleCommands(n)[1] \in {"pg_init", "pg_basebackup"}
         /\ \A i \in 1..3 : RoleCommands(n)[i] # "pg_preflight"
  <1>1. CASE n = Primary
    BY <1>1 DEF RoleCommands, primaryCommands, LastCommand, Actions
  <1>2. CASE n # Primary
    BY <1>2 DEF RoleCommands, replicaCommands, LastCommand, Actions
  <1> QED
    BY <1>1, <1>2

\* What CreateCluster queues is never empty; with docker it ends with the last
\* command of the role and does not look at the host.
LEMMA CreateCommandsType ==
  ASSUME NEW n
  PROVE  /\ CreateCommands(n) \in Seq(Actions) /\ CreateCommands(n) # <<>>
         /\ Location = "native" => CreateCommands(n) = <<"pg_preflight">>
         /\ Location = "docker" =>
              /\ Len(CreateCommands(n)) = 4
              /\ CreateCommands(n)[4] = LastCommand(n)
              /\ \A i \in 1..4 : CreateCommands(n)[i] # "pg_preflight"
  <1>1. "pg_install_docker" \in Actions /\ "pg_preflight" \in Actions
    BY DEF Actions
  <1>2. CASE Location = "native"
    BY <1>1, <1>2 DEF CreateCommands
  <1>3. CASE Location # "native"
    <2>1. CreateCommands(n) = <<"pg_install_docker">> \o RoleCommands(n)
      BY <1>3 DEF CreateCommands
    <2>2. /\ CreateCommands(n) \in Seq(Actions) /\ Len(CreateCommands(n)) = 4
          /\ CreateCommands(n)[1] = "pg_install_docker"
          /\ CreateCommands(n)[4] = RoleCommands(n)[3]
          /\ \A i \in 1..4 : i # 1 => CreateCommands(n)[i] = RoleCommands(n)[i-1]
      BY <1>1, <2>1, OneBefore, RoleCommandsType
    <2>3. CreateCommands(n) # <<>>
      BY <2>2, NonEmpty
    <2>4. ASSUME NEW i \in 1..4 PROVE CreateCommands(n)[i] # "pg_preflight"
      BY <2>2, RoleCommandsType
    <2> QED
      BY <1>3, <2>2, <2>3, <2>4, RoleCommandsType
  <1> QED
    BY <1>2, <1>3

\* A preflight is continued with the installation or with the role's commands.
LEMMA ContinuationType ==
  ASSUME NEW n
  PROVE  /\ Continuation(n) \in Seq(Actions) /\ Len(Continuation(n)) \in {3, 4}
         /\ Continuation(n) # <<>>
         /\ Continuation(n)[Len(Continuation(n))] = LastCommand(n)
         /\ Continuation(n)[1] \in {"pg_install_native", "pg_init", "pg_basebackup"}
         /\ \A i \in 1..Len(Continuation(n)) : Continuation(n)[i] # "pg_preflight"
  <1>1. "pg_install_native" \in Actions
    BY DEF Actions
  <1>2. CASE n \in StaleInstalled
    <2>1. Continuation(n) = RoleCommands(n)
      BY <1>2, RoleCommandsType, ConcatEmptySeq DEF Continuation
    <2> QED
      BY <2>1, RoleCommandsType
  <1>3. CASE n \notin StaleInstalled
    <2>1. Continuation(n) = <<"pg_install_native">> \o RoleCommands(n)
      BY <1>3 DEF Continuation
    <2>2. /\ Continuation(n) \in Seq(Actions) /\ Len(Continuation(n)) = 4
          /\ Continuation(n)[1] = "pg_install_native"
          /\ Continuation(n)[4] = RoleCommands(n)[3]
          /\ \A i \in 1..4 : i # 1 => Continuation(n)[i] = RoleCommands(n)[i-1]
      BY <1>1, <2>1, OneBefore, RoleCommandsType
    <2>3. Continuation(n) # <<>>
      <3>1. Continuation(n) \in Seq(Actions) /\ Len(Continuation(n)) >= 1
        BY <2>2
      <3> QED
        BY <3>1, NonEmpty
    <2>4. ASSUME NEW i \in 1..4 PROVE Continuation(n)[i] # "pg_preflight"
      BY <2>2, RoleCommandsType
    <2> QED
      BY <2>2, <2>3, <2>4, RoleCommandsType
  <1> QED
    BY <1>2, <1>3

\* A resolution begins with what it was chosen for; on the primary it ends
\* with the replication user.
LEMMA ResolveCommandsType ==
  ASSUME NEW n, NEW choice \in {"ADOPT", "PURGE", "ABORT"}
  PROVE  LET t == ResolveCommands(n, choice) IN
         /\ t \in Seq(Actions)
         /\ t = <<>> <=> choice = "ABORT"
         /\ t # <<>> => /\ Head(t) \in {"pg_purge_native", "pg_adopt_native"}
                        /\ n = Primary => t[Len(t)] = "pg_create_repl_user"
                        /\ \A i \in 1..Len(t) : t[i] # "pg_preflight"
  <1>1. {"pg_purge_native", "pg_adopt_native", "pg_install_native", "pg_create_repl_user"} \subseteq Actions
    BY DEF Actions
  <1> DEFINE t == ResolveCommands(n, choice)
  <1>2. CASE choice = "PURGE"
    <2> DEFINE two == <<"pg_purge_native", "pg_install_native">>
    <2> DEFINE three == RoleCommands(n)
    <2>1. t = two \o three
      BY <1>2 DEF ResolveCommands
    <2>2. two \in Seq(Actions) /\ Len(two) = 2 /\ three \in Seq(Actions) /\ Len(three) = 3
      BY <1>1, RoleCommandsType
    <2>3. /\ two \o three \in Seq(Actions) /\ Len(two \o three) = Len(two) + Len(three)
          /\ \A i \in 1..Len(two) + Len(three) :
               (two \o three)[i] = IF i <= Len(two) THEN two[i] ELSE three[i - Len(two)]
      <3> HIDE DEF two, three
      <3> QED
        BY <2>2, ConcatProperties
    <2>4. Len(two) + Len(three) = 5
      BY <2>2
    <2>5. /\ t \in Seq(Actions) /\ Len(t) = 5
          /\ \A i \in 1..5 : t[i] = IF i <= 2 THEN two[i] ELSE three[i - 2]
      <3> HIDE DEF two, three, t
      <3> QED
        BY <2>1, <2>2, <2>3, <2>4
    <2>6. t[1] = "pg_purge_native" /\ t[5] = LastCommand(n) /\ t # <<>> /\ Head(t) = t[1]
      <3>1. Len(<<>>) = 0
        OBVIOUS
      <3> QED
        BY <2>5, <3>1, RoleCommandsType
    <2>7. ASSUME NEW i \in 1..5 PROVE t[i] # "pg_preflight"
      BY <2>5, RoleCommandsType
    <2> QED
      BY <1>2, <2>5, <2>6, <2>7 DEF LastCommand
  <1>3. CASE choice = "ADOPT" /\ inst[n] # "conflict_data"
    <2>1. t = <<"pg_adopt_native">> \o RoleCommands(n)
      BY <1>3 DEF ResolveCommands
    <2>2. /\ t \in Seq(Actions) /\ Len(t) = 4 /\ t[1] = "pg_adopt_native" /\ t[4] = RoleCommands(n)[3]
          /\ \A i \in 1..4 : i # 1 => t[i] = RoleCommands(n)[i-1]
      BY <1>1, <2>1, OneBefore, RoleCommandsType
    <2>3. t # <<>> /\ Head(t) = t[1]
      <3>1. t \in Seq(Actions) /\ Len(t) >= 1
        BY <2>2
      <3> HIDE DEF t
      <3> QED
        BY <3>1, NonEmpty
    <2>4. ASSUME NEW i \in 1..4 PROVE t[i] # "pg_preflight"
      BY <2>2, RoleCommandsType
    <2> QED
      BY <1>3, <2>2, <2>3, <2>4, RoleCommandsType DEF LastCommand
  <1>4. CASE choice = "ADOPT" /\ inst[n] = "conflict_data"
    <2>1. CASE n = Primary
      <3>1. t = <<"pg_adopt_native">> \o <<"pg_create_repl_user">>
        BY <1>4, <2>1 DEF ResolveCommands
      <3>2. <<"pg_adopt_native">> \in Seq(Actions) /\ <<"pg_create_repl_user">> \in Seq(Actions)
        BY <1>1
      <3>3. /\ t \in Seq(Actions) /\ Len(t) = 2
            /\ \A i \in 1..2 : t[i] = IF i <= 1 THEN <<"pg_adopt_native">>[i]
                                                ELSE <<"pg_create_repl_user">>[i - 1]
        BY <3>1, <3>2, ConcatProperties
      <3>4. t # <<>> /\ Head(t) = t[1] /\ t[1] = "pg_adopt_native" /\ t[2] = "pg_create_repl_user"
        BY <3>3
      <3> QED
        BY <1>4, <3>3, <3>4
    <2>2. CASE n # Primary
      <3>1. t = <<"pg_adopt_native">> \o <<>>
        BY <1>4, <2>2 DEF ResolveCommands
      <3>2. t = <<"pg_adopt_native">> /\ t \in Seq(Actions)
        BY <1>1, <3>1, ConcatEmptySeq
      <3>3. Head(t) = "pg_adopt_native" /\ Len(t) = 1 /\ t[1] = "pg_adopt_native" /\ t # <<>>
        BY <3>2
      <3> QED
        BY <1>4, <2>2, <3>2, <3>3
    <2> QED
      BY <2>1, <2>2
  <1>5. CASE choice = "ABORT"
    <2>1. t = <<>>
      BY <1>5 DEF ResolveCommands
    <2>2. t \in Seq(Actions)
      BY <2>1
    <2> QED
      BY <1>5, <2>1, <2>2
  <1> QED
    BY <1>2, <1>3, <1>4, <1>5

-----------------------------------------------------------------------------
(* What the statements on agent_commands do.                               *)

\* The rows a state has stay where they are and keep their action.
RowsKept == \A m \in Nodes : /\ DOMAIN cmds[m] \subseteq DOMAIN cmds'[m]
                             /\ \A i \in DOMAIN cmds[m] : cmds'[m][i].action = cmds[m][i].action

\* An INSERT: one row more, the last of its node, pending.
LEMMA InsertEffect ==
  ASSUME CmdType, NEW n \in Nodes, NEW a \in Actions, Insert(n, a)
  PROVE  /\ CmdType' /\ RowsKept
         /\ \A m \in Nodes : m # n => cmds'[m] = cmds[m]
         /\ Len(cmds'[n]) = Len(cmds[n]) + 1
         /\ \A i \in 1..Len(cmds[n]) : cmds'[n][i] = cmds[n][i]
         /\ cmds'[n][Len(cmds[n]) + 1] = [action |-> a, st |-> "pending"]
  <1> DEFINE c == [action |-> a, st |-> "pending"]
  <1>1. c \in Commands
    BY DEF Commands, Statuses
  <1>2. cmds[n] \in Seq(Commands) /\ cmds' = [cmds EXCEPT ![n] = Append(cmds[n], c)]
    BY DEF CmdType, Insert
  <1> HIDE DEF c
  <1>3. /\ Append(cmds[n], c) \in Seq(Commands) /\ Len(Append(cmds[n], c)) = Len(cmds[n]) + 1
        /\ \A i \in 1..Len(cmds[n]) : Append(cmds[n], c)[i] = cmds[n][i]
        /\ Append(cmds[n], c)[Len(cmds[n]) + 1] = c
    BY <1>1, <1>2
  <1>4. cmds'[n] = Append(cmds[n], c) /\ \A m \in Nodes : m # n => cmds'[m] = cmds[m]
    BY <1>2 DEF CmdType
  <1>5. CmdType'
    BY <1>2, <1>3 DEF CmdType
  <1>6. DOMAIN cmds[n] = 1..Len(cmds[n]) /\ DOMAIN cmds'[n] = 1..Len(cmds'[n]) /\ Len(cmds[n]) \in Nat
    BY <1>2, <1>3, <1>4
  <1>7. ASSUME NEW m \in Nodes
        PROVE  /\ DOMAIN cmds[m] \subseteq DOMAIN cmds'[m]
               /\ \A i \in DOMAIN cmds[m] : cmds'[m][i].action = cmds[m][i].action
    <2>1. CASE m = n
      BY <1>3, <1>4, <1>6, <2>1
    <2>2. CASE m # n
      BY <1>4, <2>2
    <2> QED
      BY <2>1, <2>2
  <1> QED
    BY <1>3, <1>4, <1>5, <1>7 DEF c, RowsKept

LEMMA CmdOf ==
  ASSUME CmdType, NEW n \in Nodes, NEW i \in DOMAIN cmds[n]
  PROVE  cmds[n] \in Seq(Commands) /\ cmds[n][i] \in Commands
  <1>1. cmds[n] \in Seq(Commands)
    BY DEF CmdType
  <1> QED
    BY <1>1

\* A result stored: one row of the node changes its status.
LEMMA ResultEffect ==
  ASSUME CmdType, NEW n \in Nodes, NEW i \in DOMAIN cmds[n], NEW v \in Statuses,
         cmds' = [cmds EXCEPT ![n][i].st = v]
  PROVE  /\ CmdType' /\ RowsKept
         /\ \A m \in Nodes : m # n => cmds'[m] = cmds[m]
         /\ Len(cmds'[n]) = Len(cmds[n])
         /\ \A j \in 1..Len(cmds[n]) : j # i => cmds'[n][j] = cmds[n][j]
         /\ cmds'[n][i].st = v /\ cmds'[n][i].action = cmds[n][i].action
  <1> DEFINE c == [cmds[n][i] EXCEPT !.st = v]
  <1>1. cmds[n] \in Seq(Commands) /\ cmds' = [cmds EXCEPT ![n] = [cmds[n] EXCEPT ![i] = c]]
    BY DEF CmdType
  <1>2. DOMAIN cmds[n] = 1..Len(cmds[n]) /\ i \in 1..Len(cmds[n]) /\ cmds[n][i] \in Commands
    BY <1>1
  <1>3. c \in Commands /\ c.st = v /\ c.action = cmds[n][i].action
    BY <1>2 DEF Commands
  <1> HIDE DEF c
  <1>4. /\ [cmds[n] EXCEPT ![i] = c] \in Seq(Commands)
        /\ Len([cmds[n] EXCEPT ![i] = c]) = Len(cmds[n])
        /\ \A j \in 1..Len(cmds[n]) : [cmds[n] EXCEPT ![i] = c][j] = IF j = i THEN c ELSE cmds[n][j]
    BY <1>1, <1>2, <1>3, ExceptSeq
  <1>5. cmds'[n] = [cmds[n] EXCEPT ![i] = c] /\ \A m \in Nodes : m # n => cmds'[m] = cmds[m]
    BY <1>1 DEF CmdType
  <1>6. CmdType'
    BY <1>1, <1>4 DEF CmdType
  <1>7. DOMAIN cmds'[n] = 1..Len(cmds'[n])
    BY <1>4, <1>5
  <1>8. ASSUME NEW m \in Nodes
        PROVE  /\ DOMAIN cmds[m] \subseteq DOMAIN cmds'[m]
               /\ \A j \in DOMAIN cmds[m] : cmds'[m][j].action = cmds[m][j].action
    <2>1. CASE m = n
      BY <1>2, <1>3, <1>4, <1>5, <1>7, <2>1
    <2>2. CASE m # n
      BY <1>5, <2>2
    <2> QED
      BY <2>1, <2>2
  <1> QED
    BY <1>2, <1>3, <1>4, <1>5, <1>6, <1>8 DEF RowsKept

\* MarkPendingFailedByNodeIDs: the pending rows, and no others, become failed.
LEMMA CancelEffect ==
  ASSUME CmdType,
         cmds' = [m \in Nodes |-> [i \in DOMAIN cmds[m] |->
                   [cmds[m][i] EXCEPT !.st = IF @ = "pending" THEN "failed" ELSE @]]]
  PROVE  /\ CmdType' /\ RowsKept
         /\ \A m \in Nodes :
              /\ Len(cmds'[m]) = Len(cmds[m]) /\ DOMAIN cmds'[m] = DOMAIN cmds[m]
              /\ \A i \in DOMAIN cmds[m] :
                   /\ cmds'[m][i].st = IF cmds[m][i].st = "pending" THEN "failed" ELSE cmds[m][i].st
                   /\ cmds'[m][i].action = cmds[m][i].action
  <1> DEFINE row(m, i) == [cmds[m][i] EXCEPT !.st = IF @ = "pending" THEN "failed" ELSE @]
  <1>1. cmds' = [m \in Nodes |-> [i \in DOMAIN cmds[m] |-> row(m, i)]]
    OBVIOUS
  <1>2. ASSUME NEW m \in Nodes
        PROVE  /\ cmds'[m] \in Seq(Commands) /\ Len(cmds'[m]) = Len(cmds[m])
               /\ DOMAIN cmds'[m] = DOMAIN cmds[m]
               /\ \A i \in DOMAIN cmds[m] :
                    /\ cmds'[m][i].st = IF cmds[m][i].st = "pending" THEN "failed" ELSE cmds[m][i].st
                    /\ cmds'[m][i].action = cmds[m][i].action
    <2>1. cmds[m] \in Seq(Commands) /\ DOMAIN cmds[m] = 1..Len(cmds[m]) /\ Len(cmds[m]) \in Nat
      BY DEF CmdType
    <2>2. ASSUME NEW i \in DOMAIN cmds[m]
          PROVE  /\ row(m, i) \in Commands /\ row(m, i).action = cmds[m][i].action
                 /\ row(m, i).st = IF cmds[m][i].st = "pending" THEN "failed" ELSE cmds[m][i].st
      <3>1. cmds[m][i] \in Commands
        BY <2>1
      <3> QED
        BY <3>1 DEF Commands, Statuses
    <2>3. cmds'[m] = [i \in 1..Len(cmds[m]) |-> row(m, i)]
      BY <1>1, <2>1
    <2> HIDE DEF row
    <2>4. cmds'[m] \in Seq(Commands)
      <3>1. \A i \in 1..Len(cmds[m]) : row(m, i) \in Commands
        BY <2>1, <2>2
      <3> QED
        BY ONLY <2>1, <2>3, <3>1, IsASeq
    <2>5. Len(cmds'[m]) = Len(cmds[m]) /\ DOMAIN cmds'[m] = DOMAIN cmds[m]
      BY <2>1, <2>3, <2>4
    <2>6. \A i \in DOMAIN cmds[m] : cmds'[m][i] = row(m, i)
      BY <2>1, <2>3
    <2> QED
      BY <2>2, <2>4, <2>5, <2>6
  <1>3. cmds' \in [Nodes -> Seq(Commands)]
    BY <1>1, <1>2
  <1> QED
    BY <1>2, <1>3 DEF CmdType, RowsKept

-----------------------------------------------------------------------------
(* Type correctness.                                                       *)

LEMMA InitType == Init => TypeInv
  <1> SUFFICES ASSUME Init PROVE TypeInv
    OBVIOUS
  <1>1. RowType
    BY DEF Init, RowType, ClusterStates, InstallStates
  <1>2. CmdType
    BY DEF Init, CmdType
  <1>3. HostType
    BY ProvisioningAssumption DEF Init, HostType
  <1>4. JobType
    BY DEF Init, JobType, NoJob, Jobs, HostStates
  <1>5. CreatorType
    BY CreateCommandsType DEF Init, CreatorType
  <1>6. HandlerType
    BY DEF Init, HandlerType, NoHandler, NoJob, Handlers, Steps, ClusterStates
  <1>7. ResolverType
    BY DEF Init, ResolverType, NoResolver, Resolvers
  <1>8. UsedType
    BY DEF Init, UsedType
  <1> QED
    BY <1>1, <1>2, <1>3, <1>4, <1>5, <1>6, <1>7, <1>8 DEF TypeInv

LEMMA UseType ==
  ASSUME UsedType, NEW b \in BoundNames, Use(b)
  PROVE  UsedType' /\ used'[b] = used[b] + 1 /\ \A c \in BoundNames : c # b => used'[c] = used[c]
  BY DEF UsedType, Use

LEMMA NoteType ==
  ASSUME UsedType, NEW b \in BoundNames, NEW met, Note(b, met)
  PROVE  /\ UsedType' /\ \A c \in BoundNames : c # b => used'[c] = used[c]
         /\ used'[b] = 0 => used[b] = 0 /\ ~met
  BY DEF UsedType, Note

\* Rows are never taken from an agent that works on one.
LEMMA JobsKept ==
  ASSUME JobType, job' = job, RowsKept \/ cmds' = cmds
  PROVE  JobType'
  BY DEF JobType, RowsKept

LEMMA JobPut ==
  ASSUME JobType, RowsKept \/ cmds' = cmds, NEW n \in Nodes, NEW x \in Jobs,
         job' = [job EXCEPT ![n] = x], x.at # "idle" => x.cmd \in DOMAIN cmds[n]
  PROVE  JobType' /\ job'[n] = x /\ \A m \in Nodes : m # n => job'[m] = job[m]
  <1>1. job' \in [Nodes -> Jobs] /\ job'[n] = x /\ \A m \in Nodes : m # n => job'[m] = job[m]
    BY DEF JobType
  <1>2. ASSUME NEW m \in Nodes, job'[m].at # "idle" PROVE job'[m].cmd \in DOMAIN cmds'[m]
    <2>1. CASE m = n
      BY <1>1, <1>2, <2>1 DEF RowsKept
    <2>2. CASE m # n
      BY <1>1, <1>2, <2>2 DEF RowsKept, JobType
    <2> QED
      BY <2>1, <2>2
  <1> QED
    BY <1>1, <1>2 DEF JobType

LEMMA HandlersKept ==
  ASSUME HandlerType, handler' = handler, \A m \in Nodes : job'[m].at = "wait" <=> job[m].at = "wait"
  PROVE  HandlerType'
  BY DEF HandlerType

LEMMA HandlerPut ==
  ASSUME HandlerType, NEW n \in Nodes, NEW h \in Handlers, handler' = [handler EXCEPT ![n] = h],
         h.at = "queue" <=> h.todo # <<>>,
         \A m \in Nodes : m # n => job'[m] = job[m],
         h.at # "idle" <=> job'[n].at = "wait"
  PROVE  HandlerType' /\ handler'[n] = h /\ \A m \in Nodes : m # n => handler'[m] = handler[m]
  <1>1. handler' \in [Nodes -> Handlers] /\ handler'[n] = h
    BY DEF HandlerType
  <1>2. \A m \in Nodes : m # n => handler'[m] = handler[m]
    BY DEF HandlerType
  <1>3. ASSUME NEW m \in Nodes
        PROVE  /\ handler'[m].at = "queue" <=> handler'[m].todo # <<>>
               /\ handler'[m].at # "idle" <=> job'[m].at = "wait"
    <2>1. CASE m = n
      BY <1>1, <2>1
    <2>2. CASE m # n
      BY <1>2, <2>2 DEF HandlerType
    <2> QED
      BY <2>1, <2>2
  <1> QED
    BY <1>1, <1>2, <1>3 DEF HandlerType

\* A handler goes on, and nothing else happens to it.
LEMMA GotoEffect ==
  ASSUME HandlerType, JobType, NEW n \in Nodes, NEW at \in Steps \ {"idle", "queue"},
         handler[n].at \in Steps \ {"idle", "queue"}, GotoStep(n, at)
  PROVE  /\ HandlerType' /\ job' = job
         /\ handler'[n].at = at /\ handler'[n].todo = <<>> /\ handler'[n].next = handler[n].next
         /\ \A m \in Nodes : m # n => handler'[m] = handler[m]
  <1> DEFINE h == [handler[n] EXCEPT !.at = at]
  <1>1. handler' = [handler EXCEPT ![n] = h] /\ job' = job
    BY DEF GotoStep
  <1>2. handler[n] \in Handlers /\ handler[n].todo = <<>> /\ job[n].at = "wait"
    BY DEF HandlerType
  <1>3. h \in Handlers /\ h.at = at /\ h.todo = <<>> /\ h.next = handler[n].next
    BY <1>2 DEF Handlers
  <1> HIDE DEF h
  <1> QED
    BY <1>1, <1>2, <1>3, HandlerPut

LEMMA DecideEffect ==
  ASSUME HandlerType, JobType, NEW n \in Nodes, NEW at \in Steps \ {"idle", "queue"},
         NEW next \in ClusterStates,
         handler[n].at \in Steps \ {"idle", "queue"}, Decide(n, next, at)
  PROVE  /\ HandlerType' /\ job' = job
         /\ handler'[n].at = at /\ handler'[n].todo = <<>> /\ handler'[n].next = next
         /\ \A m \in Nodes : m # n => handler'[m] = handler[m]
  <1> DEFINE h == [handler[n] EXCEPT !.at = at, !.next = next]
  <1>1. handler' = [handler EXCEPT ![n] = h] /\ job' = job
    BY DEF Decide
  <1>2. handler[n] \in Handlers /\ handler[n].todo = <<>> /\ job[n].at = "wait"
    BY DEF HandlerType
  <1>3. h \in Handlers /\ h.at = at /\ h.todo = <<>> /\ h.next = next
    BY <1>2 DEF Handlers
  <1> HIDE DEF h
  <1> QED
    BY <1>1, <1>2, <1>3, HandlerPut

\* The handler answers the agent, which is free for its next command.
LEMMA ReturnEffect ==
  ASSUME HandlerType, JobType, NEW n \in Nodes, RowsKept \/ cmds' = cmds, Return(n)
  PROVE  /\ HandlerType' /\ JobType'
         /\ handler'[n] = NoHandler /\ job'[n] = NoJob
         /\ \A m \in Nodes : m # n => handler'[m] = handler[m] /\ job'[m] = job[m]
  <1>1. handler' = [handler EXCEPT ![n] = NoHandler] /\ job' = [job EXCEPT ![n] = NoJob]
    BY DEF Return
  <1>2. NoJob \in Jobs /\ NoJob.at = "idle"
    BY DEF NoJob, Jobs, HostStates
  <1>3. NoHandler \in Handlers /\ NoHandler.at = "idle" /\ NoHandler.todo = <<>>
    BY DEF NoHandler, Handlers, Steps, ClusterStates
  <1> HIDE DEF NoJob, NoHandler
  <1>4. JobType' /\ job'[n] = NoJob /\ \A m \in Nodes : m # n => job'[m] = job[m]
    BY <1>1, <1>2, JobPut
  <1>5. HandlerType' /\ handler'[n] = NoHandler /\ \A m \in Nodes : m # n => handler'[m] = handler[m]
    BY <1>1, <1>2, <1>3, <1>4, HandlerPut
  <1> QED
    BY <1>4, <1>5

LEMMA ResolverPut ==
  ASSUME ResolverType, NEW n \in Nodes, NEW x \in Resolvers, resolver' = [resolver EXCEPT ![n] = x],
         x.at \in {"install", "queue"} <=> x.todo # <<>>
  PROVE  ResolverType' /\ resolver'[n] = x /\ \A m \in Nodes : m # n => resolver'[m] = resolver[m]
  <1>1. /\ resolver' \in [Nodes -> Resolvers] /\ resolver'[n] = x
        /\ \A m \in Nodes : m # n => resolver'[m] = resolver[m]
    BY DEF ResolverType
  <1>2. ASSUME NEW m \in Nodes PROVE resolver'[m].at \in {"install", "queue"} <=> resolver'[m].todo # <<>>
    <2>1. CASE m = n
      BY <1>1, <2>1
    <2>2. CASE m # n
      BY <1>1, <2>2 DEF ResolverType
    <2> QED
      BY <2>1, <2>2
  <1> QED
    BY <1>1, <1>2 DEF ResolverType

-----------------------------------------------------------------------------
(* What each action does, node by node; with it the types are kept.        *)

\* Everything that no step of this kind writes.
SameHosts == pg' = pg /\ replUser' = replUser /\ agent' = agent /\ beat' = beat
SameRows == cluster' = cluster /\ inst' = inst /\ status' = status

LEMMA SameHostsType == ASSUME HostType, SameHosts PROVE HostType'
  BY DEF HostType, SameHosts

LEMMA SameRowsType == ASSUME RowType, SameRows PROVE RowType'
  BY DEF RowType, SameRows

\* CreateCluster queues one command; the creator goes on with the rest of its
\* list, or with the list of the next node.
LEMMA QueueCommandEffect ==
  ASSUME TypeInv, QueueCommand
  PROVE  /\ TypeInv' /\ Creating /\ Order[creator.k] \in Nodes /\ creator.todo # <<>>
         /\ Head(creator.todo) \in Actions /\ Insert(Order[creator.k], Head(creator.todo))
         /\ SameRows /\ SameHosts /\ UNCHANGED <<job, handler, resolver, used>>
         /\ \/ /\ Len(creator.todo) > 1 /\ creator'.k = creator.k /\ creator'.todo = Tail(creator.todo)
            \/ /\ Len(creator.todo) = 1 /\ creator'.k = creator.k + 1
               /\ creator.k < Len(Order) => creator'.todo = CreateCommands(Order[creator.k + 1])
               /\ creator.k >= Len(Order) => creator'.todo = <<>>
  <1>1. /\ SameRows /\ SameHosts /\ UNCHANGED <<job, handler, resolver, used>> /\ Creating
        /\ Insert(Order[creator.k], Head(creator.todo))
    BY DEF QueueCommand, SameRows, SameHosts, agentVars
  <1>2. Order \in Seq(Nodes) /\ Len(Order) \in Nat
    BY ProvisioningAssumption
  <1>3. /\ creator.k \in Nat \ {0} /\ creator.todo \in Seq(Actions) /\ creator.todo # <<>>
        /\ creator \in [k : Nat, todo : Seq(Actions)] /\ creator.k <= Len(Order)
    BY <1>1 DEF TypeInv, CreatorType, Creating
  <1>4. Order[creator.k] \in Nodes
    BY <1>2, <1>3
  <1>5. /\ Head(creator.todo) \in Actions /\ Tail(creator.todo) \in Seq(Actions) /\ Len(creator.todo) \in Nat
        /\ Len(creator.todo) >= 1 /\ Len(Tail(creator.todo)) = Len(creator.todo) - 1
    BY <1>3, NonEmpty
  <1>6. CmdType' /\ RowsKept
    BY <1>1, <1>4, <1>5, InsertEffect DEF TypeInv
  <1>7. CASE Len(creator.todo) > 1
    <2>1. creator' = [creator EXCEPT !.todo = Tail(creator.todo)]
      BY <1>7 DEF QueueCommand
    <2>2. creator' \in [k : Nat, todo : Seq(Actions)] /\ creator'.k = creator.k /\ creator'.todo = Tail(creator.todo)
      BY <1>3, <1>5, <2>1
    <2>3. Tail(creator.todo) # <<>>
      <3> DEFINE l == Len(creator.todo)
      <3> DEFINE t == Tail(creator.todo)
      <3>1. l \in Nat /\ l > 1 /\ t \in Seq(Actions) /\ Len(t) = l - 1
        BY <1>5, <1>7
      <3> HIDE DEF l, t
      <3>2. t # <<>>
        BY <3>1, NonEmpty
      <3> QED
        BY <3>2 DEF t
    <2>4. CreatorType'
      BY <1>3, <2>2, <2>3 DEF CreatorType
    <2> QED
      BY <1>1, <1>3, <1>4, <1>5, <1>6, <1>7, <2>2, <2>4, JobsKept, HandlersKept, SameHostsType, SameRowsType
         DEF TypeInv, ResolverType, UsedType
  <1>8. CASE Len(creator.todo) = 1
    <2> DEFINE rest == IF creator.k < Len(Order) THEN CreateCommands(Order[creator.k + 1]) ELSE <<>>
    <2>1. creator' = [k |-> creator.k + 1, todo |-> rest]
      BY <1>8 DEF QueueCommand
    <2>2. rest \in Seq(Actions) /\ (creator.k < Len(Order) => rest # <<>>)
      BY CreateCommandsType
    <2>3. /\ creator.k < Len(Order) => rest = CreateCommands(Order[creator.k + 1])
          /\ creator.k >= Len(Order) => rest = <<>>
      BY <1>2, <1>3
    <2> HIDE DEF rest
    <2>4. creator'.k = creator.k + 1 /\ creator'.todo = rest /\ creator' \in [k : Nat, todo : Seq(Actions)]
      BY <1>3, <2>1, <2>2
    <2>5. creator'.k <= Len(Order) => creator'.todo # <<>>
      BY <1>2, <1>3, <2>2, <2>4
    <2>6. CreatorType'
      BY <1>3, <2>4, <2>5 DEF CreatorType, Creating
    <2> QED
      BY <1>1, <1>3, <1>4, <1>5, <1>6, <1>8, <2>3, <2>4, <2>6, JobsKept, HandlersKept, SameHostsType, SameRowsType
         DEF TypeInv, ResolverType, UsedType
  <1>9. Len(creator.todo) > 1 \/ Len(creator.todo) = 1
    <2> DEFINE l == Len(creator.todo)
    <2>1. l \in Nat /\ l >= 1
      BY <1>5
    <2> HIDE DEF l
    <2>2. l > 1 \/ l = 1
      BY <2>1
    <2> QED
      BY <2>2 DEF l
  <1> QED
    BY <1>7, <1>8, <1>9, Zenon

\* The agent takes the oldest pending command.
LEMMA FetchEffect ==
  ASSUME TypeInv, NEW n \in Nodes, FetchCommand(n)
  PROVE  /\ TypeInv' /\ SameRows /\ pg' = pg /\ replUser' = replUser /\ beat' = beat
         /\ UNCHANGED <<cmds, creator, handler, resolver>> /\ job[n].at = "idle"
         /\ \A b \in Marks : b # "early" => used'[b] = used[b]
         /\ used'["early"] = 0 => used["early"] = 0 /\ ~Creating /\ resolver[n].at = "idle"
         /\ \A m \in Nodes : m # n => job'[m] = job[m] /\ agent'[m] = agent[m]
         /\ job'[n].at = "run" /\ ~job'[n].ok /\ job'[n].cmd \in DOMAIN cmds[n]
         /\ cmds[n][job'[n].cmd].st = "pending"
         /\ \A j \in DOMAIN cmds[n] : cmds[n][j].st = "pending" => job'[n].cmd <= j
         /\ agent'[n] = IF cmds[n][job'[n].cmd].action \in InstallActions THEN "installing" ELSE agent[n]
  <1>1. /\ SameRows /\ pg' = pg /\ replUser' = replUser /\ beat' = beat
        /\ UNCHANGED <<cmds, creator, handler, resolver>>
        /\ job[n].at = "idle" /\ Note("early", Creating \/ resolver[n].at # "idle")
    BY DEF FetchCommand, SameRows, serverVars
  <1>2. PICK i \in Pending(n) :
          /\ \A j \in Pending(n) : i <= j
          /\ job' = [job EXCEPT ![n] = [NoJob EXCEPT !.at = "run", !.cmd = i]]
          /\ agent' = [agent EXCEPT ![n] =
                         IF cmds[n][i].action \in InstallActions THEN "installing" ELSE agent[n]]
    BY DEF FetchCommand
  <1>3. i \in DOMAIN cmds[n] /\ cmds[n][i].st = "pending" /\ i \in Nat
    BY DEF Pending, TypeInv, CmdType
  <1>4. \A j \in DOMAIN cmds[n] : cmds[n][j].st = "pending" => i <= j
    BY <1>2 DEF Pending
  <1> DEFINE x == [NoJob EXCEPT !.at = "run", !.cmd = i]
  <1>5. x \in Jobs /\ x.at = "run" /\ ~x.ok /\ x.cmd = i
    BY <1>3 DEF NoJob, Jobs, HostStates
  <1> HIDE DEF x
  <1>6. JobType' /\ job'[n] = x /\ \A m \in Nodes : m # n => job'[m] = job[m]
    BY <1>1, <1>2, <1>3, <1>5, JobPut DEF TypeInv, x
  <1>7. HandlerType'
    BY <1>1, <1>5, <1>6, HandlersKept DEF TypeInv
  <1>8. /\ agent' \in [Nodes -> InstallStates] /\ \A m \in Nodes : m # n => agent'[m] = agent[m]
        /\ agent'[n] = IF cmds[n][i].action \in InstallActions THEN "installing" ELSE agent[n]
    BY <1>2 DEF TypeInv, HostType, InstallStates
  <1>9. HostType'
    BY <1>1, <1>8 DEF TypeInv, HostType
  <1>10. /\ UsedType' /\ \A b \in Marks : b # "early" => used'[b] = used[b]
         /\ used'["early"] = 0 => used["early"] = 0 /\ ~Creating /\ resolver[n].at = "idle"
    <2>1. "early" \in BoundNames /\ Marks \subseteq BoundNames
      BY DEF BoundNames, Marks
    <2> QED
      BY <1>1, <2>1, NoteType DEF TypeInv
  <1> QED
    BY <1>1, <1>3, <1>4, <1>5, <1>6, <1>7, <1>8, <1>9, <1>10, SameRowsType
       DEF TypeInv, CmdType, ResolverType, CreatorType, Creating

LEMMA HostAfterType ==
  ASSUME NEW h \in HostStates, NEW a
  PROVE  HostAfter(h, a) \in HostStates /\ HostsAfterFailure(h, a) \subseteq HostStates
  BY DEF HostAfter, HostsAfterFailure, HostStates, NativeInstall, DockerInstall, NativePurge, InitDB,
         Start, BaseBackup, stopNativePostgres, IsInitialized

\* No command brings packages or data to a host by failing to look at it, and a
\* look changes nothing.
LEMMA PreflightLooks ==
  ASSUME NEW h
  PROVE  HostAfter(h, "pg_preflight") = h /\ HostsAfterFailure(h, "pg_preflight") = {h}
  BY DEF HostAfter, HostsAfterFailure

\* A command is executed: it works, or it fails.
LEMMA ExecuteEffect ==
  ASSUME TypeInv, NEW n \in Nodes, ExecuteCommand(n)
  PROVE  /\ TypeInv' /\ SameRows /\ UNCHANGED <<cmds, beat, creator, handler, resolver>>
         /\ job[n].at = "run" /\ SameMarks
         /\ \A m \in Nodes : m # n => job'[m] = job[m] /\ pg'[m] = pg[m] /\ agent'[m] = agent[m]
         /\ job'[n].at = "report" /\ job'[n].cmd = job[n].cmd
         /\ \/ /\ job'[n].ok = TRUE /\ job'[n].found = pg[n] /\ pg'[n] = HostAfter(pg[n], Action(n))
               /\ agent'[n] = ReportAfter(n, Action(n))
            \/ /\ job'[n].ok = job[n].ok /\ job'[n].found = job[n].found
               /\ pg'[n] \in {pg[n]} \cup HostsAfterFailure(pg[n], Action(n))
               /\ agent'[n] = IF Action(n) \in ReportedActions THEN "failed" ELSE agent[n]
  <1> DEFINE a == Action(n)
  <1>1. /\ SameRows /\ UNCHANGED <<cmds, beat, creator, handler, resolver>>
        /\ job[n].at = "run"
    BY DEF ExecuteCommand, SameRows, serverVars
  <1>2. /\ job[n] \in Jobs /\ job[n].cmd \in DOMAIN cmds[n] /\ pg \in [Nodes -> HostStates]
        /\ agent \in [Nodes -> InstallStates] /\ replUser \in BOOLEAN
    BY <1>1 DEF TypeInv, JobType, HostType
  <1>3. ASSUME NEW x \in Jobs, NEW h \in HostStates, NEW r \in InstallStates,
               job' = [job EXCEPT ![n] = x], pg' = [pg EXCEPT ![n] = h],
               agent' = [agent EXCEPT ![n] = r], replUser' \in BOOLEAN, UsedType',
               x.at = "report", x.cmd = job[n].cmd
        PROVE  /\ TypeInv'
               /\ \A m \in Nodes : m # n => job'[m] = job[m] /\ pg'[m] = pg[m] /\ agent'[m] = agent[m]
               /\ job'[n] = x /\ pg'[n] = h /\ agent'[n] = r
    <2>1. JobType' /\ job'[n] = x /\ \A m \in Nodes : m # n => job'[m] = job[m]
      BY <1>1, <1>2, <1>3, JobPut DEF TypeInv
    <2>2. HandlerType'
      BY <1>1, <1>3, <2>1, HandlersKept DEF TypeInv
    <2>3. HostType' /\ pg'[n] = h /\ agent'[n] = r
      BY <1>1, <1>2, <1>3 DEF TypeInv, HostType
    <2>4. \A m \in Nodes : m # n => pg'[m] = pg[m] /\ agent'[m] = agent[m]
      BY <1>2, <1>3
    <2> QED
      BY <1>1, <1>3, <2>1, <2>2, <2>3, <2>4, SameRowsType DEF TypeInv, CmdType, ResolverType, CreatorType, Creating
  <1>4. CASE /\ CanWork(n, a)
             /\ pg' = [pg EXCEPT ![n] = HostAfter(@, a)]
             /\ replUser' = (replUser \/ a = "pg_create_repl_user")
             /\ agent' = [agent EXCEPT ![n] = ReportAfter(n, a)]
             /\ job' = [job EXCEPT ![n].at = "report", ![n].ok = TRUE, ![n].found = pg[n]]
             /\ UNCHANGED used
    <2> DEFINE x == [job[n] EXCEPT !.at = "report", !.ok = TRUE, !.found = pg[n]]
    <2>1. x \in Jobs /\ x.at = "report" /\ x.ok = TRUE /\ x.found = pg[n] /\ x.cmd = job[n].cmd
      BY <1>2 DEF Jobs
    <2>2. job' = [job EXCEPT ![n] = x]
      BY <1>4
    <2>3. HostAfter(pg[n], a) \in HostStates
      BY <1>2, HostAfterType
    <2>4. ReportAfter(n, a) \in InstallStates
      BY <1>2 DEF ReportAfter, Preflight, InstallStates, Conflicts
    <2>5. replUser' \in BOOLEAN /\ UsedType' /\ SameMarks
      BY <1>4 DEF TypeInv, UsedType, SameMarks
    <2>6. pg' = [pg EXCEPT ![n] = HostAfter(pg[n], a)] /\ agent' = [agent EXCEPT ![n] = ReportAfter(n, a)]
      BY <1>4
    <2> HIDE DEF x, a
    <2>7. /\ TypeInv'
          /\ \A m \in Nodes : m # n => job'[m] = job[m] /\ pg'[m] = pg[m] /\ agent'[m] = agent[m]
          /\ job'[n] = x /\ pg'[n] = HostAfter(pg[n], a) /\ agent'[n] = ReportAfter(n, a)
      BY <1>3, <2>1, <2>2, <2>3, <2>4, <2>5, <2>6
    <2> QED
      BY <1>1, <2>1, <2>5, <2>7 DEF a
  <1>5. CASE /\ \/ ~CanWork(n, a) /\ UNCHANGED <<pg, used>>
                \/ /\ CanWork(n, a) /\ used["failures"] < MaxFailures /\ Use("failures")
                   /\ \E h \in HostsAfterFailure(pg[n], a) : pg' = [pg EXCEPT ![n] = h]
             /\ agent' = [agent EXCEPT ![n] = IF a \in ReportedActions THEN "failed" ELSE @]
             /\ job' = [job EXCEPT ![n].at = "report"]
             /\ UNCHANGED replUser
    <2> DEFINE x == [job[n] EXCEPT !.at = "report"]
    <2> DEFINE r == IF a \in ReportedActions THEN "failed" ELSE agent[n]
    <2>1. x \in Jobs /\ x.at = "report" /\ x.ok = job[n].ok /\ x.found = job[n].found /\ x.cmd = job[n].cmd
      BY <1>2 DEF Jobs
    <2>2. job' = [job EXCEPT ![n] = x] /\ agent' = [agent EXCEPT ![n] = r]
      BY <1>5
    <2>3. r \in InstallStates
      BY <1>2 DEF InstallStates
    <2>4. UsedType' /\ SameMarks
      <3>1. CASE UNCHANGED used
        BY <3>1 DEF TypeInv, UsedType, SameMarks
      <3>2. CASE Use("failures")
        BY <3>2, UseType DEF TypeInv, BoundNames, SameMarks, Marks
      <3> QED
        BY <1>5, <3>1, <3>2
    <2>5. PICK h \in {pg[n]} \cup HostsAfterFailure(pg[n], a) : pg' = [pg EXCEPT ![n] = h]
      <3>1. CASE UNCHANGED pg
        BY <1>2, <3>1
      <3>2. CASE \E h \in HostsAfterFailure(pg[n], a) : pg' = [pg EXCEPT ![n] = h]
        BY <3>2
      <3> QED
        BY <1>5, <3>1, <3>2
    <2>6. h \in HostStates
      BY <1>2, HostAfterType
    <2>7. replUser' \in BOOLEAN
      BY <1>2, <1>5
    <2> HIDE DEF x, r
    <2>8. /\ TypeInv'
          /\ \A m \in Nodes : m # n => job'[m] = job[m] /\ pg'[m] = pg[m] /\ agent'[m] = agent[m]
          /\ job'[n] = x /\ pg'[n] = h /\ agent'[n] = r
      BY <1>3, <2>1, <2>2, <2>3, <2>4, <2>5, <2>6, <2>7
    <2> QED
      BY <1>1, <2>1, <2>4, <2>5, <2>8 DEF r
  <1> QED
    BY <1>4, <1>5 DEF ExecuteCommand

\* The result arrives and its handler begins, or it is lost.
LEMMA ReportEffect ==
  ASSUME TypeInv, NEW n \in Nodes, ReportCommandResult(n)
  PROVE  /\ TypeInv' /\ SameRows /\ SameHosts /\ UNCHANGED <<creator, resolver>>
         /\ job[n].at = "report" /\ handler[n].at = "idle" /\ SameMarks
         /\ \A m \in Nodes : m # n => job'[m] = job[m] /\ handler'[m] = handler[m] /\ cmds'[m] = cmds[m]
         /\ handler'[n].todo = <<>>
         /\ \/ /\ cmds' = cmds /\ handler' = handler /\ job'[n] = NoJob
            \/ /\ cmds' = [cmds EXCEPT ![n][job[n].cmd].st = IF job[n].ok THEN "completed" ELSE "failed"]
               /\ job'[n].at = "wait" /\ handler'[n].at = "apply"
               /\ job'[n].cmd = job[n].cmd /\ job'[n].ok = job[n].ok /\ job'[n].found = job[n].found
  <1>1. SameRows /\ SameHosts /\ UNCHANGED <<creator, resolver>> /\ job[n].at = "report"
    BY DEF ReportCommandResult, SameRows, SameHosts
  <1>2. /\ job[n] \in Jobs /\ job[n].cmd \in DOMAIN cmds[n]
        /\ handler[n] \in Handlers /\ handler[n].at = "idle" /\ handler[n].todo = <<>>
    BY <1>1 DEF TypeInv, JobType, HandlerType
  <1>3. CASE /\ cmds' = [cmds EXCEPT ![n][job[n].cmd].st = IF job[n].ok THEN "completed" ELSE "failed"]
             /\ job' = [job EXCEPT ![n].at = "wait"]
             /\ handler' = [handler EXCEPT ![n].at = "apply"]
             /\ UNCHANGED used
    <2>1. CmdType' /\ RowsKept /\ \A m \in Nodes : m # n => cmds'[m] = cmds[m]
      <3>1. (IF job[n].ok THEN "completed" ELSE "failed") \in Statuses
        BY DEF Statuses
      <3>2. CmdType
        BY DEF TypeInv
      <3>3. CmdType' /\ RowsKept
        BY <1>2, <1>3, <3>1, <3>2, ResultEffect
      <3>4. \A m \in Nodes : m # n => cmds'[m] = cmds[m]
        BY <1>2, <1>3, <3>1, <3>2, ResultEffect
      <3> QED
        BY <3>3, <3>4
    <2> DEFINE x == [job[n] EXCEPT !.at = "wait"]
    <2> DEFINE h == [handler[n] EXCEPT !.at = "apply"]
    <2>2. x \in Jobs /\ x.at = "wait" /\ x.cmd = job[n].cmd /\ x.ok = job[n].ok /\ x.found = job[n].found
      BY <1>2 DEF Jobs
    <2>3. h \in Handlers /\ h.at = "apply" /\ h.todo = <<>>
      BY <1>2 DEF Handlers, Steps
    <2>4. job' = [job EXCEPT ![n] = x] /\ handler' = [handler EXCEPT ![n] = h]
      BY <1>3
    <2> HIDE DEF x, h
    <2>5. JobType' /\ job'[n] = x /\ \A m \in Nodes : m # n => job'[m] = job[m]
      BY <1>2, <2>1, <2>2, <2>4, JobPut DEF TypeInv
    <2>6. HandlerType' /\ handler'[n] = h /\ \A m \in Nodes : m # n => handler'[m] = handler[m]
      BY <2>2, <2>3, <2>4, <2>5, HandlerPut DEF TypeInv
    <2> QED
      BY <1>1, <1>2, <1>3, <2>1, <2>2, <2>3, <2>5, <2>6, SameRowsType, SameHostsType
         DEF TypeInv, ResolverType, CreatorType, Creating, UsedType, SameMarks
  <1>4. CASE /\ MayDisturb /\ Use("lost")
             /\ job' = [job EXCEPT ![n] = NoJob]
             /\ UNCHANGED <<cmds, handler>>
    <2>1. NoJob \in Jobs /\ NoJob.at = "idle"
      BY DEF NoJob, Jobs, HostStates
    <2> HIDE DEF NoJob
    <2>2. JobType' /\ job'[n] = NoJob /\ \A m \in Nodes : m # n => job'[m] = job[m]
      BY <1>2, <1>4, <2>1, JobPut DEF TypeInv
    <2>3. HandlerType'
      BY <1>1, <1>4, <2>1, <2>2, HandlersKept DEF TypeInv
    <2>4. UsedType' /\ SameMarks
      BY <1>4, UseType DEF TypeInv, BoundNames, SameMarks, Marks
    <2> QED
      BY <1>1, <1>2, <1>4, <2>2, <2>3, <2>4, SameRowsType, SameHostsType
         DEF TypeInv, ResolverType, CreatorType, Creating, CmdType
  <1> QED
    BY <1>3, <1>4 DEF ReportCommandResult

\* The programs of the server and the commands, as no heartbeat touches them.
SamePrograms == UNCHANGED <<cmds, job, creator, handler, resolver>>

LEMMA SameProgramsType ==
  ASSUME CmdType, JobType, CreatorType, HandlerType, ResolverType, SamePrograms
  PROVE  CmdType' /\ JobType' /\ CreatorType' /\ HandlerType' /\ ResolverType'
  BY DEF CmdType, JobType, CreatorType, Creating, HandlerType, ResolverType, SamePrograms

LEMMA SendHeartbeatEffect ==
  ASSUME TypeInv, NEW n \in Nodes, SendHeartbeat(n)
  PROVE  /\ TypeInv' /\ SamePrograms /\ cluster' = cluster /\ inst' = inst /\ used' = used
         /\ pg' = pg /\ agent' = agent
         /\ beat'[n].state = agent[n] /\ \A m \in Nodes : m # n => beat'[m] = beat[m]
  <1>1. /\ cluster' = cluster /\ inst' = inst /\ pg' = pg /\ replUser' = replUser /\ agent' = agent
        /\ used' = used /\ SamePrograms
    BY DEF SendHeartbeat, SamePrograms, serverVars
  <1> DEFINE b == [state |-> agent[n], running |-> pg[n] = "running"]
  <1>2. b \in Beats /\ b.state = agent[n]
    BY DEF TypeInv, HostType, Beats
  <1>3. beat' = [beat EXCEPT ![n] = b] /\ status' = [status EXCEPT ![n] = "online"]
    BY DEF SendHeartbeat
  <1> HIDE DEF b
  <1>4. HostType' /\ beat'[n] = b /\ \A m \in Nodes : m # n => beat'[m] = beat[m]
    BY <1>1, <1>2, <1>3 DEF TypeInv, HostType
  <1>5. RowType'
    BY <1>1, <1>3 DEF TypeInv, RowType
  <1> QED
    BY <1>1, <1>2, <1>4, <1>5, SameProgramsType DEF TypeInv, UsedType

LEMMA ReportStatusEffect ==
  ASSUME TypeInv, NEW n \in Nodes, ReportStatus(n)
  PROVE  /\ TypeInv' /\ SamePrograms /\ cluster' = cluster /\ pg' = pg /\ agent' = agent
         /\ \A b \in Marks : b # "outdated" => used'[b] = used[b]
         /\ used'["outdated"] = 0 => used["outdated"] = 0 /\ inst'[n] \in {inst[n], agent[n]}
         /\ beat[n] # None /\ beat[n] \in Beats /\ beat'[n] = None
         /\ \A m \in Nodes : m # n => beat'[m] = beat[m] /\ inst'[m] = inst[m]
  <1>1. /\ cluster' = cluster /\ pg' = pg /\ replUser' = replUser /\ agent' = agent
        /\ SamePrograms /\ beat[n] # None /\ beat' = [beat EXCEPT ![n] = None]
    BY DEF ReportStatus, SamePrograms, serverVars
  <1>2. /\ HostType' /\ beat[n] \in Beats /\ beat'[n] = None
        /\ \A m \in Nodes : m # n => beat'[m] = beat[m]
    BY <1>1 DEF TypeInv, HostType
  <1>3. CASE /\ inst' = [inst EXCEPT ![n] = beat[n].state]
             /\ status' = [status EXCEPT ![n] = IF beat[n].running THEN "online" ELSE "offline"]
             /\ Note("outdated", beat[n].state # agent[n])
    <2>1. RowType' /\ inst'[n] = beat[n].state /\ \A m \in Nodes : m # n => inst'[m] = inst[m]
      BY <1>1, <1>2, <1>3 DEF TypeInv, RowType, Beats
    <2>2. "outdated" \in BoundNames /\ Marks \subseteq BoundNames
      BY DEF BoundNames, Marks
    <2>3. /\ UsedType' /\ \A b \in Marks : b # "outdated" => used'[b] = used[b]
          /\ used'["outdated"] = 0 => used["outdated"] = 0 /\ beat[n].state = agent[n]
      BY <1>3, <2>2, NoteType DEF TypeInv
    <2> QED
      BY <1>1, <1>2, <1>3, <2>1, <2>3, SameProgramsType DEF TypeInv
  <1>4. CASE MayDisturb /\ Use("lost") /\ UNCHANGED <<inst, status>>
    <2>1. RowType' /\ inst' = inst
      BY <1>1, <1>4 DEF TypeInv, RowType
    <2>2. UsedType' /\ SameMarks
      BY <1>4, UseType DEF TypeInv, BoundNames, SameMarks, Marks
    <2> QED
      BY <1>1, <1>2, <2>1, <2>2, SameProgramsType DEF TypeInv, SameMarks, Marks
  <1> QED
    BY <1>3, <1>4 DEF ReportStatus

\* A restarted agent has forgotten its report and its command, unless the
\* result is already being handled.
LEMMA RestartEffect ==
  ASSUME TypeInv, NEW n \in Nodes, RestartAgent(n)
  PROVE  /\ TypeInv' /\ cluster' = cluster /\ inst' = inst
         /\ UNCHANGED <<cmds, creator, handler, resolver>> /\ SameMarks
         /\ \A m \in Nodes : m # n => /\ job'[m] = job[m] /\ agent'[m] = agent[m] /\ beat'[m] = beat[m]
                                      /\ pg'[m] = pg[m]
         /\ agent'[n] = "pending" /\ beat'[n] = None
         /\ job'[n] = IF job[n].at = "wait" THEN job[n] ELSE NoJob
         /\ pg'[n] = pg[n] \/ (pg[n] = "running" /\ pg'[n] = "data")
  <1>1. /\ cluster' = cluster /\ inst' = inst /\ replUser' = replUser
        /\ UNCHANGED <<cmds, creator, handler, resolver>>
        /\ agent' = [agent EXCEPT ![n] = "pending"] /\ beat' = [beat EXCEPT ![n] = None]
        /\ status' = [status EXCEPT ![n] = "online"]
    BY DEF RestartAgent, serverVars
  <1> DEFINE x == IF job[n].at = "wait" THEN job[n] ELSE NoJob
  <1>2. NoJob \in Jobs /\ NoJob.at = "idle"
    BY DEF NoJob, Jobs, HostStates
  <1>3. job' = [job EXCEPT ![n] = x]
    BY DEF RestartAgent
  <1> HIDE DEF NoJob
  <1>4. x \in Jobs /\ (x.at # "idle" => x.cmd \in DOMAIN cmds[n]) /\ (x.at = "wait" <=> job[n].at = "wait")
    BY <1>2 DEF TypeInv, JobType
  <1> HIDE DEF x
  <1>5. JobType' /\ job'[n] = x /\ \A m \in Nodes : m # n => job'[m] = job[m]
    BY <1>1, <1>3, <1>4, JobPut DEF TypeInv
  <1>6. HandlerType'
    BY <1>1, <1>4, <1>5, HandlersKept DEF TypeInv
  <1>7. /\ pg' \in [Nodes -> HostStates] /\ (pg'[n] = pg[n] \/ (pg[n] = "running" /\ pg'[n] = "data"))
        /\ \A m \in Nodes : m # n => pg'[m] = pg[m]
    <2>1. CASE pg' = pg
      BY <2>1 DEF TypeInv, HostType
    <2>2. CASE pg' = [pg EXCEPT ![n] = IF pg[n] = "running" THEN "data" ELSE pg[n]]
      BY <2>2 DEF TypeInv, HostType, HostStates
    <2> QED
      BY <2>1, <2>2 DEF RestartAgent
  <1>8. /\ agent' \in [Nodes -> InstallStates] /\ beat' \in [Nodes -> Beats \cup {None}]
        /\ agent'[n] = "pending" /\ beat'[n] = None
        /\ \A m \in Nodes : m # n => agent'[m] = agent[m] /\ beat'[m] = beat[m]
    BY <1>1 DEF TypeInv, HostType, InstallStates
  <1>9. RowType'
    BY <1>1 DEF TypeInv, RowType
  <1>10. UsedType' /\ SameMarks
    BY UseType DEF RestartAgent, TypeInv, BoundNames, SameMarks, Marks
  <1>11. HostType'
    BY <1>1, <1>7, <1>8 DEF TypeInv, HostType
  <1> QED
    BY <1>1, <1>5, <1>6, <1>7, <1>8, <1>9, <1>10, <1>11 DEF TypeInv, CmdType, CreatorType, Creating, ResolverType, x

\* handleProvisioningCommandResult: the node's state, and what comes next.
LEMMA HandleResultEffect ==
  ASSUME TypeInv, NEW n \in Nodes, HandleResult(n)
  PROVE  /\ TypeInv' /\ SameHosts /\ UNCHANGED <<cluster, cmds, job, creator, resolver, used>>
         /\ handler[n].at = "apply" /\ job[n].at = "wait"
         /\ \A m \in Nodes : m # n => handler'[m] = handler[m] /\ inst'[m] = inst[m]
         /\ inst'[n] = InstAfter(n)
         /\ \/ /\ handler'[n].at \in {"check", "lifecycle"} /\ handler'[n].todo = <<>>
               /\ ~(job[n].ok /\ Action(n) = "pg_preflight" /\ job[n].found = "none")
            \/ /\ ~job[n].ok /\ cluster # "creating" /\ handler'[n].todo = <<>>
               /\ handler'[n].at = "lifecycleWrite" /\ handler'[n].next = "degraded"
            \/ /\ job[n].ok /\ Action(n) = "pg_preflight" /\ job[n].found = "none"
               /\ handler'[n].at = "queue" /\ handler'[n].todo = Continuation(n)
  <1>1. /\ SameHosts /\ UNCHANGED <<cluster, cmds, creator, resolver, used>>
        /\ handler[n].at = "apply" /\ inst' = [inst EXCEPT ![n] = InstAfter(n)]
    BY DEF HandleResult, SameHosts, keepHosts, SetInst
  <1>2. /\ handler[n].at \in Steps \ {"idle", "queue"} /\ handler[n] \in Handlers
        /\ job[n].at = "wait" /\ handler[n].todo = <<>>
        /\ {"check", "lifecycle", "lifecycleWrite"} \subseteq Steps \ {"idle", "queue"}
        /\ "degraded" \in ClusterStates
    BY <1>1 DEF TypeInv, HandlerType, Steps, ClusterStates
  <1>3. InstAfter(n) \in InstallStates
    BY DEF InstAfter, TypeInv, RowType, InstallStates, Conflicts
  <1>4. /\ inst' \in [Nodes -> InstallStates] /\ inst'[n] = InstAfter(n)
        /\ \A m \in Nodes : m # n => inst'[m] = inst[m]
    BY <1>1, <1>3 DEF TypeInv, RowType
  <1>5. ASSUME HandlerType', job' = job, status' \in [Nodes -> {"online", "offline"}] PROVE TypeInv'
    <2>1. JobType'
      BY <1>1, <1>5, JobsKept DEF TypeInv
    <2> QED
      BY <1>1, <1>4, <1>5, <2>1, SameHostsType
         DEF TypeInv, RowType, CmdType, CreatorType, Creating, ResolverType, UsedType
  <1>6. CASE ~job[n].ok /\ UNCHANGED status
             /\ IF cluster = "creating" THEN GotoStep(n, "check") ELSE Decide(n, "degraded", "lifecycleWrite")
    <2>1. CASE cluster = "creating"
      <3>1. /\ HandlerType' /\ job' = job /\ handler'[n].at = "check" /\ handler'[n].todo = <<>>
            /\ \A m \in Nodes : m # n => handler'[m] = handler[m]
        BY <1>2, <1>6, <2>1, GotoEffect DEF TypeInv
      <3>2. TypeInv'
        BY <1>5, <1>6, <3>1 DEF TypeInv, RowType
      <3> QED
        BY <1>1, <1>2, <1>4, <1>6, <3>1, <3>2
    <2>2. CASE cluster # "creating"
      <3>1. /\ HandlerType' /\ job' = job /\ handler'[n].at = "lifecycleWrite" /\ handler'[n].todo = <<>>
            /\ handler'[n].next = "degraded" /\ \A m \in Nodes : m # n => handler'[m] = handler[m]
        BY <1>2, <1>6, <2>2, DecideEffect DEF TypeInv
      <3>2. TypeInv'
        BY <1>5, <1>6, <3>1 DEF TypeInv, RowType
      <3> QED
        BY <1>1, <1>2, <1>4, <1>6, <2>2, <3>1, <3>2
    <2> QED
      BY <2>1, <2>2
  <1>7. CASE /\ job[n].ok /\ Action(n) = "pg_preflight" /\ job[n].found = "none"
             /\ handler' = [handler EXCEPT ![n].at = "queue", ![n].todo = Continuation(n)]
             /\ UNCHANGED <<job, status>>
    <2> DEFINE h == [handler[n] EXCEPT !.at = "queue", !.todo = Continuation(n)]
    <2>1. h \in Handlers /\ h.at = "queue" /\ h.todo = Continuation(n) /\ h.todo # <<>>
      BY <1>2, ContinuationType DEF Handlers, Steps
    <2>2. handler' = [handler EXCEPT ![n] = h]
      BY <1>7
    <2> HIDE DEF h
    <2>3. HandlerType' /\ handler'[n] = h /\ \A m \in Nodes : m # n => handler'[m] = handler[m]
      BY <1>2, <1>7, <2>1, <2>2, HandlerPut DEF TypeInv
    <2>4. TypeInv'
      BY <1>5, <1>7, <2>3 DEF TypeInv, RowType
    <2> QED
      BY <1>1, <1>2, <1>4, <1>7, <2>1, <2>3, <2>4
  <1>8. CASE /\ job[n].ok /\ Action(n) = "pg_start" /\ GotoStep(n, "lifecycle")
             /\ status' = [status EXCEPT ![n] = "online"]
    <2>1. /\ HandlerType' /\ job' = job /\ handler'[n].at = "lifecycle" /\ handler'[n].todo = <<>>
          /\ \A m \in Nodes : m # n => handler'[m] = handler[m]
      BY <1>2, <1>8, GotoEffect DEF TypeInv
    <2>2. TypeInv'
      BY <1>5, <1>8, <2>1 DEF TypeInv, RowType
    <2> QED
      BY <1>1, <1>2, <1>4, <1>8, <2>1, <2>2
  <1>9. CASE /\ job[n].ok /\ Action(n) # "pg_start" /\ GotoStep(n, "check") /\ UNCHANGED status
             /\ ~(Action(n) = "pg_preflight" /\ job[n].found = "none")
    <2>1. /\ HandlerType' /\ job' = job /\ handler'[n].at = "check" /\ handler'[n].todo = <<>>
          /\ \A m \in Nodes : m # n => handler'[m] = handler[m]
      BY <1>2, <1>9, GotoEffect DEF TypeInv
    <2>2. TypeInv'
      BY <1>5, <1>9, <2>1 DEF TypeInv, RowType
    <2> QED
      BY <1>1, <1>2, <1>4, <1>9, <2>1, <2>2
  <1> QED
    BY <1>6, <1>7, <1>8, <1>9 DEF HandleResult

\* One command of the continuation is queued.
LEMMA QueueContinuationEffect ==
  ASSUME TypeInv, NEW n \in Nodes, QueueContinuation(n)
  PROVE  /\ TypeInv' /\ SameRows /\ SameHosts /\ UNCHANGED <<job, creator, resolver, used>>
         /\ handler[n].at = "queue" /\ handler[n].todo \in Seq(Actions) /\ handler[n].todo # <<>>
         /\ Head(handler[n].todo) \in Actions /\ Insert(n, Head(handler[n].todo))
         /\ \A m \in Nodes : m # n => handler'[m] = handler[m]
         /\ handler'[n].todo = Tail(handler[n].todo)
         /\ handler'[n].at = IF Len(handler[n].todo) > 1 THEN "queue" ELSE "check"
  <1> DEFINE t == handler[n].todo
  <1>1. /\ SameRows /\ SameHosts /\ UNCHANGED <<job, creator, resolver, used>>
        /\ handler[n].at = "queue" /\ Insert(n, Head(t))
    BY DEF QueueContinuation, SameRows, SameHosts, keepHosts
  <1>2. handler[n] \in Handlers /\ t \in Seq(Actions) /\ t # <<>> /\ job[n].at = "wait"
    BY <1>1 DEF TypeInv, HandlerType, Handlers
  <1> DEFINE h == [handler[n] EXCEPT !.todo = Tail(t), !.at = IF Len(t) > 1 THEN "queue" ELSE "check"]
  <1>3. handler' = [handler EXCEPT ![n] = h]
    BY DEF QueueContinuation
  <1>4. Head(t) \in Actions /\ Tail(t) \in Seq(Actions) /\ (Tail(t) # <<>> <=> Len(t) > 1)
    <2> HIDE DEF t
    <2> QED
      BY <1>2, TailKeepsLast
  <1>5. h \in Handlers /\ h.todo = Tail(t) /\ h.at = IF Len(t) > 1 THEN "queue" ELSE "check"
    BY <1>2, <1>4 DEF Handlers, Steps
  <1>6. (h.at = "queue" <=> h.todo # <<>>) /\ h.at # "idle"
    BY <1>4, <1>5
  <1> HIDE DEF h
  <1>7. HandlerType' /\ handler'[n] = h /\ \A m \in Nodes : m # n => handler'[m] = handler[m]
    BY <1>1, <1>2, <1>3, <1>5, <1>6, HandlerPut DEF TypeInv
  <1>8. CmdType' /\ RowsKept
    BY <1>1, <1>4, InsertEffect DEF TypeInv
  <1> QED
    BY <1>1, <1>2, <1>4, <1>5, <1>7, <1>8, JobsKept, SameRowsType, SameHostsType
       DEF TypeInv, CreatorType, Creating, ResolverType, UsedType

\* The handler decides without writing: the lifecycle status, the states of
\* the nodes, the commands.
LEMMA DecisionEffect ==
  ASSUME TypeInv, NEW n \in Nodes,
         UpdateClusterLifecycleStatus(n) \/ CheckNodes(n) \/ CheckCommands(n)
  PROVE  /\ TypeInv' /\ SameRows /\ SameHosts /\ UNCHANGED <<cmds, creator, resolver, used>>
         /\ \A m \in Nodes : m # n => handler'[m] = handler[m] /\ job'[m] = job[m]
         /\ handler[n].at \in {"lifecycle", "check", "list"} /\ handler'[n].todo = <<>>
         /\ \/ handler'[n] = NoHandler /\ job'[n] = NoJob
            \/ /\ job' = job
               /\ \/ handler[n].at = "lifecycle" /\ handler'[n].at = "check"
                  \/ /\ handler[n].at = "lifecycle" /\ cluster # "creating"
                     /\ handler'[n].at = "lifecycleWrite" /\ handler'[n].next \in {"running", "stopped"}
                  \/ /\ handler[n].at = "check" /\ handler'[n].at = "list" /\ cluster = "creating"
                     /\ \A m \in Nodes : inst[m] \notin Unfinished \cup {"failed"}
                  \/ /\ handler[n].at \in {"check", "list"} /\ handler'[n].at = "cancel"
                     /\ handler'[n].next = "stopped"
                  \/ /\ handler[n].at = "list" /\ handler'[n].at = "write" /\ handler'[n].next = "running"
                     /\ ~AnyWith("failed") /\ ~AnyWith("pending")
  <1>1. /\ SameRows /\ SameHosts /\ UNCHANGED <<cmds, creator, resolver, used>>
        /\ handler[n].at \in {"lifecycle", "check", "list"}
    BY DEF UpdateClusterLifecycleStatus, CheckNodes, CheckCommands, SameRows, SameHosts, keepHosts
  <1>2. /\ handler[n].at \in Steps \ {"idle", "queue"}
        /\ {"check", "list", "cancel", "write", "lifecycleWrite"} \subseteq Steps \ {"idle", "queue"}
        /\ {"running", "stopped"} \subseteq ClusterStates
    BY <1>1 DEF Steps, ClusterStates
  <1>3. ASSUME HandlerType', JobType' PROVE TypeInv'
    BY <1>1, <1>3, SameRowsType, SameHostsType DEF TypeInv, CmdType, CreatorType, Creating, ResolverType, UsedType
  <1>4. ASSUME Return(n)
        PROVE  /\ TypeInv' /\ handler'[n] = NoHandler /\ job'[n] = NoJob /\ handler'[n].todo = <<>>
               /\ \A m \in Nodes : m # n => handler'[m] = handler[m] /\ job'[m] = job[m]
    <2>1. /\ HandlerType' /\ JobType' /\ handler'[n] = NoHandler /\ job'[n] = NoJob
          /\ \A m \in Nodes : m # n => handler'[m] = handler[m] /\ job'[m] = job[m]
      BY <1>1, <1>4, ReturnEffect DEF TypeInv
    <2>2. NoHandler.todo = <<>>
      BY DEF NoHandler
    <2> QED
      BY <1>3, <2>1, <2>2
  <1>5. ASSUME NEW at \in {"check", "list"}, GotoStep(n, at)
        PROVE  /\ TypeInv' /\ job' = job /\ handler'[n].at = at /\ handler'[n].todo = <<>>
               /\ \A m \in Nodes : m # n => handler'[m] = handler[m]
    <2>1. /\ HandlerType' /\ job' = job /\ handler'[n].at = at /\ handler'[n].todo = <<>>
          /\ \A m \in Nodes : m # n => handler'[m] = handler[m]
      BY <1>2, <1>5, GotoEffect DEF TypeInv
    <2>2. JobType'
      BY <1>1, <2>1, JobsKept DEF TypeInv
    <2> QED
      BY <1>3, <2>1, <2>2
  <1>6. ASSUME NEW at \in {"cancel", "write", "lifecycleWrite"}, NEW next \in {"running", "stopped"},
               Decide(n, next, at)
        PROVE  /\ TypeInv' /\ job' = job /\ handler'[n].at = at /\ handler'[n].todo = <<>>
               /\ handler'[n].next = next /\ \A m \in Nodes : m # n => handler'[m] = handler[m]
    <2>1. /\ HandlerType' /\ job' = job /\ handler'[n].at = at /\ handler'[n].todo = <<>>
          /\ handler'[n].next = next /\ \A m \in Nodes : m # n => handler'[m] = handler[m]
      BY <1>2, <1>6, DecideEffect DEF TypeInv
    <2>2. JobType'
      BY <1>1, <2>1, JobsKept DEF TypeInv
    <2> QED
      BY <1>3, <2>1, <2>2
  <1>7. CASE UpdateClusterLifecycleStatus(n)
    <2>1. /\ handler[n].at = "lifecycle"
          /\ \/ GotoStep(n, "check")
             \/ cluster # "creating" /\ \E next \in {"running", "stopped"} : Decide(n, next, "lifecycleWrite")
      BY <1>7 DEF UpdateClusterLifecycleStatus
    <2> QED
      BY <1>1, <1>5, <1>6, <2>1
  <1>8. CASE CheckNodes(n)
    <2>1. /\ handler[n].at = "check"
          /\ \/ Return(n)
             \/ /\ cluster = "creating" /\ \A m \in Nodes : inst[m] \notin Unfinished \cup {"failed"}
                /\ GotoStep(n, "list")
             \/ Decide(n, "stopped", "cancel")
      BY <1>8 DEF CheckNodes
    <2> QED
      BY <1>1, <1>4, <1>5, <1>6, <2>1
  <1>9. CASE CheckCommands(n)
    <2>1. /\ handler[n].at = "list"
          /\ \/ Return(n)
             \/ Decide(n, "stopped", "cancel")
             \/ ~AnyWith("failed") /\ ~AnyWith("pending") /\ Decide(n, "running", "write")
      BY <1>9 DEF CheckCommands
    <2> QED
      BY <1>1, <1>4, <1>5, <1>6, <2>1
  <1> QED
    BY <1>7, <1>8, <1>9

\* updateClusterLifecycleStatus writes what it decided.
LEMMA LifecycleWriteEffect ==
  ASSUME TypeInv, NEW n \in Nodes, LifecycleWrite(n)
  PROVE  /\ TypeInv' /\ SameHosts /\ UNCHANGED <<inst, status, cmds, job, creator, resolver, used>>
         /\ handler[n].at = "lifecycleWrite" /\ cluster' = handler[n].next
         /\ handler'[n].at = "check" /\ handler'[n].todo = <<>>
         /\ \A m \in Nodes : m # n => handler'[m] = handler[m]
  <1>1. /\ SameHosts /\ UNCHANGED <<inst, status, cmds, creator, resolver, used>>
        /\ handler[n].at = "lifecycleWrite" /\ cluster' = handler[n].next /\ GotoStep(n, "check")
    BY DEF LifecycleWrite, SameHosts, keepHosts
  <1>2. /\ handler[n].at \in Steps \ {"idle", "queue"} /\ "check" \in Steps \ {"idle", "queue"}
        /\ handler[n].next \in ClusterStates
    BY <1>1 DEF TypeInv, HandlerType, Handlers, Steps
  <1>3. /\ HandlerType' /\ job' = job /\ handler'[n].at = "check" /\ handler'[n].todo = <<>>
        /\ \A m \in Nodes : m # n => handler'[m] = handler[m]
    BY <1>1, <1>2, GotoEffect DEF TypeInv
  <1>4. RowType' /\ JobType'
    BY <1>1, <1>2, <1>3, JobsKept DEF TypeInv, RowType
  <1> QED
    BY <1>1, <1>3, <1>4, SameHostsType DEF TypeInv, CmdType, CreatorType, Creating, ResolverType, UsedType

\* What was pending has been skipped, or the failure of that is on record.
LEMMA CancelPendingEffect ==
  ASSUME TypeInv, NEW n \in Nodes, CancelPending(n)
  PROVE  /\ TypeInv' /\ SameRows /\ SameHosts /\ UNCHANGED <<job, creator, resolver>> /\ RowsKept
         /\ \A b \in Marks : b # "unmarked" => used'[b] = used[b]
         /\ \A m \in Nodes :
              /\ Len(cmds'[m]) = Len(cmds[m]) /\ DOMAIN cmds'[m] = DOMAIN cmds[m]
              /\ \A i \in DOMAIN cmds[m] :
                   /\ cmds'[m][i].st \in {cmds[m][i].st, "failed"}
                   /\ cmds[m][i].st # "pending" => cmds'[m][i].st = cmds[m][i].st
                   /\ cmds'[m][i].action = cmds[m][i].action
         /\ used'["unmarked"] = 0 => used["unmarked"] = 0 /\ ~AnyWith("pending")'
         /\ cmds' = cmds \/ ~AnyWith("pending")'
         /\ handler[n].at = "cancel" /\ handler'[n].at = "write" /\ handler'[n].todo = <<>>
         /\ handler'[n].next = handler[n].next
         /\ \A m \in Nodes : m # n => handler'[m] = handler[m]
  <1>1. /\ SameRows /\ SameHosts /\ UNCHANGED <<creator, resolver>>
        /\ handler[n].at = "cancel" /\ GotoStep(n, "write")
    BY DEF CancelPending, SameHosts, SameRows, keepHosts
  <1>2. handler[n].at \in Steps \ {"idle", "queue"} /\ "write" \in Steps \ {"idle", "queue"}
    BY <1>1 DEF Steps
  <1>3. /\ HandlerType' /\ job' = job /\ handler'[n].at = "write" /\ handler'[n].todo = <<>>
        /\ handler'[n].next = handler[n].next /\ \A m \in Nodes : m # n => handler'[m] = handler[m]
    BY <1>1, <1>2, GotoEffect DEF TypeInv
  <1> DEFINE kept ==
        /\ CmdType' /\ RowsKept /\ UsedType'
        /\ \A b \in Marks : b # "unmarked" => used'[b] = used[b]
        /\ \A m \in Nodes :
             /\ Len(cmds'[m]) = Len(cmds[m]) /\ DOMAIN cmds'[m] = DOMAIN cmds[m]
             /\ \A i \in DOMAIN cmds[m] :
                  /\ cmds'[m][i].st \in {cmds[m][i].st, "failed"}
                  /\ cmds[m][i].st # "pending" => cmds'[m][i].st = cmds[m][i].st
                  /\ cmds'[m][i].action = cmds[m][i].action
        /\ used'["unmarked"] = 0 => used["unmarked"] = 0 /\ ~AnyWith("pending")'
        /\ cmds' = cmds \/ ~AnyWith("pending")'
  <1>4. kept
    <2>1. CASE /\ cmds' = [m \in Nodes |-> [i \in DOMAIN cmds[m] |->
                            [cmds[m][i] EXCEPT !.st = IF @ = "pending" THEN "failed" ELSE @]]]
               /\ UNCHANGED used
      <3>1. /\ CmdType' /\ RowsKept
            /\ \A m \in Nodes :
                 /\ Len(cmds'[m]) = Len(cmds[m]) /\ DOMAIN cmds'[m] = DOMAIN cmds[m]
                 /\ \A i \in DOMAIN cmds[m] :
                      /\ cmds'[m][i].st = IF cmds[m][i].st = "pending" THEN "failed" ELSE cmds[m][i].st
                      /\ cmds'[m][i].action = cmds[m][i].action
        BY <2>1, CancelEffect DEF TypeInv
      <3>2. ~AnyWith("pending")'
        BY <3>1 DEF AnyWith
      <3> QED
        BY <2>1, <3>1, <3>2 DEF TypeInv, UsedType
    <2>2. CASE Use("unmarked") /\ UNCHANGED cmds
      <3>1. UsedType' /\ used'["unmarked"] = used["unmarked"] + 1 /\ used["unmarked"] \in Nat
        BY <2>2, UseType DEF TypeInv, BoundNames, UsedType
      <3>2. \A b \in Marks : b # "unmarked" => used'[b] = used[b]
        BY <2>2, UseType DEF TypeInv, BoundNames, Marks
      <3>3. used'["unmarked"] # 0
        BY <3>1
      <3> QED
        BY <2>2, <3>1, <3>2, <3>3 DEF TypeInv, CmdType, RowsKept
    <2> QED
      BY <2>1, <2>2 DEF CancelPending
  <1>5. JobType'
    BY <1>3, <1>4, JobsKept DEF TypeInv
  <1> QED
    BY <1>1, <1>3, <1>4, <1>5, SameHostsType, SameRowsType DEF TypeInv, CreatorType, Creating, ResolverType

\* updateClusterProvisioningStatus writes what it decided and the handler ends.
LEMMA WriteStatusEffect ==
  ASSUME TypeInv, NEW n \in Nodes, WriteStatus(n)
  PROVE  /\ TypeInv' /\ SameHosts /\ UNCHANGED <<inst, status, cmds, creator, resolver, used>>
         /\ handler[n].at = "write" /\ cluster' = handler[n].next
         /\ handler'[n] = NoHandler /\ job'[n] = NoJob
         /\ \A m \in Nodes : m # n => handler'[m] = handler[m] /\ job'[m] = job[m]
  <1>1. /\ SameHosts /\ UNCHANGED <<inst, status, cmds, creator, resolver, used>>
        /\ handler[n].at = "write" /\ cluster' = handler[n].next /\ Return(n)
    BY DEF WriteStatus, SameHosts, keepHosts
  <1>2. handler[n].next \in ClusterStates
    BY DEF TypeInv, HandlerType, Handlers
  <1>3. /\ HandlerType' /\ JobType' /\ handler'[n] = NoHandler /\ job'[n] = NoJob
        /\ \A m \in Nodes : m # n => handler'[m] = handler[m] /\ job'[m] = job[m]
    BY <1>1, ReturnEffect DEF TypeInv
  <1>4. RowType'
    BY <1>1, <1>2 DEF TypeInv, RowType
  <1> QED
    BY <1>1, <1>3, <1>4, SameHostsType DEF TypeInv, CmdType, CreatorType, Creating, ResolverType, UsedType

\* The operator's request has passed its checks.
LEMMA ResolveEffect ==
  ASSUME TypeInv, NEW n \in Nodes, NEW choice \in Choices, ResolveInstallationConflict(n, choice)
  PROVE  /\ TypeInv' /\ SameRows /\ SameHosts /\ UNCHANGED <<cmds, job, creator, handler>>
         /\ Location = "native" /\ inst[n] \in Conflicts /\ cluster = "creating"
         /\ resolver[n].at = "idle" /\ SameMarks
         /\ \A m \in Nodes : m # n => resolver'[m] = resolver[m]
         /\ resolver'[n].at \in {"abort", "install"} /\ resolver'[n].todo = ResolveCommands(n, choice)
  <1>1. /\ SameRows /\ SameHosts /\ UNCHANGED <<cmds, job, creator, handler>>
        /\ Location = "native" /\ inst[n] \in Conflicts /\ cluster = "creating"
        /\ resolver[n].at = "idle" /\ Use("resolves")
    BY DEF ResolveInstallationConflict, SameRows, SameHosts, agentVars
  <1>2. UsedType' /\ SameMarks
    BY <1>1, UseType DEF TypeInv, BoundNames, SameMarks, Marks
  <1> DEFINE x == [at |-> IF choice = "ABORT" THEN "abort" ELSE "install", todo |-> ResolveCommands(n, choice)]
  <1>3. resolver' = [resolver EXCEPT ![n] = x]
    BY DEF ResolveInstallationConflict
  <1>4. /\ ResolveCommands(n, choice) \in Seq(Actions)
        /\ ResolveCommands(n, choice) = <<>> <=> choice = "ABORT"
    BY ResolveCommandsType, ProvisioningAssumption
  <1>5. /\ x \in Resolvers /\ x.at \in {"abort", "install"} /\ x.todo = ResolveCommands(n, choice)
        /\ x.at \in {"install", "queue"} <=> x.todo # <<>>
    BY <1>4 DEF Resolvers
  <1> HIDE DEF x
  <1>6. ResolverType' /\ resolver'[n] = x /\ \A m \in Nodes : m # n => resolver'[m] = resolver[m]
    BY <1>3, <1>5, ResolverPut DEF TypeInv
  <1> QED
    BY <1>1, <1>2, <1>5, <1>6, SameRowsType, SameHostsType, JobsKept, HandlersKept
       DEF TypeInv, CmdType, CreatorType, Creating

\* The state the resolution writes first.
LEMMA ResolveStateEffect ==
  ASSUME TypeInv, NEW n \in Nodes, ResolveState(n)
  PROVE  /\ TypeInv' /\ cluster' = cluster /\ SameHosts /\ UNCHANGED <<cmds, job, creator, handler, used>>
         /\ \A m \in Nodes : m # n => resolver'[m] = resolver[m] /\ inst'[m] = inst[m]
         /\ resolver'[n].todo = resolver[n].todo
         /\ \/ resolver[n].at = "install" /\ resolver'[n].at = "queue" /\ inst'[n] = "installing"
            \/ resolver[n].at = "abort" /\ resolver'[n].at = "stop" /\ inst'[n] = "failed"
  <1>1. /\ cluster' = cluster /\ status' = status /\ SameHosts /\ UNCHANGED <<cmds, job, creator, handler, used>>
    BY DEF ResolveState, SameHosts, agentVars
  <1>2. resolver[n] \in Resolvers /\ (resolver[n].at \in {"install", "queue"} <=> resolver[n].todo # <<>>)
    BY DEF TypeInv, ResolverType
  <1>3. ASSUME NEW at \in {"queue", "stop"}, NEW st \in {"installing", "failed"},
               resolver' = [resolver EXCEPT ![n].at = at], SetInst(n, st),
               at = "queue" <=> resolver[n].todo # <<>>
        PROVE  /\ TypeInv' /\ resolver'[n].at = at /\ resolver'[n].todo = resolver[n].todo /\ inst'[n] = st
               /\ \A m \in Nodes : m # n => resolver'[m] = resolver[m] /\ inst'[m] = inst[m]
    <2> DEFINE x == [resolver[n] EXCEPT !.at = at]
    <2>1. x \in Resolvers /\ x.at = at /\ x.todo = resolver[n].todo
      BY <1>2 DEF Resolvers
    <2>2. resolver' = [resolver EXCEPT ![n] = x]
      BY <1>3
    <2> HIDE DEF x
    <2>3. ResolverType' /\ resolver'[n] = x /\ \A m \in Nodes : m # n => resolver'[m] = resolver[m]
      <3>1. x.at \in {"install", "queue"} <=> x.todo # <<>>
        BY <1>3, <2>1
      <3> QED
        BY <2>1, <2>2, <3>1, ResolverPut DEF TypeInv
    <2>4. RowType' /\ inst'[n] = st /\ \A m \in Nodes : m # n => inst'[m] = inst[m]
      BY <1>1, <1>3 DEF TypeInv, RowType, SetInst, InstallStates
    <2> QED
      BY <1>1, <2>1, <2>3, <2>4, SameHostsType, JobsKept, HandlersKept
         DEF TypeInv, CmdType, CreatorType, Creating, UsedType
  <1>4. CASE resolver[n].at = "install" /\ SetInst(n, "installing") /\ resolver' = [resolver EXCEPT ![n].at = "queue"]
    BY <1>1, <1>2, <1>3, <1>4
  <1>5. CASE resolver[n].at = "abort" /\ SetInst(n, "failed") /\ resolver' = [resolver EXCEPT ![n].at = "stop"]
    BY <1>1, <1>2, <1>3, <1>5
  <1> QED
    BY <1>4, <1>5 DEF ResolveState

\* One command of the resolution is queued.
LEMMA ResolveQueueEffect ==
  ASSUME TypeInv, NEW n \in Nodes, ResolveQueue(n)
  PROVE  /\ TypeInv' /\ SameRows /\ SameHosts /\ UNCHANGED <<job, creator, handler, used>>
         /\ resolver[n].at = "queue" /\ resolver[n].todo \in Seq(Actions) /\ resolver[n].todo # <<>>
         /\ Head(resolver[n].todo) \in Actions /\ Insert(n, Head(resolver[n].todo))
         /\ \A m \in Nodes : m # n => resolver'[m] = resolver[m]
         /\ resolver'[n].todo = Tail(resolver[n].todo)
         /\ resolver'[n].at = IF Len(resolver[n].todo) > 1 THEN "queue" ELSE "idle"
  <1> DEFINE t == resolver[n].todo
  <1>1. /\ SameRows /\ SameHosts /\ UNCHANGED <<job, creator, handler, used>>
        /\ resolver[n].at = "queue" /\ Insert(n, Head(t))
    BY DEF ResolveQueue, SameRows, SameHosts, agentVars
  <1>2. resolver[n] \in Resolvers /\ t \in Seq(Actions) /\ t # <<>>
    BY <1>1 DEF TypeInv, ResolverType, Resolvers
  <1> DEFINE x == [resolver[n] EXCEPT !.todo = Tail(t), !.at = IF Len(t) > 1 THEN "queue" ELSE "idle"]
  <1>3. resolver' = [resolver EXCEPT ![n] = x]
    BY DEF ResolveQueue
  <1>4. Head(t) \in Actions /\ Tail(t) \in Seq(Actions) /\ (Tail(t) # <<>> <=> Len(t) > 1)
    <2> HIDE DEF t
    <2> QED
      BY <1>2, TailKeepsLast
  <1>5. x \in Resolvers /\ x.todo = Tail(t) /\ x.at = IF Len(t) > 1 THEN "queue" ELSE "idle"
    BY <1>2, <1>4 DEF Resolvers
  <1>6. x.at \in {"install", "queue"} <=> x.todo # <<>>
    BY <1>4, <1>5
  <1> HIDE DEF x
  <1>7. ResolverType' /\ resolver'[n] = x /\ \A m \in Nodes : m # n => resolver'[m] = resolver[m]
    BY <1>3, <1>5, <1>6, ResolverPut DEF TypeInv
  <1>8. CmdType' /\ RowsKept
    BY <1>1, <1>4, InsertEffect DEF TypeInv
  <1> QED
    BY <1>1, <1>2, <1>4, <1>5, <1>7, <1>8, JobsKept, HandlersKept, SameRowsType, SameHostsType
       DEF TypeInv, CreatorType, Creating, UsedType

\* An aborted conflict stops the cluster.
LEMMA ResolveAbortEffect ==
  ASSUME TypeInv, NEW n \in Nodes, ResolveAbort(n)
  PROVE  /\ TypeInv' /\ cluster' = "stopped" /\ SameHosts
         /\ UNCHANGED <<inst, status, cmds, job, creator, handler, used>>
         /\ resolver[n].at = "stop" /\ resolver'[n] = NoResolver
         /\ \A m \in Nodes : m # n => resolver'[m] = resolver[m]
  <1>1. /\ cluster' = "stopped" /\ SameHosts /\ UNCHANGED <<inst, status, cmds, job, creator, handler, used>>
        /\ resolver[n].at = "stop" /\ resolver' = [resolver EXCEPT ![n] = NoResolver]
    BY DEF ResolveAbort, SameHosts, agentVars
  <1>2. NoResolver \in Resolvers /\ NoResolver.at = "idle" /\ NoResolver.todo = <<>>
    BY DEF NoResolver, Resolvers
  <1> HIDE DEF NoResolver
  <1>3. ResolverType' /\ resolver'[n] = NoResolver /\ \A m \in Nodes : m # n => resolver'[m] = resolver[m]
    BY <1>1, <1>2, ResolverPut DEF TypeInv
  <1>4. RowType'
    BY <1>1 DEF TypeInv, RowType, ClusterStates
  <1> QED
    BY <1>1, <1>3, <1>4, SameHostsType, JobsKept, HandlersKept DEF TypeInv, CmdType, CreatorType, Creating, UsedType

\* A program is cut short, and the bound says so.
LEMMA AbortHandlerEffect ==
  ASSUME TypeInv, AbortHandler
  PROVE  /\ TypeInv' /\ SameRows /\ SameHosts /\ cmds' = cmds
         /\ used'["aborts"] # 0
         /\ \A b \in Marks : b # "aborts" => used'[b] = used[b]
         /\ \A m \in Nodes : /\ \/ handler'[m] = handler[m] \/ handler'[m] = NoHandler
                                \/ handler[m].at # "idle" /\ handler'[m].at = "check"
                             /\ resolver'[m] = resolver[m] \/ resolver'[m] = NoResolver
                             /\ job'[m] = job[m] \/ (job[m].at = "wait" /\ job'[m] = NoJob)
         /\ creator' = creator \/ (~Creating' /\ creator'.todo = <<>>)
  <1>1. SameRows /\ SameHosts /\ cmds' = cmds /\ Use("aborts")
    BY DEF AbortHandler, SameRows, SameHosts, keepHosts
  <1>2. UsedType' /\ used'["aborts"] # 0 /\ \A b \in Marks : b # "aborts" => used'[b] = used[b]
    <2>1. UsedType' /\ used'["aborts"] = used["aborts"] + 1 /\ used["aborts"] \in Nat
      BY <1>1, UseType DEF TypeInv, BoundNames, UsedType
    <2>2. \A b \in Marks : b # "aborts" => used'[b] = used[b]
      BY <1>1, UseType DEF TypeInv, BoundNames, Marks
    <2> QED
      BY <2>1, <2>2
  <1>3. CASE creator' = [k |-> Len(Order) + 1, todo |-> <<>>] /\ UNCHANGED <<job, handler, resolver>>
    <2>1. /\ Len(Order) \in Nat /\ creator'.k = Len(Order) + 1 /\ creator'.todo = <<>>
          /\ creator' \in [k : Nat, todo : Seq(Actions)]
      BY <1>3, ProvisioningAssumption
    <2>2. ~Creating' /\ CreatorType'
      BY <2>1 DEF CreatorType, Creating
    <2> QED
      BY <1>1, <1>2, <1>3, <2>1, <2>2, SameRowsType, SameHostsType, JobsKept, HandlersKept
         DEF TypeInv, CmdType, ResolverType
  <1>4. ASSUME NEW n \in Nodes, handler[n].at # "idle", Return(n), UNCHANGED <<creator, resolver>>
        PROVE  /\ TypeInv' /\ creator' = creator /\ resolver' = resolver
               /\ \A m \in Nodes : /\ handler'[m] = handler[m] \/ handler'[m] = NoHandler
                                   /\ job'[m] = job[m] \/ (job[m].at = "wait" /\ job'[m] = NoJob)
    <2>1. /\ HandlerType' /\ JobType' /\ handler'[n] = NoHandler /\ job'[n] = NoJob
          /\ \A m \in Nodes : m # n => handler'[m] = handler[m] /\ job'[m] = job[m]
      BY <1>1, <1>4, ReturnEffect DEF TypeInv
    <2>2. job[n].at = "wait"
      BY <1>4 DEF TypeInv, HandlerType
    <2> QED
      BY <1>1, <1>2, <1>4, <2>1, <2>2, SameRowsType, SameHostsType
         DEF TypeInv, CmdType, CreatorType, Creating, ResolverType
  <1>5. ASSUME NEW n \in Nodes, resolver' = [resolver EXCEPT ![n] = NoResolver],
               UNCHANGED <<job, creator, handler>>
        PROVE  /\ TypeInv' /\ creator' = creator /\ job' = job /\ handler' = handler
               /\ \A m \in Nodes : resolver'[m] = resolver[m] \/ resolver'[m] = NoResolver
    <2>1. NoResolver \in Resolvers /\ NoResolver.at = "idle" /\ NoResolver.todo = <<>>
      BY DEF NoResolver, Resolvers
    <2> HIDE DEF NoResolver
    <2>2. ResolverType' /\ resolver'[n] = NoResolver /\ \A m \in Nodes : m # n => resolver'[m] = resolver[m]
      BY <1>5, <2>1, ResolverPut DEF TypeInv
    <2> QED
      BY <1>1, <1>2, <1>5, <2>2, SameRowsType, SameHostsType, JobsKept, HandlersKept
         DEF TypeInv, CmdType, CreatorType, Creating
  <1>6. CASE \E n \in Nodes : handler[n].at # "idle" /\ Return(n) /\ UNCHANGED <<creator, resolver>>
    BY <1>1, <1>2, <1>4, <1>6
  <1>7. CASE \E n \in Nodes : resolver' = [resolver EXCEPT ![n] = NoResolver] /\ UNCHANGED <<job, creator, handler>>
    BY <1>1, <1>2, <1>5, <1>7
  <1>8. ASSUME NEW n \in Nodes, handler[n].at # "idle", UNCHANGED <<job, creator, resolver>>,
               handler' = [handler EXCEPT ![n].at = "check", ![n].todo = <<>>]
        PROVE  /\ TypeInv' /\ creator' = creator /\ resolver' = resolver /\ job' = job
               /\ \A m \in Nodes : handler'[m] = handler[m] \/ (handler[m].at # "idle" /\ handler'[m].at = "check")
    <2> DEFINE x == [handler[n] EXCEPT !.at = "check", !.todo = <<>>]
    <2>1. handler[n] \in Handlers
      BY DEF TypeInv, HandlerType
    <2>2. x \in Handlers /\ x.at = "check" /\ x.todo = <<>>
      <3>1. <<>> \in Seq(Actions) /\ "check" \in Steps
        BY DEF Steps
      <3> QED
        BY <2>1, <3>1 DEF Handlers
    <2>3. handler' = [handler EXCEPT ![n] = x] /\ job[n].at = "wait" /\ job'[n].at = "wait"
      BY <1>8 DEF TypeInv, HandlerType
    <2> HIDE DEF x
    <2>4. HandlerType' /\ handler'[n] = x /\ \A m \in Nodes : m # n => handler'[m] = handler[m]
      BY <1>8, <2>2, <2>3, HandlerPut DEF TypeInv
    <2> QED
      BY <1>1, <1>2, <1>8, <2>2, <2>4, SameRowsType, SameHostsType, JobsKept
         DEF TypeInv, CmdType, CreatorType, Creating, ResolverType
  <1>9. CASE \E n \in Nodes : /\ handler[n].at \in {"apply", "queue", "lifecycle", "lifecycleWrite"}
                              /\ handler' = [handler EXCEPT ![n].at = "check", ![n].todo = <<>>]
                              /\ UNCHANGED <<job, creator, resolver>>
    BY <1>1, <1>2, <1>8, <1>9
  <1> QED
    BY <1>3, <1>6, <1>7, <1>9 DEF AbortHandler

-----------------------------------------------------------------------------
(* The types.                                                              *)

LEMMA Stutter ==
  ASSUME UNCHANGED vars
  PROVE  /\ SameRows /\ SameHosts /\ SamePrograms /\ used' = used
  BY DEF vars, agentVars, serverVars, SameRows, SameHosts, SamePrograms

LEMMA TypeStep == TypeInv /\ [Next]_vars => TypeInv'
  <1> SUFFICES ASSUME TypeInv, [Next]_vars PROVE TypeInv'
    OBVIOUS
  <1>1. CASE QueueCommand
    BY <1>1, QueueCommandEffect
  <1>2. ASSUME NEW n \in Nodes,
               AgentStep(n) \/ HeartbeatStep(n) \/ RestartAgent(n) \/ HandlerStep(n) \/ ResolverStep(n)
                 \/ \E choice \in Choices : ResolveInstallationConflict(n, choice)
        PROVE  TypeInv'
    BY <1>2, FetchEffect, ExecuteEffect, ReportEffect, SendHeartbeatEffect, ReportStatusEffect, RestartEffect,
       HandleResultEffect, QueueContinuationEffect, DecisionEffect, LifecycleWriteEffect, CancelPendingEffect,
       WriteStatusEffect, ResolveEffect, ResolveStateEffect, ResolveQueueEffect, ResolveAbortEffect
       DEF AgentStep, HeartbeatStep, HandlerStep, ResolverStep
  <1>3. CASE AbortHandler
    BY <1>3, AbortHandlerEffect
  <1>4. CASE UNCHANGED vars
    BY <1>4, Stutter, SameRowsType, SameHostsType, SameProgramsType DEF TypeInv, UsedType
  <1> QED
    BY <1>1, <1>2, <1>3, <1>4 DEF Next

\* The rows, the programs and the agents hold only the values the code gives
\* them; a result handler runs exactly while its agent waits for the answer,
\* and an agent works only on a row of its own node.
THEOREM ProvisioningTypeCorrect == Spec => []TypeOK
  <1>1. TypeInv => TypeOK
    BY DEF TypeInv, TypeOK, RowType, CmdType, HostType, JobType, CreatorType, HandlerType, ResolverType,
           UsedType, Commands, Beats, Handlers, Resolvers
  <1>2. Spec => []TypeInv
    BY InitType, TypeStep, PTL DEF Spec
  <1> QED
    BY <1>1, <1>2, PTL

-----------------------------------------------------------------------------
(* What a handler has decided but not yet written.                         *)

\* A decision ends the creation; one taken by the lifecycle code was taken when
\* the creation was over, and what is pending is skipped only to stop.
DecisionInv ==
  \A n \in Nodes :
    /\ handler[n].at = "lifecycleWrite" => cluster # "creating"
    /\ handler[n].at \in {"cancel", "write", "lifecycleWrite"} => handler[n].next # "creating"
    /\ handler[n].at = "cancel" => handler[n].next = "stopped"

LEMMA DecisionInit == Init => DecisionInv
  BY DEF Init, DecisionInv, NoHandler

\* Enough: what a step may do to the cluster and to a handler.
LEMMA DecisionKept ==
  ASSUME DecisionInv, cluster' = cluster \/ cluster' # "creating",
         \A m \in Nodes :
           \/ handler'[m] = handler[m]
           \/ handler'[m].at \notin {"cancel", "write", "lifecycleWrite"}
           \/ handler'[m].at = "lifecycleWrite" /\ cluster # "creating" /\ handler'[m].next # "creating"
           \/ handler'[m].at = "cancel" /\ handler'[m].next = "stopped"
           \/ handler'[m].at = "write" /\ handler'[m].next # "creating"
  PROVE  DecisionInv'
  BY DEF DecisionInv

LEMMA DecisionStep == TypeInv /\ DecisionInv /\ [Next]_vars => DecisionInv'
  <1> SUFFICES ASSUME TypeInv, DecisionInv, [Next]_vars PROVE DecisionInv'
    OBVIOUS
  <1>1. NoHandler.at = "idle"
    BY DEF NoHandler
  <1> HIDE DEF NoHandler
  <1>2. CASE QueueCommand
    <2>1. cluster' = cluster /\ handler' = handler
      BY <1>2, QueueCommandEffect DEF SameRows
    <2> QED
      BY <2>1, DecisionKept
  <1>3. ASSUME NEW n \in Nodes, AgentStep(n) PROVE DecisionInv'
    <2>1. cluster' = cluster /\ \A m \in Nodes : handler'[m] = handler[m] \/ handler'[m].at = "apply"
      BY <1>3, FetchEffect, ExecuteEffect, ReportEffect DEF AgentStep, SameRows
    <2> QED
      BY <2>1, DecisionKept
  <1>4. ASSUME NEW n \in Nodes, HeartbeatStep(n) \/ RestartAgent(n) PROVE DecisionInv'
    <2>1. cluster' = cluster /\ handler' = handler
      BY <1>4, SendHeartbeatEffect, ReportStatusEffect, RestartEffect DEF HeartbeatStep, SamePrograms
    <2> QED
      BY <2>1, DecisionKept
  <1>5. ASSUME NEW n \in Nodes, HandlerStep(n) PROVE DecisionInv'
    <2>1. CASE HandleResult(n)
      <3>1. /\ cluster' = cluster /\ \A m \in Nodes : m # n => handler'[m] = handler[m]
            /\ \/ handler'[n].at \in {"check", "lifecycle", "queue"}
               \/ handler'[n].at = "lifecycleWrite" /\ cluster # "creating" /\ handler'[n].next = "degraded"
        BY <2>1, HandleResultEffect
      <3> QED
        BY <3>1, DecisionKept
    <2>2. CASE QueueContinuation(n)
      <3>1. /\ cluster' = cluster /\ \A m \in Nodes : m # n => handler'[m] = handler[m]
            /\ handler'[n].at \in {"queue", "check"}
        BY <2>2, QueueContinuationEffect DEF SameRows
      <3> QED
        BY <3>1, DecisionKept
    <2>3. CASE UpdateClusterLifecycleStatus(n) \/ CheckNodes(n) \/ CheckCommands(n)
      <3>1. /\ cluster' = cluster /\ \A m \in Nodes : m # n => handler'[m] = handler[m]
            /\ \/ handler'[n].at \in {"idle", "check", "list"}
               \/ /\ handler'[n].at = "lifecycleWrite" /\ cluster # "creating"
                  /\ handler'[n].next \in {"running", "stopped"}
               \/ handler'[n].at = "cancel" /\ handler'[n].next = "stopped"
               \/ handler'[n].at = "write" /\ handler'[n].next = "running"
        BY <1>1, <2>3, DecisionEffect DEF SameRows
      <3> QED
        BY <3>1, DecisionKept
    <2>4. CASE LifecycleWrite(n) \/ WriteStatus(n)
      <3>1. /\ cluster' = handler[n].next /\ handler[n].at \in {"lifecycleWrite", "write"}
            /\ handler'[n].at \in {"check", "idle"} /\ \A m \in Nodes : m # n => handler'[m] = handler[m]
        BY <1>1, <2>4, LifecycleWriteEffect, WriteStatusEffect
      <3>2. cluster' # "creating"
        BY <3>1 DEF DecisionInv
      <3> QED
        BY <3>1, <3>2, DecisionKept
    <2>5. CASE CancelPending(n)
      <3>1. /\ cluster' = cluster /\ \A m \in Nodes : m # n => handler'[m] = handler[m]
            /\ handler'[n].at = "write" /\ handler'[n].next = handler[n].next /\ handler[n].at = "cancel"
        BY <2>5, CancelPendingEffect DEF SameRows
      <3>2. handler'[n].next # "creating"
        BY <3>1 DEF DecisionInv
      <3> QED
        BY <3>1, <3>2, DecisionKept
    <2> QED
      BY <1>5, <2>1, <2>2, <2>3, <2>4, <2>5 DEF HandlerStep
  <1>6. ASSUME NEW n \in Nodes, ResolverStep(n) \/ \E choice \in Choices : ResolveInstallationConflict(n, choice)
        PROVE  DecisionInv'
    <2>1. (cluster' = cluster \/ cluster' = "stopped") /\ handler' = handler
      BY <1>6, ResolveEffect, ResolveStateEffect, ResolveQueueEffect, ResolveAbortEffect DEF ResolverStep, SameRows
    <2> QED
      BY <2>1, DecisionKept
  <1>7. CASE AbortHandler
    <2>1. cluster' = cluster /\ \A m \in Nodes : handler'[m] = handler[m] \/ handler'[m].at \in {"idle", "check"}
      BY <1>1, <1>7, AbortHandlerEffect DEF SameRows
    <2> QED
      BY <2>1, DecisionKept
  <1>8. CASE UNCHANGED vars
    BY <1>8 DEF DecisionInv, vars, serverVars
  <1> QED
    BY <1>2, <1>3, <1>4, <1>5, <1>6, <1>7, <1>8 DEF Next

-----------------------------------------------------------------------------
(* Docker nodes.                                                           *)

AllCompleted == \A n \in Nodes : \A i \in DOMAIN cmds[n] : cmds[n][i].st = "completed"
DecidedRunning(n) == handler[n].at = "write" /\ handler[n].next = "running"
Queued(n) == cmds[n] # <<>> /\ cmds[n][Len(cmds[n])].action = LastCommand(n)

\* No host is looked at first, so there is nothing to continue and nothing to
\* resolve.
NoLook ==
  /\ \A n \in Nodes : \A i \in DOMAIN cmds[n] : cmds[n][i].action # "pg_preflight"
  /\ \A i \in 1..Len(creator.todo) : creator.todo[i] # "pg_preflight"
  /\ \A n \in Nodes : handler[n].at # "queue" /\ resolver[n].at = "idle"

\* No command was fetched from a list that was still being queued.
OnTime == used["early"] = 0
Skipped == used["unmarked"] = 0 => ~AnyWith("pending")

\* The agents begin when CreateCluster is done, and a cluster whose creation is
\* over, or about to be, has nothing pending, unless that could not be skipped.
OverWhenDone ==
  OnTime =>
    /\ Creating => \A n \in Nodes : job[n].at = "idle"
    /\ cluster # "creating" \/ (\E n \in Nodes : handler[n].at = "write") => ~Creating /\ Skipped

\* Who decides that the cluster runs has seen every command completed, and no
\* agent works on a completed command.
RunningDecided ==
  OnTime =>
    \A n \in Nodes : /\ DecidedRunning(n) => AllCompleted
                     /\ job[n].at \in {"run", "report"} => cmds[n][job[n].cmd].st # "completed"

\* Unless CreateCluster was cut short, the nodes it has passed have their last
\* command, and its list ends with the last command of the node it is at.
PassedAreQueued ==
  used["aborts"] = 0 =>
    /\ Creating => creator.todo[Len(creator.todo)] = LastCommand(Order[creator.k])
    /\ \A i \in 1..Len(Order) :
         i < creator.k => Queued(Order[i]) \/ (Creating /\ Order[i] = Order[creator.k])

DockerInv == NoLook /\ OverWhenDone /\ RunningDecided /\ PassedAreQueued

LEMMA DockerInit ==
  ASSUME Location = "docker"
  PROVE  Init => DockerInv
  <1> SUFFICES ASSUME Init PROVE DockerInv
    OBVIOUS
  <1>1. /\ cmds = [n \in Nodes |-> <<>>] /\ creator = [k |-> 1, todo |-> CreateCommands(Order[1])]
        /\ handler = [n \in Nodes |-> NoHandler] /\ resolver = [n \in Nodes |-> NoResolver]
        /\ job = [n \in Nodes |-> NoJob] /\ cluster = "creating"
    BY DEF Init
  <1>2. \A n \in Nodes : handler[n].at = "idle" /\ resolver[n].at = "idle" /\ job[n].at = "idle"
                         /\ DOMAIN cmds[n] = {}
    BY <1>1 DEF NoHandler, NoResolver, NoJob
  <1>3. /\ creator.k = 1 /\ creator.todo = CreateCommands(Order[1]) /\ Len(creator.todo) = 4
        /\ creator.todo[4] = LastCommand(Order[1])
        /\ \A i \in 1..4 : creator.todo[i] # "pg_preflight"
    BY <1>1, CreateCommandsType
  <1>4. NoLook
    BY <1>2, <1>3 DEF NoLook
  <1>5. OverWhenDone /\ RunningDecided
    BY <1>1, <1>2 DEF OverWhenDone, RunningDecided, DecidedRunning
  <1>6. PassedAreQueued
    BY <1>3, ProvisioningAssumption DEF PassedAreQueued
  <1> QED
    BY <1>4, <1>5, <1>6 DEF DockerInv

\* A step that leaves the commands alone.
LEMMA DockerKept ==
  ASSUME DockerInv, cmds' = cmds, \A b \in Marks : used'[b] = 0 => used[b] = 0,
         creator' = creator \/ (~Creating' /\ creator'.todo = <<>> /\ used'["aborts"] # 0),
         \A m \in Nodes : resolver'[m].at = "idle" /\ handler'[m].at # "queue",
         OnTime' => cluster' = cluster \/ (~Creating /\ Skipped),
         OnTime' => \A m \in Nodes :
           /\ Creating => job'[m].at = "idle"
           /\ handler'[m].at = "write" =>
                handler'[m] = handler[m] \/ (~Creating /\ AllCompleted /\ ~AnyWith("pending"))
           /\ job'[m].at \in {"run", "report"} => cmds[m][job'[m].cmd].st # "completed"
  PROVE  DockerInv'
  <1>1. Creating' => Creating /\ creator' = creator
    BY DEF Creating
  <1>2. /\ AnyWith("pending")' <=> AnyWith("pending")
        /\ OnTime' => OnTime /\ (Skipped => Skipped')
    <2>1. AnyWith("pending")' <=> AnyWith("pending")
      BY DEF AnyWith
    <2> QED
      BY <2>1 DEF OnTime, Skipped, Marks
  <1>3. NoLook'
    <2>1. ASSUME creator'.todo = <<>> PROVE \A i \in 1..Len(creator'.todo) : FALSE
      BY <2>1
    <2> QED
      BY <2>1 DEF DockerInv, NoLook
  <1>4. OverWhenDone'
    <2>1. ~Creating => ~Creating'
      BY <1>1
    <2>2. ~AnyWith("pending") => Skipped
      BY DEF Skipped
    <2> QED
      BY <1>1, <1>2, <2>1, <2>2 DEF DockerInv, OverWhenDone
  <1>5. RunningDecided'
    BY <1>2 DEF DockerInv, RunningDecided, DecidedRunning, AllCompleted
  <1>6. PassedAreQueued'
    <2>1. used'["aborts"] = 0 => used["aborts"] = 0
      BY DEF Marks
    <2> QED
      BY <2>1 DEF DockerInv, PassedAreQueued, Queued, Creating
  <1> QED
    BY <1>3, <1>4, <1>5, <1>6 DEF DockerInv

\* A step that changes what commands say but not which commands there are, and
\* makes none pending.
LEMMA DockerQueuedKept ==
  ASSUME CmdType, CmdType', PassedAreQueued, creator' = creator, used'["aborts"] = used["aborts"],
         \A m \in Nodes : /\ Len(cmds'[m]) = Len(cmds[m])
                          /\ \A i \in DOMAIN cmds[m] : cmds'[m][i].action = cmds[m][i].action
  PROVE  PassedAreQueued'
  <1>1. ASSUME NEW m \in Nodes, Queued(m) PROVE Queued(m)'
    <2> DEFINE l == Len(cmds[m])
    <2>1. /\ cmds[m] \in Seq(Commands) /\ cmds'[m] \in Seq(Commands) /\ cmds[m] # <<>>
          /\ cmds[m][l].action = LastCommand(m) /\ Len(cmds'[m]) = l
      BY <1>1 DEF CmdType, Queued
    <2>2. l \in DOMAIN cmds[m] /\ cmds'[m] # <<>>
      BY <2>1, NonEmpty
    <2>3. cmds'[m][l].action = LastCommand(m)
      BY <2>1, <2>2
    <2> QED
      BY <2>1, <2>2, <2>3 DEF Queued, LastCommand
  <1>2. \A i \in 1..Len(Order) : Order[i] \in Nodes
    BY ProvisioningAssumption
  <1> QED
    BY <1>1, <1>2 DEF PassedAreQueued, Creating, LastCommand

\* CreateCluster queues a command: nothing else has begun.
LEMMA DockerQueueCommand ==
  ASSUME Location = "docker", TypeInv, DockerInv, QueueCommand
  PROVE  DockerInv'
  <1> DEFINE k == creator.k
  <1> DEFINE t == creator.todo
  <1> PICK q \in Nodes : q = Order[k]
    BY QueueCommandEffect
  <1>1. /\ TypeInv' /\ Creating /\ q \in Nodes /\ t # <<>> /\ Head(t) \in Actions /\ Insert(q, Head(t))
        /\ cluster' = cluster /\ UNCHANGED <<job, handler, resolver, used>>
        /\ \/ Len(t) > 1 /\ creator'.k = k /\ creator'.todo = Tail(t)
           \/ /\ Len(t) = 1 /\ creator'.k = k + 1
              /\ k < Len(Order) => creator'.todo = CreateCommands(Order[k + 1])
              /\ k >= Len(Order) => creator'.todo = <<>>
    BY QueueCommandEffect DEF SameRows
  <1>2. /\ t \in Seq(Actions) /\ k \in Nat /\ k >= 1 /\ Len(Order) \in Nat /\ k <= Len(Order)
        /\ \A i \in 1..Len(Order) : Order[i] \in Nodes
    <2>1. t \in Seq(Actions) /\ k \in Nat /\ k >= 1 /\ k <= Len(Order)
      BY <1>1 DEF TypeInv, CreatorType, Creating
    <2> QED
      BY <2>1, ProvisioningAssumption
  <1>3. /\ \A m \in Nodes : m # q => cmds'[m] = cmds[m]
        /\ Len(cmds'[q]) = Len(cmds[q]) + 1
        /\ \A i \in 1..Len(cmds[q]) : cmds'[q][i] = cmds[q][i]
        /\ cmds'[q][Len(cmds[q]) + 1] = [action |-> Head(t), st |-> "pending"]
    BY <1>1, InsertEffect DEF TypeInv
  <1>4. OnTime => \A m \in Nodes : job[m].at = "idle" /\ handler[m].at = "idle"
    BY <1>1 DEF DockerInv, OverWhenDone, TypeInv, HandlerType
  <1>5. OnTime => cluster = "creating"
    BY <1>1 DEF DockerInv, OverWhenDone
  <1>6. /\ Head(t) = t[1] /\ Len(t) \in Nat /\ 1 \in 1..Len(t)
        /\ Tail(t) # <<>> => Tail(t)[Len(Tail(t))] = t[Len(t)]
        /\ (\A i \in 1..Len(t) : t[i] # "pg_preflight") =>
             \A i \in 1..Len(Tail(t)) : Tail(t)[i] # "pg_preflight"
        /\ Tail(t) # <<>> <=> Len(t) > 1
    <2> HIDE DEF t
    <2>1. t \in Seq(Actions) /\ t # <<>>
      BY <1>1, <1>2
    <2>2. Head(t) = t[1] /\ Len(t) \in Nat /\ Len(t) >= 1
      BY <2>1, NonEmpty
    <2> QED
      BY <2>1, <2>2, TailKeepsLast
  <1>7. \A m \in Nodes : cmds[m] \in Seq(Commands) /\ cmds'[m] \in Seq(Commands)
    BY <1>1 DEF TypeInv, CmdType
  <1>8. NoLook'
    <2>1. Head(t) # "pg_preflight" /\ \A i \in 1..Len(Tail(t)) : Tail(t)[i] # "pg_preflight"
      BY <1>6 DEF DockerInv, NoLook
    <2>2. ASSUME NEW m \in Nodes, NEW i \in DOMAIN cmds'[m] PROVE cmds'[m][i].action # "pg_preflight"
      <3>1. CASE m # q
        BY <1>3, <3>1 DEF DockerInv, NoLook
      <3>2. CASE m = q
        <4> DEFINE l == Len(cmds[q])
        <4>1. l \in Nat /\ DOMAIN cmds[q] = 1..l /\ DOMAIN cmds'[q] = 1..(l + 1)
          BY <1>1, <1>3, <1>7
        <4>2. CASE i \in 1..l
          BY <1>3, <3>2, <4>1, <4>2 DEF DockerInv, NoLook
        <4>3. CASE i = l + 1
          BY <1>3, <2>1, <3>2, <4>3
        <4> HIDE DEF l
        <4> QED
          BY <3>2, <4>1, <4>2, <4>3
      <3> QED
        BY <3>1, <3>2
    <2>3. \A i \in 1..Len(creator'.todo) : creator'.todo[i] # "pg_preflight"
      <3>1. CASE creator'.todo = Tail(t)
        BY <2>1, <3>1
      <3>2. CASE \E n \in Nodes : creator'.todo = CreateCommands(n)
        BY <3>2, CreateCommandsType
      <3>3. CASE creator'.todo = <<>>
        BY <3>3
      <3>4. k < Len(Order) => Order[k + 1] \in Nodes
        BY <1>2
      <3> HIDE DEF k, t
      <3>5. k < Len(Order) \/ k >= Len(Order)
        BY <1>2
      <3> QED
        BY <1>1, <3>1, <3>2, <3>3, <3>4, <3>5
    <2> QED
      BY <1>1, <2>2, <2>3 DEF DockerInv, NoLook
  <1>9. OverWhenDone' /\ RunningDecided'
    BY <1>1, <1>4, <1>5 DEF OverWhenDone, RunningDecided, DecidedRunning, OnTime
  <1>10. PassedAreQueued'
    <2> SUFFICES ASSUME used["aborts"] = 0 PROVE PassedAreQueued'
      BY <1>1 DEF PassedAreQueued
    <2>1. /\ t[Len(t)] = LastCommand(q)
          /\ \A i \in 1..Len(Order) : i < k => Queued(Order[i]) \/ Order[i] = q
      BY <1>1 DEF DockerInv, PassedAreQueued
    <2>2. \A m \in Nodes : m # q /\ Queued(m) => Queued(m)'
      BY <1>3 DEF Queued, LastCommand
    <2>3. CASE Len(t) > 1 /\ creator'.k = k /\ creator'.todo = Tail(t)
      <3>1. creator'.todo[Len(creator'.todo)] = LastCommand(Order[creator'.k])
        BY <1>6, <2>1, <2>3
      <3>2. ASSUME NEW i \in 1..Len(Order), i < creator'.k
            PROVE  Queued(Order[i])' \/ (Creating' /\ Order[i] = Order[creator'.k])
        <4>1. Creating'
          BY <1>1, <2>3 DEF Creating
        <4> QED
          BY <1>2, <2>1, <2>2, <2>3, <3>2, <4>1
      <3> QED
        BY <3>1, <3>2 DEF PassedAreQueued, LastCommand
    <2>4. CASE /\ Len(t) = 1 /\ creator'.k = k + 1
               /\ k < Len(Order) => creator'.todo = CreateCommands(Order[k + 1])
      <3>1. Queued(q)'
        <4>1. Head(t) = LastCommand(q)
          BY <1>6, <2>1, <2>4
        <4> DEFINE l == Len(cmds[q])
        <4>2. /\ l \in Nat /\ Len(cmds'[q]) = l + 1 /\ cmds'[q] \in Seq(Commands)
              /\ cmds'[q][l + 1].action = Head(t)
          BY <1>1, <1>3, <1>7
        <4> HIDE DEF l, t
        <4>3. cmds'[q] # <<>>
          <5>1. Len(cmds'[q]) >= 1
            BY <4>2
          <5> QED
            BY <4>2, <5>1, NonEmpty
        <4> QED
          BY <4>1, <4>2, <4>3 DEF Queued, LastCommand
      <3>2. ASSUME NEW i \in 1..Len(Order), i < creator'.k PROVE Queued(Order[i])'
        <4>1. i < k \/ i = k
          BY <1>2, <2>4, <3>2
        <4>2. CASE i = k
          BY <3>1, <4>2
        <4>3. CASE i < k
          <5>1. Order[i] \in Nodes /\ (Queued(Order[i]) \/ Order[i] = q)
            BY <1>2, <2>1, <4>3
          <5>2. CASE Order[i] = q
            BY <3>1, <5>2
          <5>3. CASE Order[i] # q
            BY <2>2, <5>1, <5>3
          <5> QED
            BY <5>2, <5>3
        <4> QED
          BY <4>1, <4>2, <4>3
      <3>3. Creating' => creator'.todo[Len(creator'.todo)] = LastCommand(Order[creator'.k])
        <4> SUFFICES ASSUME Creating' PROVE creator'.todo[Len(creator'.todo)] = LastCommand(Order[creator'.k])
          OBVIOUS
        <4>1. k < Len(Order)
          BY <1>2, <2>4 DEF Creating
        <4> QED
          BY <2>4, <4>1, CreateCommandsType
      <3> QED
        BY <3>2, <3>3 DEF PassedAreQueued, LastCommand
    <2> QED
      BY <1>1, <2>3, <2>4
  <1> QED
    BY <1>8, <1>9, <1>10 DEF DockerInv

\* A result is stored: no command becomes pending, and no agent reports while
\* the cluster is about to run.
LEMMA DockerReport ==
  ASSUME TypeInv, DockerInv, NEW n \in Nodes, ReportCommandResult(n)
  PROVE  DockerInv'
  <1>1. /\ TypeInv' /\ cluster' = cluster /\ UNCHANGED <<creator, resolver>>
        /\ job[n].at = "report" /\ SameMarks
        /\ \A m \in Nodes : m # n => job'[m] = job[m] /\ handler'[m] = handler[m] /\ cmds'[m] = cmds[m]
        /\ \/ cmds' = cmds /\ handler' = handler /\ job'[n] = NoJob
           \/ /\ cmds' = [cmds EXCEPT ![n][job[n].cmd].st = IF job[n].ok THEN "completed" ELSE "failed"]
              /\ job'[n].at = "wait" /\ handler'[n].at = "apply"
    BY ReportEffect DEF SameRows
  <1>2. /\ \A b \in Marks : used'[b] = used[b]
        /\ OnTime' <=> OnTime
        /\ OnTime => ~Creating /\ ~Creating'
    BY <1>1 DEF DockerInv, OverWhenDone, Creating, SameMarks, Marks, OnTime
  <1>3. CASE cmds' = cmds /\ handler' = handler /\ job'[n] = NoJob
    <2>1. NoJob.at = "idle"
      BY DEF NoJob
    <2>2. \A m \in Nodes :
            /\ resolver'[m].at = "idle" /\ handler'[m].at # "queue"
            /\ OnTime /\ job'[m].at \in {"run", "report"} => cmds[m][job'[m].cmd].st # "completed"
      BY <1>1, <1>3, <2>1 DEF DockerInv, NoLook, RunningDecided
    <2> QED
      BY <1>1, <1>2, <1>3, <2>2, DockerKept
  <1>4. CASE /\ cmds' = [cmds EXCEPT ![n][job[n].cmd].st = IF job[n].ok THEN "completed" ELSE "failed"]
             /\ job'[n].at = "wait" /\ handler'[n].at = "apply"
    <2> DEFINE v == IF job[n].ok THEN "completed" ELSE "failed"
    <2>1. job[n].cmd \in DOMAIN cmds[n] /\ v \in Statuses /\ v # "pending"
      BY <1>1 DEF TypeInv, JobType, Statuses
    <2>2. cmds' = [cmds EXCEPT ![n][job[n].cmd].st = v]
      BY <1>4
    <2> HIDE DEF v
    <2>3. /\ CmdType' /\ RowsKept /\ Len(cmds'[n]) = Len(cmds[n]) /\ DOMAIN cmds'[n] = DOMAIN cmds[n]
          /\ \A i \in DOMAIN cmds[n] : cmds'[n][i].st = IF i = job[n].cmd THEN v ELSE cmds[n][i].st
      <3>1. /\ CmdType' /\ RowsKept /\ Len(cmds'[n]) = Len(cmds[n])
            /\ \A j \in 1..Len(cmds[n]) : j # job[n].cmd => cmds'[n][j] = cmds[n][j]
            /\ cmds'[n][job[n].cmd].st = v
        <4>1. CmdType
          BY DEF TypeInv
        <4>2. CmdType' /\ RowsKept
          BY <2>1, <2>2, <4>1, ResultEffect
        <4>3. Len(cmds'[n]) = Len(cmds[n])
          BY <2>1, <2>2, <4>1, ResultEffect
        <4>4. \A j \in 1..Len(cmds[n]) : j # job[n].cmd => cmds'[n][j] = cmds[n][j]
          BY <2>1, <2>2, <4>1, ResultEffect
        <4>5. cmds'[n][job[n].cmd].st = v
          BY <2>1, <2>2, <4>1, ResultEffect
        <4> QED
          BY <4>2, <4>3, <4>4, <4>5
      <3>2. DOMAIN cmds[n] = 1..Len(cmds[n]) /\ DOMAIN cmds'[n] = 1..Len(cmds'[n])
        BY <3>1 DEF TypeInv, CmdType
      <3> QED
        BY <3>1, <3>2
    <2>4. NoLook'
      BY <1>1, <1>4, <2>3 DEF DockerInv, NoLook, RowsKept
    <2>5. AnyWith("pending")' => AnyWith("pending")
      BY <1>1, <2>1, <2>3 DEF AnyWith
    <2>6. OverWhenDone'
      <3>1. ASSUME NEW m \in Nodes, handler'[m].at = "write" PROVE handler[m].at = "write"
        BY <1>1, <1>4, <3>1
      <3> QED
        BY <1>1, <1>2, <2>5, <3>1 DEF DockerInv, OverWhenDone, Skipped, Marks
    <2>7. OnTime => \A m \in Nodes : ~DecidedRunning(m)
      BY <1>1, <2>1 DEF DockerInv, RunningDecided, AllCompleted
    <2>8. RunningDecided'
      <3>1. OnTime => \A m \in Nodes : ~DecidedRunning(m)'
        BY <1>1, <1>4, <2>7 DEF DecidedRunning
      <3>2. ASSUME OnTime, NEW m \in Nodes, job'[m].at \in {"run", "report"}
            PROVE  cmds'[m][job'[m].cmd].st # "completed"
        BY <1>1, <1>4, <3>2 DEF DockerInv, RunningDecided
      <3> QED
        BY <1>2, <3>1, <3>2 DEF RunningDecided
    <2>9. PassedAreQueued'
      <3>1. \A m \in Nodes : /\ Len(cmds'[m]) = Len(cmds[m])
                             /\ \A i \in DOMAIN cmds[m] : cmds'[m][i].action = cmds[m][i].action
        BY <1>1, <2>3 DEF RowsKept
      <3> QED
        BY <1>1, <2>3, <3>1, DockerQueuedKept DEF DockerInv, TypeInv, SameMarks, Marks
    <2> QED
      BY <2>4, <2>6, <2>8, <2>9 DEF DockerInv
  <1> QED
    BY <1>1, <1>3, <1>4

\* What is pending is skipped: nothing is left for the agents, unless that fails.
LEMMA DockerCancel ==
  ASSUME TypeInv, DockerInv, DecisionInv, NEW n \in Nodes, CancelPending(n)
  PROVE  DockerInv'
  <1>1. /\ TypeInv' /\ cluster' = cluster /\ UNCHANGED <<job, creator, resolver>>
        /\ handler[n].at = "cancel" /\ handler'[n].at = "write" /\ handler'[n].next = handler[n].next
        /\ \A m \in Nodes : m # n => handler'[m] = handler[m]
    BY CancelPendingEffect DEF SameRows
  <1>2. /\ CmdType'
        /\ \A m \in Nodes :
             /\ Len(cmds'[m]) = Len(cmds[m]) /\ DOMAIN cmds'[m] = DOMAIN cmds[m]
             /\ \A i \in DOMAIN cmds[m] :
                  /\ cmds'[m][i].st \in {cmds[m][i].st, "failed"}
                  /\ cmds[m][i].st # "pending" => cmds'[m][i].st = cmds[m][i].st
                  /\ cmds'[m][i].action = cmds[m][i].action
    BY CancelPendingEffect DEF TypeInv
  <1>3. handler[n].next = "stopped" /\ job[n].at = "wait" /\ (OnTime => ~Creating)
    BY <1>1 DEF DecisionInv, DockerInv, OverWhenDone, TypeInv, HandlerType
  <1>4. (OnTime' <=> OnTime) /\ used'["aborts"] = used["aborts"] /\ Skipped'
    BY CancelPendingEffect DEF OnTime, Skipped, Marks
  <1>5. NoLook'
    BY <1>1, <1>2 DEF DockerInv, NoLook
  <1>6. OverWhenDone'
    BY <1>1, <1>3, <1>4 DEF OverWhenDone, Creating
  <1>7. RunningDecided'
    <2>1. ASSUME OnTime, NEW m \in Nodes, DecidedRunning(m)' PROVE AllCompleted'
      <3>1. DecidedRunning(m)
        BY <1>1, <1>3, <2>1 DEF DecidedRunning
      <3> QED
        BY <1>2, <2>1, <3>1 DEF DockerInv, RunningDecided, AllCompleted
    <2>2. ASSUME OnTime, NEW m \in Nodes, job'[m].at \in {"run", "report"} PROVE cmds'[m][job'[m].cmd].st # "completed"
      <3>1. job[m].cmd \in DOMAIN cmds[m] /\ cmds[m][job[m].cmd].st # "completed"
        BY <1>1, <2>2 DEF DockerInv, RunningDecided, TypeInv, JobType
      <3> QED
        BY <1>1, <1>2, <3>1
    <2> QED
      BY <1>4, <2>1, <2>2 DEF RunningDecided
  <1>8. PassedAreQueued'
    BY <1>1, <1>2, <1>4, DockerQueuedKept DEF DockerInv, TypeInv
  <1> QED
    BY <1>5, <1>6, <1>7, <1>8 DEF DockerInv

LEMMA DockerStep ==
  ASSUME Location = "docker"
  PROVE  TypeInv /\ DecisionInv /\ DockerInv /\ [Next]_vars => DockerInv'
  <1> SUFFICES ASSUME TypeInv, DecisionInv, DockerInv, [Next]_vars PROVE DockerInv'
    OBVIOUS
  <1>1. NoHandler.at = "idle" /\ NoJob.at = "idle" /\ NoResolver.at = "idle"
    BY DEF NoHandler, NoJob, NoResolver
  <1> HIDE DEF NoHandler, NoJob, NoResolver
  <1>2. /\ \A m \in Nodes : /\ handler[m].at # "queue" /\ resolver[m].at = "idle"
                            /\ handler[m].at # "idle" <=> job[m].at = "wait"
        /\ OnTime =>
             /\ \A m \in Nodes : /\ job[m].at \in {"run", "report"} => cmds[m][job[m].cmd].st # "completed"
                                 /\ Creating => job[m].at = "idle" /\ handler[m].at = "idle"
             /\ cluster # "creating" => ~Creating /\ Skipped
    BY DEF DockerInv, NoLook, OverWhenDone, RunningDecided, TypeInv, HandlerType
  <1> DEFINE recorded == \A b \in Marks : used'[b] = 0 => used[b] = 0
  <1>0. ASSUME recorded, OnTime' PROVE OnTime
    BY <1>0 DEF OnTime, Marks
  <1>3. CASE QueueCommand
    BY <1>3, DockerQueueCommand
  <1>4. ASSUME NEW n \in Nodes, FetchCommand(n) PROVE DockerInv'
    <2>1. /\ cluster' = cluster /\ UNCHANGED <<cmds, creator, handler, resolver>>
          /\ recorded /\ (OnTime' => ~Creating)
          /\ \A m \in Nodes : m # n => job'[m] = job[m]
          /\ cmds[n][job'[n].cmd].st = "pending"
      BY <1>4, FetchEffect DEF SameRows, OnTime, Marks
    <2>2. OnTime => \A m \in Nodes : job'[m].at \in {"run", "report"} => cmds[m][job'[m].cmd].st # "completed"
      BY <1>2, <2>1
    <2> QED
      BY <1>0, <1>2, <2>1, <2>2, DockerKept
  <1>5. ASSUME NEW n \in Nodes, ExecuteCommand(n) PROVE DockerInv'
    <2>1. /\ cluster' = cluster /\ UNCHANGED <<cmds, creator, handler, resolver>> /\ job[n].at = "run"
          /\ recorded
          /\ \A m \in Nodes : m # n => job'[m] = job[m]
          /\ job'[n].cmd = job[n].cmd
      BY <1>5, ExecuteEffect DEF SameRows, SameMarks
    <2>2. OnTime => \A m \in Nodes : job'[m].at \in {"run", "report"} => cmds[m][job'[m].cmd].st # "completed"
      BY <1>2, <2>1
    <2>3. OnTime => ~Creating
      BY <1>2, <2>1
    <2> QED
      BY <1>0, <1>2, <2>1, <2>2, <2>3, DockerKept
  <1>6. ASSUME NEW n \in Nodes, ReportCommandResult(n) PROVE DockerInv'
    BY <1>6, DockerReport
  <1>7. ASSUME NEW n \in Nodes, HeartbeatStep(n) \/ RestartAgent(n) PROVE DockerInv'
    <2>1. /\ cluster' = cluster /\ UNCHANGED <<cmds, creator, handler, resolver>>
          /\ recorded
          /\ \A m \in Nodes : job'[m] = job[m] \/ job'[m].at = "idle"
      <3>1. CASE SendHeartbeat(n)
        BY <3>1, SendHeartbeatEffect DEF SamePrograms
      <3>2. CASE ReportStatus(n)
        BY <3>2, ReportStatusEffect DEF SamePrograms, Marks
      <3>3. CASE RestartAgent(n)
        BY <1>1, <3>3, RestartEffect DEF SameMarks
      <3> QED
        BY <1>7, <3>1, <3>2, <3>3 DEF HeartbeatStep
    <2>2. OnTime => \A m \in Nodes : job'[m].at \in {"run", "report"} => cmds[m][job'[m].cmd].st # "completed"
      BY <1>2, <2>1
    <2> QED
      BY <1>0, <1>2, <2>1, <2>2, DockerKept
  <1>8. ASSUME NEW n \in Nodes, HandleResult(n) PROVE DockerInv'
    <2>1. /\ UNCHANGED <<cluster, cmds, job, creator, resolver, used>>
          /\ \A m \in Nodes : m # n => handler'[m] = handler[m]
          /\ job[n].at = "wait"
          /\ \/ handler'[n].at \in {"check", "lifecycle", "lifecycleWrite"}
             \/ Action(n) = "pg_preflight"
      BY <1>8, HandleResultEffect
    <2>2. Action(n) # "pg_preflight"
      BY <2>1 DEF Action, DockerInv, NoLook, TypeInv, JobType
    <2>3. recorded
      BY <2>1
    <2> QED
      BY <1>0, <1>2, <2>1, <2>2, <2>3, DockerKept
  <1>9. ASSUME NEW n \in Nodes, QueueContinuation(n) PROVE FALSE
    BY <1>2, <1>9 DEF QueueContinuation
  <1>10. ASSUME NEW n \in Nodes, UpdateClusterLifecycleStatus(n) \/ CheckNodes(n) \/ CheckCommands(n)
         PROVE  DockerInv'
    <2>1. /\ cluster' = cluster /\ UNCHANGED <<cmds, creator, resolver, used>>
          /\ \A m \in Nodes : m # n => handler'[m] = handler[m] /\ job'[m] = job[m]
          /\ handler[n].at \in {"lifecycle", "check", "list"}
          /\ job'[n] = job[n] \/ job'[n] = NoJob
          /\ \/ handler'[n].at \in {"idle", "check", "list", "cancel", "lifecycleWrite"}
             \/ handler'[n].at = "write" /\ ~AnyWith("failed") /\ ~AnyWith("pending")
      BY <1>1, <1>10, DecisionEffect DEF SameRows
    <2>2. (OnTime => ~Creating) /\ recorded
      BY <1>2, <2>1
    <2>3. ~AnyWith("failed") /\ ~AnyWith("pending") => AllCompleted
      <3>1. ASSUME NEW m \in Nodes, NEW i \in DOMAIN cmds[m] PROVE cmds[m][i].st \in Statuses
        BY CmdOf DEF TypeInv, Commands
      <3> QED
        BY <3>1 DEF AnyWith, AllCompleted, Statuses
    <2>4. \A m \in Nodes :
            /\ OnTime /\ job'[m].at \in {"run", "report"} => cmds[m][job'[m].cmd].st # "completed"
            /\ handler'[m].at # "queue"
            /\ OnTime /\ handler'[m].at = "write" =>
                 handler'[m] = handler[m] \/ (~Creating /\ AllCompleted /\ ~AnyWith("pending"))
      BY <1>1, <1>2, <2>1, <2>2, <2>3
    <2>5. OnTime /\ Creating => \A m \in Nodes : job'[m].at = "idle"
      BY <2>2
    <2> QED
      BY <1>0, <1>2, <2>1, <2>2, <2>4, <2>5, DockerKept
  <1>11. ASSUME NEW n \in Nodes, LifecycleWrite(n) \/ WriteStatus(n) PROVE DockerInv'
    <2>1. /\ UNCHANGED <<cmds, creator, resolver, used>>
          /\ handler[n].at \in {"lifecycleWrite", "write"}
          /\ \A m \in Nodes : m # n => handler'[m] = handler[m] /\ job'[m] = job[m]
          /\ job'[n] = job[n] \/ job'[n] = NoJob
          /\ handler'[n].at \in {"check", "idle"}
      BY <1>1, <1>11, LifecycleWriteEffect, WriteStatusEffect
    <2>2. (OnTime => ~Creating /\ Skipped) /\ recorded
      BY <2>1 DEF DockerInv, OverWhenDone, DecisionInv
    <2>3. \A m \in Nodes :
            /\ OnTime /\ job'[m].at \in {"run", "report"} => cmds[m][job'[m].cmd].st # "completed"
            /\ handler'[m].at # "queue"
            /\ handler'[m].at = "write" => handler'[m] = handler[m]
      BY <1>1, <1>2, <2>1
    <2> QED
      BY <1>0, <1>2, <2>1, <2>2, <2>3, DockerKept
  <1>12. ASSUME NEW n \in Nodes, CancelPending(n) PROVE DockerInv'
    BY <1>12, DockerCancel
  <1>13. ASSUME NEW n \in Nodes, ResolverStep(n) PROVE FALSE
    BY <1>2, <1>13 DEF ResolverStep, ResolveState, ResolveQueue, ResolveAbort
  <1>14. ASSUME NEW n \in Nodes, NEW choice \in Choices, ResolveInstallationConflict(n, choice) PROVE FALSE
    BY <1>14 DEF ResolveInstallationConflict
  <1>15. CASE AbortHandler
    <2>1. /\ cluster' = cluster /\ cmds' = cmds /\ used'["aborts"] # 0
          /\ creator' = creator \/ (~Creating' /\ creator'.todo = <<>>)
          /\ \A m \in Nodes : /\ handler'[m] = handler[m] \/ handler'[m].at \in {"idle", "check"}
                              /\ resolver'[m] = resolver[m] \/ resolver'[m].at = "idle"
                              /\ job'[m] = job[m] \/ job'[m].at = "idle"
          /\ recorded
      BY <1>1, <1>15, AbortHandlerEffect DEF SameRows, Marks
    <2>2. \A m \in Nodes :
            /\ OnTime /\ job'[m].at \in {"run", "report"} => cmds[m][job'[m].cmd].st # "completed"
            /\ handler'[m].at # "queue" /\ resolver'[m].at = "idle"
      BY <1>2, <2>1
    <2> QED
      BY <1>0, <1>2, <2>1, <2>2, DockerKept
  <1>16. CASE UNCHANGED vars
    <2>1. UNCHANGED <<cluster, cmds, job, creator, handler, resolver, used>> /\ recorded
      BY <1>16 DEF vars, serverVars, agentVars
    <2> QED
      BY <1>0, <1>2, <2>1, DockerKept
  <1> QED
    BY <1>3, <1>4, <1>5, <1>6, <1>7, <1>8, <1>9, <1>10, <1>11, <1>12, <1>13, <1>14, <1>15, <1>16
       DEF Next, AgentStep, HandlerStep

-----------------------------------------------------------------------------
(* What the operator is shown.                                             *)

\* The progress has reached its last step when every command is completed.
LEMMA CompletedProgress ==
  ASSUME CmdType, AllCompleted
  PROVE  GetClusterHealth.progress.completed = GetClusterHealth.progress.total
  <1> DEFINE With(st) == UNION {{<<n, i>> : i \in {j \in DOMAIN cmds[n] : cmds[n][j].st \in st}} : n \in Nodes}
  <1>1. ASSUME NEW n \in Nodes
        PROVE  {j \in DOMAIN cmds[n] : cmds[n][j].st \in {"completed"}}
                 = {j \in DOMAIN cmds[n] : cmds[n][j].st \in Statuses}
    BY DEF AllCompleted, Statuses
  <1>2. With({"completed"}) = With(Statuses)
    BY <1>1
  <1> HIDE DEF With
  <1>3. Cardinality(With({"completed"})) = Cardinality(With(Statuses))
    BY <1>2
  <1> QED
    BY <1>3 DEF With, GetClusterHealth, computeActionProgress

\* The step RunningWhenFinished allows.
FinishedStep ==
  cluster = "creating" /\ cluster' = "running" /\ Orderly
    => /\ GetClusterHealth.progress.completed = GetClusterHealth.progress.total
       /\ \A n \in Nodes : AllQueued(n)

\* A cluster leaves creating for running only by the decision of a result
\* handler.
LEMMA OnlyWriteStatusRuns ==
  ASSUME TypeInv, DecisionInv, [Next]_vars, cluster = "creating", cluster' = "running"
  PROVE  \E n \in Nodes : DecidedRunning(n)
  <1>1. ~UNCHANGED vars
    BY DEF vars
  <1>2. ~QueueCommand /\ ~AbortHandler
    BY DEF QueueCommand, AbortHandler
  <1>3. ASSUME NEW n \in Nodes
        PROVE  /\ ~AgentStep(n) /\ ~HeartbeatStep(n) /\ ~RestartAgent(n) /\ ~ResolverStep(n)
               /\ \A choice \in Choices : ~ResolveInstallationConflict(n, choice)
    BY DEF AgentStep, FetchCommand, ExecuteCommand, ReportCommandResult, HeartbeatStep, SendHeartbeat,
           ReportStatus, RestartAgent, ResolverStep, ResolveState, ResolveQueue, ResolveAbort,
           ResolveInstallationConflict
  <1>4. ASSUME NEW n \in Nodes, HandlerStep(n) PROVE DecidedRunning(n)
    BY <1>4 DEF HandlerStep, HandleResult, QueueContinuation, UpdateClusterLifecycleStatus, LifecycleWrite,
                CheckNodes, CheckCommands, CancelPending, WriteStatus, DecisionInv, DecidedRunning
  <1> QED
    BY <1>1, <1>2, <1>3, <1>4 DEF Next

LEMMA DockerFinished ==
  ASSUME TypeInv, DecisionInv, DockerInv, [Next]_vars
  PROVE  FinishedStep
  <1> SUFFICES ASSUME cluster = "creating", cluster' = "running", Orderly
               PROVE  /\ GetClusterHealth.progress.completed = GetClusterHealth.progress.total
                      /\ \A n \in Nodes : AllQueued(n)
    BY DEF FinishedStep
  <1>1. PICK m \in Nodes : DecidedRunning(m)
    BY OnlyWriteStatusRuns
  <1>2. AllCompleted /\ ~Creating /\ used["aborts"] = 0
    BY <1>1 DEF DockerInv, RunningDecided, OverWhenDone, DecidedRunning, OnTime, Orderly
  <1>3. ASSUME NEW n \in Nodes PROVE AllQueued(n)
    <2>1. PICK i \in 1..Len(Order) : Order[i] = n
      BY ProvisioningAssumption
    <2>2. i < creator.k
      <3>1. Len(Order) \in Nat /\ creator.k \in Nat
        BY ProvisioningAssumption DEF TypeInv, CreatorType
      <3> QED
        BY <1>2, <3>1 DEF Creating
    <2>3. Queued(n)
      BY <1>2, <2>1, <2>2 DEF DockerInv, PassedAreQueued
    <2>4. handler[n].todo = <<>> /\ resolver[n].todo = <<>>
      BY DEF DockerInv, NoLook, TypeInv, HandlerType, ResolverType
    <2> QED
      BY <2>3, <2>4 DEF AllQueued, Queued, LastCommand
  <1> QED
    BY <1>2, <1>3, CompletedProgress DEF TypeInv

\* Once a failure has stopped a cluster of docker nodes nothing is left for any
\* agent to do, whichever handler was cut short, whatever was lost and however
\* many nodes there are.  StoppedSkipsTheRest excepts a skipping statement that
\* failed and an agent that began before the list was queued.
THEOREM DockerStoppedSkipsTheRest ==
  ASSUME Location = "docker"
  PROVE  Spec => []StoppedSkipsTheRest
  <1>1. Init => TypeInv /\ DecisionInv /\ DockerInv
    BY InitType, DecisionInit, DockerInit
  <1>2. TypeInv /\ DecisionInv /\ DockerInv /\ [Next]_vars => (TypeInv /\ DecisionInv /\ DockerInv)'
    BY TypeStep, DecisionStep, DockerStep
  <1>3. DockerInv => StoppedSkipsTheRest
    BY DEF DockerInv, OverWhenDone, StoppedSkipsTheRest, OnTime, Skipped
  <1> QED
    BY <1>1, <1>2, <1>3, PTL DEF Spec

\* A cluster of docker nodes is shown as running only when every node has been
\* given all its commands and the progress shown has reached the last step, unless
\* CreateCluster or a handler was cut short or an agent began before the list was
\* queued; a status report may arrive as late as it likes.
THEOREM DockerRunningWhenFinished ==
  ASSUME Location = "docker"
  PROVE  Spec => RunningWhenFinished
  <1>1. Init => TypeInv /\ DecisionInv /\ DockerInv
    BY InitType, DecisionInit, DockerInit
  <1>2. TypeInv /\ DecisionInv /\ DockerInv /\ [Next]_vars => (TypeInv /\ DecisionInv /\ DockerInv)'
    BY TypeStep, DecisionStep, DockerStep
  <1>3. TypeInv /\ DecisionInv /\ DockerInv /\ [Next]_vars => [FinishedStep]_vars
    BY DockerFinished
  <1>4. [FinishedStep]_vars =>
          [LET shown == GetClusterHealth IN
           shown.status = "creating" /\ cluster' = "running" /\ Orderly
             => /\ shown.progress.completed = shown.progress.total
                /\ \A n \in Nodes : AllQueued(n)]_vars
    BY DEF FinishedStep, GetClusterHealth
  <1> QED
    BY <1>1, <1>2, <1>3, <1>4, PTL DEF Spec, RunningWhenFinished

-----------------------------------------------------------------------------
(* One native node.  The agent looks at the host first; what it finds, and *)
(* what was lost on the way, decides who queues the other commands, and    *)
(* when.                                                                   *)

Quiet == InstallStates \ Conflicts
Waiting == Unfinished \cup {"failed"}
FirstOfResolution == {"pg_purge_native", "pg_adopt_native"}

\* What the agent of q says is in S.
Says(q, S) == agent[q] \in S

\* Nobody has been told of a conflict, or the operator's answer is forgotten.
Fresh(q) == Says(q, Quiet) /\ inst[q] \in Quiet /\ resolver[q].at = "idle"

\* The result of the preflight has not been applied.
Looking(q) == \/ cmds[q] = <<>> \/ cmds[q][1].st = "pending"
              \/ job[q].cmd = 1 /\ handler[q].at = "apply"

\* An agent works on a pending command.
WorkInv(q) == job[q].at \in {"run", "report"} => cmds[q][job[q].cmd].st = "pending"

\* Who decides that the cluster runs has seen no failure.
NoFailureSeen(q) == DecidedRunning(q) => ~AnyWith("failed")

\* The rest holds until a command fails or a program is cut short.  CreateCluster
\* queues one command, the only one that looks at the host.
LookFirst(q) ==
  /\ Creating => /\ cmds[q] = <<>> /\ creator.k = 1 /\ creator.todo = <<"pg_preflight">>
                 /\ job[q].at = "idle" /\ Fresh(q)
  /\ ~Creating => cmds[q] # <<>> /\ cmds[q][1].action = "pg_preflight"
  /\ \A i \in DOMAIN cmds[q] : i # 1 => cmds[q][i].action # "pg_preflight"

\* Commands are done in the order of their rows.
InOrder(q) ==
  /\ \A i, j \in DOMAIN cmds[q] : j < i /\ cmds[q][i].st # "pending" => cmds[q][j].st # "pending"
  /\ job[q].at # "idle" =>
       \A j \in DOMAIN cmds[q] : /\ j < job[q].cmd => cmds[q][j].st # "pending"
                                 /\ j > job[q].cmd => cmds[q][j].st = "pending"
  /\ job[q].at = "wait" => cmds[q][job[q].cmd].st # "pending" /\ job[q].ok = TRUE
  /\ job[q].at = "run" => /\ job[q].ok = FALSE
                          /\ cmds[q][job[q].cmd].action \in InstallActions => agent[q] \in Quiet

\* While the host is looked at and has nothing on it, nobody hears of a conflict.
NothingFound(q) == Looking(q) /\ pg[q] = "none" => Fresh(q) /\ Len(cmds[q]) <= 1

\* The preflight's output tells what is on the host.
FoundIsThere(q) ==
  job[q].at \in {"report", "wait"} /\ job[q].ok = TRUE /\ job[q].cmd = 1 =>
    /\ job[q].found = "none" <=> pg[q] = "none"
    /\ job[q].found # "none" => Says(q, Waiting)

\* After a conflict the first command is the one the operator chose, and no
\* continuation is queued.
ChosenFirst(q) ==
  ~Fresh(q) \/ Looking(q) =>
    handler[q].at # "queue" /\ (Len(cmds[q]) >= 2 => cmds[q][2].action \in FirstOfResolution)

\* A conflict is forgotten with the first command done after it: the agent
\* forgets it then, the row when the result is applied.
ConflictForgotten(q) ==
  /\ ~Says(q, Quiet) => /\ \A i \in DOMAIN cmds[q] : i >= 2 => cmds[q][i].st # "completed"
                        /\ ~(job[q].at = "report" /\ job[q].cmd >= 2 /\ job[q].ok = TRUE)
  /\ inst[q] \in Conflicts =>
       \A i \in DOMAIN cmds[q] :
         i >= 2 /\ cmds[q][i].st = "completed" => job[q].cmd = i /\ handler[q].at = "apply"

\* So the operator is asked before the second command after the look is begun.
ResolvedEarly(q) ==
  resolver[q].at # "idle" => /\ \A i \in DOMAIN cmds[q] : i >= 3 => cmds[q][i].st = "pending"
                             /\ job[q].at # "idle" => job[q].cmd <= 2

\* Lists end with the last command of the role and are queued to the end.
ListsEnd(q) ==
  /\ handler[q].todo # <<>> =>
       /\ \A i \in 1..Len(handler[q].todo) : handler[q].todo[i] # "pg_preflight"
       /\ handler[q].todo[Len(handler[q].todo)] = "pg_create_repl_user"
       /\ Len(cmds[q]) = 1 => Head(handler[q].todo) # "pg_create_repl_user"
  /\ resolver[q].todo # <<>> =>
       /\ \A i \in 1..Len(resolver[q].todo) : resolver[q].todo[i] # "pg_preflight"
       /\ resolver[q].todo[Len(resolver[q].todo)] = "pg_create_repl_user"
       /\ Len(cmds[q]) = 1 => Head(resolver[q].todo) \in FirstOfResolution
  /\ Len(cmds[q]) >= 2 /\ handler[q].todo = <<>> /\ resolver[q].todo = <<>> =>
       cmds[q][Len(cmds[q])].action = "pg_create_repl_user"
  /\ Len(cmds[q]) = 2 => cmds[q][2].action # "pg_create_repl_user"

\* No command after the look is begun before all have been queued.
QueuedBeforeBegun(q) ==
  \A i \in DOMAIN cmds[q] :
    i >= 2 /\ (cmds[q][i].st # "pending" \/ (job[q].at # "idle" /\ job[q].cmd = i)) => Len(cmds[q]) >= 3

\* A look that has no successor has found something, and no state says that the
\* installation is finished.
LookAlone(q) ==
  Len(cmds[q]) = 1 /\ cmds[q][1].st # "pending" /\ handler[q].at \notin {"apply", "queue"} =>
    Says(q, Waiting) /\ inst[q] \in Waiting /\ handler[q].at # "list" /\ ~DecidedRunning(q)

RunningSeen(q) == DecidedRunning(q) => \A i \in DOMAIN cmds[q] : cmds[q][i].st = "completed"

Undisturbed(q) ==
  /\ LookFirst(q) /\ InOrder(q) /\ NothingFound(q) /\ FoundIsThere(q) /\ ChosenFirst(q)
  /\ ConflictForgotten(q) /\ ResolvedEarly(q) /\ ListsEnd(q) /\ QueuedBeforeBegun(q)
  /\ LookAlone(q) /\ RunningSeen(q)

NativeInv(q) ==
  /\ WorkInv(q) /\ NoFailureSeen(q)
  /\ Orderly => AnyWith("failed") \/ Undisturbed(q)

\* The cluster has one node, a native one, and no agent reports a conflict of an
\* earlier cluster.
OneNative(q) ==
  /\ Order = <<q>> /\ Location = "native"
  /\ Remembered \cap Conflicts = {}

LEMMA OneNode ==
  ASSUME NEW p, OneNative(p)
  PROVE  p \in Nodes /\ Nodes = {p} /\ Primary = p /\ Len(Order) = 1 /\ Order[1] = p
  <1>1. Order = <<p>> /\ Len(Order) = 1 /\ Order[1] = p
    BY DEF OneNative
  <1>2. p \in Nodes
    <2>1. Order \in Seq(Nodes) /\ 1 \in 1..Len(Order)
      BY <1>1, ProvisioningAssumption
    <2> QED
      BY <1>1, <2>1
  <1>3. \A n \in Nodes : n = p
    BY <1>1, ProvisioningAssumption
  <1> QED
    BY <1>1, <1>2, <1>3 DEF Primary

\* The types, at the one node.
LEMMA NodeTypes ==
  ASSUME NEW p, OneNative(p), TypeInv
  PROVE  /\ cmds[p] \in Seq(Commands) /\ Len(cmds[p]) \in Nat /\ DOMAIN cmds[p] = 1..Len(cmds[p])
         /\ cmds[p] = <<>> <=> Len(cmds[p]) = 0
         /\ \A i \in DOMAIN cmds[p] : cmds[p][i] \in Commands /\ cmds[p][i].st \in Statuses
         /\ job[p] \in Jobs /\ job[p].cmd \in Nat
         /\ job[p].at # "idle" => job[p].cmd \in DOMAIN cmds[p] /\ Len(cmds[p]) >= 1
         /\ handler[p] \in Handlers /\ (handler[p].at # "idle" <=> job[p].at = "wait")
         /\ handler[p].at = "queue" <=> handler[p].todo # <<>>
         /\ resolver[p] \in Resolvers
         /\ resolver[p].at \in {"install", "queue"} <=> resolver[p].todo # <<>>
         /\ agent[p] \in InstallStates /\ inst[p] \in InstallStates /\ pg[p] \in HostStates
         /\ beat[p] # None => beat[p] \in Beats /\ beat[p].state \in InstallStates
  <1>1. p \in Nodes
    BY OneNode
  <1>2. cmds[p] \in Seq(Commands)
    BY <1>1 DEF TypeInv, CmdType
  <1>3. Len(cmds[p]) \in Nat /\ DOMAIN cmds[p] = 1..Len(cmds[p]) /\ (cmds[p] = <<>> <=> Len(cmds[p]) = 0)
    <2> DEFINE s == cmds[p]
    <2>1. s \in Seq(Commands)
      BY <1>2
    <2> HIDE DEF s
    <2>2. Len(s) \in Nat /\ DOMAIN s = 1..Len(s) /\ (s # <<>> <=> Len(s) >= 1)
      BY <2>1, NonEmpty
    <2>3. s = <<>> <=> Len(s) = 0
      BY <2>2
    <2> QED
      BY <2>2, <2>3 DEF s
  <1>4. \A i \in DOMAIN cmds[p] : cmds[p][i] \in Commands /\ cmds[p][i].st \in Statuses
    BY OneNode, CmdOf DEF TypeInv, Commands
  <1>5. /\ job[p] \in Jobs /\ job[p].cmd \in Nat
        /\ job[p].at # "idle" => job[p].cmd \in DOMAIN cmds[p]
    BY <1>1 DEF TypeInv, JobType, Jobs
  <1>6. job[p].at # "idle" => Len(cmds[p]) >= 1
    BY <1>3, <1>5
  <1>7. /\ handler[p] \in Handlers /\ (handler[p].at # "idle" <=> job[p].at = "wait")
        /\ handler[p].at = "queue" <=> handler[p].todo # <<>>
    BY <1>1 DEF TypeInv, HandlerType
  <1>8. /\ resolver[p] \in Resolvers
        /\ resolver[p].at \in {"install", "queue"} <=> resolver[p].todo # <<>>
    BY <1>1 DEF TypeInv, ResolverType
  <1>9. /\ agent[p] \in InstallStates /\ inst[p] \in InstallStates /\ pg[p] \in HostStates
        /\ beat[p] # None => beat[p] \in Beats /\ beat[p].state \in InstallStates
    BY <1>1 DEF TypeInv, RowType, HostType, Beats
  <1> QED
    BY <1>2, <1>3, <1>4, <1>5, <1>6, <1>7, <1>8, <1>9

LEMMA OneAnyWith ==
  ASSUME NEW p, OneNative(p), NEW st
  PROVE  AnyWith(st) <=> \E i \in DOMAIN cmds[p] : cmds[p][i].st = st
  BY OneNode DEF AnyWith

LEMMA StateSets ==
  /\ {"pending", "installing", "failed", "installed", "adopted", "nothing_found"} \subseteq Quiet
  /\ {"pending", "installing", "failed"} \subseteq Waiting /\ Conflicts \subseteq Waiting
  /\ Conflicts \cap Quiet = {} /\ Waiting \subseteq InstallStates
  /\ \A s \in InstallStates : s \in Quiet \/ s \in Conflicts
  BY DEF Quiet, Waiting, Unfinished, Conflicts, InstallStates

\* Whoever waits for an answer has the look behind him.
LEMMA LookIsPast ==
  ASSUME NEW p, OneNative(p), TypeInv, InOrder(p), job[p].at = "wait"
  PROVE  cmds[p] # <<>> /\ cmds[p][1].st # "pending" /\ 1 \in DOMAIN cmds[p]
  <1>1. /\ job[p].cmd \in DOMAIN cmds[p] /\ DOMAIN cmds[p] = 1..Len(cmds[p]) /\ Len(cmds[p]) \in Nat
        /\ cmds[p] = <<>> <=> Len(cmds[p]) = 0
    BY NodeTypes
  <1>2. job[p].cmd \in Nat /\ job[p].cmd >= 1 /\ 1 \in DOMAIN cmds[p]
    BY <1>1
  <1>3. CASE job[p].cmd = 1
    BY <1>1, <1>2, <1>3 DEF InOrder
  <1>4. CASE 1 < job[p].cmd
    BY <1>1, <1>2, <1>4 DEF InOrder
  <1> QED
    BY <1>1, <1>2, <1>3, <1>4

\* What has to be shown of a step that leaves the commands and the programs
\* alone: a heartbeat, or an agent's restart.
LEMMA NativeTalk ==
  ASSUME NEW p, OneNative(p), TypeInv, Undisturbed(p),
         UNCHANGED <<cmds, creator, handler, resolver>>,
         pg'[p] = "none" <=> pg[p] = "none",
         job'[p] = job[p] \/ (job[p].at # "wait" /\ job'[p] = NoJob),
         agent'[p] \in {agent[p], "pending"},
         Says(p, Quiet) => Says(p, Quiet)', Says(p, Waiting) => Says(p, Waiting)',
         inst'[p] \in {inst[p], agent[p]}
  PROVE  Undisturbed(p)'
  <1>1. NoJob.at = "idle" /\ NoJob.cmd = 0
    BY DEF NoJob
  <1> HIDE DEF NoJob
  <1>2. /\ inst'[p] \in Conflicts => inst[p] \in Conflicts \/ ~Says(p, Quiet)
        /\ Says(p, Waiting) /\ inst[p] \in Waiting => inst'[p] \in Waiting
        /\ Fresh(p) => Fresh(p)'
    BY StateSets DEF Says, Fresh
  <1>3. /\ job'[p].at # "idle" => job'[p] = job[p]
        /\ Looking(p)' => Looking(p)
        /\ handler[p].at = "apply" => job'[p] = job[p]
    <2>1. handler[p].at = "apply" => job[p].at = "wait"
      BY NodeTypes
    <2> QED
      BY <1>1, <2>1 DEF Looking
  <1>4. LookFirst(p)'
    BY <1>1, <1>2 DEF Undisturbed, LookFirst, Creating
  <1>5. InOrder(p)'
    BY <1>1, <1>3, StateSets DEF Undisturbed, InOrder
  <1>6. NothingFound(p)'
    BY <1>2, <1>3 DEF Undisturbed, NothingFound
  <1>7. FoundIsThere(p)'
    BY <1>1, <1>3 DEF Undisturbed, FoundIsThere
  <1>8. ChosenFirst(p)'
    BY <1>2, <1>3 DEF Undisturbed, ChosenFirst
  <1>9. ConflictForgotten(p)'
    <2>1. Says(p, Quiet) \/ ~(job'[p].at = "report" /\ job'[p].cmd >= 2 /\ job'[p].ok = TRUE)
      BY <1>1, <1>3 DEF Undisturbed, ConflictForgotten
    <2>2. ASSUME inst'[p] \in Conflicts, NEW i \in DOMAIN cmds[p], i >= 2, cmds[p][i].st = "completed"
          PROVE  job[p].cmd = i /\ handler[p].at = "apply"
      BY <1>2, <2>2 DEF Undisturbed, ConflictForgotten
    <2> QED
      BY <1>3, <2>1, <2>2 DEF Undisturbed, ConflictForgotten
  <1>10. ResolvedEarly(p)' /\ ListsEnd(p)'
    BY <1>1, <1>3 DEF Undisturbed, ResolvedEarly, ListsEnd
  <1>11. QueuedBeforeBegun(p)'
    BY <1>1, <1>3 DEF Undisturbed, QueuedBeforeBegun
  <1>12. LookAlone(p)' /\ RunningSeen(p)'
    BY <1>2 DEF Undisturbed, LookAlone, RunningSeen, DecidedRunning
  <1> QED
    BY <1>4, <1>5, <1>6, <1>7, <1>8, <1>9, <1>10, <1>11, <1>12 DEF Undisturbed

\* A heartbeat, or a restart.
LEMMA NativeHeartbeat ==
  ASSUME NEW p, OneNative(p), TypeInv, Undisturbed(p), HeartbeatStep(p) \/ RestartAgent(p), Orderly'
  PROVE  Undisturbed(p)'
  <1>1. p \in Nodes
    BY OneNode
  <1>2. CASE SendHeartbeat(p)
    <2>1. /\ SamePrograms /\ inst' = inst /\ pg' = pg /\ agent' = agent /\ beat'[p].state = agent[p]
      BY <1>1, <1>2, SendHeartbeatEffect
    <2>2. \A S : Says(p, S) => Says(p, S)'
      BY <2>1 DEF Says
    <2> QED
      BY <2>1, <2>2, NativeTalk DEF SamePrograms
  <1>3. CASE ReportStatus(p)
    <2>1. SamePrograms /\ pg' = pg /\ agent' = agent /\ inst'[p] \in {inst[p], agent[p]}
      BY <1>1, <1>3, ReportStatusEffect DEF Orderly, OneNative
    <2>2. \A S : Says(p, S) => Says(p, S)'
      BY <2>1 DEF Says
    <2> QED
      BY <2>1, <2>2, NativeTalk DEF SamePrograms
  <1>4. CASE RestartAgent(p)
    <2>1. /\ UNCHANGED <<cmds, creator, handler, resolver>> /\ inst' = inst
          /\ agent'[p] = "pending" /\ beat'[p] = None
          /\ job'[p] = IF job[p].at = "wait" THEN job[p] ELSE NoJob
          /\ pg'[p] = pg[p] \/ (pg[p] = "running" /\ pg'[p] = "data")
      BY <1>1, <1>4, RestartEffect
    <2>2. Says(p, Quiet)' /\ Says(p, Waiting)'
      BY <2>1, StateSets DEF Says
    <2>3. pg'[p] = "none" <=> pg[p] = "none"
      BY <2>1
    <2> QED
      BY <2>1, <2>2, <2>3, NativeTalk
  <1> QED
    BY <1>2, <1>3, <1>4 DEF HeartbeatStep

\* The agent takes a command: nothing is being queued, so all has been.
LEMMA NativeFetch ==
  ASSUME NEW p, OneNative(p), TypeInv, Undisturbed(p), FetchCommand(p), Orderly'
  PROVE  Undisturbed(p)'
  <1> DEFINE k == job'[p].cmd
  <1>1. /\ UNCHANGED <<cmds, creator, handler, resolver>> /\ inst' = inst /\ pg' = pg
        /\ job[p].at = "idle" /\ ~Creating /\ resolver[p].at = "idle"
        /\ job'[p].at = "run" /\ job'[p].ok = FALSE /\ k \in DOMAIN cmds[p] /\ cmds[p][k].st = "pending"
        /\ \A j \in DOMAIN cmds[p] : cmds[p][j].st = "pending" => k <= j
        /\ agent'[p] = IF cmds[p][k].action \in InstallActions THEN "installing" ELSE agent[p]
    BY OneNode, FetchEffect DEF OneNative, SameRows, Orderly
  <1>2. /\ handler[p].at = "idle" /\ handler[p].todo = <<>> /\ resolver[p].todo = <<>>
        /\ Len(cmds[p]) \in Nat /\ DOMAIN cmds[p] = 1..Len(cmds[p]) /\ k \in Nat
    BY <1>1, NodeTypes
  <1>3. Says(p, Quiet) => Says(p, Quiet)'
    BY <1>1, StateSets DEF Says
  <1>4. (Fresh(p) => Fresh(p)') /\ (Looking(p)' => Looking(p))
    BY <1>1, <1>2, <1>3 DEF Fresh, Looking
  <1> HIDE DEF k
  <1>5. LookFirst(p)'
    BY <1>1 DEF Undisturbed, LookFirst, Creating
  <1>6. InOrder(p)'
    <2>1. ASSUME NEW j \in DOMAIN cmds[p]
          PROVE  (j < k => cmds[p][j].st # "pending") /\ (j > k => cmds[p][j].st = "pending")
      BY <1>1, <1>2 DEF Undisturbed, InOrder
    <2>2. cmds[p][k].action \in InstallActions => agent'[p] \in Quiet
      BY <1>1, StateSets
    <2> QED
      BY <1>1, <2>1, <2>2 DEF Undisturbed, InOrder, k
  <1>7. NothingFound(p)'
    BY <1>1, <1>4 DEF Undisturbed, NothingFound
  <1>8. FoundIsThere(p)'
    BY <1>1 DEF FoundIsThere
  <1>9. ChosenFirst(p)'
    BY <1>1, <1>4 DEF Undisturbed, ChosenFirst
  <1>10. ConflictForgotten(p)'
    BY <1>1, <1>2, <1>3 DEF Undisturbed, ConflictForgotten
  <1>11. ResolvedEarly(p)' /\ ListsEnd(p)'
    BY <1>1 DEF Undisturbed, ResolvedEarly, ListsEnd
  <1>12. QueuedBeforeBegun(p)'
    <2>1. k >= 2 => Len(cmds[p]) >= 3
      <3> DEFINE l == Len(cmds[p])
      <3>1. l \in Nat /\ k \in 1..l /\ (l >= 2 => l # 2)
        BY <1>1, <1>2 DEF Undisturbed, ListsEnd
      <3> HIDE DEF l
      <3>2. k >= 2 => l >= 3
        BY <3>1
      <3> QED
        BY <3>2 DEF l
    <2> QED
      BY <1>1, <2>1 DEF Undisturbed, QueuedBeforeBegun, k
  <1>13. LookAlone(p)'
    <2>1. ~(Len(cmds[p]) = 1 /\ cmds[p][1].st # "pending")
      BY <1>1, <1>2
    <2> QED
      BY <1>1, <2>1 DEF LookAlone
  <1>14. RunningSeen(p)'
    BY <1>1, <1>2 DEF RunningSeen, DecidedRunning
  <1> QED
    BY <1>5, <1>6, <1>7, <1>8, <1>9, <1>10, <1>11, <1>12, <1>13, <1>14 DEF Undisturbed

\* A command is executed.  Only the look brings the agent a conflict, and the
\* first command after it takes it away.
LEMMA NativeExecute ==
  ASSUME NEW p, OneNative(p), TypeInv, Undisturbed(p), WorkInv(p), ~AnyWith("failed"), ExecuteCommand(p)
  PROVE  Undisturbed(p)'
  <1> DEFINE k == job[p].cmd
  <1> DEFINE a == Action(p)
  <1>1. /\ UNCHANGED <<cmds, creator, handler, resolver>> /\ inst' = inst
        /\ job[p].at = "run" /\ job'[p].at = "report" /\ job'[p].cmd = k
        /\ \/ /\ job'[p].ok = TRUE /\ job'[p].found = pg[p] /\ pg'[p] = HostAfter(pg[p], a)
              /\ agent'[p] = ReportAfter(p, a)
           \/ /\ job'[p].ok = job[p].ok
              /\ pg'[p] \in {pg[p]} \cup HostsAfterFailure(pg[p], a)
              /\ agent'[p] = IF a \in ReportedActions THEN "failed" ELSE agent[p]
    BY OneNode, ExecuteEffect DEF OneNative, SameRows
  <1>2. /\ handler[p].at = "idle" /\ Len(cmds[p]) \in Nat /\ DOMAIN cmds[p] = 1..Len(cmds[p])
        /\ k \in Nat /\ k \in DOMAIN cmds[p] /\ k >= 1 /\ 1 \in DOMAIN cmds[p] /\ cmds[p] # <<>>
        /\ \A i \in DOMAIN cmds[p] : cmds[p][i].st \in Statuses
        /\ agent[p] \in InstallStates /\ pg[p] \in HostStates
    BY <1>1, NodeTypes
  <1>3. /\ ~Creating /\ job[p].ok = FALSE /\ cmds[p][k].st = "pending" /\ a = cmds[p][k].action
        /\ a \in InstallActions => agent[p] \in Quiet
    BY <1>1 DEF Undisturbed, LookFirst, InOrder, WorkInv, Action
  <1>4. k = 1 <=> a = "pg_preflight"
    BY <1>2, <1>3 DEF Undisturbed, LookFirst
  <1>5. \A i \in DOMAIN cmds[p] : /\ i < k => cmds[p][i].st # "pending"
                                  /\ i > k => cmds[p][i].st = "pending"
                                  /\ cmds[p][i].st # "pending" => cmds[p][i].st = "completed"
    <2>1. \A i \in DOMAIN cmds[p] : cmds[p][i].st # "failed"
      BY OneAnyWith
    <2> QED
      BY <1>1, <1>2, <2>1 DEF Undisturbed, InOrder, Statuses
  <1>6. /\ agent'[p] \in InstallStates
        /\ agent'[p] \notin Quiet => a = "pg_preflight" \/ agent'[p] = agent[p]
        /\ a = "pg_preflight" => pg'[p] = pg[p] /\ (pg[p] = "none" => agent'[p] \in Quiet)
        /\ a = "pg_preflight" /\ job'[p].ok = TRUE /\ pg[p] # "none" => agent'[p] \in Waiting
        /\ a = "pg_adopt_native" => agent'[p] \in Quiet
    <2>1. CASE job'[p].ok = TRUE /\ pg'[p] = HostAfter(pg[p], a) /\ agent'[p] = ReportAfter(p, a)
      <3>1. ReportAfter(p, a) \in InstallStates
        BY <1>2 DEF ReportAfter, Preflight, InstallStates, Conflicts
      <3>2. /\ ReportAfter(p, a) \notin Quiet => a = "pg_preflight" \/ ReportAfter(p, a) = agent[p]
            /\ a = "pg_preflight" /\ pg[p] = "none" => ReportAfter(p, a) \in Quiet
            /\ a = "pg_preflight" /\ pg[p] # "none" => ReportAfter(p, a) \in Waiting
            /\ a = "pg_adopt_native" => ReportAfter(p, a) \in Quiet
        BY StateSets DEF ReportAfter, Preflight, Conflicts
      <3>3. a = "pg_preflight" => pg'[p] = pg[p]
        BY <2>1, PreflightLooks
      <3> QED
        BY <2>1, <3>1, <3>2, <3>3
    <2>2. CASE /\ job'[p].ok = job[p].ok /\ pg'[p] \in {pg[p]} \cup HostsAfterFailure(pg[p], a)
               /\ agent'[p] = IF a \in ReportedActions THEN "failed" ELSE agent[p]
      <3>1. /\ a = "pg_preflight" => pg'[p] = pg[p]
        BY <2>2, PreflightLooks
      <3>2. {"pg_preflight", "pg_adopt_native"} \subseteq ReportedActions
        BY DEF ReportedActions
      <3>3. "failed" \in Quiet /\ "failed" \in InstallStates /\ job'[p].ok = FALSE
        BY <1>3, <2>2, StateSets DEF InstallStates
      <3> QED
        BY <1>2, <2>2, <3>1, <3>2, <3>3
    <2> QED
      BY <1>1, <2>1, <2>2
  <1>7. /\ Says(p, Quiet)' <=> agent'[p] \in Quiet
        /\ Says(p, Quiet) <=> agent[p] \in Quiet
        /\ Says(p, Waiting)' <=> agent'[p] \in Waiting
    BY <1>1 DEF Says
  <1>8. Looking(p)' <=> Looking(p)
    BY <1>1, <1>2 DEF Looking
  <1>9. Looking(p) <=> k = 1
    BY <1>1, <1>2, <1>3, <1>5 DEF Looking
  <1>10. ~Fresh(p)' => ~Fresh(p) \/ Looking(p)
    BY <1>1, <1>4, <1>6, <1>7, <1>9 DEF Fresh
  <1> HIDE DEF a
  <1>11. LookFirst(p)'
    BY <1>1, <1>3 DEF Undisturbed, LookFirst, Creating
  <1>12. InOrder(p)'
    BY <1>1 DEF Undisturbed, InOrder
  <1>13. NothingFound(p)'
    BY <1>1, <1>4, <1>6, <1>7, <1>8, <1>9 DEF Undisturbed, NothingFound, Fresh
  <1>14. FoundIsThere(p)'
    <2>1. job'[p].ok = TRUE => job'[p].found = pg[p]
      BY <1>1, <1>3
    <2> QED
      BY <1>1, <1>4, <1>6, <1>7, <2>1 DEF FoundIsThere
  <1>15. ChosenFirst(p)'
    BY <1>1, <1>8, <1>10 DEF Undisturbed, ChosenFirst
  <1>16. ConflictForgotten(p)'
    <2>1. ASSUME agent'[p] \notin Quiet
          PROVE  /\ \A i \in DOMAIN cmds[p] : i >= 2 => cmds[p][i].st # "completed"
                 /\ ~(k >= 2 /\ job'[p].ok = TRUE)
      <3>1. CASE k = 1
        BY <1>2, <1>5, <3>1
      <3>2. CASE k >= 2
        <4>1. agent'[p] = agent[p] /\ ~Says(p, Quiet) /\ ~Fresh(p)
          BY <1>4, <1>6, <1>7, <2>1, <3>2 DEF Fresh
        <4>2. \A i \in DOMAIN cmds[p] : i >= 2 => cmds[p][i].st # "completed"
          BY <4>1 DEF Undisturbed, ConflictForgotten
        <4>3. 2 \in DOMAIN cmds[p] /\ Len(cmds[p]) >= 2
          BY <1>2, <3>2
        <4>4. k = 2
          BY <1>2, <1>5, <3>2, <4>2, <4>3
        <4>5. a \in FirstOfResolution
          BY <1>3, <4>1, <4>3, <4>4 DEF Undisturbed, ChosenFirst
        <4>6. a # "pg_purge_native"
          BY <1>3, <2>1, <4>1 DEF InstallActions
        <4>7. a = "pg_adopt_native"
          BY <4>5, <4>6 DEF FirstOfResolution
        <4> QED
          BY <1>6, <2>1, <4>7
      <3>3. k = 1 \/ k >= 2
        <4> HIDE DEF k
        <4> QED
          BY <1>2
      <3> QED
        BY <3>1, <3>2, <3>3
    <2> QED
      BY <1>1, <1>2, <1>7, <2>1 DEF Undisturbed, ConflictForgotten
  <1>17. ResolvedEarly(p)' /\ ListsEnd(p)' /\ QueuedBeforeBegun(p)'
    BY <1>1 DEF Undisturbed, ResolvedEarly, ListsEnd, QueuedBeforeBegun
  <1>18. LookAlone(p)'
    <2>1. ~(Len(cmds[p]) = 1 /\ cmds[p][1].st # "pending")
      BY <1>2, <1>3
    <2> QED
      BY <1>1, <2>1 DEF LookAlone
  <1>19. RunningSeen(p)'
    BY <1>1, <1>2 DEF RunningSeen, DecidedRunning
  <1> QED
    BY <1>11, <1>12, <1>13, <1>14, <1>15, <1>16, <1>17, <1>18, <1>19 DEF Undisturbed

\* A result is stored, or lost.
LEMMA NativeReport ==
  ASSUME NEW p, OneNative(p), TypeInv, Undisturbed(p), WorkInv(p), ~AnyWith("failed")', ReportCommandResult(p)
  PROVE  Undisturbed(p)'
  <1> DEFINE k == job[p].cmd
  <1>1. /\ SameRows /\ SameHosts /\ UNCHANGED <<creator, resolver>>
        /\ job[p].at = "report" /\ handler[p].at = "idle"
        /\ \/ /\ cmds' = cmds /\ handler' = handler /\ job'[p] = NoJob
           \/ /\ cmds' = [cmds EXCEPT ![p][k].st = IF job[p].ok THEN "completed" ELSE "failed"]
              /\ job'[p].at = "wait" /\ handler'[p].at = "apply" /\ handler'[p].todo = <<>>
              /\ job'[p].cmd = k /\ job'[p].ok = job[p].ok /\ job'[p].found = job[p].found
    BY OneNode, ReportEffect
  <1>2. /\ inst' = inst /\ pg' = pg /\ agent' = agent /\ beat' = beat
        /\ Says(p, Quiet)' = Says(p, Quiet) /\ Says(p, Waiting)' = Says(p, Waiting) /\ Fresh(p)' = Fresh(p)
    BY <1>1 DEF SameRows, SameHosts, Says, Fresh
  <1>3. CASE cmds' = cmds /\ handler' = handler /\ job'[p] = NoJob
    BY <1>1, <1>2, <1>3, NativeTalk
  <1>4. CASE /\ cmds' = [cmds EXCEPT ![p][k].st = IF job[p].ok THEN "completed" ELSE "failed"]
             /\ job'[p].at = "wait" /\ handler'[p].at = "apply" /\ handler'[p].todo = <<>>
             /\ job'[p].cmd = k /\ job'[p].ok = job[p].ok /\ job'[p].found = job[p].found
    <2>1. /\ k \in DOMAIN cmds[p] /\ k \in Nat /\ Len(cmds[p]) \in Nat /\ DOMAIN cmds[p] = 1..Len(cmds[p])
          /\ k >= 1 /\ 1 \in DOMAIN cmds[p] /\ cmds[p] # <<>> /\ handler[p].todo = <<>> /\ job[p].ok \in BOOLEAN
          /\ Len(cmds[p]) >= 1
      BY <1>1, NodeTypes DEF Jobs
    <2> DEFINE v == IF job[p].ok THEN "completed" ELSE "failed"
    <2>2. v \in Statuses /\ cmds' = [cmds EXCEPT ![p][k].st = v] /\ p \in Nodes
      BY <1>4, OneNode DEF Statuses
    <2> HIDE DEF v
    <2>3. /\ CmdType' /\ RowsKept /\ Len(cmds'[p]) = Len(cmds[p])
          /\ \A j \in 1..Len(cmds[p]) : j # k => cmds'[p][j] = cmds[p][j]
          /\ cmds'[p][k].st = v
      <3>1. CmdType /\ k \in DOMAIN cmds[p]
        BY <2>1 DEF TypeInv
      <3> HIDE DEF k
      <3>2. CmdType' /\ RowsKept
        BY <2>2, <3>1, ResultEffect
      <3>3. Len(cmds'[p]) = Len(cmds[p])
        BY <2>2, <3>1, ResultEffect
      <3>4. \A j \in 1..Len(cmds[p]) : j # k => cmds'[p][j] = cmds[p][j]
        BY <2>2, <3>1, ResultEffect
      <3>5. cmds'[p][k].st = v
        BY <2>2, <3>1, ResultEffect
      <3> QED
        BY <3>2, <3>3, <3>4, <3>5
    <2>4. cmds'[p] # <<>> /\ DOMAIN cmds'[p] = DOMAIN cmds[p]
      <3> DEFINE s == cmds'[p]
      <3>1. s \in Seq(Commands) /\ Len(s) = Len(cmds[p])
        BY <2>2, <2>3 DEF CmdType
      <3> HIDE DEF s
      <3>2. s # <<>> /\ DOMAIN s = 1..Len(s)
        BY <2>1, <3>1, NonEmpty
      <3> QED
        BY <2>1, <3>1, <3>2 DEF s
    <2>5. v = "completed" /\ job[p].ok = TRUE
      <3>1. v # "failed"
        BY <2>1, <2>2, <2>3, <2>4 DEF AnyWith
      <3> QED
        BY <2>1, <3>1 DEF v
    <2>6. /\ \A j \in DOMAIN cmds[p] : /\ j # k => cmds'[p][j] = cmds[p][j]
                                       /\ cmds'[p][j].action = cmds[p][j].action
          /\ cmds'[p][k].st = "completed" /\ cmds[p][k].st = "pending"
      BY <1>1, <2>1, <2>2, <2>3, <2>5 DEF RowsKept, WorkInv
    <2>7. /\ ~Creating /\ ~Creating'
          /\ \A j \in DOMAIN cmds[p] : /\ j < k => cmds[p][j].st # "pending"
                                       /\ j > k => cmds[p][j].st = "pending"
      BY <1>1 DEF Undisturbed, LookFirst, Creating, InOrder
    <2>8. Looking(p)' => Looking(p)
      BY <1>4, <2>1, <2>4, <2>6, <2>7 DEF Looking
    <2>9. LookFirst(p)'
      BY <2>1, <2>4, <2>6, <2>7 DEF Undisturbed, LookFirst
    <2>10. InOrder(p)'
      <3>1. ASSUME NEW i \in DOMAIN cmds[p], NEW j \in DOMAIN cmds[p], j < i, cmds'[p][i].st # "pending"
            PROVE  cmds'[p][j].st # "pending"
        <4>1. CASE i = k
          BY <2>1, <2>6, <2>7, <3>1, <4>1
        <4>2. CASE i # k
          BY <2>1, <2>6, <2>7, <3>1, <4>2 DEF Undisturbed, InOrder
        <4> QED
          BY <4>1, <4>2
      <3>2. ASSUME NEW j \in DOMAIN cmds[p]
            PROVE  (j < k => cmds'[p][j].st # "pending") /\ (j > k => cmds'[p][j].st = "pending")
        BY <2>1, <2>6, <2>7
      <3> QED
        BY <1>4, <2>4, <2>5, <2>6, <3>1, <3>2 DEF InOrder
    <2>11. NothingFound(p)'
      BY <1>2, <2>3, <2>8 DEF Undisturbed, NothingFound
    <2>12. FoundIsThere(p)'
      BY <1>1, <1>2, <1>4 DEF Undisturbed, FoundIsThere
    <2>13. ChosenFirst(p)'
      <3>1. Len(cmds[p]) >= 2 => 2 \in DOMAIN cmds[p]
        BY <2>1
      <3> QED
        BY <1>2, <1>4, <2>3, <2>6, <2>8, <3>1 DEF Undisturbed, ChosenFirst
    <2>14. ConflictForgotten(p)'
      <3>1. ~Says(p, Quiet) => k < 2
        BY <1>1, <2>1, <2>5 DEF Undisturbed, ConflictForgotten
      <3>2. ASSUME NEW i \in DOMAIN cmds[p], i >= 2, cmds'[p][i].st = "completed", ~Says(p, Quiet)
            PROVE  FALSE
        BY <2>1, <2>6, <3>1, <3>2 DEF Undisturbed, ConflictForgotten
      <3>3. ASSUME NEW i \in DOMAIN cmds[p], i >= 2, cmds'[p][i].st = "completed", inst[p] \in Conflicts
            PROVE  i = k
        BY <1>1, <2>6, <3>3 DEF Undisturbed, ConflictForgotten
      <3> QED
        BY <1>2, <1>4, <2>4, <3>2, <3>3 DEF ConflictForgotten
    <2>15. ResolvedEarly(p)'
      <3>1. ASSUME resolver[p].at # "idle", NEW i \in DOMAIN cmds[p], i >= 3 PROVE cmds'[p][i].st = "pending"
        <4>1. k <= 2 /\ cmds[p][i].st = "pending"
          BY <1>1, <3>1 DEF Undisturbed, ResolvedEarly
        <4>2. i # k
          BY <2>1, <3>1, <4>1
        <4> QED
          BY <2>6, <4>1, <4>2
      <3> QED
        BY <1>1, <1>4, <2>4, <3>1 DEF Undisturbed, ResolvedEarly
    <2>16. ListsEnd(p)'
      <3>1. /\ Len(cmds[p]) >= 2 => 2 \in DOMAIN cmds[p] /\ Len(cmds[p]) \in DOMAIN cmds[p]
            /\ Len(cmds[p]) = 2 => Len(cmds[p]) >= 2
        <4> DEFINE l == Len(cmds[p])
        <4>1. l \in Nat /\ DOMAIN cmds[p] = 1..l
          BY <2>1
        <4> HIDE DEF l
        <4>2. /\ l >= 2 => 2 \in 1..l /\ l \in 1..l
              /\ l = 2 => l >= 2
          BY <4>1
        <4> QED
          BY <4>1, <4>2 DEF l
      <3> QED
        BY <1>1, <1>4, <2>1, <2>3, <2>6, <3>1 DEF Undisturbed, ListsEnd
    <2>17. QueuedBeforeBegun(p)'
      BY <1>1, <1>4, <2>3, <2>4, <2>6 DEF Undisturbed, QueuedBeforeBegun
    <2>18. LookAlone(p)' /\ RunningSeen(p)'
      BY <1>4 DEF LookAlone, RunningSeen, DecidedRunning
    <2> QED
      BY <2>9, <2>10, <2>11, <2>12, <2>13, <2>14, <2>15, <2>16, <2>17, <2>18 DEF Undisturbed
  <1> QED
    BY <1>1, <1>3, <1>4

-----------------------------------------------------------------------------
(* Failures stay visible.                                                  *)

LEMMA OneNext ==
  ASSUME NEW p, OneNative(p), [Next]_vars
  PROVE  \/ UNCHANGED vars \/ QueueCommand \/ AbortHandler
         \/ FetchCommand(p) \/ ExecuteCommand(p) \/ ReportCommandResult(p)
         \/ HeartbeatStep(p) \/ RestartAgent(p)
         \/ HandleResult(p) \/ QueueContinuation(p) \/ UpdateClusterLifecycleStatus(p)
         \/ LifecycleWrite(p) \/ CheckNodes(p) \/ CheckCommands(p) \/ CancelPending(p) \/ WriteStatus(p)
         \/ ResolveState(p) \/ ResolveQueue(p) \/ ResolveAbort(p)
         \/ \E choice \in Choices : ResolveInstallationConflict(p, choice)
  BY OneNode DEF Next, AgentStep, HandlerStep, ResolverStep

\* An INSERT, at the one node.
LEMMA NativeInsert ==
  ASSUME NEW p, OneNative(p), TypeInv, NEW a \in Actions, Insert(p, a)
  PROVE  /\ Len(cmds'[p]) = Len(cmds[p]) + 1 /\ cmds'[p] # <<>>
         /\ \A i \in DOMAIN cmds[p] : i \in DOMAIN cmds'[p] /\ cmds'[p][i] = cmds[p][i]
         /\ \A i \in DOMAIN cmds'[p] : i \in DOMAIN cmds[p] \/ i = Len(cmds[p]) + 1
         /\ Len(cmds[p]) + 1 \in DOMAIN cmds'[p]
         /\ cmds'[p][Len(cmds[p]) + 1].action = a /\ cmds'[p][Len(cmds[p]) + 1].st = "pending"
  <1>1. p \in Nodes /\ Len(cmds[p]) \in Nat /\ DOMAIN cmds[p] = 1..Len(cmds[p])
    BY OneNode, NodeTypes
  <1>2. /\ CmdType' /\ Len(cmds'[p]) = Len(cmds[p]) + 1
        /\ \A i \in 1..Len(cmds[p]) : cmds'[p][i] = cmds[p][i]
        /\ cmds'[p][Len(cmds[p]) + 1] = [action |-> a, st |-> "pending"]
    BY <1>1, InsertEffect DEF TypeInv
  <1> DEFINE l == Len(cmds[p])
  <1> DEFINE s == cmds'[p]
  <1>3. s \in Seq(Commands) /\ l \in Nat /\ Len(s) = l + 1
    BY <1>1, <1>2 DEF CmdType
  <1>4. DOMAIN s = 1..(l + 1) /\ s # <<>>
    <2> HIDE DEF s, l
    <2> QED
      BY <1>3, NonEmpty
  <1>5. 1..l \subseteq 1..(l + 1) /\ l + 1 \in 1..(l + 1) /\ \A i \in 1..(l + 1) : i \in 1..l \/ i = l + 1
    <2> HIDE DEF l
    <2> QED
      BY <1>3
  <1> QED
    BY <1>1, <1>2, <1>4, <1>5

\* A step that only adds rows, and lets nobody begin to work or to decide.
LEMMA WatchKept ==
  ASSUME NEW p, OneNative(p), TypeInv, WorkInv(p), NoFailureSeen(p),
         \A i \in DOMAIN cmds[p] : i \in DOMAIN cmds'[p] /\ cmds'[p][i].st = cmds[p][i].st,
         \A i \in DOMAIN cmds'[p] : i \in DOMAIN cmds[p] \/ cmds'[p][i].st # "failed",
         job'[p].at \in {"run", "report"} => job[p].at = job'[p].at /\ job'[p].cmd = job[p].cmd,
         DecidedRunning(p)' => DecidedRunning(p) \/ ~AnyWith("failed")
  PROVE  WorkInv(p)' /\ NoFailureSeen(p)' /\ (AnyWith("failed") => AnyWith("failed")')
  <1>1. WorkInv(p)'
    <2>1. job[p].at # "idle" => job[p].cmd \in DOMAIN cmds[p]
      BY NodeTypes
    <2> QED
      BY <2>1 DEF WorkInv
  <1>2. AnyWith("failed")' <=> AnyWith("failed")
    BY OneNode DEF AnyWith
  <1> QED
    BY <1>1, <1>2 DEF NoFailureSeen

\* An agent works on pending commands only, a failure stays in the table, and
\* who decides that the cluster runs has seen none.
LEMMA WatchStep ==
  ASSUME NEW p, OneNative(p), TypeInv, DecisionInv, WorkInv(p), NoFailureSeen(p), [Next]_vars
  PROVE  WorkInv(p)' /\ NoFailureSeen(p)' /\ (AnyWith("failed") => AnyWith("failed")')
  <1>1. p \in Nodes
    BY OneNode
  <1>2. NoJob.at = "idle" /\ NoHandler.at = "idle" /\ NoHandler.todo = <<>>
    BY DEF NoJob, NoHandler
  <1> HIDE DEF NoJob, NoHandler
  <1>3. /\ handler[p].at # "idle" <=> job[p].at = "wait"
        /\ job[p].at # "idle" => job[p].cmd \in DOMAIN cmds[p]
    BY NodeTypes
  <1>4. ASSUME UNCHANGED <<cmds, handler>>, job'[p] = job[p] \/ job'[p] = NoJob
        PROVE  WorkInv(p)' /\ NoFailureSeen(p)' /\ (AnyWith("failed") => AnyWith("failed")')
    BY <1>2, <1>4, WatchKept DEF DecidedRunning
  <1>5. ASSUME cmds' = cmds, job'[p] = job[p] \/ job'[p] = NoJob,
               DecidedRunning(p)' => DecidedRunning(p) \/ ~AnyWith("failed")
        PROVE  WorkInv(p)' /\ NoFailureSeen(p)' /\ (AnyWith("failed") => AnyWith("failed")')
    BY <1>2, <1>5, WatchKept
  <1>6. ASSUME NEW a \in Actions, Insert(p, a), job' = job, DecidedRunning(p)' => DecidedRunning(p)
        PROVE  WorkInv(p)' /\ NoFailureSeen(p)' /\ (AnyWith("failed") => AnyWith("failed")')
    <2>1. /\ \A i \in DOMAIN cmds[p] : i \in DOMAIN cmds'[p] /\ cmds'[p][i] = cmds[p][i]
          /\ \A i \in DOMAIN cmds'[p] : i \in DOMAIN cmds[p] \/ cmds'[p][i].st = "pending"
      BY <1>6, NativeInsert
    <2> QED
      BY <1>6, <2>1, WatchKept
  <1>7. CASE UNCHANGED vars
    BY <1>4, <1>7 DEF vars, agentVars, serverVars
  <1>8. CASE QueueCommand
    <2>1. /\ Order[creator.k] \in Nodes /\ Head(creator.todo) \in Actions
          /\ Insert(Order[creator.k], Head(creator.todo)) /\ UNCHANGED <<job, handler>>
      BY <1>8, QueueCommandEffect
    <2>2. Order[creator.k] = p
      BY <2>1, OneNode
    <2> QED
      BY <1>6, <2>1, <2>2 DEF DecidedRunning
  <1>9. CASE AbortHandler
    <2>1. /\ cmds' = cmds /\ (handler'[p] = handler[p] \/ handler'[p] = NoHandler \/ handler'[p].at = "check")
          /\ job'[p] = job[p] \/ job'[p] = NoJob
      BY <1>1, <1>9, AbortHandlerEffect
    <2> QED
      BY <1>2, <1>5, <2>1 DEF DecidedRunning
  <1>10. CASE FetchCommand(p)
    <2>1. UNCHANGED <<cmds, handler>> /\ job[p].at = "idle" /\ cmds[p][job'[p].cmd].st = "pending"
      BY <1>1, <1>10, FetchEffect
    <2> QED
      BY <2>1 DEF WorkInv, NoFailureSeen, DecidedRunning, AnyWith
  <1>11. CASE ExecuteCommand(p)
    <2>1. UNCHANGED <<cmds, handler>> /\ job[p].at = "run" /\ job'[p].at = "report" /\ job'[p].cmd = job[p].cmd
      BY <1>1, <1>11, ExecuteEffect
    <2> QED
      BY <2>1 DEF WorkInv, NoFailureSeen, DecidedRunning, AnyWith
  <1>12. CASE ReportCommandResult(p)
    <2> DEFINE k == job[p].cmd
    <2>1. /\ job[p].at = "report"
          /\ \/ cmds' = cmds /\ handler' = handler /\ job'[p] = NoJob
             \/ /\ cmds' = [cmds EXCEPT ![p][k].st = IF job[p].ok THEN "completed" ELSE "failed"]
                /\ job'[p].at = "wait" /\ handler'[p].at = "apply"
      BY <1>1, <1>12, ReportEffect
    <2>2. CASE cmds' = cmds /\ handler' = handler /\ job'[p] = NoJob
      BY <1>4, <2>2
    <2>3. CASE /\ cmds' = [cmds EXCEPT ![p][k].st = IF job[p].ok THEN "completed" ELSE "failed"]
               /\ job'[p].at = "wait" /\ handler'[p].at = "apply"
      <3> DEFINE v == IF job[p].ok THEN "completed" ELSE "failed"
      <3>1. v \in Statuses /\ cmds' = [cmds EXCEPT ![p][k].st = v] /\ CmdType
        BY <2>3 DEF Statuses, TypeInv
      <3>2. k \in DOMAIN cmds[p] /\ cmds[p][k].st = "pending" /\ DOMAIN cmds[p] = 1..Len(cmds[p])
        BY <1>3, <2>1, NodeTypes DEF WorkInv
      <3> HIDE DEF k, v
      <3>3. RowsKept /\ \A j \in 1..Len(cmds[p]) : j # k => cmds'[p][j] = cmds[p][j]
        <4>1. RowsKept
          BY <1>1, <3>1, <3>2, ResultEffect
        <4>2. \A j \in 1..Len(cmds[p]) : j # k => cmds'[p][j] = cmds[p][j]
          BY <1>1, <3>1, <3>2, ResultEffect
        <4> QED
          BY <4>1, <4>2
      <3>4. AnyWith("failed") => AnyWith("failed")'
        BY <1>1, <3>2, <3>3, OneNode DEF AnyWith, RowsKept
      <3> QED
        BY <2>3, <3>4 DEF WorkInv, NoFailureSeen, DecidedRunning
    <2> QED
      BY <2>1, <2>2, <2>3
  <1>13. CASE HeartbeatStep(p)
    <2>1. SamePrograms
      BY <1>1, <1>13, SendHeartbeatEffect, ReportStatusEffect DEF HeartbeatStep
    <2> QED
      BY <1>4, <2>1 DEF SamePrograms
  <1>14. CASE RestartAgent(p)
    <2>1. UNCHANGED <<cmds, handler>> /\ (job'[p] = job[p] \/ job'[p] = NoJob)
      BY <1>1, <1>14, RestartEffect
    <2> QED
      BY <1>4, <2>1
  <1>15. CASE HandleResult(p)
    <2>1. cmds' = cmds /\ job' = job /\ handler'[p].at \in {"check", "lifecycle", "lifecycleWrite", "queue"}
      BY <1>1, <1>15, HandleResultEffect
    <2> QED
      BY <1>5, <2>1 DEF DecidedRunning
  <1>16. CASE QueueContinuation(p)
    <2>1. /\ Head(handler[p].todo) \in Actions /\ Insert(p, Head(handler[p].todo)) /\ job' = job
          /\ handler'[p].at \in {"queue", "check"}
      BY <1>1, <1>16, QueueContinuationEffect
    <2> QED
      BY <1>6, <2>1 DEF DecidedRunning
  <1>17. CASE UpdateClusterLifecycleStatus(p) \/ CheckNodes(p) \/ CheckCommands(p)
    <2>1. /\ cmds' = cmds /\ (job' = job \/ job'[p] = NoJob)
          /\ handler'[p].at = "write" => ~AnyWith("failed")
      BY <1>1, <1>2, <1>17, DecisionEffect
    <2> QED
      BY <1>5, <2>1 DEF DecidedRunning
  <1>18. CASE LifecycleWrite(p) \/ WriteStatus(p)
    <2>1. cmds' = cmds /\ (job' = job \/ job'[p] = NoJob) /\ handler'[p].at \in {"check", "idle"}
      BY <1>1, <1>2, <1>18, LifecycleWriteEffect, WriteStatusEffect
    <2> QED
      BY <1>5, <2>1 DEF DecidedRunning
  <1>19. CASE CancelPending(p)
    <2>1. /\ job' = job /\ handler[p].at = "cancel" /\ handler'[p].next = handler[p].next
      BY <1>1, <1>19, CancelPendingEffect
    <2>2. /\ DOMAIN cmds'[p] = DOMAIN cmds[p]
          /\ \A i \in DOMAIN cmds[p] : cmds[p][i].st = "failed" => cmds'[p][i].st = "failed"
      BY <1>1, <1>19, CancelPendingEffect
    <2>3. AnyWith("failed") => AnyWith("failed")'
      BY <1>1, <2>2, OneNode DEF AnyWith
    <2>4. handler[p].next = "stopped"
      BY <1>1, <2>1 DEF DecisionInv
    <2> QED
      BY <1>3, <2>1, <2>3, <2>4 DEF WorkInv, NoFailureSeen, DecidedRunning
  <1>20. CASE ResolveState(p) \/ ResolveAbort(p) \/ \E choice \in Choices : ResolveInstallationConflict(p, choice)
    <2>1. UNCHANGED <<cmds, job, handler>>
      BY <1>1, <1>20, ResolveStateEffect, ResolveAbortEffect, ResolveEffect
    <2> QED
      BY <1>4, <2>1
  <1>21. CASE ResolveQueue(p)
    <2>1. Head(resolver[p].todo) \in Actions /\ Insert(p, Head(resolver[p].todo)) /\ UNCHANGED <<job, handler>>
      BY <1>1, <1>21, ResolveQueueEffect
    <2> QED
      BY <1>6, <2>1 DEF DecidedRunning
  <1> QED
    BY <1>7, <1>8, <1>9, <1>10, <1>11, <1>12, <1>13, <1>14, <1>15, <1>16, <1>17, <1>18, <1>19, <1>20, <1>21,
       OneNext

-----------------------------------------------------------------------------
(* The programs of the server, at one native node.                         *)

\* A result is applied.  A look that found nothing is continued, one that found
\* something leaves a conflict; the command the operator chose takes it away.
LEMMA NativeHandleResult ==
  ASSUME NEW p, OneNative(p), TypeInv, Undisturbed(p), ~AnyWith("failed"), HandleResult(p)
  PROVE  Undisturbed(p)'
  <1> DEFINE k == job[p].cmd
  <1> DEFINE a == Action(p)
  <1>1. /\ SameHosts /\ UNCHANGED <<cmds, job, creator, resolver>>
        /\ handler[p].at = "apply" /\ job[p].at = "wait" /\ inst'[p] = InstAfter(p)
        /\ \/ /\ handler'[p].at \in {"check", "lifecycle"} /\ handler'[p].todo = <<>>
              /\ ~(job[p].ok /\ a = "pg_preflight" /\ job[p].found = "none")
           \/ ~job[p].ok
           \/ /\ a = "pg_preflight" /\ job[p].found = "none"
              /\ handler'[p].at = "queue" /\ handler'[p].todo = Continuation(p)
    BY OneNode, HandleResultEffect
  <1>2. /\ Len(cmds[p]) \in Nat /\ DOMAIN cmds[p] = 1..Len(cmds[p]) /\ k \in Nat /\ k \in DOMAIN cmds[p]
        /\ \A i \in DOMAIN cmds[p] : cmds[p][i].st \in Statuses
        /\ inst[p] \in InstallStates /\ handler[p].todo = <<>>
    BY <1>1, NodeTypes
  <1>3. 1 \in DOMAIN cmds[p] /\ cmds[p] # <<>> /\ cmds[p][1].st # "pending"
    BY <1>1, LookIsPast DEF Undisturbed
  <1>4. /\ job[p].ok = TRUE /\ ~Creating
        /\ \A i \in DOMAIN cmds[p] : /\ i < k => cmds[p][i].st # "pending"
                                     /\ i > k => cmds[p][i].st = "pending"
                                     /\ cmds[p][i].st # "pending" => cmds[p][i].st = "completed"
        /\ cmds[p][k].st = "completed"
    <2>1. \A i \in DOMAIN cmds[p] : cmds[p][i].st # "failed"
      BY OneAnyWith
    <2> QED
      BY <1>1, <1>2, <2>1 DEF Undisturbed, InOrder, LookFirst, Statuses
  <1>5. a = cmds[p][k].action /\ (k = 1 <=> a = "pg_preflight")
    BY <1>2, <1>3, <1>4 DEF Undisturbed, LookFirst, Action
  <1>6. Looking(p) <=> k = 1
    BY <1>1, <1>3 DEF Looking
  <1>7. ~Looking(p)'
    BY <1>1, <1>3, <1>4 DEF Looking
  <1>8. /\ k = 1 /\ job[p].found = "none" => inst'[p] = "installing"
        /\ k = 1 /\ job[p].found # "none" => inst'[p] \in Conflicts
        /\ k # 1 => inst'[p] \in {"installed", "installing", "adopted", inst[p]}
        /\ a \in FirstOfResolution => inst'[p] \in {"installing", "adopted"}
    BY <1>1, <1>4, <1>5 DEF InstAfter, Conflicts, FirstOfResolution
  <1>9. /\ Says(p, Quiet)' = Says(p, Quiet) /\ Says(p, Waiting)' = Says(p, Waiting)
        /\ Fresh(p) /\ inst'[p] \in Quiet => Fresh(p)'
    BY <1>1 DEF SameHosts, Says, Fresh
  <1>10. job[p].found = "none" /\ k = 1 => Fresh(p) /\ Fresh(p)' /\ Len(cmds[p]) <= 1
    <2>1. job[p].found = "none" /\ k = 1 => Fresh(p) /\ Len(cmds[p]) <= 1
      BY <1>1, <1>4, <1>6 DEF Undisturbed, FoundIsThere, NothingFound
    <2> QED
      BY <1>8, <1>9, <2>1, StateSets
  <1>11. k = 1 \/ k >= 2
    <2> HIDE DEF k
    <2> QED
      BY <1>2
  <1> HIDE DEF a
  <1>12. LookFirst(p)' /\ InOrder(p)'
    BY <1>1, <1>4 DEF Undisturbed, LookFirst, InOrder, Creating, SameHosts
  <1>13. NothingFound(p)'
    BY <1>7 DEF NothingFound
  <1>14. FoundIsThere(p)'
    BY <1>1, <1>9 DEF Undisturbed, FoundIsThere, SameHosts
  <1>15. ChosenFirst(p)'
    <2>1. CASE job[p].found = "none" /\ k = 1
      BY <1>7, <1>10, <2>1 DEF ChosenFirst
    <2>2. CASE ~(job[p].found = "none" /\ k = 1)
      <3>1. handler'[p].at # "queue"
        BY <1>1, <1>4, <1>5, <2>2
      <3>2. ~Fresh(p)' => ~Fresh(p) \/ Looking(p)
        <4>1. Fresh(p) /\ k # 1 => inst'[p] \in Quiet
          BY <1>8, StateSets DEF Fresh
        <4> QED
          BY <1>6, <1>9, <4>1
      <3> QED
        BY <1>1, <1>7, <3>1, <3>2 DEF Undisturbed, ChosenFirst
    <2> QED
      BY <2>1, <2>2
  <1>16. ConflictForgotten(p)'
    <2>1. ASSUME inst'[p] \in Conflicts, NEW i \in DOMAIN cmds[p], i >= 2, cmds[p][i].st = "completed"
          PROVE  FALSE
      <3>1. k # 1
        BY <1>2, <1>4, <2>1
      <3>2. inst[p] \in Conflicts /\ a \notin FirstOfResolution /\ k >= 2
        BY <1>8, <1>11, <2>1, <3>1, StateSets
      <3>3. \A j \in DOMAIN cmds[p] : j >= 2 /\ cmds[p][j].st = "completed" => j = k
        BY <3>2 DEF Undisturbed, ConflictForgotten
      <3>4. 2 \in DOMAIN cmds[p] /\ Len(cmds[p]) >= 2
        <4> DEFINE l == Len(cmds[p])
        <4>1. l \in Nat /\ k \in 1..l /\ k >= 2 /\ DOMAIN cmds[p] = 1..l
          BY <1>2, <3>2
        <4> HIDE DEF l, k
        <4>2. 2 \in 1..l /\ l >= 2
          BY <4>1
        <4> QED
          BY <4>1, <4>2 DEF l
      <3>5. k = 2
        <4>1. k > 2 => FALSE
          BY <1>2, <1>4, <3>3, <3>4
        <4> HIDE DEF k
        <4> QED
          BY <1>2, <3>2, <4>1
      <3>6. cmds[p][2].action \in FirstOfResolution
        BY <3>2, <3>4, StateSets DEF Undisturbed, ChosenFirst, Fresh
      <3> QED
        BY <1>5, <3>2, <3>5, <3>6
    <2> QED
      BY <1>1, <1>9, <2>1 DEF Undisturbed, ConflictForgotten
  <1>17. ResolvedEarly(p)' /\ QueuedBeforeBegun(p)'
    BY <1>1 DEF Undisturbed, ResolvedEarly, QueuedBeforeBegun
  <1>18. ListsEnd(p)'
    <2>1. CASE handler'[p].todo = <<>>
      BY <1>1, <1>2, <2>1 DEF Undisturbed, ListsEnd
    <2>2. CASE handler'[p].todo # <<>>
      <3> DEFINE t == Continuation(p)
      <3>1. handler'[p].todo = t
        BY <1>1, <1>4, <2>2
      <3>2. /\ t \in Seq(Actions) /\ t # <<>> /\ t[Len(t)] = "pg_create_repl_user"
            /\ t[1] \in {"pg_install_native", "pg_init", "pg_basebackup"}
            /\ \A i \in 1..Len(t) : t[i] # "pg_preflight"
        BY ContinuationType, OneNode DEF LastCommand
      <3> HIDE DEF t
      <3>3. Head(t) = t[1]
        BY <3>2
      <3> QED
        BY <1>1, <3>1, <3>2, <3>3 DEF Undisturbed, ListsEnd
    <2> QED
      BY <2>1, <2>2
  <1>19. LookAlone(p)' /\ RunningSeen(p)'
    <2>1. ASSUME Len(cmds[p]) = 1, handler'[p].at # "queue"
          PROVE  Says(p, Waiting) /\ inst'[p] \in Waiting
      <3>1. k = 1
        BY <1>2, <2>1
      <3>2. job[p].found # "none"
        BY <1>1, <1>4, <1>5, <2>1, <3>1
      <3> QED
        BY <1>1, <1>4, <1>8, <3>1, <3>2, StateSets DEF Undisturbed, FoundIsThere
    <2>2. handler'[p].at \in {"check", "lifecycle", "queue"}
      BY <1>1, <1>4
    <2> QED
      BY <1>1, <1>9, <2>1, <2>2 DEF LookAlone, RunningSeen, DecidedRunning
  <1> QED
    BY <1>12, <1>13, <1>14, <1>15, <1>16, <1>17, <1>18, <1>19 DEF Undisturbed

\* CreateCluster queues the look.
LEMMA NativeQueueCommand ==
  ASSUME NEW p, OneNative(p), TypeInv, Undisturbed(p), QueueCommand
  PROVE  Undisturbed(p)'
  <1>1. /\ Creating /\ Order[creator.k] \in Nodes /\ Head(creator.todo) \in Actions
        /\ Insert(Order[creator.k], Head(creator.todo)) /\ SameRows /\ SameHosts
        /\ UNCHANGED <<job, handler, resolver>>
        /\ \/ Len(creator.todo) > 1
           \/ Len(creator.todo) = 1 /\ creator'.k = creator.k + 1
    BY QueueCommandEffect
  <1>2. /\ cmds[p] = <<>> /\ creator.k = 1 /\ creator.todo = <<"pg_preflight">> /\ job[p].at = "idle" /\ Fresh(p)
    BY <1>1 DEF Undisturbed, LookFirst
  <1>3. /\ Len(cmds[p]) = 0 /\ DOMAIN cmds[p] = 1..0 /\ Len(creator.todo) = 1
        /\ Head(creator.todo) = "pg_preflight" /\ Order[creator.k] = p
    BY <1>1, <1>2, OneNode
  <1>4. /\ Len(cmds'[p]) = 1 /\ cmds'[p] # <<>> /\ DOMAIN cmds'[p] = {1}
        /\ cmds'[p][1].action = "pg_preflight" /\ cmds'[p][1].st = "pending"
    <2>1. /\ Len(cmds'[p]) = Len(cmds[p]) + 1 /\ cmds'[p] # <<>>
          /\ \A i \in DOMAIN cmds'[p] : i \in DOMAIN cmds[p] \/ i = Len(cmds[p]) + 1
          /\ Len(cmds[p]) + 1 \in DOMAIN cmds'[p]
          /\ cmds'[p][Len(cmds[p]) + 1].action = Head(creator.todo)
          /\ cmds'[p][Len(cmds[p]) + 1].st = "pending"
      BY <1>1, <1>3, NativeInsert
    <2> QED
      BY <1>3, <2>1
  <1>5. ~Creating'
    <2>1. Len(Order) = 1 /\ creator'.k = creator.k + 1
      BY <1>1, <1>3, OneNode
    <2>2. creator'.k = 2
      BY <1>2, <2>1
    <2> QED
      BY <2>1, <2>2 DEF Creating
  <1>6. handler[p].at = "idle" /\ handler[p].todo = <<>> /\ resolver[p].at = "idle" /\ resolver[p].todo = <<>>
    BY <1>2, NodeTypes DEF Fresh
  <1>7. Fresh(p)'
    BY <1>1, <1>2 DEF Fresh, Says, SameRows, SameHosts
  <1>8. LookFirst(p)' /\ InOrder(p)'
    BY <1>1, <1>2, <1>4, <1>5 DEF LookFirst, InOrder
  <1>9. NothingFound(p)' /\ FoundIsThere(p)' /\ ChosenFirst(p)'
    BY <1>1, <1>2, <1>4, <1>6, <1>7 DEF NothingFound, FoundIsThere, ChosenFirst
  <1>10. ConflictForgotten(p)' /\ ResolvedEarly(p)' /\ ListsEnd(p)' /\ QueuedBeforeBegun(p)'
    BY <1>1, <1>2, <1>4, <1>6 DEF ConflictForgotten, ResolvedEarly, ListsEnd, QueuedBeforeBegun
  <1>11. LookAlone(p)' /\ RunningSeen(p)'
    BY <1>1, <1>4, <1>6 DEF LookAlone, RunningSeen, DecidedRunning
  <1> QED
    BY <1>8, <1>9, <1>10, <1>11 DEF Undisturbed

\* What an INSERT after the look leaves as it was: the order of the work, and
\* the answer to a look.
LEMMA NativeInsertKeeps ==
  ASSUME NEW p, OneNative(p), TypeInv, Undisturbed(p), ~Creating, NEW a \in Actions, a # "pg_preflight",
         Insert(p, a), SameRows, SameHosts, UNCHANGED <<job, creator>>
  PROVE  /\ LookFirst(p)' /\ InOrder(p)' /\ FoundIsThere(p)' /\ QueuedBeforeBegun(p)'
         /\ Len(cmds[p]) \in Nat /\ Len(cmds[p]) >= 1 /\ Len(cmds'[p]) = Len(cmds[p]) + 1
         /\ DOMAIN cmds[p] = 1..Len(cmds[p])
         /\ \A i \in DOMAIN cmds[p] : i \in DOMAIN cmds'[p] /\ cmds'[p][i] = cmds[p][i]
         /\ \A i \in DOMAIN cmds'[p] : i \in DOMAIN cmds[p] \/ cmds'[p][i].st = "pending"
         /\ cmds'[p][Len(cmds[p]) + 1].action = a /\ cmds'[p][Len(cmds[p]) + 1].st = "pending"
         /\ Len(cmds[p]) + 1 \in DOMAIN cmds'[p] /\ 1 \in DOMAIN cmds[p] /\ cmds'[p] # <<>>
         /\ Says(p, Quiet)' = Says(p, Quiet) /\ Says(p, Waiting)' = Says(p, Waiting)
  <1> DEFINE l == Len(cmds[p])
  <1>1. /\ l \in Nat /\ DOMAIN cmds[p] = 1..l /\ (cmds[p] = <<>> <=> l = 0)
        /\ job[p].cmd \in Nat /\ (job[p].at # "idle" => job[p].cmd \in DOMAIN cmds[p])
    BY NodeTypes
  <1>2. /\ Len(cmds'[p]) = l + 1 /\ cmds'[p] # <<>>
        /\ \A i \in DOMAIN cmds[p] : i \in DOMAIN cmds'[p] /\ cmds'[p][i] = cmds[p][i]
        /\ \A i \in DOMAIN cmds'[p] : i \in DOMAIN cmds[p] \/ i = l + 1
        /\ l + 1 \in DOMAIN cmds'[p] /\ cmds'[p][l + 1].action = a /\ cmds'[p][l + 1].st = "pending"
    BY NativeInsert
  <1>3. cmds[p] # <<>> /\ cmds[p][1].action = "pg_preflight"
    BY DEF Undisturbed, LookFirst
  <1> HIDE DEF l
  <1>4. l >= 1 /\ 1 \in DOMAIN cmds[p] /\ \A i \in DOMAIN cmds[p] : i < l + 1 /\ i # l + 1
    BY <1>1, <1>3
  <1>5. LookFirst(p)'
    BY <1>2, <1>3, <1>4 DEF Undisturbed, LookFirst, Creating
  <1>6. InOrder(p)'
    <2>1. ASSUME NEW i \in DOMAIN cmds'[p], NEW j \in DOMAIN cmds'[p], j < i, cmds'[p][i].st # "pending"
          PROVE  cmds'[p][j].st # "pending"
      <3>1. i \in DOMAIN cmds[p]
        BY <1>2, <2>1
      <3>2. j \in DOMAIN cmds[p]
        BY <1>1, <1>2, <2>1, <3>1
      <3> QED
        BY <1>2, <2>1, <3>1, <3>2 DEF Undisturbed, InOrder
    <2>2. ASSUME job[p].at # "idle", NEW j \in DOMAIN cmds'[p]
          PROVE  /\ j < job[p].cmd => cmds'[p][j].st # "pending"
                 /\ j > job[p].cmd => cmds'[p][j].st = "pending"
      <3>1. CASE j \in DOMAIN cmds[p]
        BY <1>2, <2>2, <3>1 DEF Undisturbed, InOrder
      <3>2. CASE j = l + 1
        BY <1>1, <1>2, <2>2, <3>2
      <3> QED
        BY <1>2, <3>1, <3>2
    <2>3. job[p].at # "idle" => cmds'[p][job[p].cmd] = cmds[p][job[p].cmd]
      BY <1>1, <1>2
    <2> QED
      BY <2>1, <2>2, <2>3 DEF Undisturbed, InOrder, SameHosts
  <1>7. Says(p, Quiet)' = Says(p, Quiet) /\ Says(p, Waiting)' = Says(p, Waiting)
    BY DEF Says, SameHosts
  <1>8. FoundIsThere(p)'
    BY <1>7 DEF Undisturbed, FoundIsThere, SameHosts
  <1>9. QueuedBeforeBegun(p)'
    <2>1. ASSUME NEW i \in DOMAIN cmds'[p], i >= 2,
                 cmds'[p][i].st # "pending" \/ (job[p].at # "idle" /\ job[p].cmd = i)
          PROVE  l + 1 >= 3
      <3>1. i \in DOMAIN cmds[p]
        BY <1>1, <1>2, <1>4, <2>1
      <3>2. l >= 3
        BY <1>2, <2>1, <3>1 DEF Undisturbed, QueuedBeforeBegun, l
      <3> QED
        BY <1>1, <3>2
    <2> QED
      BY <1>2, <2>1 DEF QueuedBeforeBegun
  <1> QED
    BY <1>1, <1>2, <1>4, <1>5, <1>6, <1>7, <1>8, <1>9 DEF l

\* The continuation of a look that found nothing is queued.
LEMMA NativeQueueContinuation ==
  ASSUME NEW p, OneNative(p), TypeInv, Undisturbed(p), QueueContinuation(p)
  PROVE  Undisturbed(p)'
  <1> DEFINE t == handler[p].todo
  <1> DEFINE l == Len(cmds[p])
  <1>1. /\ SameRows /\ SameHosts /\ UNCHANGED <<job, creator, resolver>>
        /\ handler[p].at = "queue" /\ t \in Seq(Actions) /\ t # <<>>
        /\ Head(t) \in Actions /\ Insert(p, Head(t))
        /\ handler'[p].todo = Tail(t) /\ handler'[p].at \in {"queue", "check"}
    BY OneNode, QueueContinuationEffect
  <1>2. Fresh(p) /\ ~Looking(p) /\ job[p].at = "wait" /\ resolver[p].at = "idle" /\ resolver[p].todo = <<>>
    BY <1>1, NodeTypes DEF Undisturbed, ChosenFirst, Fresh
  <1>3. ~Creating
    BY <1>2 DEF Undisturbed, LookFirst
  <1>4. /\ \A i \in 1..Len(t) : t[i] # "pg_preflight"
        /\ t[Len(t)] = "pg_create_repl_user" /\ (l = 1 => Head(t) # "pg_create_repl_user")
    BY <1>1 DEF Undisturbed, ListsEnd
  <1>5. /\ Len(t) \in Nat /\ Len(t) >= 1 /\ Head(t) = t[1]
        /\ Tail(t) # <<>> <=> Len(t) > 1
        /\ Tail(t) # <<>> => /\ \A i \in 1..Len(Tail(t)) : Tail(t)[i] # "pg_preflight"
                             /\ Tail(t)[Len(Tail(t))] = "pg_create_repl_user"
    <2> HIDE DEF t
    <2> QED
      BY <1>1, <1>4, NonEmpty, TailKeepsLast
  <1>6. Head(t) # "pg_preflight" /\ (Tail(t) = <<>> => Head(t) = "pg_create_repl_user")
    <2> DEFINE m == Len(t)
    <2>1. m \in Nat /\ m >= 1 /\ (Tail(t) = <<>> => ~(m > 1))
      BY <1>5
    <2> HIDE DEF m
    <2>2. 1 \in 1..m /\ (Tail(t) = <<>> => m = 1)
      BY <2>1
    <2> QED
      BY <1>4, <1>5, <2>2 DEF m
  <1> HIDE DEF t
  <1>7. /\ LookFirst(p)' /\ InOrder(p)' /\ FoundIsThere(p)' /\ QueuedBeforeBegun(p)'
        /\ l \in Nat /\ l >= 1 /\ Len(cmds'[p]) = l + 1
        /\ \A i \in DOMAIN cmds[p] : cmds'[p][i] = cmds[p][i]
        /\ cmds'[p][l + 1].action = Head(t) /\ 1 \in DOMAIN cmds[p] /\ cmds'[p] # <<>>
    BY <1>1, <1>3, <1>6, NativeInsertKeeps
  <1> HIDE DEF l
  <1>8. /\ l + 1 # 1 /\ l + 1 # 0 /\ (l + 1 = 2 => l = 1)
    BY <1>7
  <1>9. Fresh(p)' /\ ~Looking(p)'
    BY <1>1, <1>2, <1>7 DEF Fresh, Looking, Says, SameRows, SameHosts
  <1>10. NothingFound(p)' /\ ChosenFirst(p)'
    BY <1>9 DEF NothingFound, ChosenFirst
  <1>11. ConflictForgotten(p)' /\ ResolvedEarly(p)'
    BY <1>1, <1>2, <1>9, StateSets DEF ConflictForgotten, ResolvedEarly, Fresh
  <1>12. ListsEnd(p)'
    BY <1>1, <1>2, <1>4, <1>5, <1>6, <1>7, <1>8 DEF ListsEnd
  <1>13. LookAlone(p)' /\ RunningSeen(p)'
    BY <1>1, <1>7, <1>8 DEF LookAlone, RunningSeen, DecidedRunning
  <1> QED
    BY <1>7, <1>10, <1>11, <1>12, <1>13 DEF Undisturbed

\* The operator's commands are queued.
LEMMA NativeResolveQueue ==
  ASSUME NEW p, OneNative(p), TypeInv, Undisturbed(p), ResolveQueue(p)
  PROVE  Undisturbed(p)'
  <1> DEFINE t == resolver[p].todo
  <1> DEFINE l == Len(cmds[p])
  <1>1. /\ SameRows /\ SameHosts /\ UNCHANGED <<job, creator, handler>>
        /\ resolver[p].at = "queue" /\ t \in Seq(Actions) /\ t # <<>>
        /\ Head(t) \in Actions /\ Insert(p, Head(t)) /\ resolver'[p].todo = Tail(t)
    BY OneNode, ResolveQueueEffect
  <1>2. ~Fresh(p) /\ handler[p].at # "queue" /\ handler[p].todo = <<>>
    BY <1>1, NodeTypes DEF Undisturbed, ChosenFirst, Fresh
  <1>3. ~Creating
    BY <1>2 DEF Undisturbed, LookFirst
  <1>4. /\ \A i \in 1..Len(t) : t[i] # "pg_preflight"
        /\ t[Len(t)] = "pg_create_repl_user" /\ (l = 1 => Head(t) \in FirstOfResolution)
    BY <1>1 DEF Undisturbed, ListsEnd
  <1>5. /\ Len(t) \in Nat /\ Len(t) >= 1 /\ Head(t) = t[1]
        /\ Tail(t) # <<>> <=> Len(t) > 1
        /\ Tail(t) # <<>> => /\ \A i \in 1..Len(Tail(t)) : Tail(t)[i] # "pg_preflight"
                             /\ Tail(t)[Len(Tail(t))] = "pg_create_repl_user"
    <2> HIDE DEF t
    <2> QED
      BY <1>1, <1>4, NonEmpty, TailKeepsLast
  <1>6. Head(t) # "pg_preflight" /\ (Tail(t) = <<>> => Head(t) = "pg_create_repl_user")
    <2> DEFINE m == Len(t)
    <2>1. m \in Nat /\ m >= 1 /\ (Tail(t) = <<>> => ~(m > 1))
      BY <1>5
    <2> HIDE DEF m
    <2>2. 1 \in 1..m /\ (Tail(t) = <<>> => m = 1)
      BY <2>1
    <2> QED
      BY <1>4, <1>5, <2>2 DEF m
  <1>7. ~DecidedRunning(p)
    <2> SUFFICES ASSUME DecidedRunning(p) PROVE FALSE
      OBVIOUS
    <2>1. /\ l \in Nat /\ DOMAIN cmds[p] = 1..l /\ (cmds[p] = <<>> <=> l = 0) /\ cmds[p] # <<>>
      BY <1>3, NodeTypes DEF Undisturbed, LookFirst
    <2>2. \A i \in DOMAIN cmds[p] : cmds[p][i].st = "completed"
      BY DEF Undisturbed, RunningSeen
    <2>3. handler[p].at \notin {"apply", "queue"}
      BY DEF DecidedRunning
    <2>4. l = 1 => 1 \in DOMAIN cmds[p]
      BY <2>1
    <2>5. l # 1
      BY <2>2, <2>3, <2>4 DEF Undisturbed, LookAlone
    <2>6. 2 \in DOMAIN cmds[p] => l >= 3
      BY <2>2 DEF Undisturbed, QueuedBeforeBegun
    <2>7. 3 \notin DOMAIN cmds[p]
      BY <1>1, <2>2 DEF Undisturbed, ResolvedEarly
    <2> HIDE DEF l
    <2> QED
      BY <2>1, <2>5, <2>6, <2>7
  <1> HIDE DEF t
  <1>8. /\ LookFirst(p)' /\ InOrder(p)' /\ FoundIsThere(p)' /\ QueuedBeforeBegun(p)'
        /\ l \in Nat /\ l >= 1 /\ Len(cmds'[p]) = l + 1 /\ DOMAIN cmds[p] = 1..l
        /\ \A i \in DOMAIN cmds[p] : cmds'[p][i] = cmds[p][i]
        /\ \A i \in DOMAIN cmds'[p] : i \in DOMAIN cmds[p] \/ cmds'[p][i].st = "pending"
        /\ cmds'[p][l + 1].action = Head(t) /\ 1 \in DOMAIN cmds[p] /\ cmds'[p] # <<>>
        /\ Says(p, Quiet)' = Says(p, Quiet)
    BY <1>1, <1>3, <1>6, NativeInsertKeeps
  <1>9. Looking(p)' => Looking(p)
    BY <1>1, <1>8 DEF Looking
  <1> HIDE DEF l
  <1>10. /\ l + 1 # 1 /\ l + 1 # 0 /\ (l + 1 = 2 => l = 1)
         /\ l = 1 \/ (l >= 2 /\ 2 \in DOMAIN cmds[p])
    BY <1>8
  <1>11. NothingFound(p)'
    BY <1>1, <1>2, <1>9 DEF Undisturbed, NothingFound, SameHosts
  <1>12. ChosenFirst(p)'
    <2>1. cmds'[p][2].action \in FirstOfResolution
      <3>1. CASE l = 1
        BY <1>4, <1>8, <3>1
      <3>2. CASE l >= 2 /\ 2 \in DOMAIN cmds[p]
        <4>1. cmds[p][2].action \in FirstOfResolution
          BY <1>2, <3>2 DEF Undisturbed, ChosenFirst, l
        <4> QED
          BY <1>8, <3>2, <4>1
      <3> QED
        BY <1>10, <3>1, <3>2
    <2> QED
      BY <1>1, <1>2, <2>1 DEF ChosenFirst
  <1>13. ConflictForgotten(p)'
    BY <1>1, <1>8 DEF Undisturbed, ConflictForgotten, SameRows
  <1>14. ResolvedEarly(p)'
    BY <1>1, <1>8 DEF Undisturbed, ResolvedEarly
  <1>15. ListsEnd(p)'
    <2>1. l = 1 => Head(t) # "pg_create_repl_user"
      BY <1>4 DEF FirstOfResolution
    <2> QED
      BY <1>1, <1>2, <1>4, <1>5, <1>6, <1>8, <1>10, <2>1 DEF ListsEnd
  <1>16. LookAlone(p)' /\ RunningSeen(p)'
    BY <1>1, <1>7, <1>8, <1>10 DEF LookAlone, RunningSeen, DecidedRunning
  <1> QED
    BY <1>8, <1>11, <1>12, <1>13, <1>14, <1>15, <1>16 DEF Undisturbed

\* A handler goes on, or returns, after it has applied the result and queued
\* what follows from it.
LEMMA NativeMove ==
  ASSUME NEW p, OneNative(p), TypeInv, Undisturbed(p),
         SameHosts, UNCHANGED <<inst, cmds, creator, resolver>>,
         handler[p].at \notin {"idle", "apply", "queue"},
         handler'[p].at \notin {"apply", "queue"}, handler'[p].todo = <<>>,
         job'[p] = job[p] \/ job'[p] = NoJob,
         handler'[p].at = "list" => inst[p] \notin Waiting,
         DecidedRunning(p)' => /\ handler[p].at = "list"
                               /\ \A i \in DOMAIN cmds[p] : cmds[p][i].st = "completed"
  PROVE  Undisturbed(p)'
  <1>1. NoJob.at = "idle"
    BY DEF NoJob
  <1> HIDE DEF NoJob
  <1>2. job[p].at = "wait" /\ handler[p].todo = <<>>
    BY NodeTypes
  <1>3. /\ Says(p, Quiet)' = Says(p, Quiet) /\ Says(p, Waiting)' = Says(p, Waiting) /\ Fresh(p)' = Fresh(p)
    BY DEF Says, Fresh, SameHosts
  <1>4. ~Looking(p)' /\ ~Creating
    BY <1>2, LookIsPast DEF Undisturbed, Looking, LookFirst
  <1>5. LookFirst(p)'
    BY <1>4 DEF Undisturbed, LookFirst, Creating
  <1>6. InOrder(p)'
    BY <1>1 DEF Undisturbed, InOrder, SameHosts
  <1>7. NothingFound(p)' /\ FoundIsThere(p)'
    BY <1>1, <1>3, <1>4 DEF Undisturbed, NothingFound, FoundIsThere, SameHosts
  <1>8. ChosenFirst(p)'
    BY <1>3, <1>4 DEF Undisturbed, ChosenFirst
  <1>9. ConflictForgotten(p)'
    BY <1>1, <1>2, <1>3 DEF Undisturbed, ConflictForgotten
  <1>10. ResolvedEarly(p)' /\ QueuedBeforeBegun(p)'
    BY <1>1 DEF Undisturbed, ResolvedEarly, QueuedBeforeBegun
  <1>11. ListsEnd(p)'
    BY <1>2 DEF Undisturbed, ListsEnd
  <1>12. LookAlone(p)'
    BY <1>3 DEF Undisturbed, LookAlone
  <1>13. RunningSeen(p)'
    BY DEF RunningSeen
  <1> QED
    BY <1>5, <1>6, <1>7, <1>8, <1>9, <1>10, <1>11, <1>12, <1>13 DEF Undisturbed

\* Where nothing is pending, nothing is skipped.
LEMMA CancelNothing ==
  ASSUME CmdType, ~AnyWith("pending"),
         cmds' = [m \in Nodes |-> [i \in DOMAIN cmds[m] |->
                   [cmds[m][i] EXCEPT !.st = IF @ = "pending" THEN "failed" ELSE @]]]
  PROVE  cmds' = cmds
  <1> DEFINE row(m, i) == [cmds[m][i] EXCEPT !.st = IF @ = "pending" THEN "failed" ELSE @]
  <1> DEFINE rows(m) == [i \in DOMAIN cmds[m] |-> row(m, i)]
  <1>1. ASSUME NEW m \in Nodes, NEW i \in DOMAIN cmds[m] PROVE row(m, i) = cmds[m][i]
    <2>1. cmds[m][i] \in Commands /\ cmds[m][i].st # "pending"
      BY <1>1, CmdOf DEF AnyWith
    <2> QED
      BY <2>1 DEF Commands
  <1>2. cmds' = [m \in Nodes |-> rows(m)]
    OBVIOUS
  <1>3. ASSUME NEW m \in Nodes PROVE rows(m) = cmds[m]
    <2>1. cmds[m] \in Seq(Commands)
      BY <1>3 DEF CmdType
    <2>2. DOMAIN cmds[m] = 1..Len(cmds[m]) /\ cmds[m] \in [1..Len(cmds[m]) -> Commands]
      BY <2>1, LenProperties
    <2> HIDE DEF row
    <2> QED
      BY <1>1, <2>2
  <1> HIDE DEF rows
  <1>4. cmds' = [m \in Nodes |-> cmds[m]]
    BY <1>2, <1>3
  <1> QED
    BY <1>4 DEF CmdType

\* The decisions of a handler, and what it does with them.
LEMMA NativeHandlerMove ==
  ASSUME NEW p, OneNative(p), TypeInv, DecisionInv, Undisturbed(p), ~AnyWith("failed")',
         \/ UpdateClusterLifecycleStatus(p) \/ CheckNodes(p) \/ CheckCommands(p)
         \/ LifecycleWrite(p) \/ CancelPending(p) \/ WriteStatus(p)
  PROVE  Undisturbed(p)'
  <1>1. p \in Nodes
    BY OneNode
  <1>2. NoHandler.at = "idle" /\ NoHandler.todo = <<>>
    BY DEF NoHandler
  <1> HIDE DEF NoHandler, NoJob
  <1>3. CASE UpdateClusterLifecycleStatus(p) \/ CheckNodes(p) \/ CheckCommands(p)
    <2>1. /\ SameRows /\ SameHosts /\ UNCHANGED <<cmds, creator, resolver>>
          /\ handler[p].at \in {"lifecycle", "check", "list"} /\ handler'[p].todo = <<>>
          /\ job'[p] = job[p] \/ job'[p] = NoJob
          /\ handler'[p].at \in {"idle", "check", "lifecycleWrite", "list", "cancel", "write"}
          /\ handler'[p].at = "list" => inst[p] \notin Unfinished \cup {"failed"}
          /\ handler'[p].at = "write" => handler[p].at = "list" /\ ~AnyWith("failed") /\ ~AnyWith("pending")
      BY <1>1, <1>2, <1>3, DecisionEffect
    <2>2. DecidedRunning(p)' => /\ handler[p].at = "list"
                                /\ \A i \in DOMAIN cmds[p] : cmds[p][i].st = "completed"
      <3>1. ~AnyWith("failed") /\ ~AnyWith("pending") => \A i \in DOMAIN cmds[p] : cmds[p][i].st = "completed"
        BY <1>1, NodeTypes DEF AnyWith, Statuses
      <3> QED
        BY <2>1, <3>1 DEF DecidedRunning
    <2> QED
      BY <2>1, <2>2, NativeMove DEF Waiting, SameRows
  <1>4. CASE LifecycleWrite(p) \/ WriteStatus(p)
    <2>1. /\ SameHosts /\ UNCHANGED <<inst, cmds, creator, resolver>>
          /\ handler[p].at \in {"lifecycleWrite", "write"} /\ handler'[p].at \in {"check", "idle"}
          /\ handler'[p].todo = <<>> /\ (job'[p] = job[p] \/ job'[p] = NoJob)
      BY <1>1, <1>2, <1>4, LifecycleWriteEffect, WriteStatusEffect
    <2> QED
      BY <2>1, NativeMove DEF DecidedRunning
  <1>5. CASE CancelPending(p)
    <2>1. /\ SameRows /\ SameHosts /\ UNCHANGED <<job, creator, resolver>>
          /\ handler[p].at = "cancel" /\ handler'[p].at = "write" /\ handler'[p].todo = <<>>
          /\ handler'[p].next = handler[p].next
      BY <1>1, <1>5, CancelPendingEffect
    <2>2. handler[p].next = "stopped"
      BY <1>1, <2>1 DEF DecisionInv
    <2>3. cmds' = cmds
      <3> SUFFICES ASSUME cmds' = [m \in Nodes |-> [i \in DOMAIN cmds[m] |->
                                    [cmds[m][i] EXCEPT !.st = IF @ = "pending" THEN "failed" ELSE @]]]
                   PROVE  cmds' = cmds
        BY <1>5 DEF CancelPending
      <3>1. /\ DOMAIN cmds'[p] = DOMAIN cmds[p]
            /\ \A i \in DOMAIN cmds[p] : cmds[p][i].st = "pending" => cmds'[p][i].st = "failed"
        BY <1>1, CancelEffect DEF TypeInv
      <3>2. ~AnyWith("pending")
        BY <1>1, <3>1, OneNode DEF AnyWith
      <3> QED
        BY <3>2, CancelNothing DEF TypeInv
    <2> QED
      BY <2>1, <2>2, <2>3, NativeMove DEF DecidedRunning, SameRows
  <1> QED
    BY <1>3, <1>4, <1>5

\* A resolution begins or goes on.
LEMMA NativeResolution ==
  ASSUME NEW p, OneNative(p), TypeInv, Undisturbed(p), ~Fresh(p),
         SameHosts, UNCHANGED <<cmds, job, creator, handler>>,
         inst'[p] = inst[p] \/ inst'[p] \in {"installing", "failed"},
         ResolvedEarly(p)', ListsEnd(p)'
  PROVE  Undisturbed(p)'
  <1>1. Says(p, Quiet)' = Says(p, Quiet) /\ Says(p, Waiting)' = Says(p, Waiting) /\ Looking(p)' = Looking(p)
    BY DEF Says, Looking, SameHosts
  <1>2. /\ inst'[p] \in Conflicts => inst[p] \in Conflicts
        /\ inst[p] \in Waiting => inst'[p] \in Waiting
    BY StateSets
  <1>3. LookFirst(p)' /\ InOrder(p)'
    BY DEF Undisturbed, LookFirst, InOrder, Creating, SameHosts
  <1>4. NothingFound(p)' /\ FoundIsThere(p)' /\ ChosenFirst(p)'
    BY <1>1 DEF Undisturbed, NothingFound, FoundIsThere, ChosenFirst, SameHosts
  <1>5. ConflictForgotten(p)' /\ QueuedBeforeBegun(p)'
    BY <1>1, <1>2 DEF Undisturbed, ConflictForgotten, QueuedBeforeBegun
  <1>6. LookAlone(p)' /\ RunningSeen(p)'
    BY <1>1, <1>2 DEF Undisturbed, LookAlone, RunningSeen, DecidedRunning
  <1> QED
    BY <1>3, <1>4, <1>5, <1>6 DEF Undisturbed

\* The operator answers a conflict, and his answer is carried out.
LEMMA NativeResolve ==
  ASSUME NEW p, OneNative(p), TypeInv, Undisturbed(p), ~AnyWith("failed"),
         \/ \E choice \in Choices : ResolveInstallationConflict(p, choice)
         \/ ResolveState(p) \/ ResolveAbort(p)
  PROVE  Undisturbed(p)'
  <1>1. p \in Nodes
    BY OneNode
  <1>2. ASSUME NEW choice \in Choices, ResolveInstallationConflict(p, choice) PROVE Undisturbed(p)'
    <2>1. /\ SameRows /\ SameHosts /\ UNCHANGED <<cmds, job, creator, handler>>
          /\ inst[p] \in Conflicts /\ resolver[p].at = "idle"
          /\ resolver'[p].todo = ResolveCommands(p, choice)
      BY <1>1, <1>2, ResolveEffect
    <2>2. ~Fresh(p) /\ resolver[p].todo = <<>>
      BY <2>1, NodeTypes, StateSets DEF Fresh
    <2>3. /\ Len(cmds[p]) \in Nat /\ DOMAIN cmds[p] = 1..Len(cmds[p]) /\ job[p].cmd \in Nat
          /\ job[p].at # "idle" => job[p].cmd \in DOMAIN cmds[p]
          /\ \A i \in DOMAIN cmds[p] : cmds[p][i].st # "pending" => cmds[p][i].st = "completed"
      BY <1>1, NodeTypes DEF AnyWith, Statuses
    <2>4. \A i \in DOMAIN cmds[p] : i >= 2 /\ cmds[p][i].st # "pending" => job[p].cmd = i
      BY <2>1, <2>3 DEF Undisturbed, ConflictForgotten
    <2>5. ASSUME NEW i \in DOMAIN cmds[p], i >= 3 PROVE 2 \in DOMAIN cmds[p] /\ 2 < i /\ i >= 2 /\ i # 2
      <3> DEFINE l == Len(cmds[p])
      <3>1. l \in Nat /\ i \in 1..l /\ DOMAIN cmds[p] = 1..l
        BY <2>3, <2>5
      <3> HIDE DEF l
      <3> QED
        BY <2>5, <3>1
    <2>6. ASSUME NEW i \in DOMAIN cmds[p], i >= 3 PROVE cmds[p][i].st = "pending"
      <3> SUFFICES ASSUME cmds[p][i].st # "pending" PROVE FALSE
        OBVIOUS
      <3>1. job[p].cmd = i
        BY <2>4, <2>5, <2>6
      <3>2. cmds[p][2].st # "pending"
        BY <2>5, <2>6 DEF Undisturbed, InOrder
      <3> QED
        BY <2>4, <2>5, <2>6, <3>1, <3>2
    <2>7. job[p].at # "idle" => job[p].cmd <= 2
      <3> DEFINE k == job[p].cmd
      <3> SUFFICES ASSUME job[p].at # "idle", k >= 3 PROVE FALSE
        <4> HIDE DEF k
        <4>1. k \in Nat
          BY <2>3 DEF k
        <4> QED
          BY <4>1 DEF k
      <3>1. k \in DOMAIN cmds[p]
        BY <2>3
      <3>2. cmds[p][2].st # "pending" /\ 2 \in DOMAIN cmds[p] /\ k # 2
        BY <2>5, <3>1 DEF Undisturbed, InOrder
      <3> QED
        BY <2>4, <3>2
    <2>8. ResolvedEarly(p)'
      BY <2>1, <2>6, <2>7 DEF ResolvedEarly
    <2>9. ListsEnd(p)'
      <3> DEFINE t == ResolveCommands(p, choice)
      <3>1. choice \in {"ADOPT", "PURGE", "ABORT"}
        BY <1>2, ProvisioningAssumption
      <3>2. t # <<>> => /\ Head(t) \in FirstOfResolution /\ t[Len(t)] = "pg_create_repl_user"
                        /\ \A i \in 1..Len(t) : t[i] # "pg_preflight"
        BY <3>1, ResolveCommandsType, OneNode DEF FirstOfResolution
      <3> HIDE DEF t
      <3>3. resolver'[p].todo = t
        BY <2>1 DEF t
      <3> QED
        BY <2>1, <2>2, <3>2, <3>3 DEF Undisturbed, ListsEnd
    <2> QED
      BY <2>1, <2>2, <2>8, <2>9, NativeResolution DEF SameRows
  <1>3. ASSUME ResolveState(p) \/ ResolveAbort(p) PROVE Undisturbed(p)'
    <2>1. NoResolver.at = "idle" /\ NoResolver.todo = <<>>
      BY DEF NoResolver
    <2> HIDE DEF NoResolver
    <2>2. /\ SameHosts /\ UNCHANGED <<cmds, job, creator, handler>>
          /\ resolver[p].at # "idle" /\ (inst'[p] = inst[p] \/ inst'[p] \in {"installing", "failed"})
          /\ \/ resolver'[p].todo = resolver[p].todo
             \/ resolver[p].at = "stop" /\ resolver'[p].todo = <<>>
      BY <1>1, <1>3, <2>1, ResolveStateEffect, ResolveAbortEffect
    <2>3. ~Fresh(p) /\ resolver'[p].todo = resolver[p].todo
      BY <2>2, NodeTypes DEF Fresh
    <2>4. ResolvedEarly(p)' /\ ListsEnd(p)'
      BY <2>2, <2>3 DEF Undisturbed, ResolvedEarly, ListsEnd
    <2> QED
      BY <2>2, <2>3, <2>4, NativeResolution
  <1> QED
    BY <1>2, <1>3

LEMMA NativeInit ==
  ASSUME NEW p, OneNative(p), Init
  PROVE  NativeInv(p)
  <1>1. p \in Nodes
    BY OneNode
  <1>2. /\ cmds[p] = <<>> /\ Len(cmds[p]) = 0 /\ DOMAIN cmds[p] = 1..0
        /\ job[p].at = "idle" /\ handler[p].at = "idle" /\ handler[p].todo = <<>>
        /\ resolver[p].at = "idle" /\ resolver[p].todo = <<>>
    BY <1>1 DEF Init, NoJob, NoHandler, NoResolver
  <1>3. Fresh(p)
    <2>1. agent[p] \in Remembered /\ inst[p] = "pending"
      BY <1>1 DEF Init
    <2>2. agent[p] \in Quiet
      BY <2>1, ProvisioningAssumption DEF OneNative, Quiet
    <2> QED
      BY <1>2, <2>1, <2>2, StateSets DEF Fresh, Says
  <1>4. Creating /\ creator.k = 1 /\ creator.todo = <<"pg_preflight">>
    BY OneNode DEF Init, Creating, CreateCommands, OneNative
  <1>5. WorkInv(p) /\ NoFailureSeen(p)
    BY <1>2 DEF WorkInv, NoFailureSeen, DecidedRunning
  <1>6. LookFirst(p) /\ InOrder(p) /\ NothingFound(p) /\ FoundIsThere(p) /\ ChosenFirst(p)
    BY <1>2, <1>3, <1>4 DEF LookFirst, InOrder, NothingFound, FoundIsThere, ChosenFirst
  <1>7. ConflictForgotten(p) /\ ResolvedEarly(p) /\ ListsEnd(p) /\ QueuedBeforeBegun(p)
    BY <1>2 DEF ConflictForgotten, ResolvedEarly, ListsEnd, QueuedBeforeBegun
  <1>8. LookAlone(p) /\ RunningSeen(p)
    BY <1>2 DEF LookAlone, RunningSeen
  <1> QED
    BY <1>5, <1>6, <1>7, <1>8 DEF NativeInv, Undisturbed

\* What has gone another way than planned stays on record, and only AbortHandler
\* cuts a program short.
LEMMA OrderlyKept ==
  ASSUME NEW p, OneNative(p), TypeInv, [Next]_vars, Orderly'
  PROVE  ~AbortHandler /\ Orderly
  <1>1. p \in Nodes
    BY OneNode
  <1>2. ~AbortHandler
    BY AbortHandlerEffect DEF Orderly
  <1> SUFFICES \A b \in Marks : used'[b] = 0 => used[b] = 0
    BY <1>2 DEF Orderly, Marks
  <1>3. QueueCommand \/ UNCHANGED vars => used' = used
    BY DEF QueueCommand, vars
  <1>4. CASE FetchCommand(p)
    BY <1>1, <1>4, FetchEffect
  <1>5. CASE ExecuteCommand(p) \/ ReportCommandResult(p) \/ SendHeartbeat(p) \/ RestartAgent(p)
    BY <1>1, <1>5, ExecuteEffect, ReportEffect, SendHeartbeatEffect, RestartEffect DEF SameMarks
  <1>6. CASE ReportStatus(p)
    BY <1>1, <1>6, ReportStatusEffect
  <1>7. CASE CancelPending(p)
    BY <1>1, <1>7, CancelPendingEffect
  <1>8. \/ HandleResult(p) \/ QueueContinuation(p) \/ UpdateClusterLifecycleStatus(p)
        \/ LifecycleWrite(p) \/ CheckNodes(p) \/ CheckCommands(p) \/ WriteStatus(p)
        => used' = used
    BY DEF HandleResult, QueueContinuation, UpdateClusterLifecycleStatus, LifecycleWrite,
           CheckNodes, CheckCommands, WriteStatus
  <1>9. ResolveState(p) \/ ResolveQueue(p) \/ ResolveAbort(p) => used' = used
    BY DEF ResolveState, ResolveQueue, ResolveAbort
  <1>10. (\E choice \in Choices : ResolveInstallationConflict(p, choice)) => SameMarks
    BY <1>1, ResolveEffect
  <1> QED
    BY <1>2, <1>3, <1>4, <1>5, <1>6, <1>7, <1>8, <1>9, <1>10, OneNext DEF HandlerStep, HeartbeatStep, SameMarks

LEMMA NativeStep ==
  ASSUME NEW p, OneNative(p), TypeInv, DecisionInv, NativeInv(p), [Next]_vars
  PROVE  NativeInv(p)'
  <1>1. WorkInv(p)' /\ NoFailureSeen(p)' /\ (AnyWith("failed") => AnyWith("failed")')
    BY WatchStep DEF NativeInv
  <1>2. ASSUME Orderly', ~AnyWith("failed")' PROVE Undisturbed(p)'
    <2>1. ~AbortHandler /\ Undisturbed(p) /\ ~AnyWith("failed") /\ WorkInv(p)
      BY <1>1, <1>2, OrderlyKept DEF NativeInv
    <2>2. CASE UNCHANGED vars
      BY <2>1, <2>2 DEF vars, agentVars, serverVars, Undisturbed, LookFirst, InOrder, NothingFound, FoundIsThere,
         ChosenFirst, ConflictForgotten, ResolvedEarly, ListsEnd, QueuedBeforeBegun, LookAlone, RunningSeen,
         Creating, Fresh, Looking, Says, DecidedRunning
    <2>3. CASE QueueCommand
      BY <2>1, <2>3, NativeQueueCommand
    <2>4. CASE FetchCommand(p)
      BY <1>2, <2>1, <2>4, NativeFetch
    <2>5. CASE ExecuteCommand(p)
      BY <2>1, <2>5, NativeExecute
    <2>6. CASE ReportCommandResult(p)
      BY <1>2, <2>1, <2>6, NativeReport
    <2>7. CASE HeartbeatStep(p) \/ RestartAgent(p)
      BY <1>2, <2>1, <2>7, NativeHeartbeat
    <2>8. CASE HandleResult(p)
      BY <2>1, <2>8, NativeHandleResult
    <2>9. CASE QueueContinuation(p)
      BY <2>1, <2>9, NativeQueueContinuation
    <2>10. CASE \/ UpdateClusterLifecycleStatus(p) \/ CheckNodes(p) \/ CheckCommands(p)
                \/ LifecycleWrite(p) \/ CancelPending(p) \/ WriteStatus(p)
      BY <1>2, <2>1, <2>10, NativeHandlerMove
    <2>11. CASE \/ \E choice \in Choices : ResolveInstallationConflict(p, choice)
                \/ ResolveState(p) \/ ResolveAbort(p)
      BY <2>1, <2>11, NativeResolve
    <2>12. CASE ResolveQueue(p)
      BY <2>1, <2>12, NativeResolveQueue
    <2> QED
      BY <2>1, <2>2, <2>3, <2>4, <2>5, <2>6, <2>7, <2>8, <2>9, <2>10, <2>11, <2>12, OneNext
  <1> QED
    BY <1>1, <1>2 DEF NativeInv

LEMMA NativeFinished ==
  ASSUME NEW p, OneNative(p), TypeInv, DecisionInv, NativeInv(p), [Next]_vars
  PROVE  FinishedStep
  <1> SUFFICES ASSUME cluster = "creating", cluster' = "running", Orderly
               PROVE  /\ GetClusterHealth.progress.completed = GetClusterHealth.progress.total
                      /\ \A n \in Nodes : AllQueued(n)
    BY DEF FinishedStep
  <1>1. DecidedRunning(p)
    BY OnlyWriteStatusRuns, OneNode
  <1>2. Undisturbed(p) /\ handler[p].at = "write" /\ job[p].at = "wait" /\ handler[p].todo = <<>>
    BY <1>1, NodeTypes DEF NativeInv, NoFailureSeen, DecidedRunning
  <1>3. \A i \in DOMAIN cmds[p] : cmds[p][i].st = "completed"
    BY <1>1, <1>2 DEF Undisturbed, RunningSeen
  <1>4. AllCompleted
    BY <1>3, OneNode DEF AllCompleted
  <1> DEFINE l == Len(cmds[p])
  <1>5. /\ l \in Nat /\ DOMAIN cmds[p] = 1..l /\ cmds[p] # <<>> /\ l # 0
        /\ resolver[p].at \in {"install", "queue"} <=> resolver[p].todo # <<>>
    <2>1. cmds[p] # <<>>
      BY <1>2, LookIsPast DEF Undisturbed
    <2> QED
      BY <2>1, NodeTypes
  <1>6. l # 1
    <2>1. l = 1 => 1 \in DOMAIN cmds[p]
      BY <1>5
    <2>2. l = 1 => cmds[p][1].st # "pending"
      BY <1>3, <2>1
    <2> QED
      BY <1>1, <1>2, <2>2 DEF Undisturbed, LookAlone
  <1>7. l >= 2 /\ 2 \in DOMAIN cmds[p]
    <2> HIDE DEF l
    <2> QED
      BY <1>5, <1>6
  <1>8. l >= 3
    BY <1>2, <1>3, <1>7 DEF Undisturbed, QueuedBeforeBegun
  <1>9. 3 \in DOMAIN cmds[p]
    <2> HIDE DEF l
    <2> QED
      BY <1>5, <1>8
  <1>10. resolver[p].todo = <<>>
    BY <1>2, <1>3, <1>5, <1>9 DEF Undisturbed, ResolvedEarly
  <1>11. cmds[p][l].action = "pg_create_repl_user"
    BY <1>2, <1>7, <1>10 DEF Undisturbed, ListsEnd
  <1>12. AllQueued(p)
    BY <1>2, <1>5, <1>10, <1>11, OneNode DEF AllQueued
  <1> QED
    BY <1>4, <1>12, OneNode, CompletedProgress DEF TypeInv

\* A cluster of one native node is shown as running only when the node has been
\* given all its commands and the progress shown has reached the last step:
\* whatever the host held, whatever the operator chose, whatever failed, was lost
\* or was restarted on the way.  RunningWhenFinished excepts what the code does
\* not prevent: a handler that was cut short, an agent that polls between two
\* inserts of a list, a status report stored after a command has overtaken it.
THEOREM NativeRunningWhenFinished ==
  ASSUME NEW p, OneNative(p)
  PROVE  Spec => RunningWhenFinished
  <1>1. Init => TypeInv /\ DecisionInv /\ NativeInv(p)
    BY InitType, DecisionInit, NativeInit
  <1>2. TypeInv /\ DecisionInv /\ NativeInv(p) /\ [Next]_vars => (TypeInv /\ DecisionInv /\ NativeInv(p))'
    BY TypeStep, DecisionStep, NativeStep
  <1>3. TypeInv /\ DecisionInv /\ NativeInv(p) /\ [Next]_vars => [FinishedStep]_vars
    BY NativeFinished
  <1>4. [FinishedStep]_vars =>
          [LET shown == GetClusterHealth IN
           shown.status = "creating" /\ cluster' = "running" /\ Orderly
             => /\ shown.progress.completed = shown.progress.total
                /\ \A n \in Nodes : AllQueued(n)]_vars
    BY DEF FinishedStep, GetClusterHealth
  <1> QED
    BY <1>1, <1>2, <1>3, <1>4, PTL DEF Spec, RunningWhenFinished

=============================================================================
