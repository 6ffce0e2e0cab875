----------------------------- MODULE RedisFailover -----------------------------
(***************************************************************************)
(* The Redis cluster client that switches the master by itself             *)
(* (redis/cluster.py, AutoFailoverRedisCluster): a process whose command    *)
(* meets a master that does not answer asks the cluster for its nodes and   *)
(* sends CLUSTER FAILOVER TAKEOVER to the nodes of the group, in several    *)
(* rounds, until one is master.  Every process does this on its own.        *)
(*                                                                         *)
(* One group of nodes, numbered in the order of their names.  The cluster   *)
(* itself is external: a takeover makes a node master at once, and whether  *)
(* the other nodes flag a node as failing lags behind whether it is up.     *)
(***************************************************************************)
EXTENDS Naturals, FiniteSets

CONSTANTS
  Processes,
  None,
  NumNodes,
  MaxEvents,     \* bound: crashes, restarts, changes of a flag, cluster errors
  MaxCommands    \* bound: commands and pings begun

Nodes == 1..NumNodes

VARIABLES
  up, master, flagged, listed,   \* the cluster: its nodes that run, the owner of
                                 \*   the slots, "fail" flags, rows of CLUSTER NODES
  primary, default, recognized,  \* nodes_manager of each process
  failedNodes,                   \* _failed_cluster_nodes of each process
  cmd,                           \* the command of each process
  events, commands,
  takeovers,                     \* history: takeovers of a node
  lostMasters,                   \* history: crashes of the master
  unsteady                       \* history: a node came back, or CLUSTERDOWN

cluster == <<up, master, flagged, listed>>
manager == <<primary, default, recognized>>
counts  == <<events, commands>>
history == <<takeovers, lostMasters, unsteady>>
vars    == <<cluster, manager, failedNodes, cmd, counts, history>>

Done(result) == [pc |-> "idle", target |-> None, prefered |-> None, nodes |-> None,
                 tried |-> {}, at |-> None, result |-> result]

Init ==
  /\ up = Nodes /\ master = 1 /\ flagged = {}
  /\ listed \in {Nodes, Nodes \ {NumNodes}}
  /\ primary = [p \in Processes |-> 1]
  /\ default \in [Processes -> {1, 2}]
  /\ recognized = [p \in Processes |-> listed]
  /\ failedNodes = [p \in Processes |-> {}]
  /\ cmd = [p \in Processes |-> Done("none")]
  /\ events = 0 /\ commands = 0
  /\ takeovers = 0 /\ lostMasters = 0 /\ unsteady = FALSE

At(p, pc) == cmd[p].pc = pc

Ends(p, result) == cmd' = [cmd EXCEPT ![p] = Done(result)]

First(S) == CHOOSE n \in S : \A m \in S : n <= m

(* nodes_manager.initialize() reads the nodes and slots of the cluster.     *)
Initialize(p) ==
  /\ primary' = [primary EXCEPT ![p] = master']
  /\ recognized' = [recognized EXCEPT ![p] = (listed' \ flagged') \cup {master'}]

-----------------------------------------------------------------------------
(* A command for a key goes to the primary, others to the default node.     *)
Begin(p, target) ==
  /\ At(p, "idle") /\ commands < MaxCommands
  /\ target \in {primary[p], default[p]}
  /\ commands' = commands + 1
  /\ cmd' = [cmd EXCEPT ![p] = [Done("none") EXCEPT !.pc = "send", !.target = target]]
  /\ UNCHANGED <<cluster, manager, failedNodes, events, history>>

(* A primary that no longer owns the slots redirects the client to the owner. *)
Unreachable(p) ==
  cmd[p].target \notin up \/ (cmd[p].target = primary[p] /\ master \notin up)

Succeed(p) ==
  /\ At(p, "send") /\ ~ Unreachable(p)
  /\ Ends(p, "ok")
  /\ primary' = [primary EXCEPT ![p] = IF cmd[p].target = @ THEN master ELSE @]
  /\ UNCHANGED <<cluster, default, recognized, failedNodes, counts, history>>

(* ConnectionError: of a primary, of a default node that is a replica, of   *)
(* another node.                                                            *)
LosePrimary(p) ==
  /\ At(p, "send") /\ Unreachable(p) /\ cmd[p].target = primary[p]
  /\ cmd' = [cmd EXCEPT ![p].pc = "nodes"]
  /\ UNCHANGED <<cluster, manager, failedNodes, counts, history>>

LoseDefault(p) ==
  /\ At(p, "send") /\ Unreachable(p) /\ cmd[p].target # primary[p]
  /\ cmd' = [cmd EXCEPT ![p].pc = "findDefault", ![p].tried = {cmd[p].target}]
  /\ UNCHANGED <<cluster, manager, failedNodes, counts, history>>

(* ClusterDownError: the node is up, and is the one preferred.              *)
ClusterDown(p) ==
  /\ At(p, "send") /\ cmd[p].target \in up /\ events < MaxEvents
  /\ events' = events + 1
  /\ unsteady' = TRUE
  /\ LET target == cmd[p].target IN
       cmd' = IF target = primary[p]
                THEN [cmd EXCEPT ![p].pc = "nodes", ![p].prefered = target]
                ELSE [cmd EXCEPT ![p].pc = "findDefault", ![p].tried = {target}]
  /\ UNCHANGED <<cluster, manager, failedNodes, commands, takeovers, lostMasters>>

-----------------------------------------------------------------------------
(* switch_masternode.                                                       *)

(* get_cluster_nodes: any node that answers.  If none does, an exception.   *)
GetNodes(p) ==
  /\ At(p, "nodes")
  /\ IF up = {}
       THEN Ends(p, "error")
       ELSE cmd' = [cmd EXCEPT ![p].pc = "switch",
              ![p].nodes = [listed |-> listed, master |-> master, flagged |-> flagged]]
  /\ UNCHANGED <<cluster, manager, failedNodes, counts, history>>

Rounds == 0..4

InRoundOfListed(k, n, nodes, prefered) ==
  CASE k = 0 -> n \in nodes.listed /\ n = nodes.master /\ n \notin nodes.flagged
    [] k = 1 -> n = prefered
    [] k = 2 -> n \in nodes.listed \ nodes.flagged
    [] k = 3 -> n \in nodes.listed \cap nodes.flagged
    [] k = 4 -> FALSE

(* The nodes each round of the loop tries.                                  *)
InRound(k, n, nodes, prefered) ==
  CASE k = 0 -> n \in nodes.listed /\ n = nodes.master /\ n \notin nodes.flagged
    [] k = 1 -> n = prefered
    [] k = 2 -> n \in nodes.listed \ nodes.flagged
    [] k = 3 -> n \in nodes.listed \cap nodes.flagged
    [] k = 4 -> n \notin nodes.listed

Untried(p, k) ==
  {n \in Nodes \ cmd[p].tried : InRound(k, n, cmd[p].nodes, cmd[p].prefered)}

Round(p) == First({k \in Rounds : Untried(p, k) # {}})

Exhausted(p) == \A k \in Rounds : Untried(p, k) = {}

Try(p) ==
  /\ At(p, "switch") /\ ~ Exhausted(p)
  /\ LET n == First(Untried(p, Round(p))) IN
       cmd' = [cmd EXCEPT ![p].pc = "takeover", ![p].at = n, ![p].tried = @ \cup {n}]
  /\ UNCHANGED <<cluster, manager, failedNodes, counts, history>>

(* Every node was tried: the command fails.                                *)
GiveUp(p) ==
  /\ At(p, "switch") /\ Exhausted(p)
  /\ cmd' = [cmd EXCEPT ![p] = [Done("error") EXCEPT !.tried = cmd[p].tried]]
  /\ UNCHANGED <<cluster, manager, failedNodes, counts, history>>

(* masternode_failover.                                                     *)
TakeoverFails(p) ==
  /\ At(p, "takeover") /\ cmd[p].at \notin up
  /\ cmd' = [cmd EXCEPT ![p].pc = "switch"]
  /\ UNCHANGED <<cluster, manager, failedNodes, counts, history>>

(* The nodes manager starts again from the new master, and the command is   *)
(* sent to it.                                                              *)
Switched(p) ==
  /\ Initialize(p)
  /\ default' = [default EXCEPT ![p] = IF cmd[p].target = @ THEN master' ELSE @]
  /\ cmd' = [cmd EXCEPT ![p].pc = "resend", ![p].at = master']

(* "You should send CLUSTER FAILOVER to a replica"                          *)
AlreadyMaster(p) ==
  /\ At(p, "takeover") /\ cmd[p].at \in up /\ cmd[p].at = master
  /\ UNCHANGED cluster
  /\ Switched(p)
  /\ UNCHANGED <<failedNodes, counts, history>>

Takeover(p) ==
  /\ At(p, "takeover") /\ cmd[p].at \in up /\ cmd[p].at # master
  /\ master' = cmd[p].at
  /\ listed' = listed \cup {cmd[p].at}
  /\ takeovers' = takeovers + 1
  /\ cmd' = [cmd EXCEPT ![p].pc = "check"]
  /\ UNCHANGED <<up, flagged, manager, failedNodes, counts, lostMasters, unsteady>>

(* The node, or another one that took over since, is master.                *)
Confirm(p) ==
  /\ At(p, "check") /\ cmd[p].at \in up
  /\ master \in up \ flagged
  /\ master # cmd[p].at => \A k \in 1..(master - 1) : k \in listed
  /\ UNCHANGED cluster
  /\ Switched(p)
  /\ UNCHANGED <<failedNodes, counts, history>>

(* Asked REDISCLUSTER_FAILOVER_CHECK_TIMES times, or the node is lost.      *)
ConfirmFails(p) ==
  /\ At(p, "check")
  /\ cmd[p].at \in up => master \notin up \ flagged
  /\ cmd' = [cmd EXCEPT ![p].pc = "switch"]
  /\ UNCHANGED <<cluster, manager, failedNodes, counts, history>>

(* The command is sent once more, without another switch.                  *)
Resend(p) ==
  /\ At(p, "resend")
  /\ Ends(p, IF cmd[p].at \in up /\ master \in up THEN "ok" ELSE "error")
  /\ UNCHANGED <<cluster, manager, failedNodes, counts, history>>

-----------------------------------------------------------------------------
(* find_another_default_node: PING the nodes the manager recognizes, then   *)
(* those of the groups.  One of the latter is made master.                  *)
Pingable(p) ==
  LET known == recognized[p] \ cmd[p].tried
  IN IF known \cap {primary[p]} # {} THEN {primary[p]}
     ELSE IF known # {} THEN known
     ELSE IF Nodes \subseteq cmd[p].tried THEN {} ELSE {First(Nodes \ cmd[p].tried)}

PingNode(p, n) ==
  /\ At(p, "findDefault") /\ n \in Pingable(p)
  /\ IF n \notin up
       THEN /\ cmd' = [cmd EXCEPT ![p].tried = @ \cup {n}]
            /\ UNCHANGED default
       ELSE IF n \in recognized[p]
       THEN /\ default' = [default EXCEPT ![p] = n]
            /\ cmd' = [cmd EXCEPT ![p].pc = "resend", ![p].at = n]
       ELSE /\ cmd' = [cmd EXCEPT ![p].pc = "promote", ![p].at = n, ![p].tried = @ \cup {n}]
            /\ UNCHANGED default
  /\ UNCHANGED <<cluster, primary, recognized, failedNodes, counts, history>>

Promote(p) ==
  /\ At(p, "promote")
  /\ IF cmd[p].at \notin up
       THEN /\ cmd' = [cmd EXCEPT ![p].pc = "findDefault"]
            /\ UNCHANGED <<cluster, manager, takeovers>>
       ELSE /\ master' = cmd[p].at
            /\ listed' = listed \cup {cmd[p].at}
            /\ takeovers' = IF master = cmd[p].at THEN takeovers ELSE takeovers + 1
            /\ UNCHANGED <<up, flagged>>
            /\ Switched(p)
  /\ UNCHANGED <<failedNodes, counts, lostMasters, unsteady>>

NoDefault(p) ==
  /\ At(p, "findDefault") /\ Pingable(p) = {}
  /\ Ends(p, "error")
  /\ UNCHANGED <<cluster, manager, failedNodes, counts, history>>

-----------------------------------------------------------------------------
(* RedisClusterCache.ping: nodes without a connection and nodes that do not *)
(* answer are failed, until they answer.  While some node has no connection *)
(* the nodes manager starts again.                                          *)
Ping(p) ==
  /\ At(p, "idle") /\ commands < MaxCommands /\ up # {}
  /\ commands' = commands + 1
  /\ UNCHANGED cluster
  /\ IF Nodes \subseteq recognized[p]
       THEN UNCHANGED <<primary, recognized>>
       ELSE Initialize(p)
  /\ failedNodes' = [failedNodes EXCEPT ![p] =
       {n \in Nodes : n \notin up \/ n \notin recognized'[p]}]
  /\ UNCHANGED <<default, cmd, events, history>>

-----------------------------------------------------------------------------
Event == events < MaxEvents /\ events' = events + 1

Crash(n) ==
  /\ n \in up /\ Event
  /\ up' = up \ {n}
  /\ lostMasters' = IF n = master THEN lostMasters + 1 ELSE lostMasters
  /\ UNCHANGED <<master, flagged, listed, manager, failedNodes, cmd, commands,
                 takeovers, unsteady>>

Restart(n) ==
  /\ n \notin up /\ Event
  /\ up' = up \cup {n}
  /\ flagged' = flagged \ {n}
  /\ unsteady' = TRUE
  /\ UNCHANGED <<master, listed, manager, failedNodes, cmd, commands, takeovers, lostMasters>>

Flag(n) ==
  /\ n \notin flagged \cup up /\ Event
  /\ flagged' = flagged \cup {n}
  /\ UNCHANGED <<up, master, listed, manager, failedNodes, cmd, commands, history>>

Step(p) ==
  \/ Succeed(p) \/ LosePrimary(p) \/ LoseDefault(p)
  \/ GetNodes(p) \/ Try(p) \/ GiveUp(p)
  \/ TakeoverFails(p) \/ AlreadyMaster(p) \/ Takeover(p)
  \/ Confirm(p) \/ ConfirmFails(p) \/ Resend(p)
  \/ (\E n \in Nodes : PingNode(p, n)) \/ Promote(p) \/ NoDefault(p)

Next ==
  \/ \E n \in Nodes : Crash(n) \/ Restart(n) \/ Flag(n)
  \/ \E p \in Processes :
       \/ \E n \in Nodes : Begin(p, n)
       \/ Ping(p) \/ ClusterDown(p) \/ Step(p)

Spec == Init /\ [][Next]_vars

(* A process carries its command out; calls of Redis answer or time out.    *)
FairSpec == Spec /\ \A p \in Processes : WF_vars(Step(p))

-----------------------------------------------------------------------------
TypeOK ==
  /\ up \subseteq Nodes /\ flagged \subseteq Nodes \ up
  /\ master \in listed /\ listed \subseteq Nodes
  /\ \A p \in Processes :
       /\ primary[p] \in Nodes /\ default[p] \in Nodes
       /\ recognized[p] \subseteq Nodes /\ failedNodes[p] \subseteq Nodes
       /\ cmd[p].tried \subseteq Nodes

(* A switch (redis/cluster.py, switch_masternode) gives up only when it has *)
(* tried every node of the group: the five rounds leave none out, whatever  *)
(* the cluster said of them, and whichever stopped in the meantime.         *)
GivesUpAfterAll ==
  \A p \in Processes : At(p, "switch") /\ Exhausted(p) => cmd[p].tried = Nodes

(* Processes that lose the same master do not take it from each other: as   *)
(* long as no node came back and none reported the cluster down, there are  *)
(* no more takeovers than masters lost.                                     *)
OneTakeoverPerLoss == ~ unsteady => takeovers <= lostMasters

(* Every command ends, with an answer or an error: again and again, as      *)
(* commands are bounded, no process has one.                               *)
AllIdle == \A p \in Processes : At(p, "idle")

CommandsEnd == []<> AllIdle

=============================================================================
