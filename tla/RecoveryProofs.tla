----------------------------- MODULE RecoveryProofs -----------------------------
(***************************************************************************)
(* Proofs about MCRecovery: processes that take over the master of a Redis  *)
(* cluster from each other, and a user whose session timed out, for any     *)
(* number of processes, nodes, tabs and sessions.                          *)
(***************************************************************************)
EXTENDS MCRecovery, WellFoundedInduction, TLAPS

-----------------------------------------------------------------------------
(***************************************************************************)
(* The failover.  As long as no node came back, what a process has tried in *)
(* vain is down for good.  It tries the nodes in an order in which all that *)
(* are below one that is up are down, so that a master that is up is the    *)
(* only node it can take over.                                             *)
(***************************************************************************)
Nodes == 1..NumNodes
NodesSeen == [listed : SUBSET Nodes, master : Nodes, flagged : SUBSET Nodes]

AllCommands ==
  [pc : {"idle", "send", "nodes", "findDefault", "switch", "takeover", "check", "resend", "promote"},
   target : Nodes \cup {None}, prefered : Nodes \cup {None}, nodes : NodesSeen \cup {None},
   tried : SUBSET Nodes, at : Nodes \cup {None}, result : {"none", "ok", "error"}]

Commands ==
  {x \in AllCommands :
     /\ x.pc # "idle" => x.target \in Nodes
     /\ x.pc \in {"takeover", "check", "promote"} => x.at \in Nodes
     /\ x.pc \in {"switch", "takeover", "check"} =>
          x.nodes \in NodesSeen /\ Nodes \ {NumNodes} \subseteq x.nodes.listed}

FailoverShapes ==
  /\ up \subseteq Nodes /\ flagged \subseteq Nodes \ up
  /\ listed \subseteq Nodes /\ Nodes \ {NumNodes} \subseteq listed /\ master \in listed
  /\ primary \in [Processes -> Nodes] /\ default \in [Processes -> Nodes]
  /\ recognized \in [Processes -> SUBSET Nodes] /\ failedNodes \in [Processes -> SUBSET Nodes]
  /\ takeovers \in Nat /\ lostMasters \in Nat
  /\ cmd \in [Processes -> Commands]

(* All the nodes before n are down.                                        *)
FirstUp(n, running) == \A m \in Nodes : m < n => m \notin running

(* What a command knows, if the nodes that are down stay down.              *)
SteadyCommand(x, running, owner) ==
  /\ x.prefered = None
  /\ x.pc \in {"send", "nodes"} => x.tried = {}
  /\ x.pc \in {"switch", "findDefault"} => x.tried \cap running = {}
  /\ x.pc \in {"takeover", "check", "promote"} =>
       /\ (x.tried \ {x.at}) \cap running = {}
       /\ x.at \in running => FirstUp(x.at, running)
  /\ x.pc = "check" /\ x.at \in running => owner = x.at
  /\ x.pc \in {"switch", "takeover", "check"} =>
       /\ x.nodes.flagged \cap running = {}
       /\ x.nodes.master \in running => owner = x.nodes.master

Lost == IF master \in up THEN 0 ELSE 1

Steady ==
  ~unsteady =>
    /\ FirstUp(master, up)
    /\ takeovers + Lost = lostMasters
    /\ \A p \in Processes : SteadyCommand(cmd[p], up, master)

FailoverInv == FailoverShapes /\ Steady

LEMMA StepOfFailover ==
  ASSUME [Next]_vars
  PROVE  Failover!Next \/ UNCHANGED failoverVars
BY DEF Next, vars

LEMMA NodesFacts ==
  /\ Failover!Nodes = Nodes /\ NumNodes \in Nodes /\ 1 \in Nodes /\ 2 \in Nodes /\ None \notin Nodes
  /\ Nodes \subseteq Nat /\ NumNodes \in Nat
BY RecoveryAssumption DEF Failover!Nodes, Nodes

(* Naturals are well ordered.                                              *)
LEMMA LeastExists ==
  ASSUME NEW S, S \subseteq Nat, S # {}
  PROVE  \E n \in S : \A m \in S : n <= m
<1> DEFINE R == {q \in Nat \X Nat : q[1] < q[2]}
<1>1. OpToRel(<, Nat) = R
  BY DEF OpToRel
<1>2. IsWellFoundedOn(R, Nat)
  BY <1>1, NatLessThanWellFounded
<1>3. PICK n \in S : \A m \in S : ~(<<m, n>> \in R)
  <2> HIDE DEF R
  <2>. QED
    BY <1>2, WFMin
<1>4. \A m \in S : ~(m < n)
  BY <1>3
<1>. QED
  BY <1>4

LEMMA FirstFacts ==
  ASSUME NEW S, S \subseteq Nat, S # {}
  PROVE  Failover!First(S) \in S /\ \A m \in S : Failover!First(S) <= m
BY LeastExists DEF Failover!First

LEMMA DoneFacts ==
  ASSUME NEW result \in {"none", "ok", "error"}, NEW running, NEW owner
  PROVE  /\ Failover!Done(result) \in Commands /\ Failover!Done(result).pc = "idle"
         /\ SteadyCommand(Failover!Done(result), running, owner)
BY DEF Failover!Done, Commands, AllCommands, SteadyCommand

LEMMA FailoverInit ==
  ASSUME Init PROVE FailoverInv
<1>1. Failover!Init
  BY DEF Init
<1>2. /\ up = Nodes /\ master = 1 /\ flagged = {} /\ listed \in {Nodes, Nodes \ {NumNodes}}
      /\ primary = [p \in Processes |-> 1] /\ default \in [Processes -> {1, 2}]
      /\ recognized = [p \in Processes |-> listed] /\ failedNodes = [p \in Processes |-> {}]
      /\ cmd = [p \in Processes |-> Failover!Done("none")]
      /\ takeovers = 0 /\ lostMasters = 0
  BY <1>1, NodesFacts DEF Failover!Init
<1>3. FailoverShapes
  BY <1>2, NodesFacts, DoneFacts, RecoveryAssumption DEF FailoverShapes
<1>4. FirstUp(master, up) /\ Lost = 0
  BY <1>2, NodesFacts DEF FirstUp, Lost, Nodes
<1>. QED
  BY <1>2, <1>3, <1>4, DoneFacts DEF FailoverInv, Steady

(* Nodes go down, and only a master that is down is replaced.               *)
LEMMA SteadyKept ==
  ASSUME NEW x, NEW before, NEW after, after \subseteq before, NEW owner, NEW next,
         next = owner \/ owner \notin before, SteadyCommand(x, before, owner)
  PROVE  SteadyCommand(x, after, next)
BY DEF SteadyCommand, FirstUp

(* One command goes a step on.                                             *)
LEMMA CommandStep ==
  ASSUME FailoverInv, NEW p \in Processes, NEW x \in Commands, cmd' = [cmd EXCEPT ![p] = x],
         UNCHANGED <<up, master, flagged, listed, takeovers, lostMasters, failedNodes>>,
         primary' \in [Processes -> Nodes], default' \in [Processes -> Nodes],
         recognized' \in [Processes -> SUBSET Nodes],
         ~unsteady' => ~unsteady /\ SteadyCommand(x, up, master)
  PROVE  FailoverInv'
<1>1. cmd' \in [Processes -> Commands] /\ cmd'[p] = x /\ \A q \in Processes \ {p} : cmd'[q] = cmd[q]
  BY DEF FailoverInv, FailoverShapes
<1>2. FailoverShapes'
  BY <1>1 DEF FailoverInv, FailoverShapes
<1>3. Steady'
  BY <1>1 DEF FailoverInv, Steady, Lost
<1>. QED
  BY <1>2, <1>3 DEF FailoverInv

LEMMA SteadyFacts ==
  ASSUME FailoverInv, NEW p \in Processes
  PROVE  /\ cmd[p] \in Commands /\ cmd[p] \in AllCommands
         /\ primary[p] \in Nodes /\ default[p] \in Nodes /\ recognized[p] \subseteq Nodes
         /\ ~unsteady => SteadyCommand(cmd[p], up, master) /\ FirstUp(master, up)
BY DEF FailoverInv, FailoverShapes, Steady, Commands

(* A command is sent, and answered or not.                                 *)
LEMMA BeginStep ==
  ASSUME FailoverInv, NEW p \in Processes, NEW n \in Nodes, Failover!Begin(p, n)
  PROVE  FailoverInv'
<1> DEFINE x == [Failover!Done("none") EXCEPT !.pc = "send", !.target = n]
<1>1. x \in Commands /\ \A running, owner : SteadyCommand(x, running, owner)
  BY DEF Failover!Done, Commands, AllCommands, SteadyCommand
<1>2. /\ cmd' = [cmd EXCEPT ![p] = x]
      /\ UNCHANGED <<up, master, flagged, listed, primary, default, recognized, failedNodes,
                     takeovers, lostMasters, unsteady>>
  BY DEF Failover!Begin, Failover!cluster, Failover!manager, Failover!history
<1> HIDE DEF x
<1>. QED
  BY <1>1, <1>2, CommandStep DEF FailoverInv, FailoverShapes

LEMMA EndStep ==
  ASSUME FailoverInv, NEW p \in Processes,
         \/ Failover!Succeed(p) \/ Failover!Resend(p) \/ Failover!NoDefault(p)
         \/ Failover!GiveUp(p)
         \/ Failover!GetNodes(p) /\ up = {}
  PROVE  FailoverInv'
<1>1. /\ UNCHANGED <<up, master, flagged, listed, default, recognized, failedNodes,
                     takeovers, lostMasters, unsteady>>
      /\ primary' \in [Processes -> Nodes]
  <2>1. master \in Nodes /\ primary \in [Processes -> Nodes]
    BY DEF FailoverInv, FailoverShapes
  <2>. QED
    BY <2>1 DEF Failover!Succeed, Failover!Resend, Failover!NoDefault, Failover!GiveUp, Failover!GetNodes,
       Failover!cluster, Failover!manager, Failover!counts, Failover!history
<1>2. PICK x \in Commands :
        cmd' = [cmd EXCEPT ![p] = x] /\ \A running, owner : SteadyCommand(x, running, owner)
  <2>1. CASE Failover!GiveUp(p)
    <3> DEFINE x == [Failover!Done("error") EXCEPT !.tried = cmd[p].tried]
    <3>1. cmd[p].tried \subseteq Nodes
      BY SteadyFacts DEF AllCommands
    <3>2. x \in Commands /\ \A running, owner : SteadyCommand(x, running, owner)
      BY <3>1 DEF Failover!Done, Commands, AllCommands, SteadyCommand
    <3>. QED
      BY <2>1, <3>2 DEF Failover!GiveUp
  <2>2. CASE ~Failover!GiveUp(p)
    BY <2>2, DoneFacts DEF Failover!Succeed, Failover!Resend, Failover!NoDefault, Failover!GetNodes, Failover!Ends
  <2>. QED
    BY <2>1, <2>2
<1>. QED
  BY <1>1, <1>2, CommandStep DEF FailoverInv, FailoverShapes

LEMMA LoseStep ==
  ASSUME FailoverInv, NEW p \in Processes,
         Failover!LosePrimary(p) \/ Failover!LoseDefault(p) \/ Failover!ClusterDown(p)
  PROVE  FailoverInv'
<1>1. /\ UNCHANGED <<up, master, flagged, listed, primary, default, recognized, failedNodes,
                     takeovers, lostMasters>>
      /\ cmd[p].pc = "send"
  BY DEF Failover!LosePrimary, Failover!LoseDefault, Failover!ClusterDown, Failover!At,
     Failover!cluster, Failover!manager, Failover!counts, Failover!history
<1>2. /\ cmd[p] \in Commands /\ cmd[p] \in AllCommands /\ cmd[p].target \in Nodes
      /\ ~unsteady => SteadyCommand(cmd[p], up, master)
  BY <1>1, SteadyFacts DEF Commands
<1>3. CASE Failover!LosePrimary(p)
  <2> DEFINE x == [cmd[p] EXCEPT !.pc = "nodes"]
  <2>1. x \in Commands /\ (SteadyCommand(cmd[p], up, master) => SteadyCommand(x, up, master))
    BY <1>1, <1>2 DEF Commands, AllCommands, SteadyCommand
  <2>2. cmd' = [cmd EXCEPT ![p] = x] /\ unsteady' = unsteady
    BY <1>3 DEF Failover!LosePrimary, Failover!history
  <2> HIDE DEF x
  <2>. QED
    BY <1>1, <1>2, <2>1, <2>2, CommandStep DEF FailoverInv, FailoverShapes
<1>4. CASE Failover!LoseDefault(p)
  <2> DEFINE x == [cmd[p] EXCEPT !.pc = "findDefault", !.tried = {cmd[p].target}]
  <2>1. cmd[p].target \notin up
    BY <1>4 DEF Failover!LoseDefault, Failover!Unreachable
  <2>2. x \in Commands /\ (SteadyCommand(cmd[p], up, master) => SteadyCommand(x, up, master))
    BY <1>1, <1>2, <2>1 DEF Commands, AllCommands, SteadyCommand
  <2>3. cmd' = [cmd EXCEPT ![p] = x] /\ unsteady' = unsteady
    BY <1>4 DEF Failover!LoseDefault, Failover!history
  <2> HIDE DEF x
  <2>. QED
    BY <1>1, <1>2, <2>2, <2>3, CommandStep DEF FailoverInv, FailoverShapes
<1>5. CASE Failover!ClusterDown(p)
  <2> DEFINE target == cmd[p].target
             x == IF target = primary[p] THEN [cmd[p] EXCEPT !.pc = "nodes", !.prefered = target]
                  ELSE [cmd[p] EXCEPT !.pc = "findDefault", !.tried = {target}]
  <2>1. x \in Commands
    BY <1>1, <1>2 DEF Commands, AllCommands
  <2>2. cmd' = [cmd EXCEPT ![p] = x] /\ unsteady' = TRUE
    BY <1>5 DEF Failover!ClusterDown
  <2> HIDE DEF x, target
  <2>. QED
    BY <1>1, <2>1, <2>2, CommandStep DEF FailoverInv, FailoverShapes
<1>. QED
  BY <1>3, <1>4, <1>5

(* The nodes of the cluster are asked for; those flagged are down.          *)
LEMMA NodesStep ==
  ASSUME FailoverInv, NEW p \in Processes, Failover!GetNodes(p), up # {}
  PROVE  FailoverInv'
<1> DEFINE seen == [listed |-> listed, master |-> master, flagged |-> flagged]
           x == [cmd[p] EXCEPT !.pc = "switch", !.nodes = seen]
<1>1. /\ UNCHANGED <<up, master, flagged, listed, primary, default, recognized, failedNodes,
                     takeovers, lostMasters, unsteady>>
      /\ cmd[p].pc = "nodes" /\ cmd' = [cmd EXCEPT ![p] = x]
  BY DEF Failover!GetNodes, Failover!At, Failover!cluster, Failover!manager, Failover!counts, Failover!history
<1>2. /\ cmd[p] \in Commands /\ cmd[p] \in AllCommands
      /\ ~unsteady => SteadyCommand(cmd[p], up, master)
  BY SteadyFacts
<1>3. /\ seen \in NodesSeen /\ Nodes \ {NumNodes} \subseteq seen.listed
      /\ seen.flagged \cap up = {} /\ seen.master = master
  BY DEF FailoverInv, FailoverShapes, NodesSeen
<1> HIDE DEF seen
<1>4. x \in Commands
  BY <1>1, <1>2, <1>3 DEF Commands, AllCommands
<1>5. SteadyCommand(cmd[p], up, master) => SteadyCommand(x, up, master)
  BY <1>1, <1>2, <1>3 DEF AllCommands, SteadyCommand
<1> HIDE DEF x
<1>. QED
  BY <1>1, <1>2, <1>4, <1>5, CommandStep DEF FailoverInv, FailoverShapes

LEMMA RoundFacts ==
  ASSUME NEW n, NEW seen, NEW prefered
  PROVE  /\ Failover!InRound(0, n, seen, prefered) => n = seen.master
         /\ Failover!InRound(1, n, seen, prefered) => n = prefered
         /\ Failover!InRound(2, n, seen, prefered) <=> n \in seen.listed \ seen.flagged
         /\ Failover!InRound(3, n, seen, prefered) <=> n \in seen.listed \cap seen.flagged
         /\ Failover!InRound(4, n, seen, prefered) <=> n \notin seen.listed
BY DEF Failover!InRound

(* The rounds leave no node out.                                           *)
LEMMA RoundsReachAll ==
  ASSUME FailoverInv, NEW p \in Processes, Failover!Exhausted(p)
  PROVE  cmd[p].tried = Nodes
<1>1. cmd[p].tried \subseteq Nodes
  BY SteadyFacts DEF AllCommands
<1>2. ASSUME NEW n \in Nodes \ cmd[p].tried PROVE FALSE
  <2>1. 2 \in Failover!Rounds /\ 3 \in Failover!Rounds /\ 4 \in Failover!Rounds
    BY DEF Failover!Rounds
  <2>2. \A k \in {2, 3, 4} : ~Failover!InRound(k, n, cmd[p].nodes, cmd[p].prefered)
    BY <2>1, NodesFacts DEF Failover!Exhausted, Failover!Untried
  <2>. QED
    BY <2>2, RoundFacts
<1>. QED
  BY <1>1, <1>2

(* The next node to try is the first of those that are up, if it is one.    *)
LEMMA NextToTry ==
  ASSUME FailoverInv, NEW p \in Processes, cmd[p].pc = "switch", ~Failover!Exhausted(p)
  PROVE  LET n == Failover!First(Failover!Untried(p, Failover!Round(p))) IN
         n \in Nodes /\ (~unsteady /\ n \in up => FirstUp(n, up))
<1> DEFINE k == Failover!Round(p)
           n == Failover!First(Failover!Untried(p, k))
           open == {i \in Failover!Rounds : Failover!Untried(p, i) # {}}
<1>1. open \subseteq Nat /\ open # {} /\ k = Failover!First(open) /\ Failover!Rounds = 0..4
  BY DEF Failover!Rounds, Failover!Exhausted, Failover!Round
<1>2. k \in 0..4 /\ Failover!Untried(p, k) # {} /\ \A i \in open : k <= i
  BY <1>1, FirstFacts
<1>3. Failover!Untried(p, k) \subseteq Nodes
  BY NodesFacts DEF Failover!Untried
<1>4. /\ n \in Failover!Untried(p, k) /\ n \in Nodes
      /\ \A m \in Failover!Untried(p, k) : n <= m
  BY <1>2, <1>3, FirstFacts, NodesFacts
<1>5. Failover!InRound(k, n, cmd[p].nodes, cmd[p].prefered)
  BY <1>4 DEF Failover!Untried
<1> HIDE DEF k, n
<1>6. ASSUME ~unsteady, n \in up, NEW m \in Nodes, m < n, m \in up
      PROVE  FALSE
  <2>1. /\ cmd[p].prefered = None /\ cmd[p].tried \cap up = {}
        /\ cmd[p].nodes.flagged \cap up = {}
        /\ cmd[p].nodes.master \in up => master = cmd[p].nodes.master
        /\ Nodes \ {NumNodes} \subseteq cmd[p].nodes.listed
        /\ FirstUp(master, up)
    BY <1>6, SteadyFacts DEF SteadyCommand, Commands
  <2>2. m \in cmd[p].nodes.listed \ cmd[p].nodes.flagged
    BY <1>4, <1>6, <2>1, NodesFacts DEF Nodes
  <2>3. m \in Failover!Untried(p, 2)
    BY <1>6, <2>1, <2>2, RoundFacts, NodesFacts DEF Failover!Untried
  <2>4. k \in {0, 1, 2}
    BY <1>1, <1>2, <2>3
  <2>5. CASE k = 0
    BY <1>5, <1>6, <2>1, <2>5, RoundFacts DEF FirstUp
  <2>6. CASE k = 1
    BY <1>4, <1>5, <2>1, <2>6, RoundFacts, NodesFacts
  <2>7. CASE k = 2
    BY <1>4, <1>6, <2>3, <2>7, NodesFacts
  <2>. QED
    BY <2>4, <2>5, <2>6, <2>7
<1>. QED
  BY <1>4, <1>6 DEF FirstUp, k, n

LEMMA TryStep ==
  ASSUME FailoverInv, NEW p \in Processes, Failover!Try(p)
  PROVE  FailoverInv'
<1> DEFINE n == Failover!First(Failover!Untried(p, Failover!Round(p)))
           x == [cmd[p] EXCEPT !.pc = "takeover", !.at = n, !.tried = @ \cup {n}]
<1>1. /\ cmd[p].pc = "switch"
      /\ UNCHANGED <<up, master, flagged, listed, primary, default, recognized, failedNodes,
                     takeovers, lostMasters, unsteady>>
  BY DEF Failover!Try, Failover!At, Failover!cluster, Failover!manager, Failover!counts, Failover!history
<1>2. n \in Nodes /\ (~unsteady /\ n \in up => FirstUp(n, up))
  BY <1>1, NextToTry DEF Failover!Try
<1>3. /\ cmd[p] \in Commands /\ cmd[p] \in AllCommands
      /\ ~unsteady => SteadyCommand(cmd[p], up, master)
  BY SteadyFacts
<1>4. cmd' = [cmd EXCEPT ![p] = x]
  BY DEF Failover!Try, FailoverInv, FailoverShapes
<1> HIDE DEF n
<1>5. x \in Commands
  BY <1>1, <1>2, <1>3 DEF Commands, AllCommands
<1>6. ~unsteady => SteadyCommand(x, up, master)
  BY <1>1, <1>2, <1>3 DEF AllCommands, SteadyCommand
<1> HIDE DEF x
<1>. QED
  BY <1>1, <1>4, <1>5, <1>6, CommandStep DEF FailoverInv, FailoverShapes

(* A takeover that fails leaves a node that is down.                        *)
LEMMA FailStep ==
  ASSUME FailoverInv, NEW p \in Processes, Failover!TakeoverFails(p) \/ Failover!ConfirmFails(p)
  PROVE  FailoverInv'
<1> DEFINE x == [cmd[p] EXCEPT !.pc = "switch"]
<1>1. /\ cmd[p].pc \in {"takeover", "check"} /\ cmd' = [cmd EXCEPT ![p] = x]
      /\ UNCHANGED <<up, master, flagged, listed, primary, default, recognized, failedNodes,
                     takeovers, lostMasters, unsteady>>
  BY DEF Failover!TakeoverFails, Failover!ConfirmFails, Failover!At, Failover!cluster, Failover!manager,
     Failover!counts, Failover!history
<1>2. /\ cmd[p] \in Commands /\ cmd[p] \in AllCommands
      /\ ~unsteady => SteadyCommand(cmd[p], up, master)
  BY SteadyFacts
<1>3. ~unsteady => cmd[p].at \notin up
  <2>1. CASE Failover!TakeoverFails(p)
    BY <2>1 DEF Failover!TakeoverFails
  <2>2. CASE Failover!ConfirmFails(p)
    <3>1. flagged \cap up = {}
      BY DEF FailoverInv, FailoverShapes
    <3>. QED
      BY <1>2, <2>2, <3>1 DEF Failover!ConfirmFails, Failover!At, SteadyCommand
  <2>. QED
    BY <2>1, <2>2
<1>4. x \in Commands
  BY <1>1, <1>2 DEF Commands, AllCommands
<1>5. ~unsteady => SteadyCommand(x, up, master)
  BY <1>1, <1>2, <1>3 DEF AllCommands, SteadyCommand
<1> HIDE DEF x
<1>. QED
  BY <1>1, <1>4, <1>5, CommandStep DEF FailoverInv, FailoverShapes

(* The process starts again from the master.                               *)
LEMMA SwitchedFacts ==
  ASSUME FailoverInv, NEW p \in Processes, cmd[p].pc # "idle", Failover!Switched(p),
         master' \in Nodes, listed' \subseteq Nodes
  PROVE  \E x \in Commands :
           /\ cmd' = [cmd EXCEPT ![p] = x] /\ x.pc = "resend" /\ x.prefered = cmd[p].prefered
           /\ primary' \in [Processes -> Nodes] /\ default' \in [Processes -> Nodes]
           /\ recognized' \in [Processes -> SUBSET Nodes]
<1> DEFINE x == [cmd[p] EXCEPT !.pc = "resend", !.at = master']
<1>1. cmd[p] \in Commands /\ cmd[p] \in AllCommands
  BY SteadyFacts
<1>2. /\ primary' \in [Processes -> Nodes] /\ default' \in [Processes -> Nodes]
      /\ recognized' \in [Processes -> SUBSET Nodes]
  BY DEF Failover!Switched, Failover!Initialize, FailoverInv, FailoverShapes
<1>3. cmd' = [cmd EXCEPT ![p] = x]
  BY DEF Failover!Switched, FailoverInv, FailoverShapes
<1>4. x \in AllCommands /\ x.pc = "resend" /\ x.prefered = cmd[p].prefered /\ x.target = cmd[p].target
  BY <1>1 DEF AllCommands
<1> HIDE DEF x
<1>5. x \in Commands
  BY <1>1, <1>4 DEF Commands
<1>. QED
  BY <1>2, <1>3, <1>4, <1>5

LEMMA SwitchStep ==
  ASSUME FailoverInv, NEW p \in Processes, Failover!AlreadyMaster(p) \/ Failover!Confirm(p)
  PROVE  FailoverInv'
<1>1. /\ UNCHANGED <<up, master, flagged, listed, failedNodes, takeovers, lostMasters, unsteady>>
      /\ cmd[p].pc # "idle" /\ Failover!Switched(p)
  BY DEF Failover!AlreadyMaster, Failover!Confirm, Failover!At, Failover!cluster, Failover!counts, Failover!history
<1>2. master' \in Nodes /\ listed' \subseteq Nodes
  BY <1>1 DEF FailoverInv, FailoverShapes
<1>3. PICK x \in Commands :
        /\ cmd' = [cmd EXCEPT ![p] = x] /\ x.pc = "resend" /\ x.prefered = cmd[p].prefered
        /\ primary' \in [Processes -> Nodes] /\ default' \in [Processes -> Nodes]
        /\ recognized' \in [Processes -> SUBSET Nodes]
  BY <1>1, <1>2, SwitchedFacts
<1>4. ~unsteady => SteadyCommand(x, up, master)
  BY <1>3, SteadyFacts DEF SteadyCommand
<1>. QED
  BY <1>1, <1>3, <1>4, CommandStep

(* A node that was down is master instead of one that is down.              *)
LEMMA MasterStep ==
  ASSUME FailoverInv, NEW p \in Processes, NEW x \in Commands,
         cmd' = [cmd EXCEPT ![p] = x],
         UNCHANGED <<up, flagged, failedNodes, lostMasters, unsteady>>,
         cmd[p].at \in Nodes, master' = cmd[p].at, listed' = listed \cup {cmd[p].at},
         primary' \in [Processes -> Nodes], default' \in [Processes -> Nodes],
         recognized' \in [Processes -> SUBSET Nodes],
         cmd[p].at \in up, takeovers' = IF master = cmd[p].at THEN takeovers ELSE takeovers + 1,
         ~unsteady => FirstUp(cmd[p].at, up),
         ~unsteady /\ (master = cmd[p].at \/ master \notin up) => SteadyCommand(x, up, cmd[p].at)
  PROVE  FailoverInv'
<1>1. cmd' \in [Processes -> Commands] /\ cmd'[p] = x /\ \A q \in Processes \ {p} : cmd'[q] = cmd[q]
  BY DEF FailoverInv, FailoverShapes
<1>2. FailoverShapes'
  BY <1>1 DEF FailoverInv, FailoverShapes
<1>3. ASSUME ~unsteady PROVE master' = master \/ master \notin up
  <2>1. master \in Nodes /\ FirstUp(master, up)
    BY <1>3 DEF FailoverInv, FailoverShapes, Steady
  <2>. QED
    BY <1>3, <2>1, NodesFacts DEF FirstUp, Nodes
<1>4. ASSUME ~unsteady PROVE takeovers' + Lost' = lostMasters
  <2>1. takeovers + Lost = lostMasters /\ takeovers \in Nat
    BY <1>4 DEF FailoverInv, FailoverShapes, Steady
  <2>2. Lost' = 0
    BY DEF Lost
  <2>. QED
    BY <1>3, <1>4, <2>1, <2>2 DEF Lost
<1>5. ASSUME ~unsteady, NEW q \in Processes PROVE SteadyCommand(cmd'[q], up, master')
  <2>1. CASE q = p
    BY <1>1, <1>3, <1>5, <2>1
  <2>2. CASE q # p
    BY <1>1, <1>3, <1>5, <2>2, SteadyFacts, SteadyKept
  <2>. QED
    BY <2>1, <2>2
<1>6. Steady'
  BY <1>4, <1>5 DEF Steady
<1>. QED
  BY <1>2, <1>6 DEF FailoverInv

LEMMA TakeoverStep ==
  ASSUME FailoverInv, NEW p \in Processes, Failover!Takeover(p)
  PROVE  FailoverInv'
<1> DEFINE x == [cmd[p] EXCEPT !.pc = "check"]
<1>1. /\ cmd[p].pc = "takeover" /\ cmd[p].at \in up /\ cmd[p].at # master
      /\ master' = cmd[p].at /\ listed' = listed \cup {cmd[p].at} /\ takeovers' = takeovers + 1
      /\ cmd' = [cmd EXCEPT ![p] = x]
      /\ UNCHANGED <<up, flagged, primary, default, recognized, failedNodes, lostMasters, unsteady>>
  BY DEF Failover!Takeover, Failover!At, Failover!manager
<1>2. /\ cmd[p] \in Commands /\ cmd[p] \in AllCommands
      /\ ~unsteady => SteadyCommand(cmd[p], up, master)
  BY SteadyFacts
<1>3. x \in Commands /\ cmd[p].at \in Nodes
  BY <1>1, <1>2 DEF Commands, AllCommands
<1>4. ~unsteady => FirstUp(cmd[p].at, up)
  BY <1>1, <1>2 DEF SteadyCommand
<1>5. ~unsteady /\ master \notin up => SteadyCommand(x, up, cmd[p].at)
  BY <1>1, <1>2 DEF AllCommands, SteadyCommand
<1> HIDE DEF x
<1>. QED
  BY <1>1, <1>3, <1>4, <1>5, MasterStep DEF FailoverInv, FailoverShapes

LEMMA PromoteStep ==
  ASSUME FailoverInv, NEW p \in Processes, Failover!Promote(p)
  PROVE  FailoverInv'
<1>1. /\ cmd[p].pc = "promote" /\ UNCHANGED <<failedNodes, lostMasters, unsteady>>
  BY DEF Failover!Promote, Failover!At
<1>2. /\ cmd[p] \in Commands /\ cmd[p] \in AllCommands /\ cmd[p].at \in Nodes
      /\ ~unsteady => SteadyCommand(cmd[p], up, master)
  BY <1>1, SteadyFacts DEF Commands
<1>3. CASE cmd[p].at \notin up
  <2> DEFINE x == [cmd[p] EXCEPT !.pc = "findDefault"]
  <2>1. /\ cmd' = [cmd EXCEPT ![p] = x]
        /\ UNCHANGED <<up, master, flagged, listed, primary, default, recognized, takeovers>>
    BY <1>3 DEF Failover!Promote, Failover!cluster, Failover!manager
  <2>2. x \in Commands
    BY <1>1, <1>2 DEF Commands, AllCommands
  <2>3. ~unsteady => SteadyCommand(x, up, master)
    BY <1>1, <1>2, <1>3 DEF AllCommands, SteadyCommand
  <2> HIDE DEF x
  <2>. QED
    BY <1>1, <2>1, <2>2, <2>3, CommandStep DEF FailoverInv, FailoverShapes
<1>4. CASE cmd[p].at \in up
  <2>1. /\ master' = cmd[p].at /\ listed' = listed \cup {cmd[p].at} /\ UNCHANGED <<up, flagged>>
        /\ takeovers' = IF master = cmd[p].at THEN takeovers ELSE takeovers + 1
        /\ Failover!Switched(p)
    BY <1>4 DEF Failover!Promote
  <2>2. master' \in Nodes /\ listed' \subseteq Nodes
    BY <1>2, <2>1 DEF FailoverInv, FailoverShapes
  <2>3. PICK x \in Commands :
          /\ cmd' = [cmd EXCEPT ![p] = x] /\ x.pc = "resend" /\ x.prefered = cmd[p].prefered
          /\ primary' \in [Processes -> Nodes] /\ default' \in [Processes -> Nodes]
          /\ recognized' \in [Processes -> SUBSET Nodes]
    BY <1>1, <2>1, <2>2, SwitchedFacts
  <2>4. ~unsteady => FirstUp(cmd[p].at, up) /\ SteadyCommand(x, up, cmd[p].at)
    BY <1>1, <1>2, <1>4, <2>3 DEF SteadyCommand
  <2>. QED
    BY <1>1, <1>2, <1>4, <2>1, <2>3, <2>4, MasterStep
<1>. QED
  BY <1>3, <1>4

(* Of the nodes nobody recognizes the first that is untried is pinged.      *)
LEMMA PingNodeStep ==
  ASSUME FailoverInv, NEW p \in Processes, NEW n \in Nodes, Failover!PingNode(p, n)
  PROVE  FailoverInv'
<1>1. /\ cmd[p].pc = "findDefault" /\ n \in Failover!Pingable(p)
      /\ UNCHANGED <<up, master, flagged, listed, primary, recognized, failedNodes,
                     takeovers, lostMasters, unsteady>>
      /\ default' \in [Processes -> Nodes]
  BY DEF Failover!PingNode, Failover!At, Failover!cluster, Failover!counts, Failover!history,
     FailoverInv, FailoverShapes
<1>2. /\ cmd[p] \in Commands /\ cmd[p] \in AllCommands /\ cmd \in [Processes -> Commands]
      /\ ~unsteady => SteadyCommand(cmd[p], up, master)
  BY SteadyFacts DEF FailoverInv, FailoverShapes
<1>3. CASE n \notin up
  <2> DEFINE x == [cmd[p] EXCEPT !.tried = @ \cup {n}]
  <2>1. cmd' = [cmd EXCEPT ![p] = x]
    BY <1>2, <1>3 DEF Failover!PingNode
  <2>2. x \in Commands /\ (~unsteady => SteadyCommand(x, up, master))
    BY <1>1, <1>2, <1>3 DEF Commands, AllCommands, SteadyCommand
  <2> HIDE DEF x
  <2>. QED
    BY <1>1, <2>1, <2>2, CommandStep DEF FailoverInv, FailoverShapes
<1>4. CASE n \in up /\ n \in recognized[p]
  <2> DEFINE x == [cmd[p] EXCEPT !.pc = "resend", !.at = n]
  <2>1. cmd' = [cmd EXCEPT ![p] = x]
    BY <1>2, <1>4 DEF Failover!PingNode
  <2>2. x \in Commands /\ (~unsteady => SteadyCommand(x, up, master))
    BY <1>1, <1>2 DEF Commands, AllCommands, SteadyCommand
  <2> HIDE DEF x
  <2>. QED
    BY <1>1, <2>1, <2>2, CommandStep DEF FailoverInv, FailoverShapes
<1>5. CASE n \in up /\ n \notin recognized[p]
  <2> DEFINE x == [cmd[p] EXCEPT !.pc = "promote", !.at = n, !.tried = @ \cup {n}]
  <2>1. cmd' = [cmd EXCEPT ![p] = x]
    BY <1>2, <1>5 DEF Failover!PingNode
  <2>2. \A m \in Nodes \ cmd[p].tried : n <= m
    <3> DEFINE left == Nodes \ cmd[p].tried
    <3>1. n = Failover!First(left) /\ left # {}
      BY <1>1, <1>5, NodesFacts DEF Failover!Pingable
    <3>2. left \subseteq Nat
      BY NodesFacts
    <3> HIDE DEF left
    <3>3. \A m \in left : n <= m
      BY <3>1, <3>2, FirstFacts
    <3>. QED
      BY <3>3 DEF left
  <2>3. ~unsteady => FirstUp(n, up)
    BY <1>1, <1>2, <2>2, NodesFacts DEF FirstUp, SteadyCommand
  <2>4. x \in Commands
    BY <1>1, <1>2 DEF Commands, AllCommands
  <2>5. ~unsteady => SteadyCommand(x, up, master)
    BY <1>1, <1>2, <2>3 DEF AllCommands, SteadyCommand
  <2> HIDE DEF x
  <2>. QED
    BY <1>1, <2>1, <2>4, <2>5, CommandStep DEF FailoverInv, FailoverShapes
<1>. QED
  BY <1>3, <1>4, <1>5

LEMMA ClusterStep ==
  ASSUME FailoverInv,
         \/ \E n \in Nodes : Failover!Crash(n) \/ Failover!Restart(n) \/ Failover!Flag(n)
         \/ \E p \in Processes : Failover!Ping(p)
         \/ UNCHANGED failoverVars
  PROVE  FailoverInv'
<1>1. CASE UNCHANGED failoverVars
  BY <1>1 DEF failoverVars, FailoverInv, FailoverShapes, Steady, Lost
<1>2. ASSUME NEW n \in Nodes, Failover!Crash(n) PROVE FailoverInv'
  <2>1. /\ n \in up /\ up' = up \ {n}
        /\ lostMasters' = IF n = master THEN lostMasters + 1 ELSE lostMasters
        /\ UNCHANGED <<master, flagged, listed, primary, default, recognized, failedNodes, cmd,
                       takeovers, unsteady>>
    BY <1>2 DEF Failover!Crash, Failover!manager
  <2>2. FailoverShapes'
    BY <2>1 DEF FailoverInv, FailoverShapes
  <2>3. ASSUME ~unsteady, NEW p \in Processes PROVE SteadyCommand(cmd[p], up', master')
    BY <2>1, <2>3, SteadyFacts, SteadyKept
  <2>4. ASSUME ~unsteady PROVE FirstUp(master, up') /\ takeovers + Lost' = lostMasters'
    BY <2>1, <2>4 DEF FailoverInv, FailoverShapes, Steady, FirstUp, Lost
  <2>. QED
    BY <2>1, <2>2, <2>3, <2>4 DEF FailoverInv, Steady
<1>3. ASSUME NEW n \in Nodes, Failover!Restart(n) PROVE FailoverInv'
  <2>1. /\ up' = up \cup {n} /\ flagged' = flagged \ {n} /\ unsteady' = TRUE
        /\ UNCHANGED <<master, listed, primary, default, recognized, failedNodes, cmd,
                       takeovers, lostMasters>>
    BY <1>3 DEF Failover!Restart, Failover!manager
  <2>. QED
    BY <2>1 DEF FailoverInv, FailoverShapes, Steady
<1>4. ASSUME NEW n \in Nodes, Failover!Flag(n) PROVE FailoverInv'
  <2>1. /\ n \notin up /\ flagged' = flagged \cup {n}
        /\ UNCHANGED <<up, master, listed, primary, default, recognized, failedNodes, cmd,
                       takeovers, lostMasters, unsteady>>
    BY <1>4 DEF Failover!Flag, Failover!manager, Failover!history
  <2>. QED
    BY <2>1 DEF FailoverInv, FailoverShapes, Steady, Lost
<1>5. ASSUME NEW p \in Processes, Failover!Ping(p) PROVE FailoverInv'
  <2>1. /\ UNCHANGED <<up, master, flagged, listed, default, cmd, takeovers, lostMasters, unsteady>>
        /\ primary' = primary \/ primary' = [primary EXCEPT ![p] = master']
        /\ \/ recognized' = recognized
           \/ recognized' = [recognized EXCEPT ![p] = (listed' \ flagged') \cup {master'}]
    BY <1>5 DEF Failover!Ping, Failover!Initialize, Failover!cluster, Failover!history
  <2>2. failedNodes' \in [Processes -> SUBSET Nodes]
    BY <1>5, NodesFacts DEF Failover!Ping, FailoverInv, FailoverShapes
  <2>3. FailoverShapes'
    BY <2>1, <2>2 DEF FailoverInv, FailoverShapes
  <2>. QED
    BY <2>1, <2>3 DEF FailoverInv, Steady, Lost
<1>. QED
  BY <1>1, <1>2, <1>3, <1>4, <1>5

LEMMA FailoverNext ==
  ASSUME FailoverInv, [Next]_vars PROVE FailoverInv'
<1>1. CASE Failover!Next
  <2>1. ASSUME NEW p \in Processes, Failover!Step(p) PROVE FailoverInv'
    BY <2>1, NodesFacts, EndStep, LoseStep, NodesStep, TryStep, FailStep, SwitchStep, TakeoverStep,
       PingNodeStep, PromoteStep DEF Failover!Step
  <2>. QED
    BY <1>1, <2>1, NodesFacts, BeginStep, LoseStep, ClusterStep DEF Failover!Next
<1>. QED
  BY <1>1, StepOfFailover, ClusterStep

LEMMA FailoverHolds == Spec => []FailoverInv
BY FailoverInit, FailoverNext, PTL DEF Spec

(* A command to the Redis cluster gives up only when it has tried every     *)
(* node, and there are no more takeovers than masters lost as long as no    *)
(* node came back or reported the cluster down, however the processes and   *)
(* the nodes behave ('switch_masternode', 'masternode_failover' and         *)
(* 'find_another_default_node' of redis/cluster.py).                        *)
THEOREM FailoversAreSound == Spec => []FailoverSound
<1>1. FailoverInv => FailoverSound
  <2> SUFFICES ASSUME FailoverInv PROVE FailoverSound
    OBVIOUS
  <2>1. Failover!GivesUpAfterAll
    BY RoundsReachAll, NodesFacts DEF Failover!GivesUpAfterAll
  <2>2. Failover!OneTakeoverPerLoss
    BY DEF Failover!OneTakeoverPerLoss, FailoverInv, FailoverShapes, Steady, Lost
  <2>3. Failover!TypeOK
    <3>1. \A p \in Processes : cmd[p].tried \subseteq Nodes
      BY SteadyFacts DEF AllCommands
    <3>. QED
      BY <3>1, NodesFacts DEF Failover!TypeOK, FailoverInv, FailoverShapes
  <2>. QED
    BY <2>1, <2>2, <2>3 DEF FailoverSound
<1>. QED
  BY <1>1, FailoverHolds, PTL

-----------------------------------------------------------------------------
(***************************************************************************)
(* The browser.  Once auth2's session has timed out, and until B2C signs    *)
(* the user out, the browser keeps its cookie and no sign-in is waited for, *)
(* or a tab is on its way to sign out of B2C.                              *)
(***************************************************************************)
Hosts == {"auth2", "other"}
Keys == 1..MaxSessions
Cookies == 0..MaxSessions + 2
NextPages == [host : Hosts, kind : {"page", "signedout", "none"}]

Visited ==
  [at : {"blank", "shown", "signin", "signedout", "failed", "logout", "b2cLogout", "toSignedOut",
         "toSocialMedia", "page", "home", "form", "b2c", "complete"},
   host : Hosts, next : NextPages, cookie : Cookies]

BrowserShapes ==
  /\ tab \in [Tabs -> Visited]
  /\ jar \in [Hosts -> Cookies] /\ ticks \in [Keys -> 0..Timeout]
  /\ began \in Tabs \cup {NoTab} /\ user \in {"active", "inactive", "deleted"}
  /\ visits \in 0..MaxVisits /\ time \in 0..MaxTicks /\ userChanges \in 0..MaxUserChanges

TimedOut == jar["auth2"] \in Keys /\ ticks[jar["auth2"]] = 0

Waits ==
  idle /\ (\A t \in Tabs : tab[t].at # "b2cLogout") => began = NoTab /\ TimedOut

BrowserInv == BrowserShapes /\ Waits /\ slept = FALSE

LEMMA StepOfBrowser ==
  ASSUME [Next]_vars
  PROVE  Nav!Next \/ UNCHANGED navigationVars
BY DEF Next, vars

LEMMA NavFacts ==
  /\ Nav!Hosts = Hosts /\ Nav!Keys = Keys /\ Nav!Nested = MaxSessions + 2
  /\ Nav!Guest = MaxSessions + 1 /\ Nav!NoCookie = 0
  /\ 0 \in Cookies /\ Nav!Nested \in Cookies /\ Nav!Guest \in Cookies /\ Keys \subseteq Cookies
  /\ Nav!Guest \notin Keys /\ 0 \notin Keys
  /\ Nav!NoPage \in NextPages /\ NoTab \notin Tabs
  /\ \A h \in Hosts : Nav!Page(h) \in NextPages /\ Nav!Out(h) \in NextPages
BY RecoveryAssumption DEF Nav!Hosts, Hosts, Nav!Keys, Keys, Nav!Nested, Nav!Guest, Nav!NoCookie, Cookies,
   Nav!NoPage, NextPages, Nav!Page, Nav!Out

LEMMA BrowserInit ==
  ASSUME Init PROVE BrowserInv
<1>1. Nav!Init
  BY DEF Init
<1>2. BrowserShapes
  BY <1>1, NavFacts, RecoveryAssumption DEF Nav!Init, BrowserShapes, Visited, Hosts
<1>. QED
  BY <1>1, <1>2 DEF Nav!Init, BrowserInv, Waits

(* What a request does to the session leaves one that timed out alone.      *)
LEMMA SessionFacts ==
  ASSUME BrowserShapes, NEW h \in Hosts
  PROVE  /\ Nav!Loaded(h) \in [Keys -> 0..Timeout] /\ Nav!Answered(h) \in [Hosts -> Cookies]
         /\ TimedOut => /\ Nav!Answered(h)["auth2"] = jar["auth2"]
                        /\ Nav!Loaded(h)[jar["auth2"]] = 0
                        /\ ~Nav!Live("auth2") /\ Nav!Expired("auth2")
<1>1. /\ Nav!Live(h) <=> jar[h] \in Keys /\ ticks[jar[h]] > 0
      /\ Nav!Live("auth2") <=> jar["auth2"] \in Keys /\ ticks[jar["auth2"]] > 0
      /\ Nav!Expired("auth2") <=> jar["auth2"] \in Keys /\ ~Nav!Live("auth2")
  BY NavFacts DEF Nav!Live, Nav!Expired
<1>2. Timeout \in 0..Timeout /\ "auth2" \in Hosts /\ "other" \in Hosts
  BY RecoveryAssumption DEF Hosts
<1>3. Nav!Loaded(h) \in [Keys -> 0..Timeout]
  BY <1>1, <1>2 DEF Nav!Loaded, BrowserShapes
<1>4. Nav!Answered(h) \in [Hosts -> Cookies]
  BY NavFacts DEF Nav!Answered, BrowserShapes
<1>5. ASSUME TimedOut PROVE ~Nav!Live("auth2") /\ Nav!Expired("auth2")
  BY <1>1, <1>5 DEF TimedOut
<1>6. ASSUME TimedOut PROVE Nav!Loaded(h)[jar["auth2"]] = 0
  BY <1>1, <1>6, NavFacts DEF TimedOut, Nav!Loaded, BrowserShapes
<1>7. ASSUME TimedOut PROVE Nav!Answered(h)["auth2"] = jar["auth2"]
  BY <1>2, <1>5, <1>7 DEF Nav!Answered, BrowserShapes, Hosts
<1>. QED
  BY <1>3, <1>4, <1>5, <1>6, <1>7

(* One tab moves; the session that timed out stays, or the tab goes to sign *)
(* out of B2C.                                                             *)
LEMMA MoveStep ==
  ASSUME BrowserInv, NEW t \in Tabs, NEW x \in Visited, tab' = [tab EXCEPT ![t] = x],
         tab[t].at # "b2cLogout", UNCHANGED <<idle, slept>>,
         jar' \in [Hosts -> Cookies], ticks' \in [Keys -> 0..Timeout],
         began' \in Tabs \cup {NoTab}, user' \in {"active", "inactive", "deleted"},
         visits' \in 0..MaxVisits, time' \in 0..MaxTicks, userChanges' \in 0..MaxUserChanges,
         \/ x.at = "b2cLogout"
         \/ began = NoTab /\ TimedOut => began' = NoTab /\ TimedOut'
  PROVE  BrowserInv'
<1>1. tab' \in [Tabs -> Visited] /\ tab'[t] = x /\ \A o \in Tabs \ {t} : tab'[o] = tab[o]
  BY DEF BrowserInv, BrowserShapes
<1>2. BrowserShapes'
  BY <1>1 DEF BrowserShapes
<1>3. Waits'
  BY <1>1 DEF BrowserInv, Waits
<1>. QED
  BY <1>2, <1>3 DEF BrowserInv

LEMMA GoFacts ==
  ASSUME NEW t \in Tabs, NEW at, NEW h \in Hosts, NEW next \in NextPages, Nav!Go(t, at, h, next),
         at \in {"blank", "shown", "signin", "signedout", "failed", "logout", "b2cLogout",
                 "toSignedOut", "toSocialMedia", "page", "home", "form", "b2c", "complete"}
  PROVE  \E x \in Visited : tab' = [tab EXCEPT ![t] = x] /\ x.at = at
<1> DEFINE x == [at |-> at, host |-> h, next |-> next, cookie |-> Nav!NoCookie]
<1>1. x \in Visited /\ x.at = at
  BY NavFacts DEF Visited
<1>2. tab' = [tab EXCEPT ![t] = x]
  BY DEF Nav!Go
<1> HIDE DEF x
<1>. QED
  BY <1>1, <1>2

(* A move that goes to a page and leaves the rest, or uses the session.     *)
LEMMA GoStep ==
  ASSUME BrowserInv, NEW t \in Tabs, NEW at, NEW h \in Hosts, NEW next \in NextPages,
         Nav!Go(t, at, h, next),
         at \in {"blank", "shown", "signin", "signedout", "failed", "logout", "b2cLogout",
                 "toSignedOut", "toSocialMedia", "page", "home", "form", "b2c", "complete"},
         tab[t].at # "b2cLogout", UNCHANGED <<idle, slept, began, user>>,
         \/ UNCHANGED <<jar, ticks>>
         \/ \E d \in Hosts : Nav!Uses(d)
         \/ jar' = [jar EXCEPT !["other"] = 0] /\ ticks' = Nav!Loaded("other"),
         visits' \in 0..MaxVisits, time' \in 0..MaxTicks, userChanges' \in 0..MaxUserChanges
  PROVE  BrowserInv'
<1>1. PICK x \in Visited : tab' = [tab EXCEPT ![t] = x] /\ x.at = at
  BY GoFacts
<1>2. BrowserShapes /\ "auth2" \in Hosts /\ "other" \in Hosts
  BY DEF BrowserInv, Hosts
<1>3. /\ jar' \in [Hosts -> Cookies] /\ ticks' \in [Keys -> 0..Timeout]
      /\ TimedOut => TimedOut'
  <2>1. CASE UNCHANGED <<jar, ticks>>
    BY <1>2, <2>1 DEF BrowserShapes, TimedOut
  <2>2. ASSUME NEW d \in Hosts, Nav!Uses(d)
        PROVE  /\ jar' \in [Hosts -> Cookies] /\ ticks' \in [Keys -> 0..Timeout]
               /\ TimedOut => TimedOut'
    BY <1>2, <2>2, SessionFacts DEF Nav!Uses, TimedOut
  <2>3. CASE jar' = [jar EXCEPT !["other"] = 0] /\ ticks' = Nav!Loaded("other")
    <3>1. jar' \in [Hosts -> Cookies] /\ jar'["auth2"] = jar["auth2"]
      BY <1>2, <2>3, NavFacts DEF BrowserShapes
    <3>. QED
      BY <1>2, <2>3, <3>1, SessionFacts DEF TimedOut
  <2>. QED
    BY <2>1, <2>2, <2>3
<1>. QED
  BY <1>1, <1>2, <1>3, MoveStep DEF BrowserShapes

LEMMA VisitedFacts ==
  ASSUME BrowserInv, NEW t \in Tabs
  PROVE  /\ tab[t].host \in Hosts /\ tab[t].next \in NextPages /\ tab[t].next.host \in Hosts
         /\ tab[t].cookie \in Cookies
         /\ BrowserShapes
         /\ visits \in 0..MaxVisits /\ time \in 0..MaxTicks /\ userChanges \in 0..MaxUserChanges
BY DEF BrowserInv, BrowserShapes, Visited, NextPages

LEMMA FlushesFacts ==
  ASSUME BrowserShapes, NEW h \in Hosts, Nav!Flushes(h)
  PROVE  jar' \in [Hosts -> Cookies] /\ ticks' \in [Keys -> 0..Timeout]
BY NavFacts, RecoveryAssumption DEF BrowserShapes, Nav!Flushes, Nav!Live

(* The logout view: another domain's cookie goes, or the tab goes to sign   *)
(* out of B2C.                                                             *)
LEMMA LogoutViewStep ==
  ASSUME BrowserInv, NEW t \in Tabs, NEW h \in Hosts, NEW next \in NextPages, NEW d \in Hosts,
         Nav!LogoutView(t, h, next, d), tab[t].at # "b2cLogout",
         UNCHANGED <<idle, slept, user, visits, time, userChanges>>
  PROVE  BrowserInv'
<1>1. \A o \in Hosts : Nav!AfterLogout(next, o) \in NextPages /\ Nav!AfterLogout(next, o).host \in Hosts
  BY NavFacts DEF Nav!AfterLogout, NextPages
<1>2. CASE h = "other"
  <2>1. /\ jar' = [jar EXCEPT !["other"] = 0] /\ ticks' = Nav!Loaded("other") /\ UNCHANGED began
        /\ Nav!Go(t, "logout", "auth2", Nav!AfterLogout(next, "other"))
    BY <1>2, NavFacts DEF Nav!LogoutView
  <2>2. "auth2" \in Hosts /\ Nav!AfterLogout(next, "other") \in NextPages
    BY <1>1 DEF Hosts
  <2>. QED
    BY <2>1, <2>2, VisitedFacts, GoStep
<1>3. CASE h # "other"
  <2> DEFINE after == Nav!AfterLogout(next, d)
  <2>1. /\ Nav!Flushes("auth2") /\ began' = NoTab
        /\ Nav!Go(t, "b2cLogout", after.host, after)
    BY <1>3 DEF Nav!LogoutView
  <2>2. after \in NextPages /\ after.host \in Hosts /\ "auth2" \in Hosts
    BY <1>1 DEF Hosts
  <2> HIDE DEF after
  <2>3. PICK x \in Visited : tab' = [tab EXCEPT ![t] = x] /\ x.at = "b2cLogout"
    BY <2>1, <2>2, GoFacts
  <2>4. jar' \in [Hosts -> Cookies] /\ ticks' \in [Keys -> 0..Timeout]
    BY <2>1, <2>2, VisitedFacts, FlushesFacts
  <2>. QED
    BY <2>1, <2>3, <2>4, VisitedFacts, MoveStep DEF BrowserShapes
<1>. QED
  BY <1>2, <1>3

LEMMA SignedOutStep ==
  ASSUME BrowserInv, NEW t \in Tabs, Nav!SignedOutPage(t) PROVE BrowserInv'
<1> DEFINE h == tab[t].host
           at == IF Nav!At(t, "toSocialMedia") THEN "toSignedOut" ELSE "signedout"
<1>1. h \in Hosts /\ tab[t].next \in NextPages /\ Nav!NoPage \in NextPages
  BY VisitedFacts, NavFacts
<1>2. /\ tab[t].at # "b2cLogout" /\ UNCHANGED <<idle, slept, user, visits, time, userChanges>>
      /\ \/ Nav!LogoutView(t, h, Nav!NoPage, h)
         \/ Nav!Uses(h) /\ Nav!Go(t, at, h, tab[t].next) /\ UNCHANGED began
  BY DEF Nav!SignedOutPage, Nav!At, Nav!counts
<1>3. at \in {"toSignedOut", "signedout"}
  OBVIOUS
<1> HIDE DEF h, at
<1>4. CASE Nav!LogoutView(t, h, Nav!NoPage, h)
  BY <1>1, <1>2, <1>4, LogoutViewStep
<1>5. CASE Nav!Uses(h) /\ Nav!Go(t, at, h, tab[t].next) /\ UNCHANGED began
  BY <1>1, <1>2, <1>3, <1>5, VisitedFacts, GoStep
<1>. QED
  BY <1>2, <1>4, <1>5

LEMMA ShowPageStep ==
  ASSUME BrowserInv, NEW t \in Tabs, Nav!ShowPage(t) PROVE BrowserInv'
<1> DEFINE h == tab[t].host
<1>1. h \in Hosts /\ Nav!Page(h) \in NextPages
  BY VisitedFacts, NavFacts
<1>2. /\ tab[t].at # "b2cLogout" /\ UNCHANGED <<idle, slept, began, user, visits, time, userChanges>>
      /\ Nav!Uses(h)
      /\ Nav!Go(t, "shown", h, Nav!Page(h)) \/ Nav!Go(t, "home", h, Nav!Page(h))
  BY DEF Nav!ShowPage, Nav!At, Nav!counts
<1> HIDE DEF h
<1>3. CASE Nav!Go(t, "shown", h, Nav!Page(h))
  BY <1>1, <1>2, <1>3, VisitedFacts, GoStep
<1>4. CASE Nav!Go(t, "home", h, Nav!Page(h))
  BY <1>1, <1>2, <1>4, VisitedFacts, GoStep
<1>. QED
  BY <1>2, <1>3, <1>4

(* The view home of a user who is not signed in: with the cookie of a       *)
(* session that timed out it never begins a sign-in.                       *)
LEMMA HomeSignedOutStep ==
  ASSUME BrowserInv, NEW t \in Tabs, Nav!HomeSignedOut(t) PROVE BrowserInv'
<1> DEFINE h == tab[t].host
           next == tab[t].next
           to == IF next = Nav!NoPage THEN Nav!Page(h) ELSE next
<1>1. /\ h \in Hosts /\ "auth2" \in Hosts /\ next \in NextPages /\ to \in NextPages
  BY VisitedFacts, NavFacts DEF Hosts
<1>2. /\ tab[t].at # "b2cLogout" /\ UNCHANGED <<idle, slept, user, visits, time, userChanges>>
      /\ \/ Nav!LogoutView(t, h, next, h)
         \/ Nav!Go(t, "home", "auth2", to) /\ Nav!Uses(h) /\ UNCHANGED began
         \/ h # "other" /\ ~Nav!Expired(h) /\ Nav!BeginSignIn(t, next)
  BY DEF Nav!HomeSignedOut, Nav!At, Nav!counts
<1> HIDE DEF h, next, to
<1>3. CASE Nav!LogoutView(t, h, next, h)
  BY <1>1, <1>2, <1>3, LogoutViewStep
<1>4. CASE Nav!Go(t, "home", "auth2", to) /\ Nav!Uses(h) /\ UNCHANGED began
  BY <1>1, <1>2, <1>4, VisitedFacts, GoStep
<1>5. CASE h # "other" /\ ~Nav!Expired(h) /\ Nav!BeginSignIn(t, next)
  <2> DEFINE page == IF next = Nav!NoPage THEN Nav!Page("auth2") ELSE next
  <2>1. /\ began' = t /\ ticks' = Nav!Loaded("auth2")
        /\ jar' = [jar EXCEPT !["auth2"] = IF Nav!Live("auth2") THEN jar["auth2"] ELSE Nav!Guest]
        /\ Nav!Go(t, "b2c", "auth2", page) /\ page \in NextPages
    BY <1>1, <1>5, NavFacts DEF Nav!BeginSignIn
  <2> HIDE DEF page
  <2>2. h = "auth2" /\ ~TimedOut
    <3>1. h = "auth2"
      BY <1>1, <1>5 DEF Hosts
    <3>. QED
      BY <1>1, <1>5, <3>1, VisitedFacts, SessionFacts
  <2>3. PICK x \in Visited : tab' = [tab EXCEPT ![t] = x] /\ x.at = "b2c"
    BY <1>1, <2>1, GoFacts
  <2>4. jar' \in [Hosts -> Cookies] /\ ticks' \in [Keys -> 0..Timeout]
    BY <1>1, <2>1, VisitedFacts, SessionFacts, NavFacts DEF BrowserShapes
  <2>. QED
    BY <1>2, <2>1, <2>2, <2>3, <2>4, VisitedFacts, MoveStep DEF BrowserShapes
<1>. QED
  BY <1>2, <1>3, <1>4, <1>5

LEMMA HomeSignedInStep ==
  ASSUME BrowserInv, NEW t \in Tabs, Nav!HomeSignedIn(t) PROVE BrowserInv'
<1> DEFINE h == tab[t].host
           to == IF tab[t].next = Nav!NoPage THEN Nav!Page(h) ELSE Nav!Page(tab[t].next.host)
           form == [at |-> "form", host |-> "other", next |-> to,
                    cookie |-> IF h = "auth2" THEN jar[h] ELSE Nav!Nested]
<1>1. /\ h \in Hosts /\ "auth2" \in Hosts /\ "other" \in Hosts /\ to \in NextPages
      /\ Nav!NoPage \in NextPages
  BY VisitedFacts, NavFacts DEF Hosts
<1>2. /\ tab[t].at # "b2cLogout"
      /\ UNCHANGED <<idle, slept, began, user, visits, time, userChanges>>
      /\ Nav!Uses(h)
      /\ Nav!Go(t, "page", "auth2", Nav!NoPage) \/ tab' = [tab EXCEPT ![t] = form]
  BY DEF Nav!HomeSignedIn, Nav!At, Nav!counts
<1>3. form \in Visited /\ form.at = "form"
  <2>1. jar[h] \in Cookies /\ Nav!Nested \in Cookies
    BY <1>1, VisitedFacts, NavFacts DEF BrowserShapes
  <2> HIDE DEF h, to
  <2>. QED
    BY <1>1, <2>1 DEF Visited
<1> HIDE DEF h, to, form
<1>4. CASE Nav!Go(t, "page", "auth2", Nav!NoPage)
  BY <1>1, <1>2, <1>4, VisitedFacts, GoStep
<1>5. CASE tab' = [tab EXCEPT ![t] = form]
  <2>1. /\ jar' \in [Hosts -> Cookies] /\ ticks' \in [Keys -> 0..Timeout]
        /\ TimedOut => TimedOut'
    BY <1>1, <1>2, VisitedFacts, SessionFacts DEF Nav!Uses, TimedOut
  <2>. QED
    BY <1>2, <1>3, <1>5, <2>1, VisitedFacts, MoveStep DEF BrowserShapes
<1>. QED
  BY <1>2, <1>4, <1>5

LEMMA LoginDomainStep ==
  ASSUME BrowserInv, NEW t \in Tabs, Nav!LoginDomain(t) PROVE BrowserInv'
<1>1. "other" \in Hosts /\ "auth2" \in Hosts /\ Nav!NoPage \in NextPages
  BY NavFacts DEF Hosts
<1>2. PICK x \in Visited : tab' = [tab EXCEPT ![t] = x] /\ x.at = "page"
  BY <1>1, GoFacts DEF Nav!LoginDomain
<1>3. /\ tab[t].at # "b2cLogout" /\ jar' = [jar EXCEPT !["other"] = tab[t].cookie]
      /\ UNCHANGED <<ticks, idle, slept, began, user, visits, time, userChanges>>
  BY DEF Nav!LoginDomain, Nav!At, Nav!counts
<1>4. /\ jar' \in [Hosts -> Cookies] /\ ticks' \in [Keys -> 0..Timeout]
      /\ TimedOut => TimedOut'
  BY <1>1, <1>3, VisitedFacts DEF BrowserShapes, TimedOut
<1>. QED
  BY <1>2, <1>3, <1>4, VisitedFacts, MoveStep DEF BrowserShapes

LEMMA B2CAnswersStep ==
  ASSUME BrowserInv, NEW t \in Tabs, Nav!B2CAnswers(t) PROVE BrowserInv'
<1>1. /\ tab[t].at # "b2cLogout" /\ UNCHANGED <<jar, ticks, idle, slept, began, user>>
      /\ UNCHANGED <<visits, time, userChanges>>
      /\ \/ Nav!Go(t, "complete", "auth2", tab[t].next)
         \/ Nav!Go(t, "signin", "auth2", tab[t].next)
  BY DEF Nav!B2CAnswers, Nav!At, Nav!counts, Nav!sessions
<1>2. "auth2" \in Hosts
  BY DEF Hosts
<1>3. CASE Nav!Go(t, "complete", "auth2", tab[t].next)
  BY <1>1, <1>2, <1>3, VisitedFacts, GoStep
<1>4. CASE Nav!Go(t, "signin", "auth2", tab[t].next)
  BY <1>1, <1>2, <1>4, VisitedFacts, GoStep
<1>. QED
  BY <1>1, <1>3, <1>4

LEMMA B2CLogoutStep ==
  ASSUME BrowserInv, NEW t \in Tabs, Nav!B2CLogout(t) PROVE BrowserInv'
<1>1. PICK at \in {"toSignedOut", "toSocialMedia"} : Nav!Go(t, at, tab[t].host, tab[t].next)
  BY DEF Nav!B2CLogout
<1>2. PICK x \in Visited : tab' = [tab EXCEPT ![t] = x] /\ x.at = at
  BY <1>1, VisitedFacts, GoFacts
<1>3. UNCHANGED <<jar, ticks, began, user, visits, time, userChanges, slept>> /\ idle' = FALSE
  BY DEF Nav!B2CLogout, Nav!counts, Nav!sessions
<1>. QED
  BY <1>2, <1>3 DEF BrowserInv, BrowserShapes, Waits

(* The sign-in that comes back to auth2.                                    *)
LEMMA CompleteStep ==
  ASSUME BrowserInv, NEW t \in Tabs,
         \/ Nav!CompleteFails(t) \/ Nav!CompleteRefused(t) \/ Nav!CompleteDeleted(t)
         \/ Nav!Complete(t)
  PROVE  BrowserInv'
<1>1. /\ "auth2" \in Hosts /\ Nav!NoPage \in NextPages /\ tab[t].next \in NextPages
      /\ tab[t].next.host \in Hosts /\ BrowserShapes
  BY VisitedFacts, NavFacts DEF Hosts
<1>2. CASE Nav!CompleteFails(t)
  <2>1. /\ tab[t].at # "b2cLogout" /\ UNCHANGED <<idle, slept, began, user, visits, time, userChanges>>
        /\ Nav!Uses("auth2") /\ Nav!Go(t, "failed", "auth2", tab[t].next)
    BY <1>2 DEF Nav!CompleteFails, Nav!At, Nav!counts
  <2>. QED
    BY <1>1, <2>1, VisitedFacts, GoStep
<1>3. CASE Nav!CompleteRefused(t)
  <2>1. /\ tab[t].at # "b2cLogout" /\ began = t /\ began' = NoTab
        /\ UNCHANGED <<idle, slept, user, visits, time>>
        /\ Nav!Flushes("auth2") /\ Nav!Go(t, "logout", tab[t].next.host, tab[t].next)
        /\ userChanges' \in 0..MaxUserChanges
    BY <1>1, <1>3, RecoveryAssumption DEF Nav!CompleteRefused, Nav!At, BrowserShapes
  <2>2. PICK x \in Visited : tab' = [tab EXCEPT ![t] = x] /\ x.at = "logout"
    BY <1>1, <2>1, GoFacts
  <2>3. jar' \in [Hosts -> Cookies] /\ ticks' \in [Keys -> 0..Timeout]
    BY <1>1, <2>1, FlushesFacts
  <2>4. ~(began = NoTab /\ TimedOut)
    BY <2>1, NavFacts
  <2>. QED
    BY <1>1, <2>1, <2>2, <2>3, <2>4, VisitedFacts, MoveStep DEF BrowserShapes
<1>4. CASE Nav!CompleteDeleted(t)
  <2>1. /\ tab[t].at # "b2cLogout" /\ UNCHANGED <<idle, slept, user, visits, time, userChanges>>
        /\ Nav!LogoutView(t, "auth2", Nav!NoPage, "auth2")
    BY <1>4 DEF Nav!CompleteDeleted, Nav!At, Nav!counts
  <2>. QED
    BY <1>1, <2>1, LogoutViewStep
<1>5. CASE Nav!Complete(t)
  <2> DEFINE at == IF tab[t].next.host = "auth2" THEN "page" ELSE "home"
  <2>1. /\ tab[t].at = "complete" /\ began = t /\ user' = "active"
        /\ UNCHANGED <<idle, began, visits, time, userChanges>>
        /\ Nav!Go(t, at, "auth2", tab[t].next)
        /\ \/ Nav!Uses("auth2") /\ UNCHANGED slept
           \/ \E k \in Keys :
                /\ jar' = [jar EXCEPT !["auth2"] = k] /\ ticks' = [ticks EXCEPT ![k] = Timeout]
                /\ slept' = (slept \/ (idle /\ \A o \in Tabs : tab[o].at # "b2cLogout"))
    BY <1>5, NavFacts DEF Nav!Complete, Nav!At, Nav!counts
  <2>2. at \in {"page", "home"}
    OBVIOUS
  <2> HIDE DEF at
  <2>3. PICK x \in Visited : tab' = [tab EXCEPT ![t] = x] /\ x.at = at
    BY <1>1, <2>1, <2>2, GoFacts
  <2>4. ~(began = NoTab /\ TimedOut) /\ ~(idle /\ \A o \in Tabs : tab[o].at # "b2cLogout")
    BY <2>1, NavFacts DEF BrowserInv, Waits
  <2>5. jar' \in [Hosts -> Cookies] /\ ticks' \in [Keys -> 0..Timeout] /\ slept' = FALSE
    <3>1. CASE Nav!Uses("auth2") /\ UNCHANGED slept
      BY <1>1, <3>1, SessionFacts DEF Nav!Uses, BrowserInv
    <3>2. ASSUME NEW k \in Keys, jar' = [jar EXCEPT !["auth2"] = k],
                 ticks' = [ticks EXCEPT ![k] = Timeout],
                 slept' = (slept \/ (idle /\ \A o \in Tabs : tab[o].at # "b2cLogout"))
          PROVE  jar' \in [Hosts -> Cookies] /\ ticks' \in [Keys -> 0..Timeout] /\ slept' = FALSE
      <4>1. slept' = FALSE
        BY <2>4, <3>2 DEF BrowserInv
      <4>2. k \in Cookies /\ Timeout \in 0..Timeout
        BY NavFacts, RecoveryAssumption
      <4>. QED
        BY <1>1, <3>2, <4>1, <4>2 DEF BrowserShapes
    <3>. QED
      BY <2>1, <3>1, <3>2
  <2>6. UNCHANGED slept
    BY <2>5, <2>1, <2>4 DEF BrowserInv
  <2>7. user' \in {"active", "inactive", "deleted"} /\ began' \in Tabs \cup {NoTab}
    BY <1>1, <2>1 DEF BrowserShapes
  <2>. QED
    BY <1>1, <2>1, <2>3, <2>4, <2>5, <2>6, <2>7, VisitedFacts, MoveStep
<1>. QED
  BY <1>2, <1>3, <1>4, <1>5

(* The user opens an address, or enters the password.                       *)
LEMMA OpenStep ==
  ASSUME BrowserInv, NEW t \in Tabs,
         Nav!Open(t) \/ Nav!OpenHome(t) \/ Nav!OpenLogout(t) \/ Nav!SignInAgain(t)
  PROVE  BrowserInv'
<1>1. /\ tab[t].at # "b2cLogout" /\ UNCHANGED <<jar, ticks, idle, slept, began, user, time, userChanges>>
      /\ visits < MaxVisits /\ visits' = visits + 1
  BY DEF Nav!Open, Nav!OpenHome, Nav!OpenLogout, Nav!SignInAgain, Nav!Visit, Nav!Resting, Nav!sessions
<1>2. visits' \in 0..MaxVisits /\ tab[t].next.host \in Hosts /\ Nav!NoPage \in NextPages
  BY <1>1, VisitedFacts, NavFacts, RecoveryAssumption
<1>3. PICK at \in {"page", "home", "logout", "toSignedOut"}, h \in Hosts, next \in NextPages :
        Nav!Go(t, at, h, next)
  <2>1. CASE Nav!Open(t)
    BY <1>2, <2>1, NavFacts DEF Nav!Open
  <2>2. CASE Nav!OpenHome(t)
    <3>1. PICK h \in Hosts : \E next \in {Nav!NoPage, Nav!Out(h)} : Nav!Go(t, "home", h, next)
      BY <2>2, NavFacts DEF Nav!OpenHome
    <3>2. {Nav!NoPage, Nav!Out(h)} \subseteq NextPages
      BY NavFacts
    <3>. QED
      BY <3>1, <3>2
  <2>3. CASE Nav!OpenLogout(t)
    BY <1>2, <2>3, NavFacts DEF Nav!OpenLogout
  <2>4. CASE Nav!SignInAgain(t)
    <3>1. \/ Nav!Go(t, "page", tab[t].next.host, Nav!NoPage)
          \/ Nav!Go(t, "toSignedOut", tab[t].next.host, Nav!NoPage)
      BY <2>4 DEF Nav!SignInAgain
    <3>. QED
      BY <1>2, <3>1
  <2>. QED
    BY <2>1, <2>2, <2>3, <2>4
<1>. QED
  BY <1>1, <1>2, <1>3, VisitedFacts, GoStep

LEMMA EnterPasswordStep ==
  ASSUME BrowserInv, NEW t \in Tabs, Nav!EnterPassword(t) PROVE BrowserInv'
<1>1. /\ UNCHANGED <<jar, ticks, slept, began, user, time, userChanges>> /\ idle' = FALSE
      /\ visits < MaxVisits /\ visits' = visits + 1 /\ Nav!Go(t, "complete", "auth2", tab[t].next)
  BY DEF Nav!EnterPassword, Nav!sessions
<1>2. "auth2" \in Hosts
  BY DEF Hosts
<1>3. PICK x \in Visited : tab' = [tab EXCEPT ![t] = x] /\ x.at = "complete"
  BY <1>1, <1>2, VisitedFacts, GoFacts
<1>4. visits' \in 0..MaxVisits
  BY <1>1, VisitedFacts, RecoveryAssumption
<1>. QED
  BY <1>1, <1>3, <1>4 DEF BrowserInv, BrowserShapes, Waits

(* Time passes: a session that times out takes the sign-in with it.         *)
LEMMA TickStep ==
  ASSUME BrowserInv, Nav!Tick PROVE BrowserInv'
<1> DEFINE ends == Nav!Live("auth2") /\ ticks[jar["auth2"]] = 1
<1>1. /\ UNCHANGED <<tab, jar, user, visits, userChanges, slept>>
      /\ time < MaxTicks /\ time' = time + 1
      /\ ticks' = [k \in Keys |-> IF ticks[k] = 0 THEN 0 ELSE ticks[k] - 1]
      /\ began' = (IF ends THEN NoTab ELSE began) /\ idle' = (idle \/ ends)
  BY NavFacts DEF Nav!Tick
<1>2. BrowserShapes
  BY DEF BrowserInv
<1>3. ticks' \in [Keys -> 0..Timeout]
  BY <1>1, <1>2, RecoveryAssumption DEF BrowserShapes
<1>4. BrowserShapes'
  BY <1>1, <1>2, <1>3, RecoveryAssumption DEF BrowserShapes
<1>5. TimedOut => TimedOut'
  BY <1>1, <1>2 DEF BrowserShapes, TimedOut
<1>6. ends => TimedOut'
  BY <1>1, <1>2, NavFacts DEF BrowserShapes, TimedOut, Nav!Live
<1>7. Waits'
  BY <1>1, <1>5, <1>6 DEF BrowserInv, Waits
<1>. QED
  BY <1>1, <1>4, <1>7 DEF BrowserInv

LEMMA ChangeUserStep ==
  ASSUME BrowserInv, Nav!ChangeUser PROVE BrowserInv'
<1>1. userChanges' \in 0..MaxUserChanges
  BY RecoveryAssumption DEF BrowserInv, BrowserShapes, Nav!ChangeUser
<1>2. BrowserShapes' /\ Waits'
  BY <1>1 DEF BrowserInv, BrowserShapes, Waits, TimedOut, Nav!ChangeUser, Nav!sessions
<1>. QED
  BY <1>2 DEF BrowserInv, Nav!ChangeUser

LEMMA LogoutStep ==
  ASSUME BrowserInv, NEW t \in Tabs, Nav!Logout(t) PROVE BrowserInv'
<1>1. /\ tab[t].at # "b2cLogout" /\ UNCHANGED <<idle, slept, user, visits, time, userChanges>>
      /\ Nav!LogoutView(t, tab[t].host, tab[t].next, tab[t].host)
  BY DEF Nav!Logout, Nav!At, Nav!counts
<1>. QED
  BY <1>1, VisitedFacts, LogoutViewStep

LEMMA BrowserNext ==
  ASSUME BrowserInv, [Next]_vars PROVE BrowserInv'
<1>1. ASSUME NEW t \in Tabs, Nav!Move(t) PROVE BrowserInv'
  BY <1>1, LogoutStep, B2CLogoutStep, SignedOutStep, ShowPageStep, HomeSignedOutStep,
     HomeSignedInStep, LoginDomainStep, B2CAnswersStep, CompleteStep DEF Nav!Move
<1>2. CASE UNCHANGED navigationVars
  BY <1>2 DEF navigationVars, BrowserInv, BrowserShapes, Waits, TimedOut
<1>. QED
  BY <1>1, <1>2, StepOfBrowser, OpenStep, EnterPasswordStep, TickStep, ChangeUserStep DEF Nav!Next

LEMMA BrowserHolds == Spec => []BrowserInv
BY BrowserInit, BrowserNext, PTL DEF Spec

(* A user whose session timed out (SessionMiddleware deletes the data, and  *)
(* SessionStore keeps the key as the expired one) is signed out of B2C      *)
(* before the next sign-in, so that B2C asks for the password again: no     *)
(* interleaving of any number of tabs, with time passing and users being    *)
(* changed in between, signs the user in with what B2C still knows.        *)
THEOREM SleptSessionsAsk == Spec => []SleptSessionAsksPassword
<1>1. ASSUME BrowserInv PROVE SleptSessionAsksPassword
  <2>1. Nav!TypeOK
    BY <1>1, NavFacts, RecoveryAssumption
    DEF Nav!TypeOK, BrowserInv, BrowserShapes, Visited, Cookies
  <2>. QED
    BY <1>1, <2>1 DEF SleptSessionAsksPassword, Nav!SleptSessionAsksPassword, BrowserInv
<1>. QED
  BY <1>1, BrowserHolds, PTL

=============================================================================
