----------------------------- MODULE MCRecovery -----------------------------
(***************************************************************************)
(* Recovery: the failover of a Redis cluster, and the chains of redirects   *)
(* of a browser.  A behaviour is one of the two.                           *)
(***************************************************************************)
EXTENDS Naturals

CONSTANTS
  None,
  Processes, NumNodes, MaxEvents, MaxCommands,
  Tabs, NoTab, Timeout, MaxSessions, MaxVisits, MaxTicks, MaxUserChanges

VARIABLES
  which,   \* the component whose behaviour this is
  up, master, flagged, listed, primary, default, recognized, failedNodes,
  cmd, events, commands, takeovers, lostMasters, unsteady,
  tab, jar, ticks, began, b2c, user, visits, time, userChanges, idle, slept

Failover == INSTANCE RedisFailover
failoverVars == <<up, master, flagged, listed, primary, default,
    recognized, failedNodes, cmd, events, commands, takeovers, lostMasters,
    unsteady>>

Nav == INSTANCE Navigation WITH MaxChanges <- MaxUserChanges,
  changes <- userChanges
navigationVars == <<tab, jar, ticks, began, b2c, user, visits, time,
    userChanges, idle, slept>>

ASSUME RecoveryAssumption ==
  /\ NumNodes \in Nat \ {0, 1} /\ None \notin 1..NumNodes
  /\ NoTab \notin Tabs /\ MaxSessions \in Nat /\ Timeout \in Nat \ {0}
  /\ MaxVisits \in Nat /\ MaxTicks \in Nat /\ MaxUserChanges \in Nat

Components == {"failover", "navigation"}

Init ==
  /\ which \in Components
  /\ Failover!Init
  /\ which # "failover" =>
       listed = Failover!Nodes /\ default = [p \in Processes |-> 1]
  /\ Nav!Init

Next ==
  \/ /\ which = "failover" /\ Failover!Next
     /\ UNCHANGED <<which, navigationVars>>
  \/ /\ which = "navigation" /\ Nav!Next
     /\ UNCHANGED <<which, failoverVars>>

vars == <<which, failoverVars, navigationVars>>

(***************************************************************************)
(* Redis answers or times out, and the browser follows redirects.  One      *)
(* process or tab that moves is enough: the modules' fairness of each of    *)
(* them implies it.                                                        *)
(***************************************************************************)
OneMoves ==
  \/ which = "failover" /\ (\E p \in Processes : Failover!Step(p))
     /\ UNCHANGED <<which, navigationVars>>
  \/ which = "navigation" /\ (\E t \in Tabs : Nav!Move(t))
     /\ UNCHANGED <<which, failoverVars>>

Spec == Init /\ [][Next]_vars /\ WF_vars(OneMoves)

-----------------------------------------------------------------------------
(* A command to the Redis cluster tries every node before it gives up, and  *)
(* processes that lose the same master do not take it from each other.     *)
FailoverSound ==
  which = "failover" =>
    Failover!GivesUpAfterAll /\ Failover!OneTakeoverPerLoss /\ Failover!TypeOK

(* A user whose session timed out is asked for the password again, though   *)
(* B2C still knew the user.                                                *)
SleptSessionAsksPassword ==
  which = "navigation" => Nav!SleptSessionAsksPassword /\ Nav!TypeOK

(***************************************************************************)
(* Every Redis command ends with an answer or an error and every chain of   *)
(* redirects at a page, so that all come to rest between the bounded        *)
(* commands and visits; unless two tabs keep posting the cookie value that  *)
(* names its domain twice.                                                 *)
(***************************************************************************)
ComesToRest ==
  []<> (Failover!AllIdle /\ (Nav!PostsNested \/ Nav!AllRest))

=============================================================================
