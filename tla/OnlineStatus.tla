------------------------------ MODULE OnlineStatus ------------------------------
(***************************************************************************)
(* The page of the servers' online status (healthcheckviews.py): from the   *)
(* ready time and the last heartbeat of each server, the periods in which   *)
(* the same servers were online, first for the servers of each cluster and  *)
(* then for all clusters together.                                          *)
(*                                                                         *)
(* Times count in units of 30 seconds, up to now.                           *)
(***************************************************************************)
EXTENDS Integers, Sequences, FiniteSets

CONSTANTS
  Clusters,
  Now,
  Earliest,      \* the start of the earliest day that is monitored
  Alive,         \* a heartbeat not older than this counts as now: 30 seconds
  Replaced,      \* a server that ends less than this after another one is
                 \*   ready was replaced by it: 120 seconds
  MaxServers     \* bound: servers of a cluster

Times == 0..Now
NoTime == -1

(* A server's ready time and its last heartbeat, by which they are sorted.  *)
Server == {s \in [ready : Times, beat : Times] : s.ready <= s.beat}

Earlier(s, t) == s.ready < t.ready \/ (s.ready = t.ready /\ s.beat <= t.beat)

Sorted(servers) == \A i \in 1..(Len(servers) - 1) : Earlier(servers[i], servers[i + 1])

ServerLists ==
  {servers \in UNION {[1..n -> Server] : n \in 0..MaxServers} : Sorted(servers)}

VARIABLES
  server,    \* the servers of each cluster
  left,      \* the servers of each cluster that are still on the list
  ended,     \* when a server was taken from the list
  begin,     \* online_begintime of each cluster
  periods,   \* the periods found of each cluster
  complete,  \* the clusters whose list is empty
  index,     \* indexlist
  merged     \* the periods of all clusters

vars == <<server, left, ended, begin, periods, complete, index, merged>>

(* A recent heartbeat is taken for one of now.                             *)
Beats(s) == IF s.beat >= Now - Alive THEN [s EXCEPT !.beat = Now] ELSE s

(* Servers that ended before the earliest day are removed from the list.    *)
Monitored(servers) ==
  {i \in DOMAIN servers : ~ (servers[i].ready < Earliest /\ Beats(servers[i]).beat < Earliest)}

Init ==
  /\ server \in [Clusters -> ServerLists]
  /\ left = [c \in Clusters |-> Monitored(server[c])]
  /\ ended = [c \in Clusters |-> [i \in DOMAIN server[c] |-> NoTime]]
  /\ begin = [c \in Clusters |-> Earliest]
  /\ periods = [c \in Clusters |-> <<>>]
  /\ complete = {}
  /\ index = [c \in Clusters |-> 1]
  /\ merged = <<>>

Ready(c, i) == server[c][i].ready
Beat(c, i)  == Beats(server[c][i]).beat

-----------------------------------------------------------------------------
(* One round of the loop of _populate_onlinestatus.                         *)
Online(c) == {i \in left[c] : Ready(c, i) <= begin[c]}
Later(c)  == left[c] \ Online(c)

EndsFirstOfList(c) == CHOOSE i \in Online(c) : \A j \in Online(c) : i <= j

(* The online server that ends first, the one of the list if several do.    *)
EndsFirst(c) ==
  CHOOSE i \in Online(c) : \A j \in Online(c) \ {i} :
    Beat(c, i) < Beat(c, j) \/ (Beat(c, i) = Beat(c, j) /\ i < j)

NextReady(c) == Ready(c, CHOOSE i \in Later(c) : \A j \in Later(c) : i <= j)

(* The period from online_begintime, unless it is empty.                   *)
Period(c, end) ==
  periods' = [periods EXCEPT ![c] =
    IF begin[c] = end THEN @
    ELSE Append(@, [from |-> begin[c], to |-> end, online |-> Online(c)])]

Gone(c, i, time) ==
  /\ left' = [left EXCEPT ![c] = @ \ {i}]
  /\ ended' = [ended EXCEPT ![c][i] = time]

(* No server is left: offline since then, if that is not now.              *)
Finish(c) ==
  /\ left[c] = {}
  /\ IF begin[c] < Now THEN Period(c, Now) ELSE UNCHANGED periods
  /\ complete' = complete \cup {c}
  /\ UNCHANGED <<server, left, ended, begin, index, merged>>

(* Nobody is online until the next server is ready.                        *)
Offline(c) ==
  /\ Online(c) = {} /\ Later(c) # {}
  /\ Period(c, NextReady(c))
  /\ begin' = [begin EXCEPT ![c] = NextReady(c)]
  /\ UNCHANGED <<server, left, ended, complete, index, merged>>

(* The first server ends before another one is ready.                      *)
Ends(c) ==
  /\ Online(c) # {}
  /\ Later(c) # {} => Beat(c, EndsFirst(c)) < NextReady(c)
  /\ Period(c, Beat(c, EndsFirst(c)))
  /\ Gone(c, EndsFirst(c), Beat(c, EndsFirst(c)))
  /\ begin' = [begin EXCEPT ![c] = Beat(c, EndsFirst(c))]
  /\ UNCHANGED <<server, complete, index, merged>>

(* Another server is ready before, and may replace the one that ends first. *)
Starts(c) ==
  LET first == EndsFirst(c)
      next == NextReady(c)
  IN /\ Online(c) # {} /\ Later(c) # {} /\ next <= Beat(c, first)
     /\ Period(c, next)
     /\ IF Beat(c, first) # Now /\ Beat(c, first) - next < Replaced
          THEN Gone(c, first, next)
          ELSE UNCHANGED <<left, ended>>
     /\ begin' = [begin EXCEPT ![c] = next]
     /\ UNCHANGED <<server, complete, index, merged>>

-----------------------------------------------------------------------------
(* auth2_onlinestatus: one period of all clusters.                          *)
Current(c) == periods[c][index[c]]

MergeFrom == IF merged = <<>> THEN Earliest ELSE merged[Len(merged)].to

Merge ==
  /\ complete = Clusters
  /\ \E c \in Clusters : index[c] <= Len(periods[c])
  /\ LET at == {c \in Clusters : Current(c).from <= MergeFrom}
         to == CHOOSE t \in {Current(c).to : c \in at} : \A c \in at : t <= Current(c).to
     IN /\ merged' = Append(merged, [from |-> MergeFrom, to |-> to,
                                     online |-> {s \in at \X (1..MaxServers) :
                                                   s[2] \in Current(s[1]).online}])
        /\ index' = [c \in Clusters |->
                       IF c \in at /\ Current(c).to = to THEN index[c] + 1 ELSE index[c]]
  /\ UNCHANGED <<server, left, ended, begin, periods, complete>>

Populate(c) ==
  /\ c \notin complete
  /\ \A d \in Clusters \ complete : c = CHOOSE e \in Clusters \ complete : TRUE
  /\ Finish(c) \/ Offline(c) \/ Ends(c) \/ Starts(c)

Next == (\E c \in Clusters : Populate(c)) \/ Merge

Spec == Init /\ [][Next]_vars

-----------------------------------------------------------------------------
(* The page is complete.                                                   *)
Done == complete = Clusters /\ \A c \in Clusters : index[c] > Len(periods[c])

(* The periods of a list are not empty and follow each other without a gap. *)
Tiles(list) ==
  /\ \A n \in DOMAIN list : list[n].from < list[n].to
  /\ list # <<>> => list[1].from = Earliest
  /\ \A n \in 1..(Len(list) - 1) : list[n].to = list[n + 1].from

(* The merge finds a period of every cluster until all of them are used:    *)
(* 'clusteronlinestatuslist[pos][indexlist[pos]]' never runs off its list.  *)
MergeInStep ==
  complete = Clusters =>
    (\A c \in Clusters : index[c] <= Len(periods[c])) \/ (\A c \in Clusters : index[c] > Len(periods[c]))

(* A server is online from its ready time until its last heartbeat, or until*)
(* another one was ready that replaced it.                                  *)
OnlineAt(c, i, t) ==
  /\ i \in Monitored(server[c])
  /\ Ready(c, i) <= t
  /\ t < IF ended[c][i] = NoTime THEN Beat(c, i) ELSE ended[c][i]

ReplacedIn(c, i) ==
  /\ Beat(c, i) # Now /\ Beat(c, i) - ended[c][i] < Replaced
  /\ \E j \in DOMAIN server[c] : j # i /\ Ready(c, j) = ended[c][i]

(* The page covers the time from the earliest day until now without gaps,   *)
(* shows in every period exactly the servers that were online in it, and    *)
(* shortens the time of a server only for one that took its place.          *)
ShowsWhoWasOnline ==
  Done =>
    /\ Tiles(merged)
    /\ merged # <<>> /\ merged[Len(merged)].to = Now
    /\ \A n \in DOMAIN merged, t \in Times :
         merged[n].from <= t /\ t < merged[n].to
           => merged[n].online = {s \in Clusters \X (1..MaxServers) :
                                    s[2] \in DOMAIN server[s[1]] /\ OnlineAt(s[1], s[2], t)}
    /\ \A c \in Clusters : \A i \in Monitored(server[c]) :
         ended[c][i] # Beat(c, i) => ReplacedIn(c, i)

TypeOK ==
  /\ \A c \in Clusters : left[c] \subseteq DOMAIN server[c] /\ begin[c] \in Times
  /\ complete \subseteq Clusters

=============================================================================
