----------------------------- MODULE Decisions -----------------------------
(***************************************************************************)
(* The sequential computations of the system, side by side: a behaviour is  *)
(* one of them, for one of its inputs.                                      *)
(***************************************************************************)
EXTENDS Naturals, Sequences, FiniteSets

CONSTANTS
  Groups, Emails, Domains, Paths, All, None,
  Hierarchies,     \* the group tables find_groups is run on
  AccessTrees,     \* the group tables find_authorizations is run on
  AuthTables,      \* with these tables of authorizations
  Letters, Others, MaxLocal, MaxEmail,
  Clusters, Now, Earliest, Alive, Replaced, MaxServers,
  FlowDomains, FlowRows, FlowRequests, SharedDomains, SharedRows, SharedRequests,
  Classes, MaxChanges,
  Day, MaxTime, Intervals, NotChecked

VARIABLES
  which,   \* the component whose behaviour this is
  forest, user, queue, found, findPc,
  tree, auths, email, domain, usergroups, checkgroup, matched, pc,
  container, contained, word, pIndex, star, cIndex, result,
  server, left, ended, begin, periods, complete, indexlist, merged,
  part, first, table, cached, memo, rowsFound, request, answer, requests,
  changes,
  interval, hours, now, nextRun, index, checked

Find == INSTANCE FindGroups WITH TreeSet <- Hierarchies,
  tree <- forest, email <- user, usergroups <- found, pc <- findPc
findVars == <<forest, user, queue, found, findPc>>

Access == INSTANCE Authorize WITH TreeSet <- AccessTrees
accessVars == <<tree, auths, email, domain, usergroups, checkgroup,
    matched, pc>>

Patterns == INSTANCE EmailPatterns
patternVars == <<container, contained, word, pIndex, star, cIndex, result>>

Online == INSTANCE OnlineStatus WITH index <- indexlist
onlineVars == <<server, left, ended, begin, periods, complete, indexlist,
    merged>>

Flow(domains, rows, askings) == INSTANCE Userflows WITH Domains <- domains, NRows <- rows,
  MaxRequests <- askings, found <- rowsFound
flowVars == <<part, first, table, cached, memo, rowsFound, request, answer,
    requests, changes>>

Schedule == INSTANCE TaskSchedule
scheduleVars == <<interval, hours, now, nextRun, index, checked>>

(* The tables hold groups and authorizations, and the characters of emails  *)
(* are not those of which patterns make a special use.                      *)
ASSUME DecisionsAssumption ==
  /\ IsFiniteSet(Groups) /\ None \notin Groups /\ All \notin Paths
  /\ Hierarchies \subseteq Find!Tree /\ AccessTrees \subseteq Access!Tree
  /\ \A t \in AuthTables : t \in Access!AuthTable
  /\ {"*", "@", "none"} \cap (Letters \cup Others) = {} /\ Letters \cap Others = {} /\ MaxLocal \in Nat /\ MaxEmail \in Nat
  /\ FlowRows \in Nat /\ SharedRows \in Nat /\ None \notin Nat /\ "css" \notin Classes
  /\ Clusters # {} /\ MaxServers \in Nat /\ Now \in Nat /\ Earliest \in Nat /\ Earliest < Now
  /\ Alive \in Nat /\ Replaced \in Nat
  /\ Day \in Nat \ {0} /\ MaxTime \in Nat /\ Intervals \subseteq Nat \ {0} /\ NotChecked \notin Nat

Components == {"groups", "access", "patterns", "online", "userflows",
    "shared userflows", "schedule"}

Init ==
  /\ which \in Components
  /\ IF which = "groups" THEN Find!Init ELSE
       /\ forest = None /\ user = None /\ queue = None /\ found = None
       /\ findPc = None
  /\ IF which = "access" THEN Access!Init ELSE
       /\ tree = None /\ auths = None /\ email = None /\ domain = None
       /\ usergroups = None /\ checkgroup = None /\ matched = None
       /\ pc = None
  /\ IF which = "patterns" THEN Patterns!Init ELSE
       /\ container = None /\ contained = None /\ word = None
       /\ pIndex = None /\ star = None /\ cIndex = None /\ result = None
  /\ IF which = "online" THEN Online!Init ELSE
       /\ server = None /\ left = None /\ ended = None /\ begin = None
       /\ periods = None /\ complete = None /\ indexlist = None
       /\ merged = None
  /\ IF which = "userflows" THEN Flow(FlowDomains, FlowRows, FlowRequests)!Init ELSE
     IF which = "shared userflows" THEN Flow(SharedDomains, SharedRows, SharedRequests)!Init ELSE
       /\ part = None /\ first = None /\ table = None /\ cached = None
       /\ memo = None /\ rowsFound = None /\ request = None /\ answer = None
       /\ requests = None /\ changes = None
  /\ IF which = "schedule" THEN Schedule!Init ELSE
       /\ interval = None /\ hours = None /\ now = None /\ nextRun = None
       /\ index = None /\ checked = None

Next ==
  \/ /\ which = "groups" /\ Find!Next
     /\ UNCHANGED <<which, accessVars, patternVars, onlineVars, flowVars,
                 scheduleVars>>
  \/ /\ which = "access" /\ Access!Next
     /\ UNCHANGED <<which, findVars, patternVars, onlineVars, flowVars,
                 scheduleVars>>
  \/ /\ which = "patterns" /\ Patterns!Next
     /\ UNCHANGED <<which, findVars, accessVars, onlineVars, flowVars,
                 scheduleVars>>
  \/ /\ which = "online" /\ Online!Next
     /\ UNCHANGED <<which, findVars, accessVars, patternVars, flowVars,
                 scheduleVars>>
  \/ /\ which = "userflows" /\ Flow(FlowDomains, FlowRows, FlowRequests)!Next
     /\ UNCHANGED <<which, findVars, accessVars, patternVars, onlineVars,
                 scheduleVars>>
  \/ /\ which = "shared userflows" /\ Flow(SharedDomains, SharedRows, SharedRequests)!Next
     /\ UNCHANGED <<which, findVars, accessVars, patternVars, onlineVars,
                 scheduleVars>>
  \/ /\ which = "schedule" /\ Schedule!Next
     /\ UNCHANGED <<which, findVars, accessVars, patternVars, onlineVars,
                 flowVars>>

unionVars == <<which, findVars, accessVars, patternVars, onlineVars,
    flowVars, scheduleVars>>

(* The loops are sequential code that nothing interrupts.                  *)
Fairness ==
  /\ WF_findVars(which = "groups" /\ Find!Next)
  /\ WF_accessVars(which = "access" /\ Access!Next)
  /\ WF_patternVars(which = "patterns" /\ Patterns!Next)
  /\ WF_onlineVars(which = "online" /\ Online!Next)

Spec == Init /\ [][Next]_unionVars /\ Fairness

-----------------------------------------------------------------------------
(***************************************************************************)
(* find_groups: an email gets the deepest groups that contain it, without   *)
(* their ancestors, whatever the order in which the rows are visited.       *)
(***************************************************************************)
ReturnsDeepestMatches ==
  which = "groups" =>
    Find!ReturnsDeepestMatches /\ Find!FoundGroupsUnrelated /\ Find!TypeOK

(* It raises only where the email belongs to groups below two roots.       *)
FailsOnlyWithTwoRoots == which = "groups" => Find!FailsOnlyWithTwoRoots

(* can_access answers as the method of the model that checks each group.   *)
AgreesWithCheckAuthorization == which = "access" => Access!AgreesWithCheckAuthorization

(* find_authorizations returns what each group inherits, unless it denies. *)
ReturnsFindAuthorizations ==
  which = "access" => Access!ReturnsFindAuthorizations /\ Access!TypeOK

(* UserGroup.clean relies on it: a pattern that is said to contain another  *)
(* one matches all of its emails, but where both have a "*" only those made *)
(* of characters a "*" stands for.                                         *)
ContainsIsSound == which = "patterns" => Patterns!ContainsIsSound /\ Patterns!TypeOK

(* The page of the online status covers the time without gaps, shows in each *)
(* period the servers that were online in it, and its merge of the clusters *)
(* never runs off the end of a list.                                       *)
ShowsWhoWasOnline ==
  which = "online" => Online!ShowsWhoWasOnline /\ Online!MergeInStep /\ Online!TypeOK

(* Whatever was asked before, a domain is shown its first customized        *)
(* userflow, with the fields of the default where that has none.           *)
AnswersAsConfigured ==
  /\ which = "userflows" =>
       /\ Flow(FlowDomains, FlowRows, FlowRequests)!AnswersAsConfigured
       /\ Flow(FlowDomains, FlowRows, FlowRequests)!TypeOK
  /\ which = "shared userflows" =>
       /\ Flow(SharedDomains, SharedRows, SharedRequests)!AnswersAsConfigured
       /\ Flow(SharedDomains, SharedRows, SharedRequests)!TypeOK

(* A task runs in the first request after each of its times.               *)
RunsInEverySlot == which = "schedule" => Schedule!RunsInEverySlot /\ Schedule!TypeOK

(***************************************************************************)
(* The loops of find_groups and find_authorizations, of contain, and of the *)
(* page of the online status end.                                          *)
(***************************************************************************)
Terminates ==
  /\ which = "groups" => Find!Terminates
  /\ which = "access" => Access!Terminates
  /\ which = "patterns" => <>(result # "open")
  /\ which = "online" => <>Online!Done

=============================================================================
