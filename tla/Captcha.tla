-------------------------------- MODULE Captcha --------------------------------
(***************************************************************************)
(* Access by captcha ('/sso/auth_captcha', '/sso/auth_and_captcha' and the  *)
(* page '/sso/check_captcha'): a session that solved a captcha may make     *)
(* some requests to the path the captcha was asked for (views.py).  The     *)
(* captcha's picture or sound is a file that a subprocess writes into the   *)
(* directory of the hour (captchautil.py).                                  *)
(*                                                                         *)
(* One session and one path.  A request works on the session it loaded when *)
(* it started and saves all of it when it answers.  A captcha is named by   *)
(* its number, which stands for its code and its file.                      *)
(***************************************************************************)
EXTENDS Integers, FiniteSets

CONSTANTS
  Visitors,
  None,
  Allowed,       \* values of the header x-allowed-requests-after-captcha
  MaxCaptchas,   \* bound: captchas drawn
  MaxHours,      \* bound: hours that pass
  MaxVisits      \* bound: requests begun

Captchas  == 1..MaxCaptchas
NoCaptcha == 0
Hours     == 1..(MaxHours + 1)

(* The keys "captcha_", "captchacode_" and "captchafile_" of the session.   *)
Entry == [val  : Int \cup {None},
          code : Captchas \cup {NoCaptcha},
          file : Captchas \cup {NoCaptcha}]

VARIABLES
  entry,       \* the session in Redis
  visit,       \* the requests in progress
  dirs,        \* directories of captchas, by their hour
  disk,        \* files of captchas
  born,        \* the directory of each file
  hour,
  drawn, visits,           \* counters
  passes,      \* history: requests let through
  solved,      \* history: captchas solved
  overwrites,  \* history: saves of a session that had changed since loaded
  failed,      \* history: captchas that could not be drawn
  hasty        \* history: directories removed that were not expired

files   == <<dirs, disk, born>>
counts  == <<drawn, visits>>
history == <<passes, solved, overwrites, failed, hasty>>
vars    == <<entry, visit, files, hour, counts, history>>

NoEntry == [val |-> None, code |-> NoCaptcha, file |-> NoCaptcha]

Away == [pc |-> "idle", data |-> NoEntry, was |-> NoEntry, hour |-> 1, pass |-> FALSE]

Init ==
  /\ entry = NoEntry
  /\ visit = [v \in Visitors |-> Away]
  /\ dirs = {} /\ disk = {}
  /\ born = [c \in Captchas |-> 1]
  /\ hour = 1
  /\ drawn = 0 /\ visits = 0
  /\ passes = 0 /\ solved = {} /\ overwrites = 0 /\ failed = 0 /\ hasty = 0

At(v, pc) == visit[v].pc = pc

With(v, pc, data) == visit' = [visit EXCEPT ![v].pc = pc, ![v].data = data]

(* An answer that does not save the session.                               *)
Leave(v) == visit' = [visit EXCEPT ![v] = Away]

-----------------------------------------------------------------------------
Begin(v) ==
  /\ At(v, "idle") /\ visits < MaxVisits
  /\ visits' = visits + 1
  /\ visit' = [visit EXCEPT ![v] = [Away EXCEPT !.pc = "view", !.data = entry, !.was = entry]]
  /\ UNCHANGED <<entry, files, hour, drawn, history>>

(* The path is denied to the user, or asks for a captcha that is pending.   *)
Refuse(v) ==
  /\ At(v, "view")
  /\ Leave(v)
  /\ UNCHANGED <<entry, files, hour, counts, history>>

(* A captcha is required: the page may be asked for from now on.            *)
Require(v, allowed) ==
  LET val == visit[v].data.val IN
  /\ At(v, "view")
  /\ val # None => val < 0 /\ val # -allowed
  /\ With(v, "respond", [visit[v].data EXCEPT !.val = -allowed])
  /\ UNCHANGED <<entry, files, hour, counts, history>>

PassKeepsLast(v) ==
  LET val == visit[v].data.val IN
  /\ At(v, "view") /\ val # None /\ val > 0
  /\ visit' = [visit EXCEPT ![v].pc = "respond", ![v].pass = TRUE,
                            ![v].data.val = IF val = 1 THEN val ELSE val - 1]
  /\ UNCHANGED <<entry, files, hour, counts, history>>

Pass(v) ==
  LET val == visit[v].data.val IN
  /\ At(v, "view") /\ val # None /\ val > 0
  /\ visit' = [visit EXCEPT ![v].pc = "respond", ![v].pass = TRUE,
                            ![v].data.val = IF val = 1 THEN None ELSE val - 1]
  /\ UNCHANGED <<entry, files, hour, counts, history>>

-----------------------------------------------------------------------------
(* The page.  It redirects to the path unless a captcha is required.        *)
Asked(v) == visit[v].data.val # None /\ visit[v].data.val < 0

Without(f) == IF f = NoCaptcha THEN disk ELSE disk \ {f}

RedrawKeepsFile(v) ==
  /\ At(v, "view") /\ Asked(v)
  /\ disk' = disk
  /\ visit' = [visit EXCEPT ![v].pc = "draw", ![v].hour = hour]
  /\ UNCHANGED <<entry, dirs, born, hour, counts, history>>

(* GET, the action refresh, and a code that is checked after it was used:   *)
(* the old file is removed and a new captcha is drawn.                      *)
Redraw(v) ==
  /\ At(v, "view") /\ Asked(v)
  /\ disk' = Without(visit[v].data.file)
  /\ visit' = [visit EXCEPT ![v].pc = "draw", ![v].hour = hour]
  /\ UNCHANGED <<entry, dirs, born, hour, counts, history>>

CheckWrong(v) ==
  /\ At(v, "view") /\ Asked(v) /\ visit[v].data.code # NoCaptcha
  /\ Leave(v)
  /\ UNCHANGED <<entry, files, hour, counts, history>>

CheckRight(v) ==
  LET d == visit[v].data IN
  /\ At(v, "view") /\ Asked(v) /\ d.code # NoCaptcha
  /\ solved' = solved \cup {d.code}
  /\ disk' = Without(d.file)
  /\ With(v, "respond", [val |-> -d.val, code |-> NoCaptcha, file |-> NoCaptcha])
  /\ UNCHANGED <<entry, dirs, born, hour, counts, passes, overwrites, failed, hasty>>

(* create_captcha in its subprocess: the first one of an hour removes the   *)
(* directories other than that of the hour before, and makes its own.       *)
FindDir(v) ==
  /\ At(v, "draw")
  /\ With(v, IF visit[v].hour \in dirs THEN "write" ELSE "sweep", visit[v].data)
  /\ UNCHANGED <<entry, files, hour, counts, history>>

Sweep(v) ==
  LET kept == dirs \cap {visit[v].hour - 1} IN
  /\ At(v, "sweep")
  /\ dirs' = kept
  /\ disk' = {f \in disk : born[f] \in kept}
  /\ hasty' = hasty + Cardinality({d \in dirs : d >= visit[v].hour})
  /\ With(v, "mkdir", visit[v].data)
  /\ UNCHANGED <<entry, born, hour, counts, passes, solved, overwrites, failed>>

MakeDir(v) ==
  /\ At(v, "mkdir") /\ visit[v].hour \notin dirs
  /\ dirs' = dirs \cup {visit[v].hour}
  /\ With(v, "write", visit[v].data)
  /\ UNCHANGED <<entry, disk, born, hour, counts, history>>

Write(v) ==
  LET c == drawn + 1 IN
  /\ At(v, "write") /\ visit[v].hour \in dirs /\ drawn < MaxCaptchas
  /\ drawn' = c
  /\ disk' = disk \cup {c}
  /\ born' = [born EXCEPT ![c] = visit[v].hour]
  /\ With(v, "respond", [visit[v].data EXCEPT !.code = c, !.file = c])
  /\ UNCHANGED <<entry, dirs, hour, visits, history>>

(* mkdir of a directory that exists now, or a file in one that is gone.     *)
DrawFails(v) ==
  /\ \/ At(v, "mkdir") /\ visit[v].hour \in dirs
     \/ At(v, "write") /\ visit[v].hour \notin dirs
  /\ failed' = failed + 1
  /\ Leave(v)
  /\ UNCHANGED <<entry, files, hour, counts, passes, solved, overwrites, hasty>>

-----------------------------------------------------------------------------
Respond(v) ==
  /\ At(v, "respond")
  /\ entry' = visit[v].data
  /\ overwrites' = IF entry = visit[v].was THEN overwrites ELSE overwrites + 1
  /\ passes' = IF visit[v].pass THEN passes + 1 ELSE passes
  /\ Leave(v)
  /\ UNCHANGED <<files, hour, counts, solved, failed, hasty>>

Tick ==
  /\ hour < MaxHours
  /\ hour' = hour + 1
  /\ UNCHANGED <<entry, visit, files, counts, history>>

Next ==
  \/ Tick
  \/ \E v \in Visitors :
       \/ Begin(v) \/ Refuse(v) \/ (\E a \in Allowed : Require(v, a)) \/ Pass(v)
       \/ Redraw(v) \/ CheckWrong(v) \/ CheckRight(v)
       \/ FindDir(v) \/ Sweep(v) \/ MakeDir(v) \/ Write(v) \/ DrawFails(v)
       \/ Respond(v)

Spec == Init /\ [][Next]_vars

-----------------------------------------------------------------------------
(* Every variable has its type, and the session has a file exactly when it  *)
(* has a code: 'del request.session[filekey]' finds its key.                *)
TypeOK ==
  /\ entry \in Entry
  /\ \A v \in Visitors : visit[v].data \in Entry
  /\ \A v \in Visitors : visit[v].data.code = visit[v].data.file
  /\ dirs \subseteq Hours /\ disk \subseteq Captchas
  /\ \A f \in disk : born[f] \in dirs

MaxAllowed == CHOOSE a \in Allowed : \A b \in Allowed : b <= a

(* A solved captcha lets through as many requests as the header said, and   *)
(* at most that many more for each save that wrote over a session another   *)
(* request had changed: what is left of the allowance is in the session.    *)
PassesLimited == passes <= MaxAllowed * (Cardinality(solved) + overwrites)

Quiet == /\ \A v \in Visitors : At(v, "idle")
         /\ overwrites = 0 /\ failed = 0 /\ hasty = 0

(* Between requests the captcha the session names has its file, unless the  *)
(* file is older than the hour before, and no file is left that no session  *)
(* names.  Overlapping requests of the session, and two subprocesses that   *)
(* both find no directory of the hour, are what can break this.             *)
FileOfSession ==
  Quiet => /\ disk \subseteq {entry.file}
           /\ entry.file \notin disk \cup {NoCaptcha} => born[entry.file] + 1 < hour

=============================================================================
