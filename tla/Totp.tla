---------------------------------- MODULE Totp ----------------------------------
(***************************************************************************)
(* The authenticator app of one email, for the policies of Azure B2C:       *)
(* '/sso/totp/generate' makes the secret and shows it, '/sso/totp/verify'   *)
(* checks a code (views.py, the table UserTOTP of models.py).               *)
(*                                                                         *)
(* A secret is named by its number; the code of a secret in a time step is  *)
(* the pair of both, so that codes are taken to be different.               *)
(***************************************************************************)
EXTENDS Integers, Sequences, FiniteSets

CONSTANTS
  Callers,       \* requests of the policy, in any worker process
  None,
  ValidWindow,   \* TOTP_VALIDWINDOW
  MaxSecrets,    \* bound: secrets generated
  MaxStep,       \* bound: time steps that pass
  MaxCalls       \* bound: requests begun

Secrets == 1..MaxSecrets
Steps   == 0..(MaxStep + ValidWindow)
Code    == [secret : Secrets, step : Steps]

Row == [secret : Secrets, last : Code \cup {None}]

VARIABLES
  totp,       \* the row of UserTOTP, or None
  call,       \* the requests in progress
  step,       \* the time step
  secrets, calls,   \* counters
  accepted,   \* history: the codes that were accepted, in their order
  qrcode,     \* history: the secret shown last
  crossed     \* history: another request wrote the row in between the read and
              \*   the write, or the answer, of one

vars == <<totp, call, step, secrets, calls, accepted, qrcode, crossed>>

Quiet == [pc |-> "idle", row |-> None, code |-> None]

Init ==
  /\ totp = None
  /\ call = [c \in Callers |-> Quiet]
  /\ step = 0
  /\ secrets = 0 /\ calls = 0
  /\ accepted = <<>>
  /\ qrcode = None
  /\ crossed = FALSE

At(c, pc) == call[c].pc = pc

Leave(c) == call' = [call EXCEPT ![c] = Quiet]

(* objects.filter(email=user_email).first()                                *)
Read(c, pc, code) ==
  /\ At(c, "idle") /\ calls < MaxCalls
  /\ calls' = calls + 1
  /\ call' = [call EXCEPT ![c] = [pc |-> pc, row |-> totp, code |-> code]]
  /\ UNCHANGED <<totp, step, secrets, accepted, qrcode, crossed>>

-----------------------------------------------------------------------------
(* Generating.  An existing secret is shown again unless the caller says    *)
(* regenerate.                                                              *)
Generate(c) == Read(c, "generate", None)

ShowExisting(c) ==
  /\ At(c, "generate") /\ call[c].row # None
  /\ call' = [call EXCEPT ![c].pc = "show"]
  /\ UNCHANGED <<totp, step, secrets, calls, accepted, qrcode, crossed>>

(* The new secret is saved: inserted, or written over the row with all its  *)
(* columns.                                                                 *)
SaveSecret(c) ==
  LET row == [secret |-> secrets + 1, last |-> None] IN
  /\ At(c, "generate") /\ secrets < MaxSecrets
  /\ call[c].row = None => totp = None
  /\ secrets' = secrets + 1
  /\ totp' = row
  /\ call' = [call EXCEPT ![c].pc = "show", ![c].row = row]
  /\ crossed' = (crossed \/ totp # call[c].row)
  /\ UNCHANGED <<step, calls, accepted, qrcode>>

(* The email is unique: one of two first requests fails.                   *)
InsertFails(c) ==
  /\ At(c, "generate") /\ call[c].row = None /\ totp # None
  /\ Leave(c)
  /\ UNCHANGED <<totp, step, secrets, calls, accepted, qrcode, crossed>>

Show(c) ==
  /\ At(c, "show")
  /\ qrcode' = call[c].row.secret
  /\ crossed' = (crossed \/ totp.secret # call[c].row.secret)
  /\ Leave(c)
  /\ UNCHANGED <<totp, step, secrets, calls, accepted>>

-----------------------------------------------------------------------------
(* Verifying.                                                               *)
Verify(c, code) == Read(c, "check", code)

(* TOTP.verify accepts the codes of the neighbouring time steps.            *)
InWindow(code) ==
  code.step \in {s \in Steps : s >= step - ValidWindow /\ s <= step + ValidWindow}

AcceptsAgain(c) ==
  /\ call[c].row # None
  /\ call[c].code.secret = call[c].row.secret
  /\ InWindow(call[c].code)

Accepts(c) ==
  /\ call[c].row # None
  /\ call[c].code # call[c].row.last
  /\ call[c].code.secret = call[c].row.secret
  /\ InWindow(call[c].code)

(* No row, the last verified code once more, or a wrong code.               *)
Reject(c) ==
  /\ At(c, "check") /\ ~ Accepts(c)
  /\ Leave(c)
  /\ UNCHANGED <<totp, step, secrets, calls, accepted, qrcode, crossed>>

Accept(c) ==
  /\ At(c, "check") /\ Accepts(c)
  /\ call' = [call EXCEPT ![c].pc = "save"]
  /\ UNCHANGED <<totp, step, secrets, calls, accepted, qrcode, crossed>>

(* save(update_fields=["last_verified", "last_verified_code"])              *)
SaveCode(c) ==
  /\ At(c, "save")
  /\ totp' = [totp EXCEPT !.last = call[c].code]
  /\ accepted' = Append(accepted, call[c].code)
  /\ crossed' = (crossed \/ totp # call[c].row)
  /\ Leave(c)
  /\ UNCHANGED <<step, secrets, calls, qrcode>>

Tick ==
  /\ step < MaxStep
  /\ step' = step + 1
  /\ UNCHANGED <<totp, call, secrets, calls, accepted, qrcode, crossed>>

Next ==
  \/ Tick
  \/ \E c \in Callers :
       \/ Generate(c) \/ ShowExisting(c) \/ SaveSecret(c) \/ InsertFails(c) \/ Show(c)
       \/ \E code \in Code : Verify(c, code)
       \/ Reject(c) \/ Accept(c) \/ SaveCode(c)

Spec == Init /\ [][Next]_vars

-----------------------------------------------------------------------------
TypeOK ==
  /\ totp \in Row \cup {None}
  /\ \A c \in Callers : call[c].row \in Row \cup {None}
  /\ accepted \in Seq(Code)

(* A code is accepted again only if another one was accepted in between:    *)
(* the row remembers the last code alone, although more than one is valid   *)
(* at a time.  Two requests that verify at the same time are the exception, *)
(* as the row is read when a request starts and written when it ends.       *)
CodeNotRepeated ==
  crossed \/ \A i \in 1..(Len(accepted) - 1) : accepted[i] # accepted[i + 1]

(* The secret that was shown last is the one codes are checked with, unless *)
(* two requests generated at the same time.                                 *)
ShownSecretWorks ==
  qrcode # None /\ ~ crossed /\ (\A c \in Callers : At(c, "idle")) => totp.secret = qrcode

=============================================================================
