-------------------------- MODULE CredentialsProofs --------------------------
(***************************************************************************)
(* Proofs about the behaviours MCCredentials puts together, each a          *)
(* component that proves who a caller is, for any of its constants.         *)
(***************************************************************************)
EXTENDS MCCredentials, Sequences, FiniteSetTheorems, TLAPS

(* A component's steps are those of the behaviours that are its own.        *)
LEMMA StepOfTotp ==
  ASSUME [UnionNext]_unionVars, which' = "totp"
  PROVE  which = "totp" /\ (Otp!Next \/ UNCHANGED totpVars)
BY DEF UnionNext, unionVars

-----------------------------------------------------------------------------
(***************************************************************************)
(* TOTP.  As long as no request wrote the row in between the read and the   *)
(* write of another, the row remembers the code accepted last, or has a     *)
(* secret that is younger than that code; and the secret shown last is in   *)
(* the row, unless a new one is about to be shown.                          *)
(***************************************************************************)
OtpCall == [pc : {"idle", "generate", "show", "check", "save"},
            row : Otp!Row \cup {None}, code : Otp!Code \cup {None}]

OtpCallOK(q) ==
  /\ q.pc \in {"show", "save"} => q.row # None
  /\ q.pc = "save" => q.code # None /\ q.code # q.row.last /\ q.code.secret = q.row.secret
  /\ q.pc = "check" => q.code # None

OtpShapes ==
  /\ secrets \in 0..MaxSecrets
  /\ totp \in Otp!Row \cup {None}
  /\ totpCall \in [Callers -> OtpCall]
  /\ accepted \in Seq(Otp!Code)
  /\ qrcode \in Otp!Secrets \cup {None}
  /\ crossed \in BOOLEAN

OtpRows ==
  /\ totp # None => totp.secret <= secrets
  /\ \A c \in Callers : OtpCallOK(totpCall[c])
  /\ \A c \in Callers : totpCall[c].row # None =>
       totp # None /\ totpCall[c].row.secret <= secrets
  /\ \A i \in 1..Len(accepted) : accepted[i].secret <= secrets

RemembersLast ==
  ~crossed /\ accepted # <<>> =>
    /\ totp # None
    /\ \/ totp.last = accepted[Len(accepted)]
       \/ totp.last = None /\ accepted[Len(accepted)].secret < totp.secret

ShowsRow ==
  ~crossed /\ qrcode # None =>
    /\ totp # None
    /\ \/ totp.secret = qrcode
       \/ \E c \in Callers : totpCall[c].pc = "show" /\ totpCall[c].row.secret = totp.secret

NotRepeated ==
  ~crossed => \A i \in 1..(Len(accepted) - 1) : accepted[i] # accepted[i + 1]

OtpInv == OtpShapes /\ OtpRows /\ RemembersLast /\ ShowsRow /\ NotRepeated

LEMMA OtpInit ==
  ASSUME Otp!Init PROVE OtpInv
<1>1. Otp!Quiet \in OtpCall /\ 0 \in 0..MaxSecrets /\ <<>> \in Seq(Otp!Code)
  BY CredentialsAssumption DEF OtpCall, Otp!Quiet
<1>3. OtpShapes
  BY <1>1 DEF Otp!Init, OtpShapes
<1>2. OtpRows /\ RemembersLast /\ ShowsRow /\ NotRepeated
  BY DEF Otp!Init, OtpRows, RemembersLast, ShowsRow, NotRepeated, OtpCallOK, Otp!Quiet
<1>. QED
  BY <1>2, <1>3 DEF OtpInv

(* A step of one caller that only changes its own record.                   *)
LEMMA OtpQuiet ==
  ASSUME OtpInv, NEW c \in Callers, NEW q \in OtpCall, OtpCallOK(q),
         q.row # None => totp # None /\ q.row.secret <= secrets,
         totpCall' = [totpCall EXCEPT ![c] = q],
         totpCall[c].pc # "show",
         UNCHANGED <<totp, secrets, accepted, qrcode, crossed>>
  PROVE  OtpInv'
<1>1. OtpShapes'
  BY DEF OtpInv, OtpShapes
<1>2. \A d \in Callers : totpCall'[d] = IF d = c THEN q ELSE totpCall[d]
  BY DEF OtpInv, OtpShapes
<1>3. OtpRows'
  BY <1>2 DEF OtpInv, OtpRows, OtpCallOK
<1>4. ShowsRow'
  BY <1>2 DEF OtpInv, ShowsRow
<1>5. RemembersLast' /\ NotRepeated'
  BY DEF OtpInv, RemembersLast, NotRepeated
<1>. QED
  BY <1>1, <1>3, <1>4, <1>5 DEF OtpInv

LEMMA OtpReads ==
  ASSUME OtpInv, NEW c \in Callers,
         \/ Otp!Generate(c) \/ Otp!ShowExisting(c) \/ Otp!InsertFails(c)
         \/ (\E code \in Otp!Code : Otp!Verify(c, code)) \/ Otp!Reject(c) \/ Otp!Accept(c)
  PROVE  OtpInv'
<1>0. /\ totpCall[c] \in OtpCall /\ totp \in Otp!Row \cup {None} /\ OtpCallOK(totpCall[c])
      /\ totpCall[c].row # None => totp # None /\ totpCall[c].row.secret <= secrets
      /\ totp # None => totp.secret <= secrets
      /\ \A code \in Otp!Code : code # None
  BY CredentialsAssumption DEF OtpInv, OtpShapes, OtpRows
<1>1. CASE Otp!Generate(c) \/ \E code \in Otp!Code : Otp!Verify(c, code)
  <2>1. PICK pc \in {"generate", "check"}, code \in Otp!Code \cup {None} :
          Otp!Read(c, pc, code) /\ (pc = "check" => code # None)
    BY <1>0, <1>1 DEF Otp!Generate, Otp!Verify
  <2> DEFINE q == [pc |-> pc, row |-> totp, code |-> code]
  <2>2. q \in OtpCall /\ OtpCallOK(q)
    BY <1>0, <2>1 DEF OtpCall, OtpCallOK
  <2>3. /\ totpCall' = [totpCall EXCEPT ![c] = q] /\ totpCall[c].pc = "idle"
        /\ UNCHANGED <<totp, secrets, accepted, qrcode, crossed>>
    BY <2>1 DEF Otp!Read, Otp!At
  <2>. QED
    BY <1>0, <2>2, <2>3, OtpQuiet
<1>2. CASE Otp!InsertFails(c) \/ Otp!Reject(c)
  <2>1. Otp!Quiet \in OtpCall /\ OtpCallOK(Otp!Quiet) /\ Otp!Quiet.row = None
    BY DEF OtpCall, OtpCallOK, Otp!Quiet
  <2>2. /\ totpCall' = [totpCall EXCEPT ![c] = Otp!Quiet] /\ totpCall[c].pc # "show"
        /\ UNCHANGED <<totp, secrets, accepted, qrcode, crossed>>
    BY <1>2 DEF Otp!InsertFails, Otp!Reject, Otp!Leave, Otp!At
  <2>. QED
    BY <2>1, <2>2, OtpQuiet
<1>3. CASE Otp!ShowExisting(c)
  <2> DEFINE q == [totpCall[c] EXCEPT !.pc = "show"]
  <2>1. q \in OtpCall /\ OtpCallOK(q) /\ q.row = totpCall[c].row
    BY <1>0, <1>3 DEF OtpCall, OtpCallOK, Otp!ShowExisting
  <2>2. /\ totpCall' = [totpCall EXCEPT ![c] = q] /\ totpCall[c].pc # "show"
        /\ UNCHANGED <<totp, secrets, accepted, qrcode, crossed>>
    BY <1>3 DEF Otp!ShowExisting, Otp!At
  <2>. QED
    BY <1>0, <2>1, <2>2, OtpQuiet
<1>4. CASE Otp!Accept(c)
  <2> DEFINE q == [totpCall[c] EXCEPT !.pc = "save"]
  <2>1. q \in OtpCall /\ OtpCallOK(q) /\ q.row = totpCall[c].row
    BY <1>0, <1>4 DEF OtpCall, OtpCallOK, Otp!Accept, Otp!Accepts, Otp!At
  <2>2. /\ totpCall' = [totpCall EXCEPT ![c] = q] /\ totpCall[c].pc # "show"
        /\ UNCHANGED <<totp, secrets, accepted, qrcode, crossed>>
    BY <1>4 DEF Otp!Accept, Otp!At
  <2>. QED
    BY <1>0, <2>1, <2>2, OtpQuiet
<1>. QED
  BY <1>1, <1>2, <1>3, <1>4

LEMMA OtpSaveSecret ==
  ASSUME OtpInv, NEW c \in Callers, Otp!SaveSecret(c)
  PROVE  OtpInv'
<1> DEFINE new == [secret |-> secrets + 1, last |-> None]
           q   == [totpCall[c] EXCEPT !.pc = "show", !.row = new]
<1>0. /\ OtpShapes /\ OtpRows /\ RemembersLast /\ ShowsRow /\ NotRepeated
      /\ totpCall[c] \in OtpCall /\ secrets \in Nat
  BY DEF OtpInv, OtpShapes
<1>1. new \in Otp!Row /\ new # None /\ new.secret = secrets + 1 /\ new.last = None
  BY <1>0, CredentialsAssumption DEF Otp!SaveSecret, Otp!Row, Otp!Secrets
<1>2. /\ totpCall' = [totpCall EXCEPT ![c] = q] /\ totp' = new /\ secrets' = secrets + 1
      /\ secrets < MaxSecrets /\ UNCHANGED <<accepted, qrcode>>
      /\ crossed' = (crossed \/ totp # totpCall[c].row)
  BY DEF Otp!SaveSecret
<1> HIDE DEF new
<1>3. q \in OtpCall /\ q.pc = "show" /\ q.row = new
  BY <1>0, <1>1 DEF OtpCall
<1> HIDE DEF q
<1>4. \A d \in Callers : totpCall'[d] = IF d = c THEN q ELSE totpCall[d]
  BY <1>0, <1>2 DEF OtpShapes
<1>5. OtpShapes'
  BY <1>0, <1>1, <1>2, <1>3, CredentialsAssumption DEF OtpShapes
<1>9. \A i \in 1..Len(accepted) : accepted[i] \in Otp!Code
  BY <1>0 DEF OtpShapes
<1>10. \A i \in 1..Len(accepted) : accepted[i].secret \in Nat
  BY <1>9 DEF Otp!Code, Otp!Secrets
<1>6. OtpRows'
  <2>1. \A d \in Callers : OtpCallOK(totpCall'[d])
    BY <1>0, <1>1, <1>3, <1>4 DEF OtpRows, OtpCallOK
  <2>2. \A d \in Callers : totpCall[d].row # None => totpCall[d].row.secret \in Nat
    BY <1>0 DEF OtpShapes, OtpCall, Otp!Row, Otp!Secrets
  <2>3. \A d \in Callers : totpCall'[d].row # None =>
          totp' # None /\ totpCall'[d].row.secret <= secrets'
    BY <1>0, <1>1, <1>2, <1>3, <1>4, <2>2 DEF OtpRows
  <2>5. \A i \in 1..Len(accepted) : accepted[i].secret <= secrets'
    BY <1>0, <1>2, <1>10 DEF OtpRows
  <2>. QED
    BY <1>0, <1>1, <1>2, <2>1, <2>3, <2>5 DEF OtpRows, OtpCallOK
<1>7. RemembersLast'
  <2>1. accepted # <<>> => Len(accepted) \in 1..Len(accepted)
    BY <1>0 DEF OtpShapes
  <2>. QED
    BY <1>0, <1>1, <1>2, <1>10, <2>1 DEF OtpRows, RemembersLast
<1>8. ShowsRow' /\ NotRepeated'
  BY <1>0, <1>1, <1>2, <1>3, <1>4 DEF ShowsRow, NotRepeated
<1>. QED
  BY <1>5, <1>6, <1>7, <1>8 DEF OtpInv

LEMMA OtpShow ==
  ASSUME OtpInv, NEW c \in Callers, Otp!Show(c)
  PROVE  OtpInv'
<1>0. /\ OtpShapes /\ OtpRows /\ RemembersLast /\ ShowsRow /\ NotRepeated
      /\ totpCall[c] \in OtpCall /\ OtpCallOK(totpCall[c])
  BY DEF OtpInv, OtpShapes, OtpRows
<1>1. Otp!Quiet \in OtpCall /\ OtpCallOK(Otp!Quiet) /\ Otp!Quiet.row = None
  BY DEF OtpCall, OtpCallOK, Otp!Quiet
<1>2. /\ totpCall' = [totpCall EXCEPT ![c] = Otp!Quiet] /\ totpCall[c].row # None
      /\ UNCHANGED <<totp, secrets, accepted>> /\ qrcode' = totpCall[c].row.secret
      /\ crossed' = (crossed \/ totp.secret # totpCall[c].row.secret)
  BY <1>0 DEF Otp!Show, Otp!Leave, Otp!At, OtpCallOK
<1>3. \A d \in Callers : totpCall'[d] = IF d = c THEN Otp!Quiet ELSE totpCall[d]
  BY <1>0, <1>2 DEF OtpShapes
<1>4. OtpShapes'
  BY <1>0, <1>1, <1>2 DEF OtpShapes, OtpCall, Otp!Row
<1>5. OtpRows'
  BY <1>0, <1>1, <1>2, <1>3 DEF OtpRows, OtpCallOK
<1>6. RemembersLast' /\ NotRepeated'
  BY <1>0, <1>2 DEF RemembersLast, NotRepeated
<1>7. ShowsRow'
  BY <1>0, <1>2 DEF ShowsRow, OtpRows
<1>. QED
  BY <1>4, <1>5, <1>6, <1>7 DEF OtpInv

LEMMA OtpSaveCode ==
  ASSUME OtpInv, NEW c \in Callers, Otp!SaveCode(c)
  PROVE  OtpInv'
<1> DEFINE code == totpCall[c].code
           read == totpCall[c].row
           n    == Len(accepted)
<1>0. /\ OtpShapes /\ OtpRows /\ RemembersLast /\ ShowsRow /\ NotRepeated
      /\ totpCall[c] \in OtpCall /\ OtpCallOK(totpCall[c]) /\ totpCall[c].pc = "save"
      /\ secrets \in Nat /\ n \in Nat
  BY DEF OtpInv, OtpShapes, OtpRows, Otp!SaveCode, Otp!At
<1>1. Otp!Quiet \in OtpCall /\ OtpCallOK(Otp!Quiet) /\ Otp!Quiet.row = None
  BY DEF OtpCall, OtpCallOK, Otp!Quiet
<1>2. /\ totpCall' = [totpCall EXCEPT ![c] = Otp!Quiet]
      /\ totp' = [totp EXCEPT !.last = code] /\ accepted' = Append(accepted, code)
      /\ crossed' = (crossed \/ totp # read) /\ UNCHANGED <<secrets, qrcode>>
  BY DEF Otp!SaveCode, Otp!Leave
<1>3. /\ read \in Otp!Row /\ code \in Otp!Code /\ totp \in Otp!Row /\ totp # None
      /\ code # read.last /\ code.secret = read.secret /\ read.secret <= secrets
  BY <1>0 DEF OtpShapes, OtpRows, OtpCallOK, OtpCall
<1>4. totp' \in Otp!Row /\ totp' # None /\ totp'.secret = totp.secret /\ totp'.last = code
  BY <1>2, <1>3, CredentialsAssumption DEF Otp!Row
<1>5. \A d \in Callers : totpCall'[d] = IF d = c THEN Otp!Quiet ELSE totpCall[d]
  BY <1>0, <1>2 DEF OtpShapes
<1> HIDE DEF code, read
<1>6. /\ accepted' \in Seq(Otp!Code) /\ Len(accepted') = n + 1 /\ accepted'[n + 1] = code
      /\ \A i \in 1..n : accepted'[i] = accepted[i]
  BY <1>0, <1>2, <1>3 DEF OtpShapes
<1>7. OtpShapes'
  BY <1>0, <1>1, <1>2, <1>4, <1>6 DEF OtpShapes
<1>8. OtpRows'
  <2>1. \A i \in 1..(n + 1) : accepted'[i].secret <= secrets
    BY <1>0, <1>3, <1>6 DEF OtpRows
  <2>. QED
    BY <1>0, <1>1, <1>2, <1>3, <1>4, <1>5, <1>6, <2>1 DEF OtpRows
<1>9. RemembersLast'
  BY <1>0, <1>4, <1>6 DEF RemembersLast
<1>10. ShowsRow'
  <2>1. \A d \in Callers : totpCall[d].pc = "show" => totpCall'[d] = totpCall[d]
    BY <1>0, <1>5
  <2>. QED
    BY <1>0, <1>2, <1>4, <2>1 DEF ShowsRow
<1>11. NotRepeated'
  <2>1. SUFFICES ASSUME ~crossed' PROVE \A i \in 1..n : accepted'[i] # accepted'[i + 1]
    BY <1>6 DEF NotRepeated
  <2>2. ~crossed /\ totp = read
    BY <1>2, <2>1
  <2>3. n # 0 => accepted[n] # code
    <3>1. SUFFICES ASSUME n # 0 PROVE accepted[n] # code
      OBVIOUS
    <3>2. accepted # <<>>
      BY <3>1
    <3>3. CASE totp.last = accepted[n]
      BY <1>3, <2>2, <3>3
    <3>4. CASE accepted[n].secret < totp.secret
      <4>1. totp.secret \in Nat
        BY <1>3 DEF Otp!Row, Otp!Secrets
      <4>. QED
        BY <1>3, <2>2, <3>4, <4>1
    <3>. QED
      BY <1>0, <2>2, <3>2, <3>3, <3>4 DEF RemembersLast
  <2>4. \A i \in 1..(n - 1) : accepted'[i] # accepted'[i + 1]
    BY <1>0, <1>6, <2>2 DEF NotRepeated
  <2>. QED
    BY <1>0, <1>6, <2>3, <2>4
<1>. QED
  BY <1>7, <1>8, <1>9, <1>10, <1>11 DEF OtpInv

LEMMA OtpNext ==
  ASSUME OtpInv, Otp!Next \/ UNCHANGED totpVars
  PROVE  OtpInv'
<1>1. CASE Otp!Tick \/ UNCHANGED totpVars
  BY <1>1 DEF Otp!Tick, totpVars, OtpInv, OtpShapes, OtpRows, OtpCallOK, RemembersLast, ShowsRow,
     NotRepeated
<1>. QED
  BY <1>1, OtpReads, OtpSaveSecret, OtpShow, OtpSaveCode DEF Otp!Next

(***************************************************************************)
(* verify_totp does not accept a code twice in a row, and verifies with the *)
(* secret generate_totp showed last, unless two requests of the same email  *)
(* wrote the row in between each other's read and write.                    *)
(***************************************************************************)
THEOREM CodesNotRepeated == UnionSpec => []TotpSound
<1> DEFINE Inv == which = "totp" => OtpInv
<1>1. UnionInit => Inv
  BY OtpInit DEF UnionInit
<1>2. Inv /\ [UnionNext]_unionVars => Inv'
  BY StepOfTotp, OtpNext
<1>3. Inv => TotpSound
  <2>1. OtpInv => Otp!CodeNotRepeated
    BY DEF OtpInv, NotRepeated, Otp!CodeNotRepeated
  <2>2. OtpInv => Otp!ShownSecretWorks
    BY DEF OtpInv, ShowsRow, Otp!ShownSecretWorks, Otp!At
  <2>3. OtpInv => Otp!TypeOK
    BY DEF OtpInv, OtpShapes, Otp!TypeOK, OtpCall
  <2>. QED
    BY <2>1, <2>2, <2>3 DEF TotpSound
<1>. QED
  BY <1>1, <1>2, <1>3, PTL DEF UnionSpec

-----------------------------------------------------------------------------
(***************************************************************************)
(* User tokens.  A request whose token was never valid while it was in      *)
(* progress, in the row or in what an open transaction has written, holds   *)
(* no row with it; what the cache of its cluster holds can only be such a   *)
(* row if an instance was cached late.  Whatever is answered from a         *)
(* worker's map was generated.  One transaction is open at a time, and what *)
(* it writes has the token of the row, none, or the one generated last.     *)
(***************************************************************************)
LEMMA StepOfToken ==
  ASSUME [UnionNext]_unionVars, which' = "token"
  PROVE  which = "token" /\ (Token!Next \/ UNCHANGED tokenVars)
BY DEF UnionNext, unionVars

LoginPCs == {"idle", "user", "token", "cache", "again", "tokenAgain", "cacheAgain", "decide", "admit"}

TokenLogin == [pc : LoginPCs, token : Token!Tokens \cup {0},
               row : Token!UserToken \cup {None}, genuine : BOOLEAN]

TokenEdit == [pc : {"idle", "write", "postGet", "postSet", "notify", "commit"}, kind : Token!Kinds,
              row : Token!UserToken \cup {None}, new : Token!UserToken \cup {None}]

EditOK(e, ut) ==
  /\ e.pc \in {"postGet", "postSet", "notify", "commit"} <=> e.new # None
  /\ e.row # None \/ e.new # None => ut # None

TokenShapes ==
  /\ system \in BOOLEAN /\ perRequest \in BOOLEAN /\ tokenLate \in BOOLEAN
  /\ usertoken \in Token!UserToken \cup {None}
  /\ tokencache \in [TokenClusters -> Token!UserToken \cup {None}]
  /\ authmap \in [Token!Processes -> Token!Tokens \cup {None}]
  /\ login \in [Token!Processes -> TokenLogin]
  /\ edit \in [TokenClusters -> TokenEdit]
  /\ \A c \in TokenClusters : EditOK(edit[c], usertoken)
  /\ \A c, d \in TokenClusters : edit[c].new # None /\ edit[d].new # None => c = d
  /\ tokens \in Token!Tokens
  /\ intruders \subseteq Token!Tokens /\ revoked \subseteq Token!Tokens

(* The tokens of the rows were generated and are not the revoked ones.      *)
TokenRows ==
  /\ \A t \in revoked : t <= tokens
  /\ \A ut \in Token!Rows \ {None} : ut.token <= tokens /\ ut.token \notin revoked

(* The second look at a system user's token may go to an outdated cache.    *)
LoginOK(q, rows, cache, isLate) ==
  LET misled == system /\ isLate IN
  /\ q.pc # "idle" => \A ut \in rows : Token!Valid(ut, q.token) => q.genuine
  /\ q.pc \in {"again", "tokenAgain", "cacheAgain"} => system
  /\ q.pc = "again" /\ Token!Valid(cache, q.token) => q.genuine \/ isLate
  /\ q.pc \in {"cache", "cacheAgain", "decide"} /\ Token!Valid(q.row, q.token) => q.genuine \/ misled
  /\ q.pc = "admit" => q.token # 0 /\ (perRequest => q.genuine \/ misled)

LoginsOK ==
  \A w \in Token!Processes : LoginOK(login[w], Token!Rows, tokencache[Token!Home(w)], tokenLate)

TokenInv ==
  /\ TokenShapes /\ TokenRows /\ LoginsOK
  /\ intruders # {} => ~perRequest \/ (system /\ tokenLate)

LEMMA HomeOf ==
  ASSUME NEW w \in Token!Processes PROVE Token!Home(w) \in TokenClusters
BY CredentialsAssumption DEF Token!Processes, Token!Home

LEMMA TokenInit ==
  ASSUME Token!Init PROVE TokenInv
<1>1. 1 \in Token!Tokens
  BY CredentialsAssumption DEF Token!Tokens
<1>2. /\ Token!NoLogin \in TokenLogin /\ Token!NoLogin.pc = "idle"
      /\ Token!NoEdit \in TokenEdit /\ Token!NoEdit.row = None
      /\ Token!NoEdit.new = None /\ Token!NoEdit.pc = "idle"
  BY DEF Token!NoLogin, Token!NoEdit, TokenLogin, TokenEdit, Token!Kinds, Token!NoToken, LoginPCs
<1>3. usertoken \in Token!UserToken \cup {None} /\ (usertoken # None => usertoken.token \in {0, 1})
  <2>1. /\ [enabled |-> FALSE, token |-> Token!NoToken] \in Token!UserToken
        /\ [enabled |-> TRUE, token |-> 1] \in Token!UserToken
    BY <1>1 DEF Token!UserToken
  <2>2. usertoken \in {None, [enabled |-> FALSE, token |-> 0], [enabled |-> TRUE, token |-> 1]}
    BY DEF Token!Init, Token!NoToken
  <2>3. /\ [enabled |-> FALSE, token |-> 0].token = 0
        /\ [enabled |-> TRUE, token |-> 1].token = 1
    OBVIOUS
  <2>. QED
    BY <2>1, <2>2, <2>3 DEF Token!NoToken
<1>4. TokenShapes
  BY <1>1, <1>2, <1>3 DEF Token!Init, TokenShapes, EditOK
<1>5. LoginsOK
  BY <1>2 DEF Token!Init, LoginOK, LoginsOK
<1>6. TokenRows
  <2>1. \A ut \in Token!Rows \ {None} : ut = usertoken
    BY <1>2 DEF Token!Rows, Token!Init
  <2>. QED
    BY <1>3, <2>1 DEF TokenRows, Token!Init
<1>. QED
  BY <1>4, <1>5, <1>6 DEF Token!Init, TokenInv

(* A step of the client's request in worker w.                              *)
LEMMA LoginStep ==
  ASSUME TokenInv, NEW w \in Token!Processes, NEW q \in TokenLogin,
         login' = [login EXCEPT ![w] = q],
         tokencache' \in [TokenClusters -> Token!UserToken \cup {None}],
         \A d \in TokenClusters : tokenLate' \/ tokencache'[d] \in {tokencache[d], usertoken},
         authmap' \in [Token!Processes -> Token!Tokens \cup {None}],
         tokenLate' \in BOOLEAN, tokenLate => tokenLate',
         UNCHANGED <<system, perRequest, usertoken, lapsed, edit, tokens, intruders, revoked>>,
         LoginOK(q, Token!Rows, tokencache'[Token!Home(w)], tokenLate')
  PROVE  TokenInv'
<1>0. Token!Rows' = Token!Rows
  BY DEF Token!Rows
<1>1. \A v \in Token!Processes : login'[v] = IF v = w THEN q ELSE login[v]
  BY DEF TokenInv, TokenShapes
<1>2. TokenShapes'
  BY DEF TokenInv, TokenShapes, EditOK
<1>3. ASSUME NEW v \in Token!Processes, v # w
      PROVE  LoginOK(login[v], Token!Rows, tokencache[Token!Home(v)], tokenLate)'
  <2>1. LoginOK(login[v], Token!Rows, tokencache[Token!Home(v)], tokenLate)
    BY DEF TokenInv, LoginsOK
  <2>2. login'[v] = login[v] /\ usertoken \in Token!Rows
    BY <1>1, <1>3 DEF Token!Rows
  <2>3. \/ tokenLate' \/ tokencache'[Token!Home(v)] \in {tokencache[Token!Home(v)], usertoken}
    BY HomeOf
  <2>. QED
    BY <1>0, <1>2, <2>1, <2>2, <2>3 DEF LoginOK, Token!Valid, Token!Home
<1>4. LoginOK(login[w], Token!Rows, tokencache[Token!Home(w)], tokenLate)'
  BY <1>0, <1>1, <1>2 DEF LoginOK, Token!Valid, Token!Home
<1>5. TokenRows'
  BY <1>0 DEF TokenInv, TokenRows
<1>6. LoginsOK'
  BY <1>3, <1>4 DEF LoginsOK, Token!Processes
<1>. QED
  BY <1>2, <1>5, <1>6 DEF TokenInv

LEMMA PresentStep ==
  ASSUME TokenInv, NEW w \in Token!Processes, NEW t \in 0..tokens, NEW fresh \in BOOLEAN,
         Token!Present(w, t, fresh)
  PROVE  TokenInv'
<1> DEFINE hit == authmap[w] # None /\ authmap[w] = t /\ fresh
           sure == \E ut \in Token!Rows : Token!Valid(ut, t)
           q == [Token!NoLogin EXCEPT !.pc = IF hit /\ ~perRequest THEN "admit" ELSE "user",
                                      !.token = t, !.genuine = sure]
<1>1. t \in Token!Tokens \cup {0} /\ authmap \in [Token!Processes -> Token!Tokens \cup {None}]
  BY CredentialsAssumption DEF TokenInv, TokenShapes, Token!Tokens
<1>2. sure \in BOOLEAN
  OBVIOUS
<1>3. /\ q \in TokenLogin /\ q.pc = (IF hit /\ ~perRequest THEN "admit" ELSE "user")
      /\ q.token = t /\ q.genuine = sure
  BY <1>1, <1>2 DEF TokenLogin, LoginPCs, Token!NoLogin, Token!NoToken
<1>4. hit => t \in Token!Tokens /\ t # 0
  BY <1>1 DEF Token!Tokens
<1>5. /\ login' = [login EXCEPT ![w] = q]
      /\ authmap' = authmap \/ authmap' = [authmap EXCEPT ![w] = None]
      /\ UNCHANGED <<system, perRequest, usertoken, lapsed, tokencache, edit, tokens, intruders,
                     tokenLate, revoked>>
  BY DEF Token!Present, Token!settings, Token!history
<1>6. \A ut \in Token!Rows : Token!Valid(ut, t) => sure
  OBVIOUS
<1> HIDE DEF hit, q, sure
<1>7. LoginOK(q, Token!Rows, tokencache[Token!Home(w)], tokenLate)
  BY <1>3, <1>4, <1>6 DEF LoginOK
<1>8. authmap' \in [Token!Processes -> Token!Tokens \cup {None}]
  BY <1>1, <1>5
<1>. QED
  BY <1>3, <1>5, <1>7, <1>8, LoginStep DEF TokenInv, TokenShapes

LEMMA LoginSteps ==
  ASSUME TokenInv, NEW w \in Token!Processes,
         \/ \E active \in BOOLEAN : Token!CheckUser(w, active)
         \/ Token!ReadToken(w) \/ Token!CacheToken(w)
         \/ Token!CacheTokenFails(w) \/ Token!GetToken(w) \/ Token!GetTokenFails(w)
         \/ Token!Decide(w)
  PROVE  TokenInv'
<1> DEFINE q == login[w]
<1>0. /\ TokenShapes /\ q \in TokenLogin /\ LoginOK(q, Token!Rows, tokencache[Token!Home(w)], tokenLate)
      /\ authmap \in [Token!Processes -> Token!Tokens \cup {None}]
      /\ tokencache \in [TokenClusters -> Token!UserToken \cup {None}]
      /\ usertoken \in Token!UserToken \cup {None} /\ usertoken \in Token!Rows
      /\ Token!Home(w) \in TokenClusters
  BY HomeOf DEF TokenInv, TokenShapes, LoginsOK, Token!Rows
<1>1. Token!NoLogin \in TokenLogin /\ LoginOK(Token!NoLogin, Token!Rows, tokencache[Token!Home(w)], tokenLate)
  BY DEF Token!NoLogin, TokenLogin, LoginPCs, Token!NoToken, LoginOK
<1>2. /\ UNCHANGED <<system, perRequest, usertoken, lapsed, edit, tokens, intruders, revoked>>
      /\ tokenLate' \in BOOLEAN /\ (tokenLate => tokenLate')
  BY <1>0 DEF Token!CheckUser, Token!ReadToken, Token!CacheToken, Token!CacheTokenFails, Token!GetToken,
     Token!GetTokenFails, Token!Decide, Token!settings, Token!counts, Token!history, TokenShapes
<1>4. CASE Token!CheckUser(w, TRUE)
  <2> DEFINE z == [q EXCEPT !.pc = "token"]
  <2>1. z \in TokenLogin /\ z.pc = "token" /\ z.token = q.token /\ z.genuine = q.genuine
    BY <1>0 DEF TokenLogin, LoginPCs
  <2>2. login' = [login EXCEPT ![w] = z] /\ UNCHANGED <<authmap, tokencache, tokenLate>> /\ q.pc = "user"
    BY <1>4 DEF Token!CheckUser, Token!GoTo, Token!At, Token!history
  <2>3. LoginOK(z, Token!Rows, tokencache[Token!Home(w)], tokenLate)
    BY <1>0, <2>1, <2>2 DEF LoginOK
  <2>. QED
    BY <1>0, <1>2, <2>1, <2>2, <2>3, LoginStep
<1>5. CASE Token!CheckUser(w, FALSE)
  <2>1. /\ login' = [login EXCEPT ![w] = Token!NoLogin] /\ UNCHANGED <<tokencache, tokenLate>>
        /\ authmap' = [authmap EXCEPT ![w] = None]
    BY <1>5 DEF Token!CheckUser, Token!Refused, Token!history
  <2>2. authmap' \in [Token!Processes -> Token!Tokens \cup {None}]
    BY <1>0, <2>1
  <2>. QED
    BY <1>0, <1>1, <1>2, <2>1, <2>2, LoginStep
<1>6. CASE Token!ReadToken(w)
  <2>1. PICK pc \in {"decide", "cache", "cacheAgain"} :
          /\ login' = [login EXCEPT ![w].row = usertoken, ![w].pc = pc]
          /\ pc = "cacheAgain" => q.pc = "tokenAgain"
    BY <1>6 DEF Token!ReadToken, Token!At
  <2> DEFINE z == [q EXCEPT !.row = usertoken, !.pc = pc]
  <2>2. /\ z \in TokenLogin /\ z.pc = pc /\ z.row = usertoken /\ z.token = q.token
        /\ z.genuine = q.genuine
    BY <1>0 DEF TokenLogin, LoginPCs
  <2>3. /\ login' = [login EXCEPT ![w] = z] /\ UNCHANGED <<authmap, tokencache, tokenLate>>
        /\ q.pc \in {"token", "tokenAgain"}
    BY <1>0, <1>6, <2>1 DEF Token!ReadToken, Token!At, TokenShapes, Token!history
  <2>4. LoginOK(z, Token!Rows, tokencache[Token!Home(w)], tokenLate)
    BY <1>0, <2>1, <2>2, <2>3 DEF LoginOK
  <2>. QED
    BY <1>0, <1>2, <2>2, <2>3, <2>4, LoginStep
<1>7. CASE Token!CacheToken(w) \/ Token!CacheTokenFails(w)
  <2> DEFINE pc == Token!Decided(w, Token!At(w, "cache"))
             z == [q EXCEPT !.pc = pc]
  <2>1. /\ pc \in {"again", "decide"} /\ q.pc \in {"cache", "cacheAgain"}
        /\ pc = "again" => system /\ ~Token!Valid(q.row, q.token)
    BY <1>7 DEF Token!Decided, Token!CacheToken, Token!CacheTokenFails, Token!At
  <2>2. login' = [login EXCEPT ![w] = z] /\ UNCHANGED authmap
    BY <1>7 DEF Token!CacheToken, Token!CacheTokenFails, Token!GoTo
  <2>3. \/ /\ tokencache' = [tokencache EXCEPT ![Token!Home(w)] = q.row]
           /\ tokenLate' \/ q.row = usertoken
        \/ /\ tokencache' = tokencache
           /\ tokenLate' \/ tokencache[Token!Home(w)] \in {None, q.row}
    BY <1>7 DEF Token!CacheToken, Token!CacheTokenFails
  <2> HIDE DEF pc
  <2>4. /\ z \in TokenLogin /\ z.pc = pc /\ z.row = q.row /\ z.token = q.token
        /\ z.genuine = q.genuine /\ q.row \in Token!UserToken \cup {None}
    BY <1>0, <2>1 DEF TokenLogin, LoginPCs
  <2> HIDE DEF z
  <2>5. LoginOK(z, Token!Rows, tokencache'[Token!Home(w)], tokenLate')
    <3>1. \/ tokenLate' \/ tokencache'[Token!Home(w)] \in {None, q.row}
      BY <1>0, <2>3
    <3>2. Token!Valid(tokencache'[Token!Home(w)], q.token) /\ ~Token!Valid(q.row, q.token) => tokenLate'
      BY <3>1 DEF Token!Valid
    <3>. QED
      BY <1>0, <1>2, <2>1, <2>4, <3>2 DEF LoginOK
  <2>6. /\ tokencache' \in [TokenClusters -> Token!UserToken \cup {None}]
        /\ \A d \in TokenClusters : tokenLate' \/ tokencache'[d] \in {tokencache[d], usertoken}
    BY <1>0, <2>3, <2>4
  <2>. QED
    BY <1>0, <1>2, <2>2, <2>4, <2>5, <2>6, LoginStep
<1>8. CASE Token!GetToken(w)
  <2>1. PICK pc \in {"tokenAgain", "decide"} :
          login' = [login EXCEPT ![w].row = tokencache[Token!Home(w)], ![w].pc = pc]
    BY <1>8 DEF Token!GetToken
  <2> DEFINE z == [q EXCEPT !.row = tokencache[Token!Home(w)], !.pc = pc]
  <2>2. /\ z \in TokenLogin /\ z.pc = pc /\ z.row = tokencache[Token!Home(w)] /\ z.token = q.token
        /\ z.genuine = q.genuine
    BY <1>0 DEF TokenLogin, LoginPCs
  <2>3. login' = [login EXCEPT ![w] = z] /\ UNCHANGED <<authmap, tokencache, tokenLate>> /\ q.pc = "again"
    BY <1>0, <1>8, <2>1 DEF Token!GetToken, Token!At, TokenShapes, Token!history
  <2> HIDE DEF z
  <2>4. LoginOK(z, Token!Rows, tokencache[Token!Home(w)], tokenLate)
    BY <1>0, <2>2, <2>3 DEF LoginOK
  <2>. QED
    BY <1>0, <1>2, <2>2, <2>3, <2>4, LoginStep
<1>9. CASE Token!GetTokenFails(w)
  <2> DEFINE z == [q EXCEPT !.pc = "tokenAgain"]
  <2>1. z \in TokenLogin /\ z.pc = "tokenAgain" /\ z.token = q.token /\ z.genuine = q.genuine
    BY <1>0 DEF TokenLogin, LoginPCs
  <2>2. login' = [login EXCEPT ![w] = z] /\ UNCHANGED <<authmap, tokencache, tokenLate>> /\ q.pc = "again"
    BY <1>9 DEF Token!GetTokenFails, Token!GoTo, Token!At, Token!history
  <2> HIDE DEF z
  <2>3. LoginOK(z, Token!Rows, tokencache[Token!Home(w)], tokenLate)
    BY <1>0, <2>1, <2>2 DEF LoginOK
  <2>. QED
    BY <1>0, <1>2, <2>1, <2>2, <2>3, LoginStep
<1>10. CASE Token!Decide(w) /\ Token!Valid(q.row, q.token)
  <2> DEFINE z == [q EXCEPT !.pc = "admit"]
  <2>1. z \in TokenLogin /\ z.pc = "admit" /\ z.token = q.token /\ z.genuine = q.genuine
    BY <1>0 DEF TokenLogin, LoginPCs
  <2>2. /\ login' = [login EXCEPT ![w] = z] /\ UNCHANGED <<tokencache, tokenLate>> /\ q.pc = "decide"
        /\ authmap' = [authmap EXCEPT ![w] = q.token]
    BY <1>10 DEF Token!Decide, Token!GoTo, Token!At, Token!history
  <2>3. q.token # 0 /\ q.token \in Token!Tokens
    BY <1>0, <1>10 DEF Token!Valid, Token!NoToken, TokenLogin
  <2> HIDE DEF z
  <2>4. LoginOK(z, Token!Rows, tokencache[Token!Home(w)], tokenLate)
    BY <1>0, <1>10, <2>1, <2>2, <2>3 DEF LoginOK
  <2>5. authmap' \in [Token!Processes -> Token!Tokens \cup {None}]
    BY <1>0, <2>2, <2>3
  <2>. QED
    BY <1>0, <1>2, <2>1, <2>2, <2>4, <2>5, LoginStep
<1>11. CASE Token!Decide(w) /\ ~Token!Valid(q.row, q.token)
  <2>1. /\ login' = [login EXCEPT ![w] = Token!NoLogin] /\ UNCHANGED <<tokencache, tokenLate>>
        /\ authmap' = [authmap EXCEPT ![w] = None]
    BY <1>11 DEF Token!Decide, Token!Refused, Token!history
  <2>2. authmap' \in [Token!Processes -> Token!Tokens \cup {None}]
    BY <1>0, <2>1
  <2>. QED
    BY <1>0, <1>1, <1>2, <2>1, <2>2, LoginStep
<1>. QED
  BY <1>4, <1>5, <1>6, <1>7, <1>8, <1>9, <1>10, <1>11

LEMMA AdmitStep ==
  ASSUME TokenInv, NEW w \in Token!Processes, Token!Admit(w)
  PROVE  TokenInv'
<1> DEFINE q == login[w]
<1>0. /\ TokenShapes /\ q \in TokenLogin /\ LoginOK(q, Token!Rows, tokencache[Token!Home(w)], tokenLate)
      /\ q.pc = "admit"
  BY DEF TokenInv, TokenShapes, LoginsOK, Token!Admit, Token!At
<1>1. q.token \in Token!Tokens /\ (perRequest => q.genuine \/ (system /\ tokenLate))
  BY <1>0 DEF LoginOK, TokenLogin
<1>2. /\ intruders' = IF q.genuine THEN intruders ELSE intruders \cup {q.token}
      /\ login' = [login EXCEPT ![w] = Token!NoLogin]
      /\ UNCHANGED <<system, perRequest, usertoken, lapsed, tokencache, authmap, edit, tokens,
                     tokenLate, revoked>>
  BY DEF Token!Admit, Token!settings, Token!counts
<1>3. Token!NoLogin \in TokenLogin /\ LoginOK(Token!NoLogin, Token!Rows, tokencache[Token!Home(w)], tokenLate)
  BY DEF Token!NoLogin, TokenLogin, LoginPCs, Token!NoToken, LoginOK
<1>4. TokenShapes'
  BY <1>0, <1>1, <1>2, <1>3 DEF TokenShapes, EditOK
<1>5. ASSUME NEW v \in Token!Processes
      PROVE  LoginOK(login[v], Token!Rows, tokencache[Token!Home(v)], tokenLate)'
  <2>1. LoginOK(login[v], Token!Rows, tokencache[Token!Home(v)], tokenLate)
    BY DEF TokenInv, LoginsOK
  <2>2. login'[v] = IF v = w THEN Token!NoLogin ELSE login[v]
    BY <1>0, <1>2 DEF TokenShapes
  <2>3. Token!Rows' = Token!Rows
    BY <1>2 DEF Token!Rows
  <2>4. Token!NoLogin.pc = "idle"
    BY DEF Token!NoLogin
  <2>. QED
    BY <1>2, <2>1, <2>2, <2>3, <2>4 DEF LoginOK, Token!Valid, Token!Home
<1>7. TokenRows' /\ LoginsOK'
  <2>1. LoginsOK'
    BY <1>5 DEF LoginsOK, Token!Processes
  <2>2. Token!Rows' = Token!Rows
    BY <1>2 DEF Token!Rows
  <2>. QED
    BY <1>2, <2>1, <2>2 DEF TokenInv, TokenRows
<1>6. (intruders # {} => ~perRequest \/ (system /\ tokenLate))'
  BY <1>1, <1>2 DEF TokenInv
<1>. QED
  BY <1>4, <1>6, <1>7 DEF TokenInv

(* A step of a change that puts no row where there was none, and a commit.  *)
LEMMA QuietStep ==
  ASSUME TokenInv, TokenShapes', TokenRows',
         UNCHANGED <<system, perRequest, login, intruders>>,
         Token!Rows' \subseteq Token!Rows \cup {None}, lapsed \subseteq lapsed',
         tokenLate => tokenLate',
         \A c \in TokenClusters :
           tokenLate' \/ tokencache'[c] \in {tokencache[c], None} \cup Token!Rows
  PROVE  TokenInv'
<1>1. ASSUME NEW w \in Token!Processes
      PROVE  LoginOK(login[w], Token!Rows, tokencache[Token!Home(w)], tokenLate)'
  <2>1. LoginOK(login[w], Token!Rows, tokencache[Token!Home(w)], tokenLate) /\ login[w] \in TokenLogin
    BY DEF TokenInv, LoginsOK, TokenShapes
  <2> DEFINE d == Token!Home(w)
  <2>2. login'[w] = login[w] /\ d \in TokenClusters
    BY HomeOf
  <2>3. \A ut : Token!Valid(ut, login[w].token)' => Token!Valid(ut, login[w].token)
    BY <2>2 DEF Token!Valid
  <2> HIDE DEF d
  <2>4. \/ tokenLate' \/ tokencache'[d] \in {tokencache[d], None} \cup Token!Rows
    BY <2>2
  <2>5. login[w].pc = "again" /\ Token!Valid(tokencache'[d], login[w].token) =>
           login[w].genuine \/ tokenLate'
    BY <2>1, <2>4 DEF LoginOK, Token!Valid, d
  <2>6. login[w].pc = "again" /\ Token!Valid(tokencache[d], login[w].token)' =>
           login[w].genuine \/ tokenLate'
    BY <2>2, <2>5 DEF Token!Valid
  <2>7. \A ut \in Token!Rows' : Token!Valid(ut, login[w].token)' /\ login[w].pc # "idle" => login[w].genuine
    BY <2>1, <2>3 DEF LoginOK, Token!Valid
  <2>8. Token!Valid(login[w].row, login[w].token)' => Token!Valid(login[w].row, login[w].token)
    BY <2>2 DEF Token!Valid
  <2>9. /\ (login[w].pc \in {"again", "tokenAgain", "cacheAgain"} => system)
        /\ (login[w].pc \in {"cache", "cacheAgain", "decide"} /\ Token!Valid(login[w].row, login[w].token)
              => login[w].genuine \/ (system /\ tokenLate))
        /\ (login[w].pc = "admit" =>
              login[w].token # 0 /\ (perRequest => login[w].genuine \/ (system /\ tokenLate)))
    BY <2>1 DEF LoginOK
  <2>. QED
    BY <2>2, <2>6, <2>7, <2>8, <2>9 DEF LoginOK, d, Token!Home
<1>2. LoginsOK'
  BY <1>1 DEF LoginsOK, Token!Processes
<1>. QED
  BY <1>2 DEF TokenInv

(* A step of the change in cluster c that leaves the row alone and opens no *)
(* transaction.                                                            *)
LEMMA EditStep ==
  ASSUME TokenInv, NEW c \in TokenClusters, NEW e \in TokenEdit,
         edit' = [edit EXCEPT ![c] = e], EditOK(e, usertoken), e.new \in {None, edit[c].new},
         UNCHANGED <<system, perRequest, usertoken, lapsed, authmap, login, tokens, intruders, revoked>>,
         tokencache' \in [TokenClusters -> Token!UserToken \cup {None}],
         tokenLate' \in BOOLEAN, tokenLate => tokenLate',
         \A d \in TokenClusters :
           tokenLate' \/ tokencache'[d] \in {tokencache[d], None} \cup Token!Rows
  PROVE  TokenInv'
<1>0. TokenShapes /\ edit \in [TokenClusters -> TokenEdit]
  BY DEF TokenInv, TokenShapes
<1>1. \A d \in TokenClusters : edit'[d] = IF d = c THEN e ELSE edit[d]
  BY <1>0
<1>2. TokenShapes'
  <2>1. \A d \in TokenClusters : EditOK(edit'[d], usertoken)
    BY <1>0, <1>1 DEF TokenShapes
  <2>2. \A a, b \in TokenClusters : edit'[a].new # None /\ edit'[b].new # None => a = b
    BY <1>0, <1>1 DEF TokenShapes
  <2>3. edit' \in [TokenClusters -> TokenEdit]
    BY <1>0
  <2>. QED
    BY <1>0, <2>1, <2>2, <2>3 DEF TokenShapes, EditOK
<1>3. Token!Rows' \subseteq Token!Rows \cup {None}
  BY <1>1 DEF Token!Rows
<1>4. TokenRows'
  BY <1>3 DEF TokenInv, TokenRows
<1>. QED
  BY <1>2, <1>3, <1>4, QuietStep

LEMMA QuietSteps ==
  ASSUME TokenInv, NEW c \in TokenClusters,
         \/ \E kind \in Token!Kinds : Token!BeginEdit(c, kind)
         \/ Token!LeaveIt(c) \/ Token!InsertConflicts(c) \/ Token!PostGet(c) \/ Token!PostSet(c)
         \/ Token!Notify(c) \/ Token!NotifyFails(c) \/ Token!RollBack(c)
  PROVE  TokenInv'
<1>0. /\ TokenShapes /\ edit[c] \in TokenEdit /\ edit \in [TokenClusters -> TokenEdit]
      /\ tokencache \in [TokenClusters -> Token!UserToken \cup {None}]
      /\ usertoken \in Token!UserToken \cup {None}
      /\ EditOK(edit[c], usertoken) /\ tokenLate \in BOOLEAN
  BY DEF TokenInv, TokenShapes
<1>1. /\ UNCHANGED <<system, perRequest, usertoken, authmap, login, tokens, intruders, lapsed, revoked>>
      /\ tokenLate' \in BOOLEAN /\ (tokenLate => tokenLate')
  BY <1>0 DEF Token!BeginEdit, Token!LeaveIt, Token!InsertConflicts, Token!PostGet, Token!PostSet,
     Token!Notify, Token!NotifyFails, Token!RollBack, Token!settings, Token!counts, Token!history
<1>2. /\ Token!NoEdit \in TokenEdit /\ Token!NoEdit.new = None
      /\ EditOK(Token!NoEdit, usertoken)
  BY DEF Token!NoEdit, TokenEdit, Token!Kinds, EditOK
<1>3. PICK e \in TokenEdit :
        /\ edit' = [edit EXCEPT ![c] = e] /\ EditOK(e, usertoken) /\ e.new \in {None, edit[c].new}
  <2>1. CASE \E kind \in Token!Kinds : Token!BeginEdit(c, kind)
    <3>1. PICK kind \in Token!Kinds :
            edit' = [edit EXCEPT ![c] = [pc |-> "write", kind |-> kind, row |-> usertoken, new |-> None]]
      BY <2>1 DEF Token!BeginEdit
    <3> DEFINE e == [pc |-> "write", kind |-> kind, row |-> usertoken, new |-> None]
    <3>2. e \in TokenEdit /\ e.new = None /\ e.row = usertoken /\ e.pc = "write"
      BY <1>0 DEF TokenEdit
    <3>3. EditOK(e, usertoken)
      BY <3>2 DEF EditOK
    <3>. QED
      BY <3>1, <3>2, <3>3
  <2>2. CASE Token!LeaveIt(c) \/ Token!InsertConflicts(c) \/ Token!RollBack(c)
    <3>1. edit' = [edit EXCEPT ![c] = Token!NoEdit]
      BY <2>2 DEF Token!LeaveIt, Token!InsertConflicts, Token!RollBack
    <3>. QED
      BY <1>2, <3>1
  <2>3. CASE Token!PostGet(c) \/ Token!PostSet(c) \/ Token!Notify(c) \/ Token!NotifyFails(c)
    <3>1. PICK pc \in {"notify", "postSet", "commit"} : edit' = [edit EXCEPT ![c].pc = pc]
      BY <2>3 DEF Token!PostGet, Token!PostSet, Token!Notify, Token!NotifyFails
    <3>2. edit[c].pc \in {"postGet", "postSet", "notify"}
      BY <2>3 DEF Token!PostGet, Token!PostSet, Token!Notify, Token!NotifyFails, Token!Editing
    <3> DEFINE e == [edit[c] EXCEPT !.pc = pc]
    <3>3. e \in TokenEdit /\ e.row = edit[c].row /\ e.new = edit[c].new /\ e.pc = pc
      BY <1>0 DEF TokenEdit
    <3>4. edit' = [edit EXCEPT ![c] = e]
      BY <1>0, <3>1
    <3> HIDE DEF e
    <3>5. EditOK(e, usertoken)
      BY <1>0, <3>2, <3>3 DEF EditOK
    <3>. QED
      BY <3>3, <3>4, <3>5
  <2>. QED
    BY <2>1, <2>2, <2>3
<1>4. /\ tokencache' \in [TokenClusters -> Token!UserToken \cup {None}]
      /\ \A d \in TokenClusters :
           tokenLate' \/ tokencache'[d] \in {tokencache[d], None} \cup Token!Rows
  <2>1. CASE Token!PostSet(c)
    <3>1. /\ tokencache' = [tokencache EXCEPT ![c] = edit[c].row]
          /\ tokenLate' = (tokenLate \/ edit[c].row # edit[c].new)
      BY <2>1 DEF Token!PostSet
    <3>2. edit[c].row \in Token!UserToken \cup {None} /\ edit[c].new \in Token!Rows
      BY <1>0 DEF TokenEdit, Token!Rows
    <3>3. tokencache' \in [TokenClusters -> Token!UserToken \cup {None}]
      BY <1>0, <3>1, <3>2
    <3>4. ASSUME NEW d \in TokenClusters
          PROVE  tokenLate' \/ tokencache'[d] \in {tokencache[d], None} \cup Token!Rows
      <4>1. tokencache'[d] = tokencache[d] \/ tokencache'[d] = edit[c].row
        BY <1>0, <3>1
      <4>. QED
        BY <3>1, <3>2, <4>1
    <3>. QED
      BY <3>3, <3>4
  <2>2. CASE Token!Notify(c)
    <3>1. tokencache' = [d \in TokenClusters |-> IF d = c THEN tokencache[d] ELSE None]
      BY <2>2 DEF Token!Notify
    <3>. QED
      BY <1>0, <3>1
  <2>3. CASE UNCHANGED tokencache
    BY <1>0, <2>3
  <2>. QED
    BY <2>1, <2>2, <2>3 DEF Token!BeginEdit, Token!LeaveIt, Token!InsertConflicts, Token!PostGet,
       Token!NotifyFails, Token!RollBack
<1>. QED
  BY <1>1, <1>3, <1>4, EditStep

LEMMA CommitStep ==
  ASSUME TokenInv, NEW c \in TokenClusters, Token!Commit(c)
  PROVE  TokenInv'
<1> DEFINE new == edit[c].new
<1>0. /\ TokenShapes /\ edit \in [TokenClusters -> TokenEdit] /\ edit[c] \in TokenEdit
      /\ EditOK(edit[c], usertoken) /\ TokenRows /\ tokens \in Nat
      /\ usertoken \in Token!UserToken \cup {None} /\ revoked \subseteq Token!Tokens
  BY CredentialsAssumption DEF TokenInv, TokenShapes, Token!Tokens
<1>1. /\ edit[c].pc = "commit" /\ usertoken' = new
      /\ revoked' = revoked \cup ({usertoken.token} \ {Token!NoToken, new.token})
      /\ edit' = [edit EXCEPT ![c] = Token!NoEdit]
      /\ UNCHANGED <<system, perRequest, lapsed, tokencache, authmap, login, tokens, intruders, tokenLate>>
  BY DEF Token!Commit, Token!Editing, Token!settings, Token!counts
<1>2. new \in Token!UserToken /\ usertoken \in Token!UserToken /\ new # None /\ usertoken # None
  BY <1>0, <1>1 DEF EditOK, TokenEdit
<1>3. \A d \in TokenClusters : edit'[d] = IF d = c THEN Token!NoEdit ELSE edit[d]
  BY <1>0, <1>1
<1>4. Token!NoEdit \in TokenEdit /\ Token!NoEdit.new = None /\ EditOK(Token!NoEdit, usertoken')
  BY DEF Token!NoEdit, TokenEdit, Token!Kinds, EditOK
<1>5. /\ usertoken.token \in Token!Tokens \cup {0} /\ revoked' \subseteq Token!Tokens
      /\ Token!Rows' \subseteq {new, None}
  <2>1. usertoken.token \in Token!Tokens \cup {0}
    BY <1>2 DEF Token!UserToken, Token!NoToken
  <2>2. \A d \in TokenClusters : edit'[d].new = None
    BY <1>0, <1>2, <1>3, <1>4 DEF TokenShapes
  <2>. QED
    BY <1>0, <1>1, <2>1, <2>2 DEF Token!Rows, Token!NoToken
<1> HIDE DEF new
<1>6. TokenShapes'
  <2>1. \A d \in TokenClusters : EditOK(edit'[d], usertoken')
    <3>1. \A d \in TokenClusters \ {c} : EditOK(edit[d], usertoken')
      BY <1>0, <1>1, <1>2 DEF TokenShapes, EditOK
    <3>. QED
      BY <1>3, <1>4, <3>1
  <2>2. \A a, b \in TokenClusters : edit'[a].new # None /\ edit'[b].new # None => a = b
    BY <1>0, <1>3, <1>4 DEF TokenShapes
  <2>3. edit' \in [TokenClusters -> TokenEdit]
    BY <1>0, <1>1, <1>4
  <2>. QED
    BY <1>0, <1>1, <1>2, <1>5, <2>1, <2>2, <2>3 DEF TokenShapes
<1>7. TokenRows'
  <2>1. new \in Token!Rows /\ usertoken \in Token!Rows
    BY DEF Token!Rows, new
  <2>2. /\ new.token <= tokens /\ new.token \notin revoked
        /\ usertoken.token <= tokens
    BY <1>0, <1>2, <2>1 DEF TokenRows
  <2>3. \A t \in revoked' : t <= tokens'
    BY <1>0, <1>1, <2>2 DEF TokenRows
  <2>4. new.token \notin revoked'
    BY <1>1, <2>2
  <2>. QED
    BY <1>1, <1>5, <2>2, <2>3, <2>4 DEF TokenRows
<1>8. Token!Rows' \subseteq Token!Rows \cup {None}
  BY <1>5 DEF Token!Rows, new
<1>. QED
  BY <1>1, <1>6, <1>7, <1>8, QuietStep

LEMMA WrittenType ==
  ASSUME TokenInv, NEW ut \in Token!UserToken, Token!Written(ut)
  PROVE  login' \in [Token!Processes -> TokenLogin]
<1>1. ASSUME NEW w \in Token!Processes PROVE login'[w] \in TokenLogin
  <2>1. login[w] \in TokenLogin
    BY DEF TokenInv, TokenShapes
  <2>2. login'[w] = [login[w] EXCEPT !.genuine = @ \/ Token!Valid(ut, login[w].token)]
    BY DEF Token!Written
  <2>3. Token!Valid(ut, login[w].token) \in BOOLEAN
    BY DEF Token!Valid, Token!UserToken
  <2>. QED
    BY <2>1, <2>2, <2>3 DEF TokenLogin
<1>. QED
  BY <1>1 DEF Token!Written

(* The row is written: whoever presents the token it gets is genuine.       *)
LEMMA WriteStep ==
  ASSUME TokenInv, TokenShapes', TokenRows', NEW ut \in Token!UserToken,
         UNCHANGED <<system, perRequest, lapsed, tokencache, intruders, tokenLate>>,
         Token!Rows' \subseteq Token!Rows \cup {ut, None},
         Token!Written(ut)
  PROVE  TokenInv'
<1>1. ASSUME NEW w \in Token!Processes
      PROVE  /\ login'[w] \in TokenLogin /\ login'[w].pc = login[w].pc
             /\ login'[w].row = login[w].row /\ login'[w].token = login[w].token
             /\ login'[w].genuine = (login[w].genuine \/ Token!Valid(ut, login[w].token))
  <2>1. login[w] \in TokenLogin
    BY DEF TokenInv, TokenShapes
  <2>2. login'[w] = [login[w] EXCEPT !.genuine = @ \/ Token!Valid(ut, login[w].token)]
    BY DEF Token!Written
  <2>3. Token!Valid(ut, login[w].token) \in BOOLEAN
    BY DEF Token!Valid, Token!UserToken
  <2>. QED
    BY <2>1, <2>2, <2>3 DEF TokenLogin
<1>2. ASSUME NEW w \in Token!Processes
      PROVE  LoginOK(login[w], Token!Rows, tokencache[Token!Home(w)], tokenLate)'
  <2>1. LoginOK(login[w], Token!Rows, tokencache[Token!Home(w)], tokenLate)
    BY DEF TokenInv, LoginsOK
  <2>2. \A r \in Token!Rows' : login[w].pc # "idle" /\ Token!Valid(r, login[w].token) => login'[w].genuine
    BY <1>1, <2>1 DEF LoginOK, Token!Valid
  <2>4. tokencache[Token!Home(w)]' = tokencache[Token!Home(w)]
    BY DEF Token!Home
  <2>5. \A r \in Token!Rows' : login'[w].pc # "idle" /\ Token!Valid(r, login[w].token)' => login'[w].genuine
    BY <1>1, <2>2 DEF Token!Valid
  <2>. QED
    BY <1>1, <2>1, <2>4, <2>5 DEF LoginOK, Token!Valid
<1>3. LoginsOK'
  BY <1>2 DEF LoginsOK, Token!Processes
<1>. QED
  BY <1>3 DEF TokenInv

(* What an instance is saved with: the token is none, the one generated     *)
(* with this change, or the one it was read with.                          *)
LEMMA WritingFacts ==
  ASSUME TokenShapes, NEW c \in TokenClusters, Token!Writing(c)
  PROVE  /\ tokens' \in Token!Tokens /\ tokens' \in {tokens, tokens + 1}
         /\ Token!Instance(c) \in Token!UserToken
         /\ \/ Token!Instance(c).token = 0
            \/ Token!Instance(c).token = tokens' /\ tokens' = tokens + 1
            \/ edit[c].row # None /\ Token!Instance(c).token = edit[c].row.token
<1>0. edit[c] \in TokenEdit /\ tokens \in Token!Tokens
  BY DEF TokenShapes
<1>1. tokens' \in Token!Tokens /\ tokens' = IF edit[c].kind = "create" THEN tokens + 1 ELSE tokens
  BY DEF Token!Writing
<1> DEFINE old == IF edit[c].row = None THEN [enabled |-> TRUE, token |-> Token!NoToken] ELSE edit[c].row
<1>2. old \in Token!UserToken /\ (edit[c].row = None => old.token = 0)
  BY <1>0 DEF TokenEdit, Token!UserToken, Token!NoToken
<1>3. edit[c].kind \in {"enable", "disable", "revoke", "create"}
  BY <1>0 DEF TokenEdit, Token!Kinds
<1>4. CASE edit[c].kind = "enable"
  <2>1. Token!Instance(c) = [old EXCEPT !.enabled = TRUE]
    BY <1>4 DEF Token!Instance
  <2>2. [old EXCEPT !.enabled = TRUE] \in Token!UserToken /\ [old EXCEPT !.enabled = TRUE].token = old.token
    BY <1>2 DEF Token!UserToken
  <2>. QED
    BY <1>1, <1>2, <1>4, <2>1, <2>2
<1>5. CASE edit[c].kind = "disable"
  <2>1. Token!Instance(c) = [old EXCEPT !.enabled = FALSE]
    BY <1>5 DEF Token!Instance
  <2>2. [old EXCEPT !.enabled = FALSE] \in Token!UserToken /\ [old EXCEPT !.enabled = FALSE].token = old.token
    BY <1>2 DEF Token!UserToken
  <2>. QED
    BY <1>1, <1>2, <1>5, <2>1, <2>2
<1>6. CASE edit[c].kind = "revoke"
  <2>1. Token!Instance(c) = [old EXCEPT !.token = 0]
    BY <1>6 DEF Token!Instance, Token!NoToken
  <2>2. [old EXCEPT !.token = 0] \in Token!UserToken /\ [old EXCEPT !.token = 0].token = 0
    BY <1>2 DEF Token!UserToken, Token!NoToken
  <2>. QED
    BY <1>1, <1>6, <2>1, <2>2
<1>7. CASE edit[c].kind = "create"
  <2>1. Token!Instance(c) = [enabled |-> TRUE, token |-> tokens']
    BY <1>7 DEF Token!Instance
  <2>. QED
    BY <1>1, <1>7, <2>1 DEF Token!UserToken
<1>. QED
  BY <1>3, <1>4, <1>5, <1>6, <1>7

LEMMA InsertStep ==
  ASSUME TokenInv, NEW c \in TokenClusters, Token!Insert(c)
  PROVE  TokenInv'
<1> DEFINE ut == Token!Instance(c)
<1>0. /\ TokenShapes /\ TokenRows /\ edit \in [TokenClusters -> TokenEdit] /\ tokens \in Nat
      /\ \A d \in TokenClusters : EditOK(edit[d], usertoken)
  BY CredentialsAssumption DEF TokenInv, TokenShapes, Token!Tokens
<1>1. /\ Token!Writing(c) /\ usertoken = None /\ usertoken' = ut
      /\ edit' = [edit EXCEPT ![c] = Token!NoEdit] /\ Token!Written(ut)
      /\ UNCHANGED <<system, perRequest, lapsed, tokencache, authmap, intruders, tokenLate, revoked>>
  BY DEF Token!Insert, Token!settings, Token!history
<1>2. /\ \A d \in TokenClusters : edit[d].row = None /\ edit[d].new = None
      /\ edit[c].row = None
  BY <1>0, <1>1 DEF EditOK
<1>3. /\ tokens' \in Token!Tokens /\ tokens' \in {tokens, tokens + 1}
      /\ ut \in Token!UserToken /\ ut.token \in {0, tokens'}
      /\ ut.token # 0 => tokens' = tokens + 1
  BY <1>0, <1>1, <1>2, WritingFacts
<1> HIDE DEF ut
<1>4. Token!NoEdit \in TokenEdit /\ Token!NoEdit.new = None /\ EditOK(Token!NoEdit, usertoken')
  BY DEF Token!NoEdit, TokenEdit, Token!Kinds, EditOK
<1>5. \A d \in TokenClusters : edit'[d] = IF d = c THEN Token!NoEdit ELSE edit[d]
  BY <1>0, <1>1
<1>6. Token!Rows' \subseteq {ut, None}
  BY <1>1, <1>2, <1>4, <1>5 DEF Token!Rows
<1>7. TokenShapes'
  <2>1. \A d \in TokenClusters : EditOK(edit'[d], usertoken')
    <3>1. \A d \in TokenClusters : EditOK(edit[d], usertoken')
      BY <1>0, <1>2 DEF EditOK
    <3>. QED
      BY <1>4, <1>5, <3>1
  <2>2. \A a, b \in TokenClusters : edit'[a].new # None /\ edit'[b].new # None => a = b
    BY <1>2, <1>4, <1>5
  <2>3. edit' \in [TokenClusters -> TokenEdit]
    BY <1>0, <1>1, <1>4
  <2>4. login' \in [Token!Processes -> TokenLogin]
    BY <1>1, <1>3, WrittenType DEF TokenInv
  <2>. QED
    BY <1>0, <1>1, <1>3, <2>1, <2>2, <2>3, <2>4 DEF TokenShapes
<1>8. TokenRows'
  <2>1. \A t \in revoked : t \in Nat /\ t <= tokens /\ t # 0
    BY <1>0, CredentialsAssumption DEF TokenShapes, TokenRows, Token!Tokens
  <2>2. ut.token <= tokens' /\ ut.token \notin revoked
    BY <1>0, <1>3, <2>1
  <2>. QED
    BY <1>0, <1>1, <1>3, <1>6, <2>1, <2>2 DEF TokenRows
<1>. QED
  BY <1>1, <1>3, <1>6, <1>7, <1>8, WriteStep

LEMMA UpdateStep ==
  ASSUME TokenInv, NEW c \in TokenClusters, Token!Update(c)
  PROVE  TokenInv'
<1> DEFINE ut == Token!Over(usertoken, c)
           e == [edit[c] EXCEPT !.pc = "postGet", !.row = Token!Instance(c), !.new = ut]
<1>0. /\ TokenShapes /\ TokenRows /\ edit \in [TokenClusters -> TokenEdit] /\ edit[c] \in TokenEdit
      /\ tokens \in Nat /\ \A d \in TokenClusters : EditOK(edit[d], usertoken)
  BY CredentialsAssumption DEF TokenInv, TokenShapes, Token!Tokens
<1>1. /\ Token!Writing(c) /\ usertoken # None /\ Token!Written(ut)
      /\ edit' = [edit EXCEPT ![c].pc = "postGet", ![c].row = Token!Instance(c), ![c].new = ut]
      /\ \A d \in TokenClusters : edit[d].new = None
      /\ UNCHANGED <<system, perRequest, usertoken, lapsed, tokencache, authmap, intruders, tokenLate,
                     revoked>>
  BY DEF Token!Update, Token!Open, Token!settings, Token!history
<1>2. /\ tokens' \in Token!Tokens /\ tokens' \in {tokens, tokens + 1}
      /\ Token!Instance(c) \in Token!UserToken
      /\ \/ Token!Instance(c).token = 0
         \/ Token!Instance(c).token = tokens' /\ tokens' = tokens + 1
         \/ edit[c].row # None /\ Token!Instance(c).token = edit[c].row.token
  BY <1>0, <1>1, WritingFacts
<1>3. usertoken \in Token!UserToken
  BY <1>0, <1>1 DEF TokenShapes
<1>4. /\ ut \in Token!UserToken
      /\ ut.token \in {0, usertoken.token} \/ (ut.token = tokens' /\ tokens' = tokens + 1)
  <2>1. CASE edit[c].row = None
    BY <1>2, <2>1 DEF Token!Over
  <2>2. CASE edit[c].row # None
    <3> DEFINE inst == Token!Instance(c)
               old  == edit[c].row
    <3>1. ut = [enabled |-> IF inst.enabled # old.enabled THEN inst.enabled ELSE usertoken.enabled,
                token   |-> IF inst.token # old.token THEN inst.token ELSE usertoken.token]
      BY <2>2 DEF Token!Over
    <3>2. /\ ut.token = (IF inst.token # old.token THEN inst.token ELSE usertoken.token)
          /\ ut \in Token!UserToken
      BY <1>2, <1>3, <3>1 DEF Token!UserToken
    <3>. QED
      BY <1>2, <3>2
  <2>. QED
    BY <2>1, <2>2
<1>5. e \in TokenEdit /\ e.pc = "postGet" /\ e.new = ut
  BY <1>0, <1>2, <1>4 DEF TokenEdit
<1>6. edit' = [edit EXCEPT ![c] = e]
  <2>1. edit' = [edit EXCEPT ![c].pc = "postGet", ![c].row = Token!Instance(c), ![c].new = ut]
    BY <1>1
  <2>. QED
    BY <1>0, <2>1
<1> HIDE DEF ut, e
<1>7. \A d \in TokenClusters : edit'[d] = IF d = c THEN e ELSE edit[d]
  BY <1>0, <1>6
<1>8. Token!Rows' \subseteq {usertoken, ut, None}
  BY <1>1, <1>5, <1>7 DEF Token!Rows
<1>9. TokenShapes'
  <2>0. EditOK(e, usertoken)
    BY <1>1, <1>4, <1>5, CredentialsAssumption DEF EditOK
  <2>1. \A d \in TokenClusters : EditOK(edit'[d], usertoken')
    BY <1>0, <1>1, <1>7, <2>0
  <2>2. \A a, b \in TokenClusters : edit'[a].new # None /\ edit'[b].new # None => a = b
    BY <1>1, <1>7
  <2>3. edit' \in [TokenClusters -> TokenEdit]
    BY <1>0, <1>5, <1>6
  <2>4. login' \in [Token!Processes -> TokenLogin]
    BY <1>1, <1>4, WrittenType DEF TokenInv
  <2>. QED
    BY <1>0, <1>1, <1>2, <2>1, <2>2, <2>3, <2>4 DEF TokenShapes
<1>10. TokenRows'
  <2>1. \A t \in revoked : t \in Nat /\ t <= tokens /\ t # 0
    <3>1. revoked \subseteq Token!Tokens
      BY <1>0 DEF TokenShapes
    <3>2. \A t \in Token!Tokens : t \in Nat /\ t # 0
      BY CredentialsAssumption DEF Token!Tokens
    <3>3. \A t \in revoked : t <= tokens
      BY <1>0 DEF TokenRows
    <3>. QED
      BY <3>1, <3>2, <3>3
  <2>2. usertoken.token \in Nat /\ usertoken.token <= tokens /\ usertoken.token \notin revoked
    <3>1. usertoken \in Token!Rows \ {None}
      BY <1>1 DEF Token!Rows
    <3>. QED
      BY <1>0, <1>3, <3>1, CredentialsAssumption DEF TokenRows, Token!UserToken, Token!Tokens, Token!NoToken
  <2>3. ut.token <= tokens' /\ ut.token \notin revoked
    BY <1>0, <1>2, <1>4, <2>1, <2>2
  <2>4. usertoken.token <= tokens'
    BY <1>0, <1>2, <2>2
  <2>. QED
    BY <1>0, <1>1, <1>2, <1>8, <2>1, <2>2, <2>3, <2>4 DEF TokenRows
<1>11. Token!Rows' \subseteq Token!Rows \cup {ut, None}
  BY <1>8 DEF Token!Rows
<1>. QED
  BY <1>1, <1>4, <1>9, <1>10, <1>11, WriteStep

LEMMA TokenNext ==
  ASSUME TokenInv, Token!Next \/ UNCHANGED tokenVars
  PROVE  TokenInv'
<1>1. CASE Token!Lapse \/ UNCHANGED tokenVars
  <2>1. /\ UNCHANGED <<system, perRequest, usertoken, authmap, login, tokens, intruders, tokencache,
                       edit, tokenLate, revoked>>
        /\ lapsed \subseteq lapsed'
    BY <1>1 DEF Token!Lapse, tokenVars, Token!settings, Token!counts, Token!history
  <2>2. Token!Rows' = Token!Rows
    BY <2>1 DEF Token!Rows
  <2>3. TokenShapes' /\ TokenRows'
    BY <2>1, <2>2 DEF TokenInv, TokenShapes, TokenRows, EditOK
  <2>. QED
    BY <2>1, <2>2, <2>3, QuietStep
<1>2. CASE \E w \in Token!Processes, t \in 0..tokens, fresh \in BOOLEAN : Token!Present(w, t, fresh)
  BY <1>2, PresentStep
<1>. QED
  BY <1>1, <1>2, LoginSteps, AdmitStep, QuietSteps, CommitStep, InsertStep, UpdateStep DEF Token!Next

(***************************************************************************)
(* '/sso/auth_basic' admits only tokens that were generated, and, if tokens *)
(* are checked for each request, none that was disabled, revoked, replaced  *)
(* or expired before the request began, whatever the caches of the clusters *)
(* and the maps of the workers hold, and however the calls and the commit   *)
(* of a change and the requests of other workers interleave; a system       *)
(* user's is excepted, which is looked up in the cache, once an instance    *)
(* was cached late.  The row never has a token again that it once lost.     *)
(***************************************************************************)
THEOREM RevokedTokensRefused == UnionSpec => []TokensSound
<1> DEFINE Inv == which = "token" => TokenInv
<1>1. UnionInit => Inv
  BY TokenInit DEF UnionInit
<1>2. Inv /\ [UnionNext]_unionVars => Inv'
  BY StepOfToken, TokenNext
<1>3. Inv => TokensSound
  <2>1. TokenInv => Token!RevokedTokenRefused /\ Token!OnlyIssuedTokens
    BY DEF TokenInv, TokenShapes, Token!RevokedTokenRefused, Token!OnlyIssuedTokens, Token!Tokens,
       Token!NoToken
  <2>2. TokenInv => Token!TypeOK
    BY DEF TokenInv, TokenShapes, Token!TypeOK, TokenLogin, TokenEdit
  <2>3. TokenInv => Token!RevokedForGood
    BY DEF TokenInv, TokenRows, Token!RevokedForGood
  <2>. QED
    BY <2>1, <2>2, <2>3 DEF TokensSound
<1>. QED
  BY <1>1, <1>2, <1>3, PTL DEF UnionSpec

-----------------------------------------------------------------------------
(***************************************************************************)
(* Captchas.  Whoever answers holds what it loaded, with the same captcha,  *)
(* one request less of the allowance, an allowance for the captcha that it  *)
(* solved, or a captcha nobody else knows of.  The requests answered so far *)
(* and what is left of the allowance are paid for by captchas solved and by *)
(* saves that wrote over another: a captcha that has paid and is in the     *)
(* session again was brought back by such a save, which paid for another    *)
(* allowance.                                                               *)
(***************************************************************************)
LEMMA StepOfCaptcha ==
  ASSUME [UnionNext]_unionVars, which' = "captcha"
  PROVE  which = "captcha" /\ (Visit!Next \/ UNCHANGED captchaVars)
BY DEF UnionNext, unionVars

Drawing == {"draw", "sweep", "mkdir", "write"}

VisitCall == [pc : {"idle", "view", "respond"} \cup Drawing, data : Visit!Entry, was : Visit!Entry,
              hour : Visit!Hours, pass : BOOLEAN]

CaptchaShapes ==
  /\ entry \in Visit!Entry /\ visit \in [Visitors -> VisitCall]
  /\ dirs \subseteq Visit!Hours /\ disk \subseteq Visit!Captchas
  /\ born \in [Visit!Captchas -> Visit!Hours] /\ \A f \in disk : born[f] \in dirs
  /\ hour \in Visit!Hours /\ drawn \in 0..MaxCaptchas
  /\ passes \in Nat /\ solved \subseteq 1..drawn
  /\ overwrites \in Nat /\ failed \in Nat /\ hasty \in Nat

Allowance(e) == IF e.val # None /\ e.val > 0 THEN e.val ELSE 0

(* An entry when n captchas have been drawn.                                *)
EntryOK(e, n) ==
  /\ e.code = e.file /\ e.code <= n
  /\ e.code # 0 => Allowance(e) = 0
  /\ e.val # None => e.val <= Visit!MaxAllowed /\ -e.val <= Visit!MaxAllowed

(* The request has removed the file of the captcha it loaded, and its       *)
(* answer names another or none.                                            *)
Committed(q) == q.pc \in Drawing \/ (q.pc = "respond" /\ q.data.code # q.was.code)

Fresh(q) == q.pc = "respond" /\ q.data.code # q.was.code /\ q.data.code # 0

VisitOK(q, ds, sv, n, h) ==
  /\ EntryOK(q.data, n) /\ EntryOK(q.was, n)
  /\ q.pc = "view" => q.data = q.was
  /\ q.pc # "respond" => ~q.pass
  /\ q.pc \in Drawing => q.data = q.was /\ q.was.val # None /\ q.was.val <= 0 /\ q.hour <= h
  /\ q.pc = "respond" =>
       \/ q.data.code = q.was.code /\ Allowance(q.data) = 0 /\ ~q.pass
       \/ /\ q.data.code = 0 /\ q.was.code = 0 /\ q.pass
          /\ Allowance(q.data) + 1 <= Allowance(q.was)
       \/ /\ q.data.code # q.was.code /\ ~q.pass
          /\ q.data.code = 0 => q.was.code \in sv
  /\ Committed(q) => q.was.code \notin ds

(* A captcha that was drawn and not yet saved is known to its request only. *)
FreshAlone ==
  \A v \in Visitors : Fresh(visit[v]) =>
    /\ visit[v].data.code \notin solved /\ visit[v].data.code # entry.code
    /\ \A u \in Visitors \ {v} : visit[u].data.code # visit[v].data.code /\ visit[u].was.code # visit[v].data.code

Budget ==
  \E paid \in SUBSET solved :
    passes + Allowance(entry) + (IF entry.code \in paid THEN Visit!MaxAllowed ELSE 0)
      <= Visit!MaxAllowed * (Cardinality(paid) + overwrites)

Calm == overwrites = 0 /\ failed = 0 /\ hasty = 0

Expired(f) == born[f] + 1 < hour

(* Nobody was overtaken: each file is the session's or that of an answer to *)
(* come, and a file that is missing is old or its request is to answer.     *)
FilesOK ==
  Calm =>
    /\ \A f \in disk : f = entry.code \/ \E v \in Visitors : Fresh(visit[v]) /\ visit[v].data.code = f
    /\ entry.code \notin disk \cup {0} =>
         Expired(entry.code) \/ \E v \in Visitors : Committed(visit[v]) /\ visit[v].was.code = entry.code
    /\ \A v \in Visitors :
         Fresh(visit[v]) => visit[v].data.code \in disk \/ Expired(visit[v].data.code)

CaptchaInv ==
  /\ CaptchaShapes
  /\ EntryOK(entry, drawn)
  /\ \A v \in Visitors : VisitOK(visit[v], disk, solved, drawn, hour)
  /\ FreshAlone
  /\ Budget
  /\ FilesOK

LEMMA MaxAllowedFacts ==
  /\ Visit!MaxAllowed \in Nat /\ \A a \in Allowed : a <= Visit!MaxAllowed
  /\ MaxCaptchas \in Nat /\ MaxHours \in Nat /\ Allowed \subseteq Nat
<1>1. /\ \E a \in Allowed : \A b \in Allowed : b <= a
      /\ Allowed \subseteq Nat /\ MaxCaptchas \in Nat /\ MaxHours \in Nat
  BY CredentialsAssumption
<1>2. Visit!MaxAllowed \in Allowed /\ \A b \in Allowed : b <= Visit!MaxAllowed
  BY <1>1 DEF Visit!MaxAllowed
<1>. QED
  BY <1>1, <1>2

LEMMA AwayFacts ==
  ASSUME NEW ds \in SUBSET Visit!Captchas, NEW sv, NEW n \in Nat, NEW h
  PROVE  /\ Visit!NoEntry \in Visit!Entry /\ EntryOK(Visit!NoEntry, n)
         /\ Visit!Away \in VisitCall /\ VisitOK(Visit!Away, ds, sv, n, h)
         /\ ~Fresh(Visit!Away) /\ ~Committed(Visit!Away)
         /\ Visit!Away.data.code = 0 /\ Visit!Away.was.code = 0
<1>1. /\ Visit!NoEntry \in Visit!Entry /\ Visit!NoEntry.val = None /\ Visit!NoEntry.code = 0
      /\ Visit!NoEntry.file = 0
  BY DEF Visit!NoEntry, Visit!Entry, Visit!NoCaptcha
<1>2. /\ Visit!Away.pc = "idle" /\ Visit!Away.data = Visit!NoEntry /\ Visit!Away.was = Visit!NoEntry
      /\ ~Visit!Away.pass
  BY DEF Visit!Away
<1>3. Visit!Away \in VisitCall
  <2>1. 1 \in Visit!Hours
    BY MaxAllowedFacts DEF Visit!Hours
  <2>. QED
    BY <1>1, <2>1 DEF Visit!Away, VisitCall
<1>4. EntryOK(Visit!NoEntry, n)
  BY <1>1 DEF EntryOK
<1>. QED
  BY <1>1, <1>2, <1>3, <1>4 DEF VisitOK, Fresh, Committed, Drawing

LEMMA CaptchaInit ==
  ASSUME Visit!Init PROVE CaptchaInv
<1>1. 1 \in Visit!Hours /\ 0 \in 0..MaxCaptchas /\ Visit!MaxAllowed \in Nat
  BY MaxAllowedFacts DEF Visit!Hours
<1>2. /\ Visit!NoEntry \in Visit!Entry /\ EntryOK(Visit!NoEntry, 0)
      /\ Visit!Away \in VisitCall /\ VisitOK(Visit!Away, {}, {}, 0, 1)
      /\ ~Fresh(Visit!Away)
  BY AwayFacts
<1>3. CaptchaShapes
  BY <1>1, <1>2 DEF Visit!Init, CaptchaShapes
<1>4. \A v \in Visitors : visit[v] = Visit!Away
  BY DEF Visit!Init
<1>5. entry.val = None /\ entry.code = 0
  BY DEF Visit!Init, Visit!NoEntry, Visit!NoCaptcha
<1>6. Budget
  <2>1. {} \in SUBSET solved /\ Cardinality({}) = 0 /\ Allowance(entry) = 0
    BY <1>5, FS_EmptySet DEF Allowance
  <2>2. Visit!MaxAllowed * (0 + overwrites) = 0 /\ passes = 0
    BY <1>1 DEF Visit!Init
  <2>. QED
    BY <2>1, <2>2 DEF Budget
<1>7. FreshAlone /\ FilesOK
  BY <1>2, <1>4, <1>5 DEF Visit!Init, FreshAlone, FilesOK
<1>. QED
  BY <1>2, <1>3, <1>4, <1>6, <1>7 DEF Visit!Init, CaptchaInv

(* A step of request v, which leaves it as q and saves nothing.             *)
LEMMA VisitStep ==
  ASSUME CaptchaInv, NEW v \in Visitors, NEW q \in VisitCall,
         visit' = [visit EXCEPT ![v] = q], visit[v].pc # "respond",
         UNCHANGED <<entry, hour, passes, overwrites>>,
         dirs' \subseteq Visit!Hours, disk' \subseteq Visit!Captchas,
         born' \in [Visit!Captchas -> Visit!Hours], \A f \in disk' : born'[f] \in dirs',
         drawn' \in 0..MaxCaptchas, drawn' \in {drawn, drawn + 1},
         solved' \subseteq Visit!Captchas, failed' \in Nat, hasty' \in Nat,
         VisitOK(q, disk', solved', drawn', hour),
         q.data.code \in {visit[v].data.code, entry.code, 0, drawn + 1},
         q.was.code \in {visit[v].was.code, entry.code, 0},
         Fresh(q) => q.data.code = drawn' /\ drawn' = drawn + 1 /\ q.data.code \in disk',
         solved \subseteq solved', solved' \subseteq solved \cup {visit[v].data.code},
         disk' \subseteq disk \cup (IF Fresh(q) THEN {drawn'} ELSE {}),
         \A f \in Visit!Captchas : f <= drawn => born'[f] = born[f],
         Calm' => /\ Calm
                  /\ Committed(visit[v]) => Committed(q) /\ q.was = visit[v].was
                  /\ \A f \in disk \ disk' :
                       Expired(f) \/ (Committed(q) /\ f = q.was.code /\ f = visit[v].was.code)
  PROVE  CaptchaInv'
<1>0. /\ CaptchaShapes /\ EntryOK(entry, drawn) /\ FreshAlone /\ Budget /\ FilesOK
      /\ \A u \in Visitors : VisitOK(visit[u], disk, solved, drawn, hour) /\ visit[u] \in VisitCall
      /\ drawn \in Nat /\ drawn <= drawn' /\ drawn' \in Nat
      /\ visit \in [Visitors -> VisitCall] /\ entry \in Visit!Entry
  BY MaxAllowedFacts DEF CaptchaInv, CaptchaShapes
<1>1. \A u \in Visitors : visit'[u] = IF u = v THEN q ELSE visit[u]
  BY <1>0
<1>2. \A u \in Visitors : /\ visit[u].data.code \in Nat /\ visit[u].data.code <= drawn
                          /\ visit[u].was.code \in Nat /\ visit[u].was.code <= drawn
  <2>1. SUFFICES ASSUME NEW u \in Visitors
                 PROVE  /\ visit[u].data.code \in Nat /\ visit[u].data.code <= drawn
                        /\ visit[u].was.code \in Nat /\ visit[u].was.code <= drawn
    OBVIOUS
  <2>2. visit[u].data \in Visit!Entry /\ visit[u].was \in Visit!Entry
    BY <1>0 DEF VisitCall
  <2>3. EntryOK(visit[u].data, drawn) /\ EntryOK(visit[u].was, drawn)
    BY <1>0 DEF VisitOK
  <2>. QED
    BY <2>2, <2>3, MaxAllowedFacts DEF EntryOK, Visit!Entry, Visit!Captchas, Visit!NoCaptcha
<1>3. entry.code \in Nat /\ entry.code <= drawn
  BY <1>0, MaxAllowedFacts DEF EntryOK, Visit!Entry, Visit!Captchas, Visit!NoCaptcha
<1>4. CaptchaShapes'
  <2>1. solved' \subseteq 1..drawn'
    <3>1. ASSUME NEW x \in solved' PROVE x \in Nat /\ 1 <= x /\ x <= drawn
      <4>1. x \in Visit!Captchas /\ (x \in solved \/ x = visit[v].data.code)
        OBVIOUS
      <4>. QED
        BY <1>0, <1>2, <4>1, MaxAllowedFacts DEF CaptchaShapes, Visit!Captchas
    <3>. QED
      BY <1>0, <3>1
  <2>. QED
    BY <1>0, <2>1 DEF CaptchaShapes
<1>5. EntryOK(entry, drawn)'
  BY <1>0, <1>3 DEF EntryOK
<1>6. ASSUME NEW u \in Visitors PROVE VisitOK(visit[u], disk, solved, drawn, hour)'
  <2>1. CASE u = v
    BY <1>1, <2>1
  <2>2. CASE u # v
    <3>1. visit'[u] = visit[u] /\ VisitOK(visit[u], disk, solved, drawn, hour) /\ hour' = hour
      BY <1>0, <1>1, <2>2
    <3>2. EntryOK(visit[u].data, drawn') /\ EntryOK(visit[u].was, drawn')
      BY <1>0, <1>2, <3>1 DEF VisitOK, EntryOK
    <3>3. Committed(visit[u]) => visit[u].was.code \notin disk'
      BY <1>0, <1>2, <3>1 DEF VisitOK
    <3>. QED
      BY <3>1, <3>2, <3>3 DEF VisitOK
  <2>. QED
    BY <2>1, <2>2
<1>7. FreshAlone'
  <2>1. SUFFICES ASSUME NEW u \in Visitors, Fresh(visit'[u])
                 PROVE  /\ visit'[u].data.code \notin solved' /\ visit'[u].data.code # entry.code
                        /\ \A x \in Visitors \ {u} : /\ visit'[x].data.code # visit'[u].data.code
                                                    /\ visit'[x].was.code # visit'[u].data.code
    BY DEF FreshAlone
  <2>2. CASE u = v
    <3>1. visit'[u].data.code = drawn + 1
      BY <1>1, <2>1, <2>2
    <3>2. drawn + 1 \notin solved'
      BY <1>0, <1>2 DEF CaptchaShapes
    <3>3. drawn + 1 # entry.code
      BY <1>0, <1>3
    <3>4. ASSUME NEW x \in Visitors \ {u}
          PROVE  visit'[x].data.code # drawn + 1 /\ visit'[x].was.code # drawn + 1
      <4>1. visit'[x] = visit[x]
        BY <1>1, <2>2
      <4>. QED
        BY <1>0, <1>2, <4>1
    <3>. QED
      BY <3>1, <3>2, <3>3, <3>4
  <2>3. CASE u # v
    <3>1. /\ visit'[u] = visit[u] /\ visit[u].data.code \notin solved /\ visit[u].data.code # entry.code
          /\ \A x \in Visitors \ {u} : /\ visit[x].data.code # visit[u].data.code
                                      /\ visit[x].was.code # visit[u].data.code
          /\ visit[u].data.code # 0
      BY <1>0, <1>1, <2>1, <2>3 DEF FreshAlone, Fresh
    <3>2. visit[u].data.code \notin solved'
      BY <2>3, <3>1
    <3>3. ASSUME NEW x \in Visitors \ {u}
          PROVE  visit'[x].data.code # visit[u].data.code /\ visit'[x].was.code # visit[u].data.code
      <4>1. CASE x = v
        <5>1. visit'[x] = q
          BY <1>1, <4>1
        <5>2. visit[u].data.code \in Nat /\ visit[u].data.code <= drawn
          BY <1>2
        <5>. QED
          BY <1>0, <3>1, <4>1, <5>1, <5>2
      <4>2. CASE x # v
        BY <1>1, <3>1, <4>2
      <4>. QED
        BY <4>1, <4>2
    <3>. QED
      BY <3>1, <3>2, <3>3
  <2>. QED
    BY <2>2, <2>3
<1>8. Budget'
  <2>1. PICK paid \in SUBSET solved :
          passes + Allowance(entry) + (IF entry.code \in paid THEN Visit!MaxAllowed ELSE 0)
            <= Visit!MaxAllowed * (Cardinality(paid) + overwrites)
    BY <1>0 DEF Budget
  <2>. QED
    BY <2>1 DEF Budget, Allowance
<1>9. FilesOK'
  <2>1. SUFFICES ASSUME Calm'
                 PROVE  /\ \A f \in disk' :
                             f = entry.code \/ \E u \in Visitors : Fresh(visit'[u]) /\ visit'[u].data.code = f
                        /\ entry.code \notin disk' \cup {0} =>
                             \/ born'[entry.code] + 1 < hour
                             \/ \E u \in Visitors : Committed(visit'[u]) /\ visit'[u].was.code = entry.code
                        /\ \A u \in Visitors : Fresh(visit'[u]) =>
                             \/ visit'[u].data.code \in disk'
                             \/ born'[visit'[u].data.code] + 1 < hour
    BY DEF FilesOK, Expired
  <2>2. /\ Calm /\ (Committed(visit[v]) => Committed(q) /\ q.was = visit[v].was)
        /\ \A f \in disk \ disk' :
             born[f] + 1 < hour \/ (Committed(q) /\ f = q.was.code /\ f = visit[v].was.code)
    BY <2>1 DEF Expired
  <2>3. ~Fresh(visit[v])
    BY DEF Fresh
  <2>4. \A u \in Visitors : u # v => visit'[u] = visit[u]
    BY <1>1
  <2>5. visit'[v] = q
    BY <1>1
  <2>6. ASSUME NEW f \in disk'
        PROVE  f = entry.code \/ \E u \in Visitors : Fresh(visit'[u]) /\ visit'[u].data.code = f
    <3>1. CASE f \in disk
      <4>1. f = entry.code \/ \E u \in Visitors : Fresh(visit[u]) /\ visit[u].data.code = f
        BY <1>0, <2>2, <3>1 DEF FilesOK
      <4>. QED
        BY <2>3, <2>4, <4>1
    <3>2. CASE f \notin disk
      BY <2>5, <3>2
    <3>. QED
      BY <3>1, <3>2
  <2>7. ASSUME entry.code \notin disk' \cup {0}
        PROVE  \/ born'[entry.code] + 1 < hour
               \/ \E u \in Visitors : Committed(visit'[u]) /\ visit'[u].was.code = entry.code
    <3>1. born'[entry.code] = born[entry.code]
      BY <1>0, <1>3, <2>7 DEF Visit!Entry, Visit!NoCaptcha
    <3>2. CASE entry.code \in disk
      BY <2>2, <2>5, <2>7, <3>1, <3>2
    <3>3. CASE entry.code \notin disk
      <4>1. \/ born[entry.code] + 1 < hour
            \/ \E u \in Visitors : Committed(visit[u]) /\ visit[u].was.code = entry.code
        BY <1>0, <2>2, <2>7, <3>3 DEF FilesOK, Expired
      <4>. QED
        BY <2>2, <2>4, <2>5, <3>1, <4>1
    <3>. QED
      BY <3>2, <3>3
  <2>8. ASSUME NEW u \in Visitors, Fresh(visit'[u])
        PROVE  \/ visit'[u].data.code \in disk'
               \/ born'[visit'[u].data.code] + 1 < hour
    <3>1. CASE u = v
      BY <2>5, <2>8, <3>1
    <3>2. CASE u # v
      <4> DEFINE f == visit[u].data.code
      <4>1. visit'[u] = visit[u] /\ Fresh(visit[u])
        BY <2>4, <2>8, <3>2
      <4>2. f \in disk \/ born[f] + 1 < hour
        BY <1>0, <2>2, <4>1 DEF FilesOK, Expired
      <4>3. f # visit[v].was.code
        BY <1>0, <3>2, <4>1 DEF FreshAlone
      <4>4. f \in Visit!Captchas /\ f <= drawn
        BY <1>0, <1>2, <4>1 DEF VisitCall, Visit!Entry, Visit!NoCaptcha, Fresh
      <4>5. born'[f] = born[f]
        BY <4>4
      <4> HIDE DEF f
      <4>6. f \in disk' \/ born'[f] + 1 < hour
        BY <2>2, <4>2, <4>3, <4>5
      <4>. QED
        BY <4>1, <4>6 DEF f
    <3>. QED
      BY <3>1, <3>2
  <2>. QED
    BY <2>6, <2>7, <2>8
<1>. QED
  BY <1>4, <1>5, <1>6, <1>7, <1>8, <1>9 DEF CaptchaInv

(* A step that neither draws nor removes a captcha.                         *)
LEMMA PlainStep ==
  ASSUME CaptchaInv, NEW v \in Visitors, NEW q \in VisitCall,
         visit' = [visit EXCEPT ![v] = q], visit[v].pc # "respond",
         UNCHANGED <<entry, disk, born, hour, drawn, passes, solved, overwrites, hasty>>,
         dirs' \subseteq Visit!Hours, dirs \subseteq dirs',
         failed' \in Nat,
         failed' = 0 => failed = 0 /\ (Committed(visit[v]) => Committed(q) /\ q.was = visit[v].was),
         VisitOK(q, disk, solved, drawn, hour), ~Fresh(q),
         q.data.code \in {visit[v].data.code, entry.code, 0},
         q.was.code \in {visit[v].was.code, entry.code, 0}
  PROVE  CaptchaInv'
<1>1. /\ disk' \subseteq Visit!Captchas /\ born' \in [Visit!Captchas -> Visit!Hours]
      /\ \A f \in disk' : born'[f] \in dirs'
      /\ drawn' \in 0..MaxCaptchas /\ hasty' \in Nat
      /\ solved' \subseteq Visit!Captchas
  <2>1. 1..drawn \subseteq Visit!Captchas
    BY MaxAllowedFacts DEF CaptchaInv, CaptchaShapes, Visit!Captchas
  <2>. QED
    BY <2>1 DEF CaptchaInv, CaptchaShapes
<1>2. VisitOK(q, disk', solved', drawn', hour)
  OBVIOUS
<1>3. Calm' => Calm /\ (Committed(visit[v]) => Committed(q) /\ q.was = visit[v].was)
  BY DEF Calm
<1>. QED
  BY <1>1, <1>2, <1>3, VisitStep

LEMMA VisitFacts ==
  ASSUME CaptchaInv, NEW v \in Visitors
  PROVE  /\ visit \in [Visitors -> VisitCall] /\ visit[v] \in VisitCall /\ entry \in Visit!Entry
         /\ visit[v].data \in Visit!Entry /\ visit[v].was \in Visit!Entry
         /\ EntryOK(entry, drawn) /\ EntryOK(visit[v].data, drawn) /\ EntryOK(visit[v].was, drawn)
         /\ VisitOK(visit[v], disk, solved, drawn, hour)
         /\ drawn \in Nat /\ failed \in Nat /\ dirs \subseteq Visit!Hours /\ disk \in SUBSET Visit!Captchas
         /\ born \in [Visit!Captchas -> Visit!Hours] /\ \A f \in disk : born[f] \in dirs
         /\ hour \in Visit!Hours /\ drawn \in 0..MaxCaptchas /\ solved \subseteq 1..drawn
         /\ solved \subseteq Visit!Captchas /\ overwrites \in Nat /\ hasty \in Nat /\ passes \in Nat
<1>1. /\ CaptchaShapes /\ EntryOK(entry, drawn) /\ VisitOK(visit[v], disk, solved, drawn, hour)
  BY DEF CaptchaInv
<1>2. drawn \in Nat /\ solved \subseteq Visit!Captchas
  BY <1>1, MaxAllowedFacts DEF CaptchaShapes, Visit!Captchas
<1>. QED
  BY <1>1, <1>2 DEF CaptchaShapes, VisitCall, VisitOK

LEMMA BeginStep ==
  ASSUME CaptchaInv, NEW v \in Visitors, Visit!Begin(v)
  PROVE  CaptchaInv'
<1> DEFINE q == [Visit!Away EXCEPT !.pc = "view", !.data = entry, !.was = entry]
<1>1. /\ visit' = [visit EXCEPT ![v] = q] /\ visit[v].pc = "idle"
      /\ UNCHANGED <<entry, dirs, disk, born, hour, drawn, passes, solved, overwrites, hasty, failed>>
  BY DEF Visit!Begin, Visit!At, Visit!files, Visit!history
<1>2. q \in VisitCall /\ q.pc = "view" /\ q.data = entry /\ q.was = entry /\ ~q.pass
  <2>1. 1 \in Visit!Hours
    BY MaxAllowedFacts DEF Visit!Hours
  <2>. QED
    BY <2>1, VisitFacts DEF Visit!Away, VisitCall
<1> HIDE DEF q
<1>3. VisitOK(q, disk, solved, drawn, hour) /\ ~Fresh(q) /\ ~Committed(visit[v])
  BY <1>1, <1>2, VisitFacts DEF VisitOK, Fresh, Committed, Drawing
<1>. QED
  BY <1>1, <1>2, <1>3, VisitFacts, PlainStep

LEMMA LeaveSteps ==
  ASSUME CaptchaInv, NEW v \in Visitors,
         Visit!Refuse(v) \/ Visit!CheckWrong(v) \/ Visit!DrawFails(v)
  PROVE  CaptchaInv'
<1>1. /\ visit' = [visit EXCEPT ![v] = Visit!Away] /\ visit[v].pc # "respond"
      /\ UNCHANGED <<entry, dirs, disk, born, hour, drawn, passes, solved, overwrites, hasty>>
      /\ \/ failed' = failed + 1
         \/ failed' = failed /\ visit[v].pc = "view"
  BY DEF Visit!Refuse, Visit!CheckWrong, Visit!DrawFails, Visit!Leave, Visit!At, Visit!files,
     Visit!counts, Visit!history
<1>2. /\ Visit!Away \in VisitCall /\ VisitOK(Visit!Away, disk, solved, drawn, hour)
      /\ ~Fresh(Visit!Away) /\ Visit!Away.data.code = 0 /\ Visit!Away.was.code = 0
  BY VisitFacts, AwayFacts
<1>3. failed' \in Nat /\ (failed' = 0 => failed = 0 /\ ~Committed(visit[v]))
  BY <1>1, VisitFacts DEF Committed, Drawing
<1>. QED
  BY <1>1, <1>2, <1>3, VisitFacts, PlainStep

LEMMA RequireStep ==
  ASSUME CaptchaInv, NEW v \in Visitors, NEW a \in Allowed, Visit!Require(v, a)
  PROVE  CaptchaInv'
<1> DEFINE d == [visit[v].data EXCEPT !.val = -a]
           q == [visit[v] EXCEPT !.pc = "respond", !.data = d]
<1>0. a \in Nat /\ a <= Visit!MaxAllowed /\ Visit!MaxAllowed \in Nat
  BY MaxAllowedFacts
<1>1. /\ visit[v].pc = "view" /\ visit' = [visit EXCEPT ![v].pc = "respond", ![v].data = d]
      /\ UNCHANGED <<entry, dirs, disk, born, hour, drawn, passes, solved, overwrites, hasty, failed>>
  BY DEF Visit!Require, Visit!With, Visit!At, Visit!files, Visit!counts, Visit!history
<1>2. /\ d \in Visit!Entry /\ d.val = -a /\ d.code = visit[v].data.code /\ d.file = visit[v].data.file
  BY <1>0, VisitFacts DEF Visit!Entry
<1> HIDE DEF d
<1>3. /\ q \in VisitCall /\ q.pc = "respond" /\ q.data = d /\ q.was = visit[v].was
      /\ q.pass = visit[v].pass
  BY <1>2, VisitFacts DEF VisitCall
<1>4. visit' = [visit EXCEPT ![v] = q]
  BY <1>1, VisitFacts
<1> HIDE DEF q
<1>5. EntryOK(d, drawn) /\ Allowance(d) = 0
  BY <1>0, <1>2, VisitFacts DEF EntryOK, Allowance
<1>6. /\ visit[v].data = visit[v].was /\ ~visit[v].pass /\ ~Committed(visit[v])
  BY <1>1, VisitFacts DEF VisitOK, Committed, Drawing
<1>7. VisitOK(q, disk, solved, drawn, hour) /\ ~Fresh(q)
  BY <1>2, <1>3, <1>5, <1>6, VisitFacts DEF VisitOK, Committed, Fresh, Drawing
<1>. QED
  BY <1>1, <1>2, <1>3, <1>4, <1>6, <1>7, VisitFacts, PlainStep

LEMMA PassStep ==
  ASSUME CaptchaInv, NEW v \in Visitors, Visit!Pass(v)
  PROVE  CaptchaInv'
<1> DEFINE val == visit[v].data.val
           left == IF val = 1 THEN None ELSE val - 1
           d == [visit[v].data EXCEPT !.val = left]
           q == [visit[v] EXCEPT !.pc = "respond", !.pass = TRUE, !.data = d]
<1>0. Visit!MaxAllowed \in Nat
  BY MaxAllowedFacts
<1>1. /\ visit[v].pc = "view" /\ val # None /\ val > 0
      /\ visit' = [visit EXCEPT ![v].pc = "respond", ![v].pass = TRUE, ![v].data.val = left]
      /\ UNCHANGED <<entry, dirs, disk, born, hour, drawn, passes, solved, overwrites, hasty, failed>>
  BY DEF Visit!Pass, Visit!At, Visit!files, Visit!counts, Visit!history
<1>2. val \in Int /\ val <= Visit!MaxAllowed /\ visit[v].data.code = 0 /\ visit[v].data.file = 0
  BY <1>1, VisitFacts DEF EntryOK, Visit!Entry, Allowance
<1>3. left \in Int \cup {None}
  BY <1>2
<1>4. /\ d \in Visit!Entry /\ d.val = left /\ d.code = 0 /\ d.file = 0
  BY <1>2, <1>3, VisitFacts DEF Visit!Entry
<1>5. EntryOK(d, drawn) /\ Allowance(d) + 1 <= val
  BY <1>0, <1>1, <1>2, <1>4, VisitFacts DEF EntryOK, Allowance
<1>6. visit' = [visit EXCEPT ![v] = q]
  BY <1>1, VisitFacts
<1> HIDE DEF d
<1>7. /\ q \in VisitCall /\ q.pc = "respond" /\ q.data = d /\ q.was = visit[v].was /\ q.pass
  BY <1>4, VisitFacts DEF VisitCall
<1> HIDE DEF q
<1>8. /\ visit[v].data = visit[v].was /\ ~Committed(visit[v]) /\ Allowance(visit[v].was) = val
  BY <1>1, VisitFacts DEF VisitOK, Committed, Drawing, Allowance
<1>9. VisitOK(q, disk, solved, drawn, hour) /\ ~Fresh(q)
  BY <1>2, <1>4, <1>5, <1>7, <1>8, VisitFacts DEF VisitOK, Committed, Fresh, Drawing
<1>. QED
  BY <1>1, <1>4, <1>6, <1>7, <1>8, <1>9, VisitFacts, PlainStep

LEMMA RedrawStep ==
  ASSUME CaptchaInv, NEW v \in Visitors, Visit!Redraw(v)
  PROVE  CaptchaInv'
<1> DEFINE q == [visit[v] EXCEPT !.pc = "draw", !.hour = hour]
           f == visit[v].data.code
<1>1. /\ visit[v].pc = "view" /\ visit' = [visit EXCEPT ![v].pc = "draw", ![v].hour = hour]
      /\ visit[v].data.val # None /\ visit[v].data.val < 0
      /\ disk' = Visit!Without(visit[v].data.file)
      /\ UNCHANGED <<entry, dirs, born, hour, drawn, passes, solved, overwrites, hasty, failed>>
  BY DEF Visit!Redraw, Visit!Asked, Visit!At, Visit!counts, Visit!history
<1>2. /\ q \in VisitCall /\ q.pc = "draw" /\ q.data = visit[v].data /\ q.was = visit[v].was
      /\ q.hour = hour /\ q.pass = visit[v].pass
  BY VisitFacts DEF VisitCall, Drawing
<1>3. visit' = [visit EXCEPT ![v] = q]
  BY <1>1, VisitFacts
<1> HIDE DEF q
<1>4. visit[v].data = visit[v].was /\ ~visit[v].pass /\ ~Committed(visit[v])
  BY <1>1, VisitFacts DEF VisitOK, Committed, Drawing
<1>5. disk' = disk \ {f} /\ 0 \notin disk
  BY <1>1, VisitFacts DEF Visit!Without, Visit!NoCaptcha, EntryOK, Visit!Captchas
<1>6. visit[v].data.val \in Int
  BY <1>1, VisitFacts DEF Visit!Entry
<1>7. hour \in Nat
  BY VisitFacts, MaxAllowedFacts DEF Visit!Hours
<1>8. VisitOK(q, disk', solved', drawn', hour) /\ ~Fresh(q) /\ Committed(q)
  BY <1>1, <1>2, <1>4, <1>5, <1>6, <1>7, VisitFacts DEF VisitOK, Committed, Fresh, Drawing
<1>9. /\ disk' \subseteq Visit!Captchas /\ \A g \in disk' : born'[g] \in dirs'
      /\ Calm' => Calm
      /\ \A g \in disk \ disk' : g = q.was.code /\ g = visit[v].was.code
  BY <1>1, <1>2, <1>4, <1>5, VisitFacts DEF Calm
<1>. QED
  BY <1>1, <1>2, <1>3, <1>4, <1>5, <1>8, <1>9, VisitFacts, VisitStep

LEMMA CheckRightStep ==
  ASSUME CaptchaInv, NEW v \in Visitors, Visit!CheckRight(v)
  PROVE  CaptchaInv'
<1> DEFINE f == visit[v].data.code
           d == [val |-> -visit[v].data.val, code |-> 0, file |-> 0]
           q == [visit[v] EXCEPT !.pc = "respond", !.data = d]
<1>1. /\ visit[v].pc = "view" /\ visit' = [visit EXCEPT ![v].pc = "respond", ![v].data = d]
      /\ visit[v].data.val # None /\ visit[v].data.val < 0 /\ f # 0
      /\ solved' = solved \cup {f} /\ disk' = Visit!Without(visit[v].data.file)
      /\ UNCHANGED <<entry, dirs, born, hour, drawn, passes, overwrites, hasty, failed>>
  BY DEF Visit!CheckRight, Visit!Asked, Visit!At, Visit!With, Visit!counts, Visit!NoCaptcha
<1>2. visit[v].data.val \in Int
  BY <1>1, VisitFacts DEF Visit!Entry
<1>3. d \in Visit!Entry /\ EntryOK(d, drawn) /\ d.code = 0
  BY <1>1, <1>2, MaxAllowedFacts, VisitFacts DEF EntryOK, Visit!Entry, Visit!NoCaptcha
<1> HIDE DEF d
<1>4. /\ q \in VisitCall /\ q.pc = "respond" /\ q.data = d /\ q.was = visit[v].was
      /\ q.pass = visit[v].pass
  BY <1>3, VisitFacts DEF VisitCall
<1>5. visit' = [visit EXCEPT ![v] = q]
  BY <1>1, VisitFacts
<1> HIDE DEF q
<1>6. visit[v].data = visit[v].was /\ ~visit[v].pass /\ ~Committed(visit[v])
  BY <1>1, VisitFacts DEF VisitOK, Committed, Drawing
<1>7. disk' = disk \ {f} /\ 0 \notin disk
  BY <1>1, VisitFacts DEF Visit!Without, Visit!NoCaptcha, EntryOK, Visit!Captchas
<1>8. VisitOK(q, disk', solved', drawn', hour) /\ ~Fresh(q) /\ Committed(q)
  BY <1>1, <1>3, <1>4, <1>6, <1>7, VisitFacts DEF VisitOK, Committed, Fresh, Drawing
<1>9. /\ disk' \subseteq Visit!Captchas /\ \A g \in disk' : born'[g] \in dirs'
      /\ Calm' => Calm
      /\ \A g \in disk \ disk' : g = q.was.code /\ g = visit[v].was.code
  BY <1>1, <1>4, <1>6, <1>7, VisitFacts DEF Calm
<1>10. solved \subseteq solved' /\ solved' \subseteq solved \cup {f} /\ solved' \subseteq Visit!Captchas
  BY <1>1, VisitFacts DEF Visit!Entry, Visit!NoCaptcha
<1>. QED
  BY <1>1, <1>3, <1>4, <1>5, <1>6, <1>7, <1>8, <1>9, <1>10, VisitFacts, VisitStep

(* The subprocess goes on, and its request waits for it.                    *)
LEMMA DrawingFacts ==
  ASSUME CaptchaInv, NEW v \in Visitors, visit[v].pc \in Drawing, NEW pc \in Drawing,
         Visit!With(v, pc, visit[v].data)
  PROVE  \E q \in VisitCall :
           /\ visit' = [visit EXCEPT ![v] = q] /\ q.pc = pc /\ q.data = visit[v].data
           /\ q.was = visit[v].was /\ q.hour = visit[v].hour
           /\ VisitOK(q, disk, solved, drawn, hour) /\ ~Fresh(q) /\ Committed(q)
<1> DEFINE q == [visit[v] EXCEPT !.pc = pc]
<1>1. /\ q \in VisitCall /\ q.pc = pc /\ q.data = visit[v].data /\ q.was = visit[v].was
      /\ q.hour = visit[v].hour /\ q.pass = visit[v].pass
  BY VisitFacts DEF VisitCall
<1>2. visit' = [visit EXCEPT ![v] = q]
  BY VisitFacts DEF Visit!With, VisitCall
<1> HIDE DEF q
<1>3. VisitOK(q, disk, solved, drawn, hour) /\ ~Fresh(q) /\ Committed(q)
  BY <1>1, VisitFacts DEF VisitOK, Committed, Fresh, Drawing
<1>. QED
  BY <1>1, <1>2, <1>3

LEMMA DirSteps ==
  ASSUME CaptchaInv, NEW v \in Visitors, Visit!FindDir(v) \/ Visit!MakeDir(v)
  PROVE  CaptchaInv'
<1>1. PICK pc \in Drawing : Visit!With(v, pc, visit[v].data)
  BY DEF Visit!FindDir, Visit!MakeDir, Drawing
<1>2. /\ visit[v].pc \in Drawing
      /\ UNCHANGED <<entry, disk, born, hour, drawn, passes, solved, overwrites, hasty, failed>>
      /\ dirs' = dirs \/ dirs' = dirs \cup {visit[v].hour}
  BY DEF Visit!FindDir, Visit!MakeDir, Visit!At, Drawing, Visit!files, Visit!counts, Visit!history
<1>3. PICK q \in VisitCall :
        /\ visit' = [visit EXCEPT ![v] = q] /\ q.pc = pc /\ q.data = visit[v].data
        /\ q.was = visit[v].was
        /\ VisitOK(q, disk, solved, drawn, hour) /\ ~Fresh(q) /\ Committed(q)
  BY <1>1, <1>2, DrawingFacts
<1>4. dirs' \subseteq Visit!Hours /\ dirs \subseteq dirs'
  BY <1>2, VisitFacts DEF VisitCall
<1>5. visit[v].pc # "respond"
  BY <1>2 DEF Drawing
<1>. QED
  BY <1>2, <1>3, <1>4, <1>5, VisitFacts, PlainStep

(* The operator of the module that Captcha extends, and the one of this.    *)
LEMMA SameCardinality ==
  ASSUME NEW S PROVE Visit!Cardinality(S) = Cardinality(S)
BY DEF Visit!Cardinality, Cardinality, Visit!IsFiniteSet, IsFiniteSet

LEMMA SweepStep ==
  ASSUME CaptchaInv, NEW v \in Visitors, Visit!Sweep(v)
  PROVE  CaptchaInv'
<1> DEFINE kept == dirs \cap {visit[v].hour - 1}
           young == {d \in dirs : d >= visit[v].hour}
<1>1. /\ visit[v].pc = "sweep" /\ dirs' = kept /\ disk' = {f \in disk : born[f] \in kept}
      /\ hasty' = hasty + Cardinality(young) /\ Visit!With(v, "mkdir", visit[v].data)
      /\ UNCHANGED <<entry, born, hour, drawn, passes, solved, overwrites, failed>>
  <2>1. hasty' = hasty + Cardinality(young)
    BY SameCardinality DEF Visit!Sweep
  <2>. QED
    BY <2>1 DEF Visit!Sweep, Visit!At, Visit!counts
<1>2. "sweep" \in Drawing /\ "mkdir" \in Drawing /\ "respond" \notin Drawing
  BY DEF Drawing
<1>3. PICK q \in VisitCall :
        /\ visit' = [visit EXCEPT ![v] = q] /\ q.data = visit[v].data
        /\ q.was = visit[v].was
        /\ VisitOK(q, disk, solved, drawn, hour) /\ ~Fresh(q) /\ Committed(q)
  BY <1>1, <1>2, DrawingFacts
<1>4. VisitOK(q, disk', solved', drawn', hour)
  BY <1>1, <1>3 DEF VisitOK
<1>5. IsFiniteSet(young) /\ Cardinality(young) \in Nat /\ (Cardinality(young) = 0 => young = {})
  <2>1. IsFiniteSet(Visit!Hours)
    BY MaxAllowedFacts, FS_Interval DEF Visit!Hours
  <2>2. IsFiniteSet(young)
    BY <2>1, VisitFacts, FS_Subset
  <2>. QED
    BY <2>2, FS_EmptySet, FS_CardinalityType
<1>6. Calm' => Calm /\ young = {}
  <2> HIDE DEF young
  <2>. QED
    BY <1>1, <1>5, VisitFacts DEF Calm
<1>7. ASSUME Calm', NEW f \in disk \ disk' PROVE Expired(f)
  <2>1. born[f] \in dirs /\ born[f] \notin kept /\ born[f] \in Nat
    BY <1>1, VisitFacts, MaxAllowedFacts DEF Visit!Hours
  <2>2. visit[v].hour \in Nat /\ visit[v].hour <= hour /\ hour \in Nat
    BY <1>1, <1>2, VisitFacts, MaxAllowedFacts DEF VisitOK, VisitCall, Visit!Hours
  <2>3. ~(born[f] >= visit[v].hour)
    BY <1>6, <1>7, <2>1
  <2>4. born[f] # visit[v].hour - 1
    BY <2>1
  <2>. QED
    BY <2>1, <2>2, <2>3, <2>4 DEF Expired
<1>8. /\ dirs' \subseteq Visit!Hours /\ disk' \subseteq Visit!Captchas
      /\ \A f \in disk' : born'[f] \in dirs' /\ disk' \subseteq disk
  BY <1>1, VisitFacts
<1>9. hasty' \in Nat
  <2> HIDE DEF young
  <2>. QED
    BY <1>1, <1>5, VisitFacts
<1> HIDE DEF kept, young
<1>10. disk' \subseteq disk
  BY <1>1
<1>. QED
  BY <1>1, <1>2, <1>3, <1>4, <1>6, <1>7, <1>8, <1>9, <1>10, VisitFacts, VisitStep

LEMMA WriteFileStep ==
  ASSUME CaptchaInv, NEW v \in Visitors, Visit!Write(v)
  PROVE  CaptchaInv'
<1> DEFINE c == drawn + 1
           d == [visit[v].data EXCEPT !.code = c, !.file = c]
           q == [visit[v] EXCEPT !.pc = "respond", !.data = d]
<1>1. /\ visit[v].pc = "write" /\ visit[v].hour \in dirs /\ drawn < MaxCaptchas
      /\ drawn' = c /\ disk' = disk \cup {c} /\ born' = [born EXCEPT ![c] = visit[v].hour]
      /\ visit' = [visit EXCEPT ![v].pc = "respond", ![v].data = d]
      /\ UNCHANGED <<entry, dirs, hour, passes, solved, overwrites, hasty, failed>>
  BY DEF Visit!Write, Visit!At, Visit!With, Visit!history
<1>2. c \in Nat /\ c \in Visit!Captchas /\ c \in 0..MaxCaptchas /\ c # 0 /\ drawn < c
  BY <1>1, VisitFacts, MaxAllowedFacts DEF Visit!Captchas
<1>3. /\ d \in Visit!Entry /\ d.val = visit[v].data.val /\ d.code = c /\ d.file = c
  BY <1>2, VisitFacts DEF Visit!Entry
<1> HIDE DEF d
<1>4. /\ q \in VisitCall /\ q.pc = "respond" /\ q.data = d /\ q.was = visit[v].was
      /\ q.pass = visit[v].pass
  BY <1>3, VisitFacts DEF VisitCall
<1>5. visit' = [visit EXCEPT ![v] = q]
  BY <1>1, VisitFacts
<1> HIDE DEF q
<1>6. /\ visit[v].data = visit[v].was /\ ~visit[v].pass /\ visit[v].was.val <= 0
      /\ visit[v].was.val \in Int /\ visit[v].was.val # None
      /\ visit[v].was.code \notin disk
  BY <1>1, VisitFacts DEF VisitOK, Committed, Drawing, Visit!Entry
<1>7. EntryOK(d, drawn') /\ EntryOK(visit[v].was, drawn')
  BY <1>1, <1>2, <1>3, <1>6, VisitFacts DEF EntryOK, Allowance, Visit!Entry, Visit!Captchas, Visit!NoCaptcha
<1>8. visit[v].was.code # c
  BY <1>2, VisitFacts, MaxAllowedFacts DEF EntryOK, Visit!Entry, Visit!Captchas, Visit!NoCaptcha
<1>9. VisitOK(q, disk', solved', drawn', hour) /\ Fresh(q) /\ Committed(q)
  BY <1>1, <1>2, <1>3, <1>4, <1>6, <1>7, <1>8 DEF VisitOK, Committed, Fresh, Drawing
<1>10. /\ born' \in [Visit!Captchas -> Visit!Hours]
       /\ \A f \in Visit!Captchas : f <= drawn => born'[f] = born[f]
       /\ \A f \in disk' : born'[f] \in dirs'
  <2>1. visit[v].hour \in Visit!Hours
    BY VisitFacts DEF VisitCall
  <2>2. \A f \in Visit!Captchas : born'[f] = IF f = c THEN visit[v].hour ELSE born[f]
    BY <1>1, VisitFacts
  <2>. QED
    BY <1>1, <1>2, <2>1, <2>2, VisitFacts
<1>11. Calm' => Calm
  BY <1>1 DEF Calm
<1> HIDE DEF c
<1>12. /\ disk' \subseteq Visit!Captchas /\ disk \ disk' = {} /\ disk' \subseteq disk \cup {drawn'}
       /\ c \in disk' /\ dirs' \subseteq Visit!Hours /\ solved' \subseteq Visit!Captchas
  BY <1>1, <1>2, VisitFacts
<1>. QED
  BY <1>1, <1>2, <1>3, <1>4, <1>5, <1>9, <1>10, <1>11, <1>12, VisitFacts, VisitStep DEF c

LEMMA TickStep ==
  ASSUME CaptchaInv, Visit!Tick
  PROVE  CaptchaInv'
<1>1. /\ hour' = hour + 1 /\ hour < MaxHours
      /\ UNCHANGED <<entry, visit, dirs, disk, born, drawn, passes, solved, overwrites, failed, hasty>>
  BY DEF Visit!Tick, Visit!files, Visit!counts, Visit!history
<1>2. hour \in Nat /\ hour' \in Visit!Hours /\ CaptchaShapes
  BY <1>1, MaxAllowedFacts DEF CaptchaInv, CaptchaShapes, Visit!Hours
<1>3. CaptchaShapes'
  BY <1>1, <1>2 DEF CaptchaShapes
<1>4. ASSUME NEW v \in Visitors PROVE VisitOK(visit[v], disk, solved, drawn, hour)'
  <2>1. VisitOK(visit[v], disk, solved, drawn, hour) /\ visit[v].hour \in Nat
    BY <1>2, VisitFacts, MaxAllowedFacts DEF VisitCall, Visit!Hours
  <2>. QED
    BY <1>1, <1>2, <2>1 DEF VisitOK
<1>5. EntryOK(entry, drawn)' /\ FreshAlone' /\ Budget'
  BY <1>1 DEF CaptchaInv, FreshAlone, Budget
<1>6. FilesOK'
  <2>1. \A f \in Visit!Captchas : Expired(f) => Expired(f)'
    BY <1>1, <1>2, MaxAllowedFacts DEF Expired, CaptchaShapes, Visit!Hours
  <2>2. entry.code \in Visit!Captchas \cup {0}
    BY <1>2 DEF CaptchaShapes, Visit!Entry, Visit!NoCaptcha
  <2>3. ASSUME NEW v \in Visitors, Fresh(visit[v]) PROVE visit[v].data.code \in Visit!Captchas
    BY <1>2, <2>3 DEF CaptchaShapes, VisitCall, Visit!Entry, Visit!NoCaptcha, Fresh
  <2>4. Calm' = Calm /\ entry' = entry /\ visit' = visit /\ disk' = disk
    BY <1>1 DEF Calm
  <2>5. FilesOK
    BY DEF CaptchaInv
  <2>6. entry.code # 0 /\ Expired(entry.code) => Expired(entry.code)'
    BY <1>1, <2>1, <2>2, <2>4 DEF Expired
  <2>7. ASSUME NEW v \in Visitors, Fresh(visit[v]), Expired(visit[v].data.code)
        PROVE  Expired(visit[v].data.code)'
    BY <1>1, <2>1, <2>3, <2>4, <2>7 DEF Expired
  <2>. QED
    BY <2>4, <2>5, <2>6, <2>7 DEF FilesOK
<1>. QED
  BY <1>3, <1>4, <1>5, <1>6 DEF CaptchaInv

(* Whoever writes over another's save has an allowance for it.              *)
LEMMA RespondBudget ==
  ASSUME CaptchaInv, NEW v \in Visitors, Visit!Respond(v)
  PROVE  Budget'
<1> DEFINE q == visit[v]
           m == Visit!MaxAllowed
<1>1. /\ q.pc = "respond" /\ entry' = q.data /\ solved' = solved
      /\ overwrites' = (IF entry = q.was THEN overwrites ELSE overwrites + 1)
      /\ passes' = (IF q.pass THEN passes + 1 ELSE passes)
  BY DEF Visit!Respond, Visit!At
<1>2. m \in Nat /\ overwrites \in Nat /\ passes \in Nat /\ EntryOK(q.data, drawn)
      /\ EntryOK(q.was, drawn) /\ EntryOK(entry, drawn) /\ VisitOK(q, disk, solved, drawn, hour)
      /\ q.data \in Visit!Entry /\ q.was \in Visit!Entry /\ entry \in Visit!Entry
      /\ solved \subseteq 1..drawn /\ drawn \in Nat
  BY VisitFacts, MaxAllowedFacts
<1>3. /\ Allowance(q.data) \in Nat /\ Allowance(q.data) <= m
      /\ Allowance(q.was) \in Nat /\ Allowance(q.was) <= m
      /\ Allowance(entry) \in Nat
  BY <1>2 DEF Allowance, EntryOK, Visit!Entry
<1>4. PICK paid \in SUBSET solved :
        passes + Allowance(entry) + (IF entry.code \in paid THEN m ELSE 0)
          <= m * (Cardinality(paid) + overwrites)
  BY DEF CaptchaInv, Budget
<1>5. IsFiniteSet(paid) /\ Cardinality(paid) \in Nat /\ 0 \notin paid
  <2>1. IsFiniteSet(1..drawn)
    BY <1>2, FS_Interval
  <2>2. IsFiniteSet(paid)
    BY <1>2, <2>1, FS_Subset
  <2>. QED
    BY <1>2, <2>2, FS_CardinalityType
<1> DEFINE k == Cardinality(paid) + overwrites
<1>6. k \in Nat /\ m * k \in Nat /\ m * (k + 1) = m * k + m
  BY <1>2, <1>5
<1>7. passes' + Allowance(q.data) <= passes + m
  BY <1>1, <1>2, <1>3 DEF VisitOK, EntryOK
<1>8. /\ q.pass => q.data.code = 0 /\ Allowance(q.data) + 1 <= Allowance(q.was)
      /\ q.data.code # 0 => Allowance(q.data) = 0
  BY <1>1, <1>2 DEF VisitOK, EntryOK
<1>9. CASE entry # q.was
  <2>1. overwrites' = overwrites + 1 /\ Cardinality(paid) + overwrites' = k + 1
    BY <1>1, <1>2, <1>5, <1>9
  <2>2. passes' + Allowance(q.data) + (IF q.data.code \in paid THEN m ELSE 0) <= passes + m
    <3>1. CASE q.data.code = 0
      <4>1. (IF q.data.code \in paid THEN m ELSE 0) = 0
        BY <1>5, <3>1
      <4>2. passes' \in Nat /\ Allowance(q.data) \in Nat
        BY <1>1, <1>2, <1>3
      <4>. QED
        BY <1>7, <4>1, <4>2
    <3>2. CASE q.data.code # 0
      BY <1>1, <1>2, <1>5, <1>8, <3>2
    <3>. QED
      BY <3>1, <3>2
  <2>3. passes <= m * k
    BY <1>2, <1>3, <1>4, <1>6
  <2> DEFINE spent == passes' + Allowance(q.data) + (IF q.data.code \in paid THEN m ELSE 0)
  <2>4. spent \in Nat
    BY <1>1, <1>2, <1>3
  <2>5. spent <= m * (Cardinality(paid) + overwrites')
    BY <1>2, <1>6, <2>1, <2>2, <2>3, <2>4
  <2>. QED
    BY <1>1, <2>5 DEF Budget, Allowance
<1>10. CASE entry = q.was
  <2>1. overwrites' = overwrites
    BY <1>1, <1>10
  <2>2. CASE q.data.code = q.was.code
    <3>1. passes' + Allowance(q.data) <= passes + Allowance(entry)
      BY <1>1, <1>2, <1>3, <1>8, <1>10, <2>2 DEF VisitOK
    <3> DEFINE spent == passes' + Allowance(q.data) + (IF q.data.code \in paid THEN m ELSE 0)
    <3>2. spent <= m * k
      BY <1>1, <1>2, <1>3, <1>4, <1>6, <1>10, <2>2, <3>1
    <3>. QED
      BY <1>1, <2>1, <3>2 DEF Budget, Allowance
  <2>3. CASE q.data.code # q.was.code /\ q.data.code # 0
    <3>1. q.data.code \notin paid
      BY <1>1, <2>3 DEF CaptchaInv, FreshAlone, Fresh
    <3>2. ~q.pass /\ Allowance(q.data) = 0
      BY <1>1, <1>2, <1>8, <2>3 DEF VisitOK
    <3> DEFINE spent == passes' + Allowance(q.data) + (IF q.data.code \in paid THEN m ELSE 0)
    <3>3. spent <= m * k
      BY <1>1, <1>2, <1>3, <1>4, <1>6, <3>1, <3>2
    <3>. QED
      BY <1>1, <2>1, <3>3 DEF Budget, Allowance
  <2>4. CASE q.data.code # q.was.code /\ q.data.code = 0
    <3>1. q.was.code \in solved /\ ~q.pass
      BY <1>1, <1>2, <2>4 DEF VisitOK
    <3> DEFINE also == paid \cup {entry.code}
               spent == passes' + Allowance(q.data) + (IF q.data.code \in also THEN m ELSE 0)
    <3>2. also \in SUBSET solved /\ 0 \notin also
      BY <1>2, <1>10, <3>1
    <3>3. Cardinality(also) = (IF entry.code \in paid THEN Cardinality(paid) ELSE Cardinality(paid) + 1)
      BY <1>5, FS_AddElement
    <3>4. spent <= passes + m
      BY <1>1, <1>2, <1>3, <2>4, <3>1, <3>2
    <3>5. spent \in Nat
      BY <1>1, <1>2, <1>3
    <3> HIDE DEF also, spent
    <3>6. spent <= m * (Cardinality(also) + overwrites)
      <4>1. CASE entry.code \in paid
        BY <1>2, <1>3, <1>4, <1>6, <3>3, <3>4, <3>5, <4>1
      <4>2. CASE entry.code \notin paid
        <5>1. Cardinality(also) + overwrites = k + 1
          BY <1>2, <1>5, <3>3, <4>2
        <5>2. passes <= m * k
          BY <1>2, <1>3, <1>4, <1>6
        <5>. QED
          BY <1>2, <1>6, <3>4, <3>5, <5>1, <5>2
      <4>. QED
        BY <4>1, <4>2
    <3>. QED
      BY <1>1, <2>1, <3>2, <3>6 DEF Budget, Allowance, spent
  <2>. QED
    BY <2>2, <2>3, <2>4
<1>. QED
  BY <1>9, <1>10

LEMMA RespondStep ==
  ASSUME CaptchaInv, NEW v \in Visitors, Visit!Respond(v)
  PROVE  CaptchaInv'
<1> DEFINE q == visit[v]
<1>1. /\ q.pc = "respond" /\ entry' = q.data /\ visit' = [visit EXCEPT ![v] = Visit!Away]
      /\ overwrites' = (IF entry = q.was THEN overwrites ELSE overwrites + 1)
      /\ passes' = (IF q.pass THEN passes + 1 ELSE passes)
      /\ UNCHANGED <<dirs, disk, born, hour, drawn, solved, failed, hasty>>
  BY DEF Visit!Respond, Visit!At, Visit!Leave, Visit!files, Visit!counts
<1>2. /\ Visit!Away \in VisitCall /\ VisitOK(Visit!Away, disk, solved, drawn, hour)
      /\ ~Fresh(Visit!Away) /\ ~Committed(Visit!Away)
      /\ Visit!Away.data.code = 0 /\ Visit!Away.was.code = 0
  BY VisitFacts, AwayFacts
<1>3. visit'[v] = Visit!Away /\ \A u \in Visitors \ {v} : visit'[u] = visit[u]
  BY <1>1, VisitFacts
<1>4. CaptchaShapes'
  <2>1. passes' \in Nat /\ overwrites' \in Nat /\ entry' \in Visit!Entry
    BY <1>1, VisitFacts
  <2>2. visit' \in [Visitors -> VisitCall]
    BY <1>1, <1>2, VisitFacts
  <2>3. CaptchaShapes
    BY DEF CaptchaInv
  <2>. QED
    BY <1>1, <2>1, <2>2, <2>3 DEF CaptchaShapes
<1>5. EntryOK(entry, drawn)'
  BY <1>1, VisitFacts
<1>6. ASSUME NEW u \in Visitors PROVE VisitOK(visit[u], disk, solved, drawn, hour)'
  <2>1. CASE u = v
    BY <1>1, <1>2, <1>3, <2>1
  <2>2. CASE u # v
    BY <1>1, <1>3, <2>2, VisitFacts
  <2>. QED
    BY <2>1, <2>2
<1>7. FreshAlone'
  <2>1. SUFFICES ASSUME NEW u \in Visitors, Fresh(visit'[u])
                 PROVE  /\ visit'[u].data.code \notin solved' /\ visit'[u].data.code # entry'.code
                        /\ \A x \in Visitors \ {u} : /\ visit'[x].data.code # visit'[u].data.code
                                                    /\ visit'[x].was.code # visit'[u].data.code
    BY DEF FreshAlone
  <2>2. u # v /\ visit'[u] = visit[u]
    BY <1>2, <1>3, <2>1
  <2>3. /\ visit[u].data.code \notin solved /\ visit[u].data.code # 0
        /\ \A x \in Visitors \ {u} : /\ visit[x].data.code # visit[u].data.code
                                    /\ visit[x].was.code # visit[u].data.code
    BY <2>1, <2>2 DEF CaptchaInv, FreshAlone, Fresh
  <2>4. entry'.code # visit[u].data.code
    BY <1>1, <2>2, <2>3
  <2>5. ASSUME NEW x \in Visitors \ {u}
        PROVE  visit'[x].data.code # visit[u].data.code /\ visit'[x].was.code # visit[u].data.code
    <3>1. CASE x = v
      BY <1>2, <1>3, <2>3, <3>1
    <3>2. CASE x # v
      BY <1>3, <2>3, <3>2
    <3>. QED
      BY <3>1, <3>2
  <2>. QED
    BY <1>1, <2>2, <2>3, <2>4, <2>5
<1>8. FilesOK'
  <2>1. SUFFICES ASSUME Calm'
                 PROVE  /\ \A f \in disk :
                             f = q.data.code \/ \E u \in Visitors : Fresh(visit'[u]) /\ visit'[u].data.code = f
                        /\ q.data.code \notin disk \cup {0} =>
                             \/ Expired(q.data.code)
                             \/ \E u \in Visitors : Committed(visit'[u]) /\ visit'[u].was.code = q.data.code
                        /\ \A u \in Visitors : Fresh(visit'[u]) =>
                             visit'[u].data.code \in disk \/ Expired(visit'[u].data.code)
    BY <1>1 DEF FilesOK, Expired
  <2>2. Calm /\ entry = q.was
    BY <1>1, <2>1, VisitFacts DEF Calm
  <2>3. /\ \A f \in disk : f = q.was.code \/ \E u \in Visitors : Fresh(visit[u]) /\ visit[u].data.code = f
        /\ q.was.code \notin disk \cup {0} =>
             Expired(q.was.code) \/ \E u \in Visitors : Committed(visit[u]) /\ visit[u].was.code = q.was.code
        /\ \A u \in Visitors :
             Fresh(visit[u]) => visit[u].data.code \in disk \/ Expired(visit[u].data.code)
    BY <2>2 DEF CaptchaInv, FilesOK
  <2>4. /\ Committed(q) => q.was.code \notin disk
        /\ Committed(q) <=> q.data.code # q.was.code
        /\ q.data.code # q.was.code /\ q.data.code # 0 => Fresh(q)
    BY <1>1, VisitFacts DEF VisitOK, Committed, Fresh, Drawing
  <2>5. ASSUME NEW f \in disk
        PROVE  f = q.data.code \/ \E u \in Visitors : Fresh(visit'[u]) /\ visit'[u].data.code = f
    BY <1>3, <2>3, <2>4
  <2>6. ASSUME q.data.code \notin disk \cup {0}
        PROVE  \/ Expired(q.data.code)
               \/ \E u \in Visitors : Committed(visit'[u]) /\ visit'[u].was.code = q.data.code
    <3>1. CASE q.data.code = q.was.code
      BY <1>3, <2>3, <2>4, <2>6, <3>1
    <3>2. CASE q.data.code # q.was.code
      BY <2>3, <2>4, <2>6, <3>2
    <3>. QED
      BY <3>1, <3>2
  <2>7. ASSUME NEW u \in Visitors, Fresh(visit'[u])
        PROVE  visit'[u].data.code \in disk \/ Expired(visit'[u].data.code)
    BY <1>2, <1>3, <2>3, <2>7
  <2>. QED
    BY <2>5, <2>6, <2>7
<1>9. Budget'
  BY RespondBudget
<1>. QED
  BY <1>4, <1>5, <1>6, <1>7, <1>8, <1>9 DEF CaptchaInv

LEMMA CaptchaNext ==
  ASSUME CaptchaInv, Visit!Next \/ UNCHANGED captchaVars
  PROVE  CaptchaInv'
<1>1. CASE Visit!Tick
  BY <1>1, TickStep
<1>2. ASSUME NEW v \in Visitors,
             \/ Visit!Begin(v) \/ Visit!Refuse(v) \/ (\E a \in Allowed : Visit!Require(v, a))
             \/ Visit!Pass(v) \/ Visit!Redraw(v) \/ Visit!CheckWrong(v) \/ Visit!CheckRight(v)
             \/ Visit!FindDir(v) \/ Visit!Sweep(v) \/ Visit!MakeDir(v) \/ Visit!Write(v)
             \/ Visit!DrawFails(v) \/ Visit!Respond(v)
      PROVE  CaptchaInv'
  <2>1. CASE Visit!Begin(v)
    BY <2>1, BeginStep
  <2>2. CASE Visit!Refuse(v) \/ Visit!CheckWrong(v) \/ Visit!DrawFails(v)
    BY <2>2, LeaveSteps
  <2>3. CASE \E a \in Allowed : Visit!Require(v, a)
    BY <2>3, RequireStep
  <2>4. CASE Visit!Pass(v)
    BY <2>4, PassStep
  <2>5. CASE Visit!Redraw(v)
    BY <2>5, RedrawStep
  <2>6. CASE Visit!CheckRight(v)
    BY <2>6, CheckRightStep
  <2>7. CASE Visit!FindDir(v) \/ Visit!MakeDir(v)
    BY <2>7, DirSteps
  <2>8. CASE Visit!Sweep(v)
    BY <2>8, SweepStep
  <2>9. CASE Visit!Write(v)
    BY <2>9, WriteFileStep
  <2>10. CASE Visit!Respond(v)
    BY <2>10, RespondStep
  <2>. QED
    BY <1>2, <2>1, <2>2, <2>3, <2>4, <2>5, <2>6, <2>7, <2>8, <2>9, <2>10
<1>3. CASE UNCHANGED captchaVars
  <2>1. UNCHANGED <<entry, visit, dirs, disk, born, hour, drawn, passes, solved, overwrites, failed, hasty>>
    BY <1>3 DEF captchaVars
  <2>2. /\ CaptchaShapes' = CaptchaShapes /\ FreshAlone' = FreshAlone /\ Budget' = Budget
        /\ Calm' = Calm
    BY <2>1 DEF CaptchaShapes, FreshAlone, Budget, Calm
  <2>3. FilesOK' = FilesOK
    BY <2>1, <2>2 DEF FilesOK, Expired
  <2>. QED
    BY <2>1, <2>2, <2>3 DEF CaptchaInv
<1>. QED
  BY <1>1, <1>2, <1>3 DEF Visit!Next

LEMMA TimesGrows ==
  ASSUME NEW m \in Nat, NEW few \in Nat, NEW many \in Nat, few <= many
  PROVE  m * few <= m * many
<1> DEFINE more == many - few
<1>1. more \in Nat /\ many = few + more
  OBVIOUS
<1> HIDE DEF more
<1>2. m * (few + more) = m * few + m * more
  BY <1>1
<1>3. m * few \in Nat /\ m * more \in Nat
  BY <1>1
<1>. QED
  BY <1>1, <1>2, <1>3

LEMMA CaptchaInvImplies ==
  ASSUME CaptchaInv PROVE Visit!PassesLimited /\ Visit!FileOfSession /\ Visit!TypeOK
<1>1. /\ CaptchaShapes /\ EntryOK(entry, drawn) /\ FilesOK /\ Budget
      /\ \A v \in Visitors : VisitOK(visit[v], disk, solved, drawn, hour)
  BY DEF CaptchaInv
<1>2. Visit!TypeOK
  <2>1. \A v \in Visitors : visit[v].data \in Visit!Entry /\ visit[v].data.code = visit[v].data.file
    BY <1>1 DEF CaptchaShapes, VisitCall, VisitOK, EntryOK
  <2>. QED
    BY <1>1, <2>1 DEF Visit!TypeOK, CaptchaShapes
<1>3. Visit!PassesLimited
  <2> DEFINE m == Visit!MaxAllowed
  <2>1. PICK paid \in SUBSET solved :
          passes + Allowance(entry) + (IF entry.code \in paid THEN m ELSE 0)
            <= m * (Cardinality(paid) + overwrites)
    BY <1>1 DEF Budget
  <2>2. /\ m \in Nat /\ passes \in Nat /\ overwrites \in Nat
        /\ drawn \in Nat /\ solved \subseteq 1..drawn /\ Allowance(entry) \in Nat
    BY <1>1, MaxAllowedFacts DEF CaptchaShapes, Allowance, Visit!Entry
  <2>3. IsFiniteSet(solved)
    <3>1. IsFiniteSet(1..drawn)
      BY <2>2, FS_Interval
    <3>. QED
      BY <2>2, <3>1, FS_Subset
  <2>4. /\ Cardinality(paid) \in Nat /\ Cardinality(solved) \in Nat
        /\ Cardinality(paid) <= Cardinality(solved)
    BY <2>3, FS_Subset, FS_CardinalityType
  <2> HIDE DEF m
  <2> DEFINE few == Cardinality(paid) + overwrites
             many == Cardinality(solved) + overwrites
  <2>5. few \in Nat /\ many \in Nat /\ few <= many
    BY <2>2, <2>4
  <2>6. passes <= m * few
    <3>1. m * few \in Nat
      BY <2>2, <2>5
    <3> HIDE DEF few
    <3>. QED
      BY <2>1, <2>2, <3>1 DEF few
  <2> HIDE DEF few, many
  <2>7. m * few <= m * many
    BY <2>2, <2>5, TimesGrows
  <2>8. passes <= m * many
    <3>1. m * few \in Nat /\ m * many \in Nat
      BY <2>2, <2>5
    <3>. QED
      BY <2>2, <2>6, <2>7, <3>1
  <2>. QED
    BY <2>8, SameCardinality DEF Visit!PassesLimited, m, many
<1>4. Visit!FileOfSession
  <2>1. SUFFICES ASSUME Visit!Quiet
                 PROVE  /\ disk \subseteq {entry.file}
                        /\ entry.file \notin disk \cup {0} => born[entry.file] + 1 < hour
    BY DEF Visit!FileOfSession, Visit!NoCaptcha
  <2>2. Calm /\ \A v \in Visitors : ~Fresh(visit[v]) /\ ~Committed(visit[v])
    BY <2>1 DEF Visit!Quiet, Visit!At, Calm, Fresh, Committed, Drawing
  <2>3. entry.code = entry.file
    BY <1>1 DEF EntryOK
  <2>. QED
    BY <1>1, <2>2, <2>3 DEF FilesOK, Expired
<1>. QED
  BY <1>2, <1>3, <1>4

(* A solved captcha is worth as many requests to its path as the header     *)
(* asked for, and a save of a session that wrote over another's may only    *)
(* add as many again; when nobody was overtaken the session's captcha has   *)
(* its file, and no file is left behind ('_auth_captcha',                   *)
(* 'check_captcha', 'create_captcha').                                      *)
THEOREM CaptchasPaidFor == UnionSpec => []CaptchaSound
<1> DEFINE I == which = "captcha" => CaptchaInv
<1>1. UnionInit => I
  BY CaptchaInit DEF UnionInit
<1>2. I /\ [UnionNext]_unionVars => I'
  <2>1. SUFFICES ASSUME I, [UnionNext]_unionVars, which' = "captcha" PROVE CaptchaInv'
    OBVIOUS
  <2>2. which = "captcha" /\ (Visit!Next \/ UNCHANGED captchaVars)
    BY <2>1, StepOfCaptcha
  <2>. QED
    BY <2>1, <2>2, CaptchaNext
<1>3. I => CaptchaSound
  BY CaptchaInvImplies DEF CaptchaSound
<1>. QED
  BY <1>1, <1>2, <1>3, PTL DEF UnionSpec

-----------------------------------------------------------------------------
(***************************************************************************)
(* Tabs of a browser whose requests are all rerouted to one cluster.  The   *)
(* session is there, or still where it was at first, its home.             *)
(***************************************************************************)
LEMMA StepOfTabs ==
  ASSUME [UnionNext]_unionVars
  PROVE  Tabs!Next \/ UNCHANGED tabsVars
BY DEF UnionNext, unionVars

Moves == {"get", "getPrevious", "set", "deletePrevious", "getAgain", "copy", "delete", "own",
          "view", "respond"}

TabRequest ==
  [pc : Moves \cup {"idle"}, kind : {"view", "modify", "logout"}, at : Routes \cup {None},
   src : Tabs!Locations \cup {None}, data : Nat \cup {None}, drop : BOOLEAN]

TabsShapes ==
  /\ store \in [Tabs!Locations -> Nat \cup {None}] /\ previous \in [Clusters -> Nat \cup {None}]
  /\ tabsCookie \in Tabs!Locations \cup {None} /\ version \in Nat
  /\ req \in [Requests -> TabRequest] /\ late \in [Tabs!Locations -> Nat]
  /\ failures \in 0..MaxFailures /\ crashes \in Nat

(* A request with the cookie of its home, or of the cluster it reaches, and *)
(* the data it stores.                                                     *)
Rerouted(q, home, b) ==
  q.pc \in Moves =>
    /\ q.at = b /\ q.src \in {home, b}
    /\ q.pc \in {"set", "deletePrevious", "copy", "delete"} => q.data # None
    /\ q.pc \in {"copy", "delete", "own"} => q.src # b

(* What a request may rely on, in the caches s.                             *)
Relies(q, s, b) ==
  /\ q.pc \in {"deletePrevious", "getAgain"} => s[q.src] # None \/ s[b] # None
  /\ q.pc \in {"delete", "own", "view", "respond"} => s[b] # None

(* The session is at the cluster, if anything leads there, or at home.      *)
HasSession(home, b) ==
  /\ store[b] # None \/ store[home] # None \/ previous[Tabs!Host(home)] # None
  /\ home # b /\ (tabsCookie = b \/ \E r \in Requests : req[r].pc \in Moves /\ req[r].src = b)
       => store[b] # None
  /\ \A l \in Tabs!Locations : late[l] > 0 => l = home /\ l # b /\ store[b] # None
  /\ \A r \in Requests : Relies(req[r], store, b)

(* Some request has moved the session and will answer with a new cookie.    *)
MovedBy(q, b) == q.pc \in {"view", "respond"} /\ q.src # b

Follows(home, b) ==
  tabsCookie = home /\ home # b =>
    \/ \E r \in Requests : MovedBy(req[r], b)
    \/ /\ store[home] # None \/ previous[Tabs!Host(home)] # None
       /\ \A r \in Requests : req[r].pc = "deletePrevious" /\ req[r].src = home => store[home] # None

TabsInv(home, b) ==
  /\ TabsShapes /\ tabsCookie \in {home, b, None}
  /\ \A r \in Requests :
       Rerouted(req[r], home, b)
         /\ (tabsCookie = home /\ req[r].pc \in Moves => req[r].src = home)
  /\ crashes = 0 => \A l \in Tabs!Locations : late[l] = 0
  /\ ~loggedOut => HasSession(home, b) /\ (crashes = 0 => Follows(home, b))

LEMMA TabsFacts ==
  ASSUME NEW b \in Routes
  PROVE  /\ b \in Tabs!Locations /\ b \in Clusters /\ b # None
         /\ None \notin Tabs!Locations /\ None \notin Nat
         /\ Tabs!Host(b) = b /\ \A l \in Tabs!Locations : Tabs!Host(l) \in Clusters
BY CredentialsAssumption DEF Tabs!Locations, Tabs!Host

LEMMA TabsInitial ==
  ASSUME UnionInit, NEW b \in Routes PROVE \E home \in Tabs!Locations : TabsInv(home, b)
<1>1. Tabs!Init
  BY DEF UnionInit
<1>2. /\ tabsCookie \in Tabs!Locations /\ version = 1 /\ failures = 0 /\ crashes = 0
      /\ req = [r \in Requests |-> Tabs!Idle] /\ late = [l \in Tabs!Locations |-> 0]
      /\ \/ /\ store = [l \in Tabs!Locations |-> IF l = tabsCookie THEN 1 ELSE None]
            /\ previous = [c \in Clusters |-> None]
         \/ /\ store = [l \in Tabs!Locations |-> None]
            /\ previous = [c \in Clusters |-> IF c = Tabs!Host(tabsCookie) THEN 1 ELSE None]
  BY <1>1 DEF Tabs!Init
<1>3. Tabs!Idle \in TabRequest /\ Tabs!Idle.pc = "idle"
  BY DEF Tabs!Idle, TabRequest
<1>4. TabsShapes
  BY <1>2, <1>3, CredentialsAssumption DEF TabsShapes
<1>5. store[tabsCookie] # None \/ previous[Tabs!Host(tabsCookie)] # None
  BY <1>2, TabsFacts
<1>6. \A r \in Requests : req[r].pc = "idle"
  BY <1>2, <1>3
<1>7. \A r \in Requests : Rerouted(req[r], tabsCookie, b) /\ Relies(req[r], store, b)
  BY <1>6 DEF Rerouted, Relies, Moves
<1>8. HasSession(tabsCookie, b)
  BY <1>2, <1>5, <1>6, <1>7 DEF HasSession, Moves
<1>9. Follows(tabsCookie, b)
  BY <1>5, <1>6 DEF Follows
<1>. QED
  BY <1>2, <1>4, <1>6, <1>7, <1>8, <1>9 DEF TabsInv, Moves

(* A request goes on and no cache loses anything.                           *)
LEMMA TabGoesOn ==
  ASSUME NEW b \in Routes, NEW home \in Tabs!Locations, TabsInv(home, b),
         NEW r \in Requests, NEW x \in TabRequest, req' = [req EXCEPT ![r] = x],
         UNCHANGED <<previous, tabsCookie, late, loggedOut, failures, crashes>>,
         store' \in [Tabs!Locations -> Nat \cup {None}], version' \in Nat,
         \A l \in Tabs!Locations : store[l] # None => store'[l] # None,
         Rerouted(x, home, b),
         x.pc \in Moves /\ req[r].pc \in Moves => x.src = req[r].src,
         x.pc \in Moves /\ req[r].pc \notin Moves => x.src = tabsCookie,
         MovedBy(req[r], b) => MovedBy(x, b),
         x.pc = "deletePrevious" => store'[x.src] # None,
         ~loggedOut /\ HasSession(home, b) => Relies(x, store', b)
  PROVE  TabsInv(home, b)'
<1>1. req'[r] = x /\ \A o \in Requests \ {r} : req'[o] = req[o]
  BY DEF TabsInv, TabsShapes
<1>2. TabsShapes'
  BY DEF TabsInv, TabsShapes, TabRequest
<1>3. \A o \in Requests : Rerouted(req'[o], home, b)
  BY <1>1 DEF TabsInv
<1>4. ASSUME ~loggedOut PROVE HasSession(home, b)'
  <2>1. HasSession(home, b)
    BY <1>4 DEF TabsInv
  <2>2. \A o \in Requests : Relies(req[o], store', b)
    <3>1. ASSUME NEW o \in Requests PROVE Relies(req[o], store', b)
      <4>1. Relies(req[o], store, b) /\ Rerouted(req[o], home, b)
        BY <2>1 DEF HasSession, TabsInv
      <4>2. b \in Tabs!Locations
        BY TabsFacts
      <4>. QED
        BY <4>1, <4>2 DEF Relies, Rerouted, Moves
    <3>. QED
      BY <3>1
  <2>3. \A o \in Requests : Relies(req'[o], store', b)
    BY <1>1, <1>4, <2>1, <2>2
  <2>4. home # b /\ x.pc \in Moves /\ x.src = b => store[b] # None
    BY <2>1 DEF HasSession
  <2>5. home # b /\ (tabsCookie = b \/ \E o \in Requests : req'[o].pc \in Moves /\ req'[o].src = b)
          => store'[b] # None
    BY <1>1, <2>1, <2>4, TabsFacts DEF HasSession
  <2>6. store'[b] # None \/ store'[home] # None \/ previous[Tabs!Host(home)] # None
    BY <2>1, TabsFacts DEF HasSession
  <2>7. \A l \in Tabs!Locations : late[l] > 0 => l = home /\ l # b /\ store'[b] # None
    BY <2>1, TabsFacts DEF HasSession
  <2>8. \A o \in Requests : Relies(req[o], store, b)'
    BY <2>3 DEF Relies
  <2>. QED
    BY <2>5, <2>6, <2>7, <2>8 DEF HasSession, Tabs!Host
<1>5. ASSUME ~loggedOut, crashes = 0 PROVE Follows(home, b)'
  <2>1. Follows(home, b)
    BY <1>5 DEF TabsInv
  <2>2. CASE \E o \in Requests : MovedBy(req[o], b)
    <3>1. \E o \in Requests : MovedBy(req'[o], b)
      BY <1>1, <2>2
    <3>. QED
      BY <3>1 DEF Follows, MovedBy
  <2>3. CASE ~\E o \in Requests : MovedBy(req[o], b)
    BY <1>1, <2>1, <2>3 DEF Follows, Tabs!Host, MovedBy
  <2>. QED
    BY <2>2, <2>3
<1>6. \A o \in Requests : Rerouted(req[o], home, b)'
  BY <1>3 DEF Rerouted
<1>7. \A o \in Requests : tabsCookie = home /\ req'[o].pc \in Moves => req'[o].src = home
  BY <1>1 DEF TabsInv
<1>. QED
  BY <1>2, <1>4, <1>5, <1>6, <1>7 DEF TabsInv, Tabs!Locations, Moves

LEMMA TabFacts ==
  ASSUME NEW b \in Routes, NEW home \in Tabs!Locations, TabsInv(home, b), NEW r \in Requests,
         req[r].pc \in Moves
  PROVE  /\ req[r] \in TabRequest /\ req[r].at = b /\ req[r].src \in {home, b}
         /\ req[r].src \in Tabs!Locations /\ b \in Tabs!Locations
         /\ store \in [Tabs!Locations -> Nat \cup {None}]
         /\ previous \in [Clusters -> Nat \cup {None}] /\ version \in Nat
         /\ store[b] \in Nat \cup {None} /\ store[req[r].src] \in Nat \cup {None}
         /\ previous[Tabs!Host(req[r].src)] \in Nat \cup {None}
         /\ req[r].pc \in {"set", "deletePrevious", "copy", "delete"} => req[r].data # None
         /\ req[r].pc \in {"copy", "delete", "own"} => req[r].src # b
<1>1. Rerouted(req[r], home, b) /\ TabsShapes /\ b \in Tabs!Locations
  BY TabsFacts DEF TabsInv
<1>2. req[r].src \in Tabs!Locations
  BY <1>1 DEF Rerouted
<1>. QED
  BY <1>1, <1>2, TabsFacts DEF Rerouted, TabsShapes

(* A load that reads: it finds the session where the cookie says, or here.  *)
LEMMA TabReads ==
  ASSUME NEW b \in Routes, NEW home \in Tabs!Locations, TabsInv(home, b), NEW r \in Requests,
         \/ Tabs!GetHits(r) \/ Tabs!GetMisses(r) \/ Tabs!PreviousHits(r)
         \/ Tabs!PreviousMisses(r) \/ Tabs!GetAgain(r) \/ Tabs!GetOwn(r)
  PROVE  TabsInv(home, b)'
<1> DEFINE q == req[r]
           Fits(x) ==
             /\ x.src = q.src /\ x.at = q.at /\ x.pc \in Moves
             /\ \/ x.pc = "getPrevious"
                \/ x.pc = "set" /\ x.data # None
                \/ x.pc = "getAgain" /\ previous[Tabs!Host(q.src)] = None
                \/ /\ x.pc = "view" /\ q.src = b
                   /\ (q.pc = "getAgain" \/ (q.pc = "get" /\ store[q.src] # None))
                \/ x.pc = "copy" /\ q.src # b /\ x.data # None
                \/ x.pc = "own" /\ q.src # b /\ q.pc = "getAgain" /\ store[q.src] = None
                \/ x.pc = "view" /\ q.pc = "own"
<1>1. /\ q.pc \in {"get", "getPrevious", "getAgain", "own"} /\ q.pc \in Moves
      /\ UNCHANGED <<store, previous, tabsCookie, late, version, loggedOut, failures, crashes>>
  BY DEF Tabs!GetHits, Tabs!GetMisses, Tabs!PreviousHits, Tabs!PreviousMisses, Tabs!GetAgain,
     Tabs!GetOwn, Tabs!At, Tabs!caches, Tabs!history, Tabs!faults, Moves
<1>2. /\ q \in TabRequest /\ q.at = b /\ q.src \in {home, b}
      /\ store[b] \in Nat \cup {None} /\ store[q.src] \in Nat \cup {None}
      /\ previous[Tabs!Host(q.src)] \in Nat \cup {None}
      /\ q.pc = "own" => q.src # b
      /\ store \in [Tabs!Locations -> Nat \cup {None}] /\ version \in Nat
  BY <1>1, TabFacts
<1>3. \E x \in TabRequest : req' = [req EXCEPT ![r] = x] /\ Fits(x)
  <2>1. CASE Tabs!GetHits(r) \/ Tabs!GetAgain(r)
    <3> DEFINE x == [q EXCEPT !.data = store[q.src],
                              !.pc = IF q.src = b THEN "view" ELSE
                                     IF store[q.src] # None THEN "copy" ELSE "own"]
    <3>1. req' = [req EXCEPT ![r] = x] /\ (q.pc = "getAgain" \/ (q.pc = "get" /\ store[q.src] # None))
      BY <1>2, <2>1 DEF Tabs!GetHits, Tabs!GetAgain, Tabs!Loaded, Tabs!At
    <3>2. x \in TabRequest
      BY <1>2 DEF TabRequest, Moves
    <3>3. /\ x.src = q.src /\ x.at = q.at /\ x.data = store[q.src]
          /\ x.pc = IF q.src = b THEN "view" ELSE IF store[q.src] # None THEN "copy" ELSE "own"
      BY <1>2 DEF TabRequest
    <3> HIDE DEF x
    <3>4. Fits(x)
      BY <3>1, <3>3 DEF Moves
    <3>. QED
      BY <3>1, <3>2, <3>4
  <2>2. CASE Tabs!GetMisses(r)
    <3> DEFINE x == [q EXCEPT !.pc = "getPrevious"]
    <3>1. req' = [req EXCEPT ![r] = x]
      BY <2>2 DEF Tabs!GetMisses, Tabs!GoTo
    <3>2. x \in TabRequest /\ Fits(x)
      BY <1>2 DEF TabRequest, Moves
    <3>. QED
      BY <3>1, <3>2
  <2>3. CASE Tabs!PreviousHits(r)
    <3> DEFINE x == [q EXCEPT !.pc = "set", !.data = previous[Tabs!Host(q.src)]]
    <3>1. req' = [req EXCEPT ![r] = x] /\ previous[Tabs!Host(q.src)] # None
      BY <2>3 DEF Tabs!PreviousHits
    <3>2. x \in TabRequest /\ Fits(x)
      BY <1>2, <3>1 DEF TabRequest, Moves
    <3>. QED
      BY <3>1, <3>2
  <2>4. CASE Tabs!PreviousMisses(r)
    <3> DEFINE x == [q EXCEPT !.pc = "getAgain"]
    <3>1. req' = [req EXCEPT ![r] = x] /\ previous[Tabs!Host(q.src)] = None
      BY <2>4 DEF Tabs!PreviousMisses, Tabs!GoTo
    <3>2. x \in TabRequest /\ Fits(x)
      BY <1>2, <3>1 DEF TabRequest, Moves
    <3>. QED
      BY <3>1, <3>2
  <2>5. CASE Tabs!GetOwn(r)
    <3> DEFINE drop == store[b] = None /\ Tabs!Host(q.src) # b
               x == [q EXCEPT !.pc = "view", !.data = store[b], !.drop = drop]
    <3>1. req' = [req EXCEPT ![r] = x] /\ q.pc = "own"
      BY <1>2, <2>5 DEF Tabs!GetOwn, Tabs!At
    <3>2. drop \in BOOLEAN
      OBVIOUS
    <3> HIDE DEF drop
    <3>3. x \in TabRequest /\ Fits(x)
      BY <1>2, <3>1, <3>2 DEF TabRequest, Moves
    <3>. QED
      BY <3>1, <3>3
  <2>. QED
    BY <2>1, <2>2, <2>3, <2>4, <2>5
<1>4. PICK x \in TabRequest : req' = [req EXCEPT ![r] = x] /\ Fits(x)
  BY <1>3
<1>5. Rerouted(x, home, b)
  BY <1>2, <1>4 DEF Rerouted
<1>6. HasSession(home, b) => Relies(x, store, b)
  <2>1. ASSUME HasSession(home, b), x.pc = "getAgain"
        PROVE  store[q.src] # None \/ store[b] # None
    BY <1>1, <1>2, <1>4, <2>1, TabsFacts DEF HasSession
  <2>2. ASSUME HasSession(home, b), x.pc \in {"own", "view"} PROVE store[b] # None
    BY <1>2, <1>4, <2>2 DEF HasSession, Relies
  <2>. QED
    BY <1>4, <2>1, <2>2 DEF Relies
<1>7. ~MovedBy(q, b)
  BY <1>1 DEF MovedBy
<1>. QED
  BY <1>1, <1>2, <1>4, <1>5, <1>6, <1>7, TabGoesOn

(* A request begins, stores the session, or is answered by the view.        *)
LEMMA TabStores ==
  ASSUME NEW b \in Routes, Routes = {b}, NEW home \in Tabs!Locations, TabsInv(home, b),
         NEW r \in Requests,
         \/ \E kind \in Tabs!Kinds, c \in Routes : Tabs!Begin(r, kind, c)
         \/ Tabs!SetCurrent(r) \/ Tabs!Copy(r) \/ Tabs!SaveSession(r) \/ Tabs!Answer(r)
  PROVE  TabsInv(home, b)'
<1> DEFINE q == req[r]
<1>1. CASE \E kind \in Tabs!Kinds, c \in Routes : Tabs!Begin(r, kind, c)
  <2>1. PICK kind \in Tabs!Kinds : Tabs!Begin(r, kind, b)
    BY <1>1
  <2> DEFINE x == [Tabs!Idle EXCEPT !.pc = "get", !.kind = kind, !.at = b, !.src = tabsCookie]
  <2>2. /\ req' = [req EXCEPT ![r] = x] /\ q.pc = "idle" /\ tabsCookie # None
        /\ UNCHANGED <<store, previous, tabsCookie, late, version, loggedOut, failures, crashes>>
    BY <2>1 DEF Tabs!Begin, Tabs!At, Tabs!caches, Tabs!history, Tabs!faults
  <2>3. /\ x \in TabRequest /\ x.pc = "get" /\ x.at = b /\ x.src = tabsCookie
        /\ TabsShapes /\ tabsCookie \in {home, b}
    BY <2>2 DEF TabsInv, TabsShapes, Tabs!Idle, TabRequest, Tabs!Kinds, Moves
  <2> HIDE DEF x
  <2>4. Rerouted(x, home, b) /\ Relies(x, store, b)
    BY <2>3 DEF Rerouted, Relies
  <2>5. ~MovedBy(q, b) /\ q.pc \notin Moves
    BY <2>2 DEF MovedBy, Moves
  <2>. QED
    BY <2>2, <2>3, <2>4, <2>5, TabGoesOn DEF TabsShapes
<1>2. CASE Tabs!SetCurrent(r) \/ Tabs!Copy(r)
  <2> DEFINE pc == IF Tabs!SetCurrent(r) THEN "deletePrevious" ELSE "delete"
             l == IF Tabs!SetCurrent(r) THEN q.src ELSE q.at
             x == [q EXCEPT !.pc = pc]
  <2>1. /\ req' = [req EXCEPT ![r] = x] /\ q.pc \in {"set", "copy"} /\ q.pc \in Moves
        /\ store' = [store EXCEPT ![l] = q.data] /\ pc \in {"deletePrevious", "delete"}
        /\ pc = "deletePrevious" => l = q.src
        /\ pc = "delete" => l = q.at /\ q.pc = "copy"
        /\ UNCHANGED <<previous, tabsCookie, late, version, loggedOut, failures, crashes>>
    BY <1>2 DEF Tabs!SetCurrent, Tabs!Copy, Tabs!GoTo, Tabs!At, Tabs!history, Tabs!faults, Moves
  <2> HIDE DEF pc, l
  <2>2. /\ q \in TabRequest /\ q.at = b /\ q.src \in {home, b} /\ q.data # None
        /\ q.src \in Tabs!Locations /\ b \in Tabs!Locations
        /\ store \in [Tabs!Locations -> Nat \cup {None}] /\ version \in Nat
        /\ q.pc = "copy" => q.src # b
    BY <2>1, TabFacts
  <2>3. /\ x \in TabRequest /\ x.pc = pc /\ x.src = q.src /\ x.at = b /\ x.data = q.data
        /\ q.data \in Nat
    BY <2>1, <2>2 DEF TabRequest, Moves
  <2>4. l \in Tabs!Locations
    BY <2>1, <2>2
  <2>5. /\ store' \in [Tabs!Locations -> Nat \cup {None}] /\ store'[l] # None
        /\ \A o \in Tabs!Locations : store[o] # None => store'[o] # None
    BY <2>1, <2>2, <2>3, <2>4
  <2> HIDE DEF x
  <2>6. Rerouted(x, home, b)
    BY <2>1, <2>2, <2>3 DEF Rerouted
  <2>7. Relies(x, store', b)
    BY <2>1, <2>2, <2>3, <2>5 DEF Relies
  <2>8. ~MovedBy(q, b) /\ (x.pc = "deletePrevious" => store'[x.src] # None)
    BY <2>1, <2>3, <2>5 DEF MovedBy
  <2>. QED
    BY <2>1, <2>2, <2>3, <2>5, <2>6, <2>7, <2>8, TabGoesOn
<1>3. CASE Tabs!SaveSession(r)
  <2> DEFINE x == [q EXCEPT !.pc = "respond"]
  <2>1. /\ req' = [req EXCEPT ![r] = x] /\ q.pc = "view" /\ q.pc \in Moves
        /\ version' = version + 1 /\ store' = [store EXCEPT ![q.at] = version']
        /\ UNCHANGED <<previous, tabsCookie, late, loggedOut, failures, crashes>>
    BY <1>3 DEF Tabs!SaveSession, Tabs!GoTo, Tabs!At, Tabs!faults, Moves
  <2>2. /\ q \in TabRequest /\ q.at = b /\ q.src \in {home, b} /\ b \in Tabs!Locations
        /\ store \in [Tabs!Locations -> Nat \cup {None}] /\ version \in Nat
    BY <2>1, TabFacts
  <2>3. x \in TabRequest /\ x.pc = "respond" /\ x.src = q.src /\ x.at = b
    BY <2>2 DEF TabRequest, Moves
  <2>4. version' \in Nat /\ version' # None
    BY <2>1, <2>2, TabsFacts
  <2>5. /\ store' \in [Tabs!Locations -> Nat \cup {None}] /\ store'[b] # None
        /\ \A o \in Tabs!Locations : store[o] # None => store'[o] # None
    BY <2>1, <2>2, <2>4
  <2> HIDE DEF x
  <2>6. Rerouted(x, home, b) /\ Relies(x, store', b) /\ (MovedBy(q, b) => MovedBy(x, b))
    BY <2>1, <2>2, <2>3, <2>5 DEF Rerouted, Relies, MovedBy
  <2>. QED
    BY <2>1, <2>3, <2>4, <2>5, <2>6, TabGoesOn
<1>4. CASE Tabs!Answer(r)
  <2> DEFINE drop == q.drop \/ q.kind = "logout"
             x == [q EXCEPT !.pc = "respond", !.drop = drop]
  <2>1. /\ req' = [req EXCEPT ![r] = x] /\ q.pc = "view" /\ q.pc \in Moves
        /\ UNCHANGED <<store, previous, tabsCookie, late, version, loggedOut, failures, crashes>>
    BY <1>4 DEF Tabs!Answer, Tabs!At, Tabs!caches, Tabs!history, Tabs!faults, Moves
  <2>2. /\ q \in TabRequest /\ q.at = b /\ q.src \in {home, b} /\ b \in Tabs!Locations
        /\ store \in [Tabs!Locations -> Nat \cup {None}] /\ version \in Nat
    BY <2>1, TabFacts
  <2>3. drop \in BOOLEAN
    BY <2>2 DEF TabRequest
  <2> HIDE DEF drop
  <2>4. x \in TabRequest /\ x.pc = "respond" /\ x.src = q.src /\ x.at = b
    BY <2>2, <2>3 DEF TabRequest, Moves
  <2> HIDE DEF x
  <2>5. Rerouted(x, home, b) /\ (MovedBy(q, b) => MovedBy(x, b))
    BY <2>1, <2>2, <2>4 DEF Rerouted, MovedBy
  <2>6. HasSession(home, b) => Relies(x, store, b)
    BY <2>1, <2>4 DEF HasSession, Relies
  <2>. QED
    BY <2>1, <2>2, <2>4, <2>5, <2>6, TabGoesOn
<1>. QED
  BY <1>1, <1>2, <1>3, <1>4

(* A step that leaves the session at the cluster, or follows a logout.      *)
LEMMA TabsThere ==
  ASSUME NEW b \in Routes, NEW home \in Tabs!Locations, TabsShapes',
         tabsCookie' \in {home, b, None},
         \A r \in Requests :
           /\ Rerouted(req'[r], home, b)
           /\ tabsCookie' = home /\ req'[r].pc \in Moves => req'[r].src = home,
         crashes' = 0 => \A l \in Tabs!Locations : late'[l] = 0,
         ~loggedOut' => /\ store'[b] # None
                        /\ \A l \in Tabs!Locations : late'[l] > 0 => l = home /\ l # b,
         ~loggedOut' /\ crashes' = 0 /\ tabsCookie' = home /\ home # b =>
           \E r \in Requests : MovedBy(req'[r], b)
  PROVE  TabsInv(home, b)'
<1>1. ASSUME ~loggedOut' PROVE HasSession(home, b)'
  BY <1>1 DEF HasSession, Relies, Rerouted, Moves, Tabs!Host
<1>2. ASSUME ~loggedOut', crashes' = 0 PROVE Follows(home, b)'
  BY <1>2 DEF Follows, MovedBy
<1>. QED
  BY <1>1, <1>2 DEF TabsInv, Rerouted, Moves, Tabs!Locations

(* The session is deleted at its source or by a logout.                     *)
LEMMA TabDeletes ==
  ASSUME NEW b \in Routes, NEW home \in Tabs!Locations, TabsInv(home, b), NEW r \in Requests,
         Tabs!DeleteSource(r) \/ Tabs!Flush(r)
  PROVE  TabsInv(home, b)'
<1> DEFINE q == req[r]
           drop == IF Tabs!Flush(r) THEN TRUE ELSE q.drop
           pc == IF Tabs!Flush(r) THEN "respond" ELSE "view"
           l == IF Tabs!Flush(r) THEN q.at ELSE q.src
           x == [q EXCEPT !.pc = pc, !.drop = drop]
<1>0. q.pc \in Moves /\ q.pc \in {"delete", "view"}
  BY DEF Tabs!DeleteSource, Tabs!Flush, Tabs!At, Moves
<1>1. /\ q \in TabRequest /\ q.at = b /\ q.src \in {home, b} /\ b \in Tabs!Locations
      /\ q.src \in Tabs!Locations /\ store \in [Tabs!Locations -> Nat \cup {None}]
      /\ q.pc = "delete" => q.src # b
  BY <1>0, TabFacts
<1>2. /\ req' = [req EXCEPT ![r] = x] /\ store' = [store EXCEPT ![l] = None]
      /\ UNCHANGED <<previous, tabsCookie, late, version, failures, crashes>>
  <2>1. CASE Tabs!Flush(r)
    BY <2>1 DEF Tabs!Flush, Tabs!faults
  <2>2. CASE Tabs!DeleteSource(r) /\ ~Tabs!Flush(r)
    <3>1. x = [q EXCEPT !.pc = "view"]
      BY <1>1, <2>2 DEF TabRequest
    <3>. QED
      BY <3>1, <2>2 DEF Tabs!DeleteSource, Tabs!GoTo, Tabs!faults, Tabs!history
  <2>. QED
    BY <2>1, <2>2
<1>3. \/ loggedOut'
      \/ loggedOut' = loggedOut /\ q.pc = "delete" /\ pc = "view" /\ l = q.src
  <2>1. CASE Tabs!Flush(r)
    BY <2>1 DEF Tabs!Flush
  <2>2. CASE ~Tabs!Flush(r)
    BY <2>2 DEF Tabs!DeleteSource, Tabs!At, Tabs!history
  <2>. QED
    BY <2>1, <2>2
<1>4. pc \in {"respond", "view"} /\ l \in Tabs!Locations /\ drop \in BOOLEAN
  BY <1>1 DEF TabRequest
<1> HIDE DEF pc, l, drop
<1>5. x \in TabRequest /\ x.pc = pc /\ x.src = q.src /\ x.at = b
  BY <1>1, <1>4 DEF TabRequest, Moves
<1> HIDE DEF x
<1>6. TabsShapes /\ TabsShapes'
  BY <1>1, <1>2, <1>4, <1>5 DEF TabsInv, TabsShapes
<1>7. req'[r] = x /\ \A o \in Requests \ {r} : req'[o] = req[o]
  BY <1>2, <1>6 DEF TabsShapes
<1>8. Rerouted(x, home, b) /\ (tabsCookie = home => x.src = home)
  BY <1>0, <1>1, <1>4, <1>5 DEF Rerouted, TabsInv
<1>9. ASSUME ~loggedOut'
      PROVE  /\ store'[b] # None /\ MovedBy(req'[r], b)
             /\ \A k \in Tabs!Locations : late[k] > 0 => k = home /\ k # b
  <2>1. HasSession(home, b) /\ q.pc = "delete" /\ pc = "view" /\ l = q.src
    BY <1>3, <1>9 DEF TabsInv
  <2>2. store[b] # None
    BY <2>1 DEF HasSession, Relies
  <2>. QED
    BY <1>1, <1>2, <1>5, <1>7, <2>1, <2>2 DEF HasSession, MovedBy
<1>10. \A o \in Requests :
         /\ Rerouted(req'[o], home, b)
         /\ tabsCookie' = home /\ req'[o].pc \in Moves => req'[o].src = home
  BY <1>2, <1>7, <1>8 DEF TabsInv
<1>11. tabsCookie' \in {home, b, None} /\ (crashes' = 0 => \A k \in Tabs!Locations : late'[k] = 0)
  BY <1>2 DEF TabsInv
<1>. QED
  BY <1>2, <1>6, <1>9, <1>10, <1>11, TabsThere

(* A request is answered, with a cookie that names the cluster or none.     *)
LEMMA TabResponds ==
  ASSUME NEW b \in Routes, NEW home \in Tabs!Locations, TabsInv(home, b), NEW r \in Requests,
         Tabs!Respond(r)
  PROVE  TabsInv(home, b)'
<1> DEFINE x == Tabs!Idle
<1>1. /\ req' = [req EXCEPT ![r] = x] /\ req[r].pc = "respond" /\ req[r].pc \in Moves
      /\ tabsCookie' = IF req[r].drop THEN None ELSE req[r].at
      /\ UNCHANGED <<store, previous, late, version, loggedOut, failures, crashes>>
  BY DEF Tabs!Respond, Tabs!At, Tabs!caches, Tabs!history, Tabs!faults, Moves
<1>2. x \in TabRequest /\ x.pc = "idle" /\ x.pc \notin Moves
  BY DEF Tabs!Idle, TabRequest, Moves
<1> HIDE DEF x
<1>3. tabsCookie' \in {b, None} /\ b \in Tabs!Locations /\ None \notin Tabs!Locations
  BY <1>1, TabFacts, TabsFacts
<1>4. TabsShapes /\ TabsShapes'
  BY <1>1, <1>2, <1>3 DEF TabsInv, TabsShapes
<1>5. req'[r] = x /\ \A o \in Requests \ {r} : req'[o] = req[o]
  BY <1>1, <1>4 DEF TabsShapes
<1>6. \A o \in Requests :
        /\ Rerouted(req'[o], home, b)
        /\ tabsCookie' = home /\ req'[o].pc \in Moves => req'[o].src = home
  BY <1>2, <1>3, <1>5 DEF TabsInv, Rerouted
<1>7. ASSUME ~loggedOut'
      PROVE  /\ store'[b] # None
             /\ \A l \in Tabs!Locations : late'[l] > 0 => l = home /\ l # b
  <2>1. HasSession(home, b)
    BY <1>1, <1>7 DEF TabsInv
  <2>. QED
    BY <1>1, <2>1 DEF HasSession, Relies
<1>8. crashes' = 0 => \A l \in Tabs!Locations : late'[l] = 0
  BY <1>1 DEF TabsInv
<1>9. tabsCookie' = home => home = b
  BY <1>3
<1>. QED
  BY <1>3, <1>4, <1>6, <1>7, <1>8, <1>9, TabsThere

(* The previous cache is emptied, once the current one has the session.     *)
LEMMA TabEmptiesPrevious ==
  ASSUME NEW b \in Routes, NEW home \in Tabs!Locations, TabsInv(home, b), NEW r \in Requests,
         Tabs!DeletePrevious(r)
  PROVE  TabsInv(home, b)'
<1> DEFINE q == req[r]
           x == [q EXCEPT !.pc = IF q.src = b THEN "view" ELSE "copy"]
<1>1. /\ q.pc = "deletePrevious" /\ q.pc \in Moves
      /\ previous' = [previous EXCEPT ![Tabs!Host(q.src)] = None]
      /\ UNCHANGED <<store, tabsCookie, late, version, loggedOut, failures, crashes>>
  BY DEF Tabs!DeletePrevious, Tabs!At, Tabs!history, Tabs!faults, Moves
<1>2. /\ q \in TabRequest /\ q.at = b /\ q.src \in {home, b} /\ q.data # None
      /\ b \in Tabs!Locations /\ q.src \in Tabs!Locations
  BY <1>1, TabFacts
<1>3. req' = [req EXCEPT ![r] = x]
  BY <1>2 DEF Tabs!DeletePrevious, Tabs!Loaded, TabRequest
<1>4. /\ x \in TabRequest /\ x.pc \in {"view", "copy"} /\ x.src = q.src /\ x.at = b
      /\ x.data # None /\ (x.pc = "view" <=> q.src = b)
  BY <1>2 DEF TabRequest, Moves
<1> HIDE DEF x
<1>5. TabsShapes /\ TabsShapes'
  BY <1>1, <1>2, <1>3, <1>4, TabsFacts DEF TabsInv, TabsShapes
<1>6. req'[r] = x /\ \A o \in Requests \ {r} : req'[o] = req[o]
  BY <1>3, <1>5 DEF TabsShapes
<1>7. /\ Rerouted(x, home, b) /\ (tabsCookie = home => x.src = home)
      /\ x.pc \in Moves
  BY <1>1, <1>2, <1>4 DEF Rerouted, TabsInv, Moves
<1>8. ASSUME ~loggedOut PROVE HasSession(home, b)'
  <2>1. HasSession(home, b) /\ (store[q.src] # None \/ store[b] # None)
    BY <1>1, <1>8 DEF TabsInv, HasSession, Relies
  <2>2. store[b] # None \/ store[home] # None
    BY <1>2, <2>1
  <2>3. Relies(x, store, b)
    BY <1>4, <2>1 DEF Relies
  <2>4. home # b /\ (tabsCookie = b \/ \E o \in Requests : req'[o].pc \in Moves /\ req'[o].src = b)
          => store[b] # None
    BY <1>1, <1>4, <1>6, <2>1 DEF HasSession
  <2>. QED
    BY <1>1, <1>6, <2>1, <2>2, <2>3, <2>4 DEF HasSession, Relies
<1>9. ASSUME ~loggedOut, crashes = 0 PROVE Follows(home, b)'
  <2>1. SUFFICES ASSUME tabsCookie = home, home # b
                 PROVE  \/ \E o \in Requests : MovedBy(req'[o], b)
                        \/ store[home] # None
    BY <1>1 DEF Follows, MovedBy
  <2>2. Follows(home, b) /\ q.src = home /\ ~MovedBy(q, b)
    BY <1>1, <1>9, <2>1 DEF TabsInv, MovedBy
  <2>3. CASE \E o \in Requests : MovedBy(req[o], b)
    BY <1>6, <2>2, <2>3
  <2>4. CASE ~\E o \in Requests : MovedBy(req[o], b)
    BY <1>1, <2>1, <2>2, <2>4 DEF Follows
  <2>. QED
    BY <2>3, <2>4
<1>10. \A o \in Requests :
         /\ Rerouted(req'[o], home, b)
         /\ tabsCookie' = home /\ req'[o].pc \in Moves => req'[o].src = home
  BY <1>1, <1>6, <1>7 DEF TabsInv
<1>11. crashes' = 0 => \A l \in Tabs!Locations : late'[l] = 0
  BY <1>1 DEF TabsInv
<1>12. tabsCookie' \in {home, b, None} /\ loggedOut' = loggedOut /\ crashes' = crashes
  BY <1>1 DEF TabsInv
<1>. QED
  BY <1>5, <1>8, <1>9, <1>10, <1>11, <1>12 DEF TabsInv, Rerouted, Moves

(* A worker dies; a delete it had sent reaches its cluster.                 *)
LEMMA TabCrashes ==
  ASSUME NEW b \in Routes, NEW home \in Tabs!Locations, TabsInv(home, b), NEW r \in Requests,
         Tabs!Crash(r)
  PROVE  TabsInv(home, b)'
<1> DEFINE x == Tabs!Idle
<1>1. /\ req' = [req EXCEPT ![r] = x] /\ crashes' = crashes + 1
      /\ \/ late' = late
         \/ req[r].pc = "delete" /\ late' = [late EXCEPT ![req[r].src] = @ + 1]
      /\ UNCHANGED <<store, previous, tabsCookie, version, loggedOut, failures>>
  BY DEF Tabs!Crash, Tabs!At, Tabs!Outlives, Tabs!caches, Tabs!history
<1>2. x \in TabRequest /\ x.pc = "idle" /\ x.pc \notin Moves
  BY DEF Tabs!Idle, TabRequest, Moves
<1> HIDE DEF x
<1>3. ASSUME req[r].pc = "delete"
      PROVE  req[r].src \in Tabs!Locations /\ req[r].src = home /\ home # b
  BY <1>3, TabFacts DEF Moves
<1>4. TabsShapes
  BY DEF TabsInv
<1>5. late' \in [Tabs!Locations -> Nat]
  BY <1>1, <1>3, <1>4 DEF TabsShapes
<1>6. TabsShapes' /\ crashes' # 0
  BY <1>1, <1>2, <1>4, <1>5 DEF TabsShapes
<1>7. req'[r] = x /\ \A o \in Requests \ {r} : req'[o] = req[o]
  BY <1>1, <1>4 DEF TabsShapes
<1>8. \A o \in Requests :
        /\ Rerouted(req'[o], home, b)
        /\ tabsCookie' = home /\ req'[o].pc \in Moves => req'[o].src = home
  BY <1>1, <1>2, <1>7 DEF TabsInv, Rerouted
<1>9. ASSUME ~loggedOut PROVE HasSession(home, b)'
  <2>1. HasSession(home, b)
    BY <1>9 DEF TabsInv
  <2>2. \A l \in Tabs!Locations : late'[l] > 0 => l = home /\ l # b /\ store[b] # None
    <3>1. CASE late' = late
      BY <2>1, <3>1 DEF HasSession
    <3>2. CASE req[r].pc = "delete" /\ late' = [late EXCEPT ![req[r].src] = @ + 1]
      <4>1. store[b] # None
        BY <2>1, <3>2 DEF HasSession, Relies
      <4>. QED
        BY <1>3, <1>4, <2>1, <3>2, <4>1 DEF HasSession, TabsShapes
    <3>. QED
      BY <1>1, <3>1, <3>2
  <2>3. \A o \in Requests : Relies(req'[o], store, b)
    BY <1>2, <1>7, <2>1 DEF HasSession, Relies
  <2>. QED
    BY <1>1, <1>2, <1>7, <2>1, <2>2, <2>3 DEF HasSession, Relies, Tabs!Host
<1>. QED
  BY <1>1, <1>6, <1>8, <1>9 DEF TabsInv, Rerouted, Moves

LEMMA TabLateDelete ==
  ASSUME NEW b \in Routes, NEW home \in Tabs!Locations, TabsInv(home, b),
         NEW l \in Tabs!Locations, Tabs!LateDelete(l)
  PROVE  TabsInv(home, b)'
<1>1. /\ late[l] > 0 /\ late' = [late EXCEPT ![l] = @ - 1]
      /\ store' = [store EXCEPT ![l] = None]
      /\ UNCHANGED <<previous, tabsCookie, req, version, loggedOut, failures, crashes>>
  BY DEF Tabs!LateDelete, Tabs!faults
<1>2. TabsShapes /\ b \in Tabs!Locations
  BY TabsFacts DEF TabsInv
<1>3. late' \in [Tabs!Locations -> Nat] /\ \A k \in Tabs!Locations : late'[k] > 0 => late[k] > 0
  BY <1>1, <1>2 DEF TabsShapes
<1>4. TabsShapes' /\ crashes' # 0
  BY <1>1, <1>2, <1>3 DEF TabsInv, TabsShapes
<1>5. ASSUME ~loggedOut'
      PROVE  /\ store'[b] # None
             /\ \A k \in Tabs!Locations : late'[k] > 0 => k = home /\ k # b
  <2>1. HasSession(home, b)
    BY <1>1, <1>5 DEF TabsInv
  <2>. QED
    BY <1>1, <1>2, <1>3, <2>1 DEF HasSession, TabsShapes
<1>6. /\ tabsCookie' \in {home, b, None}
      /\ \A r \in Requests :
           /\ Rerouted(req'[r], home, b)
           /\ tabsCookie' = home /\ req'[r].pc \in Moves => req'[r].src = home
  BY <1>1 DEF TabsInv
<1>. QED
  BY <1>4, <1>5, <1>6, TabsThere

LEMMA TabsNext ==
  ASSUME NEW b \in Routes, Routes = {b}, MaxFailures = 0, NEW home \in Tabs!Locations,
         TabsInv(home, b), [UnionNext]_unionVars
  PROVE  TabsInv(home, b)'
<1>1. ASSUME UNCHANGED tabsVars PROVE TabsInv(home, b)'
  BY <1>1 DEF tabsVars, TabsInv, TabsShapes, HasSession, Follows, Rerouted, Relies, MovedBy,
     TabRequest, Moves, Tabs!Locations, Tabs!Host
<1>2. ASSUME NEW r \in Requests,
             \/ Tabs!LoadFails(r) \/ Tabs!MoveFails(r) \/ Tabs!DeleteFails(r)
             \/ Tabs!DeleteTimesOut(r) \/ Tabs!AnswerFails(r)
      PROVE  FALSE
  <2>1. failures < MaxFailures /\ failures \in 0..MaxFailures
    BY <1>2 DEF TabsInv, TabsShapes, Tabs!Fail, Tabs!LoadFails, Tabs!MoveFails, Tabs!DeleteFails,
       Tabs!DeleteTimesOut, Tabs!AnswerFails
  <2>. QED
    BY <2>1
<1>3. ASSUME Tabs!Next PROVE TabsInv(home, b)'
  BY <1>2, <1>3, TabReads, TabStores, TabDeletes, TabResponds, TabEmptiesPrevious, TabCrashes,
     TabLateDelete DEF Tabs!Next
<1>. QED
  BY <1>1, <1>3, StepOfTabs

LEMMA TabsHold ==
  ASSUME NEW b \in Routes, Routes = {b}, MaxFailures = 0
  PROVE  UnionSpec => [](\E home \in Tabs!Locations : TabsInv(home, b))
<1> DEFINE I == \E home \in Tabs!Locations : TabsInv(home, b)
<1>1. UnionInit => I
  BY TabsInitial
<1>2. I /\ [UnionNext]_unionVars => I'
  <2>1. SUFFICES ASSUME I, [UnionNext]_unionVars PROVE I'
    OBVIOUS
  <2>2. PICK home \in Tabs!Locations : TabsInv(home, b)
    BY <2>1
  <2>3. TabsInv(home, b)'
    BY <2>1, <2>2, TabsNext
  <2>. QED
    BY <2>3 DEF Tabs!Locations
<1>. QED
  BY <1>1, <1>2, PTL DEF UnionSpec

(* However many tabs are rerouted to a cluster at once, whatever moves the  *)
(* session (clustersessionstore.load) and whichever of them process_response *)
(* answers last: as long as no call fails, the cookie they are left with    *)
(* names a location that has the session, and no worker that dies in the    *)
(* middle of the move loses it.                                            *)
THEOREM TabsKeepTheirSession ==
  ASSUME NEW b \in Routes, Routes = {b}, MaxFailures = 0
  PROVE  UnionSpec => []CookieLeadsToSession
<1>1. ASSUME NEW home \in Tabs!Locations, TabsInv(home, b) PROVE CookieLeadsToSession
  <2>1. TabsShapes /\ (~loggedOut => HasSession(home, b) /\ (crashes = 0 => Follows(home, b)))
    BY <1>1 DEF TabsInv
  <2>2. Tabs!Host(home) \in Clusters /\ b \in Tabs!Locations
    BY TabsFacts
  <2>3. Tabs!SessionKept
    BY <2>1, <2>2 DEF HasSession, Tabs!SessionKept, Tabs!Copies, Tabs!CopiesIn
  <2>4. Tabs!CookieLeadsToSession
    <3>1. SUFFICES ASSUME \A r \in Requests : req[r].pc = "idle", tabsCookie # None, ~loggedOut,
                          crashes = 0
                   PROVE  store[tabsCookie] # None \/ previous[Tabs!Host(tabsCookie)] # None
      BY DEF Tabs!CookieLeadsToSession, Tabs!At
    <3>2. HasSession(home, b) /\ Follows(home, b) /\ tabsCookie \in {home, b}
      BY <1>1, <2>1, <3>1 DEF TabsInv
    <3>3. ~\E r \in Requests : MovedBy(req[r], b)
      BY <3>1 DEF MovedBy
    <3>4. CASE home = b
      BY <3>2, <3>4 DEF HasSession
    <3>5. CASE home # b
      BY <3>2, <3>3, <3>5 DEF HasSession, Follows
    <3>. QED
      BY <3>4, <3>5
  <2>. QED
    BY <2>3, <2>4 DEF CookieLeadsToSession
<1>2. (\E home \in Tabs!Locations : TabsInv(home, b)) => CookieLeadsToSession
  BY <1>1
<1>3. UnionSpec => [](\E home \in Tabs!Locations : TabsInv(home, b))
  BY TabsHold
<1>. QED
  BY <1>2, <1>3, PTL

-----------------------------------------------------------------------------
(***************************************************************************)
(* The interconnection user.  What other workers do to the user and its     *)
(* token only helps a call in progress: they create, activate and enable,   *)
(* and renew only a token that is due.  A second try that nobody disturbs   *)
(* starts from nothing cached, and what it has loaded so far is what the    *)
(* database holds, or a token that is due and will be replaced.             *)
(***************************************************************************)
LEMMA StepOfRemote ==
  ASSUME [UnionNext]_unionVars, which' = "interconnect"
  PROVE  which = "interconnect" /\ (Remote!Next \/ UNCHANGED remoteVars)
BY DEF UnionNext, unionVars

RemoteUser == [id : 1..MaxUsers, active : BOOLEAN]

RemoteToken == [token : Nat, enabled : BOOLEAN]

RemoteCall == [pc : {"idle", "user", "activate", "token", "renew", "reload", "enable", "send"},
               try : {1, 2}, after : {"renew", "send"}, disturbed : BOOLEAN]

RemoteShapes ==
  /\ row \in RemoteUser \cup {None}
  /\ tokenRow \in RemoteToken \cup {None}
  /\ user \in [Workers -> RemoteUser \cup {None}]
  /\ remoteToken \in [Workers -> RemoteToken \cup {None}]
  /\ call \in [Workers -> RemoteCall]
  /\ emailKey \in 1..MaxUsers \cup {None}
  /\ made \in Nat /\ users \in 1..MaxUsers /\ renewals \in Nat /\ expiries \in Nat
  /\ ending \subseteq 1..made

DueIn(t, e) == t.token = 0 \/ t.token \in e

(* An undisturbed second try q: its user u, its token t, the rows r and k,  *)
(* the tokens e that are due.                                              *)
SecondTryOK(q, u, t, r, k, e) ==
  /\ q.after = "renew"
  /\ q.pc = "user" => u = None /\ t = None
  /\ q.pc \in {"activate", "token"} => t = None
  /\ q.pc # "user" => u # None /\ r # None /\ u.id = r.id
  /\ q.pc \notin {"user", "activate"} => r.active
  /\ q.pc \in {"renew", "reload", "enable", "send"} => k # None
  /\ q.pc = "renew" => DueIn(t, e) \/ (t.token = k.token /\ ~DueIn(k, e) /\ (t.enabled => k.enabled))
  /\ q.pc = "enable" => t.token = k.token /\ ~DueIn(k, e)
  /\ q.pc = "send" => t.token = k.token /\ ~DueIn(k, e) /\ k.enabled

CallOK(q, u, t, r, k, e) ==
  /\ q.pc = "idle" => q.try = 1
  /\ u = None => q.pc \in {"idle", "user"}
  /\ t = None => q.pc \in {"idle", "user", "activate", "token"}
  /\ q.try = 2 /\ ~q.disturbed => SecondTryOK(q, u, t, r, k, e)

RemoteInv ==
  /\ RemoteShapes
  /\ \A w \in Workers : remoteToken[w] # None => remoteToken[w].token <= made
  /\ tokenRow # None => /\ row # None /\ tokenRow.token <= made
                        /\ DueIn(tokenRow, ending) => renewals < expiries
  /\ \A w \in Workers : CallOK(call[w], user[w], remoteToken[w], row, tokenRow, ending)
  /\ renewals <= expiries
  /\ refused = 0

LEMMA RemoteInit ==
  ASSUME Remote!Init PROVE RemoteInv
<1>1. [id |-> 1, active |-> TRUE] \in RemoteUser /\ None \notin RemoteUser
  BY CredentialsAssumption DEF RemoteUser
<1>2. Remote!NewToken(1) \in RemoteToken /\ None \notin RemoteToken
  BY CredentialsAssumption DEF RemoteToken, Remote!NewToken
<1>3. Remote!Idle \in RemoteCall /\ Remote!Idle.pc = "idle" /\ Remote!Idle.try = 1
  BY DEF RemoteCall, Remote!Idle
<1>4. RemoteShapes
  <2>1. row \in RemoteUser /\ tokenRow \in RemoteToken /\ made = 1
    BY <1>1, <1>2 DEF Remote!Init
  <2>2. user \in [Workers -> RemoteUser \cup {None}] /\ remoteToken \in [Workers -> RemoteToken \cup {None}]
    BY <2>1 DEF Remote!Init
  <2>3. call \in [Workers -> RemoteCall]
    BY <1>3 DEF Remote!Init
  <2>4. emailKey = None /\ users \in 1..MaxUsers /\ renewals = 0 /\ expiries = 0 /\ ending = {}
    BY CredentialsAssumption DEF Remote!Init
  <2>. QED
    BY <2>1, <2>2, <2>3, <2>4 DEF RemoteShapes
<1>5. tokenRow.token = 1 /\ ~DueIn(tokenRow, ending) /\ row # None
  <2>1. row = [id |-> 1, active |-> TRUE] /\ tokenRow = [token |-> 1, enabled |-> TRUE] /\ ending = {}
    BY DEF Remote!Init, Remote!NewToken
  <2>2. row \in RemoteUser /\ row # None
    BY <1>1, <2>1
  <2>3. tokenRow.token = 1
    BY <2>1
  <2>. QED
    BY <2>1, <2>2, <2>3 DEF DueIn
<1>6. ASSUME NEW w \in Workers
      PROVE  CallOK(call[w], user[w], remoteToken[w], row, tokenRow, ending)
  BY <1>1, <1>2, <1>3, <1>5 DEF Remote!Init, CallOK
<1>. QED
  BY <1>4, <1>5, <1>6 DEF Remote!Init, RemoteInv

(* A step of worker w, which leaves it with the call q, the user u and the  *)
(* token t.                                                                 *)
LEMMA RemoteStep ==
  ASSUME RemoteInv, NEW w \in Workers, NEW q \in RemoteCall,
         NEW u \in RemoteUser \cup {None}, NEW t \in RemoteToken \cup {None},
         call' = [call EXCEPT ![w] = q], user' = [user EXCEPT ![w] = u],
         remoteToken' = [remoteToken EXCEPT ![w] = t],
         row' \in RemoteUser \cup {None}, users' \in 1..MaxUsers,
         row # None => row' # None /\ row'.id = row.id /\ (row.active => row'.active),
         tokenRow' \in RemoteToken \cup {None}, tokenRow' # None => row' # None,
         \/ /\ tokenRow' = tokenRow /\ UNCHANGED <<made, renewals>>
         \/ /\ tokenRow # None /\ tokenRow' = [tokenRow EXCEPT !.enabled = TRUE]
            /\ UNCHANGED <<made, renewals>>
         \/ /\ tokenRow = None \/ DueIn(tokenRow, ending)
            /\ made' = made + 1 /\ tokenRow' = Remote!NewToken(made')
            /\ renewals' = IF tokenRow = None THEN renewals ELSE renewals + 1,
         UNCHANGED <<ending, expiries, refused>>, emailKey' \in 1..MaxUsers \cup {None},
         t # None => t.token <= made',
         CallOK(q, u, t, row', tokenRow', ending)
  PROVE  RemoteInv'
<1>1. None \notin RemoteUser /\ None \notin RemoteToken
  BY CredentialsAssumption DEF RemoteUser, RemoteToken
<1>2. RemoteShapes /\ made \in Nat /\ renewals \in Nat /\ expiries \in Nat
      /\ (tokenRow # None => tokenRow \in RemoteToken) /\ renewals <= expiries
      /\ (tokenRow # None => tokenRow.token <= made /\ (DueIn(tokenRow, ending) => renewals < expiries))
      /\ ending \subseteq 1..made /\ UNCHANGED ending
  BY DEF RemoteInv, RemoteShapes
<1>3. /\ \A v \in Workers : call'[v] = IF v = w THEN q ELSE call[v]
      /\ \A v \in Workers : user'[v] = IF v = w THEN u ELSE user[v]
      /\ \A v \in Workers : remoteToken'[v] = IF v = w THEN t ELSE remoteToken[v]
  <2>1. /\ call \in [Workers -> RemoteCall] /\ user \in [Workers -> RemoteUser \cup {None}]
        /\ remoteToken \in [Workers -> RemoteToken \cup {None}]
    BY <1>2 DEF RemoteShapes
  <2>2. \A v \in Workers : call'[v] = IF v = w THEN q ELSE call[v]
    BY <2>1
  <2>3. \A v \in Workers : user'[v] = IF v = w THEN u ELSE user[v]
    BY <2>1
  <2>4. \A v \in Workers : remoteToken'[v] = IF v = w THEN t ELSE remoteToken[v]
    BY <2>1
  <2>. QED
    BY <2>2, <2>3, <2>4
<1>4. \/ tokenRow' = tokenRow /\ UNCHANGED <<made, renewals>>
      \/ /\ tokenRow # None /\ tokenRow' # None /\ tokenRow'.token = tokenRow.token
         /\ tokenRow'.enabled /\ UNCHANGED <<made, renewals>>
      \/ /\ tokenRow = None \/ DueIn(tokenRow, ending)
         /\ made' = made + 1 /\ tokenRow' # None /\ tokenRow'.token = made + 1 /\ ~DueIn(tokenRow', ending)
         /\ (tokenRow = None => UNCHANGED renewals)
         /\ (tokenRow # None => renewals' = renewals + 1)
  <2>1. CASE tokenRow' = tokenRow /\ UNCHANGED <<made, renewals>>
    BY <2>1
  <2>2. CASE /\ tokenRow # None /\ tokenRow' = [tokenRow EXCEPT !.enabled = TRUE]
             /\ UNCHANGED <<made, renewals>>
    <3>1. tokenRow \in RemoteToken
      BY <1>2, <2>2
    <3>2. [tokenRow EXCEPT !.enabled = TRUE] \in RemoteToken
      BY <3>1 DEF RemoteToken
    <3>. QED
      BY <1>1, <2>2, <3>1, <3>2 DEF RemoteToken
  <2>3. CASE /\ tokenRow = None \/ DueIn(tokenRow, ending)
             /\ made' = made + 1 /\ tokenRow' = Remote!NewToken(made')
             /\ renewals' = IF tokenRow = None THEN renewals ELSE renewals + 1
    <3>1. Remote!NewToken(made') \in RemoteToken
      BY <1>2, <2>3 DEF Remote!NewToken, RemoteToken
    <3>2. tokenRow'.token = made + 1 /\ ~DueIn(tokenRow', ending)
      BY <1>2, <2>3 DEF Remote!NewToken, DueIn
    <3>. QED
      BY <1>1, <2>3, <3>1, <3>2
  <2>. QED
    BY <2>1, <2>2, <2>3
<1>5. made' \in Nat /\ made <= made' /\ renewals' \in Nat /\ renewals' <= expiries
      /\ (tokenRow' # None => /\ tokenRow'.token <= made'
                              /\ (DueIn(tokenRow', ending) => renewals' < expiries))
  <2>1. DueIn(tokenRow', ending) <=> tokenRow'.token = 0 \/ tokenRow'.token \in ending
    BY DEF DueIn
  <2>2. DueIn(tokenRow, ending) <=> tokenRow.token = 0 \/ tokenRow.token \in ending
    BY DEF DueIn
  <2>. QED
    BY <1>1, <1>2, <1>4, <2>1, <2>2
<1>6. RemoteShapes'
  BY <1>2, <1>5 DEF RemoteShapes
<1>7. ASSUME NEW v \in Workers, remoteToken'[v] # None PROVE remoteToken'[v].token <= made'
  <2>1. CASE v = w
    BY <1>3, <1>7, <2>1
  <2>2. CASE v # w
    <3>1. remoteToken'[v] = remoteToken[v] /\ remoteToken[v].token <= made
          /\ remoteToken[v] \in RemoteToken
      BY <1>2, <1>3, <1>7, <2>2 DEF RemoteInv, RemoteShapes
    <3>. QED
      BY <1>2, <1>5, <3>1 DEF RemoteToken
  <2>. QED
    BY <2>1, <2>2
<1>8. ASSUME NEW v \in Workers, v # w
      PROVE  CallOK(call[v], user[v], remoteToken[v], row', tokenRow', ending)
  <2>1. /\ CallOK(call[v], user[v], remoteToken[v], row, tokenRow, ending)
        /\ remoteToken[v] # None => remoteToken[v].token <= made
        /\ remoteToken[v] \in RemoteToken \cup {None}
    BY DEF RemoteInv, RemoteShapes
  <2>3. ASSUME SecondTryOK(call[v], user[v], remoteToken[v], row, tokenRow, ending)
        PROVE  SecondTryOK(call[v], user[v], remoteToken[v], row', tokenRow', ending)
    BY <1>4, <2>3 DEF SecondTryOK, DueIn
  <2>. QED
    BY <2>1, <2>3 DEF CallOK
<1>9. ASSUME NEW v \in Workers
      PROVE  CallOK(call'[v], user'[v], remoteToken'[v], row', tokenRow', ending)
  <2>1. CASE v = w
    BY <1>3, <2>1
  <2>2. CASE v # w
    BY <1>3, <1>8, <2>2
  <2>. QED
    BY <2>1, <2>2
<1>. QED
  BY <1>2, <1>5, <1>6, <1>7, <1>9 DEF RemoteInv

LEMMA RemoteFacts ==
  ASSUME RemoteInv, NEW w \in Workers
  PROVE  /\ call \in [Workers -> RemoteCall] /\ call[w] \in RemoteCall
         /\ user \in [Workers -> RemoteUser \cup {None}] /\ user[w] \in RemoteUser \cup {None}
         /\ remoteToken \in [Workers -> RemoteToken \cup {None}]
         /\ remoteToken[w] \in RemoteToken \cup {None}
         /\ remoteToken[w] # None => remoteToken[w].token <= made
         /\ row \in RemoteUser \cup {None} /\ tokenRow \in RemoteToken \cup {None}
         /\ tokenRow # None => row # None /\ tokenRow.token <= made
         /\ made \in Nat /\ users \in 1..MaxUsers
         /\ ending \subseteq 1..made /\ emailKey \in 1..MaxUsers \cup {None}
         /\ None \notin RemoteUser /\ None \notin RemoteToken
         /\ CallOK(call[w], user[w], remoteToken[w], row, tokenRow, ending)
BY CredentialsAssumption DEF RemoteInv, RemoteShapes, RemoteUser, RemoteToken

(* A step of worker w that changes its call only.                           *)
LEMMA RemoteGo ==
  ASSUME RemoteInv, NEW w \in Workers, NEW q \in RemoteCall, call' = [call EXCEPT ![w] = q],
         UNCHANGED <<row, tokenRow, ending, user, remoteToken, made, users, renewals, expiries, refused>>,
         emailKey' \in 1..MaxUsers \cup {None},
         CallOK(q, user[w], remoteToken[w], row, tokenRow, ending)
  PROVE  RemoteInv'
<1>1. /\ user' = [user EXCEPT ![w] = user[w]]
      /\ remoteToken' = [remoteToken EXCEPT ![w] = remoteToken[w]]
  BY RemoteFacts
<1>2. /\ user[w] \in RemoteUser \cup {None} /\ remoteToken[w] \in RemoteToken \cup {None}
      /\ row' \in RemoteUser \cup {None} /\ users' \in 1..MaxUsers
      /\ tokenRow' \in RemoteToken \cup {None} /\ (tokenRow' # None => row' # None)
      /\ remoteToken[w] # None => remoteToken[w].token <= made'
      /\ CallOK(q, user[w], remoteToken[w], row', tokenRow', ending)
  BY RemoteFacts
<1>. QED
  BY <1>1, <1>2, RemoteStep

(* What the called cluster caches of the user it looks for.                 *)
LEMMA RemoteFinds ==
  ASSUME row \in RemoteUser \cup {None}, emailKey \in 1..MaxUsers \cup {None}, NEW u, Remote!Find(u)
  PROVE  emailKey' \in 1..MaxUsers \cup {None}
<1>1. CASE Remote!FindByEmail(u)
  BY <1>1 DEF Remote!FindByEmail, RemoteUser
<1>2. ASSUME NEW id, Remote!FindById(id, u) PROVE emailKey' = emailKey
  BY <1>2 DEF Remote!FindById, Remote!called
<1>. QED
  BY <1>1, <1>2 DEF Remote!Find

LEMMA RemoteGoes ==
  ASSUME RemoteInv, NEW w \in Workers,
         \/ Remote!Begin(w) \/ Remote!InTime(w) \/ Remote!RenewRaises(w) \/ Remote!RenewFails(w)
         \/ Remote!Accept(w) \/ \E u : Remote!Fail(w, u)
         \/ Remote!LoadToken(w) /\ remoteToken[w] # None
  PROVE  RemoteInv'
<1>0. /\ call \in [Workers -> RemoteCall] /\ call[w] \in RemoteCall
      /\ remoteToken[w] \in RemoteToken \cup {None}
      /\ row \in RemoteUser \cup {None} /\ emailKey \in 1..MaxUsers \cup {None}
      /\ CallOK(call[w], user[w], remoteToken[w], row, tokenRow, ending)
  BY RemoteFacts
<1>1. Remote!Idle \in RemoteCall /\ Remote!Idle.pc = "idle" /\ Remote!Idle.try = 1
  BY DEF RemoteCall, Remote!Idle
<1>2. CallOK(Remote!Idle, user[w], remoteToken[w], row, tokenRow, ending)
  BY <1>0, <1>1 DEF CallOK
<1>3. CASE Remote!Begin(w)
  <2> DEFINE q == [Remote!Idle EXCEPT !.pc = "user"]
  <2>1. q \in RemoteCall /\ q.pc = "user" /\ q.try = 1
    BY DEF RemoteCall, Remote!Idle
  <2>2. /\ call' = [call EXCEPT ![w] = q]
        /\ UNCHANGED <<row, tokenRow, ending, user, remoteToken, emailKey, made, users, renewals, expiries, refused>>
    BY <1>3 DEF Remote!Begin, Remote!reserved, Remote!cached, Remote!called, Remote!history
  <2> HIDE DEF q
  <2>3. CallOK(q, user[w], remoteToken[w], row, tokenRow, ending)
    BY <1>0, <2>1 DEF CallOK
  <2>. QED
    BY <1>0, <2>1, <2>2, <2>3, RemoteGo
<1>4. CASE Remote!RenewRaises(w) \/ Remote!Accept(w)
  <2>1. emailKey' \in 1..MaxUsers \cup {None}
    BY <1>0, <1>4, RemoteFinds DEF Remote!RenewRaises, Remote!Accept, Remote!called
  <2>2. /\ call' = [call EXCEPT ![w] = Remote!Idle]
        /\ UNCHANGED <<row, tokenRow, ending, user, remoteToken, made, users, renewals, expiries, refused>>
    BY <1>4 DEF Remote!RenewRaises, Remote!Accept, Remote!reserved, Remote!cached, Remote!counts, Remote!history
  <2>. QED
    BY <1>1, <1>2, <2>1, <2>2, RemoteGo
<1>5. ASSUME NEW pc \in {"renew", "send", "enable", "reload"}, Remote!GoTo(w, pc),
             UNCHANGED <<row, tokenRow, ending, user, remoteToken, emailKey, made, users, renewals, expiries, refused>>,
             call[w].pc \in {"renew", "token"}, remoteToken[w] # None,
             call[w].pc = "renew" => \/ pc = "reload"
                                    \/ /\ ~DueIn(remoteToken[w], ending)
                                       /\ pc = (IF remoteToken[w].enabled THEN "send" ELSE "enable"),
             call[w].pc = "token" => pc = "renew"
      PROVE  RemoteInv'
  <2> DEFINE q == [call[w] EXCEPT !.pc = pc]
  <2>1. q \in RemoteCall /\ q.pc = pc /\ q.try = call[w].try /\ q.after = call[w].after
        /\ q.disturbed = call[w].disturbed
    BY <1>0 DEF RemoteCall
  <2>2. call' = [call EXCEPT ![w] = q]
    BY <1>0, <1>5 DEF Remote!GoTo
  <2> HIDE DEF q
  <2>3. ASSUME q.try = 2, ~q.disturbed PROVE SecondTryOK(q, user[w], remoteToken[w], row, tokenRow, ending)
    BY <1>0, <1>5, <2>1, <2>3 DEF CallOK, SecondTryOK
  <2>4. CallOK(q, user[w], remoteToken[w], row, tokenRow, ending)
    BY <1>0, <1>5, <2>1, <2>3 DEF CallOK
  <2>. QED
    BY <1>0, <1>5, <2>1, <2>2, <2>4, RemoteGo
<1>6. CASE Remote!InTime(w) \/ Remote!RenewFails(w)
  <2>1. remoteToken[w] # None
    BY <1>0, <1>6 DEF Remote!InTime, Remote!RenewFails, Remote!At, CallOK
  <2>. QED
    BY <1>5, <1>6, <2>1 DEF Remote!InTime, Remote!RenewFails, Remote!At, Remote!reserved, Remote!cached,
       Remote!called, Remote!counts, Remote!history, Remote!Due, Remote!NoToken, DueIn
<1>7. CASE Remote!LoadToken(w) /\ remoteToken[w] # None
  BY <1>5, <1>7 DEF Remote!LoadToken, Remote!At, Remote!cached, Remote!called, Remote!history
<1>8. ASSUME NEW u, Remote!Fail(w, u) PROVE RemoteInv'
  <2>1. /\ call[w].pc = "send" /\ call[w].try = 2
        /\ u # None /\ u.active => ~Remote!Valid(w, u)
        /\ call' = [call EXCEPT ![w] = Remote!Idle]
        /\ UNCHANGED <<row, tokenRow, ending, user, remoteToken, made, users, renewals, expiries>>
    BY <1>8 DEF Remote!Fail, Remote!Refuses, Remote!At, Remote!reserved, Remote!cached, Remote!counts
  <2>2. emailKey' \in 1..MaxUsers \cup {None}
    BY <1>0, <1>8, RemoteFinds DEF Remote!Fail, Remote!Refuses
  <2>3. call[w].disturbed \/ u # row
    <3>1. SUFFICES ASSUME ~call[w].disturbed, u = row PROVE FALSE
      OBVIOUS
    <3>2. SecondTryOK(call[w], user[w], remoteToken[w], row, tokenRow, ending)
      BY <1>0, <2>1, <3>1 DEF CallOK
    <3>3. Remote!Valid(w, u) /\ u # None /\ u.active
      BY <2>1, <3>1, <3>2 DEF SecondTryOK, DueIn, Remote!Valid, Remote!NoToken
    <3>. QED
      BY <2>1, <3>3
  <2>4. refused' = refused
    BY <1>8, <2>3 DEF Remote!Fail
  <2>. QED
    BY <1>1, <1>2, <2>1, <2>2, <2>4, RemoteGo
<1>. QED
  BY <1>3, <1>4, <1>6, <1>7, <1>8

LEMMA GetUser ==
  ASSUME RemoteInv, NEW w \in Workers, Remote!GetOrCreateUser(w)
  PROVE  /\ row' \in RemoteUser /\ row' # None /\ users' \in 1..MaxUsers
         /\ row # None => row' = row
         /\ user' = [user EXCEPT ![w] = row'] /\ user'[w] = row'
<1>0. /\ user \in [Workers -> RemoteUser \cup {None}] /\ row \in RemoteUser \cup {None}
      /\ users \in 1..MaxUsers /\ None \notin RemoteUser /\ MaxUsers \in Nat
  BY RemoteFacts, CredentialsAssumption
<1>1. user' = [user EXCEPT ![w] = row'] /\ user'[w] = row'
  BY <1>0 DEF Remote!GetOrCreateUser
<1>2. CASE row # None
  BY <1>0, <1>1, <1>2 DEF Remote!GetOrCreateUser
<1>3. CASE row = None
  <2>1. users' \in 1..MaxUsers /\ row' = [id |-> users', active |-> TRUE]
    BY <1>0, <1>3 DEF Remote!GetOrCreateUser
  <2>2. row' \in RemoteUser
    BY <2>1 DEF RemoteUser
  <2>. QED
    BY <1>0, <1>1, <1>3, <2>1, <2>2
<1>. QED
  BY <1>2, <1>3

(* A step of worker w that loads or activates the user.                     *)
LEMMA RemoteUserStep ==
  ASSUME RemoteInv, NEW w \in Workers, NEW pc \in {"activate", "token"},
         NEW u \in RemoteUser,
         call[w].pc \in {"user", "activate"}, Remote!GoTo(w, pc),
         user' = [user EXCEPT ![w] = u], row' \in RemoteUser \cup {None}, users' \in 1..MaxUsers,
         row # None => row' # None /\ row'.id = row.id /\ (row.active => row'.active),
         call[w].try = 2 /\ ~call[w].disturbed =>
           row' # None /\ u.id = row'.id /\ (pc = "token" => row'.active),
         UNCHANGED <<tokenRow, ending, remoteToken, emailKey, made, renewals, expiries, refused>>
  PROVE  RemoteInv'
<1> DEFINE q == [call[w] EXCEPT !.pc = pc]
           t == remoteToken[w]
<1>0. /\ call \in [Workers -> RemoteCall] /\ call[w] \in RemoteCall
      /\ remoteToken \in [Workers -> RemoteToken \cup {None}] /\ t \in RemoteToken \cup {None}
      /\ t # None => t.token <= made
      /\ tokenRow \in RemoteToken \cup {None} /\ (tokenRow # None => row # None)
      /\ None \notin RemoteUser /\ emailKey \in 1..MaxUsers \cup {None}
      /\ CallOK(call[w], user[w], t, row, tokenRow, ending)
  BY RemoteFacts
<1>1. q \in RemoteCall /\ q.pc = pc /\ q.try = call[w].try /\ q.after = call[w].after
      /\ q.disturbed = call[w].disturbed
  BY <1>0 DEF RemoteCall
<1>2. call' = [call EXCEPT ![w] = q] /\ remoteToken' = [remoteToken EXCEPT ![w] = t]
  BY <1>0 DEF Remote!GoTo
<1> HIDE DEF q, t
<1>3. ASSUME q.try = 2, ~q.disturbed PROVE SecondTryOK(q, u, t, row', tokenRow', ending)
  BY <1>0, <1>1, <1>3 DEF CallOK, SecondTryOK
<1>4. CallOK(q, u, t, row', tokenRow', ending)
  BY <1>0, <1>1, <1>3 DEF CallOK
<1>. QED
  BY <1>0, <1>1, <1>2, <1>4, RemoteStep

LEMMA RemoteUserSteps ==
  ASSUME RemoteInv, NEW w \in Workers, Remote!LoadUser(w) \/ Remote!Activate(w)
  PROVE  RemoteInv'
<1>0. /\ user \in [Workers -> RemoteUser \cup {None}] /\ user[w] \in RemoteUser \cup {None}
      /\ row \in RemoteUser \cup {None} /\ users \in 1..MaxUsers
      /\ None \notin RemoteUser
      /\ CallOK(call[w], user[w], remoteToken[w], row, tokenRow, ending)
  BY RemoteFacts
<1>1. /\ UNCHANGED <<tokenRow, ending, remoteToken, emailKey, made, renewals, expiries, refused>>
      /\ call[w].pc \in {"user", "activate"}
  BY DEF Remote!LoadUser, Remote!Activate, Remote!At, Remote!called, Remote!history
<1>2. CASE Remote!LoadUser(w) /\ user[w] = None
  <2>1. PICK pc \in {"activate", "token"} :
          /\ Remote!GetOrCreateUser(w) /\ Remote!GoTo(w, pc) /\ (pc = "token" => user'[w].active)
    BY <1>2 DEF Remote!LoadUser
  <2>2. /\ row' \in RemoteUser /\ row' # None /\ users' \in 1..MaxUsers
        /\ row # None => row' = row
        /\ user' = [user EXCEPT ![w] = row'] /\ user'[w] = row'
    BY <2>1, GetUser
  <2>. QED
    BY <1>1, <2>1, <2>2, RemoteUserStep
<1>3. CASE Remote!LoadUser(w) /\ user[w] # None
  <2>1. PICK pc \in {"activate", "token"} : Remote!GoTo(w, pc)
    BY <1>3 DEF Remote!LoadUser
  <2>2. /\ UNCHANGED <<row, users>> /\ user' = [user EXCEPT ![w] = user[w]] /\ call[w].pc = "user"
    BY <1>0, <1>3 DEF Remote!LoadUser, Remote!At
  <2>3. ~(call[w].try = 2 /\ ~call[w].disturbed)
    BY <1>0, <1>3, <2>2 DEF CallOK, SecondTryOK
  <2>. QED
    BY <1>0, <1>1, <1>3, <2>1, <2>2, <2>3, RemoteUserStep
<1>4. CASE Remote!Activate(w) /\ Remote!Exists(w)
  <2> DEFINE u == [user[w] EXCEPT !.active = TRUE]
  <2>1. /\ row' = [row EXCEPT !.active = TRUE] /\ user' = [user EXCEPT ![w].active = TRUE]
        /\ UNCHANGED users /\ row # None /\ user[w].id = row.id /\ user[w] # None
        /\ Remote!GoTo(w, "token")
    BY <1>0, <1>4 DEF Remote!Activate, Remote!Exists, Remote!At, CallOK
  <2>2. /\ row' \in RemoteUser /\ row'.id = row.id /\ row'.active
        /\ u \in RemoteUser /\ u.id = user[w].id
    BY <1>0, <2>1 DEF RemoteUser
  <2>3. user' = [user EXCEPT ![w] = u]
    BY <1>0, <2>1
  <2> HIDE DEF u
  <2>. QED
    BY <1>0, <1>1, <2>1, <2>2, <2>3, RemoteUserStep
<1>5. CASE Remote!Activate(w) /\ ~Remote!Exists(w)
  <2>1. Remote!GetOrCreateUser(w) /\ Remote!GoTo(w, "token") /\ call[w].pc = "activate"
    BY <1>5 DEF Remote!Activate, Remote!At
  <2>2. /\ row' \in RemoteUser /\ row' # None /\ users' \in 1..MaxUsers
        /\ row # None => row' = row
        /\ user' = [user EXCEPT ![w] = row'] /\ user'[w] = row'
    BY <2>1, GetUser
  <2>3. ~(call[w].try = 2 /\ ~call[w].disturbed)
    BY <1>0, <1>5, <2>1 DEF Remote!Exists, CallOK, SecondTryOK
  <2>. QED
    BY <1>0, <1>1, <2>1, <2>2, <2>3, RemoteUserStep
<1>. QED
  BY <1>2, <1>3, <1>4, <1>5

LEMMA NewTokenFacts ==
  ASSUME NEW n \in Nat
  PROVE  /\ Remote!NewToken(n) \in RemoteToken /\ Remote!NewToken(n) # None
         /\ Remote!NewToken(n).token = n /\ Remote!NewToken(n).enabled
<1>1. Remote!NewToken(n) \in RemoteToken
  BY DEF Remote!NewToken, RemoteToken
<1>2. None \notin RemoteToken
  BY CredentialsAssumption DEF RemoteToken
<1>. QED
  BY <1>1, <1>2 DEF Remote!NewToken

LEMMA GetTokenStep ==
  ASSUME RemoteInv, NEW w \in Workers, NEW next \in {"renew", "send"},
         call[w].pc \in {"token", "reload", "enable"},
         call[w].try = 2 /\ ~call[w].disturbed => next = "renew",
         Remote!GetOrCreateToken(w, next), UNCHANGED <<row, ending, emailKey, users, renewals, expiries, refused>>
  PROVE  RemoteInv'
<1>0. /\ call \in [Workers -> RemoteCall] /\ call[w] \in RemoteCall
      /\ user \in [Workers -> RemoteUser \cup {None}] /\ user[w] \in RemoteUser \cup {None}
      /\ remoteToken \in [Workers -> RemoteToken \cup {None}]
      /\ row \in RemoteUser \cup {None} /\ tokenRow \in RemoteToken \cup {None}
      /\ tokenRow # None => row # None /\ tokenRow.token <= made
      /\ made \in Nat /\ users \in 1..MaxUsers
      /\ ending \subseteq 1..made /\ emailKey \in 1..MaxUsers \cup {None}
      /\ None \notin RemoteUser /\ None \notin RemoteToken
      /\ CallOK(call[w], user[w], remoteToken[w], row, tokenRow, ending)
  BY RemoteFacts
<1>1. CASE ~Remote!Exists(w)
  <2> DEFINE q == [call[w] EXCEPT !.pc = "user", !.after = next]
  <2>1. q \in RemoteCall /\ q.pc = "user" /\ q.try = call[w].try /\ q.disturbed = call[w].disturbed
    BY <1>0 DEF RemoteCall
  <2>2. /\ user' = [user EXCEPT ![w] = None] /\ remoteToken' = [remoteToken EXCEPT ![w] = None]
        /\ call' = [call EXCEPT ![w].pc = "user", ![w].after = next] /\ UNCHANGED <<tokenRow, made>>
    BY <1>1 DEF Remote!GetOrCreateToken
  <2>3. call' = [call EXCEPT ![w] = q]
    BY <1>0, <2>2
  <2>4. ~(call[w].try = 2 /\ ~call[w].disturbed)
    BY <1>0, <1>1 DEF CallOK, SecondTryOK, Remote!Exists
  <2> HIDE DEF q
  <2>5. CallOK(q, None, None, row', tokenRow', ending)
    BY <2>1, <2>4 DEF CallOK
  <2>. QED
    BY <1>0, <2>1, <2>2, <2>3, <2>5, RemoteStep
<1>2. CASE Remote!Exists(w) /\ tokenRow # None
  <2> DEFINE q == [call[w] EXCEPT !.pc = next]
  <2>1. q \in RemoteCall /\ q.pc = next /\ q.try = call[w].try /\ q.disturbed = call[w].disturbed
        /\ q.after = call[w].after
    BY <1>0 DEF RemoteCall
  <2>2. /\ remoteToken' = [remoteToken EXCEPT ![w] = tokenRow] /\ UNCHANGED <<tokenRow, user, made>>
        /\ Remote!GoTo(w, next)
    BY <1>2 DEF Remote!GetOrCreateToken
  <2>3. call' = [call EXCEPT ![w] = q] /\ user' = [user EXCEPT ![w] = user[w]]
    BY <1>0, <2>2 DEF Remote!GoTo
  <2> HIDE DEF q
  <2>4. ASSUME q.try = 2, ~q.disturbed PROVE SecondTryOK(q, user[w], tokenRow, row', tokenRow', ending)
    BY <1>0, <1>2, <2>1, <2>2, <2>4 DEF CallOK, SecondTryOK
  <2>5. CallOK(q, user[w], tokenRow, row', tokenRow', ending)
    BY <1>0, <1>2, <2>1, <2>2, <2>4 DEF CallOK
  <2>. QED
    BY <1>0, <1>2, <2>1, <2>2, <2>3, <2>5, RemoteStep
<1>3. CASE Remote!Exists(w) /\ tokenRow = None
  <2> DEFINE q == [call[w] EXCEPT !.pc = "send"]
             t == Remote!NewToken(made + 1)
  <2>1. q \in RemoteCall /\ q.pc = "send" /\ q.try = call[w].try /\ q.disturbed = call[w].disturbed
        /\ q.after = call[w].after
    BY <1>0 DEF RemoteCall
  <2>2. /\ made' = made + 1 /\ tokenRow' = t /\ remoteToken' = [remoteToken EXCEPT ![w] = t]
        /\ UNCHANGED user /\ Remote!GoTo(w, "send")
    BY <1>3 DEF Remote!GetOrCreateToken
  <2>3. call' = [call EXCEPT ![w] = q] /\ user' = [user EXCEPT ![w] = user[w]]
    BY <1>0, <2>2 DEF Remote!GoTo
  <2>4. t \in RemoteToken /\ t # None /\ t.token = made + 1 /\ ~DueIn(t, ending) /\ t.enabled
    BY <1>0, NewTokenFacts DEF DueIn
  <2>5. tokenRow' = Remote!NewToken(made')
    BY <2>2
  <2>6. row # None
    BY <1>3 DEF Remote!Exists
  <2> HIDE DEF q, t
  <2>7. ASSUME q.try = 2, ~q.disturbed PROVE SecondTryOK(q, user[w], t, row', tokenRow', ending)
    BY <1>0, <1>3, <2>1, <2>2, <2>4, <2>7 DEF CallOK, SecondTryOK
  <2>8. CallOK(q, user[w], t, row', tokenRow', ending)
    BY <1>0, <1>3, <2>1, <2>2, <2>4, <2>7 DEF CallOK
  <2>9. t.token <= made'
    BY <1>0, <2>2, <2>4
  <2>10. /\ row' \in RemoteUser \cup {None} /\ users' \in 1..MaxUsers /\ row' = row /\ row' # None
         /\ tokenRow' \in RemoteToken \cup {None} /\ emailKey' \in 1..MaxUsers \cup {None}
         /\ renewals' = IF tokenRow = None THEN renewals ELSE renewals + 1
         /\ UNCHANGED <<ending, expiries, refused>> /\ user[w] \in RemoteUser \cup {None}
    BY <1>0, <1>3, <2>2, <2>4, <2>6
  <2>. QED
    BY <1>3, <2>1, <2>2, <2>3, <2>4, <2>5, <2>8, <2>9, <2>10, RemoteStep
<1>. QED
  BY <1>1, <1>2, <1>3

LEMMA RemoteTokenSteps ==
  ASSUME RemoteInv, NEW w \in Workers,
         \/ Remote!LoadToken(w) \/ Remote!Reload(w) \/ Remote!Enable(w)
         \/ Remote!Renew(w) \/ \E u : Remote!Reset(w, u)
  PROVE  RemoteInv'
<1>0. /\ call \in [Workers -> RemoteCall] /\ call[w] \in RemoteCall
      /\ user \in [Workers -> RemoteUser \cup {None}] /\ user[w] \in RemoteUser \cup {None}
      /\ remoteToken \in [Workers -> RemoteToken \cup {None}]
      /\ remoteToken[w] \in RemoteToken \cup {None}
      /\ row \in RemoteUser \cup {None} /\ tokenRow \in RemoteToken \cup {None}
      /\ tokenRow # None => row # None /\ tokenRow.token <= made
      /\ made \in Nat /\ users \in 1..MaxUsers
      /\ ending \subseteq 1..made /\ emailKey \in 1..MaxUsers \cup {None}
      /\ None \notin RemoteUser /\ None \notin RemoteToken
      /\ CallOK(call[w], user[w], remoteToken[w], row, tokenRow, ending)
  BY RemoteFacts
<1>1. CASE Remote!LoadToken(w) /\ remoteToken[w] # None
  BY <1>1, RemoteGoes
<1>2. CASE Remote!LoadToken(w) /\ remoteToken[w] = None
  <2>1. /\ Remote!GetOrCreateToken(w, call[w].after) /\ call[w].pc = "token"
        /\ UNCHANGED <<row, ending, emailKey, users, renewals, expiries, refused>>
    BY <1>2 DEF Remote!LoadToken, Remote!At, Remote!called, Remote!history
  <2>2. /\ call[w].after \in {"renew", "send"}
        /\ call[w].try = 2 /\ ~call[w].disturbed => call[w].after = "renew"
    BY <1>0 DEF RemoteCall, CallOK, SecondTryOK
  <2>. QED
    BY <2>1, <2>2, GetTokenStep
<1>3. CASE Remote!Reload(w)
  BY <1>3, GetTokenStep DEF Remote!Reload, Remote!At, Remote!called, Remote!history
<1>4. CASE Remote!Enable(w) /\ ~(Remote!Exists(w) /\ tokenRow # None)
  <2>1. /\ Remote!GetOrCreateToken(w, "send") /\ call[w].pc = "enable"
        /\ UNCHANGED <<row, ending, emailKey, users, renewals, expiries, refused>>
    BY <1>4 DEF Remote!Enable, Remote!At, Remote!called, Remote!history
  <2>2. ~(call[w].try = 2 /\ ~call[w].disturbed)
    BY <1>0, <1>4, <2>1 DEF CallOK, SecondTryOK, Remote!Exists
  <2>. QED
    BY <2>1, <2>2, GetTokenStep
<1>5. CASE Remote!Enable(w) /\ Remote!Exists(w) /\ tokenRow # None
  <2> DEFINE q == [call[w] EXCEPT !.pc = "renew"]
             t == [tokenRow EXCEPT !.enabled = TRUE]
  <2>1. q \in RemoteCall /\ q.pc = "renew" /\ q.try = call[w].try /\ q.disturbed = call[w].disturbed
        /\ q.after = call[w].after
    BY <1>0 DEF RemoteCall
  <2>2. t \in RemoteToken /\ t.token = tokenRow.token /\ t.enabled
    BY <1>0, <1>5 DEF RemoteToken
  <2>3. /\ tokenRow' = t /\ remoteToken' = [remoteToken EXCEPT ![w] = t] /\ call[w].pc = "enable"
        /\ Remote!GoTo(w, "renew")
        /\ UNCHANGED <<row, ending, user, emailKey, made, users, renewals, expiries, refused>>
    BY <1>5 DEF Remote!Enable, Remote!At, Remote!called, Remote!history
  <2>4. call' = [call EXCEPT ![w] = q] /\ user' = [user EXCEPT ![w] = user[w]]
    BY <1>0, <2>3 DEF Remote!GoTo
  <2>5. /\ tokenRow' = [tokenRow EXCEPT !.enabled = TRUE]
        /\ tokenRow' \in RemoteToken \cup {None} /\ tokenRow' # None /\ t.token <= made'
    BY <1>0, <1>5, <2>2, <2>3
  <2> HIDE DEF q, t
  <2>6. ASSUME q.try = 2, ~q.disturbed PROVE SecondTryOK(q, user[w], t, row', tokenRow', ending)
    BY <1>0, <1>5, <2>1, <2>2, <2>3, <2>6 DEF CallOK, SecondTryOK, DueIn
  <2>7. CallOK(q, user[w], t, row', tokenRow', ending)
    BY <1>0, <2>1, <2>2, <2>3, <2>5, <2>6 DEF CallOK
  <2>. QED
    BY <1>0, <1>5, <2>1, <2>2, <2>3, <2>4, <2>5, <2>7, RemoteStep
<1>6. CASE Remote!Renew(w)
  <2> DEFINE q == [call[w] EXCEPT !.pc = "send"]
             t == Remote!NewToken(made + 1)
  <2>1. q \in RemoteCall /\ q.pc = "send" /\ q.try = call[w].try /\ q.disturbed = call[w].disturbed
        /\ q.after = call[w].after
    BY <1>0 DEF RemoteCall
  <2>2. /\ made' = made + 1 /\ tokenRow' = t /\ remoteToken' = [remoteToken EXCEPT ![w] = t]
        /\ renewals' = renewals + 1 /\ call[w].pc = "renew" /\ Remote!GoTo(w, "send")
        /\ UNCHANGED <<row, ending, user, emailKey, users, expiries, refused>>
        /\ DueIn(remoteToken[w], ending) /\ Remote!StillMine(w)
    BY <1>6 DEF Remote!Renew, Remote!At, Remote!called, Remote!Due, Remote!NoToken, DueIn
  <2>3. call' = [call EXCEPT ![w] = q] /\ user' = [user EXCEPT ![w] = user[w]]
    BY <1>0, <2>2 DEF Remote!GoTo
  <2>4. t \in RemoteToken /\ t # None /\ t.token = made + 1 /\ ~DueIn(t, ending) /\ t.enabled
    BY <1>0, NewTokenFacts DEF DueIn
  <2>5. /\ tokenRow' = Remote!NewToken(made') /\ tokenRow # None /\ row # None
        /\ DueIn(tokenRow, ending)
    BY <1>0, <2>2 DEF Remote!StillMine, Remote!Exists, CallOK, DueIn
  <2>6. renewals' = IF tokenRow = None THEN renewals ELSE renewals + 1
    BY <2>2, <2>5
  <2> HIDE DEF q, t
  <2>7. ASSUME q.try = 2, ~q.disturbed PROVE SecondTryOK(q, user[w], t, row', tokenRow', ending)
    BY <1>0, <2>1, <2>2, <2>4, <2>7 DEF CallOK, SecondTryOK
  <2>8. CallOK(q, user[w], t, row', tokenRow', ending)
    BY <1>0, <2>1, <2>2, <2>4, <2>7 DEF CallOK
  <2>9. t.token <= made'
    BY <1>0, <2>2, <2>4
  <2>10. /\ row' \in RemoteUser \cup {None} /\ users' \in 1..MaxUsers /\ row' = row /\ row' # None
         /\ tokenRow' \in RemoteToken \cup {None} /\ emailKey' \in 1..MaxUsers \cup {None}
         /\ UNCHANGED <<ending, expiries, refused>> /\ user[w] \in RemoteUser \cup {None}
    BY <1>0, <2>2, <2>4, <2>5
  <2>. QED
    BY <2>1, <2>2, <2>3, <2>4, <2>5, <2>6, <2>8, <2>9, <2>10, RemoteStep
<1>7. ASSUME NEW u, Remote!Reset(w, u) PROVE RemoteInv'
  <2> DEFINE q == [Remote!Idle EXCEPT !.pc = "user", !.try = 2, !.disturbed = call[w].disturbed]
  <2>1. q \in RemoteCall /\ q.pc = "user" /\ q.after = "renew"
    BY <1>0 DEF RemoteCall, Remote!Idle
  <2>2. /\ user' = [user EXCEPT ![w] = None] /\ remoteToken' = [remoteToken EXCEPT ![w] = None]
        /\ call' = [call EXCEPT ![w] = q]
        /\ UNCHANGED <<row, tokenRow, ending, made, users, renewals, expiries, refused>>
        /\ emailKey' \in 1..MaxUsers \cup {None}
    BY <1>0, <1>7, RemoteFinds DEF Remote!Reset, Remote!Refuses, Remote!reserved, Remote!counts, Remote!history
  <2> HIDE DEF q
  <2>3. CallOK(q, None, None, row', tokenRow', ending)
    BY <2>1 DEF CallOK, SecondTryOK
  <2>. QED
    BY <1>0, <2>1, <2>2, <2>3, RemoteStep
<1>. QED
  BY <1>1, <1>2, <1>3, <1>4, <1>5, <1>6, <1>7

(* What an administrator does, and a token that comes due, disturbs every   *)
(* call in progress.                                                        *)
LEMMA EventStep ==
  ASSUME RemoteInv, Remote!Event, UNCHANGED <<user, remoteToken, users, renewals, refused>>,
         row' \in RemoteUser \cup {None}, tokenRow' \in RemoteToken \cup {None},
         tokenRow' # None => row' # None /\ tokenRow'.token <= made',
         ending' \subseteq 1..made', emailKey' \in 1..MaxUsers \cup {None},
         made' \in Nat, made <= made',
         expiries' \in Nat, expiries <= expiries',
         tokenRow' # None /\ DueIn(tokenRow', ending') => renewals < expiries'
  PROVE  RemoteInv'
<1>0. /\ RemoteShapes /\ call \in [Workers -> RemoteCall] /\ made \in Nat /\ renewals \in Nat
      /\ expiries \in Nat /\ renewals <= expiries
  BY DEF RemoteInv, RemoteShapes
<1>1. ASSUME NEW w \in Workers
      PROVE  /\ call'[w] \in RemoteCall /\ call'[w].pc = call[w].pc /\ call'[w].try = call[w].try
             /\ call[w].pc # "idle" => call'[w].disturbed
  <2>1. call'[w] = [call[w] EXCEPT !.disturbed = ~(call[w].pc = "idle")] /\ call[w] \in RemoteCall
    BY <1>0 DEF Remote!Event, Remote!At
  <2>2. CASE call[w].pc = "idle"
    <3>1. call'[w] = [call[w] EXCEPT !.disturbed = FALSE]
      BY <2>1, <2>2
    <3>. QED
      BY <2>1, <2>2, <3>1 DEF RemoteCall
  <2>3. CASE call[w].pc # "idle"
    <3>1. call'[w] = [call[w] EXCEPT !.disturbed = TRUE]
      BY <2>1, <2>3
    <3>. QED
      BY <2>1, <3>1 DEF RemoteCall
  <2>. QED
    BY <2>2, <2>3
<1>2. RemoteShapes'
  <2>1. call' \in [Workers -> RemoteCall]
    BY <1>1 DEF Remote!Event
  <2>. QED
    BY <1>0, <2>1 DEF RemoteShapes
<1>3. ASSUME NEW w \in Workers
      PROVE  CallOK(call'[w], user'[w], remoteToken'[w], row', tokenRow', ending')
  <2>1. CallOK(call[w], user[w], remoteToken[w], row, tokenRow, ending)
    BY DEF RemoteInv
  <2>2. call[w].try = 2 => call[w].pc # "idle"
    BY <2>1 DEF CallOK
  <2>. QED
    BY <1>1, <2>1, <2>2 DEF CallOK
<1>4. ASSUME NEW w \in Workers, remoteToken'[w] # None PROVE remoteToken'[w].token <= made'
  <2>1. remoteToken[w] \in RemoteToken \cup {None} /\ remoteToken[w].token <= made
    BY <1>0, <1>4 DEF RemoteInv, RemoteShapes
  <2>. QED
    BY <1>0, <1>4, <2>1 DEF RemoteToken
<1>. QED
  BY <1>0, <1>2, <1>3, <1>4 DEF RemoteInv

LEMMA RemoteEvents ==
  ASSUME RemoteInv,
         \/ \E t \in Remote!Held : Remote!ComeDue(t)
         \/ Remote!Revoke \/ Remote!Disable \/ Remote!DeleteToken
         \/ \E forever \in BOOLEAN : Remote!Replace(forever)
         \/ Remote!Deactivate \/ Remote!DeleteUser
  PROVE  RemoteInv'
<1>0. /\ row \in RemoteUser \cup {None} /\ tokenRow \in RemoteToken \cup {None}
      /\ remoteToken \in [Workers -> RemoteToken \cup {None}]
      /\ \A w \in Workers : remoteToken[w] # None => remoteToken[w].token <= made
      /\ ending \subseteq 1..made /\ emailKey \in 1..MaxUsers \cup {None}
      /\ made \in Nat /\ renewals \in Nat /\ expiries \in Nat /\ renewals <= expiries
      /\ None \notin RemoteUser /\ None \notin RemoteToken
      /\ tokenRow # None => /\ row # None /\ tokenRow.token <= made
                            /\ (DueIn(tokenRow, ending) => renewals < expiries)
  BY CredentialsAssumption DEF RemoteInv, RemoteShapes, RemoteUser, RemoteToken
<1>1. ASSUME NEW t \in Remote!Held, Remote!ComeDue(t) PROVE RemoteInv'
  <2>1. PICK k \in ({tokenRow} \cup Remote!Range(remoteToken)) \ {None} : t = k.token
    BY <1>1 DEF Remote!Held
  <2>2. k \in RemoteToken /\ k.token <= made
    BY <1>0, <2>1 DEF Remote!Range
  <2>3. /\ t # 0 /\ t \notin ending /\ Remote!Event /\ ending' = ending \cup {t}
        /\ expiries' = IF tokenRow # None /\ tokenRow.token = t THEN expiries + 1 ELSE expiries
        /\ UNCHANGED <<row, tokenRow, user, remoteToken, emailKey, made, users, renewals, refused>>
    BY <1>1 DEF Remote!ComeDue, Remote!NoToken, Remote!cached, Remote!called
  <2>4. t \in 1..made
    BY <1>0, <2>1, <2>2, <2>3 DEF RemoteToken
  <2>5. expiries' \in Nat /\ expiries <= expiries'
    BY <1>0, <2>3
  <2>6. tokenRow' # None /\ DueIn(tokenRow', ending') => renewals < expiries'
    BY <1>0, <2>3 DEF DueIn
  <2>7. /\ ending' \subseteq 1..made' /\ made' \in Nat /\ made <= made'
        /\ tokenRow' # None => row' # None /\ tokenRow'.token <= made'
    BY <1>0, <2>3, <2>4
  <2>. QED
    BY <1>0, <2>3, <2>5, <2>6, <2>7, EventStep
<1>2. CASE Remote!Revoke
  <2>1. /\ Remote!Event /\ tokenRow # None /\ tokenRow' = [tokenRow EXCEPT !.token = 0]
        /\ expiries' = expiries + 1
        /\ UNCHANGED <<row, ending, user, remoteToken, emailKey, made, users, renewals, refused>>
    BY <1>2 DEF Remote!Revoke, Remote!ChangeToken, Remote!cached, Remote!called, Remote!NoToken
  <2>2. tokenRow' \in RemoteToken /\ tokenRow'.token = 0 /\ tokenRow' # None
    BY <1>0, <2>1 DEF RemoteToken
  <2>3. expiries' \in Nat /\ expiries <= expiries' /\ renewals < expiries'
    BY <1>0, <2>1
  <2>4. /\ ending' \subseteq 1..made' /\ made' \in Nat /\ made <= made'
        /\ row' # None /\ tokenRow'.token <= made'
    BY <1>0, <2>1, <2>2
  <2>. QED
    BY <1>0, <2>1, <2>2, <2>3, <2>4, EventStep
<1>3. CASE Remote!Disable
  <2>1. /\ Remote!Event /\ tokenRow # None /\ tokenRow' = [tokenRow EXCEPT !.enabled = FALSE]
        /\ UNCHANGED <<row, ending, user, remoteToken, emailKey, made, users, renewals, expiries, refused>>
    BY <1>3 DEF Remote!Disable, Remote!ChangeToken, Remote!cached, Remote!called
  <2>2. tokenRow' \in RemoteToken /\ tokenRow'.token = tokenRow.token /\ tokenRow' # None
    BY <1>0, <2>1 DEF RemoteToken
  <2>3. /\ ending' \subseteq 1..made' /\ made' \in Nat /\ made <= made'
        /\ row' # None /\ tokenRow'.token <= made' /\ expiries' \in Nat /\ expiries <= expiries'
    BY <1>0, <2>1, <2>2
  <2>4. DueIn(tokenRow', ending') => renewals < expiries'
    BY <1>0, <2>1, <2>2 DEF DueIn
  <2>. QED
    BY <1>0, <2>1, <2>2, <2>3, <2>4, EventStep
<1>4. CASE \E forever \in BOOLEAN : Remote!Replace(forever)
  <2>1. /\ Remote!Event /\ tokenRow # None /\ made' = made + 1
        /\ tokenRow' = Remote!NewToken(made + 1)
        /\ UNCHANGED <<row, ending, user, remoteToken, emailKey, users, renewals, expiries, refused>>
    BY <1>4 DEF Remote!Replace, Remote!ChangeToken, Remote!cached, Remote!called
  <2>2. tokenRow' \in RemoteToken /\ tokenRow'.token = made + 1
    BY <1>0, <2>1, NewTokenFacts
  <2>3. ~DueIn(tokenRow', ending')
    BY <1>0, <2>1, <2>2 DEF DueIn
  <2>4. /\ ending' \subseteq 1..made' /\ made' \in Nat /\ made <= made'
        /\ row' # None /\ tokenRow'.token <= made' /\ expiries' \in Nat /\ expiries <= expiries'
    BY <1>0, <2>1, <2>2
  <2>. QED
    BY <1>0, <2>1, <2>2, <2>3, <2>4, EventStep
<1>5. CASE Remote!DeleteToken \/ Remote!DeleteUser
  <2>1. /\ Remote!Event /\ tokenRow' = None /\ row' \in {row, None}
        /\ emailKey' \in {emailKey, None}
        /\ UNCHANGED <<ending, user, remoteToken, made, users, renewals, expiries, refused>>
    BY <1>5 DEF Remote!DeleteToken, Remote!DeleteUser, Remote!ChangeToken, Remote!cached, Remote!called,
       Remote!history
  <2>. QED
    BY <1>0, <2>1, EventStep
<1>6. CASE Remote!Deactivate
  <2>1. /\ Remote!Event /\ row # None /\ row' = [row EXCEPT !.active = FALSE]
        /\ UNCHANGED <<tokenRow, ending, user, remoteToken, emailKey, made, users, renewals, expiries,
                       refused>>
    BY <1>6 DEF Remote!Deactivate, Remote!cached, Remote!history
  <2>2. row' \in RemoteUser /\ row' # None
    BY <1>0, <2>1 DEF RemoteUser
  <2>3. /\ ending' \subseteq 1..made' /\ made' \in Nat /\ made <= made'
        /\ tokenRow' # None => tokenRow'.token <= made'
        /\ expiries' \in Nat /\ expiries <= expiries'
        /\ tokenRow' # None /\ DueIn(tokenRow', ending') => renewals < expiries'
    BY <1>0, <2>1 DEF DueIn
  <2>. QED
    BY <1>0, <2>1, <2>2, <2>3, EventStep
<1>. QED
  BY <1>1, <1>2, <1>3, <1>4, <1>5, <1>6

LEMMA RemoteNext ==
  ASSUME RemoteInv, Remote!Next \/ UNCHANGED remoteVars
  PROVE  RemoteInv'
<1>1. CASE UNCHANGED remoteVars
  BY <1>1 DEF remoteVars, RemoteInv, RemoteShapes
<1>. QED
  BY <1>1, RemoteGoes, RemoteUserSteps, RemoteTokenSteps, RemoteEvents DEF Remote!Next

(***************************************************************************)
(* Workers that find the token due at the same time renew it once, and a    *)
(* call is refused twice only if an administrator, or the token's last day, *)
(* intervened while it was in progress, or if the called cluster answered   *)
(* from a cached user that is not the database's.                           *)
(***************************************************************************)
THEOREM SecondTriesAccepted == UnionSpec => []InterconnectSound
<1> DEFINE Inv == which = "interconnect" => RemoteInv
<1>1. UnionInit => Inv
  BY RemoteInit DEF UnionInit
<1>2. Inv /\ [UnionNext]_unionVars => Inv'
  BY StepOfRemote, RemoteNext
<1>3. Inv => InterconnectSound
  <2>1. RemoteInv => Remote!SecondTryAccepted /\ Remote!RenewedOnce
    BY DEF RemoteInv, Remote!SecondTryAccepted, Remote!RenewedOnce
  <2>2. RemoteInv => Remote!TypeOK
    BY RemoteFacts DEF RemoteInv, RemoteShapes, RemoteUser, RemoteToken, CallOK, Remote!TypeOK, Remote!At
  <2>. QED
    BY <2>1, <2>2 DEF InterconnectSound
<1>. QED
  BY <1>1, <1>2, <1>3, PTL DEF UnionSpec

-----------------------------------------------------------------------------
(***************************************************************************)
(* The sign-in by passcode, by itself: for any number of emails, requests,  *)
(* codes and session keys.                                                 *)
(***************************************************************************)
PCs == {"idle", "view", "count", "setCount", "mail", "respond", "login", "deleteOld", "flush"}

Post ==
  [pc : PCs, key : Keys \cup {NoKey}, new : Keys \cup {NoKey}, sent : Keys \cup {NoKey},
   data : Data, was : Data \cup {None}, email : Emails \cup {None}, count : Nat,
   guess : Codes \cup {NoCode}, by : Codes \cup {NoCode}]

(* Session data after n codes were sent.  A code belongs to one email, and  *)
(* its tries are counted and not exceeded.                                 *)
DataOK(d, n) ==
  /\ \A e \in Emails :
       d.code[e] # NoCode => d.tries[e] # None /\ d.tries[e] <= TryTimes
  /\ \A e, f \in Emails : d.code[e] # NoCode /\ d.code[e] = d.code[f] => e = f
  /\ \A e \in Emails : d.code[e] <= n /\ d.token[e] <= n

StoredOK ==
  /\ sessions \in [Keys -> Data \cup {None}]
  /\ cookie \in Keys \cup {NoKey}
  /\ counted \in [Emails -> Nat]
  /\ account \in [Emails -> {"none", "active", "disabled"}]
  /\ \A k \in Keys : sessions[k] # None => DataOK(sessions[k], codes)

CountersOK ==
  /\ keys \in 0..MaxKeys /\ codes \in 0..MaxCodes /\ begun \in Nat
  /\ wrong \in [Codes -> Nat] /\ signins \in [Codes -> Nat] /\ mailed \in [Emails -> Nat]
  /\ verified \subseteq Emails
  /\ lost \in Nat /\ lostCounts \in Nat

PostOK ==
  /\ post \in [Requests -> Post]
  /\ \A r \in Requests : DataOK(post[r].data, codes)
  /\ \A r \in Requests : post[r].pc \in {"count", "setCount", "mail"} => post[r].email \in Emails

TypeInv == StoredOK /\ CountersOK /\ PostOK

(***************************************************************************)
(* The codes that a request which loads this session can still use, as a    *)
(* code or as a token.  Nothing is loaded once a user is signed in.         *)
(***************************************************************************)
Live(d) ==
  IF d = None \/ d.user # None THEN {}
  ELSE ({d.code[e] : e \in Emails} \cup {d.token[e] : e \in Emails}) \ {NoCode}

(* The codes and tries of a request are those of the session it loaded, but *)
(* for the codes it sent and for its own guess.                            *)
KeepsLoaded(q) ==
  q.data.user = None =>
    /\ q.was # None => q.was.user = None
    /\ \A e \in Emails : q.data.code[e] # NoCode =>
         \/ q.data.code[e] \notin Live(q.was)
         \/ /\ q.was # None /\ q.was.code[e] = q.data.code[e] /\ q.was.tries[e] \in Nat
            /\ q.data.tries[e] = q.was.tries[e] + (IF q.guess = q.data.code[e] THEN 1 ELSE 0)

RequestOK(q, n) ==
  /\ \A c \in Live(q.was) : c <= n
  /\ q.key = NoKey => Live(q.was) = {}
  /\ q.pc \in {"view", "count", "setCount"} =>
       \/ q.was # None /\ q.data = q.was
       \/ q.was = None /\ q.data = NoData
  /\ q.pc \in {"login", "deleteOld"} => q.by \in Live(q.was) /\ q.data.user # None
  /\ q.pc \notin {"login", "deleteOld", "respond"} => q.data.user = None /\ q.by = NoCode
  /\ q.guess # NoCode =>
       /\ q.pc = "respond" /\ q.by = NoCode /\ q.data.user = None /\ q.guess \in Live(q.was)
       /\ \E e \in Emails : q.data.code[e] = q.guess
  /\ KeepsLoaded(q)

RequestsOK == \A r \in Requests : RequestOK(post[r], codes)

(* A code is in one session, and the requests that loaded it loaded this    *)
(* session.                                                                *)
OneHome ==
  /\ \A j, k \in Keys : \A c \in Live(sessions[j]) \cap Live(sessions[k]) : j = k
  /\ \A r \in Requests, k \in Keys :
       \A c \in Live(post[r].was) \cap Live(sessions[k]) : post[r].key = k
  /\ \A r, s \in Requests :
       \A c \in Live(post[r].was) \cap Live(post[s].was) : post[r].key = post[s].key

(* The codes a request has sent and not yet saved.                         *)
NewCodes(r) == Live(post[r].data) \ Live(post[r].was)

FreshOK ==
  /\ \A r \in Requests : \A c \in NewCodes(r) :
       /\ wrong[c] = 0 /\ signins[c] = 0
       /\ \A k \in Keys : c \notin Live(sessions[k])
       /\ \A s \in Requests \ {r} : c \notin Live(post[s].data) \cup Live(post[s].was)
       /\ \A s \in Requests : post[s].by # c
  /\ \A c \in Codes : c > codes => wrong[c] = 0 /\ signins[c] = 0
  /\ \A r \in Requests : post[r].by <= codes

(* What n overwritten saves can add to the guesses of a code.              *)
MostGuesses(n) == TryTimes * n

TriesInv ==
  /\ \A c \in Codes : wrong[c] <= MostGuesses(lost + 1)
  /\ \A k \in Keys : sessions[k] # None /\ sessions[k].user = None =>
       \A e \in Emails : sessions[k].code[e] # NoCode =>
         wrong[sessions[k].code[e]] <= MostGuesses(lost) + sessions[k].tries[e]

(* Requests that have signed in with a code and not answered yet.           *)
Pending(c) == {r \in Requests : post[r].pc = "respond" /\ post[r].by = c}

Used(c) == signins[c] + Cardinality(Pending(c))

SigninsInv ==
  \A c \in Codes :
    /\ Used(c) <= 1 + lost
    /\ (\E k \in Keys : c \in Live(sessions[k])) => Used(c) <= lost

VerifiedData(d, v) ==
  /\ d.user # None => d.user \in v
  /\ \A e \in Emails : d.token[e] # NoCode => e \in v

VerifiedInv ==
  /\ \A k \in Keys : sessions[k] # None => VerifiedData(sessions[k], verified)
  /\ \A r \in Requests : VerifiedData(post[r].data, verified)

(* Requests that have counted a code and not mailed it yet.                *)
ToMail(e) == {r \in Requests : post[r].pc = "mail" /\ post[r].email = e}

(* What n counts that were written over can add to the codes mailed.       *)
MostMails(n) == DailyLimit * n

MailedInv ==
  /\ \A r \in Requests : post[r].pc = "setCount" => post[r].count < DailyLimit
  /\ \A e \in Emails :
       /\ counted[e] <= DailyLimit
       /\ mailed[e] + Cardinality(ToMail(e)) <= counted[e] + MostMails(lostCounts)

-----------------------------------------------------------------------------
LEMMA NoDataOK == NoData \in Data /\ \A n \in Nat : DataOK(NoData, n)
BY PasscodeAssumption DEF NoData, Data, DataOK, NoCode

LEMMA InitTypes == Init => TypeInv
<1> SUFFICES ASSUME Init PROVE TypeInv
    OBVIOUS
<1>1. Idle \in Post /\ Idle.data = NoData /\ Idle.pc = "idle"
    BY NoDataOK, PasscodeAssumption DEF Idle, Post, PCs, NoKey, NoCode
<1>2. StoredOK
    BY PasscodeAssumption DEF Init, StoredOK, NoKey
<1>3. CountersOK
    BY PasscodeAssumption DEF Init, CountersOK
<1>4. PostOK
    BY <1>1, NoDataOK DEF Init, PostOK
<1> QED BY <1>2, <1>3, <1>4 DEF TypeInv

-----------------------------------------------------------------------------
(* What the actions make of the data of a session.                         *)

LEMMA DataGrows ==
  ASSUME NEW d \in Data, NEW n \in Nat, NEW m \in Nat, n <= m, DataOK(d, n)
  PROVE  DataOK(d, m)
BY DEF DataOK, Data, Codes, NoCode

LEMMA RemovedOK ==
  ASSUME NEW d \in Data, NEW n \in Nat, DataOK(d, n), NEW e \in Emails
  PROVE  /\ Removed(d, e) \in Data /\ DataOK(Removed(d, e), n)
         /\ Removed(d, e).token = d.token /\ Removed(d, e).user = d.user
         /\ Removed(d, e).code[e] = NoCode /\ Removed(d, e).tries[e] = None
         /\ \A f \in Emails \ {e} : /\ Removed(d, e).code[f] = d.code[f]
                                    /\ Removed(d, e).tries[f] = d.tries[f]
<1> DEFINE s == Removed(d, e)
<1>1. s \in Data
  BY DEF Data, Removed
<1>2. /\ s.code[e] = NoCode /\ s.tries[e] = None /\ s.token = d.token /\ s.user = d.user
      /\ \A f \in Emails \ {e} : s.code[f] = d.code[f] /\ s.tries[f] = d.tries[f]
  BY DEF Data, Removed
<1> HIDE DEF s
<1>3. DataOK(s, n)
  BY <1>1, <1>2 DEF DataOK, NoCode
<1> QED BY <1>1, <1>2, <1>3 DEF s

(* A token, a user, or another number of tries.                            *)
LEMMA TokenOK ==
  ASSUME NEW d \in Data, NEW n \in Nat, DataOK(d, n), NEW e \in Emails,
         NEW c \in Codes \cup {NoCode}, c <= n
  PROVE  [d EXCEPT !.token[e] = c] \in Data /\ DataOK([d EXCEPT !.token[e] = c], n)
BY PasscodeAssumption DEF DataOK, Data, Codes, NoCode

LEMMA UserOK ==
  ASSUME NEW d \in Data, NEW n \in Nat, DataOK(d, n), NEW e \in Emails
  PROVE  [d EXCEPT !.user = e] \in Data /\ DataOK([d EXCEPT !.user = e], n)
BY PasscodeAssumption DEF DataOK, Data, Codes, NoCode

LEMMA TriesOK ==
  ASSUME NEW d \in Data, NEW n \in Nat, DataOK(d, n), NEW e \in Emails,
         NEW t \in Nat, t <= TryTimes
  PROVE  [d EXCEPT !.tries[e] = t] \in Data /\ DataOK([d EXCEPT !.tries[e] = t], n)
BY PasscodeAssumption DEF DataOK, Data, Codes, NoCode

LEMMA SentOK ==
  ASSUME NEW d \in Data, NEW n \in Nat, DataOK(d, n), NEW e \in Emails, n + 1 \in Codes
  PROVE  /\ [d EXCEPT !.code[e] = n + 1, !.tries[e] = 0] \in Data
         /\ DataOK([d EXCEPT !.code[e] = n + 1, !.tries[e] = 0], n + 1)
<1> DEFINE s == [d EXCEPT !.code[e] = n + 1, !.tries[e] = 0]
<1>1. s \in Data
  BY PasscodeAssumption DEF Data
<1>2. /\ s.code[e] = n + 1 /\ s.tries[e] = 0 /\ s.token = d.token
      /\ \A f \in Emails \ {e} : s.code[f] = d.code[f] /\ s.tries[f] = d.tries[f]
  BY DEF Data
<1>3. \A f \in Emails : d.code[f] \in Nat /\ d.code[f] <= n /\ d.token[f] \in Nat /\ d.token[f] <= n
  BY DEF Data, DataOK, Codes, NoCode
<1> HIDE DEF s
<1>4. DataOK(s, n + 1)
  BY <1>1, <1>2, <1>3, PasscodeAssumption DEF DataOK, NoCode
<1> QED BY <1>1, <1>4 DEF s

(* The requests when one of them changes.                                  *)
LEMMA PostStep ==
  ASSUME PostOK, codes \in Nat, codes' \in Nat, codes <= codes',
         NEW r \in Requests, NEW q \in Post, post' = [post EXCEPT ![r] = q],
         DataOK(q.data, codes'),
         q.pc \in {"count", "setCount", "mail"} => q.email \in Emails
  PROVE  PostOK'
<1>1. post' \in [Requests -> Post]
  BY DEF PostOK
<1>2. post'[r] = q /\ \A s \in Requests \ {r} : post'[s] = post[s]
  BY DEF PostOK
<1>3. ASSUME NEW s \in Requests
      PROVE  DataOK(post'[s].data, codes')
  BY <1>2, DataGrows DEF PostOK, Post
<1>4. ASSUME NEW s \in Requests, post'[s].pc \in {"count", "setCount", "mail"}
      PROVE  post'[s].email \in Emails
  BY <1>2, <1>4 DEF PostOK
<1> QED BY <1>1, <1>3, <1>4 DEF PostOK

LEMMA IdleOK == Idle \in Post /\ Idle.pc = "idle" /\ \A n \in Nat : DataOK(Idle.data, n)
BY NoDataOK, PasscodeAssumption DEF Idle, Post, PCs, NoKey, NoCode

LEMMA PostKept ==
  ASSUME TypeInv, codes' = codes,
         NEW r \in Requests, NEW q \in Post, post' = [post EXCEPT ![r] = q],
         DataOK(q.data, codes),
         q.pc \in {"count", "setCount", "mail"} => q.email \in Emails
  PROVE  PostOK'
<1>1. PostOK /\ codes \in Nat /\ codes' \in Nat /\ codes <= codes'
  BY DEF TypeInv, CountersOK
<1> QED BY <1>1, PostStep

LEMMA RequestType ==
  ASSUME TypeInv, NEW r \in Requests
  PROVE  /\ post \in [Requests -> Post]
         /\ post[r] \in Post /\ post[r].data \in Data /\ DataOK(post[r].data, codes)
         /\ post[r].pc \in {"count", "setCount", "mail"} => post[r].email \in Emails
         /\ codes \in Nat
BY DEF TypeInv, PostOK, Post, CountersOK

LEMMA RestKept ==
  ASSUME TypeInv, PostOK', UNCHANGED <<stored, keys, codes, history>>, begun' \in Nat
  PROVE  TypeInv'
BY DEF TypeInv, StoredOK, CountersOK, stored, history

LEMMA LeaveTypes ==
  ASSUME TypeInv, NEW r \in Requests, Leave(r), UNCHANGED <<sessions, counted, account, counters, history>>
  PROVE  TypeInv'
<1>1. Idle.pc \notin {"count", "setCount", "mail"} /\ DataOK(Idle.data, codes) /\ codes' = codes
  BY RequestType, IdleOK DEF counters
<1>2. PostOK'
  BY <1>1, IdleOK, PostKept DEF Leave
<1>3. cookie' \in Keys \cup {NoKey}
  BY DEF TypeInv, StoredOK, Leave
<1> QED BY <1>2, <1>3 DEF TypeInv, StoredOK, CountersOK, counters, history

(***************************************************************************)
(* Every step keeps the types, one action after the other.                  *)
(***************************************************************************)
LEMMA BeginTypes == ASSUME TypeInv, NEW r \in Requests, Begin(r) PROVE TypeInv'
<1>1. codes' = codes
  BY DEF Begin
<1>2. PostOK'
  <2>1. CASE cookie # NoKey /\ sessions[cookie] # None
    <3> DEFINE q == [Idle EXCEPT !.pc = "view", !.key = cookie, !.sent = cookie,
                                 !.data = sessions[cookie], !.was = sessions[cookie]]
    <3>1. sessions[cookie] \in Data /\ DataOK(sessions[cookie], codes) /\ cookie \in Keys
      BY <2>1 DEF TypeInv, StoredOK
    <3>2. q \in Post /\ q.pc = "view" /\ q.data = sessions[cookie]
      BY <3>1, IdleOK DEF Post, PCs
    <3>3. post' = [post EXCEPT ![r] = q]
      BY <2>1 DEF Begin
    <3>4. DataOK(q.data, codes) /\ q.pc \notin {"count", "setCount", "mail"}
      BY <3>1, <3>2
    <3> HIDE DEF q
    <3> QED BY <1>1, <3>2, <3>3, <3>4, PostKept
  <2>2. CASE ~(cookie # NoKey /\ sessions[cookie] # None)
    <3> DEFINE q == [Idle EXCEPT !.pc = "view", !.sent = cookie]
    <3>1. q \in Post /\ q.pc = "view" /\ q.data = Idle.data
      BY IdleOK DEF Post, PCs, TypeInv, StoredOK
    <3>2. post' = [post EXCEPT ![r] = q]
      BY <2>2 DEF Begin
    <3>3. DataOK(q.data, codes) /\ q.pc \notin {"count", "setCount", "mail"}
      BY <3>1, IdleOK, RequestType
    <3> HIDE DEF q
    <3> QED BY <1>1, <3>1, <3>2, <3>3, PostKept
  <2> QED BY <2>1, <2>2
<1>3. begun' \in Nat /\ UNCHANGED <<stored, keys, codes, history>>
  BY DEF Begin, TypeInv, CountersOK
<1> QED BY <1>2, <1>3, RestKept

LEMMA SendNewTypes ==
  ASSUME TypeInv, NEW r \in Requests, NEW e \in Emails, SendNew(r, e)
  PROVE  TypeInv'
<1> DEFINE q == [post[r] EXCEPT !.pc = "count", !.email = e]
<1>1. q \in Post /\ q.data = post[r].data /\ q.email = e
  BY RequestType DEF Post, PCs
<1>2. post' = [post EXCEPT ![r] = q]
  BY RequestType DEF SendNew
<1>3. begun' \in Nat /\ codes' = codes /\ UNCHANGED <<stored, keys, codes, history>>
  BY DEF SendNew, TypeInv, CountersOK, counters
<1> HIDE DEF q
<1>4. PostOK'
  BY <1>1, <1>2, <1>3, PostKept, RequestType
<1> QED BY <1>3, <1>4, RestKept

LEMMA ReadCountTypes == ASSUME TypeInv, NEW r \in Requests, ReadCount(r) PROVE TypeInv'
<1>1. CASE Leave(r)
  BY <1>1, LeaveTypes DEF ReadCount
<1>2. CASE /\ post' = [post EXCEPT ![r].pc = "setCount", ![r].count = counted[post[r].email]]
           /\ UNCHANGED cookie
  <2> DEFINE q == [post[r] EXCEPT !.pc = "setCount", !.count = counted[post[r].email]]
  <2>1. post[r].email \in Emails
    BY RequestType DEF ReadCount, At
  <2>2. q \in Post /\ q.data = post[r].data /\ q.email = post[r].email
    BY RequestType, <2>1 DEF Post, PCs, TypeInv, StoredOK
  <2>3. post' = [post EXCEPT ![r] = q]
    BY RequestType, <1>2
  <2>4. begun' \in Nat /\ codes' = codes /\ UNCHANGED <<stored, keys, codes, history>>
    BY <1>2 DEF ReadCount, TypeInv, CountersOK, stored, counters
  <2> HIDE DEF q
  <2>5. PostOK'
    BY <2>1, <2>2, <2>3, <2>4, PostKept, RequestType
  <2> QED BY <2>4, <2>5, RestKept
<1> QED BY <1>1, <1>2 DEF ReadCount

LEMMA SetCountTypes == ASSUME TypeInv, NEW r \in Requests, SetCount(r) PROVE TypeInv'
<1> DEFINE e == post[r].email
           d == [post[r].data EXCEPT !.code[e] = codes + 1, !.tries[e] = 0]
           q == [post[r] EXCEPT !.pc = "mail", !.data = d]
<1>1. e \in Emails
  BY RequestType DEF SetCount, At
<1>2. /\ codes + 1 \in Codes /\ codes' = codes + 1 /\ codes' \in 0..MaxCodes
      /\ codes' \in Nat /\ codes <= codes'
  BY RequestType, PasscodeAssumption DEF SetCount, Codes
<1>3. post' = [post EXCEPT ![r] = q]
  BY RequestType DEF SetCount, With
<1>4. d \in Data /\ DataOK(d, codes + 1)
  <2> HIDE DEF e
  <2> QED BY RequestType, <1>1, <1>2, SentOK
<1> HIDE DEF d
<1>5. q \in Post /\ q.data = d /\ q.email = e
  BY RequestType, <1>4 DEF Post, PCs
<1> HIDE DEF e, q
<1>6. PostOK'
  <2>1. PostOK /\ codes \in Nat /\ DataOK(q.data, codes')
    BY RequestType, <1>2, <1>4, <1>5 DEF TypeInv
  <2> QED BY <2>1, <1>1, <1>2, <1>3, <1>5, PostStep
<1>7. \A k \in Keys : sessions[k] # None => DataOK(sessions[k], codes')
  BY RequestType, <1>2, DataGrows DEF TypeInv, StoredOK
<1>8. counted' \in [Emails -> Nat]
  <2>1. post[r].count + 1 \in Nat
    BY RequestType DEF Post
  <2> QED BY <2>1 DEF SetCount, TypeInv, StoredOK
<1>9. lostCounts' \in Nat
  BY DEF SetCount, TypeInv, CountersOK
<1> QED BY <1>2, <1>6, <1>7, <1>8, <1>9 DEF SetCount, TypeInv, StoredOK, CountersOK

LEMMA MailTypes == ASSUME TypeInv, NEW r \in Requests, Mail(r) PROVE TypeInv'
<1> DEFINE q == [post[r] EXCEPT !.pc = "respond"]
<1>1. q \in Post /\ q.data = post[r].data /\ q.pc = "respond"
  BY RequestType DEF Post, PCs
<1>2. post' = [post EXCEPT ![r] = q]
  BY RequestType DEF Mail, GoTo
<1>3. DataOK(q.data, codes) /\ q.pc \notin {"count", "setCount", "mail"} /\ codes' = codes
  BY RequestType, <1>1 DEF Mail, counters
<1> HIDE DEF q
<1>4. PostOK'
  BY <1>1, <1>2, <1>3, PostKept
<1>5. mailed' \in [Emails -> Nat]
  <2>1. post[r].email \in Emails
    BY RequestType DEF Mail, At
  <2> QED BY <2>1 DEF Mail, TypeInv, CountersOK
<1> QED BY <1>4, <1>5 DEF TypeInv, StoredOK, CountersOK, Mail, stored, counters

LEMMA VerifyWrongTypes ==
  ASSUME TypeInv, NEW r \in Requests, NEW e \in Emails, NEW c \in Codes, VerifyWrong(r, e, c)
  PROVE  TypeInv'
<1> DEFINE t == Tries(post[r].data, e) + 1
           d == [post[r].data EXCEPT !.tries[e] = t]
           q == [post[r] EXCEPT !.pc = "respond", !.guess = c, !.data = d]
<1>1. t \in Nat /\ t <= TryTimes
  BY RequestType, PasscodeAssumption DEF VerifyWrong, Verifiable, Tries, Data
<1>2. post' = [post EXCEPT ![r] = q]
  BY RequestType DEF VerifyWrong
<1> HIDE DEF t
<1>3. d \in Data /\ DataOK(d, codes)
  BY <1>1, RequestType, TriesOK
<1> HIDE DEF d
<1>4. q \in Post /\ q.data = d /\ q.pc = "respond"
  BY RequestType, <1>3 DEF Post, PCs
<1> HIDE DEF q
<1>5. PostOK'
  <2>1. DataOK(q.data, codes) /\ q.pc \notin {"count", "setCount", "mail"} /\ codes' = codes
    BY <1>3, <1>4 DEF VerifyWrong, counters
  <2> QED BY <2>1, <1>2, <1>4, PostKept
<1>6. begun' \in Nat /\ UNCHANGED <<stored, keys, codes, history>>
  BY DEF VerifyWrong, TypeInv, CountersOK, counters
<1> QED BY <1>5, <1>6, RestKept

LEMMA VerifyRightTypes ==
  ASSUME TypeInv, NEW r \in Requests, NEW e \in Emails, NEW c \in Codes, VerifyRight(r, e, c)
  PROVE  TypeInv'
<1> DEFINE d == post[r].data
<1>1. d.code[e] = c /\ c <= codes /\ codes' = codes
  BY RequestType DEF VerifyRight, Verifiable, DataOK, counters
<1>2. PostOK'
  <2>1. CASE post' = [post EXCEPT ![r].pc = "login",
                        ![r].data = [d EXCEPT !.code[e] = NoCode, !.tries[e] = None, !.user = e],
                        ![r].email = e, ![r].by = c]
    <3> DEFINE x == Removed(d, e)
               u == [x EXCEPT !.user = e]
               q == [post[r] EXCEPT !.pc = "login", !.data = u, !.email = e, !.by = c]
    <3>1. [d EXCEPT !.code[e] = NoCode, !.tries[e] = None, !.user = e] = u
      BY RequestType DEF Removed, Data
    <3>2. post' = [post EXCEPT ![r] = q]
      BY RequestType, <2>1, <3>1
    <3>3. x \in Data /\ DataOK(x, codes)
      BY RequestType, RemovedOK
    <3> HIDE DEF x
    <3>4. u \in Data /\ DataOK(u, codes)
      BY RequestType, <3>3, UserOK
    <3> HIDE DEF u
    <3>5. q \in Post /\ q.data = u /\ q.pc = "login"
      BY RequestType, <3>4 DEF Post, PCs
    <3>6. DataOK(q.data, codes) /\ q.pc \notin {"count", "setCount", "mail"}
      BY <3>4, <3>5
    <3> HIDE DEF q
    <3> QED BY <1>1, <3>2, <3>5, <3>6, PostKept
  <2>2. CASE GoTo(r, "flush")
    <3> DEFINE q == [post[r] EXCEPT !.pc = "flush"]
    <3>1. q \in Post /\ q.data = post[r].data /\ q.pc = "flush"
      BY RequestType DEF Post, PCs
    <3>2. post' = [post EXCEPT ![r] = q]
      BY RequestType, <2>2 DEF GoTo
    <3>3. DataOK(q.data, codes) /\ q.pc \notin {"count", "setCount", "mail"}
      BY RequestType, <3>1
    <3> HIDE DEF q
    <3> QED BY <1>1, <3>1, <3>2, <3>3, PostKept
  <2>3. CASE With(r, "respond", [d EXCEPT !.token[e] = c])
    <3> DEFINE t == [d EXCEPT !.token[e] = c]
               q == [post[r] EXCEPT !.pc = "respond", !.data = t]
    <3>1. t \in Data /\ DataOK(t, codes)
      BY RequestType, <1>1, TokenOK
    <3>2. post' = [post EXCEPT ![r] = q]
      BY RequestType, <2>3 DEF With
    <3> HIDE DEF t
    <3>3. q \in Post /\ q.data = t /\ q.pc = "respond"
      BY RequestType, <3>1 DEF Post, PCs
    <3>4. DataOK(q.data, codes) /\ q.pc \notin {"count", "setCount", "mail"}
      BY <3>1, <3>3
    <3> HIDE DEF q
    <3> QED BY <1>1, <3>2, <3>3, <3>4, PostKept
  <2> QED BY <2>1, <2>2, <2>3 DEF VerifyRight
<1>3. verified' \subseteq Emails
  BY DEF VerifyRight, TypeInv, CountersOK
<1> QED BY <1>2, <1>3 DEF VerifyRight, TypeInv, StoredOK, CountersOK, stored, counters

LEMMA SignupRefusedTypes ==
  ASSUME TypeInv, NEW r \in Requests, NEW e \in Emails, SignupRefused(r, e)
  PROVE  TypeInv'
<1> DEFINE d == Removed(post[r].data, e)
           q == [post[r] EXCEPT !.pc = "respond", !.data = d]
<1>1. d \in Data /\ DataOK(d, codes)
  BY RequestType, RemovedOK
<1>2. post' = [post EXCEPT ![r] = q]
  BY RequestType DEF SignupRefused, With
<1> HIDE DEF d
<1>3. q \in Post /\ q.data = d /\ q.pc = "respond"
  BY RequestType, <1>1 DEF Post, PCs
<1> HIDE DEF q
<1>4. PostOK'
  <2>1. DataOK(q.data, codes) /\ q.pc \notin {"count", "setCount", "mail"} /\ codes' = codes
    BY <1>1, <1>3 DEF SignupRefused, counters
  <2> QED BY <2>1, <1>2, <1>3, PostKept
<1>5. begun' \in Nat /\ UNCHANGED <<stored, keys, codes, history>>
  BY DEF SignupRefused, TypeInv, CountersOK, counters
<1> QED BY <1>4, <1>5, RestKept

LEMMA SignupTypes ==
  ASSUME TypeInv, NEW r \in Requests, NEW e \in Emails, Signup(r, e)
  PROVE  TypeInv'
<1> DEFINE x == Removed(post[r].data, e)
           t == [x EXCEPT !.token[e] = NoCode]
           d == [t EXCEPT !.user = e]
           q == [post[r] EXCEPT !.pc = "login", !.data = d, !.email = e,
                                !.by = post[r].data.token[e]]
<1>1. x \in Data /\ DataOK(x, codes)
  BY RequestType, RemovedOK
<1>2. [x EXCEPT !.token[e] = NoCode, !.user = e] = d
  <2> HIDE DEF x
  <2> QED BY <1>1 DEF Data
<1>3. post' = [post EXCEPT ![r] = q]
  <2>1. post' = [post EXCEPT ![r].pc = "login", ![r].data = d,
                             ![r].email = e, ![r].by = post[r].data.token[e]]
    BY <1>2 DEF Signup
  <2> HIDE DEF d
  <2> QED BY RequestType, <2>1
<1> HIDE DEF x
<1>4. t \in Data /\ DataOK(t, codes)
  <2>1. NoCode \in Codes \cup {NoCode} /\ codes \in Nat /\ NoCode <= codes
    BY RequestType DEF NoCode
  <2> QED BY <2>1, <1>1, TokenOK
<1> HIDE DEF t
<1>5. d \in Data /\ DataOK(d, codes)
  BY RequestType, <1>4, UserOK
<1> HIDE DEF d
<1>6. post[r].data.token[e] \in Codes \cup {NoCode}
  BY RequestType DEF Data
<1>7. q \in Post /\ q.data = d /\ q.pc = "login"
  BY RequestType, <1>5, <1>6 DEF Post, PCs
<1> HIDE DEF q
<1>8. PostOK'
  <2>1. DataOK(q.data, codes) /\ q.pc \notin {"count", "setCount", "mail"} /\ codes' = codes
    BY <1>5, <1>7 DEF Signup, counters
  <2> QED BY <2>1, <1>3, <1>7, PostKept
<1>9. account' \in [Emails -> {"none", "active", "disabled"}]
  BY DEF Signup, TypeInv, StoredOK
<1> QED BY <1>8, <1>9 DEF Signup, TypeInv, StoredOK, CountersOK, counters, history

LEMMA LoginTypes == ASSUME TypeInv, NEW r \in Requests, Login(r) PROVE TypeInv'
<1> DEFINE q == [post[r] EXCEPT !.pc = "deleteOld", !.new = keys + 1]
<1>1. keys + 1 \in Keys /\ keys' \in 0..MaxKeys
  BY PasscodeAssumption DEF Login, TypeInv, CountersOK, Keys
<1>2. q \in Post /\ q.data = post[r].data /\ q.pc = "deleteOld"
  BY <1>1, RequestType DEF Post, PCs
<1>3. post' = [post EXCEPT ![r] = q]
  BY RequestType DEF Login
<1> HIDE DEF q
<1>4. PostOK'
  <2>1. DataOK(q.data, codes) /\ q.pc \notin {"count", "setCount", "mail"} /\ codes' = codes
    BY <1>2, RequestType DEF Login
  <2> QED BY <2>1, <1>2, <1>3, PostKept
<1>5. /\ sessions' \in [Keys -> Data \cup {None}]
      /\ \A k \in Keys : sessions'[k] # None => DataOK(sessions'[k], codes)
  BY <1>1, RequestType DEF Login, TypeInv, StoredOK
<1> QED BY <1>1, <1>4, <1>5 DEF Login, TypeInv, StoredOK, CountersOK, history

LEMMA LosingType == ASSUME TypeInv, NEW r, NEW k PROVE Losing(r, k) \in Nat /\ Losing(r, k) >= lost
BY DEF TypeInv, CountersOK, Losing

LEMMA DeleteOldTypes == ASSUME TypeInv, NEW r \in Requests, DeleteOld(r) PROVE TypeInv'
<1> DEFINE q == [post[r] EXCEPT !.pc = "respond", !.key = post[r].new, !.was = post[r].data]
<1>1. q \in Post /\ q.data = post[r].data /\ q.pc = "respond"
  BY RequestType DEF Post, PCs
<1>2. post' = [post EXCEPT ![r] = q]
  BY RequestType DEF DeleteOld
<1> HIDE DEF q
<1>3. PostOK'
  <2>1. DataOK(q.data, codes) /\ q.pc \notin {"count", "setCount", "mail"} /\ codes' = codes
    BY <1>1, RequestType DEF DeleteOld, counters
  <2> QED BY <2>1, <1>1, <1>2, PostKept
<1>4. /\ sessions' \in [Keys -> Data \cup {None}]
      /\ \A k \in Keys : sessions'[k] # None => DataOK(sessions'[k], codes)
  BY DEF DeleteOld, TypeInv, StoredOK
<1>5. lost' \in Nat
  BY LosingType DEF DeleteOld
<1> QED BY <1>3, <1>4, <1>5 DEF DeleteOld, TypeInv, StoredOK, CountersOK, counters

LEMMA FlushTypes == ASSUME TypeInv, NEW r \in Requests, Flush(r) PROVE TypeInv'
<1>1. PostOK'
  <2>1. Idle.pc \notin {"count", "setCount", "mail"} /\ DataOK(Idle.data, codes) /\ codes' = codes
    BY RequestType, IdleOK DEF Flush, counters
  <2> QED BY <2>1, IdleOK, PostKept DEF Flush
<1>2. /\ sessions' \in [Keys -> Data \cup {None}]
      /\ \A k \in Keys : sessions'[k] # None => DataOK(sessions'[k], codes)
  BY DEF Flush, TypeInv, StoredOK
<1>3. lost' \in Nat
  BY LosingType DEF Flush
<1> QED BY <1>1, <1>2, <1>3 DEF Flush, TypeInv, StoredOK, CountersOK, counters

LEMMA OnceType ==
  ASSUME NEW counts \in [Codes -> Nat], NEW c \in Codes \cup {NoCode}
  PROVE  /\ Once(counts, c) \in [Codes -> Nat]
         /\ \A b \in Codes : Once(counts, c)[b] = IF b = c THEN counts[b] + 1 ELSE counts[b]
BY DEF Once, Codes, NoCode

LEMMA RespondTypes == ASSUME TypeInv, NEW r \in Requests, Respond(r) PROVE TypeInv'
<1> DEFINE k == IF post[r].key = NoKey THEN keys + 1 ELSE post[r].key
<1>1. k \in Keys /\ k \in 0..MaxKeys
  BY DEF Respond, Keys
<1>2. PostOK'
  <2>1. Idle.pc \notin {"count", "setCount", "mail"} /\ DataOK(Idle.data, codes) /\ codes' = codes
    BY RequestType, IdleOK DEF Respond
  <2> QED BY <2>1, IdleOK, PostKept DEF Respond
<1>3. /\ sessions' \in [Keys -> Data \cup {None}]
      /\ \A j \in Keys : sessions'[j] # None => DataOK(sessions'[j], codes)
  <2>1. sessions' = [sessions EXCEPT ![k] = post[r].data]
    BY DEF Respond
  <2> HIDE DEF k
  <2> QED BY <2>1, RequestType DEF TypeInv, StoredOK
<1>4. lost' \in Nat
  BY LosingType DEF Respond
<1>5. wrong' \in [Codes -> Nat] /\ signins' \in [Codes -> Nat]
  <2>1. post[r].guess \in Codes \cup {NoCode} /\ post[r].by \in Codes \cup {NoCode}
    BY RequestType DEF Post
  <2>2. wrong \in [Codes -> Nat] /\ signins \in [Codes -> Nat]
    BY DEF TypeInv, CountersOK
  <2> QED BY <2>1, <2>2, OnceType DEF Respond
<1>6. keys' \in 0..MaxKeys /\ cookie' \in Keys \cup {NoKey}
  BY <1>1 DEF Respond, TypeInv, CountersOK, StoredOK
<1> QED BY <1>2, <1>3, <1>4, <1>5, <1>6 DEF Respond, TypeInv, StoredOK, CountersOK

LEMMA StutterTypes == TypeInv /\ UNCHANGED vars => TypeInv'
BY DEF vars, stored, counters, history, TypeInv, StoredOK, CountersOK, PostOK

LEMMA NextTypes == TypeInv /\ [Next]_vars => TypeInv'
<1> SUFFICES ASSUME TypeInv, [Next]_vars PROVE TypeInv'
    OBVIOUS
<1>1. ASSUME NEW r \in Requests, View(r) PROVE TypeInv'
  <2>1. ASSUME NEW e \in Emails,
               \/ Refuse(r, e) \/ SignupFails(r, e)
               \/ \E c \in Codes : SendAgain(r, e, c)
        PROVE  TypeInv'
    BY <2>1, LeaveTypes DEF Refuse, SignupFails, SendAgain
  <2> QED BY <1>1, <2>1, SendNewTypes, SignupRefusedTypes, SignupTypes,
             VerifyWrongTypes, VerifyRightTypes DEF View
<1>2. ASSUME NEW r \in Requests, MailFails(r) PROVE TypeInv'
  BY <1>2, LeaveTypes DEF MailFails
<1> QED BY <1>1, <1>2, BeginTypes, ReadCountTypes, SetCountTypes, MailTypes, LoginTypes,
           DeleteOldTypes, FlushTypes, RespondTypes, StutterTypes DEF Next

LEMMA TypesImply == TypeInv => TypeOK
BY DEF TypeInv, StoredOK, PostOK, DataOK, Post, TypeOK

(* In every state of the program, the variables have their types and a code *)
(* of a session or a request in progress comes with its counter of tries.   *)
THEOREM TypesCorrect == Spec => []TypeOK
<1>1. Spec => []TypeInv
  BY InitTypes, NextTypes, PTL DEF Spec
<1> QED BY <1>1, TypesImply, PTL

-----------------------------------------------------------------------------
(* What each action makes of the request.                                  *)

Others(r) == \A s \in Requests \ {r} : post'[s] = post[s]

(* The request goes on, with the session it has loaded.                    *)
Changes(r, pc, data) ==
  /\ Others(r)
  /\ post'[r].pc = pc /\ post'[r].data = data
  /\ post'[r].key = post[r].key /\ post'[r].was = post[r].was

SameGuess(r) == post'[r].guess = post[r].guess /\ post'[r].by = post[r].by

(* The data of a session after a code is sent, a wrong guess, a right guess *)
(* of a new user, and a login.                                             *)
Sent(d, e, c)  == [d EXCEPT !.code[e] = c, !.tries[e] = 0]
Guessed(d, e)  == [d EXCEPT !.tries[e] = d.tries[e] + 1]
WithToken(d, e, c) == [d EXCEPT !.token[e] = c]
SignedIn(d, e) == [d EXCEPT !.user = e]

LEMMA LeavesAll ==
  ASSUME TypeInv, NEW r \in Requests,
         \/ Leave(r) \/ MailFails(r) \/ Flush(r) \/ Respond(r)
         \/ \E e \in Emails : \/ Refuse(r, e) \/ SignupFails(r, e)
                              \/ \E c \in Codes : SendAgain(r, e, c)
  PROVE  Others(r) /\ post'[r] = Idle
BY RequestType DEF Leave, MailFails, Flush, Respond, Refuse, SignupFails, SendAgain, Others

LEMMA BeginChanges ==
  ASSUME TypeInv, NEW r \in Requests, Begin(r)
  PROVE  /\ Others(r) /\ post[r].pc = "idle"
         /\ post'[r].pc = "view" /\ post'[r].guess = NoCode /\ post'[r].by = NoCode
         /\ \/ /\ cookie \in Keys /\ sessions[cookie] # None /\ sessions[cookie].user = None
               /\ post'[r].key = cookie
               /\ post'[r].data = sessions[cookie] /\ post'[r].was = sessions[cookie]
            \/ post'[r].key = NoKey /\ post'[r].data = NoData /\ post'[r].was = None
<1>1. post[r].pc = "idle" /\ Others(r)
  BY RequestType DEF Begin, At, Others
<1>2. CASE cookie # NoKey /\ sessions[cookie] # None
  <2>1. post'[r] = [Idle EXCEPT !.pc = "view", !.key = cookie, !.sent = cookie,
                                !.data = sessions[cookie], !.was = sessions[cookie]]
    BY <1>2, RequestType DEF Begin
  <2>2. cookie \in Keys /\ sessions[cookie].user = None
    BY <1>2 DEF TypeInv, StoredOK, Begin
  <2> QED BY <1>1, <1>2, <2>1, <2>2 DEF Idle
<1>3. CASE ~(cookie # NoKey /\ sessions[cookie] # None)
  <2>1. post'[r] = [Idle EXCEPT !.pc = "view", !.sent = cookie]
    BY <1>3, RequestType DEF Begin
  <2> QED BY <1>1, <2>1 DEF Idle
<1> QED BY <1>2, <1>3

LEMMA SendNewChanges ==
  ASSUME TypeInv, NEW r \in Requests, NEW e \in Emails, SendNew(r, e)
  PROVE  Changes(r, "count", post[r].data) /\ SameGuess(r) /\ post[r].pc = "view"
BY RequestType DEF SendNew, Changes, SameGuess, Others, Post, At

LEMMA ReadCountChanges ==
  ASSUME TypeInv, NEW r \in Requests, ReadCount(r)
  PROVE  /\ post[r].pc = "count"
         /\ \/ Leave(r)
            \/ /\ Changes(r, "setCount", post[r].data) /\ SameGuess(r)
               /\ post'[r].count = counted[post[r].email] /\ post'[r].count < DailyLimit
<1>1. post[r].pc = "count" /\ post[r].email \in Emails
  BY RequestType DEF ReadCount, At
<1>2. CASE ~(counted[post[r].email] >= DailyLimit)
  <2>1. counted[post[r].email] < DailyLimit
    BY <1>1, <1>2, PasscodeAssumption DEF TypeInv, StoredOK
  <2>2. post' = [post EXCEPT ![r].pc = "setCount", ![r].count = counted[post[r].email]]
    BY <1>2 DEF ReadCount
  <2> QED BY <1>1, <2>1, <2>2, RequestType DEF Changes, SameGuess, Others, Post
<1>3. CASE counted[post[r].email] >= DailyLimit
  BY <1>1, <1>3 DEF ReadCount
<1> QED BY <1>2, <1>3

LEMMA SetCountChanges ==
  ASSUME TypeInv, NEW r \in Requests, SetCount(r)
  PROVE  /\ post[r].pc = "setCount" /\ post[r].email \in Emails
         /\ Changes(r, "mail", Sent(post[r].data, post[r].email, codes + 1)) /\ SameGuess(r)
         /\ post'[r].email = post[r].email /\ codes + 1 \in Codes
<1>1. post[r].pc = "setCount" /\ post[r].email \in Emails
  BY RequestType DEF SetCount, At
<1>2. codes + 1 \in Codes
  BY RequestType, PasscodeAssumption DEF SetCount, Codes
<1>3. post' = [post EXCEPT ![r].pc = "mail", ![r].data = Sent(post[r].data, post[r].email, codes + 1)]
  BY DEF SetCount, With, Sent
<1> QED BY <1>1, <1>2, <1>3, RequestType DEF Changes, SameGuess, Others, Post

LEMMA MailChanges ==
  ASSUME TypeInv, NEW r \in Requests, Mail(r)
  PROVE  Changes(r, "respond", post[r].data) /\ SameGuess(r) /\ post[r].pc = "mail"
BY RequestType DEF Mail, GoTo, Changes, SameGuess, Others, Post, At

LEMMA VerifyWrongChanges ==
  ASSUME TypeInv, NEW r \in Requests, NEW e \in Emails, NEW c \in Codes, VerifyWrong(r, e, c)
  PROVE  /\ post[r].pc = "view" /\ post[r].data.code[e] = c
         /\ Changes(r, "respond", Guessed(post[r].data, e))
         /\ post'[r].guess = c /\ post'[r].by = post[r].by
<1>1. post[r].pc = "view" /\ post[r].data.code[e] = c
  BY DEF VerifyWrong, Verifiable, At
<1>2. Tries(post[r].data, e) = post[r].data.tries[e]
  BY <1>1, RequestType DEF Tries, DataOK, Codes, NoCode
<1>3. post' = [post EXCEPT ![r].pc = "respond", ![r].guess = c,
                           ![r].data = Guessed(post[r].data, e)]
  BY <1>2, RequestType DEF VerifyWrong, Guessed, Post
<1> QED BY <1>1, <1>3, RequestType DEF Changes, Others, Post

LEMMA VerifyRightChanges ==
  ASSUME TypeInv, NEW r \in Requests, NEW e \in Emails, NEW c \in Codes, VerifyRight(r, e, c)
  PROVE  /\ post[r].pc = "view" /\ post[r].data.code[e] = c
         /\ \/ /\ Changes(r, "login", SignedIn(Removed(post[r].data, e), e))
               /\ post'[r].by = c /\ post'[r].guess = post[r].guess
            \/ Changes(r, "flush", post[r].data) /\ SameGuess(r)
            \/ Changes(r, "respond", WithToken(post[r].data, e, c)) /\ SameGuess(r)
<1> DEFINE d == post[r].data
<1>1. post[r].pc = "view" /\ post[r].data.code[e] = c
  BY DEF VerifyRight, Verifiable, At
<1>2. CASE post' = [post EXCEPT ![r].pc = "login",
                      ![r].data = [d EXCEPT !.code[e] = NoCode, !.tries[e] = None, !.user = e],
                      ![r].email = e, ![r].by = c]
  <2>1. [d EXCEPT !.code[e] = NoCode, !.tries[e] = None, !.user = e] = SignedIn(Removed(d, e), e)
    BY RequestType DEF Removed, SignedIn, Data
  <2>2. post' = [post EXCEPT ![r].pc = "login", ![r].data = SignedIn(Removed(d, e), e),
                             ![r].email = e, ![r].by = c]
    BY <1>2, <2>1
  <2> QED BY <1>1, <2>2, RequestType DEF Changes, Others, Post
<1>3. CASE GoTo(r, "flush")
  BY <1>1, <1>3, RequestType DEF GoTo, Changes, SameGuess, Others, Post
<1>4. CASE With(r, "respond", [d EXCEPT !.token[e] = c])
  BY <1>1, <1>4, RequestType DEF With, WithToken, Changes, SameGuess, Others, Post
<1> QED BY <1>2, <1>3, <1>4 DEF VerifyRight

LEMMA SignupRefusedChanges ==
  ASSUME TypeInv, NEW r \in Requests, NEW e \in Emails, SignupRefused(r, e)
  PROVE  /\ post[r].pc = "view" /\ Changes(r, "respond", Removed(post[r].data, e)) /\ SameGuess(r)
BY RequestType DEF SignupRefused, With, Changes, SameGuess, Others, Post, At

LEMMA SignupChanges ==
  ASSUME TypeInv, NEW r \in Requests, NEW e \in Emails, Signup(r, e)
  PROVE  /\ post[r].pc = "view"
         /\ post[r].data.token[e] # NoCode /\ post[r].data.tries[e] # None
         /\ Changes(r, "login",
                    SignedIn(WithToken(Removed(post[r].data, e), e, NoCode), e))
         /\ post'[r].by = post[r].data.token[e] /\ post'[r].guess = post[r].guess
<1> DEFINE x == Removed(post[r].data, e)
           d == SignedIn(WithToken(x, e, NoCode), e)
<1>1. x \in Data
  BY RequestType, RemovedOK
<1>2. [x EXCEPT !.token[e] = NoCode, !.user = e] = d
  <2> HIDE DEF x
  <2> QED BY <1>1 DEF Data, SignedIn, WithToken
<1>3. post' = [post EXCEPT ![r].pc = "login", ![r].data = d,
                           ![r].email = e, ![r].by = post[r].data.token[e]]
  BY <1>2 DEF Signup
<1> HIDE DEF x, d
<1>4. Changes(r, "login", d) /\ post'[r].by = post[r].data.token[e]
      /\ post'[r].guess = post[r].guess
  BY <1>3, RequestType DEF Changes, Others, Post
<1> QED BY <1>4 DEF Signup, At, x, d

LEMMA LoginChanges ==
  ASSUME TypeInv, NEW r \in Requests, Login(r)
  PROVE  /\ post[r].pc = "login" /\ Changes(r, "deleteOld", post[r].data) /\ SameGuess(r)
         /\ keys + 1 \in Keys /\ sessions' = [sessions EXCEPT ![keys + 1] = post[r].data]
<1>1. keys + 1 \in Keys
  BY PasscodeAssumption DEF Login, TypeInv, CountersOK, Keys
<1> QED BY <1>1, RequestType DEF Login, Changes, SameGuess, Others, Post, At

LEMMA DeleteOldChanges ==
  ASSUME TypeInv, NEW r \in Requests, DeleteOld(r)
  PROVE  /\ post[r].pc = "deleteOld" /\ Others(r) /\ SameGuess(r)
         /\ post'[r].pc = "respond" /\ post'[r].key = post[r].new
         /\ post'[r].data = post[r].data /\ post'[r].was = post[r].data
BY RequestType DEF DeleteOld, SameGuess, Others, Post, At

-----------------------------------------------------------------------------
(* Whoever is signed in has typed a code.                                  *)

LEMMA VerifiedEdits ==
  ASSUME NEW d \in Data, NEW v, VerifiedData(d, v), NEW e \in Emails, e \in v
  PROVE  /\ VerifiedData(SignedIn(Removed(d, e), e), v)
         /\ VerifiedData(SignedIn(WithToken(Removed(d, e), e, NoCode), e), v)
         /\ \A c : VerifiedData(WithToken(d, e, c), v)
BY DEF VerifiedData, SignedIn, Removed, WithToken, Data

LEMMA VerifiedKept ==
  ASSUME VerifiedInv, NEW r \in Requests, Others(r), verified \subseteq verified',
         VerifiedData(post'[r].data, verified'),
         \A k \in Keys : \/ sessions'[k] \in {sessions[k], None}
                         \/ \E s \in Requests : sessions'[k] = post[s].data
  PROVE  VerifiedInv'
<1>1. \A d : VerifiedData(d, verified) => VerifiedData(d, verified')
  BY DEF VerifiedData
<1> QED BY <1>1 DEF VerifiedInv, Others

LEMMA VerifiedNext == TypeInv /\ VerifiedInv /\ [Next]_vars => VerifiedInv'
<1> SUFFICES ASSUME TypeInv, VerifiedInv, [Next]_vars PROVE VerifiedInv'
    OBVIOUS
<1> DEFINE SameSessions == sessions' = sessions /\ verified' = verified
<1>1. \A r \in Requests : VerifiedData(post[r].data, verified)
  BY DEF VerifiedInv
<1>2. VerifiedData(NoData, verified) /\ Idle.data = NoData
  BY DEF VerifiedData, NoData, Idle
<1>3. ASSUME NEW r \in Requests, Begin(r) PROVE VerifiedInv'
  <2>1. SameSessions
    BY <1>3 DEF Begin, stored, history
  <2>2. VerifiedData(post'[r].data, verified) /\ Others(r)
    BY <1>2, <1>3, BeginChanges DEF VerifiedInv
  <2> QED BY <2>1, <2>2, VerifiedKept
<1>4. ASSUME NEW r \in Requests,
             \/ Leave(r) /\ UNCHANGED <<sessions, verified>>
             \/ Flush(r) \/ Respond(r)
      PROVE  VerifiedInv'
  <2>1. Others(r) /\ post'[r].data = NoData /\ verified' = verified
    BY <1>2, <1>4, LeavesAll DEF Flush, Respond
  <2>2. CASE UNCHANGED sessions
    BY <1>2, <2>1, <2>2, VerifiedKept
  <2>3. CASE Flush(r)
    <3>1. \A k \in Keys : sessions'[k] \in {sessions[k], None}
      BY <2>3 DEF Flush, TypeInv, StoredOK
    <3> QED BY <1>2, <2>1, <3>1, VerifiedKept
  <2>4. CASE Respond(r)
    <3>1. \A k \in Keys : sessions'[k] = sessions[k] \/ sessions'[k] = post[r].data
      BY <2>4 DEF Respond, TypeInv, StoredOK
    <3> QED BY <1>2, <2>1, <3>1, VerifiedKept
  <2> QED BY <1>4, <2>2, <2>3, <2>4
<1>5. ASSUME NEW r \in Requests,
             \/ \E e \in Emails : SendNew(r, e) \/ SignupRefused(r, e) \/ \E c \in Codes : VerifyWrong(r, e, c)
             \/ ReadCount(r) /\ ~Leave(r)
             \/ SetCount(r) \/ Mail(r)
      PROVE  VerifiedInv'
  <2>1. SameSessions
    BY <1>5 DEF SendNew, SignupRefused, VerifyWrong, ReadCount, SetCount, Mail, stored, history
  <2>2. /\ Others(r)
        /\ post'[r].data.user = post[r].data.user /\ post'[r].data.token = post[r].data.token
    <3>1. \A e \in Emails, c \in Codes :
            /\ Sent(post[r].data, e, c).user = post[r].data.user
            /\ Sent(post[r].data, e, c).token = post[r].data.token
      BY RequestType DEF Sent, Data
    <3>2. \A e \in Emails : /\ Guessed(post[r].data, e).user = post[r].data.user
                            /\ Guessed(post[r].data, e).token = post[r].data.token
      BY RequestType DEF Data, Guessed
    <3>3. \A e \in Emails : /\ Removed(post[r].data, e).user = post[r].data.user
                            /\ Removed(post[r].data, e).token = post[r].data.token
      BY RequestType, RemovedOK
    <3>4. ASSUME NEW e \in Emails, SendNew(r, e) PROVE Changes(r, "count", post[r].data)
      BY <3>4, SendNewChanges
    <3>5. ASSUME NEW e \in Emails, SignupRefused(r, e)
          PROVE  Changes(r, "respond", Removed(post[r].data, e))
      BY <3>5, SignupRefusedChanges
    <3>6. ASSUME NEW e \in Emails, NEW c \in Codes, VerifyWrong(r, e, c)
          PROVE  Changes(r, "respond", Guessed(post[r].data, e))
      BY <3>6, VerifyWrongChanges
    <3>7. ASSUME ReadCount(r), ~Leave(r) PROVE Changes(r, "setCount", post[r].data)
      BY <3>7, ReadCountChanges
    <3>8. ASSUME SetCount(r)
          PROVE  /\ Changes(r, "mail", Sent(post[r].data, post[r].email, codes + 1))
                 /\ post[r].email \in Emails /\ codes + 1 \in Codes
      BY <3>8, SetCountChanges
    <3>9. ASSUME Mail(r) PROVE Changes(r, "respond", post[r].data)
      BY <3>9, MailChanges
    <3> QED BY <1>5, <3>1, <3>2, <3>3, <3>4, <3>5, <3>6, <3>7, <3>8, <3>9 DEF Changes
  <2>3. VerifiedData(post'[r].data, verified)
    BY <1>1, <2>2 DEF VerifiedData
  <2> QED BY <2>1, <2>2, <2>3, VerifiedKept
<1>6. ASSUME NEW r \in Requests, NEW e \in Emails, NEW c \in Codes, VerifyRight(r, e, c)
      PROVE  VerifiedInv'
  <2>1. sessions' = sessions /\ verified' = verified \cup {e} /\ e \in verified'
    BY <1>6 DEF VerifyRight, stored
  <2>2. VerifiedData(post[r].data, verified')
    BY <1>1, <2>1 DEF VerifiedData
  <2>3. VerifiedData(post'[r].data, verified') /\ Others(r)
    <3>1. /\ VerifiedData(SignedIn(Removed(post[r].data, e), e), verified')
          /\ VerifiedData(WithToken(post[r].data, e, c), verified')
      BY <2>1, <2>2, RequestType, VerifiedEdits
    <3> QED BY <1>6, <2>2, <3>1, VerifyRightChanges DEF Changes
  <2> QED BY <2>1, <2>3, VerifiedKept
<1>7. ASSUME NEW r \in Requests, NEW e \in Emails, Signup(r, e) PROVE VerifiedInv'
  <2>1. SameSessions
    BY <1>7 DEF Signup, history
  <2>2. e \in verified
    BY <1>1, <1>7, SignupChanges DEF VerifiedData
  <2>3. VerifiedData(post'[r].data, verified') /\ Others(r)
    BY <1>1, <1>7, <2>1, <2>2, RequestType, VerifiedEdits, SignupChanges DEF Changes
  <2> QED BY <2>1, <2>3, VerifiedKept
<1>8. ASSUME NEW r \in Requests, Login(r) \/ DeleteOld(r) PROVE VerifiedInv'
  <2>1. Others(r) /\ post'[r].data = post[r].data /\ verified' = verified
    BY <1>8, LoginChanges, DeleteOldChanges DEF Login, DeleteOld, Changes, history
  <2>2. \A k \in Keys : sessions'[k] \in {sessions[k], None} \/ sessions'[k] = post[r].data
    BY <1>8, LoginChanges DEF DeleteOld, TypeInv, StoredOK
  <2> QED BY <1>1, <2>1, <2>2, VerifiedKept
<1>9. CASE UNCHANGED vars
  BY <1>9 DEF VerifiedInv, vars, stored, history
<1>10. ASSUME NEW r \in Requests, View(r) PROVE VerifiedInv'
  <2>1. ASSUME NEW e \in Emails,
               \/ Refuse(r, e) \/ SignupFails(r, e)
               \/ \E c \in Codes : SendAgain(r, e, c)
        PROVE  Leave(r) /\ UNCHANGED <<sessions, verified>>
    BY <2>1 DEF Refuse, SignupFails, SendAgain, history
  <2> QED BY <1>4, <1>5, <1>6, <1>7, <1>10, <2>1 DEF View
<1>11. ASSUME NEW r \in Requests, MailFails(r) \/ ReadCount(r) PROVE VerifiedInv'
  BY <1>4, <1>5, <1>11 DEF MailFails, ReadCount, history
<1> QED BY <1>3, <1>4, <1>5, <1>8, <1>9, <1>10, <1>11 DEF Next

LEMMA VerifiedInit == Init => VerifiedInv
BY DEF Init, VerifiedInv, VerifiedData, Idle, NoData, NoKey, NoCode

(* A session is only signed in as a user whose email was sent a code that   *)
(* was typed correctly, whatever order the requests of the browser come in  *)
(* and however they overlap.                                               *)
THEOREM OnlyVerifiedSignIn == Spec => []SignedInIsVerified
<1>1. Spec => [](TypeInv /\ VerifiedInv)
  BY InitTypes, NextTypes, VerifiedInit, VerifiedNext, PTL DEF Spec
<1>2. VerifiedInv => SignedInIsVerified
  BY DEF VerifiedInv, VerifiedData, SignedInIsVerified
<1> QED BY <1>1, <1>2, PTL

-----------------------------------------------------------------------------
(* The codes in hand.                                                      *)

LEMMA LiveFacts ==
  ASSUME NEW d \in Data
  PROVE  /\ d # None
         /\ d.user = None => \A e \in Emails : /\ d.code[e] # NoCode => d.code[e] \in Live(d)
                                               /\ d.token[e] # NoCode => d.token[e] \in Live(d)
         /\ d.user # None => Live(d) = {}
         /\ Live(d) \subseteq Codes
         /\ \A n : DataOK(d, n) => \A c \in Live(d) : c <= n
BY PasscodeAssumption DEF Live, Data, DataOK

LEMMA NoLive == Live(None) = {} /\ Live(NoData) = {} /\ NoData.user = None
BY DEF Live, NoData

LEMMA LiveEdits ==
  ASSUME NEW d \in Data, NEW e \in Emails
  PROVE  /\ Live(Removed(d, e)) \subseteq Live(d)
         /\ Live(Guessed(d, e)) \subseteq Live(d)
         /\ \A c \in Codes \cup {NoCode} : /\ Live(WithToken(d, e, c)) \subseteq Live(d) \cup {c}
                                           /\ Live(WithToken(d, e, NoCode)) \subseteq Live(d)
                                           /\ Live(Sent(d, e, c)) \subseteq Live(d) \cup {c}
<1>0. d # None
  BY LiveFacts
<1>1. Live(Removed(d, e)) \subseteq Live(d)
  BY <1>0 DEF Live, Removed, Data
<1>2. Live(Guessed(d, e)) \subseteq Live(d)
  BY <1>0 DEF Live, Guessed, Data
<1>3. ASSUME NEW c \in Codes \cup {NoCode}
      PROVE  /\ Live(WithToken(d, e, c)) \subseteq Live(d) \cup {c}
             /\ Live(WithToken(d, e, NoCode)) \subseteq Live(d)
             /\ Live(Sent(d, e, c)) \subseteq Live(d) \cup {c}
  BY <1>0 DEF Live, WithToken, Sent, Data
<1> QED BY <1>1, <1>2, <1>3

LEMMA SignedInDead ==
  ASSUME NEW d \in Data, NEW e \in Emails
  PROVE  SignedIn(d, e).user # None /\ Live(SignedIn(d, e)) = {}
BY PasscodeAssumption DEF SignedIn, Live, Data

(* The other requests are as they were, for whom codes only grow.           *)
LEMMA RequestsKept ==
  ASSUME TypeInv, RequestsOK, NEW r \in Requests, Others(r), codes' \in Nat, codes <= codes',
         RequestOK(post'[r], codes')
  PROVE  RequestsOK'
<1>1. ASSUME NEW s \in Requests \ {r} PROVE RequestOK(post[s], codes')
  <2>1. \A c \in Live(post[s].was) : c \in Nat
    BY LiveFacts, NoLive DEF TypeInv, PostOK, Post, Codes
  <2>2. RequestOK(post[s], codes) /\ codes \in Nat
    BY DEF RequestsOK, TypeInv, CountersOK
  <2>3. \A c \in Live(post[s].was) : c <= codes'
    BY <2>1, <2>2 DEF RequestOK
  <2> QED BY <2>2, <2>3 DEF RequestOK
<1> QED BY <1>1 DEF RequestsOK, Others

LEMMA IdleRequest == \A n : RequestOK(Idle, n)
BY NoLive DEF RequestOK, KeepsLoaded, Idle, NoData, NoKey, NoCode

(* A request in "view" has the session it loaded, or no session.            *)
LEMMA ViewFacts ==
  ASSUME TypeInv, RequestsOK, NEW r \in Requests, post[r].pc \in {"view", "count", "setCount"}
  PROVE  /\ post[r].guess = NoCode /\ post[r].by = NoCode /\ post[r].data.user = None
         /\ \/ post[r].was = post[r].data
            \/ post[r].was = None /\ post[r].data = NoData
         /\ Live(post[r].was) = Live(post[r].data)
         /\ \A e \in Emails : /\ post[r].data.code[e] # NoCode => post[r].data.code[e] \in Live(post[r].was)
                              /\ post[r].data.token[e] # NoCode => post[r].data.token[e] \in Live(post[r].was)
<1>1. RequestOK(post[r], codes) /\ post[r].data \in Data
  BY RequestType DEF RequestsOK
<1>2. post[r].guess = NoCode /\ post[r].by = NoCode /\ post[r].data.user = None
  BY <1>1 DEF RequestOK
<1>3. \/ post[r].was = post[r].data
      \/ post[r].was = None /\ post[r].data = NoData
  BY <1>1 DEF RequestOK
<1>4. Live(post[r].was) = Live(post[r].data)
  BY <1>3, NoLive
<1> QED BY <1>1, <1>2, <1>3, <1>4, LiveFacts

LEMMA BeginRequest ==
  ASSUME TypeInv, RequestsOK, NEW r \in Requests, Begin(r)
  PROVE  RequestOK(post'[r], codes)
<1> DEFINE q == post'[r]
<1>1. q.pc = "view" /\ q.guess = NoCode /\ q.by = NoCode
  BY BeginChanges
<1>2. CASE q.key = NoKey /\ q.data = NoData /\ q.was = None
  BY <1>1, <1>2, NoLive DEF RequestOK, KeepsLoaded, NoData
<1>3. CASE /\ cookie \in Keys /\ sessions[cookie] # None /\ sessions[cookie].user = None
           /\ q.key = cookie /\ q.data = sessions[cookie] /\ q.was = sessions[cookie]
  <2>1. sessions[cookie] \in Data /\ DataOK(sessions[cookie], codes) /\ cookie # NoKey
    BY <1>3 DEF TypeInv, StoredOK, Keys, NoKey
  <2>2. \A c \in Live(q.was) : c <= codes
    BY <1>3, <2>1, LiveFacts
  <2>3. \A e \in Emails : q.data.code[e] # NoCode =>
          q.was.tries[e] \in Nat /\ q.data.tries[e] = q.was.tries[e] + 0
    BY <1>3, <2>1 DEF DataOK, Data
  <2>4. KeepsLoaded(q)
    BY <1>1, <1>3, <2>3 DEF KeepsLoaded
  <2> QED BY <1>1, <1>3, <2>1, <2>2, <2>4 DEF RequestOK
<1> QED BY <1>2, <1>3, BeginChanges

(* The request goes on with the same data, or with fewer codes.             *)
LEMMA SameRequest ==
  ASSUME TypeInv, RequestsOK, NEW r \in Requests, NEW pc, NEW data \in Data,
         Changes(r, pc, data), SameGuess(r), post[r].pc \notin {"login", "deleteOld", "respond"},
         data.user = post[r].data.user,
         \A e \in Emails : data.code[e] # NoCode =>
            data.code[e] = post[r].data.code[e] /\ data.tries[e] = post[r].data.tries[e],
         \/ pc \in {"mail", "respond", "flush"}
         \/ pc \in {"count", "setCount"} /\ post[r].pc \in {"view", "count"} /\ data = post[r].data
  PROVE  RequestOK(post'[r], codes)
<1>1. RequestOK(post[r], codes)
  BY DEF RequestsOK
<1>2. post[r].by = NoCode /\ post[r].data.user = None /\ post[r].guess = NoCode
  BY <1>1 DEF RequestOK
<1>3. KeepsLoaded(post'[r])
  BY <1>1, <1>2 DEF RequestOK, KeepsLoaded, Changes, SameGuess
<1>4. pc \in {"count", "setCount"} => \/ post'[r].was # None /\ post'[r].data = post'[r].was
                                      \/ post'[r].was = None /\ post'[r].data = NoData
  BY <1>1 DEF RequestOK, Changes
<1> QED BY <1>1, <1>2, <1>3, <1>4 DEF RequestOK, Changes, SameGuess

LEMMA SentRequest ==
  ASSUME TypeInv, RequestsOK, NEW r \in Requests, SetCount(r)
  PROVE  RequestOK(post'[r], codes + 1)
<1> DEFINE d == post[r].data
           e == post[r].email
           q == post'[r]
<1>1. /\ e \in Emails /\ post[r].pc = "setCount"
      /\ q.data = Sent(d, e, codes + 1) /\ q.pc = "mail" /\ q.was = post[r].was
      /\ q.key = post[r].key /\ q.guess = post[r].guess /\ q.by = post[r].by
  BY SetCountChanges DEF Changes, SameGuess
<1>2. /\ post[r].by = NoCode /\ d.user = None /\ post[r].guess = NoCode
      /\ RequestOK(post[r], codes) /\ d \in Data /\ codes \in Nat
  BY <1>1, ViewFacts, RequestType DEF RequestsOK
<1>3. \A c \in Live(q.was) : c \in Nat /\ c <= codes
  BY <1>1, <1>2, LiveFacts, NoLive DEF TypeInv, PostOK, Post, Codes, RequestOK
<1>4. \A c \in Live(q.was) : c <= codes + 1 /\ c # codes + 1
  BY <1>2, <1>3
<1>5. /\ q.data.user = None /\ q.data.code[e] = codes + 1
      /\ \A f \in Emails \ {e} : q.data.code[f] = d.code[f] /\ q.data.tries[f] = d.tries[f]
  <2> HIDE DEF d, e, q
  <2> QED BY <1>1, <1>2 DEF Sent, Data
<1>6. KeepsLoaded(q)
  BY <1>1, <1>2, <1>4, <1>5 DEF RequestOK, KeepsLoaded
<1> QED BY <1>1, <1>2, <1>4, <1>5, <1>6 DEF RequestOK

LEMMA GuessRequest ==
  ASSUME TypeInv, RequestsOK, NEW r \in Requests, NEW e \in Emails, NEW c \in Codes, VerifyWrong(r, e, c)
  PROVE  RequestOK(post'[r], codes)
<1> DEFINE d == post[r].data
           q == post'[r]
<1>1. /\ post[r].pc = "view" /\ d.code[e] = c
      /\ q.data = Guessed(d, e) /\ q.pc = "respond" /\ q.was = post[r].was
      /\ q.key = post[r].key /\ q.guess = c /\ q.by = post[r].by
  BY VerifyWrongChanges DEF Changes
<1>2. c # NoCode
  BY DEF Codes, NoCode
<1>3. /\ post[r].by = NoCode /\ d.user = None /\ RequestOK(post[r], codes)
      /\ d \in Data /\ DataOK(d, codes) /\ c \in Live(q.was)
  BY <1>1, <1>2, ViewFacts, RequestType DEF RequestsOK
<1>4. q.was # None /\ q.was = d
  BY <1>1, <1>3, ViewFacts, NoLive
<1>5. /\ \A f \in Emails \ {e} : d.code[f] # NoCode => d.code[f] # c /\ d.tries[f] = d.tries[f] + 0
      /\ \A f \in Emails : d.code[f] # NoCode => d.tries[f] \in Nat
  BY <1>1, <1>3 DEF DataOK, Data
<1>6. /\ q.data.user = None /\ q.data.code = d.code /\ q.data.tries[e] = d.tries[e] + 1
      /\ \A f \in Emails \ {e} : q.data.tries[f] = d.tries[f]
  <2> HIDE DEF d, q
  <2> QED BY <1>1, <1>3 DEF Guessed, Data
<1>7. KeepsLoaded(q)
  BY <1>1, <1>3, <1>4, <1>5, <1>6 DEF KeepsLoaded
<1> QED BY <1>1, <1>3, <1>6, <1>7 DEF RequestOK

(* A user logs in with a code of the session that was loaded.               *)
LEMMA LoginRequest ==
  ASSUME TypeInv, RequestsOK, NEW r \in Requests, post[r].pc = "view",
         NEW data, Changes(r, "login", data), data.user # None,
         post'[r].guess = post[r].guess, post'[r].by \in Live(post[r].was)
  PROVE  RequestOK(post'[r], codes)
BY ViewFacts DEF RequestsOK, RequestOK, KeepsLoaded, Changes

LEMMA SignedInRequest ==
  ASSUME TypeInv, RequestsOK, NEW r \in Requests, Login(r) \/ DeleteOld(r)
  PROVE  RequestOK(post'[r], codes)
<1>1. /\ RequestOK(post[r], codes) /\ post[r].guess = NoCode /\ post[r].data.user # None
      /\ post[r].data \in Data /\ Live(post[r].data) = {}
  BY RequestType, LiveFacts, LoginChanges, DeleteOldChanges DEF RequestsOK, RequestOK
<1>2. CASE Login(r)
  BY <1>1, <1>2, LoginChanges DEF RequestOK, KeepsLoaded, Changes, SameGuess
<1>3. CASE DeleteOld(r)
  BY <1>1, <1>3, DeleteOldChanges DEF RequestOK, KeepsLoaded, SameGuess
<1> QED BY <1>2, <1>3

LEMMA RequestsNext == TypeInv /\ RequestsOK /\ [Next]_vars => RequestsOK'
<1> SUFFICES ASSUME TypeInv, RequestsOK, [Next]_vars PROVE RequestsOK'
    OBVIOUS
<1>0. codes \in Nat /\ codes <= codes
  BY DEF TypeInv, CountersOK
<1>1. ASSUME NEW r \in Requests, Begin(r) PROVE RequestsOK'
  <2>1. Others(r) /\ codes' = codes
    BY <1>1, BeginChanges DEF Begin
  <2> QED BY <1>0, <1>1, <2>1, BeginRequest, RequestsKept
<1>2. ASSUME NEW r \in Requests,
             \/ Leave(r) /\ codes' = codes
             \/ MailFails(r) \/ Flush(r) \/ Respond(r)
             \/ \E e \in Emails : \/ Refuse(r, e) \/ SignupFails(r, e)
                                  \/ \E c \in Codes : SendAgain(r, e, c)
      PROVE  RequestsOK'
  <2>1. Others(r) /\ post'[r] = Idle /\ codes' = codes
    BY <1>2, LeavesAll DEF MailFails, Flush, Respond, Refuse, SignupFails, SendAgain, counters
  <2> QED BY <1>0, <2>1, IdleRequest, RequestsKept
<1>3. ASSUME NEW r \in Requests, NEW pc, NEW data \in Data,
             Changes(r, pc, data), SameGuess(r), post[r].pc \notin {"login", "deleteOld", "respond"},
             data.user = post[r].data.user,
             \A e \in Emails : data.code[e] # NoCode =>
                data.code[e] = post[r].data.code[e] /\ data.tries[e] = post[r].data.tries[e],
             \/ pc \in {"mail", "respond", "flush"}
             \/ pc \in {"count", "setCount"} /\ post[r].pc \in {"view", "count"} /\ data = post[r].data,
             codes' = codes
      PROVE  RequestsOK'
  <2>1. RequestOK(post'[r], codes)
    BY <1>3, SameRequest
  <2>2. Others(r)
    BY <1>3 DEF Changes
  <2> QED BY <1>0, <1>3, <2>1, <2>2, RequestsKept
<1>4. ASSUME NEW r \in Requests, NEW e \in Emails, SendNew(r, e) PROVE RequestsOK'
  <2>1. codes' = codes
    BY <1>4 DEF SendNew, counters
  <2> QED BY <1>3, <1>4, <2>1, RequestType, SendNewChanges
<1>5. ASSUME NEW r \in Requests, ReadCount(r) PROVE RequestsOK'
  <2>1. codes' = codes
    BY <1>5 DEF ReadCount, counters
  <2> QED BY <1>2, <1>3, <1>5, <2>1, RequestType, ReadCountChanges
<1>6. ASSUME NEW r \in Requests, Mail(r) PROVE RequestsOK'
  <2>1. codes' = codes
    BY <1>6 DEF Mail, counters
  <2> QED BY <1>3, <1>6, <2>1, RequestType, MailChanges
<1>7. ASSUME NEW r \in Requests, SetCount(r) PROVE RequestsOK'
  <2>1. Others(r) /\ codes' = codes + 1 /\ codes' \in Nat /\ codes <= codes'
    <3>1. Others(r)
      BY <1>7, SetCountChanges DEF Changes
    <3> QED BY <1>0, <1>7, <3>1 DEF SetCount
  <2> QED BY <1>7, <2>1, SentRequest, RequestsKept
<1>8. ASSUME NEW r \in Requests, NEW e \in Emails, NEW c \in Codes, VerifyWrong(r, e, c)
      PROVE  RequestsOK'
  <2>1. Others(r) /\ codes' = codes
    BY <1>8, VerifyWrongChanges DEF VerifyWrong, Changes, counters
  <2> QED BY <1>0, <1>8, <2>1, GuessRequest, RequestsKept
<1>9. ASSUME NEW r \in Requests, NEW data, post[r].pc = "view", Changes(r, "login", data),
             data.user # None, post'[r].guess = post[r].guess, post'[r].by \in Live(post[r].was),
             codes' = codes
      PROVE  RequestsOK'
  <2>1. RequestOK(post'[r], codes) /\ Others(r)
    BY <1>9, LoginRequest DEF Changes
  <2> QED BY <1>0, <1>9, <2>1, RequestsKept
<1>10. ASSUME NEW r \in Requests, NEW e \in Emails, NEW c \in Codes, VerifyRight(r, e, c)
       PROVE  RequestsOK'
  <2> DEFINE d == post[r].data
             x == Removed(d, e)
  <2>1. codes' = codes /\ post[r].pc = "view" /\ d \in Data /\ x \in Data /\ d.code[e] = c
    <3>1. codes' = codes /\ post[r].pc = "view" /\ d.code[e] = c
      BY <1>10 DEF VerifyRight, Verifiable, At, counters
    <3> QED BY <3>1, RequestType, RemovedOK
  <2>2. CASE Changes(r, "login", SignedIn(x, e)) /\ post'[r].by = c /\ post'[r].guess = post[r].guess
    <3>1. c \in Live(post[r].was)
      BY <2>1, ViewFacts DEF Codes, NoCode
    <3>2. SignedIn(x, e).user # None
      BY <2>1, SignedInDead
    <3> QED BY <1>9, <2>1, <2>2, <3>1, <3>2
  <2>3. CASE Changes(r, "flush", d) /\ SameGuess(r)
    BY <1>3, <2>1, <2>3
  <2>4. CASE Changes(r, "respond", WithToken(d, e, c)) /\ SameGuess(r)
    <3>1. /\ WithToken(d, e, c) \in Data /\ WithToken(d, e, c).user = d.user
          /\ WithToken(d, e, c).code = d.code /\ WithToken(d, e, c).tries = d.tries
      BY <2>1 DEF WithToken, Data
    <3> QED BY <1>3, <2>1, <2>4, <3>1
  <2> QED BY <1>10, <2>2, <2>3, <2>4, VerifyRightChanges
<1>11. ASSUME NEW r \in Requests, NEW e \in Emails, SignupRefused(r, e) PROVE RequestsOK'
  <2>1. codes' = codes
    BY <1>11 DEF SignupRefused, counters
  <2> DEFINE d == Removed(post[r].data, e)
  <2>2. /\ d \in Data /\ d.user = post[r].data.user
        /\ \A f \in Emails : d.code[f] # NoCode =>
             d.code[f] = post[r].data.code[f] /\ d.tries[f] = post[r].data.tries[f]
    BY RequestType, RemovedOK
  <2> HIDE DEF d
  <2>3. Changes(r, "respond", d) /\ SameGuess(r) /\ post[r].pc = "view"
    BY <1>11, SignupRefusedChanges DEF d
  <2> QED BY <1>3, <2>1, <2>2, <2>3
<1>12. ASSUME NEW r \in Requests, NEW e \in Emails, Signup(r, e) PROVE RequestsOK'
  <2> DEFINE x == Removed(post[r].data, e)
             t == WithToken(x, e, NoCode)
  <2>1. codes' = codes /\ post[r].pc = "view" /\ x \in Data
    BY <1>12, SignupChanges, RequestType, RemovedOK DEF Signup, counters
  <2>2. t \in Data
    <3> HIDE DEF x
    <3> QED BY <2>1 DEF WithToken, Data
  <2>3. post'[r].by \in Live(post[r].was)
    BY <1>12, <2>1, SignupChanges, ViewFacts
  <2>4. SignedIn(t, e).user # None
    BY <2>2, SignedInDead
  <2> QED BY <1>9, <1>12, <2>1, <2>3, <2>4, SignupChanges
<1>13. ASSUME NEW r \in Requests, Login(r) \/ DeleteOld(r) PROVE RequestsOK'
  <2>1. Others(r) /\ codes' = codes
    BY <1>13, LoginChanges, DeleteOldChanges DEF Login, DeleteOld, Changes, counters
  <2> QED BY <1>0, <1>13, <2>1, SignedInRequest, RequestsKept
<1>14. CASE UNCHANGED vars
  BY <1>14 DEF RequestsOK, vars, counters
<1>15. ASSUME NEW r \in Requests, View(r) PROVE RequestsOK'
  BY <1>2, <1>4, <1>8, <1>10, <1>11, <1>12, <1>15 DEF View
<1> QED BY <1>1, <1>2, <1>5, <1>6, <1>7, <1>13, <1>14, <1>15 DEF Next

-----------------------------------------------------------------------------
(***************************************************************************)
(* The steps again, by what they do to the codes in hand: a request starts, *)
(* goes on with codes it has, sends a code, leaves its old session after a  *)
(* login, or saves its session.                                            *)
(***************************************************************************)
SameCounts == wrong' = wrong /\ signins' = signins

Starts(r) ==
  /\ Others(r) /\ SameCounts /\ codes' = codes /\ lost' = lost /\ sessions' = sessions
  /\ post[r].pc = "idle" /\ post'[r].pc = "view" /\ post'[r].by = NoCode
  /\ post'[r].data = post'[r].was \/ Live(post'[r].data) = {}
  /\ \/ \E k \in Keys : post'[r].key = k /\ post'[r].was = sessions[k]
     \/ Live(post'[r].was) = {}

GoesOn(r) ==
  /\ Others(r) /\ SameCounts /\ codes' = codes /\ lost' >= lost
  /\ post[r].pc # "respond" /\ (post'[r].pc = "respond" => post'[r].by = NoCode)
  /\ Live(post'[r].data) \subseteq Live(post[r].data)
  /\ \/ post'[r].key = post[r].key /\ post'[r].was = post[r].was
     \/ Live(post'[r].was) = {} /\ Live(post'[r].data) = {}
  /\ post'[r].by \in {post[r].by, NoCode} \cup Live(post[r].was)
  /\ \A k \in Keys : sessions'[k] = sessions[k] \/ Live(sessions'[k]) = {}

Sends(r) ==
  /\ Others(r) /\ SameCounts /\ codes' = codes + 1 /\ codes + 1 \in Codes
  /\ lost' = lost /\ sessions' = sessions
  /\ post[r].pc = "setCount" /\ post'[r].pc = "mail" /\ post'[r].by = NoCode
  /\ post'[r].key = post[r].key /\ post'[r].was = post[r].was
  /\ Live(post'[r].data) \subseteq Live(post[r].data) \cup {codes + 1}

LeavesOld(r) ==
  /\ Others(r) /\ SameCounts /\ codes' = codes /\ lost' = Losing(r, post[r].key)
  /\ post[r].pc = "deleteOld" /\ post'[r].pc = "respond" /\ post'[r].by = post[r].by
  /\ post[r].by \in Live(post[r].was)
  /\ Live(post'[r].was) = {} /\ Live(post'[r].data) = {}
  /\ sessions' = [sessions EXCEPT ![post[r].key] = None]

Saves(r) ==
  /\ Others(r) /\ codes' = codes /\ post[r].pc = "respond" /\ post'[r] = Idle
  /\ \E k \in Keys :
       /\ post[r].key # NoKey => k = post[r].key
       /\ sessions' = [sessions EXCEPT ![k] = post[r].data]
       /\ lost' = Losing(r, k)
  /\ wrong' = Once(wrong, post[r].guess) /\ signins' = Once(signins, post[r].by)

LEMMA IdleFacts == Idle.pc = "idle" /\ Idle.by = NoCode /\ Idle.data = NoData /\ Idle.was = None
BY DEF Idle

LEMMA LeavesGoOn ==
  ASSUME TypeInv, NEW r \in Requests, Others(r), post'[r] = Idle, post[r].pc # "respond",
         SameCounts, codes' = codes, lost' >= lost,
         \A k \in Keys : sessions'[k] = sessions[k] \/ sessions'[k] = None
  PROVE  GoesOn(r)
BY NoLive, IdleFacts DEF GoesOn

LEMMA NextKinds ==
  ASSUME TypeInv, RequestsOK, Next
  PROVE  \E r \in Requests : Starts(r) \/ GoesOn(r) \/ Sends(r) \/ LeavesOld(r) \/ Saves(r)
<1>0. lost \in Nat /\ lost >= lost
  BY DEF TypeInv, CountersOK
<1>1. ASSUME NEW r \in Requests, Begin(r) PROVE Starts(r)
  <2>1. SameCounts /\ codes' = codes /\ lost' = lost /\ sessions' = sessions
    BY <1>1 DEF Begin, SameCounts, stored, history
  <2> QED BY <1>1, <2>1, BeginChanges, NoLive DEF Starts
<1>2. ASSUME NEW r \in Requests,
             \/ MailFails(r)
             \/ Leave(r) /\ ReadCount(r)
             \/ \E e \in Emails : \/ Refuse(r, e) \/ SignupFails(r, e)
                                  \/ \E c \in Codes : SendAgain(r, e, c)
      PROVE  GoesOn(r)
  <2>1. post[r].pc # "respond" /\ SameCounts /\ codes' = codes /\ lost' = lost /\ sessions' = sessions
    BY <1>2 DEF MailFails, ReadCount, Refuse, SignupFails, SendAgain, At, SameCounts, counters, history
  <2>2. Others(r) /\ post'[r] = Idle
    BY <1>2, LeavesAll
  <2> QED BY <1>0, <2>1, <2>2, LeavesGoOn
<1>3. ASSUME NEW r \in Requests, Flush(r) PROVE GoesOn(r)
  <2>1. Others(r) /\ post'[r] = Idle /\ post[r].pc # "respond" /\ SameCounts /\ codes' = codes
    BY <1>3, LeavesAll DEF Flush, At, SameCounts, counters
  <2>2. lost' >= lost
    BY <1>3, LosingType DEF Flush
  <2>3. \A k \in Keys : sessions'[k] = sessions[k] \/ sessions'[k] = None
    BY <1>3 DEF Flush, TypeInv, StoredOK
  <2> QED BY <2>1, <2>2, <2>3, LeavesGoOn
<1>4. ASSUME NEW r \in Requests, NEW pc, NEW data, Changes(r, pc, data),
             SameCounts, codes' = codes, lost' = lost,
             \A k \in Keys : sessions'[k] = sessions[k] \/ Live(sessions'[k]) = {},
             post[r].pc # "respond", Live(data) \subseteq Live(post[r].data),
             pc = "respond" => post'[r].by = NoCode,
             post'[r].by \in {post[r].by, NoCode} \cup Live(post[r].was)
      PROVE  GoesOn(r)
  BY <1>0, <1>4 DEF GoesOn, Changes
<1>5. ASSUME NEW r \in Requests, ReadCount(r) \/ Mail(r) \/ \E e \in Emails : SendNew(r, e)
      PROVE  GoesOn(r)
  <2>1. SameCounts /\ codes' = codes /\ lost' = lost /\ sessions' = sessions
    BY <1>5 DEF ReadCount, Mail, SendNew, SameCounts, stored, counters, history
  <2>2. CASE ReadCount(r) /\ Leave(r)
    BY <1>2, <2>2
  <2>3. CASE ~(ReadCount(r) /\ Leave(r))
    <3>1. /\ \E pc \in {"count", "setCount", "respond"} : Changes(r, pc, post[r].data)
          /\ SameGuess(r) /\ post[r].pc \in {"view", "count", "mail"}
      BY <1>5, <2>3, ReadCountChanges, MailChanges, SendNewChanges
    <3>2. post'[r].by = NoCode
      BY <3>1 DEF SameGuess, RequestsOK, RequestOK
    <3> QED BY <1>4, <2>1, <3>1, <3>2
  <2> QED BY <2>2, <2>3
<1>6. ASSUME NEW r \in Requests, SetCount(r) PROVE Sends(r)
  <2>1. SameCounts /\ codes' = codes + 1 /\ lost' = lost /\ sessions' = sessions
    BY <1>6 DEF SetCount, SameCounts
  <2>2. Live(Sent(post[r].data, post[r].email, codes + 1)) \subseteq Live(post[r].data) \cup {codes + 1}
    BY <1>6, SetCountChanges, RequestType, LiveEdits
  <2>3. post[r].by = NoCode
    BY <1>6, SetCountChanges DEF RequestsOK, RequestOK
  <2> QED BY <1>6, <2>1, <2>2, <2>3, SetCountChanges DEF Sends, Changes, SameGuess
<1>7. ASSUME NEW r \in Requests, NEW e \in Emails,
             \/ \E c \in Codes : VerifyWrong(r, e, c) \/ VerifyRight(r, e, c)
             \/ SignupRefused(r, e) \/ Signup(r, e)
      PROVE  GoesOn(r)
  <2> DEFINE d == post[r].data
             x == Removed(d, e)
  <2>1. SameCounts /\ codes' = codes /\ lost' = lost /\ sessions' = sessions
    BY <1>7 DEF VerifyWrong, VerifyRight, SignupRefused, Signup, SameCounts, stored, counters, history
  <2>2. post[r].pc = "view" /\ post[r].by = NoCode
    BY <1>7, ViewFacts DEF VerifyWrong, VerifyRight, SignupRefused, Signup, At
  <2>3. d \in Data /\ x \in Data /\ Live(x) \subseteq Live(d)
    BY RequestType, RemovedOK, LiveEdits
  <2>4. ASSUME NEW c \in Codes, VerifyWrong(r, e, c) PROVE GoesOn(r)
    <3>1. Live(Guessed(d, e)) \subseteq Live(d)
      BY <2>3, LiveEdits
    <3> QED BY <1>4, <2>1, <2>2, <2>4, <3>1, VerifyWrongChanges
  <2>5. ASSUME NEW c \in Codes, VerifyRight(r, e, c) PROVE GoesOn(r)
    <3>1. c \in Live(post[r].was) /\ c \in Live(d)
      BY <2>2, <2>5, ViewFacts, VerifyRightChanges DEF Codes, NoCode
    <3>2. Live(SignedIn(x, e)) = {}
      BY <2>3, SignedInDead
    <3>3. Live(WithToken(d, e, c)) \subseteq Live(d)
      BY <2>3, <3>1, LiveEdits
    <3>4. CASE Changes(r, "login", SignedIn(x, e)) /\ post'[r].by = c
      BY <1>4, <2>1, <2>2, <3>1, <3>2, <3>4
    <3>5. CASE Changes(r, "flush", d) /\ SameGuess(r)
      BY <1>4, <2>1, <2>2, <3>5 DEF SameGuess
    <3>6. CASE Changes(r, "respond", WithToken(d, e, c)) /\ SameGuess(r)
      BY <1>4, <2>1, <2>2, <3>3, <3>6 DEF SameGuess
    <3> QED BY <2>5, <3>4, <3>5, <3>6, VerifyRightChanges
  <2>6. ASSUME SignupRefused(r, e) PROVE GoesOn(r)
    BY <1>4, <2>1, <2>2, <2>3, <2>6, SignupRefusedChanges DEF SameGuess
  <2>7. ASSUME Signup(r, e) PROVE GoesOn(r)
    <3>1. WithToken(x, e, NoCode) \in Data
      BY <2>3 DEF WithToken, Data
    <3>2. Live(SignedIn(WithToken(x, e, NoCode), e)) = {}
      BY <3>1, SignedInDead
    <3>3. post'[r].by \in Live(post[r].was)
      BY <2>2, <2>7, SignupChanges, ViewFacts
    <3>4. Changes(r, "login", SignedIn(WithToken(x, e, NoCode), e))
      BY <2>7, SignupChanges
    <3> HIDE DEF x, d
    <3> QED BY <1>4, <2>1, <2>2, <3>2, <3>3, <3>4
  <2> QED BY <1>7, <2>4, <2>5, <2>6, <2>7
<1>8. ASSUME NEW r \in Requests, Login(r) PROVE GoesOn(r)
  <2>1. SameCounts /\ codes' = codes /\ lost' = lost
    BY <1>8 DEF Login, SameCounts, history
  <2>2. post[r].pc = "login" /\ Live(post[r].data) = {}
    BY <1>8, LoginChanges, RequestType, LiveFacts DEF RequestsOK, RequestOK
  <2>3. \A k \in Keys : sessions'[k] = sessions[k] \/ Live(sessions'[k]) = {}
    BY <1>8, <2>2, LoginChanges DEF TypeInv, StoredOK
  <2> QED BY <1>4, <1>8, <2>1, <2>2, <2>3, LoginChanges DEF SameGuess
<1>9. ASSUME NEW r \in Requests, DeleteOld(r) PROVE LeavesOld(r)
  <2>1. SameCounts /\ codes' = codes /\ lost' = Losing(r, post[r].key)
        /\ sessions' = [sessions EXCEPT ![post[r].key] = None]
    BY <1>9 DEF DeleteOld, SameCounts, counters
  <2>2. post[r].pc = "deleteOld" /\ post[r].by \in Live(post[r].was) /\ Live(post[r].data) = {}
    BY <1>9, DeleteOldChanges, RequestType, LiveFacts DEF RequestsOK, RequestOK
  <2> QED BY <1>9, <2>1, <2>2, DeleteOldChanges DEF LeavesOld, SameGuess
<1>10. ASSUME NEW r \in Requests, Respond(r) PROVE Saves(r)
  <2>1. Others(r) /\ post'[r] = Idle
    BY <1>10, LeavesAll
  <2> DEFINE k == IF post[r].key = NoKey THEN keys + 1 ELSE post[r].key
  <2>2. /\ k \in Keys /\ sessions' = [sessions EXCEPT ![k] = post[r].data] /\ lost' = Losing(r, k)
        /\ codes' = codes /\ post[r].pc = "respond"
        /\ wrong' = Once(wrong, post[r].guess) /\ signins' = Once(signins, post[r].by)
    BY <1>10 DEF Respond, At
  <2>3. post[r].key # NoKey => k = post[r].key
    OBVIOUS
  <2> HIDE DEF k
  <2>4. \E j \in Keys :
          /\ post[r].key # NoKey => j = post[r].key
          /\ sessions' = [sessions EXCEPT ![j] = post[r].data]
          /\ lost' = Losing(r, j)
    BY <2>2, <2>3
  <2> QED BY <2>1, <2>2, <2>4 DEF Saves
<1>11. ASSUME NEW r \in Requests, View(r) PROVE GoesOn(r)
  BY <1>2, <1>5, <1>7, <1>11 DEF View
<1>12. PICK r \in Requests : \/ Begin(r) \/ View(r)
                            \/ ReadCount(r) \/ SetCount(r) \/ Mail(r) \/ MailFails(r)
                            \/ Login(r) \/ DeleteOld(r) \/ Flush(r) \/ Respond(r)
  BY DEF Next
<1>13. CASE ReadCount(r) \/ Mail(r) \/ MailFails(r) \/ View(r) \/ Login(r) \/ Flush(r)
  BY <1>2, <1>3, <1>5, <1>8, <1>11, <1>13
<1>14. CASE Begin(r) \/ SetCount(r) \/ DeleteOld(r) \/ Respond(r)
  BY <1>1, <1>6, <1>9, <1>10, <1>14
<1> QED BY <1>12, <1>13, <1>14

-----------------------------------------------------------------------------
(* Where the codes are.                                                    *)

LEMMA LiveTypes ==
  ASSUME TypeInv, RequestsOK
  PROVE  /\ \A r \in Requests : \A c \in Live(post[r].data) \cup Live(post[r].was) :
              c \in Codes /\ c <= codes
         /\ \A k \in Keys : \A c \in Live(sessions[k]) : c \in Codes /\ c <= codes
<1>1. ASSUME NEW r \in Requests
      PROVE  \A c \in Live(post[r].data) \cup Live(post[r].was) : c \in Codes /\ c <= codes
  <2>1. \A c \in Live(post[r].data) : c \in Codes /\ c <= codes
    BY RequestType, LiveFacts
  <2>2. post[r].was \in Data \cup {None} /\ \A c \in Live(post[r].was) : c <= codes
    BY RequestType DEF RequestsOK, RequestOK, Post
  <2>3. \A c \in Live(post[r].was) : c \in Codes
    BY <2>2, LiveFacts, NoLive
  <2> QED BY <2>1, <2>2, <2>3
<1>2. ASSUME NEW k \in Keys
      PROVE  \A c \in Live(sessions[k]) : c \in Codes /\ c <= codes
  <2>1. CASE sessions[k] = None
    BY <2>1, NoLive
  <2>2. CASE sessions[k] # None
    <3>1. sessions[k] \in Data /\ DataOK(sessions[k], codes)
      BY <2>2 DEF TypeInv, StoredOK
    <3> QED BY <3>1, LiveFacts
  <2> QED BY <2>1, <2>2
<1> QED BY <1>1, <1>2

LEMMA HomesShrink ==
  ASSUME OneHome, \A k \in Keys : Live(sessions'[k]) \subseteq Live(sessions[k]),
         \A r \in Requests : \/ Live(post'[r].was) = {}
                            \/ /\ Live(post'[r].was) \subseteq Live(post[r].was)
                               /\ post'[r].key = post[r].key
  PROVE  OneHome'
<1>1. ASSUME NEW i \in Keys, NEW j \in Keys,
             NEW c \in Live(sessions'[i]) \cap Live(sessions'[j])
      PROVE  i = j
  BY <1>1 DEF OneHome
<1>2. ASSUME NEW s \in Requests, NEW j \in Keys,
             NEW c \in Live(post'[s].was) \cap Live(sessions'[j])
      PROVE  post'[s].key = j
  BY <1>2 DEF OneHome
<1>3. ASSUME NEW s \in Requests, NEW t \in Requests,
             NEW c \in Live(post'[s].was) \cap Live(post'[t].was)
      PROVE  post'[s].key = post'[t].key
  BY <1>3 DEF OneHome
<1> QED BY <1>1, <1>2, <1>3 DEF OneHome

LEMMA HomesStart ==
  ASSUME TypeInv, RequestsOK, OneHome, FreshOK, NEW r \in Requests, Starts(r)
  PROVE  OneHome' /\ FreshOK'
<1>1. /\ sessions' = sessions /\ codes' = codes /\ wrong' = wrong /\ signins' = signins
      /\ post'[r].by = NoCode /\ \A s \in Requests \ {r} : post'[s] = post[s]
  BY DEF Starts, Others, SameCounts
<1>2. Live(post'[r].data) \ Live(post'[r].was) = {}
  BY DEF Starts
<1>3. \/ \E k \in Keys : post'[r].key = k /\ Live(post'[r].was) = Live(sessions[k])
      \/ Live(post'[r].was) = {}
  BY DEF Starts
<1>4. OneHome'
  <2>1. CASE Live(post'[r].was) = {}
    BY <1>1, <2>1, HomesShrink
  <2>2. ASSUME NEW k \in Keys, post'[r].key = k, Live(post'[r].was) = Live(sessions[k])
        PROVE  OneHome'
    <3>1. ASSUME NEW s \in Requests, NEW j \in Keys,
                 NEW c \in Live(post'[s].was) \cap Live(sessions'[j])
          PROVE  post'[s].key = j
      BY <1>1, <2>2, <3>1 DEF OneHome
    <3>2. ASSUME NEW s \in Requests, NEW u \in Requests,
                 NEW c \in Live(post'[s].was) \cap Live(post'[u].was)
          PROVE  post'[s].key = post'[u].key
      BY <1>1, <2>2, <3>2 DEF OneHome
    <3> QED BY <1>1, <3>1, <3>2 DEF OneHome
  <2> QED BY <1>3, <2>1, <2>2
<1>5. FreshOK'
  <2>1. ASSUME NEW s \in Requests, NEW c \in NewCodes(s)'
        PROVE  /\ wrong'[c] = 0 /\ signins'[c] = 0
               /\ \A k \in Keys : c \notin Live(sessions'[k])
               /\ \A t \in Requests \ {s} : c \notin Live(post'[t].data) \cup Live(post'[t].was)
               /\ \A t \in Requests : post'[t].by # c
    <3>1. s # r /\ c \in NewCodes(s)
      BY <1>1, <1>2, <2>1 DEF NewCodes
    <3>2. c # NoCode
      BY <3>1 DEF NewCodes, Live
    <3>3. c \notin Live(post'[r].was) /\ c \notin Live(post'[r].data)
      BY <1>2, <1>3, <3>1 DEF FreshOK
    <3> QED BY <1>1, <3>1, <3>2, <3>3 DEF FreshOK
  <2>2. post'[r].by <= codes
    BY <1>1 DEF TypeInv, CountersOK, NoCode
  <2> QED BY <1>1, <2>1, <2>2 DEF FreshOK
<1> QED BY <1>4, <1>5

LEMMA HomesGoOn ==
  ASSUME TypeInv, RequestsOK, OneHome, FreshOK, NEW r \in Requests, GoesOn(r)
  PROVE  OneHome' /\ FreshOK'
<1>1. /\ codes' = codes /\ wrong' = wrong /\ signins' = signins
      /\ \A s \in Requests \ {r} : post'[s] = post[s]
      /\ \A k \in Keys : Live(sessions'[k]) \subseteq Live(sessions[k])
  BY DEF GoesOn, Others, SameCounts
<1>2. \/ post'[r].key = post[r].key /\ Live(post'[r].was) = Live(post[r].was)
      \/ Live(post'[r].was) = {} /\ Live(post'[r].data) = {}
  BY DEF GoesOn
<1>3. \A s \in Requests : /\ Live(post'[s].data) \subseteq Live(post[s].data)
                          /\ Live(post'[s].was) \subseteq Live(post[s].was)
                          /\ Live(post'[s].was) = {} \/ post'[s].key = post[s].key
  BY <1>1, <1>2 DEF GoesOn
<1>4. OneHome'
  BY <1>1, <1>3, HomesShrink
<1>5. FreshOK'
  <2>1. ASSUME NEW s \in Requests, NEW c \in NewCodes(s)'
        PROVE  /\ wrong'[c] = 0 /\ signins'[c] = 0
               /\ \A k \in Keys : c \notin Live(sessions'[k])
               /\ \A t \in Requests \ {s} : c \notin Live(post'[t].data) \cup Live(post'[t].was)
               /\ \A t \in Requests : post'[t].by # c
    <3>1. c \in NewCodes(s)
      BY <1>1, <1>2, <1>3, <2>1 DEF NewCodes
    <3>2. c # NoCode
      BY <3>1 DEF NewCodes, Live
    <3>3. c \notin Live(post[r].was) /\ post[r].by # c
      BY <3>1 DEF FreshOK, NewCodes
    <3>4. post'[r].by # c
      BY <3>2, <3>3 DEF GoesOn
    <3> QED BY <1>1, <1>3, <3>1, <3>4 DEF FreshOK
  <2>2. post'[r].by <= codes
    <3>1. NoCode <= codes
      BY DEF TypeInv, CountersOK, NoCode
    <3> QED BY <3>1, LiveTypes DEF GoesOn, FreshOK
  <2> QED BY <1>1, <2>1, <2>2 DEF FreshOK
<1> QED BY <1>4, <1>5

LEMMA HomesSend ==
  ASSUME TypeInv, RequestsOK, OneHome, FreshOK, NEW r \in Requests, Sends(r)
  PROVE  OneHome' /\ FreshOK'
<1> DEFINE n == codes + 1
<1>1. /\ sessions' = sessions /\ codes' = n /\ wrong' = wrong /\ signins' = signins
      /\ \A s \in Requests \ {r} : post'[s] = post[s]
      /\ post'[r].key = post[r].key /\ post'[r].was = post[r].was /\ post'[r].by = NoCode
      /\ Live(post'[r].data) \subseteq Live(post[r].data) \cup {n} /\ n \in Codes
  BY DEF Sends, Others, SameCounts
<1>2. /\ n > codes /\ n # NoCode
      /\ \A s \in Requests : n \notin Live(post[s].data) \cup Live(post[s].was)
      /\ \A k \in Keys : n \notin Live(sessions[k])
      /\ \A s \in Requests : post[s].by # n
  <2>1. codes \in Nat /\ n > codes /\ ~(n <= codes) /\ n # NoCode
    BY DEF TypeInv, CountersOK, NoCode
  <2> HIDE DEF n
  <2> QED BY <2>1, LiveTypes DEF FreshOK
<1> HIDE DEF n
<1>3. wrong[n] = 0 /\ signins[n] = 0
  BY <1>1, <1>2 DEF FreshOK
<1>4. OneHome'
  <2>1. \A s \in Requests : post'[s].key = post[s].key /\ post'[s].was = post[s].was
    BY <1>1
  <2> QED BY <1>1, <2>1 DEF OneHome
<1>5. FreshOK'
  <2>1. ASSUME NEW s \in Requests, NEW c \in NewCodes(s)'
        PROVE  /\ wrong'[c] = 0 /\ signins'[c] = 0
               /\ \A k \in Keys : c \notin Live(sessions'[k])
               /\ \A t \in Requests \ {s} : c \notin Live(post'[t].data) \cup Live(post'[t].was)
               /\ \A t \in Requests : post'[t].by # c
    <3>1. CASE c = n
      <4>1. s = r
        BY <1>1, <1>2, <2>1, <3>1 DEF NewCodes
      <4> QED BY <1>1, <1>2, <1>3, <3>1, <4>1
    <3>2. CASE c # n
      <4>1. c \in NewCodes(s) /\ c # NoCode
        BY <1>1, <2>1, <3>2 DEF NewCodes, Live
      <4> QED BY <1>1, <3>2, <4>1 DEF FreshOK
    <3> QED BY <3>1, <3>2
  <2>2. \A c \in Codes : c > n => c > codes
    BY DEF TypeInv, CountersOK, Codes, n
  <2>3. \A s \in Requests : post'[s].by <= n
    <3>1. \A s \in Requests : post[s].by \in Nat /\ post[s].by <= codes
      BY RequestType DEF Post, Codes, NoCode, FreshOK
    <3>2. NoCode <= n /\ codes \in Nat
      BY DEF TypeInv, CountersOK, NoCode, n
    <3>3. \A b \in Nat : b <= codes => b <= n
      BY <3>2 DEF n
    <3> QED BY <1>1, <3>1, <3>2, <3>3
  <2> QED BY <1>1, <2>1, <2>2, <2>3 DEF FreshOK
<1> QED BY <1>4, <1>5

LEMMA HomesLeaveOld ==
  ASSUME TypeInv, RequestsOK, OneHome, FreshOK, NEW r \in Requests, LeavesOld(r)
  PROVE  OneHome' /\ FreshOK'
<1>1. /\ codes' = codes /\ wrong' = wrong /\ signins' = signins
      /\ \A s \in Requests \ {r} : post'[s] = post[s]
      /\ post'[r].by = post[r].by /\ Live(post'[r].was) = {} /\ Live(post'[r].data) = {}
  BY DEF LeavesOld, Others, SameCounts
<1>2. \A k \in Keys : Live(sessions'[k]) \subseteq Live(sessions[k])
  BY NoLive DEF LeavesOld, TypeInv, StoredOK
<1>3. OneHome'
  BY <1>1, <1>2, HomesShrink
<1>4. FreshOK'
  <2>1. ASSUME NEW s \in Requests, NEW c \in NewCodes(s)'
        PROVE  /\ wrong'[c] = 0 /\ signins'[c] = 0
               /\ \A k \in Keys : c \notin Live(sessions'[k])
               /\ \A t \in Requests \ {s} : c \notin Live(post'[t].data) \cup Live(post'[t].was)
               /\ \A t \in Requests : post'[t].by # c
    <3>1. c \in NewCodes(s)
      BY <1>1, <2>1 DEF NewCodes
    <3>2. \A t \in Requests : post'[t].by = post[t].by
      BY <1>1
    <3> QED BY <1>1, <1>2, <3>1, <3>2 DEF FreshOK
  <2> QED BY <1>1, <2>1 DEF FreshOK
<1> QED BY <1>3, <1>4

LEMMA HomesSave ==
  ASSUME TypeInv, RequestsOK, OneHome, FreshOK, NEW r \in Requests, Saves(r)
  PROVE  OneHome' /\ FreshOK'
<1>1. /\ codes' = codes /\ post'[r] = Idle
      /\ \A s \in Requests \ {r} : post'[s] = post[s]
      /\ wrong' = Once(wrong, post[r].guess) /\ signins' = Once(signins, post[r].by)
  BY DEF Saves, Others
<1>2. PICK k \in Keys :
        /\ post[r].key # NoKey => k = post[r].key
        /\ sessions' = [sessions EXCEPT ![k] = post[r].data]
  BY DEF Saves
<1>3. /\ Live(sessions'[k]) = Live(post[r].data)
      /\ \A j \in Keys \ {k} : sessions'[j] = sessions[j]
  BY <1>2 DEF TypeInv, StoredOK
<1>4. \A c \in Live(post[r].data) \cap Live(post[r].was) : post[r].key = k
  BY <1>2 DEF RequestsOK, RequestOK
<1>5. Live(post'[r].was) = {} /\ Live(post'[r].data) = {} /\ post'[r].by = NoCode
  BY <1>1, NoLive, IdleFacts
<1>6. ASSUME NEW c \in Live(post[r].data)
      PROVE  /\ \A j \in Keys \ {k} : c \notin Live(sessions[j])
             /\ \A s \in Requests \ {r} : c \in Live(post[s].was) => post[s].key = k
             /\ \A s \in Requests \ {r} : c \notin NewCodes(s)
  <2>1. CASE c \in NewCodes(r)
    BY <2>1 DEF FreshOK, NewCodes
  <2>2. CASE c \in Live(post[r].was)
    BY <1>4, <1>6, <2>2 DEF OneHome, FreshOK
  <2> QED BY <1>6, <2>1, <2>2 DEF NewCodes
<1>7. OneHome'
  <2>1. ASSUME NEW i \in Keys, NEW j \in Keys,
               NEW c \in Live(sessions'[i]) \cap Live(sessions'[j])
        PROVE  i = j
    BY <1>3, <1>6, <2>1 DEF OneHome
  <2>2. ASSUME NEW s \in Requests, NEW j \in Keys,
               NEW c \in Live(post'[s].was) \cap Live(sessions'[j])
        PROVE  post'[s].key = j
    BY <1>1, <1>3, <1>5, <1>6, <2>2 DEF OneHome
  <2>3. ASSUME NEW s \in Requests, NEW t \in Requests,
               NEW c \in Live(post'[s].was) \cap Live(post'[t].was)
        PROVE  post'[s].key = post'[t].key
    BY <1>1, <1>5, <2>3 DEF OneHome
  <2> QED BY <2>1, <2>2, <2>3 DEF OneHome
<1>8. FreshOK'
  <2>1. post[r].guess \in Codes \cup {NoCode} /\ post[r].by \in Codes \cup {NoCode}
    BY RequestType DEF Post
  <2>2. wrong \in [Codes -> Nat] /\ signins \in [Codes -> Nat]
    BY DEF TypeInv, CountersOK
  <2>3. post[r].guess # NoCode => post[r].guess \in Live(post[r].was)
    BY DEF RequestsOK, RequestOK
  <2>4. ASSUME NEW c \in Codes, c # post[r].guess, c # post[r].by
        PROVE  wrong'[c] = wrong[c] /\ signins'[c] = signins[c]
    BY <1>1, <2>1, <2>2, <2>4, OnceType
  <2>5. ASSUME NEW s \in Requests, NEW c \in NewCodes(s)'
        PROVE  /\ wrong'[c] = 0 /\ signins'[c] = 0
               /\ \A j \in Keys : c \notin Live(sessions'[j])
               /\ \A t \in Requests \ {s} : c \notin Live(post'[t].data) \cup Live(post'[t].was)
               /\ \A t \in Requests : post'[t].by # c
    <3>1. s # r /\ c \in NewCodes(s)
      BY <1>1, <1>5, <2>5 DEF NewCodes
    <3>2. c \in Codes /\ c # NoCode
      BY <3>1, LiveTypes DEF NewCodes, Live
    <3>3. /\ wrong[c] = 0 /\ signins[c] = 0
          /\ \A j \in Keys : c \notin Live(sessions[j])
          /\ \A t \in Requests \ {s} : c \notin Live(post[t].data) \cup Live(post[t].was)
          /\ \A t \in Requests : post[t].by # c
      BY <3>1 DEF FreshOK
    <3>4. c # post[r].guess /\ c # post[r].by
      BY <2>3, <3>1, <3>2, <3>3
    <3> QED BY <1>1, <1>3, <1>5, <2>4, <3>1, <3>2, <3>3, <3>4
  <2>6. ASSUME NEW c \in Codes, c > codes
        PROVE  wrong'[c] = 0 /\ signins'[c] = 0
    <3>1. \A b \in Codes \cup {NoCode} : b <= codes => b # c
      BY <2>6 DEF TypeInv, CountersOK, Codes, NoCode
    <3>2. post[r].guess # c /\ post[r].by # c
      <4>1. NoCode # c
        BY DEF Codes, NoCode
      <4> QED BY <2>1, <2>3, <3>1, <4>1, LiveTypes DEF FreshOK
    <3> QED BY <2>4, <2>6, <3>2 DEF FreshOK
  <2>7. \A s \in Requests : post'[s].by <= codes
    <3>1. NoCode <= codes
      BY DEF TypeInv, CountersOK, NoCode
    <3> QED BY <1>1, <1>5, <3>1 DEF FreshOK
  <2> QED BY <1>1, <2>5, <2>6, <2>7 DEF FreshOK
<1> QED BY <1>7, <1>8

LEMMA HomesNext == TypeInv /\ RequestsOK /\ OneHome /\ FreshOK /\ [Next]_vars => OneHome' /\ FreshOK'
<1> SUFFICES ASSUME TypeInv, RequestsOK, OneHome, FreshOK, [Next]_vars
             PROVE  OneHome' /\ FreshOK'
    OBVIOUS
<1>1. CASE Next
  BY <1>1, NextKinds, HomesStart, HomesGoOn, HomesSend, HomesLeaveOld, HomesSave
<1>2. CASE UNCHANGED vars
  <2>1. UNCHANGED <<post, sessions, wrong, signins, codes>>
    BY <1>2 DEF vars, stored, counters, history
  <2> QED BY <2>1 DEF OneHome, FreshOK, NewCodes
<1> QED BY <1>1, <1>2

LEMMA HomesInit == Init => RequestsOK /\ OneHome /\ FreshOK
<1> SUFFICES ASSUME Init PROVE RequestsOK /\ OneHome /\ FreshOK
    OBVIOUS
<1>1. /\ \A k \in Keys : sessions[k] = None
      /\ \A r \in Requests : post[r] = Idle
      /\ codes = 0 /\ wrong = [c \in Codes |-> 0] /\ signins = [c \in Codes |-> 0]
  BY DEF Init
<1>2. RequestsOK
  BY <1>1, IdleRequest DEF RequestsOK
<1>3. OneHome
  BY <1>1, NoLive, IdleFacts DEF OneHome
<1>4. FreshOK
  BY <1>1, NoLive, IdleFacts DEF FreshOK, NewCodes, NoCode
<1> QED BY <1>2, <1>3, <1>4

-----------------------------------------------------------------------------
(* Guesses.                                                                *)

LEMMA MostGuessesFacts ==
  ASSUME NEW n \in Nat
  PROVE  /\ MostGuesses(n) \in Nat /\ MostGuesses(n + 1) = MostGuesses(n) + TryTimes
         /\ \A m \in Nat : m <= n => MostGuesses(m) <= MostGuesses(n)
BY PasscodeAssumption DEF MostGuesses

(* A session with a code has a number of tries for it.                     *)
LEMMA SessionFacts ==
  ASSUME TypeInv, NEW k \in Keys, sessions[k] # None
  PROVE  /\ sessions[k] \in Data
         /\ \A e \in Emails : sessions[k].code[e] # NoCode =>
              /\ sessions[k].code[e] \in Codes /\ wrong[sessions[k].code[e]] \in Nat
              /\ sessions[k].tries[e] \in Nat /\ sessions[k].tries[e] <= TryTimes
              /\ sessions[k].user = None => sessions[k].code[e] \in Live(sessions[k])
<1>1. sessions[k] \in Data /\ DataOK(sessions[k], codes)
  BY DEF TypeInv, StoredOK
<1>2. wrong \in [Codes -> Nat]
  BY DEF TypeInv, CountersOK
<1>3. \A e \in Emails : sessions[k].code[e] # NoCode =>
        /\ sessions[k].code[e] \in Codes
        /\ sessions[k].tries[e] \in Nat /\ sessions[k].tries[e] <= TryTimes
  BY <1>1 DEF DataOK, Data
<1> QED BY <1>1, <1>2, <1>3, LiveFacts

LEMMA TriesKept ==
  ASSUME TypeInv, TriesInv, wrong' = wrong, lost' \in Nat, lost <= lost',
         \A k \in Keys : sessions'[k] = sessions[k] \/ Live(sessions'[k]) = {},
         sessions' \in [Keys -> Data \cup {None}]
  PROVE  TriesInv'
<1>1. MostGuesses(lost) <= MostGuesses(lost') /\ MostGuesses(lost + 1) <= MostGuesses(lost' + 1)
      /\ MostGuesses(lost) \in Nat /\ MostGuesses(lost') \in Nat
      /\ MostGuesses(lost + 1) \in Nat /\ MostGuesses(lost' + 1) \in Nat
  <2>1. lost \in Nat
    BY DEF TypeInv, CountersOK
  <2>2. \A m, n \in Nat : m <= n => m + 1 \in Nat /\ n + 1 \in Nat /\ m + 1 <= n + 1
    OBVIOUS
  <2> QED BY <2>1, <2>2, MostGuessesFacts
<1>2. \A c \in Codes : wrong'[c] <= MostGuesses(lost' + 1)
  BY <1>1 DEF TriesInv, TypeInv, CountersOK
<1>3. ASSUME NEW k \in Keys, sessions'[k] # None, sessions'[k].user = None,
             NEW e \in Emails, sessions'[k].code[e] # NoCode
      PROVE  wrong'[sessions'[k].code[e]] <= MostGuesses(lost') + sessions'[k].tries[e]
  <2>1. sessions'[k].code[e] \in Live(sessions'[k])
    BY <1>3, LiveFacts
  <2>2. sessions'[k] = sessions[k]
    BY <2>1
  <2>3. wrong[sessions[k].code[e]] <= MostGuesses(lost) + sessions[k].tries[e]
    BY <1>3, <2>2 DEF TriesInv
  <2>4. wrong[sessions[k].code[e]] \in Nat /\ sessions[k].tries[e] \in Nat
    BY <1>3, <2>2, SessionFacts
  <2> QED BY <1>1, <2>2, <2>3, <2>4
<1> QED BY <1>2, <1>3 DEF TriesInv

LEMMA TriesSave ==
  ASSUME TypeInv, RequestsOK, OneHome, FreshOK, TriesInv, NEW r \in Requests, Saves(r)
  PROVE  TriesInv'
<1> DEFINE d == post[r].data
           w == post[r].was
           g == post[r].guess
<1>1. PICK k \in Keys : /\ post[r].key # NoKey => k = post[r].key
                        /\ sessions' = [sessions EXCEPT ![k] = d]
                        /\ lost' = Losing(r, k)
  BY DEF Saves
<1>2. /\ g \in Codes \cup {NoCode} /\ wrong \in [Codes -> Nat] /\ lost \in Nat
      /\ d \in Data /\ DataOK(d, codes) /\ RequestOK(post[r], codes)
  BY RequestType DEF TypeInv, CountersOK, Post, RequestsOK
<1>3. \A c \in Codes : wrong'[c] = IF c = g THEN wrong[c] + 1 ELSE wrong[c]
  BY <1>2, OnceType DEF Saves
<1>4. /\ lost' = IF sessions[k] = w THEN lost ELSE lost + 1
      /\ sessions'[k] = d /\ \A j \in Keys \ {k} : sessions'[j] = sessions[j]
  BY <1>1 DEF Losing, TypeInv, StoredOK
<1>5. /\ MostGuesses(lost) \in Nat /\ MostGuesses(lost + 1) = MostGuesses(lost) + TryTimes
      /\ MostGuesses(lost + 1 + 1) = MostGuesses(lost + 1) + TryTimes /\ TryTimes \in Nat
  <2>1. lost \in Nat /\ lost + 1 \in Nat
    BY <1>2
  <2>2. MostGuesses(lost) \in Nat /\ MostGuesses(lost + 1) = MostGuesses(lost) + TryTimes
    BY <2>1, MostGuessesFacts
  <2>3. MostGuesses(lost + 1 + 1) = MostGuesses(lost + 1) + TryTimes
    BY <2>1, MostGuessesFacts
  <2>. QED
    BY <2>2, <2>3, PasscodeAssumption
<1>6. g # NoCode => g \in Live(w) /\ d.user = None /\ \E e \in Emails : d.code[e] = g
  BY <1>2 DEF RequestOK
(* The tries saved with a code of the loaded session count this guess, too. *)
<1>7. ASSUME NEW e \in Emails, d.user = None, d.code[e] \in Live(w)
      PROVE  LET c == d.code[e] IN
             /\ wrong'[c] <= MostGuesses(lost') + d.tries[e]
             /\ wrong'[c] <= MostGuesses(lost' + 1)
  <2> DEFINE c == d.code[e]
  <2>1. c \in Codes /\ c # NoCode /\ wrong[c] \in Nat
    BY <1>2, <1>7 DEF Live, Data
  <2>2. /\ w # None /\ w.user = None /\ w.code[e] = c /\ w.tries[e] \in Nat
        /\ d.tries[e] = w.tries[e] + (IF g = c THEN 1 ELSE 0)
    BY <1>2, <1>7, <2>1 DEF RequestOK, KeepsLoaded
  <2>3. d.tries[e] \in Nat /\ d.tries[e] <= TryTimes
    BY <1>2, <2>1 DEF DataOK, Data
  <2>4. wrong[c] <= MostGuesses(lost + 1)
    BY <2>1 DEF TriesInv
  <2>5. sessions[k] = w => wrong[c] <= MostGuesses(lost) + w.tries[e]
    BY <2>1, <2>2 DEF TriesInv
  <2>6. wrong'[c] = IF g = c THEN wrong[c] + 1 ELSE wrong[c]
    BY <1>3, <2>1
  <2> HIDE DEF c, d, w, g
  <2>7. CASE sessions[k] = w
    <3>1. lost' = lost /\ wrong[c] <= MostGuesses(lost) + w.tries[e]
      BY <1>4, <2>5, <2>7
    <3>2. wrong'[c] <= MostGuesses(lost) + d.tries[e]
      BY <1>5, <2>1, <2>2, <2>3, <2>6, <3>1
    <3> QED BY <1>3, <1>5, <2>1, <2>3, <2>6, <3>1, <3>2 DEF c
  <2>8. CASE sessions[k] # w
    <3>1. lost' = lost + 1
      BY <1>4, <2>8
    <3>2. wrong'[c] <= MostGuesses(lost + 1) + d.tries[e]
      BY <1>5, <2>1, <2>2, <2>3, <2>4, <2>6
    <3> QED BY <1>3, <1>5, <2>1, <2>3, <2>6, <3>1, <3>2 DEF c
  <2> QED BY <2>7, <2>8
<1>8. ASSUME NEW c \in Codes PROVE wrong'[c] <= MostGuesses(lost' + 1)
  <2>1. CASE c = g
    <3>1. c # NoCode
      BY DEF Codes, NoCode
    <3> QED BY <1>6, <1>7, <2>1, <3>1
  <2>2. CASE c # g
    <3>1. wrong'[c] = wrong[c] /\ wrong[c] \in Nat /\ wrong[c] <= MostGuesses(lost + 1)
      BY <1>2, <1>3, <2>2 DEF TriesInv
    <3>2. lost' = lost \/ lost' = lost + 1
      BY <1>4
    <3> HIDE DEF d, w, g
    <3> QED BY <1>5, <3>1, <3>2
  <2> QED BY <2>1, <2>2
<1>9. ASSUME NEW j \in Keys, sessions'[j] # None, sessions'[j].user = None,
             NEW e \in Emails, sessions'[j].code[e] # NoCode
      PROVE  wrong'[sessions'[j].code[e]] <= MostGuesses(lost') + sessions'[j].tries[e]
  <2>1. CASE j = k /\ d.code[e] \in Live(w)
    BY <1>4, <1>7, <1>9, <2>1
  <2>2. CASE j = k /\ d.code[e] \notin Live(w)
    <3>1. d.user = None /\ d.code[e] \in Codes /\ d.code[e] \in NewCodes(r)
      BY <1>2, <1>4, <1>9, <2>2, LiveFacts DEF NewCodes, Data
    <3>2. wrong[d.code[e]] = 0 /\ d.code[e] # g
      BY <1>6, <2>2, <3>1 DEF FreshOK, Codes, NoCode
    <3>3. wrong'[d.code[e]] = 0
      BY <1>3, <3>1, <3>2
    <3>4. d.tries[e] \in Nat
      BY <1>2, <1>4, <1>9, <2>2 DEF DataOK, Data
    <3>5. MostGuesses(lost') \in Nat
      <4>1. lost' \in Nat
        BY <1>2, <1>4
      <4> QED BY <4>1, MostGuessesFacts
    <3> QED BY <1>4, <2>2, <3>3, <3>4, <3>5
  <2>3. CASE j # k
    <3> DEFINE c == sessions[j].code[e]
    <3>1. sessions'[j] = sessions[j] /\ sessions[j] # None
      BY <1>4, <1>9, <2>3
    <3>2. /\ c \in Codes /\ c \in Live(sessions[j]) /\ wrong[c] \in Nat /\ sessions[j].tries[e] \in Nat
          /\ wrong[c] <= MostGuesses(lost) + sessions[j].tries[e]
      BY <1>9, <3>1, SessionFacts DEF TriesInv
    <3>3. c # g
      <4>1. SUFFICES ASSUME c = g PROVE FALSE
        OBVIOUS
      <4>2. c # NoCode /\ c \in Live(w)
        BY <1>6, <3>2, <4>1 DEF Codes, NoCode
      <4>3. post[r].key = j
        BY <3>2, <4>2 DEF OneHome
      <4>4. post[r].key # NoKey
        BY <1>2, <4>2 DEF RequestOK
      <4> QED BY <1>1, <2>3, <4>3, <4>4
    <3>4. wrong'[c] = wrong[c]
      BY <1>3, <3>2, <3>3
    <3>5. lost' = lost \/ lost' = lost + 1
      BY <1>4
    <3> HIDE DEF c, d, w, g
    <3>6. wrong'[c] <= MostGuesses(lost') + sessions[j].tries[e]
      BY <1>5, <3>2, <3>4, <3>5
    <3> QED BY <3>1, <3>6 DEF c
  <2> QED BY <2>1, <2>2, <2>3
<1> QED BY <1>8, <1>9 DEF TriesInv

LEMMA TriesNext ==
  TypeInv /\ TypeInv' /\ RequestsOK /\ OneHome /\ FreshOK /\ TriesInv /\ [Next]_vars => TriesInv'
<1> SUFFICES ASSUME TypeInv, TypeInv', RequestsOK, OneHome, FreshOK, TriesInv, [Next]_vars
             PROVE  TriesInv'
    OBVIOUS
<1>1. lost' \in Nat /\ lost \in Nat /\ lost <= lost /\ sessions' \in [Keys -> Data \cup {None}]
  BY DEF TypeInv, CountersOK, StoredOK
<1>2. ASSUME NEW r \in Requests, Starts(r) \/ GoesOn(r) \/ Sends(r) \/ LeavesOld(r)
      PROVE  TriesInv'
  <2>1. wrong' = wrong
    BY <1>2 DEF Starts, GoesOn, Sends, LeavesOld, SameCounts
  <2>2. lost <= lost'
    BY <1>1, <1>2, LosingType DEF Starts, GoesOn, Sends, LeavesOld
  <2>3. \A k \in Keys : sessions'[k] = sessions[k] \/ Live(sessions'[k]) = {}
    BY <1>2, NoLive DEF Starts, GoesOn, Sends, LeavesOld, TypeInv, StoredOK
  <2> QED BY <1>1, <2>1, <2>2, <2>3, TriesKept
<1>3. CASE Next
  BY <1>2, <1>3, NextKinds, TriesSave
<1>4. CASE UNCHANGED vars
  <2>1. wrong' = wrong /\ lost' = lost /\ sessions' = sessions
    BY <1>4 DEF vars, stored, history
  <2> QED BY <2>1 DEF TriesInv
<1> QED BY <1>3, <1>4

LEMMA TriesInit == Init => TriesInv
<1> SUFFICES ASSUME Init PROVE TriesInv
    OBVIOUS
<1>1. lost = 0 /\ wrong = [c \in Codes |-> 0] /\ \A k \in Keys : sessions[k] = None
  BY DEF Init
<1>2. MostGuesses(0 + 1) \in Nat
  BY MostGuessesFacts
<1> QED BY <1>1, <1>2 DEF TriesInv

PasscodeInv == TypeInv /\ RequestsOK /\ OneHome /\ FreshOK

LEMMA PasscodeInvariant == Spec => []PasscodeInv
<1>1. Init => PasscodeInv
  BY InitTypes, HomesInit DEF PasscodeInv
<1>2. PasscodeInv /\ [Next]_vars => PasscodeInv'
  BY NextTypes, RequestsNext, HomesNext DEF PasscodeInv
<1> QED BY <1>1, <1>2, PTL DEF Spec

(* However many requests of a browser overlap, a code cannot be guessed     *)
(* more often than PASSCODE_TRY_TIMES, but for PASSCODE_TRY_TIMES more each *)
(* time a request saves over a session that changed since it loaded it.     *)
THEOREM GuessesLimited == Spec => []TriesLimited
<1>1. TriesInv /\ PasscodeInv /\ PasscodeInv' /\ [Next]_vars => TriesInv'
  BY TriesNext DEF PasscodeInv
<1>2. TriesInv => TriesLimited
  BY DEF TriesInv, TriesLimited, MostGuesses
<1> QED BY <1>1, <1>2, TriesInit, PasscodeInvariant, PTL DEF Spec

-----------------------------------------------------------------------------
(* Sign-ins.                                                               *)

LEMMA PendingFinite ==
  ASSUME NEW c
  PROVE  IsFiniteSet(Pending(c)) /\ Cardinality(Pending(c)) \in Nat
<1>1. Pending(c) \subseteq Requests /\ IsFiniteSet(Requests)
  BY PasscodeAssumption DEF Pending
<1> QED BY <1>1, FS_Subset, FS_CardinalityType

LEMMA UsedNat == ASSUME TypeInv, NEW c \in Codes PROVE Used(c) \in Nat
BY PendingFinite DEF Used, TypeInv, CountersOK

(* A step that signs nobody in and shows no session a code it had not.      *)
LEMMA SigninsKept ==
  ASSUME TypeInv, SigninsInv, lost' \in Nat, lost <= lost', NEW c \in Codes, Used(c)' = Used(c),
         \A k \in Keys : Live(sessions'[k]) \subseteq Live(sessions[k])
  PROVE  /\ Used(c)' <= 1 + lost'
         /\ (\E k \in Keys : c \in Live(sessions'[k])) => Used(c)' <= lost'
<1>1. Used(c) \in Nat /\ lost \in Nat
  BY UsedNat DEF TypeInv, CountersOK
<1>2. Used(c) <= 1 + lost /\ ((\E k \in Keys : c \in Live(sessions[k])) => Used(c) <= lost)
  BY DEF SigninsInv
<1>3. \A u, m, n \in Nat : m <= n => (u <= 1 + m => u <= 1 + n) /\ (u <= m => u <= n)
  OBVIOUS
<1> QED BY <1>1, <1>2, <1>3

LEMMA SigninsGoOn ==
  ASSUME TypeInv, SigninsInv, lost' \in Nat, NEW r \in Requests,
         Starts(r) \/ GoesOn(r) \/ Sends(r)
  PROVE  SigninsInv'
<1>1. /\ signins' = signins
      /\ \A s \in Requests \ {r} : post'[s] = post[s]
      /\ post[r].pc # "respond" /\ (post'[r].pc # "respond" \/ post'[r].by = NoCode)
      /\ \A k \in Keys : Live(sessions'[k]) \subseteq Live(sessions[k])
  BY DEF Starts, GoesOn, Sends, SameCounts, Others
<1>2. lost <= lost'
  BY DEF Starts, GoesOn, Sends, TypeInv, CountersOK
<1>3. ASSUME NEW c \in Codes PROVE Used(c)' = Used(c)
  <2>1. c # NoCode
    BY DEF Codes, NoCode
  <2>2. Pending(c)' = Pending(c)
    BY <1>1, <2>1 DEF Pending
  <2> QED BY <1>1, <2>2 DEF Used
<1> QED BY <1>1, <1>2, <1>3, SigninsKept DEF SigninsInv

LEMMA SigninsLeaveOld ==
  ASSUME TypeInv, RequestsOK, OneHome, SigninsInv, lost' \in Nat, NEW r \in Requests, LeavesOld(r)
  PROVE  SigninsInv'
<1> DEFINE b == post[r].by
           k == post[r].key
<1>1. /\ signins' = signins /\ lost' = Losing(r, k)
      /\ \A s \in Requests \ {r} : post'[s] = post[s]
      /\ post[r].pc # "respond" /\ post'[r].pc = "respond" /\ post'[r].by = b
      /\ b \in Live(post[r].was)
  BY DEF LeavesOld, SameCounts, Others
<1>2. b \in Codes /\ k \in Keys
  <2>1. b \in Codes
    BY <1>1, LiveTypes
  <2>2. k # NoKey
    BY <1>1 DEF RequestsOK, RequestOK
  <2> QED BY <2>1, <2>2, RequestType DEF Post
<1>3. /\ sessions'[k] = None /\ \A j \in Keys \ {k} : sessions'[j] = sessions[j]
      /\ \A j \in Keys : Live(sessions'[j]) \subseteq Live(sessions[j])
  BY <1>2, NoLive DEF LeavesOld, TypeInv, StoredOK
<1>4. lost <= lost'
  BY <1>1, LosingType
<1>5. ASSUME NEW c \in Codes, c # b
      PROVE  /\ Used(c)' <= 1 + lost'
             /\ (\E j \in Keys : c \in Live(sessions'[j])) => Used(c)' <= lost'
  <2>1. Pending(c)' = Pending(c)
    BY <1>1, <1>5 DEF Pending
  <2>2. Used(c)' = Used(c)
    BY <1>1, <2>1 DEF Used
  <2> QED BY <1>3, <1>4, <2>2, SigninsKept
<1>6. ASSUME NEW c \in Codes, c = b PROVE Used(c)' <= 1 + lost'
  <2>1. Pending(c)' = Pending(c) \cup {r} /\ r \notin Pending(c)
    BY <1>1, <1>6 DEF Pending
  <2>2. Cardinality(Pending(c)') = Cardinality(Pending(c)) + 1
    BY <2>1, PendingFinite, FS_AddElement
  <2>3. Used(c)' = Used(c) + 1
    <3>1. Cardinality(Pending(c)) \in Nat /\ signins[c] \in Nat
      BY PendingFinite DEF TypeInv, CountersOK
    <3> QED BY <1>1, <2>2, <3>1 DEF Used
  <2>4. Used(c) \in Nat /\ lost \in Nat /\ Used(c) <= 1 + lost
    BY UsedNat DEF TypeInv, CountersOK, SigninsInv
  <2>5. CASE sessions[k] = post[r].was
    <3>1. Used(c) <= lost /\ lost' = lost
      BY <1>1, <1>2, <1>6, <2>5 DEF SigninsInv, Losing
    <3> HIDE DEF b, k
    <3> QED BY <2>3, <2>4, <3>1
  <2>6. CASE sessions[k] # post[r].was
    <3>1. lost' = lost + 1
      BY <1>1, <2>6 DEF Losing
    <3> HIDE DEF b, k
    <3> QED BY <2>3, <2>4, <3>1
  <2> QED BY <2>5, <2>6
<1>7. ASSUME NEW c \in Codes, c = b, NEW j \in Keys PROVE c \notin Live(sessions'[j])
  <2>1. SUFFICES ASSUME c \in Live(sessions'[j]) PROVE FALSE
    OBVIOUS
  <2>2. j # k /\ c \in Live(sessions[j])
    BY <1>3, <2>1, NoLive
  <2> QED BY <1>1, <1>7, <2>2 DEF OneHome
<1>8. ASSUME NEW c \in Codes
      PROVE  /\ Used(c)' <= 1 + lost'
             /\ (\E j \in Keys : c \in Live(sessions'[j])) => Used(c)' <= lost'
  BY <1>5, <1>6, <1>7
<1> QED BY <1>8 DEF SigninsInv

LEMMA SigninsSave ==
  ASSUME TypeInv, RequestsOK, OneHome, FreshOK, SigninsInv, lost' \in Nat, NEW r \in Requests, Saves(r)
  PROVE  SigninsInv'
<1> DEFINE d == post[r].data
           w == post[r].was
           b == post[r].by
<1>1. PICK k \in Keys : /\ post[r].key # NoKey => k = post[r].key
                        /\ sessions' = [sessions EXCEPT ![k] = d]
                        /\ lost' = Losing(r, k)
  BY DEF Saves
<1>2. /\ \A s \in Requests \ {r} : post'[s] = post[s]
      /\ post[r].pc = "respond" /\ post'[r] = Idle
      /\ signins' = Once(signins, b)
  BY DEF Saves, Others
<1>3. /\ lost' = IF sessions[k] = w THEN lost ELSE lost + 1
      /\ sessions'[k] = d /\ \A j \in Keys \ {k} : sessions'[j] = sessions[j]
  BY <1>1 DEF Losing, TypeInv, StoredOK
<1>4. ASSUME NEW c \in Codes PROVE Used(c)' = Used(c)
  <2>1. Idle.pc # "respond" /\ b \in Codes \cup {NoCode} /\ signins \in [Codes -> Nat]
    BY IdleFacts, RequestType DEF Post, TypeInv, CountersOK
  <2>2. signins'[c] = IF c = b THEN signins[c] + 1 ELSE signins[c]
    BY <1>2, <2>1, OnceType
  <2>3. signins[c] \in Nat /\ Cardinality(Pending(c)) \in Nat
    BY <2>1, PendingFinite
  <2>4. CASE c = b
    <3>1. Pending(c)' = Pending(c) \ {r} /\ r \in Pending(c)
      BY <1>2, <2>1, <2>4 DEF Pending
    <3>2. Cardinality(Pending(c)') = Cardinality(Pending(c)) - 1
      BY <3>1, PendingFinite, FS_RemoveElement
    <3> HIDE DEF b
    <3> QED BY <2>2, <2>3, <2>4, <3>2 DEF Used
  <2>5. CASE c # b
    <3>1. Pending(c)' = Pending(c)
      BY <1>2, <2>1, <2>5 DEF Pending
    <3> QED BY <2>2, <2>5, <3>1 DEF Used
  <2> QED BY <2>4, <2>5
<1>5. lost \in Nat /\ lost <= lost'
  BY <1>3 DEF TypeInv, CountersOK
<1>6. ASSUME NEW c \in Codes PROVE Used(c) \in Nat /\ Used(c) <= 1 + lost
  BY UsedNat DEF SigninsInv
<1>7. ASSUME NEW c \in Codes, NEW j \in Keys, c \in Live(sessions'[j])
      PROVE  Used(c) <= lost'
  <2>1. CASE c \in Live(sessions[j])
    <3>1. Used(c) <= lost
      BY <2>1 DEF SigninsInv
    <3> QED BY <1>5, <1>6, <3>1
  <2>2. CASE c \notin Live(sessions[j])
    <3>1. j = k /\ c \in Live(d)
      BY <1>3, <1>7, <2>2
    <3>2. CASE c \in NewCodes(r)
      <4>1. signins[c] = 0 /\ Pending(c) = {}
        BY <3>2 DEF FreshOK, Pending
      <4>2. Cardinality(Pending(c)) = 0
        BY <4>1, FS_EmptySet
      <4> QED BY <4>1, <4>2 DEF Used
    <3>3. CASE c \in Live(w)
      <4>1. sessions[k] # w
        BY <2>2, <3>1, <3>3
      <4> QED BY <1>3, <1>6, <4>1, <1>5
    <3> QED BY <3>1, <3>2, <3>3 DEF NewCodes
  <2> QED BY <2>1, <2>2
<1>8. ASSUME NEW c \in Codes PROVE Used(c)' <= 1 + lost'
  BY <1>4, <1>5, <1>6
<1> QED BY <1>4, <1>7, <1>8 DEF SigninsInv

LEMMA SigninsNext ==
  TypeInv /\ TypeInv' /\ RequestsOK /\ OneHome /\ FreshOK /\ SigninsInv /\ [Next]_vars => SigninsInv'
<1> SUFFICES ASSUME TypeInv, TypeInv', RequestsOK, OneHome, FreshOK, SigninsInv, [Next]_vars
             PROVE  SigninsInv'
    OBVIOUS
<1>1. lost' \in Nat
  BY DEF TypeInv, CountersOK
<1>2. CASE Next
  BY <1>1, <1>2, NextKinds, SigninsGoOn, SigninsLeaveOld, SigninsSave
<1>3. CASE UNCHANGED vars
  <2>1. UNCHANGED <<post, signins, lost, sessions>>
    BY <1>3 DEF vars, stored, history
  <2> QED BY <2>1 DEF SigninsInv, Used, Pending
<1> QED BY <1>2, <1>3

LEMMA SigninsInit == Init => SigninsInv
<1> SUFFICES ASSUME Init PROVE SigninsInv
    OBVIOUS
<1>1. /\ lost = 0 /\ signins = [c \in Codes |-> 0]
      /\ \A k \in Keys : sessions[k] = None
      /\ \A r \in Requests : post[r] = Idle
  BY DEF Init
<1>2. ASSUME NEW c \in Codes PROVE Used(c) = 0
  <2>1. Pending(c) = {}
    BY <1>1, IdleFacts DEF Pending
  <2> QED BY <1>1, <2>1, FS_EmptySet DEF Used
<1> QED BY <1>1, <1>2, NoLive DEF SigninsInv

(* A code signs in once, and once more for each time a request saves over,  *)
(* or deletes, a session that changed since it loaded it: only requests of  *)
(* the same session that overlap can both sign in with one code.            *)
THEOREM OneSigninPerCode == Spec => []CodeSignsInOnce
<1>1. SigninsInv /\ PasscodeInv /\ PasscodeInv' /\ [Next]_vars => SigninsInv'
  BY SigninsNext DEF PasscodeInv
<1>2. SigninsInv /\ PasscodeInv => CodeSignsInOnce
  <2> SUFFICES ASSUME SigninsInv, TypeInv, NEW c \in Codes PROVE signins[c] <= 1 + lost
      BY DEF PasscodeInv, CodeSignsInOnce
  <2>1. signins[c] \in Nat /\ Cardinality(Pending(c)) \in Nat /\ lost \in Nat
    BY PendingFinite DEF TypeInv, CountersOK
  <2>2. signins[c] + Cardinality(Pending(c)) <= 1 + lost
    BY DEF SigninsInv, Used
  <2> QED BY <2>1, <2>2
<1> QED BY <1>1, <1>2, SigninsInit, PasscodeInvariant, PTL DEF Spec

-----------------------------------------------------------------------------
(* Mails.                                                                  *)

LEMMA MostMailsFacts ==
  ASSUME NEW n \in Nat
  PROVE  /\ MostMails(n) \in Nat /\ MostMails(n + 1) = MostMails(n) + DailyLimit
         /\ DailyLimit \in Nat /\ MostMails(0) = 0
         /\ DailyLimit + MostMails(n) = DailyLimit * (1 + n)
BY PasscodeAssumption DEF MostMails

LEMMA ToMailFinite ==
  ASSUME NEW e
  PROVE  IsFiniteSet(ToMail(e)) /\ Cardinality(ToMail(e)) \in Nat
<1>1. ToMail(e) \subseteq Requests /\ IsFiniteSet(Requests)
  BY PasscodeAssumption DEF ToMail
<1> QED BY <1>1, FS_Subset, FS_CardinalityType

LEMMA MailTotals ==
  ASSUME TypeInv, MailedInv, NEW e \in Emails
  PROVE  /\ counted[e] \in Nat /\ counted[e] <= DailyLimit /\ mailed[e] \in Nat
         /\ Cardinality(ToMail(e)) \in Nat /\ lostCounts \in Nat
         /\ mailed[e] + Cardinality(ToMail(e)) <= counted[e] + MostMails(lostCounts)
BY ToMailFinite DEF TypeInv, StoredOK, CountersOK, MailedInv

(* Steps that neither count nor mail.                                      *)
LEMMA MailedKept ==
  ASSUME TypeInv, MailedInv, NEW r \in Requests, Others(r),
         UNCHANGED <<counted, mailed, lostCounts>>,
         post[r].pc # "mail", post'[r].pc # "mail",
         post'[r].pc = "setCount" => post'[r].count < DailyLimit
  PROVE  MailedInv'
<1>1. ASSUME NEW e \in Emails PROVE ToMail(e)' = ToMail(e)
  BY DEF ToMail, Others
<1> QED BY <1>1 DEF MailedInv, Others

LEMMA MailedSetCount ==
  ASSUME TypeInv, MailedInv, NEW r \in Requests, SetCount(r)
  PROVE  MailedInv'
<1> DEFINE n == post[r].count
<1>1. /\ Others(r) /\ post[r].pc = "setCount" /\ post'[r].pc = "mail"
      /\ post'[r].email = post[r].email /\ post[r].email \in Emails /\ mailed' = mailed
      /\ n \in Nat /\ n < DailyLimit
  BY SetCountChanges, RequestType DEF SetCount, Changes, MailedInv, Post
<1>2. /\ counted' = [counted EXCEPT ![post[r].email] = n + 1]
      /\ lostCounts' = IF counted[post[r].email] = n THEN lostCounts ELSE lostCounts + 1
  BY DEF SetCount
<1>3. ASSUME NEW f \in Emails
      PROVE  counted'[f] <= DailyLimit
             /\ mailed'[f] + Cardinality(ToMail(f)') <= counted'[f] + MostMails(lostCounts')
  <2>1. /\ counted[f] \in Nat /\ counted[f] <= DailyLimit /\ mailed[f] \in Nat
        /\ Cardinality(ToMail(f)) \in Nat /\ lostCounts \in Nat
        /\ mailed[f] + Cardinality(ToMail(f)) <= counted[f] + MostMails(lostCounts)
    BY MailTotals
  <2>2. /\ MostMails(lostCounts) \in Nat /\ DailyLimit \in Nat
        /\ MostMails(lostCounts + 1) = MostMails(lostCounts) + DailyLimit
    BY <2>1, MostMailsFacts
  <2>3. CASE f = post[r].email
    <3>1. ToMail(f)' = ToMail(f) \cup {r} /\ r \notin ToMail(f)
      BY <1>1, <2>3 DEF ToMail, Others
    <3>2. Cardinality(ToMail(f)') = Cardinality(ToMail(f)) + 1
      BY <3>1, ToMailFinite, FS_AddElement
    <3>3. counted'[f] = n + 1
      BY <1>2, <2>3 DEF TypeInv, StoredOK
    <3>4. lostCounts' = IF counted[f] = n THEN lostCounts ELSE lostCounts + 1
      BY <1>2, <2>3
    <3>5. mailed'[f] = mailed[f]
      BY <1>1
    <3>6. n \in Nat /\ n < DailyLimit
      BY <1>1
    <3> HIDE DEF n
    <3> QED BY <2>1, <2>2, <3>2, <3>3, <3>4, <3>5, <3>6
  <2>4. CASE f # post[r].email
    <3>1. ToMail(f)' = ToMail(f)
      BY <1>1, <2>4 DEF ToMail, Others
    <3>2. counted'[f] = counted[f] /\ mailed'[f] = mailed[f]
      BY <1>1, <1>2, <2>4 DEF TypeInv, StoredOK
    <3>3. lostCounts' = lostCounts \/ lostCounts' = lostCounts + 1
      BY <1>2
    <3> QED BY <2>1, <2>2, <3>1, <3>2, <3>3
  <2> QED BY <2>3, <2>4
<1>4. \A s \in Requests : post'[s].pc = "setCount" => post'[s].count < DailyLimit
  BY <1>1 DEF MailedInv, Others
<1> QED BY <1>3, <1>4 DEF MailedInv

LEMMA MailedMail ==
  ASSUME TypeInv, MailedInv, NEW r \in Requests, Mail(r) \/ MailFails(r)
  PROVE  MailedInv'
<1>1. /\ Others(r) /\ post[r].pc = "mail" /\ post'[r].pc \notin {"mail", "setCount"}
      /\ post[r].email \in Emails
  BY LeavesAll, MailChanges, RequestType, IdleFacts DEF MailFails, At, Changes
<1>2. /\ counted' = counted /\ lostCounts' = lostCounts
      /\ \A f \in Emails : mailed'[f] = mailed[f] \/ (f = post[r].email /\ mailed'[f] = mailed[f] + 1)
  BY DEF Mail, MailFails, stored, history, TypeInv, CountersOK
<1>3. ASSUME NEW f \in Emails
      PROVE  mailed'[f] + Cardinality(ToMail(f)') <= counted[f] + MostMails(lostCounts)
  <2>1. /\ mailed[f] \in Nat /\ Cardinality(ToMail(f)) \in Nat
        /\ counted[f] \in Nat /\ MostMails(lostCounts) \in Nat
        /\ mailed[f] + Cardinality(ToMail(f)) <= counted[f] + MostMails(lostCounts)
    BY MailTotals, MostMailsFacts
  <2>2. CASE f = post[r].email
    <3>1. ToMail(f)' = ToMail(f) \ {r} /\ r \in ToMail(f)
      BY <1>1, <2>2 DEF ToMail, Others
    <3>2. Cardinality(ToMail(f)') = Cardinality(ToMail(f)) - 1
      BY <3>1, ToMailFinite, FS_RemoveElement
    <3>3. mailed'[f] = mailed[f] \/ mailed'[f] = mailed[f] + 1
      BY <1>2
    <3> QED BY <2>1, <3>2, <3>3
  <2>3. CASE f # post[r].email
    <3>1. ToMail(f)' = ToMail(f)
      BY <1>1, <2>3 DEF ToMail, Others
    <3>2. mailed'[f] = mailed[f]
      BY <1>2, <2>3
    <3> QED BY <2>1, <3>1, <3>2
  <2> QED BY <2>2, <2>3
<1>4. \A s \in Requests : post'[s].pc = "setCount" => post'[s].count < DailyLimit
  BY <1>1 DEF MailedInv, Others
<1> QED BY <1>2, <1>3, <1>4 DEF MailedInv

LEMMA MailedNext == TypeInv /\ MailedInv /\ [Next]_vars => MailedInv'
<1> SUFFICES ASSUME TypeInv, MailedInv, [Next]_vars PROVE MailedInv'
    OBVIOUS
<1>1. ASSUME NEW r \in Requests, Begin(r) PROVE MailedInv'
  <2>1. UNCHANGED <<counted, mailed, lostCounts>>
    BY <1>1 DEF Begin, stored, history
  <2> QED BY <1>1, <2>1, BeginChanges, MailedKept
<1>2. ASSUME NEW r \in Requests,
             \/ Flush(r) \/ Respond(r)
             \/ Leave(r) /\ ReadCount(r)
             \/ \E e \in Emails : \/ Refuse(r, e) \/ SignupFails(r, e)
                                  \/ \E c \in Codes : SendAgain(r, e, c)
      PROVE  MailedInv'
  <2>1. UNCHANGED <<counted, mailed, lostCounts>> /\ post[r].pc # "mail"
    BY <1>2 DEF Flush, Respond, ReadCount, Refuse, SignupFails, SendAgain, At, history
  <2>2. Others(r) /\ post'[r] = Idle
    BY <1>2, LeavesAll
  <2> QED BY <2>1, <2>2, IdleFacts, MailedKept
<1>3. ASSUME NEW r \in Requests, ReadCount(r) PROVE MailedInv'
  <2>1. UNCHANGED <<counted, mailed, lostCounts>>
    BY <1>3 DEF ReadCount, history
  <2> QED BY <1>2, <1>3, <2>1, ReadCountChanges, MailedKept DEF Changes
<1>4. ASSUME NEW r \in Requests,
             \/ Login(r) \/ DeleteOld(r)
             \/ \E e \in Emails : \/ SendNew(r, e) \/ SignupRefused(r, e) \/ Signup(r, e)
                                  \/ \E c \in Codes : VerifyWrong(r, e, c) \/ VerifyRight(r, e, c)
      PROVE  MailedInv'
  <2>1. UNCHANGED <<counted, mailed, lostCounts>>
    BY <1>4 DEF Login, DeleteOld, SendNew, SignupRefused, Signup, VerifyWrong, VerifyRight,
                stored, history
  <2>2. /\ Others(r) /\ post[r].pc \in {"login", "deleteOld", "view"}
        /\ post'[r].pc \in {"deleteOld", "respond", "count", "login", "flush"}
    <3>1. ASSUME NEW e \in Emails, NEW c \in Codes, VerifyRight(r, e, c)
          PROVE  /\ Others(r) /\ post[r].pc = "view"
                 /\ post'[r].pc \in {"login", "flush", "respond"}
      BY <3>1, VerifyRightChanges DEF Changes
    <3>2. ASSUME NEW e \in Emails, NEW c \in Codes, VerifyWrong(r, e, c)
          PROVE  Others(r) /\ post[r].pc = "view" /\ post'[r].pc = "respond"
      BY <3>2, VerifyWrongChanges DEF Changes
    <3>3. ASSUME NEW e \in Emails, SendNew(r, e) \/ SignupRefused(r, e) \/ Signup(r, e)
          PROVE  /\ Others(r) /\ post[r].pc = "view"
                 /\ post'[r].pc \in {"count", "login", "respond"}
      BY <3>3, SendNewChanges, SignupRefusedChanges, SignupChanges DEF Changes
    <3>4. ASSUME Login(r) \/ DeleteOld(r)
          PROVE  /\ Others(r) /\ post[r].pc \in {"login", "deleteOld"}
                 /\ post'[r].pc \in {"deleteOld", "respond"}
      BY <3>4, LoginChanges, DeleteOldChanges DEF Changes
    <3> QED BY <1>4, <3>1, <3>2, <3>3, <3>4
  <2> QED BY <2>1, <2>2, MailedKept
<1>5. CASE UNCHANGED vars
  BY <1>5 DEF MailedInv, ToMail, vars, stored, history
<1>6. ASSUME NEW r \in Requests, View(r) PROVE MailedInv'
  BY <1>2, <1>4, <1>6 DEF View
<1> QED BY <1>1, <1>2, <1>3, <1>4, <1>5, <1>6, MailedSetCount, MailedMail DEF Next

LEMMA MailedInit == Init => MailedInv
<1> SUFFICES ASSUME Init PROVE MailedInv
    OBVIOUS
<1>1. /\ lostCounts = 0 /\ \A e \in Emails : counted[e] = 0 /\ mailed[e] = 0
      /\ \A r \in Requests : post[r] = Idle
  BY DEF Init
<1>2. ASSUME NEW e \in Emails PROVE Cardinality(ToMail(e)) = 0
  <2>1. ToMail(e) = {}
    BY <1>1, IdleFacts DEF ToMail
  <2> QED BY <2>1, FS_EmptySet
<1>3. MostMails(0) = 0 /\ DailyLimit \in Nat
  BY MostMailsFacts
<1> QED BY <1>1, <1>2, <1>3, IdleFacts DEF MailedInv

(* No more than PASSCODE_DAILY_LIMIT codes are mailed to an email in a day, *)
(* and as many more for each request that writes a count over one that is   *)
(* not the one it read.                                                    *)
THEOREM MailsLimited == Spec => []DailyLimited
<1>1. Spec => [](TypeInv /\ MailedInv)
  BY InitTypes, NextTypes, MailedInit, MailedNext, PTL DEF Spec
<1>2. TypeInv /\ MailedInv => DailyLimited
  <2> SUFFICES ASSUME TypeInv, MailedInv, NEW e \in Emails
               PROVE  mailed[e] <= DailyLimit * (1 + lostCounts)
      BY DEF DailyLimited
  <2>1. /\ mailed[e] \in Nat /\ Cardinality(ToMail(e)) \in Nat /\ counted[e] \in Nat
        /\ mailed[e] + Cardinality(ToMail(e)) <= counted[e] + MostMails(lostCounts)
        /\ counted[e] <= DailyLimit /\ lostCounts \in Nat
    BY MailTotals
  <2>2. /\ MostMails(lostCounts) \in Nat /\ DailyLimit \in Nat
        /\ DailyLimit + MostMails(lostCounts) = DailyLimit * (1 + lostCounts)
    BY <2>1, MostMailsFacts
  <2>3. mailed[e] <= DailyLimit + MostMails(lostCounts)
    BY <2>1, <2>2
  <2> QED BY <2>2, <2>3
<1> QED BY <1>1, <1>2, PTL

=============================================================================
