------------------------------ MODULE EmailPatterns ------------------------------
(***************************************************************************)
(* The email patterns of user groups (models.py, UserEmail and its          *)
(* subclasses): which emails a pattern matches, and the loop that decides   *)
(* whether one pattern contains another, which the validation of a group    *)
(* relies on (UserGroup.clean).                                             *)
(*                                                                         *)
(* A pattern is a sequence of characters; "*" stands for any number of      *)
(* letters, digits and the characters ".", "_", "-", "+" and "#", which are *)
(* the Letters here.  An email can have Others too, such as an apostrophe.  *)
(* Regular expressions, whose containment the code leaves open (None), are  *)
(* left out, and so are the characters they give a meaning to, which a      *)
(* pattern with "*" does not quote (all but ".").                           *)
(***************************************************************************)
EXTENDS Integers, Sequences

CONSTANTS
  Letters,       \* the characters of emails a "*" stands for
  Others,        \* the other characters of the local part of an email
  MaxLocal,      \* bound: length of the local part of a pattern
  MaxEmail       \* bound: length of the local part of an email

Words(chars, low, high) == UNION {[1..n -> chars] : n \in low..high}

At == <<"@">>

AtDomain(locals, domains) == {l \o At \o d : l \in locals, d \in domains}

(* Every pattern and every email has a domain of one character.            *)
Patterns ==
  {<<"*">>} \cup AtDomain(Words(Letters \cup Others \cup {"*"}, 0, MaxLocal),
                         Words(Letters \cup {"*"}, 1, 1))

Addresses == AtDomain(Words(Letters \cup Others, 0, MaxEmail), Words(Letters, 1, 1))

Plain(email) == \A i \in DOMAIN email : email[i] \notin Others

Has(word, char) == \E i \in DOMAIN word : word[i] = char

(* get_instance                                                            *)
IsAll(p)    == \A i \in DOMAIN p : p[i] \in {"*", "@"} /\ (p[i] = "@" => i > 1)
IsDomain(p) == ~ IsAll(p) /\ p[1] = "@"
IsExact(p)  == ~ IsAll(p) /\ p[1] # "@" /\ ~ Has(p, "*")
IsGlob(p)   == ~ IsAll(p) /\ p[1] # "@" /\ Has(p, "*")

(* The domain of an email pattern can't contain "*".                       *)
Valid == {p \in Patterns : IsDomain(p) => ~ Has(p, "*")}

EndsWith(word, end) ==
  Len(end) <= Len(word) /\ SubSeq(word, Len(word) - Len(end) + 1, Len(word)) = end

(* Where in the email what the first characters of a pattern match can end: *)
(* a "*" takes letters, any number of them.                                 *)
Ends(p, email) ==
  LET ends[i \in 0..Len(p)] ==
        IF i = 0 THEN {0}
        ELSE LET before == ends[i - 1]
             IN  IF p[i] = "*"
                 THEN {j \in 0..Len(email) :
                         \E k \in before : k <= j /\ \A n \in (k + 1)..j : email[n] \in Letters}
                 ELSE {j \in 1..Len(email) : j - 1 \in before /\ email[j] = p[i]}
  IN  ends

(* The regular expression a pattern with "*" is turned into.               *)
GlobMatches(p, email) == Len(email) \in Ends(p, email)[Len(p)]

Matches(p, email) ==
  \/ IsAll(p)
  \/ IsExact(p) /\ p = email
  \/ IsDomain(p) /\ EndsWith(email, p)
  \/ IsGlob(p) /\ GlobMatches(p, email)

VARIABLES
  container, contained,   \* the patterns that are compared
  word,                   \* the contained pattern, as the loop reads it
  pIndex, star, cIndex,   \* p_index, p_star_index and c_index, from 1
  result                  \* the answer, or "open"

vars == <<container, contained, word, pIndex, star, cIndex, result>>

NoStar == 0

(* contain of the other classes, and the branches before the loop.         *)
Straight(p, c) ==
  CASE IsAll(p)    -> TRUE
    [] IsExact(p)  -> p = c
    [] IsDomain(p) -> IF IsAll(c) THEN FALSE ELSE IF IsDomain(c) THEN p = c ELSE EndsWith(c, p)
    [] IsGlob(p)   -> IF IsAll(c) THEN FALSE ELSE GlobMatches(p, c)

NeedsLoop(p, c) == IsGlob(p) /\ (IsGlob(c) \/ IsDomain(c))

Init ==
  /\ container \in Valid /\ contained \in Valid
  /\ word = IF IsDomain(contained) THEN <<"*">> \o contained ELSE contained
  /\ pIndex = 1 /\ star = NoStar /\ cIndex = 1
  /\ result = IF NeedsLoop(container, contained) THEN "open"
              ELSE IF Straight(container, contained) THEN "yes" ELSE "no"

-----------------------------------------------------------------------------
PChar == IF pIndex <= Len(container) THEN container[pIndex] ELSE "none"
CChar == word[cIndex]

Looping == result = "open" /\ cIndex <= Len(word)

(* A "*" at the end of the pattern takes the rest, whatever it is.         *)
StarIsLast == star = Len(container)

Answer(yes) ==
  /\ result' = IF yes THEN "yes" ELSE "no"
  /\ UNCHANGED <<container, contained, word, pIndex, star, cIndex>>

Go(p, s, c) ==
  /\ pIndex' = p /\ star' = s /\ cIndex' = c
  /\ UNCHANGED <<container, contained, word, result>>

LastStar == Looping /\ StarIsLast /\ Answer(TRUE)

ReadStar ==
  /\ Looping /\ ~ StarIsLast /\ PChar = "*"
  /\ Go(pIndex + 1, pIndex, IF CChar = "*" THEN cIndex + 1 ELSE cIndex)

StarOfOther ==
  /\ Looping /\ ~ StarIsLast /\ PChar # "*" /\ CChar = "*"
  /\ IF star # NoStar THEN Go(star + 1, star, cIndex + 1) ELSE Answer(FALSE)

SameChar ==
  /\ Looping /\ ~ StarIsLast /\ PChar # "*" /\ CChar # "*" /\ PChar = CChar
  /\ Go(pIndex + 1, star, cIndex + 1)

OtherChar ==
  /\ Looping /\ ~ StarIsLast /\ PChar # "*" /\ CChar # "*" /\ PChar # CChar
  /\ IF star # NoStar THEN Go(star + 1, star, cIndex + 1) ELSE Answer(FALSE)

LoopEndsContained == result = "open" /\ cIndex > Len(word) /\ Answer(TRUE)

LoopEnds == result = "open" /\ cIndex > Len(word) /\ Answer(pIndex > Len(container))

Next == LastStar \/ ReadStar \/ StarOfOther \/ SameChar \/ OtherChar \/ LoopEnds

Spec == Init /\ [][Next]_vars

-----------------------------------------------------------------------------
TypeOK ==
  /\ result \in {"open", "yes", "no"}
  /\ pIndex \in 1..(Len(container) + 1) /\ cIndex \in 1..(Len(word) + 1)

(* A pattern that is said to contain another one matches all of its emails; *)
(* where the loop said so, all that have no character a "*" does not take:  *)
(* the loop compares the patterns as text, and takes every character for    *)
(* one of a "*".                                                           *)
ContainsIsSound ==
  result = "yes" =>
    \A e \in Addresses :
      Matches(contained, e) =>
        Matches(container, e) \/ (NeedsLoop(container, contained) /\ ~ Plain(e))

=============================================================================
