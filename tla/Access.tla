-------------------------------- MODULE Access --------------------------------
(***************************************************************************)
(* Access levels as text (gateway/access.go).                              *)
(*                                                                         *)
(* A level is an int32.  Some levels have names, from "max" down to "min"; *)
(* another level is written as the name next to it, towards zero, and what *)
(* is to be added to or subtracted from that.  Levels are stored as text   *)
(* in the configuration file, and users type them in commands.             *)
(*                                                                         *)
(* A text is the index of its name, matched whatever its case, and the     *)
(* number after it, 0 if there is none.  The name of 0 is the empty text,  *)
(* so a plain number is a text of this form too.                           *)
(***************************************************************************)
EXTENDS Integers

CONSTANTS MaxInt32,   \* 2^31 - 1 in the code
          NLevels,    \* the number of named levels
          ConLevels   \* ConLevels[i]: the i-th of them, from the highest down

Int32 == (-MaxInt32 - 1)..MaxInt32
Name == 1..NLevels
Text == [name : Name, mod : Int]

ASSUME MaxAssumption == MaxInt32 \in Nat /\ NLevels \in Nat
ASSUME LevelsAssumption ==
  /\ ConLevels \in [Name -> Int32]
  /\ \A i, j \in Name : i < j => ConLevels[i] > ConLevels[j]
  /\ \A l \in {MaxInt32, 0, -1, -MaxInt32 - 1} : \E i \in Name : ConLevels[i] = l

Error == MaxInt32 + 1  \* no level

(* Addition of int32.                                                      *)
Wrap(n) == ((n + MaxInt32 + 1) % (2 * (MaxInt32 + 1))) - (MaxInt32 + 1)

Written(l, i) == [name |-> i, mod |-> l - ConLevels[i]]

(* Mutant: the loop for levels below zero starts at the highest name too.  *)
String_FromTop(l) ==
  IF l >= 0
    THEN Written(l, CHOOSE i \in Name : ConLevels[i] <= l /\ \A j \in Name : ConLevels[j] <= l => i <= j)
    ELSE Written(l, CHOOSE i \in Name : ConLevels[i] >= l /\ \A j \in Name : ConLevels[j] >= l => i <= j)

(* The first name that is not above l, or for l < 0 the last not below.    *)
String(l) ==
  IF l >= 0
    THEN Written(l, CHOOSE i \in Name : ConLevels[i] <= l /\ \A j \in Name : ConLevels[j] <= l => i <= j)
    ELSE Written(l, CHOOSE i \in Name : ConLevels[i] >= l /\ \A j \in Name : ConLevels[j] >= l => j <= i)

(* ParseInt fails for numbers beyond 32 bits; the sum wraps around.        *)
UnmarshalText(t) ==
  IF t.mod \in Int32 THEN Wrap(ConLevels[t.name] + t.mod) ELSE Error

-----------------------------------------------------------------------------

(* Every level comes back the same from its text, up to the ends of the    *)
(* 32-bit range: no number of a text is too large to be parsed, and        *)
(* nothing wraps.                                                          *)
LevelSurvives == \A l \in Int32 : UnmarshalText(String(l)) = l

(* A level below zero is never written with a name that is not: what is    *)
(* read as a rank in the configuration is one.                             *)
SignShows == \A l \in Int32 : (l < 0) = (ConLevels[String(l).name] < 0)

(* What is parsed is a level, whatever is typed.                           *)
ParsedIsLevel == \A t \in Text : UnmarshalText(t) \in Int32 \cup {Error}

=============================================================================
