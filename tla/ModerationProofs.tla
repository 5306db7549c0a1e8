--------------------------- MODULE ModerationProofs ---------------------------
(***************************************************************************)
(* Theorems about Access and Moderation.                                   *)
(*                                                                         *)
(* For any number of bits and any named levels that include the ends of    *)
(* the range, 0 and -1, a level that is written and parsed again is the    *)
(* same level.                                                             *)
(*                                                                         *)
(* The levels that Moderation stores survive in the configuration file,    *)
(* for any users, levels, commands and aliases: what is stored is a level  *)
(* at all, because a command that was typed with no level has nobody to    *)
(* give it to; and every level survives.                                   *)
(*                                                                         *)
(* When all is quiet, levels and bans agree, and who was to be kicked is   *)
(* gone.  Both follow what is on its way: the reports the bot has not read *)
(* end with the state of the server, and where a level differs from it, an *)
(* unread report will change the level or a line will change the server.   *)
(*                                                                         *)
(* Every command ends after a bounded number of steps, and never waits.    *)
(***************************************************************************)
EXTENDS Moderation, FiniteSetTheorems, SequenceTheorems, WellFoundedInduction, TLAPS

(* A set of indices that is not empty has a least and a greatest one.      *)
LEMMA Least ==
  ASSUME NEW S \in SUBSET Nat, S # {}
  PROVE  \E i \in S : \A j \in S : i <= j
<1>1. PICK i \in S : \A j \in S : <<j, i>> \notin OpToRel(<, Nat)
  BY NatLessThanWellFounded, WFMin, Zenon
<1>2. \A j \in S : ~(j < i)
  BY <1>1, Zenon DEF OpToRel
<1>3. \A j \in S : i <= j
  BY <1>2
<1>4. QED
  BY <1>3

LEMMA Greatest ==
  ASSUME NEW n \in Nat, NEW S \in SUBSET (1..n), S # {}
  PROVE  \E i \in S : \A j \in S : j <= i
<1> DEFINE T == {k \in 0..n : n - k \in S}
<1>1. T \in SUBSET Nat
  OBVIOUS
<1>2. T # {}
  <2>1. PICK i \in S : TRUE
    OBVIOUS
  <2>2. i \in 1..n /\ n - (n - i) = i /\ n - i \in 0..n
    BY <2>1
  <2>3. n - i \in T
    BY <2>2
  <2>4. QED
    BY <2>3
<1>3. PICK k \in T : \A m \in T : k <= m
  <2> HIDE DEF T
  <2>1. QED
    BY <1>1, <1>2, Least
<1>4. ASSUME NEW j \in S  PROVE  j <= n - k
  <2>1. j \in 1..n /\ n - (n - j) = j /\ n - j \in 0..n
    OBVIOUS
  <2>2. n - j \in T
    BY <2>1
  <2>3. k <= n - j
    BY <1>3, <2>2
  <2>4. QED
    BY <2>1, <2>3, <1>3
<1>5. QED
  BY <1>3, <1>4

-----------------------------------------------------------------------------

LEMMA Bounds ==
  /\ MaxInt32 \in Nat /\ NLevels \in Nat
  /\ \A i \in Name : ConLevels[i] \in Int32 /\ ConLevels[i] \in Int /\ i \in Int
  /\ Int32 \subseteq Int
  BY MaxAssumption, LevelsAssumption DEF Int32, Name

(* A sum that fits in 32 bits does not wrap.                               *)
LEMMA WrapFits ==
  ASSUME NEW l \in Int32
  PROVE  Wrap(l) = l
<1>1. l + MaxInt32 + 1 \in 0..(2 * (MaxInt32 + 1) - 1)
  BY MaxAssumption DEF Int32
<1>2. \A m \in Nat, k \in Nat : k < m => k % m = k
  OBVIOUS
<1>3. (l + MaxInt32 + 1) % (2 * (MaxInt32 + 1)) = l + MaxInt32 + 1
  BY <1>1, <1>2, MaxAssumption
<1>4. QED
  BY <1>1, <1>3, MaxAssumption DEF Wrap, Int32

(* The name String chooses is on the same side of zero as the level, and   *)
(* not farther from zero: the rest fits in 32 bits.                        *)
LEMMA StringShape ==
  ASSUME NEW l \in Int32
  PROVE  /\ String(l) \in Text
         /\ String(l).mod \in Int32
         /\ ConLevels[String(l).name] + String(l).mod = l
         /\ (l < 0) = (ConLevels[String(l).name] < 0)
<1>1. CASE l >= 0
  <2> DEFINE S == {i \in Name : ConLevels[i] <= l}
  <2>1. PICK z \in Name : ConLevels[z] = 0
    BY LevelsAssumption
  <2>2. S \in SUBSET Nat /\ z \in S
    BY <1>1, <2>1, Bounds DEF Name, Int32
  <2>3. \E i \in S : \A j \in S : i <= j
    <3> HIDE DEF S
    <3>1. QED
      BY <2>2, Least
  <2>4. \E i \in Name : ConLevels[i] <= l /\ \A j \in Name : ConLevels[j] <= l => i <= j
    BY <2>3
  <2> DEFINE c == CHOOSE i \in Name : ConLevels[i] <= l /\ \A j \in Name : ConLevels[j] <= l => i <= j
  <2>5. c \in Name /\ ConLevels[c] <= l /\ \A j \in Name : ConLevels[j] <= l => c <= j
    BY <2>4
  <2>6. String(l) = [name |-> c, mod |-> l - ConLevels[c]]
    BY <1>1 DEF String, Written
  <2> HIDE DEF c
  <2>7. ConLevels[c] >= 0
    <3>1. c <= z
      BY <1>1, <2>1, <2>5, Bounds DEF Int32
    <3>2. CASE c = z
      BY <3>2, <2>1
    <3>3. CASE c # z
      <4>1. c < z
        BY <3>1, <3>3, <2>1, <2>5, Bounds
      <4>2. ConLevels[c] > ConLevels[z]
        BY <4>1, <2>1, <2>5, LevelsAssumption
      <4>3. QED
        BY <4>2, <2>1, <2>5, Bounds
    <3>4. QED
      BY <3>2, <3>3
  <2>8. l - ConLevels[c] \in Int32 /\ ConLevels[c] + (l - ConLevels[c]) = l
    BY <2>5, <2>7, Bounds DEF Int32
  <2>9. QED
    BY <1>1, <2>5, <2>6, <2>7, <2>8, Bounds DEF Text, Int32
<1>2. CASE ~(l >= 0)
  <2> DEFINE S == {i \in Name : ConLevels[i] >= l}
  <2>1. PICK z \in Name : ConLevels[z] = -1
    BY LevelsAssumption
  <2>2. S \in SUBSET (1..NLevels) /\ z \in S
    BY <1>2, <2>1, Bounds DEF Name, Int32
  <2>3. \E i \in S : \A j \in S : j <= i
    <3> HIDE DEF S
    <3>1. QED
      BY <2>2, Greatest, Bounds
  <2>4. \E i \in Name : ConLevels[i] >= l /\ \A j \in Name : ConLevels[j] >= l => j <= i
    BY <2>3
  <2> DEFINE c == CHOOSE i \in Name : ConLevels[i] >= l /\ \A j \in Name : ConLevels[j] >= l => j <= i
  <2>5. c \in Name /\ ConLevels[c] >= l /\ \A j \in Name : ConLevels[j] >= l => j <= c
    BY <2>4
  <2>6. String(l) = [name |-> c, mod |-> l - ConLevels[c]]
    BY <1>2 DEF String, Written
  <2> HIDE DEF c
  <2>7. ConLevels[c] <= -1
    <3>1. z <= c
      BY <1>2, <2>1, <2>5, Bounds DEF Int32
    <3>2. CASE c = z
      BY <3>2, <2>1
    <3>3. CASE c # z
      <4>1. z < c
        BY <3>1, <3>3, <2>1, <2>5, Bounds
      <4>2. ConLevels[z] > ConLevels[c]
        BY <4>1, <2>1, <2>5, LevelsAssumption
      <4>3. QED
        BY <4>2, <2>1, <2>5, Bounds
    <3>4. QED
      BY <3>2, <3>3
  <2>8. l - ConLevels[c] \in Int32 /\ ConLevels[c] + (l - ConLevels[c]) = l
    BY <1>2, <2>5, <2>7, Bounds DEF Int32
  <2>9. QED
    BY <1>2, <2>5, <2>6, <2>7, <2>8, Bounds DEF Text, Int32
<1>3. QED
  BY <1>1, <1>2

(* Parsing undoes writing (MarshalText and UnmarshalText of access.go).    *)
LEMMA ParseWritten ==
  ASSUME NEW l \in Int32
  PROVE  UnmarshalText(String(l)) = l
  BY StringShape, WrapFits DEF UnmarshalText

-----------------------------------------------------------------------------

LEMMA WrapType ==
  ASSUME NEW n \in Int
  PROVE  Wrap(n) \in Int32
<1>1. \A a \in Int, b \in Nat \ {0} : a % b \in 0..(b - 1)
  OBVIOUS
<1>2. n + MaxInt32 + 1 \in Int /\ 2 * (MaxInt32 + 1) \in Nat \ {0}
  BY MaxAssumption
<1>3. (n + MaxInt32 + 1) % (2 * (MaxInt32 + 1)) \in 0..(2 * (MaxInt32 + 1) - 1)
  BY <1>1, <1>2
<1>4. QED
  BY <1>3, MaxAssumption DEF Wrap, Int32

LEMMA ParseType ==
  ASSUME NEW t \in Text, UnmarshalText(t) # Error
  PROVE  UnmarshalText(t) \in Int32
<1>1. t.name \in Name /\ t.mod \in Int
  BY DEF Text
<1>2. ConLevels[t.name] + t.mod \in Int
  BY <1>1, Bounds
<1>3. QED
  BY <1>2, WrapType DEF UnmarshalText

(* Every level comes back the same from its text (String and UnmarshalText *)
(* of access.go), for any width of integers.                               *)
THEOREM LevelsSurvive == LevelSurvives
  BY ParseWritten DEF LevelSurvives

(* The name in the text of a level shows on which side of zero it is.      *)
THEOREM SignsShow == SignShows
  BY StringShape DEF SignShows

(* UnmarshalText returns an int32, whatever is typed (max+1 wraps around). *)
THEOREM ParsedLevels == ParsedIsLevel
<1>1. SUFFICES ASSUME NEW t \in Text
               PROVE  UnmarshalText(t) \in Int32 \cup {Error}
  BY <1>1, Zenon DEF ParsedIsLevel
<1>2. CASE UnmarshalText(t) = Error
  BY <1>2, Zenon
<1>3. CASE UnmarshalText(t) # Error
  BY <1>3, ParseType, Zenon
<1>4. QED
  BY <1>2, <1>3

-----------------------------------------------------------------------------
(* What Moderation stores *)

Record(c) ==
  c = [phase |-> c.phase, by |-> c.by, cmd |-> c.cmd, args |-> c.args, todo |-> c.todo, cur |-> c.cur]

HasLevel(c) ==
  /\ c.cmd = "set" /\ c.phase = "act" /\ c.todo # {} => SetLevel(c) \in Int32
  /\ c.cmd = "set" => c.phase # "say"

LInv ==
  /\ accessUser \in [Ids -> Int32]
  /\ loop.step = "persist" => loop.access \in Int32
  /\ cmd = [i \in Slot |-> cmd[i]]
  /\ \A i \in Slot : Record(cmd[i]) /\ HasLevel(cmd[i])

(* What is left of a command when a part of it changes.                    *)
Same(c, d) == d.cmd = c.cmd /\ d.args = c.args /\ SetLevel(d) = SetLevel(c)

LEMMA Phase ==
  ASSUME NEW c, Record(c), NEW p, NEW d, d = [c EXCEPT !.phase = p]
  PROVE  Record(d) /\ d.phase = p /\ d.todo = c.todo /\ Same(c, d)
<1>1. PICK c1, c2, c3, c4, c5, c6 :
        c = [phase |-> c1, by |-> c2, cmd |-> c3, args |-> c4, todo |-> c5, cur |-> c6]
  BY DEF Record
<1>2. d = [phase |-> p, by |-> c2, cmd |-> c3, args |-> c4, todo |-> c5, cur |-> c6]
  BY <1>1
<1>3. QED
  BY <1>1, <1>2 DEF Record, Same, SetLevel

LEMMA NamedLevels ==
  /\ AccessWhitelist \in Int32 /\ AccessBan \in Int32 /\ AccessDefault \in Int32
  /\ DefaultUser \in [Ids -> Int32]
<1>1. 5 \in Name /\ 10 \in Name
  BY NamesAssumption DEF Name
<1>2. AccessDefault \in Int32
  BY MaxAssumption DEF AccessDefault, Int32
<1>3. QED
  BY <1>1, <1>2, Bounds, UsersAssumption DEF AccessWhitelist, AccessBan

LEMMA TypedLevel ==
  ASSUME NEW c, SetLevel(c) # Error
  PROVE  SetLevel(c) \in Int32
  BY NamedLevels, ParseType, Zenon DEF SetLevel

LEMMA Stores ==
  ASSUME NEW u, NEW a \in Int32, NEW b, accessUser \in [Ids -> Int32], SetUserAccess(u, a, b)
  PROVE  accessUser' \in [Ids -> Int32]
  BY NamedLevels DEF SetUserAccess

LEMMA LInvInit == Init => LInv
<1> SUFFICES ASSUME Init PROVE LInv
  OBVIOUS
<1>1. accessUser \in [Ids -> Int32]
  BY UsersAssumption DEF Init
<1>2. loop.step # "persist"
  BY DEF Init, Idle
<1>3. cmd = [i \in Slot |-> NoCommand]
  BY DEF Init
<1>4. \A i \in Slot : Record(NoCommand) /\ HasLevel(NoCommand)
  BY DEF NoCommand, Record, HasLevel
<1>5. QED
  BY <1>1, <1>2, <1>3, <1>4 DEF LInv

(* A command that begins or has ended has no level yet.                    *)
LEMMA Triggered ==
  ASSUME NEW by, NEW name, NEW args
  PROVE  Record(execTrigger(by, name, args)) /\ HasLevel(execTrigger(by, name, args))
  BY DEF execTrigger, NoCommand, Ended, Record, HasLevel

(* One command changes, and levels do not.                                 *)
LEMMA CommandStep ==
  ASSUME LInv, NEW i \in Slot, NEW c, Record(c), HasLevel(c), cmd' = [cmd EXCEPT ![i] = c],
         accessUser' \in [Ids -> Int32], UNCHANGED loop
  PROVE  LInv'
<1>1. /\ cmd' = [j \in Slot |-> cmd'[j]]
      /\ \A j \in Slot : cmd'[j] = IF j = i THEN c ELSE cmd[j]
  BY DEF LInv
<1>2. \A j \in Slot : Record(cmd'[j]) /\ HasLevel(cmd'[j])
  BY <1>1 DEF LInv
<1>3. QED
  BY <1>1, <1>2 DEF LInv, Record, HasLevel, SetLevel

LEMMA TypeStep ==
  ASSUME LInv, NEW i \in Slot, Type(i)
  PROVE  LInv'
<1>1. PICK by \in Issuers, typed \in Inputs :
        cmd' = [cmd EXCEPT ![i] = execTrigger(by, typed.cmd, typed.args)]
  BY DEF Type
<1>2. accessUser' \in [Ids -> Int32] /\ UNCHANGED loop
  BY DEF Type, LInv
<1>3. QED
  BY <1>1, <1>2, Triggered, CommandStep

LEMMA AliasStep ==
  ASSUME LInv, NEW i \in Slot, ExecuteAlias(i)
  PROVE  LInv'
<1>1. accessUser' \in [Ids -> Int32] /\ UNCHANGED loop
  BY DEF ExecuteAlias, LInv
<1>2. Record([cmd[i] EXCEPT !.phase = "reply"]) /\ HasLevel([cmd[i] EXCEPT !.phase = "reply"])
  BY DEF LInv, Record, HasLevel
<1>3. \E c : Record(c) /\ HasLevel(c) /\ cmd' = [cmd EXCEPT ![i] = c]
  BY <1>2, Triggered, Zenon DEF ExecuteAlias
<1>4. QED
  BY <1>1, <1>3, CommandStep

(* Nobody is given a level that is none.                                   *)
LEMMA LookUpStep ==
  ASSUME LInv, NEW i \in Slot, LookUp(i)
  PROVE  LInv'
<1> DEFINE c == [cmd[i] EXCEPT !.phase = "act", !.todo = Targets(cmd[i])]
<1>1. cmd' = [cmd EXCEPT ![i] = c] /\ UNCHANGED <<accessUser, loop>>
  BY DEF LookUp, LInv
<1>2. Record(cmd[i])
  BY DEF LInv
<1>3. Record(c) /\ c.phase = "act" /\ c.todo = Targets(cmd[i]) /\ Same(cmd[i], c)
  <2>1. c = [cmd[i] EXCEPT !.phase = "act", !.todo = Targets(cmd[i])]
    OBVIOUS
  <2> HIDE DEF c
  <2>2. QED
    <3>1. PICK k, t : k = cmd[i] /\ t = Targets(cmd[i])
      OBVIOUS
    <3>2. PICK c1, c2, c3, c4, c5, c6 :
            k = [phase |-> c1, by |-> c2, cmd |-> c3, args |-> c4, todo |-> c5, cur |-> c6]
      BY <3>1, <1>2 DEF Record
    <3>3. c = [k EXCEPT !.phase = "act", !.todo = t]
      BY <2>1, <3>1
    <3>4. c = [phase |-> "act", by |-> c2, cmd |-> c3, args |-> c4, todo |-> t, cur |-> c6]
      BY <3>2, <3>3
    <3>5. Record(c) /\ c.phase = "act" /\ c.todo = t /\ Same(k, c)
      BY <3>2, <3>4 DEF Record, Same, SetLevel
    <3>6. QED
      BY <3>1, <3>5
<1>4. c.cmd = "set" /\ c.todo # {} => SetLevel(cmd[i]) # Error
  BY <1>3 DEF Targets, Same
<1> HIDE DEF c
<1>5. HasLevel(c)
  BY <1>3, <1>4, TypedLevel DEF HasLevel, Same
<1>6. accessUser' \in [Ids -> Int32]
  BY <1>1 DEF LInv
<1>7. QED
  BY <1>1, <1>3, <1>5, <1>6, CommandStep

LEMMA ChangeLevelStep ==
  ASSUME LInv, NEW i \in Slot, ChangeLevel(i)
  PROVE  LInv'
<1>1. PICK u \in cmd[i].todo :
        LET name == cmd[i].cmd
            next == [cmd[i] EXCEPT !.todo = @ \ {u}, !.cur = u.id] IN
        /\ cmd' = [cmd EXCEPT ![i] = IF name = "set" THEN next ELSE [next EXCEPT !.phase = "say"]]
        /\ CASE name = "set" -> SetUserAccess(u.id, SetLevel(next), FALSE)
             [] name = "ban" -> SetUserAccess(u.id, AccessBan, TRUE)
             [] name = "unban" /\ u.access < AccessDefault -> SetUserAccess(u.id, AccessDefault, TRUE)
             [] OTHER -> UNCHANGED <<accessUser, tracked>>
  BY Zenon DEF ChangeLevel
<1> DEFINE next == [cmd[i] EXCEPT !.todo = @ \ {u}, !.cur = u.id]
           c == IF cmd[i].cmd = "set" THEN next ELSE [next EXCEPT !.phase = "say"]
<1>2. cmd' = [cmd EXCEPT ![i] = c] /\ UNCHANGED loop
  BY <1>1 DEF ChangeLevel
<1>3. Record(cmd[i]) /\ HasLevel(cmd[i]) /\ cmd[i].phase = "act" /\ accessUser \in [Ids -> Int32]
  BY DEF LInv, ChangeLevel
<1>4. Record(next) /\ next.phase = "act" /\ Same(cmd[i], next)
  <2>1. next = [cmd[i] EXCEPT !.todo = cmd[i].todo \ {u}, !.cur = u.id]
    OBVIOUS
  <2> HIDE DEF next
  <2>2. QED
    <3>1. PICK k, t, x : k = cmd[i] /\ t = cmd[i].todo \ {u} /\ x = u.id
      OBVIOUS
    <3>2. PICK c1, c2, c3, c4, c5, c6 :
            k = [phase |-> c1, by |-> c2, cmd |-> c3, args |-> c4, todo |-> c5, cur |-> c6]
      BY <3>1, <1>3 DEF Record
    <3>3. next = [k EXCEPT !.todo = t, !.cur = x]
      BY <2>1, <3>1
    <3>4. next = [phase |-> c1, by |-> c2, cmd |-> c3, args |-> c4, todo |-> t, cur |-> x]
      BY <3>2, <3>3
    <3>5. Record(next) /\ next.phase = k.phase /\ Same(k, next)
      BY <3>2, <3>4 DEF Record, Same, SetLevel
    <3>6. QED
      BY <3>1, <3>5, <1>3
<1>5. cmd[i].cmd = "set" => SetLevel(next) \in Int32
  BY <1>1, <1>3, <1>4, Zenon DEF HasLevel, Same
<1>6. Record(c) /\ HasLevel(c)
  <2> HIDE DEF next
  <2>1. CASE cmd[i].cmd = "set"
    BY <2>1, <1>4, <1>5 DEF HasLevel, Same
  <2>2. CASE cmd[i].cmd # "set"
    <3>1. c = [next EXCEPT !.phase = "say"]
      BY <2>2
    <3> HIDE DEF c
    <3>2. Record(c) /\ c.phase = "say" /\ Same(next, c)
      BY <3>1, <1>4, Phase
    <3>3. QED
      BY <3>2, <2>2, <1>4 DEF HasLevel, Same
  <2>3. QED
    BY <2>1, <2>2
<1>7. accessUser' \in [Ids -> Int32]
  <2> HIDE DEF next, c
  <2>1. CASE cmd[i].cmd = "set"
    <3>1. SetUserAccess(u.id, SetLevel(next), FALSE)
      BY <1>1, <2>1, Zenon DEF next
    <3>2. QED
      BY <3>1, <2>1, <1>3, <1>5, Stores
  <2>2. CASE cmd[i].cmd # "set"
    <3>1. \/ SetUserAccess(u.id, AccessBan, TRUE)
          \/ SetUserAccess(u.id, AccessDefault, TRUE)
          \/ UNCHANGED accessUser
      BY <1>1, <2>2
    <3>2. QED
      BY <3>1, <1>3, Stores, NamedLevels
  <2>3. QED
    BY <2>1, <2>2
<1> HIDE DEF c
<1>8. QED
  BY <1>2, <1>6, <1>7, CommandStep

LEMMA SendLineStep ==
  ASSUME LInv, NEW i \in Slot, SendLine(i)
  PROVE  LInv'
<1>1. PICK p \in {"act", "reply"} : cmd' = [cmd EXCEPT ![i] = [cmd[i] EXCEPT !.phase = p]]
  BY DEF SendLine
<1> DEFINE c == [cmd[i] EXCEPT !.phase = p]
<1>2. c = [cmd[i] EXCEPT !.phase = p] /\ cmd' = [cmd EXCEPT ![i] = c]
  BY <1>1
<1> HIDE DEF c
<1>3. Record(cmd[i]) /\ cmd[i].cmd # "set"
  BY DEF LInv, HasLevel, SendLine
<1>4. Record(c) /\ c.phase = p /\ Same(cmd[i], c)
  BY <1>2, <1>3, Phase
<1>5. HasLevel(c)
  BY <1>3, <1>4 DEF HasLevel, Same
<1>6. accessUser' \in [Ids -> Int32] /\ UNCHANGED loop
  BY DEF SendLine, LInv
<1>7. QED
  BY <1>2, <1>4, <1>5, <1>6, CommandStep

LEMMA ReplyStep ==
  ASSUME LInv, NEW i \in Slot, Reply(i)
  PROVE  LInv'
<1>1. Record(Ended) /\ HasLevel(Ended)
  <2>1. Record(NoCommand) /\ NoCommand.cmd = "none"
    BY DEF NoCommand, Record
  <2>2. Ended = [NoCommand EXCEPT !.phase = "done"]
    BY DEF Ended
  <2>3. Record(Ended) /\ Same(NoCommand, Ended)
    BY <2>1, <2>2, Phase
  <2>4. QED
    BY <2>1, <2>3 DEF HasLevel, Same
<1>2. cmd' = [cmd EXCEPT ![i] = Ended] /\ accessUser' \in [Ids -> Int32] /\ UNCHANGED loop
  BY DEF Reply, LInv
<1>3. QED
  BY <1>1, <1>2, CommandStep

(* The commands are left alone.                                            *)
LEMMA OtherStep ==
  ASSUME LInv, UNCHANGED cmd, accessUser' \in [Ids -> Int32],
         loop'.step = "persist" => loop'.access \in Int32
  PROVE  LInv'
  BY DEF LInv, Record, HasLevel, SetLevel

LEMMA ReadStep ==
  ASSUME LInv, Read
  PROVE  LInv'
<1> DEFINE r == Head(reports)
<1>1. loop' = CASE Persists(r) -> About("persist", r.id, IF r.type = "banned" THEN AccessBan ELSE AccessDefault)
                [] Kicks(r) -> About("kick", r.id, user(r.id))
                [] OTHER -> Idle
  BY DEF Read
<1> HIDE DEF r
<1>2. \/ loop' = About("persist", r.id, AccessBan)
      \/ loop' = About("persist", r.id, AccessDefault)
      \/ loop' = About("kick", r.id, user(r.id))
      \/ loop' = Idle
  BY <1>1
<1>3. loop'.step = "persist" => loop'.access \in Int32
  BY <1>2, NamedLevels DEF About, Idle
<1>4. UNCHANGED cmd /\ accessUser' \in [Ids -> Int32]
  BY DEF Read, LInv
<1>5. QED
  BY <1>3, <1>4, OtherStep

LEMMA PersistStep ==
  ASSUME LInv, Persist
  PROVE  LInv'
<1>1. accessUser \in [Ids -> Int32] /\ loop.access \in Int32
  BY DEF LInv, Persist
<1>2. SetUserAccess(loop.id, loop.access, TRUE)
  BY DEF Persist
<1>3. accessUser' \in [Ids -> Int32]
  BY <1>1, <1>2, Stores
<1>4. UNCHANGED cmd /\ loop'.step # "persist"
  BY DEF Persist, Idle
<1>5. QED
  BY <1>3, <1>4, OtherStep

LEMMA QuietStep ==
  ASSUME LInv, AutoKick \/ Serve \/ People \/ UNCHANGED vars
  PROVE  LInv'
<1>1. UNCHANGED <<accessUser, cmd>>
  BY DEF AutoKick, Serve, People, bot, vars
<1>2. UNCHANGED loop \/ loop' = Idle
  BY DEF AutoKick, Serve, People, bot, vars
<1>3. accessUser' \in [Ids -> Int32] /\ (loop'.step = "persist" => loop'.access \in Int32)
  BY <1>1, <1>2 DEF LInv, Idle
<1>4. QED
  BY <1>1, <1>3, OtherStep

LEMMA LInvStep == LInv /\ [Next]_vars => LInv'
<1> SUFFICES ASSUME LInv, [Next]_vars PROVE LInv'
  OBVIOUS
<1>1. ASSUME NEW i \in Slot, Type(i) \/ Execute(i) PROVE LInv'
  BY <1>1, TypeStep, AliasStep, LookUpStep, ChangeLevelStep, SendLineStep, ReplyStep DEF Execute
<1>2. CASE Handle
  BY <1>2, ReadStep, PersistStep, QuietStep DEF Handle
<1>3. CASE Serve \/ People \/ UNCHANGED vars
  BY <1>3, QuietStep
<1>4. QED
  BY <1>1, <1>2, <1>3 DEF Next

-----------------------------------------------------------------------------

(* Every level that commands, aliases and bans store means the same when   *)
(* the configuration has been written and read again.                      *)
THEOREM StoredLevelsSurvive == Spec => []StoredLevels
<1>1. LInv => StoredLevels
  BY LevelsSurvive DEF LInv, StoredLevels, LevelSurvives
<1>2. QED
  BY <1>1, LInvInit, LInvStep, PTL DEF Spec

-----------------------------------------------------------------------------
(* Sequences of reports and of lines *)

IsSeq(s) == \E S : s \in Seq(S)

(* There is a record about u of one of the types.                          *)
Holds(s, T, u) == \E k \in DOMAIN s : s[k].type \in T /\ s[k].id = u

Turns == {"banned", "unbanned"}

(* The last report of a ban or an unban of u is a ban exactly if he is in  *)
(* B.                                                                      *)
Latest(s, u, B) ==
  \A k \in DOMAIN s : s[k].type \in Turns /\ s[k].id = u =>
    \/ s[k].type = "banned" <=> u \in B
    \/ \E m \in DOMAIN s : k < m /\ s[m].type \in Turns /\ s[m].id = u

LEMMA AppendSeq ==
  ASSUME NEW s, NEW x, IsSeq(s)
  PROVE  /\ IsSeq(Append(s, x))
         /\ DOMAIN s = 1..Len(s) /\ Len(s) \in Nat
         /\ DOMAIN Append(s, x) = 1..(Len(s) + 1)
         /\ \A k \in 1..Len(s) : Append(s, x)[k] = s[k]
         /\ Append(s, x)[Len(s) + 1] = x
<1>1. PICK S : s \in Seq(S)
  BY DEF IsSeq
<1>2. Append(s, x) \in Seq(S \cup {x})
  <2>1. ASSUME NEW A, NEW B, A \subseteq B, NEW q \in Seq(A)  PROVE  q \in Seq(B)
    BY <2>1
  <2>2. s \in Seq(S \cup {x})
    BY <1>1, <2>1
  <2>3. QED
    BY <2>2
<1>3. QED
  BY <1>1, <1>2 DEF IsSeq

LEMMA TailSeq ==
  ASSUME NEW s, IsSeq(s), s # <<>>
  PROVE  /\ IsSeq(Tail(s))
         /\ DOMAIN s = 1..Len(s) /\ Len(s) \in Nat \ {0}
         /\ DOMAIN Tail(s) = 1..(Len(s) - 1)
         /\ \A k \in 1..(Len(s) - 1) : Tail(s)[k] = s[k + 1]
         /\ Head(s) = s[1]
<1>1. PICK S : s \in Seq(S)
  BY DEF IsSeq
<1>2. QED
  BY <1>1 DEF IsSeq

LEMMA HoldsAppend ==
  ASSUME NEW s, NEW x, IsSeq(s), NEW T, NEW u
  PROVE  Holds(Append(s, x), T, u) <=> Holds(s, T, u) \/ (x.type \in T /\ x.id = u)
<1>1. PICK n \in Nat : n = Len(s)
  BY AppendSeq
<1>2. DOMAIN s = 1..n /\ DOMAIN Append(s, x) = 1..(n + 1)
  BY <1>1, AppendSeq
<1>3. \A k \in 1..n : Append(s, x)[k] = s[k] /\ k \in 1..(n + 1)
  BY <1>1, AppendSeq
<1>4. Append(s, x)[n + 1] = x /\ n + 1 \in 1..(n + 1)
  BY <1>1, AppendSeq
<1>5. \A k \in 1..(n + 1) : k \in 1..n \/ k = n + 1
  OBVIOUS
<1>6. QED
  BY <1>2, <1>3, <1>4, <1>5, Zenon DEF Holds

LEMMA HoldsTail ==
  ASSUME NEW s, IsSeq(s), s # <<>>, NEW T, NEW u
  PROVE  Holds(s, T, u) <=> Holds(Tail(s), T, u) \/ (Head(s).type \in T /\ Head(s).id = u)
<1>1. PICK n \in Nat \ {0} : n = Len(s)
  BY TailSeq
<1>2. DOMAIN s = 1..n /\ DOMAIN Tail(s) = 1..(n - 1) /\ Head(s) = s[1] /\ 1 \in 1..n
  BY <1>1, TailSeq
<1>3. \A k \in 1..(n - 1) : Tail(s)[k] = s[k + 1] /\ k + 1 \in 1..n
  BY <1>1, TailSeq
<1>4. \A k \in 1..n : k = 1 \/ (k - 1 \in 1..(n - 1) /\ (k - 1) + 1 = k)
  OBVIOUS
<1>5. ASSUME Holds(s, T, u)  PROVE  Holds(Tail(s), T, u) \/ (Head(s).type \in T /\ Head(s).id = u)
  <2>1. PICK k \in 1..n : s[k].type \in T /\ s[k].id = u
    BY <1>2, <1>5 DEF Holds
  <2>2. CASE k = 1
    BY <1>2, <2>1, <2>2
  <2>3. CASE k # 1
    <3>1. k - 1 \in 1..(n - 1) /\ Tail(s)[k - 1] = s[k]
      BY <1>3, <1>4, <2>3
    <3>2. QED
      BY <1>2, <2>1, <3>1, Zenon DEF Holds
  <2>4. QED
    BY <2>2, <2>3
<1>6. ASSUME Holds(Tail(s), T, u) \/ (Head(s).type \in T /\ Head(s).id = u)  PROVE  Holds(s, T, u)
  BY <1>2, <1>3, <1>6, Zenon DEF Holds
<1>7. QED
  BY <1>5, <1>6

(* Only whether u is in B matters.                                         *)
LEMMA LatestOf ==
  ASSUME NEW s, NEW u, NEW B, NEW C, Latest(s, u, B), u \in B <=> u \in C
  PROVE  Latest(s, u, C)
  BY DEF Latest

(* A report of something else.                                             *)
LEMMA LatestKept ==
  ASSUME NEW s, NEW x, IsSeq(s), NEW u, NEW B, Latest(s, u, B), ~(x.type \in Turns /\ x.id = u)
  PROVE  Latest(Append(s, x), u, B)
<1>1. PICK n \in Nat : n = Len(s)
  BY AppendSeq
<1>2. DOMAIN s = 1..n /\ DOMAIN Append(s, x) = 1..(n + 1)
  BY <1>1, AppendSeq
<1>3. \A k \in 1..n : Append(s, x)[k] = s[k] /\ k \in 1..(n + 1)
  BY <1>1, AppendSeq
<1>4. Append(s, x)[n + 1] = x
  BY <1>1, AppendSeq
<1>5. \A k \in 1..(n + 1) : k \in 1..n \/ k = n + 1
  OBVIOUS
<1>6. QED
  BY <1>2, <1>3, <1>4, <1>5, Zenon DEF Latest

(* A ban or an unban of u is reported.                                     *)
LEMMA LatestReported ==
  ASSUME NEW s, NEW x, IsSeq(s), NEW u, NEW B, x.type \in Turns, x.id = u, x.type = "banned" <=> u \in B
  PROVE  Latest(Append(s, x), u, B) /\ Holds(Append(s, x), Turns, u)
<1>1. PICK n \in Nat : n = Len(s)
  BY AppendSeq
<1>2. DOMAIN Append(s, x) = 1..(n + 1) /\ Append(s, x)[n + 1] = x /\ n + 1 \in 1..(n + 1)
  BY <1>1, AppendSeq
<1>3. \A k \in 1..(n + 1) : k < n + 1 \/ k = n + 1
  OBVIOUS
<1>4. QED
  BY <1>2, <1>3, Zenon DEF Latest, Holds

(* The first report is read: if no other follows, it is the last.          *)
LEMMA LatestTail ==
  ASSUME NEW s, IsSeq(s), s # <<>>, NEW u, NEW B, Latest(s, u, B)
  PROVE  /\ Latest(Tail(s), u, B)
         /\ Head(s).type \in Turns /\ Head(s).id = u =>
              (Head(s).type = "banned" <=> u \in B) \/ Holds(Tail(s), Turns, u)
<1>1. PICK n \in Nat \ {0} : n = Len(s)
  BY TailSeq
<1>2. DOMAIN s = 1..n /\ DOMAIN Tail(s) = 1..(n - 1) /\ Head(s) = s[1] /\ 1 \in 1..n
  BY <1>1, TailSeq
<1>3. \A k \in 1..(n - 1) : Tail(s)[k] = s[k + 1] /\ k + 1 \in 1..n
  BY <1>1, TailSeq
<1>4. \A k, m \in 1..n : k < m => m - 1 \in 1..(n - 1) /\ (m - 1) + 1 = m
  OBVIOUS
<1>5. \A k \in 1..(n - 1) : \A m \in 1..n : k + 1 < m => k < m - 1
  OBVIOUS
<1>6. ASSUME NEW k \in 1..(n - 1), Tail(s)[k].type \in Turns, Tail(s)[k].id = u
      PROVE  \/ Tail(s)[k].type = "banned" <=> u \in B
             \/ \E m \in 1..(n - 1) : k < m /\ Tail(s)[m].type \in Turns /\ Tail(s)[m].id = u
  <2>1. k + 1 \in 1..n /\ s[k + 1] = Tail(s)[k]
    BY <1>3
  <2>2. CASE s[k + 1].type = "banned" <=> u \in B
    BY <2>1, <2>2
  <2>3. CASE \E m \in 1..n : k + 1 < m /\ s[m].type \in Turns /\ s[m].id = u
    <3>1. PICK m \in 1..n : k + 1 < m /\ s[m].type \in Turns /\ s[m].id = u
      BY <2>3
    <3>2. m - 1 \in 1..(n - 1) /\ k < m - 1 /\ Tail(s)[m - 1] = s[m]
      BY <1>3, <1>4, <1>5, <2>1, <3>1
    <3>3. QED
      BY <3>1, <3>2, Zenon
  <2>4. QED
    BY <1>2, <1>6, <2>1, <2>2, <2>3, Zenon DEF Latest
<1>7. ASSUME Head(s).type \in Turns, Head(s).id = u
      PROVE  (Head(s).type = "banned" <=> u \in B) \/ Holds(Tail(s), Turns, u)
  <2>1. CASE \E m \in 1..n : 1 < m /\ s[m].type \in Turns /\ s[m].id = u
    <3>1. PICK m \in 1..n : 1 < m /\ s[m].type \in Turns /\ s[m].id = u
      BY <2>1
    <3>2. m - 1 \in 1..(n - 1) /\ Tail(s)[m - 1] = s[m]
      BY <1>2, <1>3, <1>4, <3>1
    <3>3. QED
      BY <1>2, <3>1, <3>2, Zenon DEF Holds
  <2>2. QED
    BY <1>2, <1>7, <2>1, Zenon DEF Latest
<1>8. QED
  BY <1>2, <1>6, <1>7, Zenon DEF Latest

-----------------------------------------------------------------------------
(* The shape of the state *)

Shape ==
  /\ LInv
  /\ IsSeq(saych) /\ IsSeq(reports)
  /\ tracked = [u \in Ids |-> tracked[u]]
  /\ unwanted = [u \in Users |-> unwanted[u]]
  /\ channel \subseteq Users /\ channel \cap banned = {}
  /\ loop.step = "persist" => loop.access \in {AccessBan, AccessDefault}

LEMMA NoRecords == IsSeq(<<>>)
<1>1. <<>> \in Seq({})
  OBVIOUS
<1>2. QED
  BY <1>1 DEF IsSeq

LEMMA ShapeInit == Init => Shape
<1> SUFFICES ASSUME Init PROVE Shape
  OBVIOUS
<1>1. LInv
  BY LInvInit
<1>2. IsSeq(saych) /\ IsSeq(reports)
  BY NoRecords DEF Init
<1>3. tracked = [u \in Ids |-> tracked[u]] /\ unwanted = [u \in Users |-> unwanted[u]]
  BY DEF Init
<1>4. channel \subseteq Users /\ channel \cap banned = {}
  BY DEF Init
<1>5. loop.step # "persist"
  BY DEF Init, Idle
<1>6. QED
  BY <1>1, <1>2, <1>3, <1>4, <1>5 DEF Shape

(* One or two more elements.                                               *)
LEMMA AddOne ==
  ASSUME NEW S, NEW s \in Seq(S), NEW x
  PROVE  s \o <<x>> = Append(s, x)
<1>1. PICK R : s \in Seq(R) /\ x \in R
  <2>1. ASSUME NEW A, NEW B, A \subseteq B, NEW q \in Seq(A)  PROVE  q \in Seq(B)
    BY <2>1
  <2>2. s \in Seq(S \cup {x})
    BY <2>1
  <2>3. QED
    BY <2>2
<1>2. s \o <<x>> \in Seq(R) /\ Append(s, x) \in Seq(R) /\ Len(s \o <<x>>) = Len(Append(s, x))
  BY <1>1
<1>3. ASSUME NEW k \in 1..Len(s \o <<x>>)  PROVE  (s \o <<x>>)[k] = Append(s, x)[k]
  BY <1>1
<1>4. QED
  BY <1>2, <1>3, SeqEqual

LEMMA AddTwo ==
  ASSUME NEW S, NEW s \in Seq(S), NEW x, NEW y
  PROVE  s \o <<x, y>> = Append(Append(s, x), y)
<1>1. PICK R : s \in Seq(R) /\ x \in R /\ y \in R
  <2>1. ASSUME NEW A, NEW B, A \subseteq B, NEW q \in Seq(A)  PROVE  q \in Seq(B)
    BY <2>1
  <2>2. s \in Seq(S \cup {x, y})
    BY <2>1
  <2>3. QED
    BY <2>2
<1>2. /\ s \o <<x, y>> \in Seq(R) /\ Append(Append(s, x), y) \in Seq(R)
      /\ Len(s \o <<x, y>>) = Len(Append(Append(s, x), y))
  BY <1>1
<1>3. ASSUME NEW k \in 1..Len(s \o <<x, y>>)  PROVE  (s \o <<x, y>>)[k] = Append(Append(s, x), y)[k]
  BY <1>1
<1>4. QED
  BY <1>2, <1>3, SeqEqual

LEMMA Pair ==
  ASSUME NEW x, NEW y
  PROVE  <<x>> \o <<y>> = <<x, y>>
<1>1. <<x>> \in Seq({x}) /\ <<y>> \in Seq({y})
  OBVIOUS
<1>2. <<x>> \o <<y>> \in Seq({x, y}) /\ <<x, y>> \in Seq({x, y})
  OBVIOUS
<1>3. Len(<<x>> \o <<y>>) = 2 /\ Len(<<x, y>>) = 2
  BY <1>1
<1>4. (<<x>> \o <<y>>)[1] = x /\ (<<x>> \o <<y>>)[2] = y
  BY <1>1
<1>5. \A k \in 1..2 : k = 1 \/ k = 2
  OBVIOUS
<1>6. <<x, y>>[1] = x /\ <<x, y>>[2] = y
  OBVIOUS
<1>7. PICK p, q : p = <<x>> \o <<y>> /\ q = <<x, y>>
  OBVIOUS
<1>8. p \in Seq({x, y}) /\ q \in Seq({x, y}) /\ Len(p) = 2 /\ Len(q) = 2
  BY <1>2, <1>3, <1>7
<1>9. \A k \in 1..2 : p[k] = q[k]
  BY <1>4, <1>5, <1>6, <1>7
<1>10. p = q
  BY <1>8, <1>9, SeqEqual
<1>11. QED
  BY <1>7, <1>10

(* What the server reports of a ban.                                       *)
LEMMA BanReports ==
  ASSUME NEW u, IsSeq(reports)
  PROVE  \/ reports \o Report(<<"banned">> \o Leaves(u), u) = Append(reports, Line("banned", u))
         \/ reports \o Report(<<"banned">> \o Leaves(u), u)
              = Append(Append(reports, Line("banned", u)), Line("left", u))
<1>1. PICK S : reports \in Seq(S)
  BY DEF IsSeq
<1>2. CASE u \in channel
  <2>1. Leaves(u) = <<"left">>
    BY <1>2 DEF Leaves
  <2>2. <<"banned">> \o <<"left">> = <<"banned", "left">>
    BY Pair
  <2>3. Report(<<"banned", "left">>, u) = <<Line("banned", u), Line("left", u)>>
    BY DEF Report
  <2>4. reports \o <<Line("banned", u), Line("left", u)>>
          = Append(Append(reports, Line("banned", u)), Line("left", u))
    BY <1>1, AddTwo
  <2>5. QED
    BY <2>1, <2>2, <2>3, <2>4, Zenon
<1>3. CASE u \notin channel
  <2>1. Leaves(u) = <<>>
    BY <1>3 DEF Leaves
  <2>2. <<"banned">> \o <<>> = <<"banned">>
    OBVIOUS
  <2>3. Report(<<"banned">>, u) = <<Line("banned", u)>>
    BY DEF Report
  <2>4. reports \o <<Line("banned", u)>> = Append(reports, Line("banned", u))
    BY <1>1, AddOne
  <2>5. QED
    BY <2>1, <2>2, <2>3, <2>4, Zenon
<1>4. QED
  BY <1>2, <1>3

(* The queue takes a line more, or none.                                   *)
Queued(t, u) == saych' = Append(saych, Line(t, u))

LEMMA LineQueued ==
  ASSUME IsSeq(saych), NEW t, NEW u, Queued(t, u)
  PROVE  /\ IsSeq(saych')
         /\ \A T, v : Holds(saych', T, v) <=> Holds(saych, T, v) \/ (t \in T /\ u = v)
<1>1. IsSeq(Append(saych, Line(t, u)))
  BY AppendSeq
<1>2. Line(t, u).type = t /\ Line(t, u).id = u
  BY DEF Line
<1>3. ASSUME NEW T, NEW v
      PROVE  Holds(Append(saych, Line(t, u)), T, v) <=> Holds(saych, T, v) \/ (t \in T /\ u = v)
  BY <1>2, HoldsAppend
<1>4. QED
  BY <1>1, <1>3 DEF Queued

LEMMA Levels ==
  /\ AccessDefault = 0 /\ AccessBan \in Int /\ AccessWhitelist \in Int /\ AccessKick \in Int
  /\ AccessBan < AccessKick /\ AccessKick < 0 /\ 0 < AccessWhitelist
<1>1. 5 \in Name /\ 7 \in Name /\ 9 \in Name /\ 10 \in Name
  BY NamesAssumption DEF Name
<1>2. ConLevels[5] > ConLevels[7] /\ ConLevels[7] > ConLevels[9] /\ ConLevels[9] > ConLevels[10]
  BY <1>1, LevelsAssumption
<1>3. ConLevels[7] = 0
  BY NamesAssumption
<1>4. QED
  BY <1>1, <1>2, <1>3, Bounds DEF AccessDefault, AccessBan, AccessWhitelist, AccessKick

LEMMA Changes ==
  ASSUME Shape, NEW u, NEW a, NEW b, SetUserAccess(u, a, b)
  PROVE  /\ \A v \in Ids : v # u => accessUser'[v] = accessUser[v] /\ tracked'[v] = tracked[v]
         /\ u \in Ids => /\ accessUser'[u] = IF a = AccessDefault THEN DefaultUser[u] ELSE a
                         /\ tracked'[u] = b
         /\ tracked' = [v \in Ids |-> tracked'[v]]
<1>1. accessUser = [v \in Ids |-> accessUser[v]] /\ tracked = [v \in Ids |-> tracked[v]]
  BY DEF Shape, LInv
<1>2. /\ accessUser' = [accessUser EXCEPT ![u] = IF a = AccessDefault THEN DefaultUser[u] ELSE a]
      /\ tracked' = [tracked EXCEPT ![u] = b]
  BY DEF SetUserAccess
<1>3. QED
  BY <1>1, <1>2

LEMMA Untracked ==
  ASSUME Shape, NEW u, tracked' = [tracked EXCEPT ![u] = FALSE]
  PROVE  /\ tracked' = [v \in Ids |-> tracked'[v]]
         /\ \A v \in Ids : IF v = u THEN ~tracked'[v] ELSE tracked'[v] = tracked[v]
  BY DEF Shape

-----------------------------------------------------------------------------
(* What the server does to bans, and what it reports *)

(* Nothing, as far as bans of u go, or it bans or unbans him and says so.  *)
Kept(u) ==
  /\ u \in banned' <=> u \in banned
  /\ Latest(reports, u, banned) => Latest(reports', u, banned')
  /\ Holds(reports, Turns, u) => Holds(reports', Turns, u)

Reported(u) == Latest(reports', u, banned') /\ Holds(reports', Turns, u)

(* The report of something else is appended.                               *)
Noted(t, u) == reports' = Append(reports, Line(t, u)) /\ t \notin Turns

LEMMA LineFields == \A t, u : Line(t, u).type = t /\ Line(t, u).id = u
  BY DEF Line

LEMMA NotedKept ==
  ASSUME IsSeq(reports), NEW t, NEW u, Noted(t, u), UNCHANGED banned
  PROVE  IsSeq(reports') /\ \A v : Kept(v)
<1>1. IsSeq(reports')
  BY AppendSeq DEF Noted
<1>2. ASSUME NEW v  PROVE  Kept(v)
  <2>1. Latest(reports, v, banned) => Latest(Append(reports, Line(t, u)), v, banned)
    BY LatestKept, LineFields DEF Noted
  <2>2. Holds(reports, Turns, v) => Holds(Append(reports, Line(t, u)), Turns, v)
    BY HoldsAppend
  <2>3. QED
    BY <2>1, <2>2, Zenon DEF Kept, Noted
<1>3. QED
  BY <1>1, <1>2

LEMMA BanEffect ==
  ASSUME IsSeq(reports), NEW u, BanAtServer(u)
  PROVE  /\ IsSeq(reports') /\ banned' = banned \cup {u} /\ channel' = channel \ {u}
         /\ Reported(u)
         /\ \A v : v # u => Kept(v)
<1> DEFINE s == Append(reports, Line("banned", u))
<1>1. banned' = banned \cup {u} /\ channel' = channel \ {u}
  BY DEF BanAtServer
<1>2. IsSeq(s) /\ IsSeq(Append(s, Line("left", u)))
  BY AppendSeq
<1>3. reports' = s \/ reports' = Append(s, Line("left", u))
  BY BanReports DEF BanAtServer
<1>4. ASSUME NEW v, NEW B, Latest(s, v, B)  PROVE  Latest(reports', v, B)
  <2>1. ~(Line("left", u).type \in Turns /\ Line("left", u).id = v)
    BY LineFields DEF Turns
  <2> HIDE DEF s
  <2>2. Latest(Append(s, Line("left", u)), v, B)
    BY <1>2, <1>4, <2>1, LatestKept
  <2>3. QED
    BY <1>3, <1>4, <2>2
<1>5. ASSUME NEW v, Holds(s, Turns, v)  PROVE  Holds(reports', Turns, v)
  BY <1>2, <1>3, <1>5, HoldsAppend
<1>6. Latest(s, u, banned') /\ Holds(s, Turns, u)
  BY <1>1, LatestReported, LineFields DEF Turns
<1>7. ASSUME NEW v, v # u  PROVE  Kept(v)
  <2>1. v \in banned' <=> v \in banned
    BY <1>1, <1>7
  <2>2. Latest(reports, v, banned) => Latest(s, v, banned)
    BY <1>7, LatestKept, LineFields
  <2>3. Holds(reports, Turns, v) => Holds(s, Turns, v)
    BY HoldsAppend
  <2> HIDE DEF s
  <2>4. Latest(reports, v, banned) => Latest(reports', v, banned)
    BY <1>4, <2>2
  <2>5. Latest(reports, v, banned) => Latest(reports', v, banned')
    BY <2>1, <2>4, LatestOf
  <2>6. QED
    BY <1>5, <2>1, <2>3, <2>5, Zenon DEF Kept
<1>8. Reported(u)
  <2> HIDE DEF s
  <2>1. QED
    BY <1>4, <1>5, <1>6 DEF Reported
<1>9. IsSeq(reports')
  BY <1>2, <1>3
<1>10. QED
  BY <1>1, <1>7, <1>8, <1>9

LEMMA UnbanEffect ==
  ASSUME IsSeq(reports), NEW u, UnbanAtServer(u)
  PROVE  /\ IsSeq(reports') /\ banned' = banned \ {u} /\ UNCHANGED channel
         /\ Reported(u)
         /\ \A v : v # u => Kept(v)
<1> DEFINE s == Append(reports, Line("unbanned", u))
<1>1. banned' = banned \ {u} /\ UNCHANGED channel /\ reports' = s
  BY DEF UnbanAtServer
<1>2. IsSeq(s)
  BY AppendSeq
<1>3. Latest(s, u, banned') /\ Holds(s, Turns, u)
  <2>1. /\ Line("unbanned", u).type \in Turns /\ Line("unbanned", u).id = u
        /\ Line("unbanned", u).type # "banned" /\ u \notin banned'
    BY <1>1, LineFields DEF Turns
  <2>2. QED
    BY <2>1, LatestReported
<1>4. ASSUME NEW v, v # u  PROVE  Kept(v)
  <2>1. v \in banned' <=> v \in banned
    BY <1>1, <1>4
  <2>2. Latest(reports, v, banned) => Latest(s, v, banned)
    BY <1>4, LatestKept, LineFields
  <2>3. Holds(reports, Turns, v) => Holds(s, Turns, v)
    BY HoldsAppend
  <2> HIDE DEF s
  <2>4. Latest(reports, v, banned) => Latest(reports', v, banned')
    BY <1>1, <2>1, <2>2, LatestOf
  <2>5. QED
    BY <1>1, <2>1, <2>3, <2>4, Zenon DEF Kept
<1>5. Reported(u)
  <2> HIDE DEF s
  <2>1. QED
    BY <1>1, <1>3 DEF Reported
<1>6. QED
  BY <1>1, <1>2, <1>4, <1>5

LEMMA KickEffect ==
  ASSUME IsSeq(reports), NEW u, KickAtServer(u)
  PROVE  /\ IsSeq(reports') /\ UNCHANGED banned /\ channel' = channel \ {u}
         /\ \A v : Kept(v)
<1>1. Noted("left", u) /\ UNCHANGED banned /\ channel' = channel \ {u}
  BY DEF KickAtServer, Noted, Turns
<1>2. QED
  BY <1>1, NotedKept

-----------------------------------------------------------------------------
(* Steps of the server and of the handlers keep the shape *)

LEMMA ShapeStep == Shape /\ [Next]_vars => Shape'
<1> SUFFICES ASSUME Shape, [Next]_vars PROVE Shape'
  OBVIOUS
<1> DEFINE Apart == channel \subseteq Users /\ channel \cap banned = {}
<1> USE DEF Shape
<1>1. LInv'
  BY LInvStep
<1>2. IsSeq(saych) /\ IsSeq(reports)
  OBVIOUS
<1>3. ASSUME NEW i \in Slot, Type(i) \/ ExecuteAlias(i) \/ LookUp(i)  PROVE Shape'
  <2>1. UNCHANGED <<saych, reports, tracked, unwanted, channel, banned, loop>>
    BY <1>3 DEF Type, ExecuteAlias, LookUp, histories, server
  <2>2. QED
    BY <1>1, <2>1 DEF AccessBan, AccessDefault
<1>4. ASSUME NEW i \in Slot, ChangeLevel(i)  PROVE Shape'
  <2>1. UNCHANGED <<saych, reports, unwanted, channel, banned, loop>>
    BY <1>4 DEF ChangeLevel, server
  <2>2. UNCHANGED tracked \/ \E u, a, b : SetUserAccess(u, a, b)
    <3>1. PICK u \in cmd[i].todo :
            LET name == cmd[i].cmd
                next == [cmd[i] EXCEPT !.todo = @ \ {u}, !.cur = u.id] IN
              CASE name = "set" -> SetUserAccess(u.id, SetLevel(next), FALSE)
                [] name = "ban" -> SetUserAccess(u.id, AccessBan, TRUE)
                [] name = "unban" /\ u.access < AccessDefault -> SetUserAccess(u.id, AccessDefault, TRUE)
                [] OTHER -> UNCHANGED <<accessUser, tracked>>
      BY <1>4, Zenon DEF ChangeLevel
    <3>2. CASE cmd[i].cmd = "set"
      BY <3>1, <3>2, Zenon
    <3>3. CASE cmd[i].cmd # "set"
      <4>1. \/ SetUserAccess(u.id, AccessBan, TRUE)
            \/ SetUserAccess(u.id, AccessDefault, TRUE)
            \/ UNCHANGED tracked
        BY <3>1, <3>3
      <4>2. QED
        BY <4>1, Zenon
    <3>4. QED
      BY <3>2, <3>3
  <2>3. tracked' = [v \in Ids |-> tracked'[v]]
    BY <2>2, Changes
  <2>4. QED
    BY <1>1, <2>1, <2>3 DEF AccessBan, AccessDefault
<1>5. ASSUME NEW i \in Slot, SendLine(i)  PROVE Shape'
  <2>1. UNCHANGED <<reports, unwanted, channel, banned, loop>>
    BY <1>5 DEF SendLine, server
  <2>2. UNCHANGED saych \/ Queued(cmd[i].cmd, cmd[i].cur)
    BY <1>5 DEF SendLine, Send, Queued
  <2>3. UNCHANGED tracked \/ tracked' = [tracked EXCEPT ![cmd[i].cur] = FALSE]
    BY <1>5 DEF SendLine
  <2>4. IsSeq(saych')
    BY <1>2, <2>2, LineQueued
  <2>5. tracked' = [v \in Ids |-> tracked'[v]]
    BY <2>3, Untracked
  <2>6. QED
    BY <1>1, <2>1, <2>4, <2>5 DEF AccessBan, AccessDefault
<1>6. ASSUME NEW i \in Slot, Reply(i)  PROVE Shape'
  <2>1. UNCHANGED <<reports, unwanted, channel, banned, loop, tracked>>
    BY <1>6 DEF Reply, server, histories
  <2>2. UNCHANGED saych \/ Queued("say", Anybody)
    BY <1>6 DEF Reply, Queued
  <2>3. IsSeq(saych')
    BY <1>2, <2>2, LineQueued
  <2>4. QED
    BY <1>1, <2>1, <2>3 DEF AccessBan, AccessDefault
<1>7. CASE Read
  <2>1. UNCHANGED <<saych, tracked, channel, banned>> /\ reports # <<>> /\ reports' = Tail(reports)
    BY <1>7 DEF Read, server
  <2>2. IsSeq(reports')
    BY <1>2, <2>1, TailSeq
  <2>3. unwanted' = [u \in Users |-> unwanted'[u]]
    BY <1>7 DEF Read
  <2>4. PICK u, a : \/ loop' = About("persist", u, AccessBan)
                    \/ loop' = About("persist", u, AccessDefault)
                    \/ loop' = About("kick", u, a)
                    \/ loop' = Idle
    BY <1>7 DEF Read
  <2>5. loop'.step = "persist" => loop'.access \in {AccessBan, AccessDefault}
    BY <2>4 DEF About, Idle
  <2>6. QED
    BY <1>1, <2>1, <2>2, <2>3, <2>5 DEF AccessBan, AccessDefault
<1>8. CASE Persist
  <2>1. UNCHANGED <<saych, reports, unwanted, channel, banned>> /\ loop'.step # "persist"
    BY <1>8 DEF Persist, server, Idle
  <2>2. tracked' = [u \in Ids |-> tracked'[u]]
    BY <1>8, Changes DEF Persist
  <2>3. QED
    BY <1>1, <2>1, <2>2
<1>9. CASE AutoKick
  <2>1. UNCHANGED <<reports, unwanted, tracked, channel, banned>> /\ loop'.step # "persist"
    BY <1>9 DEF AutoKick, server, Idle
  <2>2. UNCHANGED saych \/ \E t : Queued(t, loop.id)
    BY <1>9 DEF AutoKick, Send, Queued
  <2>3. IsSeq(saych')
    BY <1>2, <2>2, LineQueued
  <2>4. QED
    BY <1>1, <2>1, <2>3
<1>10. CASE Serve
  <2>1. UNCHANGED <<loop, unwanted>> /\ saych # <<>> /\ saych' = Tail(saych)
    BY <1>10 DEF Serve
  <2>2. IsSeq(saych')
    BY <1>2, <2>1, TailSeq
  <2>3. UNCHANGED tracked \/ tracked' = [tracked EXCEPT ![Head(saych).id] = FALSE]
    BY <1>10 DEF Serve
  <2>4. tracked' = [v \in Ids |-> tracked'[v]]
    BY <2>3, Untracked
  <2>5. \/ BanAtServer(Head(saych).id) \/ UnbanAtServer(Head(saych).id) \/ KickAtServer(Head(saych).id)
        \/ UNCHANGED <<channel, banned, reports>>
    BY <1>10 DEF Serve
  <2>6. IsSeq(reports') /\ Apart'
    BY <1>2, <2>5, BanEffect, UnbanEffect, KickEffect
  <2>7. QED
    BY <1>1, <2>1, <2>2, <2>4, <2>6 DEF AccessBan, AccessDefault
<1>11. CASE People
  <2>1. UNCHANGED <<loop, unwanted, tracked, saych>>
    BY <1>11 DEF People, bot, histories
  <2>2. \/ \E u \in Users : Joins(u) \/ Talks(u) \/ KickAtServer(u) \/ BanAtServer(u) \/ UnbanAtServer(u)
        \/ Opped
    BY <1>11, Zenon DEF People
  <2>3. ASSUME NEW u \in Users, Joins(u)  PROVE IsSeq(reports') /\ Apart'
    BY <1>2, <2>3, AppendSeq DEF Joins
  <2>4. ASSUME NEW u \in Users, Talks(u)  PROVE IsSeq(reports') /\ Apart'
    BY <1>2, <2>4, AppendSeq DEF Talks, server
  <2>5. ASSUME Opped  PROVE IsSeq(reports') /\ Apart'
    BY <1>2, <2>5, AppendSeq DEF Opped
  <2>6. IsSeq(reports') /\ Apart'
    BY <1>2, <2>2, <2>3, <2>4, <2>5, BanEffect, UnbanEffect, KickEffect
  <2>7. QED
    BY <1>1, <2>1, <2>6 DEF AccessBan, AccessDefault
<1>12. CASE UNCHANGED vars
  <2>1. UNCHANGED <<saych, reports, tracked, unwanted, channel, banned, loop>>
    BY <1>12 DEF vars, bot, server, histories
  <2>2. QED
    BY <1>1, <2>1 DEF AccessBan, AccessDefault
<1> HIDE DEF Shape
<1>13. QED
  BY <1>3, <1>4, <1>5, <1>6, <1>7, <1>8, <1>9, <1>10, <1>11, <1>12, Zenon DEF Next, Execute, Handle

-----------------------------------------------------------------------------
(* Bans agree *)

Persisting(u) == loop.step = "persist" /\ loop.id = u
Under(u) == accessUser[u] <= AccessBan

(* A line of this type for u is in the queue, or a command is to send it.  *)
Says(t, u) == \E i \in Slot : cmd[i].phase = "say" /\ cmd[i].cmd = t /\ cmd[i].cur = u
Asked(t, u) == Holds(saych, {t}, u) \/ Says(t, u)

(* The reports that are unread end with the state of the server.  If the   *)
(* level says otherwise, such a report is unread or being persisted, or a  *)
(* line is on its way that will do what the level says.                    *)
Agreeing(u) ==
  /\ Latest(reports, u, banned)
  /\ Persisting(u) => Holds(reports, Turns, u) \/ (loop.access = AccessBan <=> u \in banned)
  /\ tracked[u] => accessUser[u] < AccessWhitelist
  /\ tracked[u] /\ u \in banned /\ ~Under(u) =>
       Holds(reports, Turns, u) \/ Persisting(u) \/ Asked("unban", u)
  /\ tracked[u] /\ u \notin banned /\ Under(u) =>
       Holds(reports, Turns, u) \/ Persisting(u) \/ Asked("ban", u)

(* AccessUser of the defaults is neither that of a banned user nor that of *)
(* a trusted one.                                                          *)
NeutralDefaults == \A u \in Users : AccessBan < DefaultUser[u] /\ DefaultUser[u] < AccessWhitelist

(* Nothing of u changes but that what was asked may be done, or given up.  *)
LEMMA Undisturbed ==
  ASSUME NEW u, Agreeing(u), Kept(u),
         tracked'[u] => tracked[u] /\ accessUser'[u] = accessUser[u],
         Persisting(u)' <=> Persisting(u),
         Persisting(u) => UNCHANGED loop,
         tracked'[u] /\ u \in banned /\ Asked("unban", u) => Asked("unban", u)',
         tracked'[u] /\ u \notin banned /\ Asked("ban", u) => Asked("ban", u)'
  PROVE  Agreeing(u)'
<1>1. Latest(reports', u, banned')
  BY DEF Agreeing, Kept
<1>2. Persisting(u)' => Holds(reports', Turns, u) \/ (loop'.access = AccessBan <=> u \in banned')
  BY DEF Agreeing, Kept
<1>3. tracked'[u] => tracked[u] /\ (Under(u)' <=> Under(u)) /\ accessUser'[u] = accessUser[u]
  BY DEF Under, AccessBan
<1>4. tracked'[u] => accessUser'[u] < AccessWhitelist
  BY <1>3 DEF Agreeing
<1>5. tracked'[u] /\ u \in banned' /\ ~Under(u)' =>
        Holds(reports', Turns, u) \/ Persisting(u)' \/ Asked("unban", u)'
  BY <1>3 DEF Agreeing, Kept
<1>6. tracked'[u] /\ u \notin banned' /\ Under(u)' =>
        Holds(reports', Turns, u) \/ Persisting(u)' \/ Asked("ban", u)'
  BY <1>3 DEF Agreeing, Kept
<1>7. QED
  BY <1>1, <1>2, <1>4, <1>5, <1>6 DEF Agreeing, AccessBan, AccessWhitelist

(* The server has banned or unbanned u, and reported it.                   *)
LEMMA ReportedAgrees ==
  ASSUME NEW u, Agreeing(u), Reported(u), UNCHANGED accessUser, tracked'[u] => tracked[u]
  PROVE  Agreeing(u)'
  BY DEF Agreeing, Reported, AccessWhitelist

(* A command has decided about u.                                          *)
LEMMA DecidedAgrees ==
  ASSUME NEW u, Agreeing(u), UNCHANGED <<reports, banned, loop>>,
         accessUser'[u] < AccessWhitelist,
         Under(u)' => Asked("ban", u)', ~Under(u)' => Asked("unban", u)'
  PROVE  Agreeing(u)'
  BY DEF Agreeing, AccessBan, AccessWhitelist, Persisting

LEMMA SaysKept ==
  ASSUME LInv, NEW i \in Slot, NEW c, cmd' = [cmd EXCEPT ![i] = c], cmd[i].phase # "say",
         NEW t, NEW u, Says(t, u)
  PROVE  Says(t, u)'
<1>1. \A j \in Slot : j # i => cmd'[j] = cmd[j]
  BY DEF LInv
<1>2. QED
  BY <1>1 DEF Says

(* A command goes on, and its steps concern no ban.                        *)
LEMMA QuietCommand ==
  ASSUME Shape, NEW i \in Slot, Type(i) \/ ExecuteAlias(i) \/ LookUp(i) \/ Reply(i),
         NEW u, Agreeing(u)
  PROVE  Agreeing(u)'
<1>1. UNCHANGED <<accessUser, tracked, loop, banned, reports>>
  BY DEF Type, ExecuteAlias, LookUp, Reply, server, histories
<1>2. UNCHANGED saych \/ Queued("say", Anybody)
  BY DEF Type, ExecuteAlias, LookUp, Reply, Queued
<1>3. PICK c : cmd' = [cmd EXCEPT ![i] = c]
  BY Zenon DEF Type, ExecuteAlias, LookUp, Reply
<1>4. cmd[i].phase # "say"
  BY DEF Type, ExecuteAlias, LookUp, Reply, NoCommand
<1>5. ASSUME NEW t, Asked(t, u)  PROVE Asked(t, u)'
  <2>1. Holds(saych, {t}, u) => Holds(saych', {t}, u)
    BY <1>2, LineQueued DEF Shape
  <2>2. Says(t, u) => Says(t, u)'
    BY <1>3, <1>4, SaysKept DEF Shape
  <2>3. QED
    BY <1>5, <2>1, <2>2 DEF Asked
<1>6. Kept(u) /\ (Persisting(u)' <=> Persisting(u))
  BY <1>1 DEF Kept, Persisting
<1>7. QED
  BY <1>1, <1>5, <1>6, Undisturbed

LEMMA ChangeLevelAgrees ==
  ASSUME Shape, NeutralDefaults, NEW i \in Slot, ChangeLevel(i), NEW u \in Users, Agreeing(u)
  PROVE  Agreeing(u)'
<1>1. PICK x \in cmd[i].todo :
        LET name == cmd[i].cmd
            next == [cmd[i] EXCEPT !.todo = @ \ {x}, !.cur = x.id] IN
        /\ cmd' = [cmd EXCEPT ![i] = IF name = "set" THEN next ELSE [next EXCEPT !.phase = "say"]]
        /\ CASE name = "set" -> SetUserAccess(x.id, SetLevel(next), FALSE)
             [] name = "ban" -> SetUserAccess(x.id, AccessBan, TRUE)
             [] name = "unban" /\ x.access < AccessDefault -> SetUserAccess(x.id, AccessDefault, TRUE)
             [] OTHER -> UNCHANGED <<accessUser, tracked>>
  BY Zenon DEF ChangeLevel
<1>2. UNCHANGED <<reports, banned, loop, saych>> /\ cmd[i].phase # "say"
  BY DEF ChangeLevel, server
<1>3. PICK c : cmd' = [cmd EXCEPT ![i] = c]
  BY <1>1, Zenon
<1>4. ASSUME NEW t, Asked(t, u)  PROVE Asked(t, u)'
  <2>1. Says(t, u) => Says(t, u)'
    BY <1>2, <1>3, SaysKept DEF Shape
  <2>2. QED
    BY <1>2, <1>4, <2>1 DEF Asked
<1>5. Kept(u) /\ (Persisting(u)' <=> Persisting(u))
  BY <1>2 DEF Kept, Persisting
<1>6. u \in Ids
  BY DEF Ids
(* The level of u is left alone, or no longer tracked.                     *)
<1>7. ASSUME tracked'[u] => tracked[u] /\ accessUser'[u] = accessUser[u]
      PROVE  Agreeing(u)'
  BY <1>2, <1>4, <1>5, <1>7, Undisturbed
(* The line comes next.                                                    *)
<1>8. ASSUME NEW t, cmd[i].cmd = t, t # "set", x.id = u  PROVE Asked(t, u)'
  <2>1. cmd'[i] = [[cmd[i] EXCEPT !.todo = cmd[i].todo \ {x}, !.cur = x.id] EXCEPT !.phase = "say"]
    BY <1>1, <1>8 DEF Shape, LInv
  <2>2. Record(cmd[i])
    BY DEF Shape, LInv
  <2>3. cmd'[i].phase = "say" /\ cmd'[i].cmd = cmd[i].cmd /\ cmd'[i].cur = x.id
    <3>1. PICK k, s, y, d : k = cmd[i] /\ s = cmd[i].todo \ {x} /\ y = x.id /\ d = cmd'[i]
      OBVIOUS
    <3>2. PICK c1, c2, c3, c4, c5, c6 :
            k = [phase |-> c1, by |-> c2, cmd |-> c3, args |-> c4, todo |-> c5, cur |-> c6]
      BY <2>2, <3>1 DEF Record
    <3>3. d = [[k EXCEPT !.todo = s, !.cur = y] EXCEPT !.phase = "say"]
      BY <2>1, <3>1
    <3>4. d = [phase |-> "say", by |-> c2, cmd |-> c3, args |-> c4, todo |-> s, cur |-> y]
      BY <3>2, <3>3
    <3>5. d.phase = "say" /\ d.cmd = k.cmd /\ d.cur = y
      BY <3>2, <3>4
    <3>6. QED
      BY <3>1, <3>5
  <2>4. QED
    BY <1>8, <2>3 DEF Asked, Says
<1>9. ASSUME NEW a, NEW b, SetUserAccess(x.id, a, b), x.id # u \/ b = FALSE  PROVE Agreeing(u)'
  BY <1>6, <1>7, <1>9, Changes
<1>10. CASE cmd[i].cmd = "set"
  <2>1. \E a : SetUserAccess(x.id, a, FALSE)
    BY <1>1, <1>10, Zenon
  <2>2. QED
    BY <1>9, <2>1
<1>11. CASE cmd[i].cmd = "ban"
  <2>1. SetUserAccess(x.id, AccessBan, TRUE)
    BY <1>1, <1>11
  <2>2. CASE x.id # u
    BY <1>9, <2>1, <2>2
  <2>3. CASE x.id = u
    <3>1. accessUser'[u] = AccessBan
      <4>1. accessUser'[u] = IF AccessBan = AccessDefault THEN DefaultUser[u] ELSE AccessBan
        BY <1>6, <2>1, <2>3, Changes
      <4>2. AccessBan # AccessDefault
        BY Levels
      <4>3. QED
        BY <4>1, <4>2
    <3>2. Under(u)' /\ accessUser'[u] < AccessWhitelist
      BY <3>1, Levels DEF Under, AccessBan
    <3>3. QED
      BY <1>2, <1>8, <1>11, <2>3, <3>2, DecidedAgrees
  <2>4. QED
    BY <2>2, <2>3
<1>12. CASE cmd[i].cmd = "unban" /\ x.access < AccessDefault
  <2>1. SetUserAccess(x.id, AccessDefault, TRUE)
    BY <1>1, <1>12
  <2>2. CASE x.id # u
    BY <1>9, <2>1, <2>2
  <2>3. CASE x.id = u
    <3>1. accessUser'[u] = DefaultUser[u]
      BY <1>6, <2>1, <2>3, Changes
    <3>2. DefaultUser[u] \in Int
      BY <1>6, UsersAssumption, Bounds
    <3>3. ~Under(u)' /\ accessUser'[u] < AccessWhitelist
      BY <3>1, <3>2, Levels DEF Under, AccessBan, NeutralDefaults
    <3>4. QED
      BY <1>2, <1>8, <1>12, <2>3, <3>3, DecidedAgrees
  <2>4. QED
    BY <2>2, <2>3
<1>13. CASE cmd[i].cmd # "set" /\ cmd[i].cmd # "ban" /\ ~(cmd[i].cmd = "unban" /\ x.access < AccessDefault)
  <2>1. UNCHANGED <<accessUser, tracked>>
    BY <1>1, <1>13
  <2>2. QED
    BY <1>7, <2>1
<1>14. QED
  BY <1>10, <1>11, <1>12, <1>13

LEMMA SendLineAgrees ==
  ASSUME Shape, NEW i \in Slot, SendLine(i), NEW u \in Users, Agreeing(u)
  PROVE  Agreeing(u)'
<1>1. UNCHANGED <<accessUser, reports, banned, loop>>
  BY DEF SendLine, server
<1>2. Kept(u) /\ (Persisting(u)' <=> Persisting(u)) /\ u \in Ids
  BY <1>1 DEF Kept, Persisting, Ids
<1>3. \A j \in Slot : j # i => cmd'[j] = cmd[j]
  BY DEF SendLine, Shape, LInv
<1>4. CASE Send(Line(cmd[i].cmd, cmd[i].cur)) /\ UNCHANGED tracked
  <2>1. Queued(cmd[i].cmd, cmd[i].cur)
    BY <1>4 DEF Send, Queued
  <2>2. ASSUME NEW t, Asked(t, u)  PROVE Asked(t, u)'
    <3>1. Holds(saych', {t}, u) <=> Holds(saych, {t}, u) \/ (cmd[i].cmd \in {t} /\ cmd[i].cur = u)
      BY <2>1, LineQueued DEF Shape
    <3>2. Says(t, u) => Says(t, u)' \/ (cmd[i].cmd \in {t} /\ cmd[i].cur = u)
      BY <1>3 DEF Says
    <3>3. QED
      BY <2>2, <3>1, <3>2 DEF Asked
  <2>3. QED
    BY <1>1, <1>2, <1>4, <2>2, Undisturbed
<1>5. CASE /\ tracked' = IF cmd[i].cmd = "kick" THEN tracked ELSE [tracked EXCEPT ![cmd[i].cur] = FALSE]
           /\ UNCHANGED saych
  <2>1. tracked'[u] => tracked[u] /\ ~(cmd[i].cmd \in {"ban", "unban"} /\ cmd[i].cur = u)
    BY <1>2, <1>5, Untracked
  <2>2. ASSUME NEW t \in {"ban", "unban"}, Asked(t, u), tracked'[u]  PROVE Asked(t, u)'
    BY <1>3, <1>5, <2>1, <2>2 DEF Asked, Says
  <2>3. QED
    BY <1>1, <1>2, <2>1, <2>2, Undisturbed
<1>6. QED
  BY <1>4, <1>5 DEF SendLine

LEMMA AutoKickAgrees ==
  ASSUME Shape, AutoKick, NEW u \in Users, Agreeing(u)
  PROVE  Agreeing(u)'
<1>1. UNCHANGED <<accessUser, tracked, reports, banned, cmd>> /\ ~Persisting(u) /\ ~Persisting(u)'
  BY DEF AutoKick, server, Persisting, Idle
<1>2. UNCHANGED saych \/ \E t : Queued(t, loop.id)
  BY DEF AutoKick, Send, Queued
<1>3. ASSUME NEW t, Asked(t, u)  PROVE Asked(t, u)'
  <2>1. Holds(saych, {t}, u) => Holds(saych', {t}, u)
    BY <1>2, LineQueued DEF Shape
  <2>2. QED
    BY <1>1, <1>3, <2>1 DEF Asked, Says
<1>4. Kept(u)
  BY <1>1 DEF Kept
<1>5. QED
  BY <1>1, <1>3, <1>4, Undisturbed

(* The last report is the truth; the level agrees, or is made to.          *)
LEMMA ReadAgrees ==
  ASSUME Shape, Read, NEW u \in Users, Agreeing(u)
  PROVE  Agreeing(u)'
<1> DEFINE r == Head(reports)
<1>1. /\ UNCHANGED <<accessUser, tracked, banned, saych, cmd>>
      /\ reports # <<>> /\ reports' = Tail(reports) /\ IsSeq(reports)
  BY DEF Read, server, Shape
<1>2. loop' = CASE Persists(r) -> About("persist", r.id, IF r.type = "banned" THEN AccessBan ELSE AccessDefault)
                [] Kicks(r) -> About("kick", r.id, user(r.id))
                [] OTHER -> Idle
  BY DEF Read
<1>3. ~Persisting(u)
  BY DEF Read, Persisting, Idle
<1>4. accessUser[u] \in Int
  BY Bounds DEF Shape, LInv, Ids
<1>5. /\ Latest(reports', u, banned)
      /\ r.type \in Turns /\ r.id = u =>
              (r.type = "banned" <=> u \in banned) \/ Holds(reports', Turns, u)
  BY <1>1, LatestTail DEF Agreeing
<1>6. Holds(reports, Turns, u) <=> Holds(reports', Turns, u) \/ (r.type \in Turns /\ r.id = u)
  BY <1>1, HoldsTail
<1> HIDE DEF r
<1>7. /\ Persisting(u)' <=> Persists(r) /\ r.id = u
      /\ Persisting(u)' => r.type \in Turns /\ r.id = u /\ (loop'.access = AccessBan <=> r.type = "banned")
  <2>1. CASE Persists(r)
    <3>1. PICK a : a = IF r.type = "banned" THEN AccessBan ELSE AccessDefault
      OBVIOUS
    <3>2. loop' = About("persist", r.id, a)
      <4>1. ~Kicks(r)
        BY <2>1 DEF Persists, Kicks
      <4>2. QED
        BY <1>2, <2>1, <3>1, <4>1
    <3>3. loop'.step = "persist" /\ loop'.id = r.id /\ loop'.access = a
      BY <3>2 DEF About
    <3>4. r.type \in Turns
      BY <2>1 DEF Persists, Turns
    <3>5. a = AccessBan <=> r.type = "banned"
      BY <3>1, Levels
    <3>6. QED
      BY <2>1, <3>3, <3>4, <3>5 DEF Persisting
  <2>2. CASE ~Persists(r)
    <3>1. PICK a : loop' = About("kick", r.id, a) \/ loop' = Idle
      BY <1>2, <2>2
    <3>2. loop'.step # "persist"
      BY <3>1 DEF About, Idle
    <3>3. QED
      BY <2>2, <3>2 DEF Persisting
  <2>3. QED
    BY <2>1, <2>2
<1>8. Persisting(u)' => r.type \in Turns /\ r.id = u /\ (loop'.access = AccessBan <=> r.type = "banned")
  BY <1>7
<1>9. \A t : Asked(t, u)' <=> Asked(t, u)
  BY <1>1 DEF Asked, Says
<1>10. Under(u)' <=> Under(u)
  BY <1>1 DEF Under, AccessBan
<1>11. ASSUME tracked[u], u \in banned, ~Under(u)
       PROVE  Holds(reports', Turns, u) \/ Persisting(u)' \/ Asked("unban", u)'
  <2>1. r.type = "banned" /\ r.id = u => Persists(r)
    BY <1>4, <1>11, Levels DEF Agreeing, Persists, Under
  <2>2. QED
    BY <1>3, <1>5, <1>6, <1>7, <1>9, <1>11, <2>1 DEF Agreeing, Turns
<1>12. ASSUME tracked[u], u \notin banned, Under(u)
       PROVE  Holds(reports', Turns, u) \/ Persisting(u)' \/ Asked("ban", u)'
  <2>1. r.type = "unbanned" /\ r.id = u => Persists(r)
    BY <1>4, <1>12, Levels DEF Persists, Under
  <2>2. QED
    BY <1>3, <1>5, <1>6, <1>7, <1>9, <1>12, <2>1 DEF Agreeing, Turns
<1>13. Latest(reports, u, banned)'
  BY <1>1, <1>5
<1>14. (Persisting(u) => Holds(reports, Turns, u) \/ (loop.access = AccessBan <=> u \in banned))'
  BY <1>1, <1>5, <1>8 DEF AccessBan
<1>15. (tracked[u] => accessUser[u] < AccessWhitelist)'
  BY <1>1 DEF Agreeing, AccessWhitelist
<1>16. QED
  BY <1>1, <1>10, <1>11, <1>12, <1>13, <1>14, <1>15 DEF Agreeing

LEMMA PersistAgrees ==
  ASSUME Shape, NeutralDefaults, Persist, NEW u \in Users, Agreeing(u)
  PROVE  Agreeing(u)'
<1>1. UNCHANGED <<reports, banned, saych, cmd>> /\ SetUserAccess(loop.id, loop.access, TRUE)
  BY DEF Persist, server
<1>2. ~Persisting(u)' /\ u \in Ids /\ loop.access \in {AccessBan, AccessDefault}
  BY DEF Persist, Persisting, Idle, Ids, Shape
<1>3. CASE loop.id # u
  <2>1. accessUser'[u] = accessUser[u] /\ tracked'[u] = tracked[u] /\ ~Persisting(u)
    BY <1>1, <1>2, <1>3, Changes DEF Persisting
  <2>2. Kept(u) /\ \A t : Asked(t, u)' <=> Asked(t, u)
    BY <1>1 DEF Kept, Asked, Says
  <2>3. QED
    BY <1>2, <2>1, <2>2, Undisturbed
<1>4. CASE loop.id = u
  <2>1. accessUser'[u] = IF loop.access = AccessDefault THEN DefaultUser[u] ELSE loop.access
    BY <1>1, <1>2, <1>4, Changes
  <2>2. DefaultUser[u] \in Int
    BY <1>2, UsersAssumption, Bounds
  <2>3. accessUser'[u] < AccessWhitelist /\ (Under(u)' <=> loop.access = AccessBan)
    <3>1. CASE loop.access = AccessBan
      BY <2>1, <3>1, Levels DEF Under, AccessBan
    <3>2. CASE loop.access = AccessDefault
      <4>1. accessUser'[u] = DefaultUser[u] /\ loop.access # AccessBan
        BY <2>1, <3>2, Levels
      <4>2. QED
        BY <2>2, <4>1, Levels DEF Under, AccessBan, NeutralDefaults
    <3>3. QED
      BY <1>2, <3>1, <3>2
  <2>4. Holds(reports, Turns, u) \/ (loop.access = AccessBan <=> u \in banned)
    BY <1>4 DEF Agreeing, Persisting, Persist
  <2>5. Latest(reports, u, banned)' /\ (Holds(reports, Turns, u)' <=> Holds(reports, Turns, u))
    BY <1>1 DEF Agreeing
  <2>6. QED
    BY <1>1, <1>2, <2>3, <2>4, <2>5 DEF Agreeing, AccessWhitelist
<1>5. QED
  BY <1>3, <1>4

LEMMA ServeAgrees ==
  ASSUME Shape, Serve, NEW u \in Users, Agreeing(u)
  PROVE  Agreeing(u)'
<1> DEFINE l == Head(saych)
<1>1. /\ UNCHANGED <<accessUser, loop, cmd>>
      /\ saych # <<>> /\ saych' = Tail(saych) /\ IsSeq(saych) /\ IsSeq(reports)
  BY DEF Serve, Shape
<1>2. \A t : Holds(saych, {t}, u) <=> Holds(saych', {t}, u) \/ (l.type \in {t} /\ l.id = u)
  BY <1>1, HoldsTail
<1>3. Persisting(u)' <=> Persisting(u)
  BY <1>1 DEF Persisting
<1>4. \/ l.type = "ban" /\ BanAtServer(l.id) /\ UNCHANGED tracked
      \/ l.type = "unban" /\ UnbanAtServer(l.id) /\ UNCHANGED tracked
      \/ l.type = "kick" /\ KickAtServer(l.id) /\ UNCHANGED tracked
      \/ /\ \/ l.type = "say"
            \/ l.type = "ban" /\ l.id \notin Users \ banned
            \/ l.type = "unban" /\ l.id \notin banned
            \/ l.type = "kick" /\ l.id \notin channel
         /\ UNCHANGED <<banned, reports, tracked>>
      \/ /\ tracked' = IF l.type = "kick" THEN tracked ELSE [tracked EXCEPT ![l.id] = FALSE]
         /\ UNCHANGED <<banned, reports>>
  BY DEF Serve
<1> HIDE DEF l
(* The line at the head of the queue is not about u, or is not needed.     *)
<1>5. ASSUME NEW t, Asked(t, u), ~(l.type = t /\ l.id = u)  PROVE Asked(t, u)'
  BY <1>1, <1>2, <1>5 DEF Asked, Says
<1>6. CASE l.type = "ban" /\ BanAtServer(l.id) /\ UNCHANGED tracked
  <2>1. Reported(l.id) /\ \A v : v # l.id => Kept(v)
    BY <1>1, <1>6, BanEffect
  <2>2. CASE u = l.id
    BY <1>1, <1>6, <2>1, <2>2, ReportedAgrees
  <2>3. CASE u # l.id
    BY <1>1, <1>3, <1>5, <1>6, <2>1, <2>3, Undisturbed
  <2>4. QED
    BY <2>2, <2>3
<1>7. CASE l.type = "unban" /\ UnbanAtServer(l.id) /\ UNCHANGED tracked
  <2>1. Reported(l.id) /\ \A v : v # l.id => Kept(v)
    BY <1>1, <1>7, UnbanEffect
  <2>2. CASE u = l.id
    BY <1>1, <1>7, <2>1, <2>2, ReportedAgrees
  <2>3. CASE u # l.id
    BY <1>1, <1>3, <1>5, <1>7, <2>1, <2>3, Undisturbed
  <2>4. QED
    BY <2>2, <2>3
<1>8. CASE l.type = "kick" /\ KickAtServer(l.id) /\ UNCHANGED tracked
  <2>1. Kept(u)
    BY <1>1, <1>8, KickEffect
  <2>2. QED
    BY <1>1, <1>3, <1>5, <1>8, <2>1, Undisturbed
<1>9. CASE /\ \/ l.type = "say"
              \/ l.type = "ban" /\ l.id \notin Users \ banned
              \/ l.type = "unban" /\ l.id \notin banned
              \/ l.type = "kick" /\ l.id \notin channel
           /\ UNCHANGED <<banned, reports, tracked>>
  <2>1. Kept(u)
    BY <1>9 DEF Kept
  <2>2. u \in banned => ~(l.type = "unban" /\ l.id = u)
    BY <1>9
  <2>3. u \notin banned => ~(l.type = "ban" /\ l.id = u)
    BY <1>9
  <2>4. QED
    BY <1>1, <1>3, <1>5, <1>9, <2>1, <2>2, <2>3, Undisturbed
<1>10. CASE /\ tracked' = IF l.type = "kick" THEN tracked ELSE [tracked EXCEPT ![l.id] = FALSE]
            /\ UNCHANGED <<banned, reports>>
  <2>1. Kept(u)
    BY <1>10 DEF Kept
  <2>2. tracked'[u] => tracked[u] /\ (l.id = u => l.type = "kick")
    BY <1>10, Untracked DEF Ids
  <2>3. QED
    BY <1>1, <1>3, <1>5, <2>1, <2>2, Undisturbed
<1>11. QED
  BY <1>4, <1>6, <1>7, <1>8, <1>9, <1>10

LEMMA PeopleAgree ==
  ASSUME Shape, People, NEW u \in Users, Agreeing(u)
  PROVE  Agreeing(u)'
<1>1. UNCHANGED <<accessUser, loop, cmd, saych, tracked>> /\ IsSeq(reports)
  BY DEF People, bot, histories, Shape
<1>2. Persisting(u)' <=> Persisting(u)
  BY <1>1 DEF Persisting
<1>3. \A t : Asked(t, u)' <=> Asked(t, u)
  BY <1>1 DEF Asked, Says
<1>4. ASSUME Kept(u)  PROVE Agreeing(u)'
  BY <1>1, <1>2, <1>3, <1>4, Undisturbed
<1>5. ASSUME Reported(u)  PROVE Agreeing(u)'
  BY <1>1, <1>5, ReportedAgrees
<1>6. \/ \E v : Joins(v) \/ Talks(v) \/ KickAtServer(v) \/ BanAtServer(v) \/ UnbanAtServer(v)
      \/ Opped
  BY Zenon DEF People
<1>7. ASSUME NEW v, Joins(v) \/ Talks(v)  PROVE Kept(u)
  <2>1. UNCHANGED banned /\ (Noted("joined", v) \/ Noted("talked", v))
    BY <1>7 DEF Joins, Talks, server, Noted, Turns
  <2>2. QED
    BY <1>1, <2>1, NotedKept
<1>8. ASSUME Opped  PROVE Kept(u)
  <2>1. UNCHANGED banned /\ (Noted("opped", Anybody) \/ Noted("deopped", Anybody))
    BY <1>8 DEF Opped, Noted, Turns
  <2>2. QED
    BY <1>1, <2>1, NotedKept
<1>9. ASSUME NEW v, KickAtServer(v)  PROVE Kept(u)
  BY <1>1, <1>9, KickEffect
<1>10. ASSUME NEW v, BanAtServer(v) \/ UnbanAtServer(v)  PROVE Kept(u) \/ Reported(u)
  BY <1>1, <1>10, BanEffect, UnbanEffect
<1>11. QED
  BY <1>4, <1>5, <1>6, <1>7, <1>8, <1>9, <1>10

AInv == Shape /\ \A u \in Users : Agreeing(u)

LEMMA AInvInit == Init => AInv
<1> SUFFICES ASSUME Init PROVE AInv
  OBVIOUS
<1>1. reports = <<>> /\ loop.step # "persist"
  BY DEF Init, Idle
<1>2. \A u \in Users : ~tracked[u]
  BY DEF Init, Ids
<1>3. ASSUME NEW u \in Users  PROVE Agreeing(u)
  BY <1>1, <1>2 DEF Agreeing, Latest, Persisting
<1>4. QED
  BY <1>3, ShapeInit DEF AInv

LEMMA AInvStep == NeutralDefaults /\ AInv /\ [Next]_vars => AInv'
<1> SUFFICES ASSUME NeutralDefaults, AInv, [Next]_vars PROVE AInv'
  OBVIOUS
<1>1. Shape /\ Shape'
  BY ShapeStep DEF AInv
<1>2. ASSUME NEW u \in Users  PROVE Agreeing(u)'
  <2>1. Agreeing(u)
    BY DEF AInv
  <2>2. ASSUME NEW i \in Slot, Type(i) \/ Execute(i)  PROVE Agreeing(u)'
    BY <1>1, <2>1, <2>2, QuietCommand, ChangeLevelAgrees, SendLineAgrees DEF Execute
  <2>3. CASE Handle
    BY <1>1, <2>1, <2>3, ReadAgrees, PersistAgrees, AutoKickAgrees DEF Handle
  <2>4. CASE Serve
    BY <1>1, <2>1, <2>4, ServeAgrees
  <2>5. CASE People
    BY <1>1, <2>1, <2>5, PeopleAgree
  <2>6. CASE UNCHANGED vars
    <3>1. UNCHANGED <<accessUser, tracked, loop, banned, reports, saych, cmd>>
      BY <2>6 DEF vars, bot, server, histories
    <3>2. Kept(u) /\ (Persisting(u)' <=> Persisting(u)) /\ \A t : Asked(t, u)' <=> Asked(t, u)
      BY <3>1 DEF Kept, Persisting, Asked, Says
    <3>3. QED
      BY <2>1, <3>1, <3>2, Undisturbed
  <2>7. QED
    BY <2>2, <2>3, <2>4, <2>5, <2>6, Zenon DEF Next
<1>3. QED
  BY <1>1, <1>2 DEF AInv

(* When all is quiet nothing is left to make up a difference.              *)
LEMMA AInvAgrees == AInv => BansAgree
<1> SUFFICES ASSUME AInv, Quiet, NEW u \in Users, tracked[u]
             PROVE  (u \in banned) = (accessUser[u] <= AccessBan)
  BY DEF BansAgree
<1>1. Agreeing(u)
  BY DEF AInv
<1>2. reports = <<>> /\ saych = <<>> /\ loop.step # "persist"
  BY DEF Quiet, Idle
<1>3. ~Holds(reports, Turns, u) /\ ~Persisting(u) /\ \A t : ~Holds(saych, {t}, u)
  BY <1>2 DEF Holds, Persisting
<1>4. \A t : ~Says(t, u)
  BY DEF Quiet, AtRest, Says
<1>5. u \in banned <=> Under(u)
  BY <1>1, <1>3, <1>4 DEF Agreeing, Asked
<1>6. QED
  BY <1>5 DEF Under

(* In the end a user's level is that of a banned one exactly if he is      *)
(* banned, unless set gave it or a line was refused (ban.go, unban.go,     *)
(* onSystemMessage of bnet.go): for any users, operators, patterns,        *)
(* aliases, and lengths of the queue, where the section of defaults does   *)
(* not itself ban, or trust, a user.                                       *)
THEOREM LevelsAgreeWithServer == NeutralDefaults => (Spec => []BansAgree)
<1> SUFFICES ASSUME NeutralDefaults PROVE Spec => []BansAgree
  OBVIOUS
<1>1. AInv /\ [Next]_vars => AInv'
  BY AInvStep
<1>2. QED
  BY <1>1, AInvInit, AInvAgrees, PTL DEF Spec

-----------------------------------------------------------------------------
(* Intruders are removed *)

(* Who is in the channel and was to be kicked when the bot last saw him    *)
(* has the handler, a line on its way, or an unread Join against him.      *)
Chased(u) ==
  \/ loop.step = "kick" /\ loop.id = u
  \/ Holds(saych, {"ban", "kick"}, u)
  \/ Holds(reports, {"joined"}, u)

Removing(u) == u \in channel /\ unwanted[u] /\ ~lapsed => Chased(u)

(* Records that are appended to the lines and reports take nobody away.    *)
LEMMA StillChased ==
  ASSUME Shape, NEW u, Removing(u),
         u \in channel' => u \in channel \/ Holds(reports', {"joined"}, u),
         unwanted'[u] => unwanted[u], lapsed => lapsed',
         UNCHANGED loop,
         UNCHANGED saych \/ \E t, v : Queued(t, v),
         Holds(reports, {"joined"}, u) => Holds(reports', {"joined"}, u)
  PROVE  Removing(u)'
<1>1. Holds(saych, {"ban", "kick"}, u) => Holds(saych', {"ban", "kick"}, u)
  BY LineQueued DEF Shape
<1>2. QED
  BY <1>1 DEF Removing, Chased

LEMMA CommandsChase ==
  ASSUME Shape, NEW i \in Slot, Type(i) \/ Execute(i), NEW u, Removing(u)
  PROVE  Removing(u)'
<1>1. UNCHANGED <<channel, unwanted, loop, reports>> /\ (lapsed => lapsed')
  <2>1. CASE ChangeLevel(i)
    BY <2>1 DEF ChangeLevel, server
  <2>2. CASE SendLine(i)
    BY <2>2 DEF SendLine, server
  <2>3. CASE Type(i) \/ ExecuteAlias(i) \/ LookUp(i) \/ Reply(i)
    BY <2>3 DEF Type, ExecuteAlias, LookUp, Reply, server, histories
  <2>4. QED
    BY <2>1, <2>2, <2>3 DEF Execute
<1>2. UNCHANGED saych \/ \E t, v : Queued(t, v)
  <2>1. CASE SendLine(i)
    BY <2>1 DEF SendLine, Send, Queued
  <2>2. CASE Reply(i)
    BY <2>2 DEF Reply, Queued
  <2>3. CASE ChangeLevel(i)
    BY <2>3 DEF ChangeLevel
  <2>4. CASE Type(i) \/ ExecuteAlias(i) \/ LookUp(i)
    BY <2>4 DEF Type, ExecuteAlias, LookUp
  <2>5. QED
    BY <2>1, <2>2, <2>3, <2>4 DEF Execute
<1>3. QED
  BY <1>1, <1>2, StillChased

LEMMA ReadChases ==
  ASSUME Shape, Read, NEW u \in Users, Removing(u)
  PROVE  Removing(u)'
<1> DEFINE r == Head(reports)
<1>1. /\ UNCHANGED <<channel, saych, lapsed>> /\ loop.step # "kick"
      /\ reports # <<>> /\ reports' = Tail(reports) /\ IsSeq(reports)
  BY DEF Read, server, Shape, Idle
<1>2. loop' = CASE Persists(r) -> About("persist", r.id, IF r.type = "banned" THEN AccessBan ELSE AccessDefault)
                [] Kicks(r) -> About("kick", r.id, user(r.id))
                [] OTHER -> Idle
  BY DEF Read
<1>3. unwanted' = IF r.type \in {"joined", "talked", "left"}
                    THEN [unwanted EXCEPT ![r.id] = r.type # "left" /\ user(r.id) <= AccessKick]
                    ELSE unwanted
  BY DEF Read
<1>4. Holds(reports, {"joined"}, u) <=> Holds(reports', {"joined"}, u) \/ (r.type \in {"joined"} /\ r.id = u)
  BY <1>1, HoldsTail
<1>5. unwanted = [v \in Users |-> unwanted[v]]
  BY DEF Shape
<1> HIDE DEF r
(* He is not reported: what there was against him is still there.          *)
<1>6. CASE ~(r.type \in {"joined", "talked", "left"} /\ r.id = u)
  <2>1. unwanted'[u] = unwanted[u]
    BY <1>3, <1>5, <1>6
  <2>2. QED
    BY <1>1, <1>4, <1>6, <2>1 DEF Removing, Chased
(* He is reported, and his level is looked at again.                       *)
<1>7. CASE r.type \in {"joined", "talked", "left"} /\ r.id = u
  <2>1. unwanted'[u] = (r.type # "left" /\ user(u) <= AccessKick)
    BY <1>3, <1>5, <1>7
  <2>2. ASSUME unwanted'[u]  PROVE loop'.step = "kick" /\ loop'.id = u
    <3>1. Kicks(r) /\ ~Persists(r)
      BY <1>7, <2>1, <2>2 DEF Kicks, Persists
    <3>2. PICK a : loop' = About("kick", r.id, a)
      BY <1>2, <3>1
    <3>3. QED
      BY <1>7, <3>2 DEF About
  <2>3. QED
    BY <2>2 DEF Removing, Chased
<1>8. QED
  BY <1>6, <1>7

LEMMA AutoKickChases ==
  ASSUME Shape, AutoKick, NEW u, Removing(u)
  PROVE  Removing(u)'
<1>1. UNCHANGED <<channel, unwanted, reports>>
  BY DEF AutoKick, server
<1>2. CASE lapsed'
  BY <1>2 DEF Removing
<1>3. CASE ~lapsed'
  <2>1. PICK t \in {"ban", "kick"} : Queued(t, loop.id) /\ UNCHANGED lapsed
    BY <1>3 DEF AutoKick, Send, Queued
  <2>2. Holds(saych', {"ban", "kick"}, u) <=> Holds(saych, {"ban", "kick"}, u) \/ loop.id = u
    BY <2>1, LineQueued DEF Shape
  <2>3. QED
    BY <1>1, <2>1, <2>2 DEF Removing, Chased
<1>4. QED
  BY <1>2, <1>3

(* The server takes a line against u and obeys: he is not there any more.  *)
LEMMA ServeChases ==
  ASSUME Shape, Serve, NEW u \in Users, Removing(u)
  PROVE  Removing(u)'
<1> DEFINE l == Head(saych)
<1>1. /\ UNCHANGED <<unwanted, loop>>
      /\ saych # <<>> /\ saych' = Tail(saych) /\ IsSeq(saych) /\ IsSeq(reports)
  BY DEF Serve, Shape
<1>2. /\ Holds(saych, {"ban", "kick"}, u)
           <=> Holds(saych', {"ban", "kick"}, u) \/ (l.type \in {"ban", "kick"} /\ l.id = u)
  BY <1>1, HoldsTail
<1>3. CASE lapsed'
  BY <1>3 DEF Removing
<1>4. CASE ~lapsed'
  <2>1. /\ UNCHANGED lapsed
        /\ \/ l.type = "ban" /\ BanAtServer(l.id)
           \/ l.type = "unban" /\ UnbanAtServer(l.id)
           \/ l.type = "kick" /\ KickAtServer(l.id)
           \/ /\ \/ l.type = "say"
                 \/ l.type = "ban" /\ l.id \notin Users \ banned
                 \/ l.type = "unban" /\ l.id \notin banned
                 \/ l.type = "kick" /\ l.id \notin channel
              /\ UNCHANGED <<channel, reports>>
    BY <1>4 DEF Serve
  <2> HIDE DEF l
  <2>2. u \in channel' => u \in channel /\ ~(l.type \in {"ban", "kick"} /\ l.id = u)
    BY <1>1, <2>1, BanEffect, UnbanEffect, KickEffect DEF Shape
  <2>3. Holds(reports, {"joined"}, u) => Holds(reports', {"joined"}, u)
    <3>1. CASE UNCHANGED reports
      BY <3>1
    <3>2. ASSUME NEW v, BanAtServer(v)  PROVE Holds(reports, {"joined"}, u) => Holds(reports', {"joined"}, u)
      <4> DEFINE s == Append(reports, Line("banned", v))
      <4>1. reports' = s \/ reports' = Append(s, Line("left", v))
        BY <1>1, <3>2, BanReports DEF BanAtServer
      <4>2. IsSeq(s) /\ (Holds(reports, {"joined"}, u) => Holds(s, {"joined"}, u))
        BY <1>1, AppendSeq, HoldsAppend
      <4> HIDE DEF s
      <4>3. Holds(s, {"joined"}, u) => Holds(Append(s, Line("left", v)), {"joined"}, u)
        BY <4>2, HoldsAppend
      <4>4. QED
        BY <4>1, <4>2, <4>3
    <3>3. ASSUME NEW v, UnbanAtServer(v) \/ KickAtServer(v)
          PROVE  Holds(reports, {"joined"}, u) => Holds(reports', {"joined"}, u)
      <4>1. PICK t : reports' = Append(reports, Line(t, v))
        BY <3>3 DEF UnbanAtServer, KickAtServer
      <4>2. QED
        BY <1>1, <4>1, HoldsAppend
    <3>4. QED
      BY <2>1, <3>1, <3>2, <3>3
  <2>4. QED
    BY <1>1, <1>2, <2>1, <2>2, <2>3 DEF Removing, Chased
<1>5. QED
  BY <1>3, <1>4

LEMMA PeopleChased ==
  ASSUME Shape, People, NEW u \in Users, Removing(u)
  PROVE  Removing(u)'
<1>1. UNCHANGED <<loop, saych, unwanted, lapsed>> /\ IsSeq(reports)
  BY DEF People, bot, histories, Shape
<1>2. \/ \E v : Joins(v) \/ Talks(v) \/ KickAtServer(v) \/ BanAtServer(v) \/ UnbanAtServer(v)
      \/ Opped
  BY Zenon DEF People
<1>3. ASSUME NEW v, BanAtServer(v)
      PROVE  /\ Holds(reports, {"joined"}, u) => Holds(reports', {"joined"}, u)
             /\ u \in channel' => u \in channel
  <2> DEFINE s == Append(reports, Line("banned", v))
  <2>1. reports' = s \/ reports' = Append(s, Line("left", v))
    BY <1>1, <1>3, BanReports DEF BanAtServer
  <2>2. IsSeq(s) /\ (Holds(reports, {"joined"}, u) => Holds(s, {"joined"}, u))
    BY <1>1, AppendSeq, HoldsAppend
  <2> HIDE DEF s
  <2>3. Holds(s, {"joined"}, u) => Holds(Append(s, Line("left", v)), {"joined"}, u)
    BY <2>2, HoldsAppend
  <2>4. u \in channel' => u \in channel
    BY <1>3 DEF BanAtServer
  <2>5. QED
    BY <2>1, <2>2, <2>3, <2>4
<1>4. ASSUME \/ Opped
             \/ \E v : Joins(v) \/ Talks(v) \/ KickAtServer(v) \/ UnbanAtServer(v)
      PROVE  /\ Holds(reports, {"joined"}, u) => Holds(reports', {"joined"}, u)
             /\ u \in channel' => u \in channel \/ Holds(reports', {"joined"}, u)
  <2>1. PICK t, v : /\ reports' = Append(reports, Line(t, v))
                    /\ channel' \subseteq channel \/ (t = "joined" /\ channel' = channel \cup {v})
    BY <1>4 DEF Opped, Joins, Talks, KickAtServer, UnbanAtServer, server
  <2>2. Holds(reports', {"joined"}, u) <=> Holds(reports, {"joined"}, u) \/ (t \in {"joined"} /\ v = u)
    BY <1>1, <2>1, HoldsAppend, LineFields
  <2>3. QED
    BY <2>1, <2>2
<1>5. /\ Holds(reports, {"joined"}, u) => Holds(reports', {"joined"}, u)
      /\ u \in channel' => u \in channel \/ Holds(reports', {"joined"}, u)
  BY <1>2, <1>3, <1>4
<1>6. QED
  BY <1>1, <1>5, StillChased

KInv == Shape /\ \A u \in Users : Removing(u)

LEMMA KInvStep == KInv /\ [Next]_vars => KInv'
<1> SUFFICES ASSUME KInv, [Next]_vars PROVE KInv'
  OBVIOUS
<1>1. Shape /\ Shape'
  BY ShapeStep DEF KInv
<1>2. ASSUME NEW u \in Users  PROVE Removing(u)'
  <2>1. Removing(u)
    BY DEF KInv
  <2>2. ASSUME NEW i \in Slot, Type(i) \/ Execute(i)  PROVE Removing(u)'
    BY <1>1, <2>1, <2>2, CommandsChase
  <2>3. CASE Read
    BY <1>1, <2>1, <2>3, ReadChases
  <2>4. CASE Persist
    <3>1. UNCHANGED <<channel, unwanted, lapsed, saych, reports>> /\ loop.step # "kick"
      BY <2>4 DEF Persist, server
    <3>2. QED
      BY <2>1, <3>1 DEF Removing, Chased
  <2>5. CASE AutoKick
    BY <1>1, <2>1, <2>5, AutoKickChases
  <2>6. CASE Serve
    BY <1>1, <2>1, <2>6, ServeChases
  <2>7. CASE People
    BY <1>1, <2>1, <2>7, PeopleChased
  <2>8. CASE UNCHANGED vars
    <3>1. UNCHANGED <<channel, unwanted, lapsed, saych, reports, loop>>
      BY <2>8 DEF vars, bot, server, histories
    <3>2. QED
      BY <2>1, <3>1 DEF Removing, Chased
  <2>9. QED
    BY <2>2, <2>3, <2>4, <2>5, <2>6, <2>7, <2>8, Zenon DEF Next, Handle
<1>3. QED
  BY <1>1, <1>2 DEF KInv

(* Nobody stays who was to be kicked when he last joined or talked, unless *)
(* a line was refused (autoKick of goop.go, Kick and Ban of bnet.go): for  *)
(* any users, levels, commands, and lengths of the queue.                  *)
THEOREM IntrudersDoNotStay == Spec => []IntrudersRemoved
<1>1. Init => KInv
  <2> SUFFICES ASSUME Init PROVE KInv
    OBVIOUS
  <2>1. \A u \in Users : ~unwanted[u]
    BY DEF Init
  <2>2. QED
    BY <2>1, ShapeInit DEF KInv, Removing
<1>2. KInv => IntrudersRemoved
  <2> SUFFICES ASSUME KInv, Quiet, ~lapsed, NEW u \in channel, unwanted[u] PROVE FALSE
    BY DEF IntrudersRemoved
  <2>1. reports = <<>> /\ saych = <<>> /\ loop.step # "kick"
    BY DEF Quiet, Idle
  <2>2. ~Chased(u)
    BY <2>1 DEF Chased, Holds
  <2>3. QED
    BY <2>2 DEF KInv, Shape, Removing
<1>3. QED
  BY <1>1, <1>2, KInvStep, PTL DEF Spec

-----------------------------------------------------------------------------
(* What commands do to themselves *)

(* A command is started only if there is one of that name.                 *)
LEMMA StartsKnown ==
  ASSUME NEW by, NEW name, NEW args, NEW d, d = execTrigger(by, name, args)
  PROVE  \/ d.phase = "done"
         \/ d.phase = "start" /\ d.cmd = name /\ name \in Commands \cup DOMAIN Alias
  BY DEF execTrigger, NoCommand, Ended

(* What the next step makes of a command.                                  *)
Dispatched(c, d) ==
  /\ c.phase = "start" /\ c.cmd \in DOMAIN Alias
  /\ \/ d.phase = "reply"
     \/ \E by, args : d = execTrigger(by, Alias[c.cmd].exe, args)
LookedUp(c, d) == c.phase = "start" /\ c.cmd \in Commands /\ d.phase = "act" /\ d.todo = Targets(c)
Acted(c, d) == c.phase = "act" /\ d.phase \in {"act", "say"} /\ \E u \in c.todo : d.todo = c.todo \ {u}
Said(c, d) == c.phase = "say" /\ d.phase \in {"act", "reply"} /\ d.todo = c.todo
Replied(c, d) == c.phase \in {"act", "reply"} /\ d.phase = "done"

Moves(c, d) == Dispatched(c, d) \/ LookedUp(c, d) \/ Acted(c, d) \/ Said(c, d) \/ Replied(c, d)

LEMMA Executes ==
  ASSUME LInv, NEW i \in Slot, Execute(i)
  PROVE  /\ Moves(cmd[i], cmd'[i])
         /\ \A j \in Slot : j # i => cmd'[j] = cmd[j]
<1>1. cmd = [j \in Slot |-> cmd[j]] /\ Record(cmd[i])
  BY DEF LInv
<1>2. \A d : cmd' = [cmd EXCEPT ![i] = d] => cmd'[i] = d /\ \A j \in Slot : j # i => cmd'[j] = cmd[j]
  BY <1>1
<1>3. CASE ExecuteAlias(i)
  <2>1. /\ cmd[i].phase = "start" /\ cmd[i].cmd \in DOMAIN Alias
        /\ \/ cmd' = [cmd EXCEPT ![i] = [cmd[i] EXCEPT !.phase = "reply"]]
           \/ \E by, args : cmd' = [cmd EXCEPT ![i] = execTrigger(by, Alias[cmd[i].cmd].exe, args)]
    BY <1>3, Zenon DEF ExecuteAlias
  <2>2. ASSUME NEW d, d = [cmd[i] EXCEPT !.phase = "reply"] PROVE d.phase = "reply"
    BY <1>1, <2>2, Phase
  <2>3. PICK d : /\ cmd' = [cmd EXCEPT ![i] = d]
                 /\ \/ d = [cmd[i] EXCEPT !.phase = "reply"]
                    \/ \E by, args : d = execTrigger(by, Alias[cmd[i].cmd].exe, args)
    BY <2>1, Zenon
  <2>4. Dispatched(cmd[i], d)
    BY <2>1, <2>2, <2>3, Zenon DEF Dispatched
  <2> QED BY <1>2, <2>3, <2>4 DEF Moves
<1>4. CASE LookUp(i)
  <2> DEFINE t == Targets(cmd[i])
             k == cmd[i]
  <2>1. PICK d : d = [k EXCEPT !.phase = "act", !.todo = t]
    OBVIOUS
  <2>2. cmd' = [cmd EXCEPT ![i] = d] /\ cmd[i].phase = "start" /\ cmd[i].cmd \in Commands
    BY <1>4, <2>1 DEF LookUp
  <2>3. d.phase = "act" /\ d.todo = Targets(cmd[i])
    <3>1. Record(k)
      BY <1>1
    <3> HIDE DEF k, t
    <3>2. PICK c1, c2, c3, c4, c5, c6 :
            k = [phase |-> c1, by |-> c2, cmd |-> c3, args |-> c4, todo |-> c5, cur |-> c6]
      BY <3>1 DEF Record
    <3>3. d = [phase |-> "act", by |-> c2, cmd |-> c3, args |-> c4, todo |-> t, cur |-> c6]
      BY <2>1, <3>2
    <3> QED BY <3>3 DEF t
  <2> QED BY <1>2, <2>2, <2>3 DEF Moves, LookedUp
<1>5. CASE ChangeLevel(i)
  <2>1. PICK u \in cmd[i].todo :
          LET next == [cmd[i] EXCEPT !.todo = @ \ {u}, !.cur = u.id] IN
          cmd' = [cmd EXCEPT ![i] = IF cmd[i].cmd = "set" THEN next ELSE [next EXCEPT !.phase = "say"]]
    BY <1>5, Zenon DEF ChangeLevel
  <2> DEFINE k == cmd[i]
             t == cmd[i].todo \ {u}
             x == u.id
  <2>2. PICK next : next = [k EXCEPT !.todo = t, !.cur = x]
    OBVIOUS
  <2>3. PICK d : d = IF cmd[i].cmd = "set" THEN next ELSE [next EXCEPT !.phase = "say"]
    OBVIOUS
  <2>4. cmd' = [cmd EXCEPT ![i] = d]
    BY <2>1, <2>2, <2>3
  <2>5. Record(next) /\ next.phase = "act" /\ next.todo = cmd[i].todo \ {u}
    <3>1. cmd[i].phase = "act"
      BY <1>5 DEF ChangeLevel
    <3>2. Record(k)
      BY <1>1
    <3> HIDE DEF k, t, x
    <3>3. PICK c1, c2, c3, c4, c5, c6 :
            k = [phase |-> c1, by |-> c2, cmd |-> c3, args |-> c4, todo |-> c5, cur |-> c6]
      BY <3>2 DEF Record
    <3>4. next = [phase |-> c1, by |-> c2, cmd |-> c3, args |-> c4, todo |-> t, cur |-> x]
      BY <2>2, <3>3
    <3>5. Record(next) /\ next.phase = k.phase /\ next.todo = t
      BY <3>3, <3>4 DEF Record
    <3> QED BY <3>1, <3>5 DEF k, t
  <2>6. d.phase \in {"act", "say"} /\ d.todo = cmd[i].todo \ {u}
    <3>1. CASE d = next
      BY <2>5, <3>1
    <3>2. CASE d = [next EXCEPT !.phase = "say"]
      BY <2>5, <3>2, Phase
    <3> QED BY <2>3, <3>1, <3>2
  <2>7. cmd[i].phase = "act"
    BY <1>5 DEF ChangeLevel
  <2> QED BY <1>2, <2>4, <2>6, <2>7 DEF Moves, Acted
<1>6. CASE SendLine(i)
  <2>1. PICK p \in {"act", "reply"} : cmd' = [cmd EXCEPT ![i] = [cmd[i] EXCEPT !.phase = p]]
    BY <1>6 DEF SendLine
  <2>2. PICK d : d = [cmd[i] EXCEPT !.phase = p]
    OBVIOUS
  <2>3. cmd' = [cmd EXCEPT ![i] = d] /\ cmd[i].phase = "say"
    BY <1>6, <2>1, <2>2 DEF SendLine
  <2>4. d.phase = p /\ d.todo = cmd[i].todo
    BY <1>1, <2>2, Phase
  <2> QED BY <1>2, <2>3, <2>4 DEF Moves, Said
<1>7. CASE Reply(i)
  <2>1. cmd' = [cmd EXCEPT ![i] = Ended] /\ cmd[i].phase \in {"act", "reply"}
    BY <1>7 DEF Reply
  <2>2. Ended.phase = "done"
    BY DEF Ended, NoCommand
  <2> QED BY <1>2, <2>1, <2>2 DEF Moves, Replied
<1> QED BY <1>3, <1>4, <1>5, <1>6, <1>7 DEF Execute

LEMMA Types ==
  ASSUME LInv, NEW i \in Slot, Type(i)
  PROVE  /\ cmd[i] = NoCommand /\ \E by, name, args : cmd'[i] = execTrigger(by, name, args)
         /\ \A j \in Slot : j # i => cmd'[j] = cmd[j]
<1>1. cmd = [j \in Slot |-> cmd[j]]
  BY DEF LInv
<1>2. PICK by \in Issuers, typed \in Inputs :
        cmd' = [cmd EXCEPT ![i] = execTrigger(by, typed.cmd, typed.args)]
  BY DEF Type
<1>3. cmd'[i] = execTrigger(by, typed.cmd, typed.args) /\ \A j \in Slot : j # i => cmd'[j] = cmd[j]
  BY <1>1, <1>2
<1> QED BY <1>3 DEF Type

(* Nobody else changes a command.                                          *)
LEMMA OnlyExecute ==
  ASSUME LInv, [Next]_vars, NEW i \in Slot, cmd'[i] # cmd[i]
  PROVE  Type(i) \/ Execute(i)
<1>1. ASSUME NEW j \in Slot, Type(j) \/ Execute(j) PROVE j = i
  BY <1>1, Types, Executes
<1>2. ~Handle /\ ~Serve /\ ~People /\ ~UNCHANGED vars
  BY DEF Handle, Read, Persist, AutoKick, Serve, People, bot, vars
<1> QED BY <1>1, <1>2 DEF Next

-----------------------------------------------------------------------------
(* A command acts on no more users than there are *)

(* There are finitely many users and aliases.                              *)
FinitelyMany == IsFiniteSet(Users) /\ IsFiniteSet(DOMAIN Alias)

Most == Cardinality(Ids)
Few(S) == IsFiniteSet(S) /\ Cardinality(S) \in Nat /\ Cardinality(S) <= Most

LEMMA MostIs == FinitelyMany => IsFiniteSet(Ids) /\ Most \in Nat /\ Most >= 1
<1> SUFFICES ASSUME FinitelyMany PROVE IsFiniteSet(Ids) /\ Most \in Nat /\ Most >= 1
  OBVIOUS
<1>1. IsFiniteSet({Anybody} \cup {Placeholder})
  BY FS_Singleton, FS_Union
<1>2. IsFiniteSet(Users \cup ({Anybody} \cup {Placeholder}))
  BY <1>1, FS_Union DEF FinitelyMany
<1>3. Ids = Users \cup ({Anybody} \cup {Placeholder})
  BY DEF Ids
<1>4. IsFiniteSet(Ids) /\ Ids # {}
  BY <1>2, <1>3
<1>5. Most \in Nat /\ Most # 0
  BY <1>4, FS_CardinalityType, FS_EmptySet DEF Most
<1> QED BY <1>4, <1>5

LEMMA FewOf ==
  ASSUME FinitelyMany
  PROVE  /\ \A x : Few({x})
         /\ \A S, T : Few(S) /\ T \subseteq S => Few(T)
         /\ Few({})
         /\ \A S \in SUBSET Ids : Few({User(u) : u \in S})
<1>1. IsFiniteSet(Ids) /\ Most \in Nat /\ Most >= 1
  BY MostIs
<1>2. ASSUME NEW x PROVE Few({x})
  <2>1. IsFiniteSet({x}) /\ Cardinality({x}) = 1
    BY FS_Singleton, Zenon
  <2> QED BY <1>1, <2>1 DEF Few
<1>3. ASSUME NEW S, NEW T, Few(S), T \subseteq S PROVE Few(T)
  <2>1. IsFiniteSet(T) /\ Cardinality(T) <= Cardinality(S)
    BY <1>3, FS_Subset DEF Few
  <2>2. Cardinality(T) \in Nat
    BY <2>1, FS_CardinalityType
  <2> QED BY <1>1, <1>3, <2>1, <2>2 DEF Few
<1>4. Few({})
  BY <1>2, <1>3
<1>5. ASSUME NEW S \in SUBSET Ids PROVE Few({User(u) : u \in S})
  <2> DEFINE T == {User(u) : u \in S}
             f == [u \in S |-> User(u)]
  <2>1. IsFiniteSet(S) /\ Cardinality(S) <= Most /\ Cardinality(S) \in Nat
    BY <1>1, FS_Subset, FS_CardinalityType DEF Most
  <2>2. f \in Surjection(S, T)
    BY DEF Surjection
  <2> HIDE DEF T, f
  <2>3. IsFiniteSet(T) /\ Cardinality(T) <= Cardinality(S)
    BY <2>1, <2>2, FS_Surjection
  <2>4. Cardinality(T) \in Nat
    BY <2>3, FS_CardinalityType
  <2>5. Few(T)
    BY <1>1, <2>1, <2>3, <2>4 DEF Few
  <2> QED BY <2>5 DEF T
<1> QED BY <1>2, <1>3, <1>4, <1>5, Zenon

LEMMA FewTargets ==
  ASSUME FinitelyMany, present \subseteq Users, NEW c, c.cmd \in Commands
  PROVE  Few(Targets(c))
<1> DEFINE pat == c.args[1]
<1>1. Few(FindUser(pat)) /\ Few(FindUserInChannel(pat))
  <2>1. {v \in Ids : Found(v)} \in SUBSET Ids /\ present \in SUBSET Ids
    BY DEF Ids
  <2>2. Few({User(u) : u \in {v \in Ids : Found(v)}}) /\ Few({User(u) : u \in present})
    BY <2>1, FewOf
  <2>3. Few({User(pat)}) /\ Few({})
    BY FewOf
  <2> QED BY <2>2, <2>3 DEF FindUser, FindUserInChannel
<1>2. Few(OrTyped(FindUser(pat), pat)) /\ Few(OrTyped(FindUserInChannel(pat), pat))
  <2> HIDE DEF pat
  <2>1. \A x : Few({x})
    BY FewOf
  <2> QED BY <1>1, <2>1 DEF OrTyped
<1>3. \E S : Few(S) /\ Targets(c) \subseteq S
  <2>1. CASE c.cmd = "set"
    <3>1. Targets(c) \subseteq OrTyped(FindUser(pat), pat)
      BY <2>1 DEF Targets
    <3> QED BY <1>2, <3>1
  <2>2. CASE c.cmd = "ban"
    <3>1. Targets(c) \subseteq OrTyped(FindUserInChannel(pat), pat)
      BY <2>2 DEF Targets
    <3> QED BY <1>2, <3>1
  <2>3. CASE c.cmd = "kick"
    <3>1. Targets(c) \subseteq FindUserInChannel(pat)
      BY <2>3 DEF Targets
    <3> QED BY <1>1, <3>1
  <2>4. CASE c.cmd = "unban"
    <3>1. Targets(c) \subseteq OrTyped(FindUser(pat), pat)
      BY <2>4 DEF Targets
    <3> QED BY <1>2, <3>1
  <2> QED BY <2>1, <2>2, <2>3, <2>4 DEF Commands
<1> QED BY <1>3, FewOf, Zenon

-----------------------------------------------------------------------------
(* What a command has left *)

Aliases == Cardinality(DOMAIN Alias)

(* How many aliases may follow each other from one on.                     *)
AliasRank ==
  CHOOSE rank \in [DOMAIN Alias -> 1..Aliases] :
    \A a, b \in DOMAIN Alias : Alias[a].exe = b => rank[b] < rank[a]

(* The steps that a command has left at most: the aliases it stands for,   *)
(* two for each user it acts on, and the reply.                            *)
Left(c) ==
  CASE c.phase = "start" -> 3 + 2 * Most + (IF c.cmd \in DOMAIN Alias THEN AliasRank[c.cmd] ELSE 0)
    [] c.phase = "act"   -> 2 + 2 * Cardinality(c.todo)
    [] c.phase = "say"   -> 3 + 2 * Cardinality(c.todo)
    [] c.phase = "reply" -> 1
    [] OTHER             -> 0

Bound == 3 + 2 * Most + Aliases

Phases == {"none", "start", "act", "say", "reply", "done"}

(* A command that was started is known, and it acts on no more users than  *)
(* there are.                                                              *)
Known(c) ==
  /\ c.phase = "start" => c.cmd \in Commands \cup DOMAIN Alias
  /\ c.phase \in {"act", "say"} => IsFiniteSet(c.todo) /\ Cardinality(c.todo) <= Most

Alive(c) == c.phase \in Phases /\ Known(c)

(* Aliases have ranks, and what an alias stands for has a lower one.       *)
LEMMA RankIs ==
  ASSUME FinitelyMany
  PROVE  /\ Aliases \in Nat
         /\ \A a \in DOMAIN Alias : AliasRank[a] \in Nat /\ AliasRank[a] >= 1 /\ AliasRank[a] <= Aliases
         /\ \A a, b \in DOMAIN Alias : Alias[a].exe = b => AliasRank[b] < AliasRank[a]
<1>1. Aliases \in Nat
  BY FS_CardinalityType DEF FinitelyMany, Aliases
<1>2. \E rank \in [DOMAIN Alias -> 1..Aliases] :
        \A a, b \in DOMAIN Alias : Alias[a].exe = b => rank[b] < rank[a]
  BY AliasAssumption DEF Aliases
<1>3. /\ AliasRank \in [DOMAIN Alias -> 1..Aliases]
      /\ \A a, b \in DOMAIN Alias : Alias[a].exe = b => AliasRank[b] < AliasRank[a]
  BY <1>2 DEF AliasRank
<1> QED BY <1>1, <1>3

LEMMA StartIs ==
  ASSUME FinitelyMany, NEW by, NEW name, NEW args, NEW d, d = execTrigger(by, name, args)
  PROVE  /\ Alive(d) /\ Left(d) \in 0..Bound
         /\ name \in Commands => Left(d) <= 3 + 2 * Most
         /\ name \in DOMAIN Alias => Left(d) <= 3 + 2 * Most + AliasRank[name]
         /\ name \notin Commands \cup DOMAIN Alias => Left(d) = 0
<1>1. Most \in Nat /\ Aliases \in Nat /\ \A a \in DOMAIN Alias : AliasRank[a] \in Nat /\ AliasRank[a] <= Aliases
  BY MostIs, RankIs
<1>2. CASE d.phase = "done"
  <2>1. Left(d) = 0 /\ Alive(d)
    BY <1>2 DEF Left, Alive, Known, Phases
  <2> QED BY <1>1, <2>1 DEF Bound
<1>3. CASE d.phase = "start" /\ d.cmd = name /\ name \in Commands \cup DOMAIN Alias
  <2>1. Alive(d)
    BY <1>3 DEF Alive, Known, Phases
  <2>2. Left(d) = 3 + 2 * Most + (IF name \in DOMAIN Alias THEN AliasRank[name] ELSE 0)
    BY <1>3 DEF Left
  <2>3. DOMAIN Alias \cap Commands = {}
    BY AliasAssumption
  <2>4. CASE name \in DOMAIN Alias
    <3>1. name \notin Commands
      BY <2>3, <2>4
    <3> QED BY <1>1, <2>1, <2>2, <2>4, <3>1 DEF Bound
  <2>5. CASE name \notin DOMAIN Alias
    BY <1>1, <1>3, <2>1, <2>2, <2>5 DEF Bound
  <2> QED BY <2>4, <2>5
<1> QED BY <1>2, <1>3, StartsKnown

LEMMA LeftIs ==
  ASSUME FinitelyMany, NEW c, Alive(c)
  PROVE  Left(c) \in Nat
<1>1. Most \in Nat /\ \A a \in DOMAIN Alias : AliasRank[a] \in Nat
  BY MostIs, RankIs
<1>2. c.phase \in {"act", "say"} => Cardinality(c.todo) \in Nat
  BY FS_CardinalityType DEF Alive, Known
<1> QED BY <1>1, <1>2 DEF Left, Alive, Phases

LEMMA MovesDown ==
  ASSUME FinitelyMany, present \subseteq Users, NEW c, NEW d, Alive(c), Moves(c, d)
  PROVE  Alive(d) /\ Left(d) < Left(c)
<1>1. /\ Most \in Nat /\ Most >= 1
      /\ \A a \in DOMAIN Alias : AliasRank[a] \in Nat /\ AliasRank[a] >= 1
      /\ \A a, b \in DOMAIN Alias : Alias[a].exe = b => AliasRank[b] < AliasRank[a]
  BY MostIs, RankIs
<1>2. CASE Dispatched(c, d)
  <2>1. Left(c) = 3 + 2 * Most + AliasRank[c.cmd] /\ c.cmd \in DOMAIN Alias
    BY <1>2 DEF Left, Dispatched
  <2>2. CASE d.phase = "reply"
    <3>1. Left(d) = 1 /\ Alive(d)
      BY <2>2 DEF Left, Alive, Known, Phases
    <3> QED BY <1>1, <2>1, <3>1
  <2>3. ASSUME NEW by, NEW args, d = execTrigger(by, Alias[c.cmd].exe, args) PROVE Alive(d) /\ Left(d) < Left(c)
    <3> DEFINE name == Alias[c.cmd].exe
    <3>1. /\ Alive(d) /\ Left(d) \in Nat
          /\ name \in Commands => Left(d) <= 3 + 2 * Most
          /\ name \in DOMAIN Alias => Left(d) <= 3 + 2 * Most + AliasRank[name]
          /\ name \notin Commands \cup DOMAIN Alias => Left(d) = 0
      BY <2>3, StartIs, LeftIs
    <3>2. name \in DOMAIN Alias => AliasRank[name] < AliasRank[c.cmd] /\ AliasRank[name] \in Nat
      BY <1>1, <2>1
    <3>3. AliasRank[c.cmd] \in Nat /\ AliasRank[c.cmd] >= 1
      BY <1>1, <2>1
    <3> HIDE DEF name
    <3> QED BY <1>1, <2>1, <3>1, <3>2, <3>3
  <2> QED BY <1>2, <2>2, <2>3, Zenon DEF Dispatched
<1>3. CASE LookedUp(c, d)
  <2>1. Left(c) >= 3 + 2 * Most /\ Left(c) \in Nat
    BY <1>1, <1>3, LeftIs DEF Left, LookedUp
  <2>2. Few(d.todo) /\ d.phase = "act"
    BY <1>3, FewTargets DEF LookedUp
  <2>3. Left(d) = 2 + 2 * Cardinality(d.todo)
    BY <2>2 DEF Left
  <2> QED BY <1>1, <2>1, <2>2, <2>3 DEF Few, Alive, Known, Phases
<1>4. CASE Acted(c, d)
  <2>1. c.phase = "act" /\ IsFiniteSet(c.todo) /\ Cardinality(c.todo) <= Most
    BY <1>4 DEF Acted, Alive, Known
  <2>2. PICK u \in c.todo : d.todo = c.todo \ {u} /\ d.phase \in {"act", "say"}
    BY <1>4 DEF Acted
  <2>3. IsFiniteSet(d.todo) /\ Cardinality(d.todo) = Cardinality(c.todo) - 1 /\ Cardinality(c.todo) \in Nat
    BY <2>1, <2>2, FS_RemoveElement, FS_CardinalityType
  <2>4. Cardinality(d.todo) \in Nat
    BY <2>3, FS_CardinalityType
  <2>5. Left(c) = 2 + 2 * Cardinality(c.todo) /\ Left(d) <= 3 + 2 * Cardinality(d.todo)
    BY <2>1, <2>2, <2>4 DEF Left
  <2>6. Left(d) \in Nat /\ Alive(d)
    <3>1. Alive(d)
      BY <1>1, <2>1, <2>2, <2>3, <2>4 DEF Alive, Known, Phases
    <3> QED BY <3>1, LeftIs
  <2> QED BY <2>3, <2>4, <2>5, <2>6
<1>5. CASE Said(c, d)
  <2>1. c.phase = "say" /\ IsFiniteSet(c.todo) /\ Cardinality(c.todo) <= Most /\ d.todo = c.todo
    BY <1>5 DEF Said, Alive, Known
  <2>2. Cardinality(c.todo) \in Nat
    BY <2>1, FS_CardinalityType
  <2>3. Left(c) = 3 + 2 * Cardinality(c.todo) /\ Left(d) \in {1, 2 + 2 * Cardinality(c.todo)}
    BY <1>5, <2>1 DEF Left, Said
  <2>4. Alive(d)
    BY <1>5, <2>1 DEF Alive, Known, Phases, Said
  <2> QED BY <2>2, <2>3, <2>4
<1>6. CASE Replied(c, d)
  <2>1. Left(d) = 0 /\ Alive(d)
    BY <1>6 DEF Left, Replied, Alive, Known, Phases
  <2>2. Left(c) \in Nat /\ Left(c) >= 1
    <3>1. c.phase = "act" => Cardinality(c.todo) \in Nat
      BY FS_CardinalityType DEF Alive, Known
    <3> QED BY <1>6, <3>1, LeftIs DEF Left, Replied
  <2> QED BY <2>1, <2>2
<1> QED BY <1>2, <1>3, <1>4, <1>5, <1>6 DEF Moves


-----------------------------------------------------------------------------
(* Types *)

(* What the server reports is about users, but for the rights of the bot.  *)
IsReport(r) == r.id \in Ids /\ (r.type \notin {"opped", "deopped"} => r.id \in Users)

TInv ==
  /\ TypeOK
  /\ Shape
  /\ \A k \in DOMAIN reports : IsReport(reports[k])

LEMMA TInvInit == Init => TInv
<1> SUFFICES ASSUME Init PROVE TInv
  OBVIOUS
<1>1. Shape
  BY ShapeInit
<1>2. accessUser \in [Ids -> Int32] /\ tracked \in [Ids -> BOOLEAN] /\ unwanted \in [Users -> BOOLEAN]
  BY <1>1 DEF Init, Shape, LInv
<1>3. operator \in BOOLEAN /\ isOperator \in BOOLEAN /\ lapsed \in BOOLEAN
  BY UsersAssumption DEF Init
<1>4. present \subseteq Users /\ channel \subseteq Users /\ banned \subseteq Users
  BY DEF Init
<1>5. Len(saych) <= Cap /\ \A k \in DOMAIN reports : IsReport(reports[k])
  <2>1. saych = <<>> /\ reports = <<>>
    BY DEF Init
  <2>2. Len(<<>>) = 0 /\ DOMAIN reports = {}
    BY <2>1
  <2> QED BY <2>1, <2>2, ModerationBounds
<1>6. loop.step = "idle" /\ loop.id \in Ids /\ loop.access \in Int32
  BY NamedLevels DEF Init, Idle, Ids
<1>7. \A i \in Slot : cmd[i].phase = "none"
  BY DEF Init, NoCommand
<1> QED BY <1>1, <1>2, <1>3, <1>4, <1>5, <1>6, <1>7 DEF TInv, TypeOK

(* One more line, if there is room.                                        *)
LEMMA Room ==
  ASSUME IsSeq(saych), Len(saych) <= Cap, NEW l,
         (~Full /\ saych' = Append(saych, l)) \/ UNCHANGED saych
  PROVE  Len(saych') <= Cap
<1>1. CASE ~Full /\ saych' = Append(saych, l)
  <2>1. PICK S : saych \in Seq(S)
    BY DEF IsSeq
  <2>2. saych \in Seq(S \cup {l})
    BY <2>1
  <2>3. Len(saych') = Len(saych) + 1 /\ Len(saych) \in Nat
    BY <1>1, <2>2
  <2> QED BY <1>1, <2>3, ModerationBounds DEF Full
<1> QED BY <1>1

LEMMA CommandsTyped ==
  ASSUME TInv, Shape', NEW i \in Slot, Type(i) \/ Execute(i)
  PROVE  TInv'
<1>1. /\ TypeOK /\ LInv /\ IsSeq(saych)
      /\ tracked = [u \in Ids |-> tracked[u]]
  BY DEF TInv, Shape
<1>2. UNCHANGED <<operator, present, loop, channel, banned, isOperator, reports, unwanted>>
  BY DEF Type, Execute, ExecuteAlias, LookUp, ChangeLevel, SendLine, Reply, server, histories
<1>3. accessUser' \in [Ids -> Int32]
  BY DEF Shape, LInv
<1>4. tracked' \in [Ids -> BOOLEAN] /\ lapsed' \in BOOLEAN
  <2>1. tracked \in [Ids -> BOOLEAN] /\ lapsed \in BOOLEAN
    BY <1>1 DEF TypeOK
  <2>2. CASE Type(i) \/ ExecuteAlias(i) \/ LookUp(i) \/ Reply(i)
    BY <2>1, <2>2 DEF Type, ExecuteAlias, LookUp, Reply, histories
  <2>3. CASE ChangeLevel(i)
    <3>1. UNCHANGED tracked \/ \E u, a : \E b \in BOOLEAN : SetUserAccess(u, a, b)
      <4>1. PICK u \in cmd[i].todo :
              LET name == cmd[i].cmd
                  next == [cmd[i] EXCEPT !.todo = @ \ {u}, !.cur = u.id] IN
                CASE name = "set" -> SetUserAccess(u.id, SetLevel(next), FALSE)
                  [] name = "ban" -> SetUserAccess(u.id, AccessBan, TRUE)
                  [] name = "unban" /\ u.access < AccessDefault -> SetUserAccess(u.id, AccessDefault, TRUE)
                  [] OTHER -> UNCHANGED <<accessUser, tracked>>
        BY <2>3, Zenon DEF ChangeLevel
      <4>2. CASE cmd[i].cmd = "set"
        BY <4>1, <4>2, Zenon
      <4>3. CASE cmd[i].cmd # "set"
        <5>1. \/ SetUserAccess(u.id, AccessBan, TRUE)
              \/ SetUserAccess(u.id, AccessDefault, TRUE)
              \/ UNCHANGED tracked
          BY <4>1, <4>3
        <5> QED BY <5>1, Zenon
      <4> QED BY <4>2, <4>3
    <3>2. UNCHANGED lapsed
      BY <2>3 DEF ChangeLevel
    <3> QED BY <2>1, <3>1, <3>2 DEF SetUserAccess
  <2>4. CASE SendLine(i)
    BY <2>1, <2>4 DEF SendLine
  <2> QED BY <2>2, <2>3, <2>4 DEF Execute
<1>5. Len(saych') <= Cap
  <2>1. \E l : (~Full /\ saych' = Append(saych, l)) \/ UNCHANGED saych
    <3>1. CASE Type(i) \/ ExecuteAlias(i) \/ LookUp(i) \/ ChangeLevel(i)
      BY <3>1 DEF Type, ExecuteAlias, LookUp, ChangeLevel
    <3>2. CASE SendLine(i)
      BY <3>2 DEF SendLine, Send
    <3>3. CASE Reply(i)
      BY <3>3 DEF Reply
    <3> QED BY <3>1, <3>2, <3>3 DEF Execute
  <2>2. Len(saych) <= Cap
    BY <1>1 DEF TypeOK
  <2> QED BY <1>1, <2>1, <2>2, Room
<1>6. \A j \in Slot : cmd'[j].phase \in Phases
  <2>1. \A j \in Slot : cmd[j].phase \in Phases
    BY <1>1 DEF TypeOK, Phases
  <2>2. CASE Type(i)
    <3>1. \E by, name, args : cmd'[i] = execTrigger(by, name, args)
      BY <1>1, <2>2, Types
    <3>2. cmd'[i].phase \in {"start", "done"}
      BY <3>1, StartsKnown
    <3> QED BY <1>1, <2>1, <2>2, <3>2, Types DEF Phases
  <2>3. CASE Execute(i)
    <3>1. Moves(cmd[i], cmd'[i])
      BY <1>1, <2>3, Executes
    <3>2. cmd'[i].phase \in Phases
      BY <3>1, StartsKnown DEF Moves, Dispatched, LookedUp, Acted, Said, Replied, Phases
    <3> QED BY <1>1, <2>1, <2>3, <3>2, Executes
  <2> QED BY <2>2, <2>3
<1>7. TypeOK'
  BY <1>1, <1>2, <1>3, <1>4, <1>5, <1>6 DEF TypeOK, Phases
<1> QED BY <1>2, <1>7 DEF TInv, IsReport

LEMMA ReadTyped ==
  ASSUME TInv, Shape', Read
  PROVE  TInv'
<1>1. TypeOK /\ IsSeq(reports) /\ accessUser \in [Ids -> Int32] /\ reports # <<>>
  BY DEF TInv, Shape, LInv, Read
<1>2. PICK r : r = Head(reports)
  OBVIOUS
<1>3. IsReport(r) /\ \A k \in DOMAIN reports' : IsReport(reports'[k])
  <2>1. PICK S : reports \in Seq(S)
    BY <1>1 DEF IsSeq
  <2>2. Len(reports) \in Nat /\ 1 \in 1..Len(reports) /\ DOMAIN reports = 1..Len(reports) /\ r = reports[1]
    BY <1>1, <1>2, <2>1
  <2>3. reports' = Tail(reports)
    BY DEF Read
  <2>4. /\ DOMAIN reports' = 1..(Len(reports) - 1)
        /\ \A k \in 1..(Len(reports) - 1) : reports'[k] = reports[k + 1]
    BY <1>1, <2>1, <2>3
  <2>5. \A k \in DOMAIN reports : IsReport(reports[k])
    BY DEF TInv
  <2>6. \A k \in 1..(Len(reports) - 1) : k + 1 \in DOMAIN reports
    BY <2>2
  <2> QED BY <2>2, <2>4, <2>5, <2>6
<1>4. present' \subseteq Users
  <2>1. present' = CASE r.type = "joined" -> present \cup {r.id}
                     [] r.type = "left" -> present \ {r.id}
                     [] OTHER -> present
    BY <1>2 DEF Read
  <2>2. r.type = "joined" => r.id \in Users
    BY <1>3 DEF IsReport
  <2> QED BY <1>1, <2>1, <2>2 DEF TypeOK
<1>5. loop'.step \in {"idle", "kick", "persist"} /\ loop'.id \in Ids /\ loop'.access \in Int32
  <2>1. loop' = CASE Persists(r) -> About("persist", r.id, IF r.type = "banned" THEN AccessBan ELSE AccessDefault)
                  [] Kicks(r) -> About("kick", r.id, user(r.id))
                  [] OTHER -> Idle
    BY <1>2 DEF Read
  <2>2. AccessBan \in Int32 /\ AccessDefault \in Int32 /\ r.id \in Ids /\ Anybody \in Ids
    BY <1>3, NamedLevels DEF IsReport, Ids
  <2>3. user(r.id) \in Int32
    BY <1>1, <2>2, UsersAssumption DEF user
  <2>4. \/ loop' = About("persist", r.id, AccessBan)
        \/ loop' = About("persist", r.id, AccessDefault)
        \/ loop' = About("kick", r.id, user(r.id))
        \/ loop' = Idle
    BY <2>1
  <2> QED BY <2>2, <2>3, <2>4 DEF Idle, About
<1>6. operator' \in BOOLEAN
  BY <1>1 DEF Read, TypeOK
<1>7. unwanted' \in [Users -> BOOLEAN]
  <2>1. unwanted' = unwanted \/ \E b \in BOOLEAN : unwanted' = [unwanted EXCEPT ![r.id] = b]
    BY <1>2 DEF Read
  <2> QED BY <1>1, <2>1 DEF TypeOK
<1>8. UNCHANGED <<accessUser, saych, cmd, channel, banned, isOperator, tracked, lapsed>>
  BY DEF Read, server
<1>9. TypeOK'
  BY <1>1, <1>4, <1>5, <1>6, <1>7, <1>8 DEF TypeOK
<1> QED BY <1>3, <1>9 DEF TInv

LEMMA HandlersTyped ==
  ASSUME TInv, Shape', Persist \/ AutoKick
  PROVE  TInv'
<1>1. TypeOK /\ IsSeq(saych) /\ accessUser' \in [Ids -> Int32]
  BY DEF TInv, Shape, LInv
<1>2. UNCHANGED <<operator, present, channel, banned, isOperator, reports, unwanted, cmd>> /\ loop' = Idle
  BY DEF Persist, AutoKick, server
<1>3. tracked' \in [Ids -> BOOLEAN] /\ lapsed' \in BOOLEAN
  BY <1>1 DEF TypeOK, Persist, AutoKick, SetUserAccess
<1>4. Len(saych') <= Cap
  <2>1. \E l : (~Full /\ saych' = Append(saych, l)) \/ UNCHANGED saych
    BY DEF Persist, AutoKick, Send
  <2>2. Len(saych) <= Cap
    BY <1>1 DEF TypeOK
  <2> QED BY <1>1, <2>1, <2>2, Room
<1>5. loop'.step = "idle" /\ loop'.id \in Ids /\ loop'.access \in Int32
  BY <1>2, NamedLevels DEF Idle, Ids
<1>6. TypeOK'
  BY <1>1, <1>2, <1>3, <1>4, <1>5 DEF TypeOK
<1> QED BY <1>2, <1>6 DEF TInv, IsReport

(* One more report about a user.                                           *)
LEMMA OneMore ==
  ASSUME NEW s, IsSeq(s), \A k \in DOMAIN s : IsReport(s[k]), NEW r, IsReport(r)
  PROVE  IsSeq(Append(s, r)) /\ \A k \in DOMAIN Append(s, r) : IsReport(Append(s, r)[k])
<1>1. /\ IsSeq(Append(s, r))
      /\ DOMAIN s = 1..Len(s) /\ Len(s) \in Nat
      /\ DOMAIN Append(s, r) = 1..(Len(s) + 1)
      /\ \A k \in 1..Len(s) : Append(s, r)[k] = s[k]
      /\ Append(s, r)[Len(s) + 1] = r
  BY AppendSeq
<1> QED BY <1>1

LEMMA ServerTyped ==
  ASSUME TInv, NEW u,
         \/ BanAtServer(u) \/ UnbanAtServer(u) \/ KickAtServer(u)
         \/ u \in Users /\ (Joins(u) \/ Talks(u))
         \/ Opped
         \/ UNCHANGED <<channel, banned, reports>>
  PROVE  /\ channel' \subseteq Users /\ banned' \subseteq Users
         /\ \A k \in DOMAIN reports' : IsReport(reports'[k])
<1>1. /\ channel \subseteq Users /\ banned \subseteq Users /\ IsSeq(reports)
      /\ \A k \in DOMAIN reports : IsReport(reports[k])
  BY DEF TInv, Shape, TypeOK
<1>2. channel' \subseteq Users /\ banned' \subseteq Users
  BY <1>1 DEF BanAtServer, UnbanAtServer, KickAtServer, Joins, Talks, Opped, server
<1>3. ASSUME NEW t, u \in Users PROVE IsReport(Line(t, u))
  BY <1>3 DEF IsReport, Line, Ids
<1>4. CASE BanAtServer(u)
  <2>1. u \in Users
    BY <1>4 DEF BanAtServer
  <2> DEFINE s == Append(reports, Line("banned", u))
  <2>2. reports' = s \/ reports' = Append(s, Line("left", u))
    BY <1>1, <1>4, BanReports DEF BanAtServer
  <2>3. IsSeq(s) /\ \A k \in DOMAIN s : IsReport(s[k])
    BY <1>1, <1>3, <2>1, OneMore
  <2> HIDE DEF s
  <2>4. \A k \in DOMAIN Append(s, Line("left", u)) : IsReport(Append(s, Line("left", u))[k])
    BY <1>3, <2>1, <2>3, OneMore
  <2> QED BY <1>2, <2>2, <2>3, <2>4
<1>5. CASE UnbanAtServer(u) \/ KickAtServer(u) \/ (u \in Users /\ (Joins(u) \/ Talks(u)))
  <2>1. u \in Users /\ \E t : reports' = Append(reports, Line(t, u))
    BY <1>1, <1>5 DEF UnbanAtServer, KickAtServer, Joins, Talks
  <2>2. PICK t : reports' = Append(reports, Line(t, u))
    BY <2>1
  <2> QED BY <1>1, <1>2, <1>3, <2>1, <2>2, OneMore
<1>6. CASE Opped
  <2>1. PICK t \in {"opped", "deopped"} : reports' = Append(reports, Line(t, Anybody))
    BY <1>6 DEF Opped
  <2>2. IsReport(Line(t, Anybody))
    BY DEF IsReport, Line, Ids
  <2> QED BY <1>1, <1>2, <2>1, <2>2, OneMore
<1>7. CASE UNCHANGED <<channel, banned, reports>>
  BY <1>1, <1>7
<1> QED BY <1>4, <1>5, <1>6, <1>7

LEMMA ServeTyped ==
  ASSUME TInv, Shape', Serve
  PROVE  TInv'
<1>1. TypeOK /\ IsSeq(saych) /\ accessUser' \in [Ids -> Int32] /\ saych # <<>>
  BY DEF TInv, Shape, LInv, Serve
<1>2. UNCHANGED <<accessUser, operator, present, loop, cmd, isOperator, unwanted>> /\ saych' = Tail(saych)
  BY DEF Serve
<1>3. PICK u : \/ BanAtServer(u) \/ UnbanAtServer(u) \/ KickAtServer(u)
               \/ UNCHANGED <<channel, banned, reports>>
  BY DEF Serve
<1>4. /\ channel' \subseteq Users /\ banned' \subseteq Users
      /\ \A k \in DOMAIN reports' : IsReport(reports'[k])
  BY <1>3, ServerTyped
<1>5. tracked' \in [Ids -> BOOLEAN] /\ lapsed' \in BOOLEAN
  <2>1. UNCHANGED tracked \/ \E u0 : tracked' = [tracked EXCEPT ![u0] = FALSE]
    BY DEF Serve
  <2>2. lapsed' \in {lapsed, TRUE}
    BY DEF Serve
  <2> QED BY <1>1, <2>1, <2>2 DEF TypeOK
<1>6. Len(saych') <= Cap
  <2>1. PICK S : saych \in Seq(S)
    BY <1>1 DEF IsSeq
  <2>2. Len(saych') <= Len(saych) /\ Len(saych') \in Nat /\ Len(saych) \in Nat
    BY <1>1, <1>2, <2>1
  <2> QED BY <1>1, <2>2, ModerationBounds DEF TypeOK
<1>7. TypeOK'
  BY <1>1, <1>2, <1>4, <1>5, <1>6 DEF TypeOK
<1> QED BY <1>4, <1>7 DEF TInv

LEMMA PeopleTyped ==
  ASSUME TInv, Shape', People
  PROVE  TInv'
<1>1. TypeOK
  BY DEF TInv
<1>2. UNCHANGED <<accessUser, operator, present, saych, loop, cmd, tracked, unwanted, lapsed>>
  BY DEF People, bot, histories
<1>3. \/ \E u \in Users : Joins(u) \/ Talks(u) \/ KickAtServer(u) \/ BanAtServer(u) \/ UnbanAtServer(u)
      \/ Opped
  BY Zenon DEF People
<1>4. /\ channel' \subseteq Users /\ banned' \subseteq Users
      /\ \A k \in DOMAIN reports' : IsReport(reports'[k])
  BY <1>3, ServerTyped
<1>5. isOperator' \in BOOLEAN
  BY <1>1 DEF TypeOK, People, Joins, Talks, Opped, server
<1>6. TypeOK'
  BY <1>1, <1>2, <1>4, <1>5 DEF TypeOK
<1> QED BY <1>4, <1>6 DEF TInv

LEMMA TInvStep == TInv /\ [Next]_vars => TInv'
<1> SUFFICES ASSUME TInv, [Next]_vars PROVE TInv'
  OBVIOUS
<1>1. Shape'
  BY ShapeStep DEF TInv
<1>2. CASE UNCHANGED vars
  BY <1>1, <1>2 DEF TInv, TypeOK, IsReport, vars, bot, server, histories
<1> QED BY <1>1, <1>2, CommandsTyped, ReadTyped, HandlersTyped, ServeTyped, PeopleTyped, Zenon DEF Next, Handle

LEMMA TInvHolds == Spec => []TInv
<1> QED BY TInvInit, TInvStep, PTL DEF Spec

(* Users, levels, lines and commands have their types, and there are never *)
(* more lines than the queue holds (saych of bnet.go, SetUserAccess and    *)
(* the handlers that call it).                                            *)
THEOREM ModerationTypeCorrect == Spec => []TypeOK
<1>1. TInv => TypeOK
  BY DEF TInv
<1> QED BY <1>1, TInvHolds, PTL

-----------------------------------------------------------------------------
(* Commands end *)

CommandsInTime == \A i \in Slot : Left(cmd[i]) \in 0..Bound

(* Every step of a command, and every other that changes it, leaves it     *)
(* fewer steps than before: neither an alias nor a user it acts on keeps   *)
(* it going (Execute of alias.go, and the loops of goop/cmd).              *)
CommandsShrink ==
  [][\A i \in Slot :
       Execute(i) \/ (cmd[i].phase # "none" /\ cmd'[i] # cmd[i]) => Left(cmd'[i]) < Left(cmd[i])]_vars

FInv == TInv /\ \A i \in Slot : Alive(cmd[i]) /\ Left(cmd[i]) \in 0..Bound

LEMMA FInvInit == FinitelyMany /\ Init => FInv
<1> SUFFICES ASSUME FinitelyMany, Init PROVE FInv
  OBVIOUS
<1>1. \A i \in Slot : cmd[i].phase = "none"
  BY DEF Init, NoCommand
<1>2. \A i \in Slot : Alive(cmd[i]) /\ Left(cmd[i]) = 0
  BY <1>1 DEF Alive, Phases, Known, Left
<1>3. Bound \in Nat
  BY MostIs, RankIs DEF Bound
<1> QED BY <1>2, <1>3, TInvInit DEF FInv

(* A command that goes on has less left than before.                       *)
LEMMA ExecutedDown ==
  ASSUME FinitelyMany, FInv, NEW i \in Slot, Execute(i)
  PROVE  Alive(cmd'[i]) /\ Left(cmd'[i]) < Left(cmd[i])
<1>1. LInv /\ present \subseteq Users /\ Alive(cmd[i])
  BY DEF FInv, TInv, Shape, TypeOK
<1>2. Moves(cmd[i], cmd'[i])
  BY <1>1, Executes
<1> QED BY <1>1, <1>2, MovesDown

LEMMA FInvStep == FinitelyMany /\ FInv /\ [Next]_vars => FInv'
<1> SUFFICES ASSUME FinitelyMany, FInv, [Next]_vars PROVE FInv'
  OBVIOUS
<1>1. TInv' /\ LInv /\ Bound \in Nat
  BY TInvStep, MostIs, RankIs DEF FInv, TInv, Shape, Bound
<1>2. ASSUME NEW i \in Slot PROVE Alive(cmd'[i]) /\ Left(cmd'[i]) \in 0..Bound
  <2>1. Alive(cmd[i]) /\ Left(cmd[i]) \in 0..Bound
    BY DEF FInv
  <2>2. CASE cmd'[i] = cmd[i]
    BY <2>1, <2>2
  <2>3. CASE Type(i)
    <3>1. \E by, name, args : cmd'[i] = execTrigger(by, name, args)
      BY <1>1, <2>3, Types
    <3> QED BY <3>1, StartIs
  <2>4. CASE Execute(i)
    <3>1. Alive(cmd'[i]) /\ Left(cmd'[i]) < Left(cmd[i])
      BY <2>4, ExecutedDown
    <3>2. Left(cmd'[i]) \in Nat
      BY <3>1, LeftIs
    <3> QED BY <1>1, <2>1, <3>1, <3>2
  <2> QED BY <1>1, <2>2, <2>3, <2>4, OnlyExecute
<1> QED BY <1>1, <1>2 DEF FInv

(* Every command ends after at most Bound steps, a number that depends on  *)
(* the users and the aliases alone: each of its steps (Execute of alias.go *)
(* and of the commands of goop/cmd) leaves it fewer, and nobody else       *)
(* changes it.                                                             *)
THEOREM CommandsTakeBoundedSteps == FinitelyMany => (Spec => []CommandsInTime /\ CommandsShrink)
<1> SUFFICES ASSUME FinitelyMany PROVE Spec => []CommandsInTime /\ CommandsShrink
  OBVIOUS
<1>1. FInv /\ [Next]_vars =>
        [\A i \in Slot : Execute(i) \/ (cmd[i].phase # "none" /\ cmd'[i] # cmd[i])
                           => Left(cmd'[i]) < Left(cmd[i])]_vars
  <2> SUFFICES ASSUME FInv, [Next]_vars, NEW i \in Slot,
                      Execute(i) \/ (cmd[i].phase # "none" /\ cmd'[i] # cmd[i])
               PROVE  Left(cmd'[i]) < Left(cmd[i])
    OBVIOUS
  <2>1. LInv
    BY DEF FInv, TInv, Shape
  <2>2. ASSUME Type(i) PROVE cmd[i].phase = "none"
    BY <2>2 DEF Type, NoCommand
  <2>3. Execute(i)
    BY <2>1, <2>2, OnlyExecute
  <2> QED BY <2>3, ExecutedDown
<1>2. FInv => CommandsInTime
  BY DEF FInv, CommandsInTime
<1>3. Init => FInv
  BY FInvInit
<1>4. FInv /\ [Next]_vars => FInv'
  BY FInvStep
<1> QED BY <1>1, <1>2, <1>3, <1>4, PTL DEF Spec, CommandsShrink

(* A command that was started is known.                                    *)
GInv == TInv /\ \A i \in Slot : cmd[i].phase = "start" => cmd[i].cmd \in Commands \cup DOMAIN Alias

LEMMA GInvStep == GInv /\ [Next]_vars => GInv'
<1> SUFFICES ASSUME GInv, [Next]_vars PROVE GInv'
  OBVIOUS
<1>1. TInv' /\ LInv
  BY TInvStep DEF GInv, TInv, Shape
<1>2. ASSUME NEW i \in Slot, cmd'[i].phase = "start" PROVE cmd'[i].cmd \in Commands \cup DOMAIN Alias
  <2>1. CASE cmd'[i] = cmd[i]
    BY <1>2, <2>1 DEF GInv
  <2>2. ASSUME NEW by, NEW name, NEW args, cmd'[i] = execTrigger(by, name, args)
        PROVE  cmd'[i].cmd \in Commands \cup DOMAIN Alias
    BY <1>2, <2>2, StartsKnown
  <2>3. CASE Type(i)
    BY <1>1, <2>2, <2>3, Types
  <2>4. CASE Execute(i)
    <3>1. Moves(cmd[i], cmd'[i])
      BY <1>1, <2>4, Executes
    <3>2. Dispatched(cmd[i], cmd'[i])
      BY <1>2, <3>1 DEF Moves, LookedUp, Acted, Said, Replied
    <3> QED BY <1>2, <2>2, <3>2 DEF Dispatched
  <2> QED BY <1>1, <2>1, <2>3, <2>4, OnlyExecute
<1> QED BY <1>1, <1>2 DEF GInv

LEMMA GInvHolds == Spec => []GInv
<1>1. Init => GInv
  <2> SUFFICES ASSUME Init PROVE GInv
    OBVIOUS
  <2>1. \A i \in Slot : cmd[i].phase = "none"
    BY DEF Init, NoCommand
  <2> QED BY <2>1, TInvInit DEF GInv
<1> QED BY <1>1, GInvStep, PTL DEF Spec

(* The state with these commands, levels, marks and lines.                 *)
State(cmds, levels, marks, lines, lapse) ==
  << <<levels, operator, present, lines, loop, cmds>>,
     server, reports, events, <<marks, unwanted, lapse>> >>

(* ... where only the commands are others.                                 *)
Only(cmds) == State(cmds, accessUser, tracked, saych, lapsed)

AfterAlias(i) ==
  LET c == cmd[i]
      a == Alias[c.cmd]
      args == IF a.arg = <<>> THEN c.args ELSE [k \in DOMAIN a.arg |-> Replace(a.arg[k], c.args)]
      by == IF a.with = AccessDefault THEN c.by ELSE [c.by EXCEPT !.access = a.with]
  IN Only([cmd EXCEPT ![i] =
       IF Len(c.args) < a.expected THEN [c EXCEPT !.phase = "reply"] ELSE execTrigger(by, a.exe, args)])

AfterLookUp(i) == Only([cmd EXCEPT ![i].phase = "act", ![i].todo = Targets(cmd[i])])

(* The command without user u, and the commands with it.                   *)
Without(i, u) == [cmd[i] EXCEPT !.todo = @ \ {u}, !.cur = u.id]
Advanced(i, u) ==
  [cmd EXCEPT ![i] = IF cmd[i].cmd = "set" THEN Without(i, u) ELSE [Without(i, u) EXCEPT !.phase = "say"]]

Stored(u, a) == [accessUser EXCEPT ![u] = IF a = AccessDefault THEN DefaultUser[u] ELSE a]

Sets(i, u, a, byBan) ==
  State(Advanced(i, u), Stored(u.id, a), [tracked EXCEPT ![u.id] = byBan], saych, lapsed)

AfterChange(i, u) ==
  CASE cmd[i].cmd = "set" -> Sets(i, u, SetLevel(Without(i, u)), FALSE)
    [] cmd[i].cmd = "ban" -> Sets(i, u, AccessBan, TRUE)
    [] cmd[i].cmd = "unban" /\ u.access < AccessDefault -> Sets(i, u, AccessDefault, TRUE)
    [] OTHER -> Only(Advanced(i, u))

AfterLine(i) ==
  IF Refused
    THEN State([cmd EXCEPT ![i].phase = "reply"], accessUser,
               IF cmd[i].cmd = "kick" THEN tracked ELSE [tracked EXCEPT ![cmd[i].cur] = FALSE],
               saych, TRUE)
    ELSE State([cmd EXCEPT ![i].phase = "act"], accessUser, tracked,
               Append(saych, Line(cmd[i].cmd, cmd[i].cur)), lapsed)

AfterReply(i) ==
  State([cmd EXCEPT ![i] = Ended], accessUser, tracked,
        IF cmd[i].by.here /\ ~Full THEN Append(saych, Line("say", Anybody)) ELSE saych, lapsed)

(* A state command i can go on to, whatever the queue and the server are   *)
(* doing.                                                                  *)
Onward(i) ==
  LET c == cmd[i] IN
  CASE c.phase = "start" /\ c.cmd \in DOMAIN Alias -> AfterAlias(i)
    [] c.phase = "start" /\ c.cmd \notin DOMAIN Alias -> AfterLookUp(i)
    [] c.phase = "act" /\ c.todo # {} -> AfterChange(i, CHOOSE u \in c.todo : TRUE)
    [] c.phase = "say" -> AfterLine(i)
    [] OTHER -> AfterReply(i)

(* A command that has not ended can take a step in every reachable state   *)
(* (GInvHolds), and Onward is where it leads: with a full queue, and       *)
(* without the rights of an operator, a line is refused and a reply is     *)
(* dropped, and the command goes on (Say and say of bnet.go, execTrigger   *)
(* of goop.go).                                                            *)
THEOREM CommandsNeverWait ==
  ASSUME GInv, NEW i \in Slot, cmd[i].phase \notin {"none", "done"}, vars' = Onward(i)
  PROVE  Execute(i)
<1>1. /\ cmd[i].phase \in {"start", "act", "say", "reply"}
      /\ cmd[i].phase = "start" => cmd[i].cmd \in Commands \cup DOMAIN Alias
  BY DEF GInv, TInv, TypeOK
<1>2. CASE cmd[i].phase = "start" /\ cmd[i].cmd \in DOMAIN Alias
  <2>1. vars' = AfterAlias(i)
    BY <1>2 DEF Onward
  <2>2. ExecuteAlias(i)
    BY <1>2, <2>1 DEF AfterAlias, Only, ExecuteAlias, State, vars, bot, histories
  <2> QED BY <2>2 DEF Execute
<1>3. CASE cmd[i].phase = "start" /\ cmd[i].cmd \notin DOMAIN Alias
  <2>1. vars' = AfterLookUp(i)
    BY <1>3 DEF Onward
  <2>2. LookUp(i)
    BY <1>1, <1>3, <2>1 DEF AfterLookUp, Only, LookUp, State, vars, bot, histories
  <2> QED BY <2>2 DEF Execute
<1>4. CASE cmd[i].phase = "act" /\ cmd[i].todo # {}
  <2>1. PICK u \in cmd[i].todo : vars' = AfterChange(i, u)
    BY <1>4 DEF Onward
  <2> DEFINE Rest == UNCHANGED <<operator, present, saych, loop, server, reports, events, unwanted, lapsed>>
  <2>2. ASSUME NEW a, NEW byBan, vars' = Sets(i, u, a, byBan)
        PROVE  cmd' = Advanced(i, u) /\ SetUserAccess(u.id, a, byBan) /\ Rest
    BY <2>2 DEF Sets, Stored, SetUserAccess, State, vars, bot, histories
  <2>3. ASSUME vars' = Only(Advanced(i, u))
        PROVE  cmd' = Advanced(i, u) /\ UNCHANGED <<accessUser, tracked>> /\ Rest
    BY <2>3 DEF Only, State, vars, bot, histories
  <2>4. /\ cmd' = Advanced(i, u) /\ Rest
        /\ CASE cmd[i].cmd = "set" -> SetUserAccess(u.id, SetLevel(Without(i, u)), FALSE)
             [] cmd[i].cmd = "ban" -> SetUserAccess(u.id, AccessBan, TRUE)
             [] cmd[i].cmd = "unban" /\ u.access < AccessDefault -> SetUserAccess(u.id, AccessDefault, TRUE)
             [] OTHER -> UNCHANGED <<accessUser, tracked>>
    BY <2>1, <2>2, <2>3 DEF AfterChange
  <2>5. ChangeLevel(i)
    <3>1. cmd[i].phase = "act"
      BY <1>4
    <3> QED BY <2>4, <3>1, Zenon DEF ChangeLevel, Advanced, Without
  <2> QED BY <2>5 DEF Execute
<1>5. CASE cmd[i].phase = "say"
  <2>1. vars' = AfterLine(i)
    BY <1>5 DEF Onward
  <2>2. ASSUME Refused PROVE SendLine(i)
    BY <1>5, <2>1, <2>2 DEF AfterLine, SendLine, State, vars, bot, histories
  <2>3. ASSUME ~Refused PROVE SendLine(i)
    <3>1. operator /\ ~Full
      BY <2>3 DEF Refused
    <3> QED BY <1>5, <2>1, <2>3, <3>1 DEF AfterLine, SendLine, Send, State, vars, bot, histories
  <2>4. SendLine(i)
    BY <2>2, <2>3
  <2> QED BY <2>4 DEF Execute
<1>6. CASE cmd[i].phase = "reply" \/ (cmd[i].phase = "act" /\ cmd[i].todo = {})
  <2>1. vars' = AfterReply(i)
    BY <1>6 DEF Onward
  <2>2. Reply(i)
    BY <1>6, <2>1 DEF AfterReply, Reply, State, vars, bot, histories
  <2> QED BY <2>2 DEF Execute
<1> QED BY <1>1, <1>2, <1>3, <1>4, <1>5, <1>6

=============================================================================
