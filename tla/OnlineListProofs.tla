-------------------------- MODULE OnlineListProofs --------------------------
(***************************************************************************)
(* Theorems about OnlineList, for any gateways, users, levels and bounds.  *)
(*                                                                         *)
(* There is a single message unless the answer to a post is lost, and the  *)
(* list is in order when nobody is about to sort it.  And the list is who is online, once each, where the  *)
(* relay lets every level pass (EveryLevelPasses; without that a user      *)
(* whose level falls stays listed): that invariant says what the list is   *)
(* while an event is on its way to it.  Entries have arrivals of their     *)
(* own, so that the order is strict.                                       *)
(***************************************************************************)
EXTENDS OnlineList, FiniteSetTheorems, FunctionTheorems, SequenceTheorems, WellFoundedInduction, TLAPS

-----------------------------------------------------------------------------
(* One message *)

IsSeq(s) == \E S : s \in Seq(S)

MessageInv == IsSeq(message) /\ listID \in 0..Len(message) /\ SingleMessage

LEMMA Appended ==
  ASSUME NEW s, NEW x, IsSeq(s)
  PROVE  /\ IsSeq(Append(s, x)) /\ Len(Append(s, x)) = Len(s) + 1 /\ Len(s) \in Nat
         /\ DOMAIN s = 1..Len(s)
         /\ DOMAIN Append(s, x) = 1..(Len(s) + 1)
         /\ \A k \in 1..Len(s) : Append(s, x)[k] = s[k]
<1>1. PICK S : s \in Seq(S)
  BY DEF IsSeq
<1>2. Append(s, x) \in Seq(S \cup {x})
  <2>1. ASSUME NEW A, NEW B, A \subseteq B, NEW q \in Seq(A)  PROVE  q \in Seq(B)
    BY <2>1
  <2>2. s \in Seq(S \cup {x})
    BY <1>1, <2>1
  <2>3. QED
    BY <2>2
<1>3. QED
  BY <1>1, <1>2 DEF IsSeq

LEMMA Replaced ==
  ASSUME NEW s, IsSeq(s), NEW x, NEW i \in 1..Len(s)
  PROVE  /\ IsSeq([s EXCEPT ![i] = x]) /\ Len([s EXCEPT ![i] = x]) = Len(s) /\ Len(s) \in Nat
         /\ DOMAIN s = 1..Len(s)
         /\ DOMAIN [s EXCEPT ![i] = x] = 1..Len(s)
         /\ \A k \in 1..Len(s) : [s EXCEPT ![i] = x][k] = IF k = i THEN x ELSE s[k]
<1>1. PICK S : s \in Seq(S)
  BY DEF IsSeq
<1>2. [s EXCEPT ![i] = x] \in Seq(S \cup {x})
  <2>1. ASSUME NEW A, NEW q \in Seq(A), NEW y \in A, NEW j \in 1..Len(q)  PROVE  [q EXCEPT ![j] = y] \in Seq(A)
    BY <2>1, ExceptSeq
  <2>2. ASSUME NEW A, NEW B, A \subseteq B, NEW q \in Seq(A)  PROVE  q \in Seq(B)
    BY <2>2
  <2>3. s \in Seq(S \cup {x})
    BY <1>1, <2>2
  <2>4. QED
    BY <2>1, <2>3
<1>3. QED
  BY <1>1, <1>2 DEF IsSeq

LEMMA MessageInit == Init => MessageInv
<1>1. <<>> \in Seq({}) /\ Len(<<>>) = 0 /\ DOMAIN <<>> = {}
  OBVIOUS
<1>2. QED
  BY <1>1 DEF Init, MessageInv, IsSeq, SingleMessage, NoMessage

LEMMA MessageStep == MessageInv /\ [Next]_vars => MessageInv'
<1> SUFFICES ASSUME MessageInv, [Next]_vars PROVE MessageInv'
  OBVIOUS
<1>1. /\ IsSeq(message) /\ listID \in 0..Len(message) /\ Len(message) \in Nat /\ DOMAIN message = 1..Len(message)
      /\ \A id \in DOMAIN message : id # listID /\ id \notin unanswered => message[id] = NoText
  BY Appended DEF MessageInv, SingleMessage
<1>2. ASSUME UNCHANGED <<message, listID, unanswered>>  PROVE MessageInv'
  BY <1>2 DEF MessageInv, SingleMessage, IsSeq
<1>3. ASSUME message' = Append(message, text), listID = 0,
             \/ listID' = Len(message') /\ UNCHANGED unanswered
             \/ UNCHANGED listID /\ unanswered' = unanswered \cup {Len(message')}
      PROVE  MessageInv'
  <2>1. PICK n \in Nat : n = Len(message)
    BY <1>1
  <2>2. /\ IsSeq(message') /\ Len(message') = n + 1 /\ DOMAIN message' = 1..(n + 1)
        /\ \A k \in 1..n : message'[k] = message[k]
    BY <1>1, <1>3, <2>1, Appended
  <2>3. \A id \in 1..(n + 1) : id # n + 1 => id \in 1..n /\ id # 0
    OBVIOUS
  <2>4. \A id \in 1..n : id # 0 /\ id \notin unanswered => message'[id] = NoText
    BY <1>1, <1>3, <2>1, <2>2
  <2>5. \A id \in DOMAIN message' : id # listID' /\ id \notin unanswered' => message'[id] = NoText
    BY <1>3, <2>2, <2>3, <2>4
  <2>6. listID' \in 0..Len(message')
    BY <1>3, <2>2
  <2>7. QED
    BY <2>2, <2>5, <2>6 DEF MessageInv, SingleMessage, NoText
<1>4. ASSUME listID # 0, message' = [message EXCEPT ![listID] = text], UNCHANGED <<listID, unanswered>>
      PROVE  MessageInv'
  <2>1. listID \in 1..Len(message)
    BY <1>1, <1>4
  <2>2. QED
    BY <1>1, <1>4, <2>1, Replaced DEF MessageInv, SingleMessage, NoText
<1>5. CASE UpdateUnknown
  <2>1. UNCHANGED <<message, unanswered>> /\ listID' = 0 /\ message[listID] = NoText
    BY <1>5 DEF UpdateUnknown, NoMessage
  <2>2. QED
    BY <1>1, <2>1 DEF MessageInv, SingleMessage, NoText
<1>6. CASE Delete
  <2>1. PICK id \in DOMAIN message : message' = [message EXCEPT ![id] = NoText] /\ UNCHANGED <<listID, unanswered>>
    BY <1>6 DEF Delete
  <2>2. id \in 1..Len(message)
    BY <1>1
  <2>3. /\ IsSeq(message') /\ Len(message') = Len(message) /\ DOMAIN message' = 1..Len(message)
        /\ \A k \in 1..Len(message) : message'[k] = IF k = id THEN NoText ELSE message[k]
    BY <1>1, <2>1, <2>2, Replaced
  <2>4. SingleMessage'
    BY <1>1, <2>1, <2>3 DEF SingleMessage, NoText
  <2>5. QED
    BY <1>1, <2>1, <2>3, <2>4 DEF MessageInv
<1>7. CASE Wake \/ Tick \/ UNCHANGED vars
  BY <1>2, <1>7 DEF Wake, Tick, vars
<1>8. ASSUME NEW th, Handle(th)  PROVE MessageInv'
  BY <1>2, <1>8 DEF Handle, Relay, sortOnline, updateOnline, updaterVars
<1>9. ASSUME NEW g, NEW u, NEW a,
             UserJoined(g, u) \/ UserLeft(g, u) \/ UserUpdate(g, u, a) \/ SetUserAccess(g, u, a) \/ Cleared(g)
      PROVE  MessageInv'
  <2>1. UNCHANGED <<message, listID, unanswered>>
    BY <1>9 DEF UserJoined, UserLeft, UserUpdate, SetUserAccess, Cleared, Happens, updaterVars
  <2>2. QED
    BY <1>2, <2>1
<1>10. CASE Post
  BY <1>3, <1>10 DEF Post, NoMessage
<1>11. CASE Update
  BY <1>4, <1>11 DEF Update, NoMessage
<1>12. CASE SendFails
  <2>1. CASE UNCHANGED <<message, listID, unanswered>>
    BY <1>2, <2>1
  <2>2. CASE /\ listID = 0 /\ message' = Append(message, text) /\ UNCHANGED listID
             /\ unanswered' = unanswered \cup {Len(message')}
    BY <1>3, <2>2
  <2>3. CASE listID # 0 /\ message' = [message EXCEPT ![listID] = text] /\ UNCHANGED <<listID, unanswered>>
    BY <1>4, <2>3
  <2>4. QED
    BY <1>12, <2>1, <2>2, <2>3 DEF SendFails, NoMessage
<1>13. QED
  BY <1>5, <1>6, <1>7, <1>8, <1>9, <1>10, <1>11, <1>12, Zenon DEF Next, Send

(* The updater leaves no message behind but deleted ones, and those of     *)
(* posts whose answer it never had, though requests fail and messages are  *)
(* deleted (updateOnline of channel.go).                                   *)
THEOREM OneMessage == Spec => []SingleMessage
<1>1. MessageInv => SingleMessage
  BY DEF MessageInv
<1>2. QED
  BY <1>1, MessageInit, MessageStep, PTL DEF Spec

-----------------------------------------------------------------------------
(* The list *)

Entries == [gw : Gateways, user : Users, access : Levels, since : Nat]

(* Entries have arrivals of their own; a user of a gateway has one entry.  *)
Fresh(s, n) == \A i, j \in DOMAIN s : s[i].since <= n /\ (s[i].since = s[j].since => i = j)
Single(s) == \A i, j \in DOMAIN s : s[i].gw = s[j].gw /\ s[i].user = s[j].user => i = j
Ordered(s) == \A i, j \in DOMAIN s : i < j => InOrder(s[i], s[j])

(* The users of gateway g among the entries at D, and in all of the list.  *)
Among(s, D, g) == {s[i].user : i \in {j \in D : s[j].gw = g}}
In(s, g) == Among(s, DOMAIN s, g)

LEMMA ListOf ==
  ASSUME NEW S, NEW n \in Nat, NEW t \in [1..n -> S]
  PROVE  t \in Seq(S) /\ Len(t) = n
OBVIOUS

(* What edits and sorts do: the entries at D are put in another order.     *)
Arranged(s, f) == [k \in DOMAIN f |-> s[f[k]]]

LEMMA ArrangedList ==
  ASSUME NEW s \in Seq(Entries), NEW n \in Nat, NEW D \in SUBSET (1..Len(s)), NEW f \in Bijection(1..n, D),
         NEW a, Fresh(s, a)
  PROVE  /\ Arranged(s, f) \in Seq(Entries) /\ DOMAIN Arranged(s, f) = 1..n
         /\ (Single(s) => Single(Arranged(s, f))) /\ Fresh(Arranged(s, f), a)
         /\ \A g : In(Arranged(s, f), g) = Among(s, D, g)
<1>1. PICK t : t = Arranged(s, f)
  OBVIOUS
<1>2. /\ f \in [1..n -> D]
      /\ \A k, l \in 1..n : f[k] = f[l] => k = l
      /\ \A i \in D : \E k \in 1..n : f[k] = i
  BY Fun_BijectionProperties
<1>3. /\ DOMAIN s = 1..Len(s) /\ \A i \in D : i \in DOMAIN s /\ s[i] \in Entries
  BY ElementOfSeq, LenProperties
<1>4. DOMAIN t = 1..n /\ \A k \in 1..n : f[k] \in D /\ t[k] = s[f[k]]
  BY <1>1, <1>2 DEF Arranged
<1>5. t \in Seq(Entries)
  <2>1. t \in [1..n -> Entries]
    BY <1>1, <1>2, <1>3 DEF Arranged
  <2>2. QED
    BY <2>1, ListOf
<1>6. ASSUME NEW i \in 1..n, NEW j \in 1..n
      PROVE  /\ Single(s) /\ t[i].gw = t[j].gw /\ t[i].user = t[j].user => i = j
             /\ t[i].since <= a /\ (t[i].since = t[j].since => i = j)
  <2>1. f[i] \in DOMAIN s /\ f[j] \in DOMAIN s /\ t[i] = s[f[i]] /\ t[j] = s[f[j]]
    BY <1>3, <1>4
  <2>2. f[i] = f[j] => i = j
    BY <1>2
  <2>3. QED
    BY <2>1, <2>2 DEF Single, Fresh
<1>7. (Single(s) => Single(t)) /\ Fresh(t, a)
  BY <1>4, <1>6 DEF Single, Fresh
<1>8. ASSUME NEW g  PROVE In(t, g) = Among(s, D, g)
  <2>1. ASSUME NEW u \in In(t, g)  PROVE u \in Among(s, D, g)
    <3>1. PICK k \in 1..n : t[k].gw = g /\ t[k].user = u
      BY <1>4, <2>1 DEF In, Among
    <3>2. f[k] \in D /\ s[f[k]].gw = g /\ s[f[k]].user = u
      BY <1>4, <3>1
    <3>3. QED
      BY <3>2 DEF Among
  <2>2. ASSUME NEW u \in Among(s, D, g)  PROVE u \in In(t, g)
    <3>1. PICK i \in D : s[i].gw = g /\ s[i].user = u
      BY <2>2 DEF Among
    <3>2. PICK k \in 1..n : f[k] = i
      BY <1>2
    <3>3. QED
      BY <1>4, <3>1, <3>2 DEF In, Among
  <2>3. QED
    BY <2>1, <2>2
<1>9. QED
  BY <1>1, <1>4, <1>5, <1>7, <1>8

LEMMA SortedList ==
  ASSUME NEW s \in Seq(Entries), NEW f \in Bijection(DOMAIN s, DOMAIN s),
         \A k, l \in DOMAIN f : k < l => ~InOrder(s[f[l]], s[f[k]]),
         NEW t, t = Arranged(s, f), NEW a, Fresh(s, a)
  PROVE  /\ t \in Seq(Entries) /\ (Single(s) => Single(t)) /\ Fresh(t, a) /\ Ordered(t)
         /\ \A g : In(t, g) = In(s, g)
<1>1. DOMAIN s = 1..Len(s) /\ Len(s) \in Nat
  BY LenProperties
<1>2. DOMAIN f = DOMAIN s /\ f \in [DOMAIN s -> DOMAIN s]
  BY Fun_BijectionProperties
<1>3. Len(s) \in Nat
  BY <1>1
<1>4. PICK n \in Nat : n = Len(s)
  BY <1>3
<1>5. DOMAIN s = 1..n /\ DOMAIN s \in SUBSET (1..Len(s)) /\ \A k \in 1..n : t[k] = s[f[k]]
  BY <1>1, <1>2, <1>4 DEF Arranged
<1>6. f \in Bijection(1..n, DOMAIN s)
  BY <1>5
<1>7. /\ t \in Seq(Entries) /\ DOMAIN t = DOMAIN s /\ (Single(s) => Single(t)) /\ Fresh(t, a)
      /\ \A g : In(t, g) = Among(s, DOMAIN s, g)
  BY <1>5, <1>6, ArrangedList
<1>8. ASSUME NEW k \in 1..n, NEW l \in 1..n, k < l  PROVE InOrder(t[k], t[l])
  <2>1. ~InOrder(t[l], t[k])
    BY <1>2, <1>5, <1>8
  <2>2. t[k] \in Entries /\ t[l] \in Entries
    BY <1>5, <1>7, <1>4
  <2>3. t[k].access \in Int /\ t[l].access \in Int /\ t[k].since \in Nat /\ t[l].since \in Nat
    BY <2>2, LevelsAssumption DEF Entries
  <2>4. t[k].since # t[l].since
    BY <1>5, <1>7, <1>8 DEF Fresh
  <2>5. PICK x \in Int, y \in Int, v \in Nat, w \in Nat :
          x = t[k].access /\ y = t[l].access /\ v = t[k].since /\ w = t[l].since
    BY <2>3
  <2>6. ~(y > x \/ (y = x /\ w < v)) /\ v # w
    BY <2>1, <2>4, <2>5 DEF InOrder
  <2>7. x > y \/ (x = y /\ v < w)
    BY <2>6
  <2>8. QED
    BY <2>5, <2>7 DEF InOrder
<1>9. Ordered(t)
  BY <1>5, <1>7, <1>8 DEF Ordered
<1>10. QED
  BY <1>7, <1>9 DEF In

(* Entries that keep their order are still in order.                       *)
LEMMA StillOrdered ==
  ASSUME NEW s \in Seq(Entries), NEW n \in Nat, NEW D \in SUBSET (1..Len(s)), NEW f \in Bijection(1..n, D),
         \A k, l \in 1..n : k < l => f[k] < f[l], Ordered(s)
  PROVE  Ordered(Arranged(s, f))
<1>1. DOMAIN s = 1..Len(s) /\ f \in [1..n -> D]
  BY LenProperties, Fun_BijectionProperties
<1>2. DOMAIN Arranged(s, f) = 1..n /\ \A k \in 1..n : f[k] \in DOMAIN s /\ Arranged(s, f)[k] = s[f[k]]
  BY <1>1 DEF Arranged
<1>3. QED
  BY <1>2 DEF Ordered

Kept(s, g) == {i \in DOMAIN s : s[i].gw # g}

LEMMA ClearedList ==
  ASSUME NEW s \in Seq(Entries), NEW g, NEW n \in Nat,
         NEW f \in Bijection(1..n, Kept(s, g)), \A k, l \in DOMAIN f : k < l => f[k] < f[l],
         NEW a, Fresh(s, a)
  PROVE  /\ Arranged(s, f) \in Seq(Entries)
         /\ (Single(s) => Single(Arranged(s, f))) /\ Fresh(Arranged(s, f), a) /\ (Ordered(s) => Ordered(Arranged(s, f)))
         /\ In(Arranged(s, f), g) = {} /\ \A h : h # g => In(Arranged(s, f), h) = In(s, h)
<1>1. PICK t, D : t = Arranged(s, f) /\ D = Kept(s, g)
  OBVIOUS
<1>2. DOMAIN s = 1..Len(s)
  BY LenProperties
<1>3. D \in SUBSET (1..Len(s)) /\ f \in Bijection(1..n, D)
  BY <1>2, <1>1 DEF Kept
<1>4. f \in [1..n -> D] /\ DOMAIN f = 1..n
  BY <1>3, Fun_BijectionProperties
<1>5. /\ t \in Seq(Entries) /\ (Single(s) => Single(t)) /\ Fresh(t, a)
      /\ \A h : In(t, h) = Among(s, D, h)
  BY <1>3, <1>1, ArrangedList
<1>6. Ordered(s) => Ordered(t)
  <2>1. \A k, l \in 1..n : k < l => f[k] < f[l]
    BY <1>4
  <2>2. QED
    BY <1>3, <1>1, <2>1, StillOrdered
<1>7. Among(s, D, g) = {} /\ \A h : h # g => Among(s, D, h) = In(s, h)
  BY <1>1 DEF Among, In, Kept
<1>8. QED
  BY <1>5, <1>6, <1>7, <1>1

Skip(k, i) == IF k < i THEN k ELSE k + 1

(* The numbers but i, in order.                                            *)
LEMMA Without ==
  ASSUME NEW n \in Nat, NEW i \in 1..n, NEW f, f = [k \in 1..(n - 1) |-> Skip(k, i)]
  PROVE  /\ f \in Bijection(1..(n - 1), (1..n) \ {i})
         /\ \A k, l \in 1..(n - 1) : k < l => f[k] < f[l]
<1>1. f \in [1..(n - 1) -> (1..n) \ {i}]
  BY DEF Skip
<1>2. \A k, l \in 1..(n - 1) : f[k] = f[l] => k = l
  BY DEF Skip
<1>3. ASSUME NEW j \in (1..n) \ {i}  PROVE \E k \in 1..(n - 1) : f[k] = j
  <2>1. CASE j < i
    <3>1. j \in 1..(n - 1) /\ f[j] = j
      BY <2>1 DEF Skip
    <3>2. QED
      BY <3>1
  <2>2. CASE ~(j < i)
    <3>1. j - 1 \in 1..(n - 1) /\ f[j - 1] = j
      BY <2>2 DEF Skip
    <3>2. QED
      BY <3>1
  <2>3. QED
    BY <2>1, <2>2
<1>4. \A k, l \in 1..(n - 1) : k < l => f[k] < f[l]
  BY DEF Skip
<1>5. QED
  BY <1>1, <1>2, <1>3, <1>4 DEF Bijection, Injection, Surjection, IsInjective

Removed(s, i) == SubSeq(s, 1, i - 1) \o SubSeq(s, i + 1, Len(s))

LEMMA RemoveAt ==
  ASSUME NEW S, NEW s \in Seq(S), NEW i \in 1..Len(s)
  PROVE  /\ Removed(s, i) \in Seq(S) /\ Len(Removed(s, i)) = Len(s) - 1
         /\ \A k \in 1..(Len(s) - 1) : Removed(s, i)[k] = s[Skip(k, i)]
<1>1. PICK n \in Nat : n = Len(s)
  OBVIOUS
<1>2. PICK p, q : p = SubSeq(s, 1, i - 1) /\ q = SubSeq(s, i + 1, n)
  OBVIOUS
<1>3. p \in Seq(S) /\ Len(p) = i - 1 /\ \A k \in 1..(i - 1) : p[k] = s[k]
  BY <1>1, <1>2, SubSeqProperties
<1>4. q \in Seq(S) /\ Len(q) = n - i /\ \A k \in 1..(n - i) : q[k] = s[k + i]
  BY <1>1, <1>2, SubSeqProperties
<1>5. PICK t : t = p \o q
  OBVIOUS
<1>6. t \in Seq(S) /\ Len(t) = Len(p) + Len(q)
  BY <1>3, <1>4, <1>5, ConcatProperties
<1>7. \A k \in 1..(Len(p) + Len(q)) : t[k] = IF k <= Len(p) THEN p[k] ELSE q[k - Len(p)]
  BY <1>3, <1>4, <1>5, ConcatProperties
<1>8. ASSUME NEW k \in 1..(n - 1)  PROVE t[k] = s[Skip(k, i)]
  <2>1. k \in 1..(Len(p) + Len(q))
    BY <1>1, <1>3, <1>4
  <2>2. CASE k < i
    <3>1. k \in 1..(i - 1) /\ k <= Len(p)
      BY <1>1, <1>3, <2>2
    <3>2. t[k] = p[k]
      BY <1>7, <2>1, <3>1
    <3>3. QED
      BY <1>3, <2>2, <3>1, <3>2 DEF Skip
  <2>3. CASE ~(k < i)
    <3>1. k - (i - 1) \in 1..(n - i) /\ k - (i - 1) + i = k + 1 /\ ~(k <= i - 1)
      BY <1>1, <2>3
    <3>2. t[k] = q[k - (i - 1)]
      BY <1>3, <1>7, <2>1, <3>1
    <3>3. q[k - (i - 1)] = s[k + 1]
      BY <1>4, <3>1
    <3>4. QED
      BY <2>3, <3>2, <3>3 DEF Skip
  <2>4. QED
    BY <2>2, <2>3
<1>9. QED
  <2>1. Len(t) = n - 1
    BY <1>3, <1>4, <1>6
  <2>2. QED
    BY <1>1, <1>2, <1>5, <1>6, <1>8, <2>1 DEF Removed

LEMMA LeftList ==
  ASSUME NEW s \in Seq(Entries), NEW i \in DOMAIN s, NEW a, Fresh(s, a)
  PROVE  /\ Removed(s, i) \in Seq(Entries)
         /\ (Single(s) => Single(Removed(s, i))) /\ Fresh(Removed(s, i), a)
         /\ (Ordered(s) => Ordered(Removed(s, i)))
         /\ (Single(s) => In(Removed(s, i), s[i].gw) = In(s, s[i].gw) \ {s[i].user})
         /\ \A h : h # s[i].gw => In(Removed(s, i), h) = In(s, h)
<1>1. PICK t : t = Removed(s, i)
  OBVIOUS
<1>2. PICK n \in Nat : n = Len(s)
  OBVIOUS
<1>3. DOMAIN s = 1..n /\ i \in 1..n /\ n - 1 \in Nat
  BY <1>2, LenProperties
<1>4. PICK D : D = (1..n) \ {i}
  OBVIOUS
<1>5. PICK f : f = [k \in 1..(n - 1) |-> Skip(k, i)]
  OBVIOUS
<1>6. /\ D \in SUBSET (1..Len(s)) /\ f \in Bijection(1..(n - 1), D)
      /\ \A k, l \in 1..(n - 1) : k < l => f[k] < f[l]
  BY <1>2, <1>3, <1>4, <1>5, Without
<1>7. t = Arranged(s, f)
  <2>1. PICK r \in Seq(Entries) : r = Removed(s, i)
    BY <1>2, <1>3, RemoveAt
  <2>2. r = t
    BY <1>1, <2>1
  <2>3. Len(r) = n - 1 /\ \A k \in 1..(n - 1) : r[k] = s[f[k]]
    <3>1. /\ Len(Removed(s, i)) = Len(s) - 1
          /\ \A k \in 1..(Len(s) - 1) : Removed(s, i)[k] = s[Skip(k, i)]
      BY <1>2, <1>3, RemoveAt
    <3>2. \A k \in 1..(n - 1) : f[k] = Skip(k, i)
      BY <1>5
    <3>3. QED
      BY <1>2, <2>1, <3>1, <3>2
  <2>4. r \in [1..(n - 1) -> Entries]
    BY <2>3, LenProperties
  <2>5. r = [k \in 1..(n - 1) |-> s[f[k]]]
    BY <2>3, <2>4
  <2>6. DOMAIN f = 1..(n - 1)
    BY <1>5
  <2>7. QED
    BY <2>2, <2>5, <2>6 DEF Arranged
<1>8. /\ t \in Seq(Entries) /\ (Single(s) => Single(t)) /\ Fresh(t, a)
      /\ \A h : In(t, h) = Among(s, D, h)
  <2>1. PICK m \in Nat : m = n - 1
    BY <1>3
  <2>2. D \in SUBSET (1..Len(s)) /\ f \in Bijection(1..m, D)
    BY <1>6, <2>1
  <2>3. QED
    BY <1>7, <2>2, ArrangedList
<1>9. Ordered(s) => Ordered(t)
  BY <1>3, <1>6, <1>7, StillOrdered
<1>10. Single(s) => Among(s, D, s[i].gw) = In(s, s[i].gw) \ {s[i].user}
  BY <1>3, <1>4 DEF Among, In, Single
<1>11. \A h : h # s[i].gw => Among(s, D, h) = In(s, h)
  BY <1>3, <1>4 DEF Among, In
<1>12. QED
  BY <1>8, <1>9, <1>10, <1>11, <1>1

Joined(s, e) == Append(s, e)

LEMMA JoinedList ==
  ASSUME NEW s \in Seq(Entries), NEW e \in Entries, \A k \in DOMAIN s : s[k].since < e.since,
         NEW a, Fresh(s, a)
  PROVE  /\ Joined(s, e) \in Seq(Entries) /\ Fresh(Joined(s, e), e.since)
         /\ (Single(s) /\ e.user \notin In(s, e.gw) => Single(Joined(s, e)))
         /\ In(Joined(s, e), e.gw) = In(s, e.gw) \cup {e.user}
         /\ \A h : h # e.gw => In(Joined(s, e), h) = In(s, h)
<1>1. PICK t : t = Append(s, e)
  OBVIOUS
<1>2. PICK n \in Nat : n = Len(s)
  OBVIOUS
<1>3. /\ t \in Seq(Entries) /\ DOMAIN s = 1..n /\ DOMAIN t = 1..(n + 1) /\ t[n + 1] = e
      /\ \A k \in 1..n : t[k] = s[k] /\ k # n + 1 /\ k \in 1..(n + 1) /\ s[k] \in Entries
  BY <1>2, <1>1
<1>4. \A k \in 1..(n + 1) : k \in 1..n \/ k = n + 1
  OBVIOUS
<1>5. e.user \notin In(s, e.gw) => \A k \in 1..n : s[k].gw # e.gw \/ s[k].user # e.user
  BY <1>3 DEF In, Among
<1>6. e.since \in Nat /\ \A k \in 1..n : s[k].since < e.since /\ s[k].since \in Nat
  BY <1>3 DEF Entries
<1>7. Single(s) /\ e.user \notin In(s, e.gw) => Single(t)
  BY <1>3, <1>4, <1>5 DEF Single
<1>8. Fresh(t, e.since)
  <2>1. e.since <= e.since /\ \A k \in 1..n : t[k].since <= e.since /\ t[k].since # e.since
    <3>1. PICK m \in Nat : m = e.since
      BY <1>6
    <3>2. \A k \in 1..n : s[k].since <= m /\ s[k].since # m
      BY <1>6, <3>1
    <3>3. m <= m /\ \A k \in 1..n : t[k] = s[k]
      BY <1>3
    <3>4. QED
      BY <3>1, <3>2, <3>3
  <2>2. \A k, l \in 1..n : s[k].since = s[l].since => k = l
    BY <1>3 DEF Fresh
  <2>3. QED
    BY <1>3, <1>4, <2>1, <2>2 DEF Fresh
<1>9. In(t, e.gw) = In(s, e.gw) \cup {e.user}
  BY <1>3, <1>4 DEF In, Among
<1>10. \A h : h # e.gw => In(t, h) = In(s, h)
  BY <1>3, <1>4 DEF In, Among
<1>11. QED
  BY <1>3, <1>7, <1>8, <1>9, <1>10, <1>1 DEF Joined

Changed(s, i, l) == [s EXCEPT ![i].access = l]

LEMMA ChangedList ==
  ASSUME NEW s \in Seq(Entries), NEW i \in DOMAIN s, NEW l \in Levels, NEW a, Fresh(s, a)
  PROVE  /\ Changed(s, i, l) \in Seq(Entries) /\ (Single(s) => Single(Changed(s, i, l))) /\ Fresh(Changed(s, i, l), a)
         /\ \A h : In(Changed(s, i, l), h) = In(s, h)
<1>1. PICK t : t = [s EXCEPT ![i].access = l]
  OBVIOUS
<1>2. PICK n \in Nat : n = Len(s)
  OBVIOUS
<1>3. DOMAIN s = 1..n /\ \A k \in 1..n : s[k] \in Entries
  BY <1>2, ElementOfSeq
<1>4. [s[i] EXCEPT !.access = l] \in Entries
  BY <1>3 DEF Entries
<1>5. t \in Seq(Entries) /\ DOMAIN t = 1..n
  BY <1>2, <1>3, <1>4, <1>1, ExceptSeq
<1>6. \A k \in 1..n : t[k].gw = s[k].gw /\ t[k].user = s[k].user /\ t[k].since = s[k].since
  BY <1>3, <1>1 DEF Entries
<1>7. QED
  BY <1>3, <1>5, <1>6, <1>1 DEF Changed, Single, Fresh, In, Among

-----------------------------------------------------------------------------
(* The list is who is online *)

WellTyped ==
  /\ here \in [Gateways -> SUBSET Users]
  /\ access \in [Gateways -> [Users -> Levels]]
  /\ arrivals \in Nat
  /\ step \in [Thread -> {"idle", "relay", "sort", "notify"}]
  /\ event \in [Thread -> Event] /\ \A th \in Thread : event[th].gw = th[1]
  /\ online \in Seq(Entries)

(* What is in the list of a gateway where the users here are, while an     *)
(* event is on its way to it and when none is.                             *)
Listing(listed, users, at, ev) ==
  /\ at # "relay" => listed = users
  /\ at = "relay" =>
       /\ ev.kind = "clear" => users = {}
       /\ ev.kind = "user" => listed = users
       /\ ev.kind = "join" => ev.user \in users /\ listed = users \ {ev.user}
       /\ ev.kind = "leave" => ev.user \notin users /\ listed = users \cup {ev.user}

Online == \A g \in Gateways : Listing(In(online, g), here[g], step[<<g, "loop">>], event[<<g, "loop">>])
Commands == \A g \in Gateways : step[<<g, "cmd">>] = "relay" => event[<<g, "cmd">>].kind = "user"
Resting == \A th \in Thread : step[th] # "sort"

LInv ==
  /\ WellTyped /\ Online /\ Commands
  /\ Fresh(online, arrivals) /\ Single(online) /\ (Resting => Ordered(online))

LEMMA EventForm ==
  ASSUME NEW ev \in Event
  PROVE  /\ ev.gw \in Gateways /\ ev.kind \in {"join", "user", "leave", "clear"}
         /\ ev.kind # "clear" => ev.user \in Users /\ ev.access \in Levels
BY DEF Event

(* A set of numbers that is not empty has a least and a greatest one.      *)
LEMMA LeastNumber ==
  ASSUME NEW S \in SUBSET Nat, S # {}
  PROVE  \E i \in S : \A j \in S : i <= j
<1>1. PICK i \in S : \A j \in S : <<j, i>> \notin OpToRel(<, Nat)
  BY NatLessThanWellFounded, WFMin, Zenon
<1>2. \A j \in S : ~(j < i)
  BY <1>1, Zenon DEF OpToRel
<1>3. QED
  BY <1>2

(* The greatest of S is the least from above.                              *)
LEMMA GreatestNumber ==
  ASSUME NEW n \in Nat, NEW S \in SUBSET (1..n), S # {}
  PROVE  \E i \in S : \A j \in S : j <= i
<1>1. PICK T : T = {n - i : i \in S}
  OBVIOUS
<1>2. \A i \in S : i \in Int /\ n - i \in Nat
  OBVIOUS
<1>3. T \in SUBSET Nat /\ T # {}
  BY <1>1, <1>2
<1>4. PICK k \in T : \A m \in T : k <= m
  BY <1>3, LeastNumber
<1>5. PICK i \in S : k = n - i
  BY <1>1
<1>6. \A j \in S : n - i <= n - j
  BY <1>1, <1>4, <1>5
<1>7. QED
  BY <1>2, <1>6

(* Some match is the first of them, and some the last.                     *)
LEMMA SomeMatch ==
  ASSUME NEW ev, online \in Seq(Entries), Matches(ev) # {}
  PROVE  Least(Matches(ev)) \in Matches(ev) /\ Greatest(Matches(ev)) \in Matches(ev)
<1>1. PICK n \in Nat : n = Len(online)
  BY LenProperties
<1>2. Matches(ev) \subseteq 1..n
  BY <1>1, LenProperties DEF Matches
<1>3. PICK i \in Matches(ev) : \A j \in Matches(ev) : i <= j
  BY <1>2, LeastNumber
<1>4. PICK k \in Matches(ev) : \A j \in Matches(ev) : j <= k
  BY <1>2, GreatestNumber
<1>5. QED
  BY <1>3, <1>4 DEF Least, Greatest

(* What an edit does to the list.                                          *)
LEMMA EditForm ==
  ASSUME NEW ev \in Event, Edit(ev), NEW a \in Nat, a = arrivals,
         online \in Seq(Entries), Fresh(online, a)
  PROVE  \/ /\ ev.kind = "clear"
            /\ \E n \in Nat : \E f \in Bijection(1..n, Kept(online, ev.gw)) :
                 (\A k, l \in DOMAIN f : k < l => f[k] < f[l]) /\ online' = Arranged(online, f)
         \/ /\ ev.kind = "join"
            /\ \E e \in Entries : /\ e.gw = ev.gw /\ e.user = ev.user /\ e.since = a + 1
                                  /\ \A k \in DOMAIN online : online[k].since < e.since
                                  /\ online' = Joined(online, e)
         \/ ev.kind \in {"user", "leave"} /\ Matches(ev) = {} /\ online' = online
         \/ ev.kind = "user" /\ \E i \in Matches(ev) : online' = Changed(online, i, ev.access)
         \/ ev.kind = "leave" /\ \E i \in Matches(ev) : online' = Removed(online, i)
<1>1. /\ ev.gw \in Gateways /\ ev.kind \in {"join", "user", "leave", "clear"}
      /\ ev.kind # "clear" => ev.user \in Users /\ ev.access \in Levels
  BY EventForm
<1>2. CASE ev.kind = "clear"
  <2>1. clearOnline(ev.gw)
    BY <1>2 DEF Edit
  <2>2. PICK D : D = Kept(online, ev.gw)
    OBVIOUS
  <2>3. PICK f \in Bijection(1..Cardinality(D), D) :
          (\A k, l \in DOMAIN f : k < l => f[k] < f[l]) /\ online' = Arranged(online, f)
    <3>1. \E f \in Bijection(1..Cardinality(Kept(online, ev.gw)), Kept(online, ev.gw)) :
            (\A k, l \in DOMAIN f : k < l => f[k] < f[l]) /\ online' = Arranged(online, f)
      BY <2>1, Zenon DEF clearOnline, Arrange, Arranged, Kept
    <3>2. QED
      BY <2>2, <3>1
  <2>4. PICK n \in Nat : n = Cardinality(D)
    <3>1. DOMAIN online = 1..Len(online) /\ Len(online) \in Nat
      BY LenProperties
    <3>2. IsFiniteSet(DOMAIN online)
      BY <3>1, FS_Interval
    <3>3. D \subseteq DOMAIN online
      BY <2>2 DEF Kept
    <3>4. Cardinality(D) \in Nat
      BY <3>2, <3>3, FS_Subset, FS_CardinalityType
    <3>5. QED
      BY <3>4
  <2>5. f \in Bijection(1..n, Kept(online, ev.gw))
    BY <2>2, <2>3, <2>4
  <2>6. QED
    BY <1>2, <2>3, <2>5
<1>3. CASE ev.kind = "join"
  <2>1. PICK e : e = [gw |-> ev.gw, user |-> ev.user, access |-> ev.access, since |-> a + 1]
    OBVIOUS
  <2>2. e \in Entries /\ e.gw = ev.gw /\ e.user = ev.user /\ e.since = a + 1
    BY <1>1, <1>3, <2>1 DEF Entries
  <2>3. online' = Joined(online, e)
    BY <1>3, <2>1 DEF Edit, Joined
  <2>4. ASSUME NEW k \in DOMAIN online  PROVE online[k].since < e.since
    <3>1. online[k] \in Entries
      BY ElementOfSeq, LenProperties
    <3>2. online[k].since \in Nat /\ online[k].since <= a
      BY <3>1 DEF Fresh, Entries
    <3>3. QED
      BY <2>2, <3>2
  <2>5. QED
    BY <1>3, <2>2, <2>3, <2>4
<1>4. CASE ev.kind \in {"user", "leave"} /\ Matches(ev) = {}
  BY <1>4 DEF Edit
<1>5. CASE ev.kind = "user" /\ Matches(ev) # {}
  <2>1. online' = Changed(online, Least(Matches(ev)), ev.access)
    BY <1>5 DEF Edit, Changed
  <2>2. QED
    BY <1>5, <2>1, SomeMatch
<1>6. CASE ev.kind = "leave" /\ Matches(ev) # {}
  <2>1. online' = Removed(online, Greatest(Matches(ev)))
    BY <1>6 DEF Edit, Removed
  <2>2. QED
    BY <1>6, <2>1, SomeMatch
<1>7. QED
  BY <1>1, <1>2, <1>3, <1>4, <1>5, <1>6

(* Whoever is listed, an edit that is not followed by a sort keeps the     *)
(* order, and a new entry has an arrival of its own.                       *)
LEMMA EditedOrder ==
  ASSUME NEW ev \in Event, Edit(ev), NEW a \in Nat, a = arrivals,
         online \in Seq(Entries), Fresh(online, a)
  PROVE  /\ online' \in Seq(Entries)
         /\ Fresh(online', IF ev.kind = "join" THEN a + 1 ELSE a)
         /\ ev.kind \in {"clear", "leave"} /\ Ordered(online) => Ordered(online')
<1>1. PICK s, t : s = online /\ t = online'
  OBVIOUS
<1>2. s \in Seq(Entries) /\ Fresh(s, a) /\ (ev.kind = "user" => ev.access \in Levels)
  BY <1>1, EventForm
<1>3. ASSUME ev.kind = "clear", NEW n \in Nat, NEW f \in Bijection(1..n, Kept(s, ev.gw)),
             \A k, l \in DOMAIN f : k < l => f[k] < f[l], t = Arranged(s, f)
      PROVE  t \in Seq(Entries) /\ Fresh(t, a) /\ (Ordered(s) => Ordered(t))
  BY <1>2, <1>3, ClearedList
<1>4. ASSUME NEW e \in Entries, e.since = a + 1, \A k \in DOMAIN s : s[k].since < e.since, t = Joined(s, e)
      PROVE  t \in Seq(Entries) /\ Fresh(t, a + 1)
  <2>1. t \in Seq(Entries) /\ Fresh(t, e.since)
    BY <1>2, <1>4, JoinedList
  <2>2. QED
    BY <1>4, <2>1
<1>5. ASSUME NEW i \in Matches(ev), ev.kind = "user", t = Changed(s, i, ev.access)
      PROVE  t \in Seq(Entries) /\ Fresh(t, a)
  <2>1. i \in DOMAIN s /\ ev.access \in Levels
    BY <1>1, <1>2, <1>5 DEF Matches
  <2>2. QED
    BY <1>2, <1>5, <2>1, ChangedList
<1>6. ASSUME NEW i \in Matches(ev), ev.kind = "leave", t = Removed(s, i)
      PROVE  t \in Seq(Entries) /\ Fresh(t, a) /\ (Ordered(s) => Ordered(t))
  <2>1. i \in DOMAIN s
    BY <1>1 DEF Matches
  <2>2. QED
    BY <1>2, <1>6, <2>1, LeftList
<1>7. \/ /\ ev.kind = "clear"
         /\ \E n \in Nat : \E f \in Bijection(1..n, Kept(s, ev.gw)) :
              (\A k, l \in DOMAIN f : k < l => f[k] < f[l]) /\ t = Arranged(s, f)
      \/ /\ ev.kind = "join"
         /\ \E e \in Entries : e.since = a + 1 /\ (\A k \in DOMAIN s : s[k].since < e.since) /\ t = Joined(s, e)
      \/ ev.kind \in {"user", "leave"} /\ t = s
      \/ ev.kind = "user" /\ \E i \in Matches(ev) : t = Changed(s, i, ev.access)
      \/ ev.kind = "leave" /\ \E i \in Matches(ev) : t = Removed(s, i)
  <2>1. online \in Seq(Entries) /\ Fresh(online, a)
    OBVIOUS
  <2>2. QED
    BY <1>1, <2>1, EditForm
<1>8. t \in Seq(Entries) /\ Fresh(t, IF ev.kind = "join" THEN a + 1 ELSE a)
  BY <1>2, <1>3, <1>4, <1>5, <1>6, <1>7
<1>9. ev.kind \in {"clear", "leave"} /\ Ordered(s) => Ordered(t)
  BY <1>3, <1>6, <1>7
<1>10. QED
  BY <1>1, <1>8, <1>9

(* What an edit does to the users listed, if each has one entry at most.   *)
LEMMA EditedList ==
  ASSUME NEW ev \in Event, Edit(ev), NEW a \in Nat, a = arrivals,
         online \in Seq(Entries), Single(online), Fresh(online, a),
         ev.kind = "join" => ev.user \notin In(online, ev.gw)
  PROVE  /\ Single(online')
         /\ ev.kind = "clear" => In(online', ev.gw) = {}
         /\ ev.kind = "user" => In(online', ev.gw) = In(online, ev.gw)
         /\ ev.kind = "join" => In(online', ev.gw) = In(online, ev.gw) \cup {ev.user}
         /\ ev.kind = "leave" => In(online', ev.gw) = In(online, ev.gw) \ {ev.user}
         /\ \A h : h # ev.gw => In(online', h) = In(online, h)
<1>1. PICK s, t : s = online /\ t = online'
  OBVIOUS
<1>2. s \in Seq(Entries) /\ Single(s) /\ Fresh(s, a) /\ (ev.kind = "user" => ev.access \in Levels)
  BY <1>1, EventForm
<1>3. ASSUME NEW n \in Nat, NEW f \in Bijection(1..n, Kept(s, ev.gw)),
             \A k, l \in DOMAIN f : k < l => f[k] < f[l], t = Arranged(s, f)
      PROVE  Single(t) /\ In(t, ev.gw) = {} /\ \A h : h # ev.gw => In(t, h) = In(s, h)
  BY <1>2, <1>3, ClearedList
<1>4. ASSUME ev.kind = "join", NEW e \in Entries, e.gw = ev.gw, e.user = ev.user,
             \A k \in DOMAIN s : s[k].since < e.since, t = Joined(s, e)
      PROVE  /\ Single(t) /\ In(t, ev.gw) = In(s, ev.gw) \cup {ev.user}
             /\ \A h : h # ev.gw => In(t, h) = In(s, h)
  <2>1. e.user \notin In(s, e.gw)
    BY <1>1, <1>4
  <2>2. /\ Single(t) /\ In(t, e.gw) = In(s, e.gw) \cup {e.user}
        /\ \A h : h # e.gw => In(t, h) = In(s, h)
    BY <1>2, <1>4, <2>1, JoinedList
  <2>3. QED
    BY <1>4, <2>2
<1>5. ASSUME ev.kind \in {"user", "leave"}, Matches(ev) = {}, t = s
      PROVE  Single(t) /\ In(s, ev.gw) \ {ev.user} = In(s, ev.gw)
  <2>1. ev.user \notin In(s, ev.gw)
    BY <1>1, <1>5 DEF Matches, In, Among
  <2>2. QED
    BY <1>2, <1>5, <2>1
<1>6. ASSUME NEW i \in Matches(ev), ev.kind = "user", t = Changed(s, i, ev.access)
      PROVE  Single(t) /\ \A h : In(t, h) = In(s, h)
  <2>1. i \in DOMAIN s /\ ev.access \in Levels
    BY <1>1, <1>2, <1>6 DEF Matches
  <2>2. QED
    BY <1>2, <1>6, <2>1, ChangedList
<1>7. ASSUME NEW i \in Matches(ev), ev.kind = "leave", t = Removed(s, i)
      PROVE  /\ Single(t) /\ In(t, ev.gw) = In(s, ev.gw) \ {ev.user}
             /\ \A h : h # ev.gw => In(t, h) = In(s, h)
  <2>1. i \in DOMAIN s /\ s[i].gw = ev.gw /\ s[i].user = ev.user
    BY <1>1 DEF Matches
  <2>2. /\ Single(t) /\ In(t, s[i].gw) = In(s, s[i].gw) \ {s[i].user}
        /\ \A h : h # s[i].gw => In(t, h) = In(s, h)
    BY <1>2, <1>7, <2>1, LeftList, Zenon
  <2>3. QED
    BY <2>1, <2>2
<1>8. \/ /\ ev.kind = "clear"
         /\ \E n \in Nat : \E f \in Bijection(1..n, Kept(s, ev.gw)) :
              (\A k, l \in DOMAIN f : k < l => f[k] < f[l]) /\ t = Arranged(s, f)
      \/ /\ ev.kind = "join"
         /\ \E e \in Entries : /\ e.gw = ev.gw /\ e.user = ev.user
                               /\ (\A k \in DOMAIN s : s[k].since < e.since) /\ t = Joined(s, e)
      \/ ev.kind \in {"user", "leave"} /\ Matches(ev) = {} /\ t = s
      \/ ev.kind = "user" /\ \E i \in Matches(ev) : t = Changed(s, i, ev.access)
      \/ ev.kind = "leave" /\ \E i \in Matches(ev) : t = Removed(s, i)
  <2>1. online \in Seq(Entries) /\ Fresh(online, a)
    OBVIOUS
  <2>2. QED
    BY <1>1, <2>1, EditForm
<1>9. /\ Single(t)
      /\ ev.kind = "clear" => In(t, ev.gw) = {}
      /\ ev.kind = "user" => In(t, ev.gw) = In(s, ev.gw)
      /\ ev.kind = "join" => In(t, ev.gw) = In(s, ev.gw) \cup {ev.user}
      /\ ev.kind = "leave" => In(t, ev.gw) = In(s, ev.gw) \ {ev.user}
      /\ \A h : h # ev.gw => In(t, h) = In(s, h)
  BY <1>3, <1>4, <1>5, <1>6, <1>7, <1>8
<1>10. QED
  BY <1>1, <1>9

(* A thread is the loop of a gateway or a command on it.                   *)
LEMMA ThreadForm ==
  ASSUME NEW th \in Thread
  PROVE  \E g \in Gateways : g = th[1] /\ (th = <<g, "loop">> \/ th = <<g, "cmd">>)
BY DEF Thread

LEMMA ListInit == Init => LInv
<1> SUFFICES ASSUME Init PROVE LInv
  OBVIOUS
<1>1. WellTyped
  <2>1. <<>> \in Seq(Entries)
    OBVIOUS
  <2>2. \A g \in Gateways : [kind |-> "clear", gw |-> g] \in Event
    BY DEF Event
  <2>3. event \in [Thread -> Event]
    BY <2>2 DEF Init
  <2>4. QED
    BY <2>1, <2>3 DEF Init, WellTyped
<1>2. DOMAIN online = {}
  BY DEF Init
<1>3. \A g \in Gateways : <<g, "loop">> \in Thread /\ <<g, "cmd">> \in Thread
  BY DEF Thread
<1>4. \A g \in Gateways : step[<<g, "loop">>] = "idle" /\ step[<<g, "cmd">>] = "idle" /\ here[g] = {}
  <2>1. step = [th \in Thread |-> "idle"] /\ here = [g \in Gateways |-> {}]
    BY DEF Init
  <2>2. ASSUME NEW h \in Gateways
        PROVE  step[<<h, "loop">>] = "idle" /\ step[<<h, "cmd">>] = "idle" /\ here[h] = {}
    BY <1>3, <2>1
  <2>3. QED
    BY <2>2, Zenon
<1>5. Online /\ Commands
  BY <1>2, <1>4 DEF Online, Commands, Listing, In, Among
<1>6. Fresh(online, arrivals) /\ Single(online) /\ Ordered(online)
  BY <1>2 DEF Fresh, Single, Ordered
<1>7. QED
  BY <1>1, <1>5, <1>6 DEF LInv

(* Something happens on a gateway: the list stays as it is.                *)
LEMMA FiredStep ==
  ASSUME LInv, NEW g \in Gateways, NEW q \in {"loop", "cmd"}, NEW ev \in Event, ev.gw = g,
         step[<<g, q>>] = "idle", Fire(<<g, q>>, ev), UNCHANGED <<online, arrivals>>,
         here' \in [Gateways -> SUBSET Users], access' \in [Gateways -> [Users -> Levels]],
         \A h \in Gateways : h # g \/ q = "cmd" => here'[h] = here[h],
         q = "cmd" => ev.kind = "user",
         q = "loop" => Listing(In(online, g), here'[g], "relay", ev)
  PROVE  LInv'
<1>1. WellTyped /\ Online /\ Commands /\ Fresh(online, arrivals) /\ Single(online) /\ (Resting => Ordered(online))
  BY DEF LInv
<1>2. <<g, q>> \in Thread
  BY DEF Thread
<1>3. /\ step' = [step EXCEPT ![<<g, q>>] = "relay"] /\ event' = [event EXCEPT ![<<g, q>>] = ev]
  BY DEF Fire
<1>4. /\ step' \in [Thread -> {"idle", "relay", "sort", "notify"}] /\ event' \in [Thread -> Event]
      /\ step'[<<g, q>>] = "relay" /\ event'[<<g, q>>] = ev
      /\ \A th \in Thread : th # <<g, q>> => step'[th] = step[th] /\ event'[th] = event[th]
  BY <1>1, <1>2, <1>3 DEF WellTyped
<1>5. WellTyped'
  <2>1. ASSUME NEW th \in Thread  PROVE event'[th].gw = th[1]
    <3>1. CASE th = <<g, q>>
      BY <1>4, <3>1
    <3>2. CASE th # <<g, q>>
      BY <1>1, <1>4, <3>2 DEF WellTyped
    <3>3. QED
      BY <3>1, <3>2
  <2>2. QED
    BY <1>1, <1>4, <2>1 DEF WellTyped
<1>6. Online'
  <2>1. ASSUME NEW h \in Gateways
        PROVE  Listing(In(online, h), here'[h], step'[<<h, "loop">>], event'[<<h, "loop">>])
    <3>1. CASE h = g /\ q = "loop"
      BY <1>4, <3>1
    <3>2. CASE h # g \/ q = "cmd"
      <4>1. <<h, "loop">> \in Thread /\ <<h, "loop">> # <<g, q>>
        BY <3>2 DEF Thread
      <4>2. step'[<<h, "loop">>] = step[<<h, "loop">>] /\ event'[<<h, "loop">>] = event[<<h, "loop">>]
        BY <1>4, <4>1
      <4>3. here'[h] = here[h]
        BY <3>2
      <4>4. Listing(In(online, h), here[h], step[<<h, "loop">>], event[<<h, "loop">>])
        BY <1>1 DEF Online
      <4>5. QED
        BY <4>2, <4>3, <4>4
    <3>3. QED
      BY <3>1, <3>2
  <2>2. online' = online
    OBVIOUS
  <2>3. QED
    BY <2>1, <2>2, Zenon DEF Online
<1>7. Commands'
  <2>1. ASSUME NEW h \in Gateways, step'[<<h, "cmd">>] = "relay"  PROVE event'[<<h, "cmd">>].kind = "user"
    <3>1. <<h, "cmd">> \in Thread
      BY DEF Thread
    <3>2. CASE <<h, "cmd">> = <<g, q>>
      BY <1>4, <3>2
    <3>3. CASE <<h, "cmd">> # <<g, q>>
      BY <1>1, <1>4, <2>1, <3>1, <3>3 DEF Commands
    <3>4. QED
      BY <3>2, <3>3
  <2>2. QED
    BY <2>1 DEF Commands
<1>8. Resting' => Resting
  BY <1>2, <1>4 DEF Resting
<1>9. Fresh(online, arrivals)' /\ Single(online)' /\ (Resting => Ordered(online))'
  BY <1>1, <1>8 DEF Fresh, Single, Ordered
<1>10. QED
  BY <1>5, <1>6, <1>7, <1>9 DEF LInv

LEMMA GatewayStep ==
  ASSUME LInv, NEW g \in Gateways, NEW u \in Users, NEW a \in Levels,
         UserJoined(g, u) \/ UserLeft(g, u) \/ UserUpdate(g, u, a) \/ Cleared(g)
  PROVE  LInv'
<1>1. /\ here \in [Gateways -> SUBSET Users] /\ access \in [Gateways -> [Users -> Levels]]
      /\ access[g][u] \in Levels
  BY DEF LInv, WellTyped
<1>2. step[<<g, "loop">>] = "idle" /\ UNCHANGED <<online, arrivals>>
  BY DEF UserJoined, UserLeft, UserUpdate, Cleared, Happens
<1>3. In(online, g) = here[g]
  BY <1>2 DEF LInv, Online, Listing
<1>4. CASE UserJoined(g, u)
  <2>1. PICK ev : ev = About("join", g, u, access[g][u])
    OBVIOUS
  <2>2. ev \in Event /\ ev.gw = g /\ ev.kind = "join" /\ ev.user = u
    BY <1>1, <2>1 DEF About, Event
  <2>3. /\ Fire(<<g, "loop">>, ev) /\ UNCHANGED access /\ u \notin here[g]
        /\ here' = [here EXCEPT ![g] = @ \cup {u}]
    BY <1>4, <2>1 DEF UserJoined
  <2>4. /\ here' \in [Gateways -> SUBSET Users] /\ here'[g] = here[g] \cup {u}
        /\ \A h \in Gateways : h # g => here'[h] = here[h]
    BY <1>1, <2>3
  <2>5. Listing(In(online, g), here'[g], "relay", ev)
    BY <1>3, <2>2, <2>3, <2>4 DEF Listing
  <2>6. QED
    BY <1>1, <1>2, <2>2, <2>3, <2>4, <2>5, FiredStep
<1>5. CASE UserLeft(g, u)
  <2>1. PICK ev : ev = About("leave", g, u, access[g][u])
    OBVIOUS
  <2>2. ev \in Event /\ ev.gw = g /\ ev.kind = "leave" /\ ev.user = u
    BY <1>1, <2>1 DEF About, Event
  <2>3. /\ Fire(<<g, "loop">>, ev) /\ UNCHANGED access /\ u \in here[g]
        /\ here' = [here EXCEPT ![g] = @ \ {u}]
    BY <1>5, <2>1 DEF UserLeft
  <2>4. /\ here' \in [Gateways -> SUBSET Users] /\ here'[g] = here[g] \ {u}
        /\ \A h \in Gateways : h # g => here'[h] = here[h]
    BY <1>1, <2>3
  <2>5. Listing(In(online, g), here'[g], "relay", ev)
    BY <1>3, <2>2, <2>3, <2>4 DEF Listing
  <2>6. QED
    BY <1>1, <1>2, <2>2, <2>3, <2>4, <2>5, FiredStep
<1>6. CASE UserUpdate(g, u, a)
  <2>1. PICK ev : ev = About("user", g, u, a)
    OBVIOUS
  <2>2. ev \in Event /\ ev.gw = g /\ ev.kind = "user"
    BY <1>1, <2>1 DEF About, Event
  <2>3. Fire(<<g, "loop">>, ev) /\ UNCHANGED here /\ access' = [access EXCEPT ![g][u] = a]
    BY <1>6, <2>1 DEF UserUpdate
  <2>4. access' \in [Gateways -> [Users -> Levels]]
    BY <1>1, <2>3
  <2>5. Listing(In(online, g), here'[g], "relay", ev)
    BY <1>3, <2>2, <2>3 DEF Listing
  <2>6. QED
    BY <1>1, <1>2, <2>2, <2>3, <2>4, <2>5, FiredStep
<1>7. CASE Cleared(g)
  <2>1. PICK ev : ev = [kind |-> "clear", gw |-> g]
    OBVIOUS
  <2>2. ev \in Event /\ ev.gw = g /\ ev.kind = "clear"
    BY <2>1 DEF Event
  <2>3. Fire(<<g, "loop">>, ev) /\ UNCHANGED access /\ here' = [here EXCEPT ![g] = {}]
    BY <1>7, <2>1 DEF Cleared
  <2>4. /\ here' \in [Gateways -> SUBSET Users] /\ here'[g] = {}
        /\ \A h \in Gateways : h # g => here'[h] = here[h]
    BY <1>1, <2>3
  <2>5. Listing(In(online, g), here'[g], "relay", ev)
    BY <2>2, <2>4 DEF Listing
  <2>6. QED
    BY <1>1, <1>2, <2>2, <2>3, <2>4, <2>5, FiredStep
<1>8. QED
  BY <1>4, <1>5, <1>6, <1>7

(* A step of a thread that leaves the relay, or is past it.                *)
LEMMA ThreadStep ==
  ASSUME LInv, NEW th \in Thread, NEW next \in {"sort", "notify", "idle"},
         step' = [step EXCEPT ![th] = next], UNCHANGED <<here, access, event>>,
         arrivals' \in Nat, online' \in Seq(Entries), Single(online'), Fresh(online', arrivals'),
         \A g \in Gateways : (th = <<g, "loop">> /\ step[th] = "relay") => In(online', g) = here[g],
         \A g \in Gateways : ~(th = <<g, "loop">> /\ step[th] = "relay") => In(online', g) = In(online, g),
         next # "sort" => (Resting \/ step[th] = "sort" => Ordered(online'))
  PROVE  LInv'
<1>1. WellTyped /\ Online /\ Commands
  BY DEF LInv
<1>2. /\ step' \in [Thread -> {"idle", "relay", "sort", "notify"}] /\ step'[th] = next
      /\ \A d \in Thread : d # th => step'[d] = step[d]
  BY <1>1 DEF WellTyped
<1>3. WellTyped'
  BY <1>1, <1>2 DEF WellTyped
<1>4. ASSUME NEW h \in Gateways
      PROVE  Listing(In(online', h), here'[h], step'[<<h, "loop">>], event'[<<h, "loop">>])
  <2>1. <<h, "loop">> \in Thread /\ here'[h] = here[h] /\ event'[<<h, "loop">>] = event[<<h, "loop">>]
    BY DEF Thread
  <2>2. Listing(In(online, h), here[h], step[<<h, "loop">>], event[<<h, "loop">>])
    BY <1>1 DEF Online
  <2>3. CASE th = <<h, "loop">> /\ step[th] = "relay"
    BY <1>2, <2>1, <2>3 DEF Listing
  <2>4. CASE th = <<h, "loop">> /\ step[th] # "relay"
    <3>1. In(online', h) = In(online, h)
      BY <2>4
    <3>2. step'[<<h, "loop">>] # "relay" /\ step[<<h, "loop">>] # "relay"
      BY <1>2, <2>4
    <3>3. QED
      BY <2>1, <2>2, <3>1, <3>2 DEF Listing
  <2>5. CASE th # <<h, "loop">>
    <3>1. In(online', h) = In(online, h)
      BY <2>5
    <3>2. step'[<<h, "loop">>] = step[<<h, "loop">>]
      BY <1>2, <2>1, <2>5
    <3>3. QED
      BY <2>1, <2>2, <3>1, <3>2
  <2>6. QED
    BY <2>3, <2>4, <2>5
<1>5. Online'
  BY <1>4, Zenon DEF Online
<1>6. Commands'
  <2>1. ASSUME NEW h \in Gateways, step'[<<h, "cmd">>] = "relay"  PROVE event'[<<h, "cmd">>].kind = "user"
    <3>1. <<h, "cmd">> \in Thread
      BY DEF Thread
    <3>2. step[<<h, "cmd">>] = "relay"
      BY <1>2, <2>1, <3>1
    <3>3. event[<<h, "cmd">>].kind = "user"
      BY <1>1, <3>2 DEF Commands
    <3>4. QED
      BY <3>3
  <2>2. QED
    BY <2>1, Zenon DEF Commands
<1>7. Resting' => Ordered(online')
  <2>1. Resting' => next # "sort"
    BY <1>2 DEF Resting
  <2>2. Resting' => Resting \/ step[th] = "sort"
    BY <1>2 DEF Resting
  <2>3. QED
    BY <2>1, <2>2
<1>8. QED
  BY <1>3, <1>5, <1>6, <1>7 DEF LInv

LEMMA RelayStep ==
  ASSUME LInv, \A a \in Levels : a >= JoinAccess, NEW th \in Thread, Relay(th)
  PROVE  LInv'
<1>1. PICK ev : ev = event[th]
  OBVIOUS
<1>2. PICK g \in Gateways : g = th[1] /\ (th = <<g, "loop">> \/ th = <<g, "cmd">>)
  BY ThreadForm
<1>3. ev \in Event /\ ev.gw = g
  BY <1>1, <1>2 DEF LInv, WellTyped
<1>4. ev.kind \in {"join", "user", "leave", "clear"} /\ (ev.kind # "clear" => ev.access \in Levels)
  BY <1>3, EventForm
<1>5. Passes(ev)
  BY <1>4 DEF Passes
<1>6. PICK next : next = IF ev.kind \in {"join", "user"} THEN "sort" ELSE "notify"
  OBVIOUS
<1>7. /\ step[th] = "relay" /\ Edit(ev) /\ UNCHANGED <<here, access, event>>
      /\ arrivals' = IF ev.kind = "join" THEN arrivals + 1 ELSE arrivals
      /\ step' = [step EXCEPT ![th] = next]
  BY <1>1, <1>5, <1>6 DEF Relay, gatewayVars
<1>8. /\ online \in Seq(Entries) /\ Single(online) /\ Fresh(online, arrivals) /\ arrivals \in Nat
      /\ (Resting => Ordered(online))
  BY DEF LInv, WellTyped
<1>9. th = <<g, "cmd">> => ev.kind = "user"
  BY <1>1, <1>7 DEF LInv, Commands
<1>10. th = <<g, "loop">> => Listing(In(online, g), here[g], "relay", ev)
  BY <1>1, <1>7 DEF LInv, Online
<1>11. "loop" # "cmd" /\ (ev.kind = "join" => ev.user \notin In(online, g))
  BY <1>2, <1>9, <1>10 DEF Listing
<1>12. PICK a \in Nat : a = arrivals
  BY <1>8
<1>13. /\ online' \in Seq(Entries) /\ Single(online')
       /\ Fresh(online', IF ev.kind = "join" THEN a + 1 ELSE a)
       /\ ev.kind \in {"clear", "leave"} /\ Ordered(online) => Ordered(online')
       /\ ev.kind = "clear" => In(online', ev.gw) = {}
       /\ ev.kind = "user" => In(online', ev.gw) = In(online, ev.gw)
       /\ ev.kind = "join" => In(online', ev.gw) = In(online, ev.gw) \cup {ev.user}
       /\ ev.kind = "leave" => In(online', ev.gw) = In(online, ev.gw) \ {ev.user}
       /\ \A h : h # ev.gw => In(online', h) = In(online, h)
  <2>1. ev.kind = "join" => ev.user \notin In(online, ev.gw)
    BY <1>3, <1>11
  <2>2. online \in Seq(Entries) /\ Single(online) /\ Fresh(online, a)
    BY <1>8, <1>12
  <2>3. QED
    BY <1>3, <1>7, <1>12, <2>1, <2>2, EditedList, EditedOrder
<1>14. arrivals' \in Nat /\ Fresh(online', arrivals')
  BY <1>7, <1>12, <1>13
<1>15. th = <<g, "loop">> => In(online', g) = here[g]
  BY <1>3, <1>4, <1>10, <1>13 DEF Listing
<1>16. th = <<g, "cmd">> => In(online', g) = In(online, g)
  BY <1>3, <1>9, <1>13
<1>17. ASSUME NEW h \in Gateways, th = <<h, "loop">>  PROVE In(online', h) = here[h]
  <2>1. h = g
    BY <1>2, <1>17
  <2>2. QED
    BY <1>15, <1>17, <2>1
<1>18. ASSUME NEW h \in Gateways, th # <<h, "loop">>  PROVE In(online', h) = In(online, h)
  <2>1. CASE h = g
    BY <1>2, <1>16, <1>18, <2>1
  <2>2. CASE h # g
    BY <1>3, <1>13, <2>2
  <2>3. QED
    BY <2>1, <2>2
<1>19. next \in {"sort", "notify", "idle"} /\ (next # "sort" => ev.kind \in {"clear", "leave"})
  BY <1>4, <1>6
<1>20. next # "sort" => (Resting \/ step[th] = "sort" => Ordered(online'))
  BY <1>7, <1>8, <1>13, <1>19
<1>21. /\ \A h \in Gateways : (th = <<h, "loop">> /\ step[th] = "relay") => In(online', h) = here[h]
       /\ \A h \in Gateways : ~(th = <<h, "loop">> /\ step[th] = "relay") => In(online', h) = In(online, h)
  BY <1>7, <1>17, <1>18
<1>22. QED
  BY <1>7, <1>13, <1>14, <1>19, <1>20, <1>21, ThreadStep

LEMMA SortStep ==
  ASSUME LInv, NEW th \in Thread, sortOnline(th)
  PROVE  LInv'
<1>1. /\ step[th] = "sort" /\ step' = [step EXCEPT ![th] = "notify"]
      /\ UNCHANGED <<here, access, event, arrivals>>
  BY DEF sortOnline, gatewayVars
<1>2. PICK s, t : s = online /\ t = online'
  OBVIOUS
<1>3. s \in Seq(Entries) /\ Single(s) /\ Fresh(s, arrivals) /\ arrivals \in Nat
  BY <1>2 DEF LInv, WellTyped
<1>4. PICK f \in Bijection(DOMAIN s, DOMAIN s) :
        (\A k, l \in DOMAIN f : k < l => ~InOrder(s[f[l]], s[f[k]])) /\ t = Arranged(s, f)
  BY <1>2, Zenon DEF sortOnline, Arrange, Arranged
<1>5. PICK a : a = arrivals
  OBVIOUS
<1>6. /\ t \in Seq(Entries) /\ Single(t) /\ Fresh(t, a) /\ Ordered(t)
      /\ \A g : In(t, g) = In(s, g)
  BY <1>3, <1>4, <1>5, SortedList
<1>7. /\ online' \in Seq(Entries) /\ Single(online') /\ Fresh(online', arrivals') /\ Ordered(online')
      /\ \A g \in Gateways : In(online', g) = In(online, g)
      /\ arrivals' \in Nat
  BY <1>1, <1>2, <1>3, <1>5, <1>6
<1>8. QED
  BY <1>1, <1>7, ThreadStep

LEMMA NotifyStep ==
  ASSUME LInv, NEW th \in Thread, updateOnline(th)
  PROVE  LInv'
<1>1. /\ step[th] = "notify" /\ step' = [step EXCEPT ![th] = "idle"]
      /\ UNCHANGED <<here, access, event, arrivals, online>>
  BY DEF updateOnline, gatewayVars
<1>2. /\ online \in Seq(Entries) /\ Single(online) /\ Fresh(online, arrivals) /\ arrivals \in Nat
      /\ (Resting => Ordered(online))
  BY DEF LInv, WellTyped
<1>3. /\ online' \in Seq(Entries) /\ Single(online') /\ Fresh(online', arrivals')
      /\ arrivals' \in Nat /\ (Resting => Ordered(online'))
      /\ \A g \in Gateways : In(online', g) = In(online, g)
  BY <1>1, <1>2
<1>4. QED
  BY <1>1, <1>3, ThreadStep

(* Steps that leave the list and the threads alone.                        *)
LEMMA OtherStep ==
  ASSUME LInv, UNCHANGED <<here, arrivals, step, event, online>>, access' \in [Gateways -> [Users -> Levels]]
  PROVE  LInv'
<1>1. WellTyped /\ Online /\ Commands /\ Fresh(online, arrivals) /\ Single(online) /\ (Resting => Ordered(online))
  BY DEF LInv
<1>2. online' = online /\ here' = here /\ step' = step /\ event' = event /\ arrivals' = arrivals
  OBVIOUS
<1>3. WellTyped'
  BY <1>1, <1>2 DEF WellTyped
<1>4. Online' /\ Commands'
  BY <1>1, <1>2 DEF Online, Commands
<1>5. Fresh(online, arrivals)' /\ Single(online)' /\ (Resting => Ordered(online))'
  BY <1>1, <1>2 DEF Resting
<1>6. QED
  BY <1>3, <1>4, <1>5 DEF LInv

LEMMA CommandStep ==
  ASSUME LInv, NEW g \in Gateways, NEW u \in Users, NEW a \in Levels, SetUserAccess(g, u, a)
  PROVE  LInv'
<1>1. /\ here \in [Gateways -> SUBSET Users] /\ access \in [Gateways -> [Users -> Levels]]
  BY DEF LInv, WellTyped
<1>2. /\ step[<<g, "cmd">>] = "idle" /\ UNCHANGED <<online, arrivals, here>>
      /\ access' = [access EXCEPT ![g][u] = a]
  BY DEF SetUserAccess, Happens
<1>3. access' \in [Gateways -> [Users -> Levels]]
  BY <1>1, <1>2
<1>4. CASE u \in here[g]
  <2>1. PICK ev : ev = About("user", g, u, a)
    OBVIOUS
  <2>2. ev \in Event /\ ev.gw = g /\ ev.kind = "user"
    BY <2>1 DEF About, Event
  <2>3. Fire(<<g, "cmd">>, ev)
    BY <1>4, <2>1 DEF SetUserAccess
  <2>4. "cmd" # "loop" /\ here' \in [Gateways -> SUBSET Users] /\ \A h \in Gateways : here'[h] = here[h]
    BY <1>1, <1>2
  <2>5. QED
    BY <1>2, <1>3, <2>2, <2>3, <2>4, FiredStep
<1>5. CASE u \notin here[g]
  <2>1. UNCHANGED <<step, event>>
    BY <1>5 DEF SetUserAccess
  <2>2. QED
    BY <1>2, <1>3, <2>1, OtherStep
<1>6. QED
  BY <1>4, <1>5

LEMMA UpdaterStep ==
  ASSUME LInv, Wake \/ Tick \/ Send \/ Delete \/ UNCHANGED vars
  PROVE  LInv'
<1>1. UNCHANGED <<here, access, arrivals, step, event, online>>
  BY DEF Wake, Tick, Send, Post, Update, UpdateUnknown, SendFails, Sent, Delete, gatewayVars, vars
<1>2. access' \in [Gateways -> [Users -> Levels]]
  BY <1>1 DEF LInv, WellTyped
<1>3. QED
  BY <1>1, <1>2, OtherStep

(* The relay lets every level pass: nobody is too low for the list.        *)
EveryLevelPasses == \A a \in Levels : a >= JoinAccess

LEMMA ListStep == EveryLevelPasses /\ LInv /\ [Next]_vars => LInv'
<1> SUFFICES ASSUME EveryLevelPasses, LInv, [Next]_vars PROVE LInv'
  OBVIOUS
<1>1. CASE \E g \in Gateways, u \in Users : UserJoined(g, u) \/ UserLeft(g, u)
  <2>1. PICK g \in Gateways, u \in Users : UserJoined(g, u) \/ UserLeft(g, u)
    BY <1>1
  <2>2. access[g][u] \in Levels
    BY DEF LInv, WellTyped
  <2>3. QED
    BY <2>1, <2>2, GatewayStep
<1>2. CASE \E g \in Gateways, u \in Users, a \in Levels : UserUpdate(g, u, a) \/ SetUserAccess(g, u, a)
  BY <1>2, GatewayStep, CommandStep
<1>3. CASE \E g \in Gateways : Cleared(g)
  <2>1. PICK g \in Gateways : Cleared(g)
    BY <1>3
  <2>2. PICK u \in Users : u \in here[g]
    BY <2>1 DEF Cleared, LInv, WellTyped
  <2>3. access[g][u] \in Levels
    BY <2>2 DEF LInv, WellTyped
  <2>4. QED
    BY <2>1, <2>2, <2>3, GatewayStep
<1>4. CASE \E th \in Thread : Handle(th)
  <2>1. PICK th \in Thread : Handle(th)
    BY <1>4
  <2>2. QED
    BY <2>1, RelayStep, SortStep, NotifyStep DEF Handle, EveryLevelPasses
<1>5. CASE Wake \/ Tick \/ Send \/ Delete \/ UNCHANGED vars
  BY <1>5, UpdaterStep
<1>6. QED
  BY <1>1, <1>2, <1>3, <1>4, <1>5, Zenon DEF Next

LEMMA ListFacts == LInv => ListIsOnline
<1> SUFFICES ASSUME LInv PROVE ListIsOnline
  OBVIOUS
<1>1. Resting => Ordered(online)
  BY DEF LInv
<1>2. ASSUME NEW g \in Gateways, step[<<g, "loop">>] # "relay"  PROVE Listed(g) = here[g]
  <2>1. Listing(In(online, g), here[g], step[<<g, "loop">>], event[<<g, "loop">>])
    BY DEF LInv, Online
  <2>2. QED
    BY <1>2, <2>1 DEF Listing, In, Among, Listed
<1>3. \A i, j \in DOMAIN online : online[i].gw = online[j].gw /\ online[i].user = online[j].user => i = j
  BY DEF LInv, Single
<1>4. (\A th \in Thread : step[th] # "sort") =>
        \A i, j \in DOMAIN online : i < j => InOrder(online[i], online[j])
  BY <1>1 DEF Resting, Ordered
<1>5. ASSUME NEW h \in Gateways, step[<<h, "loop">>] # "relay"
      PROVE  /\ Listed(h) = here[h]
             /\ \A i, j \in DOMAIN online :
                  online[i].gw = h /\ online[j].gw = h /\ online[i].user = online[j].user => i = j
  BY <1>2, <1>3, <1>5
<1>6. QED
  BY <1>4, <1>5, Zenon DEF ListIsOnline

(* The list is in order and holds exactly the users who are online, each   *)
(* of them once, wherever edits and sorts of several gateways interleave   *)
(* (Relay, clearOnline, sortOnline of channel.go): for any gateways,       *)
(* users, levels and length of the run, if every level passes the relay.   *)
THEOREM ListShowsOnline == EveryLevelPasses => (Spec => []ListIsOnline)
<1> SUFFICES ASSUME EveryLevelPasses PROVE Spec => []ListIsOnline
  OBVIOUS
<1>1. LInv /\ [Next]_vars => LInv'
  BY ListStep
<1>2. QED
  BY <1>1, ListInit, ListFacts, PTL DEF Spec

-----------------------------------------------------------------------------
(* The order of the list, whatever levels the relay lets pass *)

(* The first part of ListIsOnline: in order when nobody is about to sort.  *)
ListInOrder == Resting => Ordered(online)

(* An event that moves an entry makes its thread one that will sort.       *)
OrderInv ==
  /\ arrivals \in Nat /\ online \in Seq(Entries) /\ access \in [Gateways -> [Users -> Levels]]
  /\ step \in [Thread -> {"idle", "relay", "sort", "notify"}] /\ event \in [Thread -> Event]
  /\ Fresh(online, arrivals) /\ ListInOrder

LEMMA OrderInit == Init => OrderInv
<1> SUFFICES ASSUME Init PROVE OrderInv
  OBVIOUS
<1>1. LInv
  BY ListInit
<1>2. QED
  BY <1>1 DEF LInv, WellTyped, OrderInv, ListInOrder

(* Steps that leave the list alone, and sort it no less than before.       *)
LEMMA OrderKept ==
  ASSUME OrderInv, UNCHANGED <<online, arrivals>>, access' \in [Gateways -> [Users -> Levels]],
         step' \in [Thread -> {"idle", "relay", "sort", "notify"}], event' \in [Thread -> Event],
         Resting' => Resting
  PROVE  OrderInv'
<1>1. Fresh(online', arrivals') /\ (Resting' => Ordered(online'))
  BY DEF OrderInv, ListInOrder
<1>2. QED
  BY <1>1 DEF OrderInv, ListInOrder

LEMMA OrderFired ==
  ASSUME OrderInv, NEW th \in Thread, NEW ev \in Event, Fire(th, ev), step[th] = "idle",
         UNCHANGED <<online, arrivals>>, access' \in [Gateways -> [Users -> Levels]]
  PROVE  OrderInv'
<1>1. /\ step' = [step EXCEPT ![th] = "relay"] /\ event' = [event EXCEPT ![th] = ev]
      /\ step \in [Thread -> {"idle", "relay", "sort", "notify"}] /\ event \in [Thread -> Event]
  BY DEF Fire, OrderInv
<1>2. /\ step' \in [Thread -> {"idle", "relay", "sort", "notify"}] /\ event' \in [Thread -> Event]
      /\ \A d \in Thread : d # th => step'[d] = step[d]
  BY <1>1
<1>3. Resting' => Resting
  BY <1>2 DEF Resting
<1>4. QED
  BY <1>2, <1>3, OrderKept

LEMMA OrderHandled ==
  ASSUME OrderInv, NEW th \in Thread, Handle(th)
  PROVE  OrderInv'
<1>1. /\ arrivals \in Nat /\ online \in Seq(Entries) /\ access \in [Gateways -> [Users -> Levels]]
      /\ step \in [Thread -> {"idle", "relay", "sort", "notify"}] /\ event \in [Thread -> Event]
      /\ Fresh(online, arrivals) /\ (Resting => Ordered(online)) /\ event[th] \in Event
  BY DEF OrderInv, ListInOrder
<1>2. UNCHANGED <<access, event>>
  BY DEF Handle, Relay, sortOnline, updateOnline, gatewayVars
<1>3. CASE Relay(th) /\ Passes(event[th])
  <2>1. PICK ev, a : ev = event[th] /\ a = arrivals
    OBVIOUS
  <2>2. PICK next : next = IF ev.kind \in {"join", "user"} THEN "sort" ELSE "notify"
    OBVIOUS
  <2>3. /\ step[th] = "relay" /\ Edit(ev) /\ step' = [step EXCEPT ![th] = next]
        /\ arrivals' = IF ev.kind = "join" THEN a + 1 ELSE a
    BY <1>3, <2>1, <2>2 DEF Relay
  <2>4. /\ online' \in Seq(Entries)
        /\ Fresh(online', IF ev.kind = "join" THEN a + 1 ELSE a)
        /\ ev.kind \in {"clear", "leave"} /\ Ordered(online) => Ordered(online')
    <3>1. ev \in Event /\ a \in Nat /\ Fresh(online, a) /\ online \in Seq(Entries)
      BY <1>1, <2>1
    <3>2. QED
      BY <2>1, <2>3, <3>1, EditedOrder
  <2>5. /\ step' \in [Thread -> {"idle", "relay", "sort", "notify"}]
        /\ step'[th] = next /\ \A d \in Thread : d # th => step'[d] = step[d]
    BY <1>1, <2>2, <2>3
  <2>6. arrivals' \in Nat /\ Fresh(online', arrivals')
    BY <1>1, <2>1, <2>3, <2>4
  <2>7. ASSUME Resting'  PROVE Ordered(online')
    <3>1. ev.kind \in {"clear", "leave"}
      BY <1>1, <2>1, <2>2, <2>5, <2>7, EventForm DEF Resting
    <3>2. Resting
      BY <2>3, <2>5, <2>7 DEF Resting
    <3>3. QED
      BY <1>1, <2>4, <3>1, <3>2
  <2>8. QED
    BY <1>1, <1>2, <2>4, <2>5, <2>6, <2>7 DEF OrderInv, ListInOrder
<1>4. CASE sortOnline(th)
  <2>1. PICK s, t, a : s = online /\ t = online' /\ a = arrivals
    OBVIOUS
  <2>2. PICK f \in Bijection(DOMAIN s, DOMAIN s) :
          (\A k, l \in DOMAIN f : k < l => ~InOrder(s[f[l]], s[f[k]])) /\ t = Arranged(s, f)
    BY <1>4, <2>1, Zenon DEF sortOnline, Arrange, Arranged
  <2>3. t \in Seq(Entries) /\ Fresh(t, a) /\ Ordered(t)
    BY <1>1, <2>1, <2>2, SortedList
  <2>4. step' \in [Thread -> {"idle", "relay", "sort", "notify"}] /\ arrivals' = arrivals
    BY <1>1, <1>4 DEF sortOnline
  <2>5. QED
    BY <1>1, <1>2, <2>1, <2>3, <2>4 DEF OrderInv, ListInOrder
<1>5. CASE updateOnline(th) \/ (Relay(th) /\ ~Passes(event[th]))
  <2>1. /\ step[th] # "sort" /\ step' = [step EXCEPT ![th] = "idle"] /\ UNCHANGED <<online, arrivals>>
    BY <1>5 DEF updateOnline, Relay
  <2>2. /\ step' \in [Thread -> {"idle", "relay", "sort", "notify"}]
        /\ \A d \in Thread : d # th => step'[d] = step[d]
    BY <1>1, <2>1
  <2>3. Resting' => Resting
    BY <2>1, <2>2 DEF Resting
  <2>4. QED
    BY <1>1, <1>2, <2>1, <2>2, <2>3, OrderKept
<1>6. QED
  BY <1>3, <1>4, <1>5 DEF Handle

LEMMA OrderGateway ==
  ASSUME OrderInv, NEW g \in Gateways, NEW u \in Users, NEW a \in Levels,
         \/ UserJoined(g, u) \/ UserLeft(g, u) \/ UserUpdate(g, u, a) \/ Cleared(g)
         \/ SetUserAccess(g, u, a)
  PROVE  OrderInv'
<1>1. /\ access \in [Gateways -> [Users -> Levels]] /\ access[g][u] \in Levels
      /\ step \in [Thread -> {"idle", "relay", "sort", "notify"}] /\ event \in [Thread -> Event]
  BY DEF OrderInv
<1>2. /\ UNCHANGED <<online, arrivals>>
      /\ access' \in [Gateways -> [Users -> Levels]]
  <2>1. UNCHANGED <<online, arrivals>>
    BY DEF UserJoined, UserLeft, UserUpdate, Cleared, SetUserAccess, Happens
  <2>2. access' = access \/ access' = [access EXCEPT ![g][u] = a]
    BY DEF UserJoined, UserLeft, UserUpdate, Cleared, SetUserAccess
  <2>3. QED
    BY <1>1, <2>1, <2>2
<1>3. \/ UNCHANGED <<step, event>>
      \/ \E th \in Thread, ev \in Event : Fire(th, ev) /\ step[th] = "idle"
  <2>1. <<g, "loop">> \in Thread /\ <<g, "cmd">> \in Thread
    BY DEF Thread
  <2>2. /\ \A kind \in {"join", "user", "leave"}, l \in Levels : About(kind, g, u, l) \in Event
        /\ [kind |-> "clear", gw |-> g] \in Event
    BY DEF About, Event
  <2>3. CASE UserJoined(g, u)
    BY <1>1, <2>1, <2>2, <2>3 DEF UserJoined, Happens
  <2>4. CASE UserLeft(g, u)
    BY <1>1, <2>1, <2>2, <2>4 DEF UserLeft, Happens
  <2>5. CASE UserUpdate(g, u, a)
    BY <2>1, <2>2, <2>5 DEF UserUpdate, Happens
  <2>6. CASE Cleared(g)
    BY <2>1, <2>2, <2>6 DEF Cleared, Happens
  <2>7. CASE SetUserAccess(g, u, a)
    BY <2>1, <2>2, <2>7 DEF SetUserAccess, Happens
  <2>8. QED
    BY <2>3, <2>4, <2>5, <2>6, <2>7
<1>4. CASE UNCHANGED <<step, event>>
  BY <1>1, <1>2, <1>4, OrderKept DEF Resting
<1>5. QED
  BY <1>2, <1>3, <1>4, OrderFired

LEMMA OrderStep == OrderInv /\ [Next]_vars => OrderInv'
<1> SUFFICES ASSUME OrderInv, [Next]_vars PROVE OrderInv'
  OBVIOUS
<1>1. ASSUME NEW g \in Gateways, Cleared(g)  PROVE OrderInv'
  <2>1. UNCHANGED <<online, arrivals, access>> /\ step[<<g, "loop">>] = "idle"
        /\ Fire(<<g, "loop">>, [kind |-> "clear", gw |-> g])
    BY <1>1 DEF Cleared, Happens
  <2>2. <<g, "loop">> \in Thread /\ [kind |-> "clear", gw |-> g] \in Event
    BY DEF Thread, Event
  <2>3. QED
    BY <2>1, <2>2, OrderFired DEF OrderInv
<1>2. ASSUME NEW g \in Gateways, NEW u \in Users, UserJoined(g, u) \/ UserLeft(g, u)
      PROVE  OrderInv'
  <2>1. access[g][u] \in Levels
    BY DEF OrderInv
  <2>2. QED
    BY <1>2, <2>1, OrderGateway
<1>3. CASE Wake \/ Tick \/ Send \/ Delete \/ UNCHANGED vars
  <2>1. UNCHANGED <<access, arrivals, step, event, online>>
    BY <1>3 DEF Wake, Tick, Send, Post, Update, UpdateUnknown, SendFails, Sent, Delete, gatewayVars, vars
  <2>2. Resting' => Resting
    BY <2>1 DEF Resting
  <2>3. QED
    BY <2>1, <2>2, OrderKept DEF OrderInv
<1>4. QED
  BY <1>1, <1>2, <1>3, OrderGateway, OrderHandled, Zenon DEF Next

(* The list is in order when nobody is about to sort it, also where users  *)
(* are dropped by the relay, stay listed or are listed twice (Relay and    *)
(* sortOnline of channel.go): for any levels and any JoinAccess.           *)
THEOREM ListStaysInOrder == Spec => []ListInOrder
<1>1. OrderInv => ListInOrder
  BY DEF OrderInv
<1>2. QED
  BY <1>1, OrderInit, OrderStep, PTL DEF Spec


=============================================================================
