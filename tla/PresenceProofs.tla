---------------------------- MODULE PresenceProofs ----------------------------
(***************************************************************************)
(* What Presence promises of a bot in one guild, for any users, channels,  *)
(* changes and lost connections: whoever is tracked is announced, whoever  *)
(* is announced is present, and whoever is present is announced.           *)
(*                                                                         *)
(* The queue of reports decides: what the gateway has must agree with what *)
(* the last report about each user says, and with Discord when there is    *)
(* none.                                                                   *)
(***************************************************************************)
EXTENDS Presence, SequenceTheorems, FiniteSetTheorems, TLAPS

(* The bot is in one guild.  With two the invariants do not hold: users is *)
(* one set, whatever the guild (Presence_guilds.cfg shows how).            *)
OneGuild == \E g : Guilds = {g}

(* What a report says of user u.  Ready clears everybody.                  *)
Brings(e, u) == \/ e.kind = "online" /\ e.user = u
                \/ e.kind = "create" /\ u \in e.present
Clears(e, u) == \/ e.kind = "ready"
                \/ e.kind = "offline" /\ e.user = u

(* Some report of queue q clears u; the last report about u brings u.      *)
Cleared(q, u) == \E k \in 1..Len(q) : Clears(q[k], u)
Brought(q, u) == \E k \in 1..Len(q) : /\ Brings(q[k], u)
                                      /\ \A l \in 1..Len(q) : l > k => ~Clears(q[l], u)

Present(u) == u \in online /\ \A g \in Guilds : u \in member[g]

(* The channels that the gateway does not know have nobody announced.      *)
Tracked ==
  /\ TrackedAreAnnounced
  /\ \A g \in Guilds : \A c \in Configured \ guilds[g] : announced[c] = {}

(* Who is gone is not tracked, or will be cleared by what is in the queue. *)
Gone ==
  /\ ~up => users = {}
  /\ \A u \in Users : ~Present(u) => /\ ~Brought(queue, u)
                                     /\ u \in users => Cleared(queue, u)

(* Who is present is announced, or will be by what is in the queue.  Who   *)
(* is tracked is announced wherever he may look, so that what the queue    *)
(* brings is not ignored in vain.                                          *)
Here ==
  up => \A u \in Users \ unsure : \A c \in Configured : u \in views[c] =>
          /\ u \in users => u \in announced[c]
          /\ Present(u) => Brought(queue, u) \/ (u \in announced[c] /\ ~Cleared(queue, u))

(* Ready comes first and the guild follows; until then no other report is  *)
(* handled.                                                                *)
Loaded ==
  /\ \A k \in 1..Len(queue) : queue[k].kind = "ready"
                              => k = 1 /\ Len(queue) > 1 /\ queue[2].kind = "create"
  /\ up \/ drops > 0 => \A g \in Guilds :
       \/ guilds[g] = ChannelsOf[g] \cap Configured
       \/ Len(queue) > 0 /\ queue[1].kind \in {"ready", "create"}

PInv == TypeOK /\ Tracked /\ Gone /\ Here /\ Loaded

-----------------------------------------------------------------------------
(* Reports and queues *)

LEMMA Reports ==
  ASSUME NEW e \in Event
  PROVE  /\ e.kind \in {"online", "offline", "create", "ready"}
         /\ e.kind \in {"online", "offline"} => e.guild \in Guilds /\ e.user \in Users
         /\ e.kind = "create" => e.guild \in Guilds /\ e.present \subseteq Users
  BY DEF Event

LEMMA Appended ==
  ASSUME NEW q \in Seq(Event), NEW e \in Event
  PROVE  /\ Append(q, e) \in Seq(Event) /\ Len(Append(q, e)) = Len(q) + 1
         /\ Append(q, e)[Len(q) + 1] = e
         /\ \A k \in 1..Len(q) : Append(q, e)[k] = q[k]
         /\ Len(q) \in Nat
BY AppendProperties, LenProperties

LEMMA AppendedReport ==
  ASSUME NEW q \in Seq(Event), NEW e \in Event, NEW u
  PROVE  /\ Cleared(Append(q, e), u) <=> Cleared(q, u) \/ Clears(e, u)
         /\ Brought(Append(q, e), u) <=> Brings(e, u) \/ (Brought(q, u) /\ ~Clears(e, u))
<1>1. PICK n \in Nat : n = Len(q)
  BY LenProperties
<1>2. PICK p : p = Append(q, e)
  OBVIOUS
<1>3. Len(p) = n + 1 /\ p[n + 1] = e /\ \A k \in 1..n : p[k] = q[k]
  BY <1>1, <1>2, Appended
<1>4. Cleared(p, u) <=> Cleared(q, u) \/ Clears(e, u)
  <2>1. \A k \in 1..(n + 1) : k \in 1..n \/ k = n + 1
    OBVIOUS
  <2>2. n + 1 \in 1..(n + 1) /\ 1..n \subseteq 1..(n + 1)
    OBVIOUS
  <2>3. QED
    BY <1>1, <1>3, <2>1, <2>2, Zenon DEF Cleared
<1>5. ASSUME Brought(p, u)  PROVE Brings(e, u) \/ (Brought(q, u) /\ ~Clears(e, u))
  <2>1. PICK k \in 1..(n + 1) : Brings(p[k], u) /\ \A l \in 1..(n + 1) : l > k => ~Clears(p[l], u)
    BY <1>3, <1>5 DEF Brought
  <2>2. CASE k = n + 1
    BY <2>1, <2>2, <1>3
  <2>3. CASE k # n + 1
    <3>1. k \in 1..n /\ n + 1 > k /\ n + 1 \in 1..(n + 1)
      BY <2>3
    <3>2. Brings(q[k], u) /\ ~Clears(e, u)
      BY <3>1, <2>1, <1>3
    <3>3. \A l \in 1..n : l > k => ~Clears(q[l], u)
      BY <2>1, <1>3
    <3>4. QED
      BY <1>1, <3>1, <3>2, <3>3 DEF Brought
  <2>4. QED
    BY <2>2, <2>3
<1>6. ASSUME Brings(e, u)  PROVE Brought(p, u)
  <2>1. n + 1 \in 1..(n + 1) /\ \A l \in 1..(n + 1) : ~(l > n + 1)
    OBVIOUS
  <2>2. QED
    BY <2>1, <1>3, <1>6 DEF Brought
<1>7. ASSUME Brought(q, u), ~Clears(e, u)  PROVE Brought(p, u)
  <2>1. PICK k \in 1..n : Brings(q[k], u) /\ \A l \in 1..n : l > k => ~Clears(q[l], u)
    BY <1>1, <1>7 DEF Brought
  <2>2. \A l \in 1..(n + 1) : l > k => ~Clears(p[l], u)
    BY <2>1, <1>3, <1>7
  <2>3. k \in 1..(n + 1) /\ Brings(p[k], u)
    BY <2>1, <1>3
  <2>4. QED
    BY <2>2, <2>3, <1>3 DEF Brought
<1>8. QED
  BY <1>2, <1>4, <1>5, <1>6, <1>7

LEMMA Handled ==
  ASSUME NEW q \in Seq(Event), q # <<>>
  PROVE  /\ Tail(q) \in Seq(Event) /\ Head(q) = q[1] /\ q[1] \in Event
         /\ Len(q) \in Nat \ {0} /\ Len(Tail(q)) = Len(q) - 1
         /\ \A k \in 1..(Len(q) - 1) : Tail(q)[k] = q[k + 1]
BY HeadTailProperties, LenProperties, EmptySeq, ElementOfSeq

LEMMA HandledReport ==
  ASSUME NEW q \in Seq(Event), q # <<>>, NEW u
  PROVE  /\ Cleared(q, u) <=> Clears(q[1], u) \/ Cleared(Tail(q), u)
         /\ Brought(q, u) <=> Brought(Tail(q), u) \/ (Brings(q[1], u) /\ ~Cleared(Tail(q), u))
<1>1. PICK n \in Nat : Len(q) = n + 1
  <2>1. PICK m \in Nat \ {0} : m = Len(q)
    BY Handled
  <2>2. m - 1 \in Nat /\ m = (m - 1) + 1
    OBVIOUS
  <2>3. QED
    BY <2>1, <2>2
<1>2. PICK t : t = Tail(q)
  OBVIOUS
<1>3. Len(t) = n /\ \A k \in 1..n : t[k] = q[k + 1]
  <2>1. Len(t) = Len(q) - 1 /\ \A k \in 1..(Len(q) - 1) : t[k] = q[k + 1]
    BY <1>2, Handled
  <2>2. QED
    BY <2>1, <1>1
<1>4. \A k \in 1..(n + 1) : k = 1 \/ (k - 1 \in 1..n /\ t[k - 1] = q[k])
  BY <1>3
<1>5. \A k \in 1..n : k + 1 \in 1..(n + 1) /\ k + 1 > 1
  OBVIOUS
<1>6. 1 \in 1..(n + 1)
  OBVIOUS
<1>7. Cleared(q, u) <=> Clears(q[1], u) \/ Cleared(t, u)
  <2>1. ASSUME Cleared(t, u) PROVE Cleared(q, u)
    BY <2>1, <1>1, <1>3, <1>5 DEF Cleared
  <2>2. ASSUME Cleared(q, u), ~Clears(q[1], u) PROVE Cleared(t, u)
    BY <2>2, <1>1, <1>3, <1>4 DEF Cleared
  <2>3. ASSUME Clears(q[1], u) PROVE Cleared(q, u)
    BY <2>3, <1>1, <1>6 DEF Cleared
  <2>4. QED
    BY <2>1, <2>2, <2>3
<1>8. ASSUME Brought(t, u) PROVE Brought(q, u)
  <2>1. PICK k \in 1..n : Brings(t[k], u) /\ \A l \in 1..n : l > k => ~Clears(t[l], u)
    BY <1>3, <1>8 DEF Brought
  <2>2. k + 1 \in 1..(n + 1) /\ Brings(q[k + 1], u)
    BY <2>1, <1>3, <1>5
  <2>3. ASSUME NEW l \in 1..(n + 1), l > k + 1 PROVE ~Clears(q[l], u)
    <3>1. l - 1 \in 1..n /\ l - 1 > k /\ t[l - 1] = q[l]
      BY <2>3, <1>4
    <3>2. QED
      BY <3>1, <2>1
  <2>4. QED
    BY <2>2, <2>3, <1>1 DEF Brought
<1>9. ASSUME Brings(q[1], u), ~Cleared(t, u) PROVE Brought(q, u)
  <2>1. ASSUME NEW l \in 1..(n + 1), l > 1 PROVE ~Clears(q[l], u)
    BY <2>1, <1>3, <1>4, <1>9 DEF Cleared
  <2>2. QED
    BY <2>1, <1>1, <1>6, <1>9 DEF Brought
<1>10. ASSUME Brought(q, u) PROVE Brought(t, u) \/ (Brings(q[1], u) /\ ~Cleared(t, u))
  <2>1. PICK k \in 1..(n + 1) : Brings(q[k], u) /\ \A l \in 1..(n + 1) : l > k => ~Clears(q[l], u)
    BY <1>1, <1>10 DEF Brought
  <2>2. CASE k = 1
    <3>1. \A l \in 1..n : ~Clears(t[l], u)
      BY <2>1, <2>2, <1>3, <1>5
    <3>2. QED
      BY <2>1, <2>2, <3>1, <1>3 DEF Cleared
  <2>3. CASE k # 1
    <3>1. k - 1 \in 1..n /\ Brings(t[k - 1], u)
      BY <2>1, <2>3, <1>4
    <3>2. ASSUME NEW l \in 1..n, l > k - 1 PROVE ~Clears(t[l], u)
      <4>1. l + 1 \in 1..(n + 1) /\ l + 1 > k /\ t[l] = q[l + 1]
        BY <3>2, <1>3
      <4>2. QED
        BY <4>1, <2>1
    <3>3. QED
      BY <3>1, <3>2, <1>3 DEF Brought
  <2>4. QED
    BY <2>2, <2>3
<1>11. QED
  BY <1>2, <1>7, <1>8, <1>9, <1>10

(* What is listed in any order: nothing, or the one thing there is.        *)
LEMMA ListOfNone ==
  ASSUME NEW s \in SetToSeqs({})
  PROVE  s = <<>>
<1>1. s \in [1..0 -> {}]
  BY FS_EmptySet DEF SetToSeqs
<1>2. s \in Seq({}) /\ Len(s) = 0
  <2>1. 1..0 = {} /\ 0 \in Nat
    OBVIOUS
  <2>2. QED
    BY <1>1, <2>1
<1>3. QED
  BY <1>2, EmptySeq

LEMMA ListOfOne ==
  ASSUME NEW e, NEW s \in SetToSeqs({e})
  PROVE  s = <<e>>
<1>1. s \in [1..1 -> {e}]
  BY FS_Singleton DEF SetToSeqs
<1>2. s \in Seq({e}) /\ Len(s) = 1 /\ s[1] = e
  BY <1>1
<1>3. QED
  BY <1>2

LEMMA TwoReports ==
  ASSUME NEW r, NEW e
  PROVE  <<r>> \o <<e>> = <<r, e>>
<1>1. PICK p : p = <<r>> \o <<e>>
  OBVIOUS
<1>2. p \in Seq({r, e}) /\ Len(p) = 2 /\ p[1] = r /\ p[2] = e
  BY <1>1
<1>3. <<r, e>> \in Seq({r, e}) /\ Len(<<r, e>>) = 2 /\ <<r, e>>[1] = r /\ <<r, e>>[2] = e
  OBVIOUS
<1>4. \A i \in 1..2 : i = 1 \/ i = 2
  OBVIOUS
<1>5. QED
  BY <1>1, <1>2, <1>3, <1>4, SeqEqual

-----------------------------------------------------------------------------
(* The invariant *)

LEMMA PInvInit ==
  ASSUME Init
  PROVE  PInv
<1>1. TypeOK
  <2>1. queue \in Seq(Event)
    BY DEF Init
  <2>2. views \in [Channels -> SUBSET Users] /\ changes \in 0..MaxChanges /\ drops \in 0..MaxDrops
        /\ fails \in 0..MaxFails
    BY BoundAssumption DEF Init
  <2>3. QED
    BY <2>1, <2>2 DEF Init, TypeOK
<1>2. Len(queue) = 0 /\ 1..Len(queue) = {} /\ users = {} /\ ~up /\ ~(drops > 0)
  BY DEF Init
<1>3. Tracked
  BY <1>2 DEF Init, Tracked, TrackedAreAnnounced
<1>4. Gone
  BY <1>2 DEF Gone, Brought
<1>5. Here /\ Loaded
  BY <1>2 DEF Here, Loaded
<1>6. QED
  BY <1>1, <1>3, <1>4, <1>5 DEF PInv

(* Discord appends report e, about whom it says; the gateway is not        *)
(* involved.                                                               *)
Sends(e) ==
  /\ queue' = Append(queue, e)
  /\ UNCHANGED <<views, up, drops, fails, users, guilds, announced, unsure>>

LEMMA SendsKeeps ==
  ASSUME PInv, NEW u \in Users, NEW g \in Guilds,
         NEW kind \in {"online", "offline"},
         Sends([kind |-> kind, guild |-> g, user |-> u]),
         changes' \in 0..MaxChanges, online' \subseteq Users, member' \in [Guilds -> SUBSET Users],
         \A v \in Users \ {u} : Present(v)' <=> Present(v),
         kind = "online" => Present(u)', kind = "offline" => ~Present(u)'
  PROVE  PInv'
<1>1. PICK e \in Event : e = [kind |-> kind, guild |-> g, user |-> u]
  BY DEF Event
<1>2. queue' = Append(queue, e) /\ UNCHANGED <<views, up, drops, fails, users, guilds, announced, unsure>>
  BY <1>1 DEF Sends
<1>3. queue \in Seq(Event)
  BY DEF PInv, TypeOK
<1>4. /\ e.kind = kind /\ (Clears(e, u) <=> kind = "offline") /\ (Brings(e, u) <=> kind = "online")
      /\ \A v \in Users \ {u} : ~Clears(e, v) /\ ~Brings(e, v)
  BY <1>1 DEF Clears, Brings
<1>5. \A v \in Users : /\ Cleared(queue', v) <=> Cleared(queue, v) \/ Clears(e, v)
                       /\ Brought(queue', v) <=> Brings(e, v) \/ (Brought(queue, v) /\ ~Clears(e, v))
  BY <1>2, <1>3, AppendedReport
<1>6. TypeOK'
  BY <1>2, <1>3, Appended DEF PInv, TypeOK
<1>7. Tracked'
  BY <1>2 DEF PInv, Tracked, TrackedAreAnnounced
<1>8. Gone'
  <2>1. ASSUME NEW v \in Users, ~Present(v)'
        PROVE  ~Brought(queue', v) /\ (v \in users' => Cleared(queue', v))
    <3>1. CASE v = u
      BY <1>4, <1>5, <2>1, <3>1
    <3>2. CASE v # u
      <4>1. ~Brought(queue, v) /\ (v \in users => Cleared(queue, v))
        BY <2>1, <3>2 DEF PInv, Gone
      <4>2. QED
        BY <4>1, <1>2, <1>4, <1>5, <3>2
    <3>3. QED
      BY <3>1, <3>2
  <2>2. ~up' => users' = {}
    BY <1>2 DEF PInv, Gone
  <2>3. QED
    BY <2>1, <2>2 DEF Gone
<1>9. Here'
  <2>1. ASSUME up', NEW v \in Users \ unsure', NEW c \in Configured, v \in views'[c]
        PROVE  /\ v \in users' => v \in announced'[c]
               /\ Present(v)' => Brought(queue', v) \/ (v \in announced'[c] /\ ~Cleared(queue', v))
    <3>1. /\ v \in users => v \in announced[c]
          /\ Present(v) => Brought(queue, v) \/ (v \in announced[c] /\ ~Cleared(queue, v))
      BY <1>2, <2>1 DEF PInv, Here
    <3>2. CASE v = u
      BY <1>2, <1>4, <1>5, <3>1, <3>2
    <3>3. CASE v # u
      BY <1>2, <1>4, <1>5, <3>1, <3>3
    <3>4. QED
      BY <3>2, <3>3
  <2>2. QED
    BY <2>1 DEF Here
<1>10. Loaded'
  <2>1. PICK n \in Nat : n = Len(queue)
    BY <1>3, LenProperties
  <2>2. Len(queue') = n + 1 /\ queue'[n + 1] = e /\ \A k \in 1..n : queue'[k] = queue[k]
    BY <1>2, <1>3, <2>1, Appended
  <2>3. e.kind \in {"online", "offline"}
    BY <1>4
  <2>4. ASSUME NEW k \in 1..(n + 1), queue'[k].kind = "ready"
        PROVE  k = 1 /\ n + 1 > 1 /\ queue'[2].kind = "create"
    <3>1. k \in 1..n /\ queue[k].kind = "ready"
      BY <2>2, <2>3, <2>4
    <3>2. k = 1 /\ n > 1 /\ queue[2].kind = "create"
      BY <2>1, <3>1 DEF PInv, Loaded
    <3>3. QED
      BY <2>2, <3>2
  <2>5. ASSUME up' \/ drops' > 0, NEW h \in Guilds
        PROVE  \/ guilds'[h] = ChannelsOf[h] \cap Configured
               \/ n + 1 > 0 /\ queue'[1].kind \in {"ready", "create"}
    <3>1. \/ guilds[h] = ChannelsOf[h] \cap Configured
          \/ n > 0 /\ queue[1].kind \in {"ready", "create"}
      BY <1>2, <2>1, <2>5 DEF PInv, Loaded
    <3>2. QED
      BY <1>2, <2>2, <3>1
  <2>6. QED
    BY <2>2, <2>4, <2>5 DEF Loaded
<1>11. QED
  BY <1>6, <1>7, <1>8, <1>9, <1>10 DEF PInv

(* A change of status is sent to the guild, if the user is a member.       *)
LEMMA StatusStep ==
  ASSUME OneGuild, PInv, NEW u \in Users, StatusChanges(u)
  PROVE  PInv'
<1>1. PICK g \in Guilds : Guilds = {g}
  BY DEF OneGuild
<1>2. PICK kind \in {"online", "offline"} : kind = IF u \in online THEN "offline" ELSE "online"
  OBVIOUS
<1>3. PICK s \in SetToSeqs({[kind |-> kind, guild |-> h, user |-> u] :
                              h \in {i \in Guilds : u \in member[i]}}) :
        queue' = queue \o s
  BY <1>2 DEF StatusChanges
<1>4. /\ online' = IF u \in online THEN online \ {u} ELSE online \cup {u}
      /\ UNCHANGED <<member, views, up, drops, fails, users, guilds, announced, unsure>>
      /\ changes' \in 0..MaxChanges
  BY BoundAssumption DEF StatusChanges, Happens, PInv, TypeOK, gatewayVars
<1>5. CASE u \in member[g]
  <2>1. PICK e : e = [kind |-> kind, guild |-> g, user |-> u]
    OBVIOUS
  <2>2. {[kind |-> kind, guild |-> h, user |-> u] : h \in {i \in Guilds : u \in member[i]}} = {e}
    BY <1>1, <1>5, <2>1
  <2>3. s = <<e>>
    BY <1>3, <2>2, ListOfOne
  <2>4. e \in Event
    BY <2>1 DEF Event
  <2>5. queue' = Append(queue, e)
    <3>1. queue \in Seq(Event)
      BY DEF PInv, TypeOK
    <3>2. QED
      BY <1>3, <2>3, <2>4, <3>1
  <2>6. Sends([kind |-> kind, guild |-> g, user |-> u])
    BY <1>4, <2>1, <2>5 DEF Sends
  <2>7. /\ \A v \in Users \ {u} : Present(v)' <=> Present(v)
        /\ kind = "online" => Present(u)'
        /\ kind = "offline" => ~Present(u)'
    BY <1>1, <1>2, <1>4, <1>5 DEF Present
  <2>8. online' \subseteq Users /\ member' \in [Guilds -> SUBSET Users]
    BY <1>4 DEF PInv, TypeOK
  <2>9. QED
    BY <1>4, <2>6, <2>7, <2>8, SendsKeeps
<1>6. CASE u \notin member[g]
  <2>1. {[kind |-> kind, guild |-> h, user |-> u] : h \in {i \in Guilds : u \in member[i]}} = {}
    BY <1>1, <1>6
  <2>2. s = <<>>
    BY <1>3, <2>1, ListOfNone
  <2>3. queue' = queue
    <3>1. queue \in Seq(Event)
      BY DEF PInv, TypeOK
    <3>2. QED
      BY <1>3, <2>2, <3>1
  <2>4. \A v \in Users : Present(v)' <=> Present(v)
    BY <1>1, <1>4, <1>6 DEF Present
  <2>5. TypeOK'
    BY <1>4, <2>3 DEF PInv, TypeOK
  <2>6. Tracked' /\ Loaded'
    BY <1>4, <2>3 DEF PInv, Tracked, TrackedAreAnnounced, Loaded
  <2>7. Gone'
    BY <1>4, <2>3, <2>4 DEF PInv, Gone
  <2>8. Here'
    BY <1>4, <2>3, <2>4 DEF PInv, Here
  <2>9. QED
    BY <2>5, <2>6, <2>7, <2>8 DEF PInv
<1>7. QED
  BY <1>5, <1>6

LEMMA LeavesStep ==
  ASSUME PInv, NEW g \in Guilds, NEW u \in Users, LeavesGuild(g, u)
  PROVE  PInv'
<1>1. /\ member' = [member EXCEPT ![g] = member[g] \ {u}]
      /\ queue' = Append(queue, [kind |-> "offline", guild |-> g, user |-> u])
      /\ UNCHANGED <<online, views, up, drops, fails, users, guilds, announced, unsure>>
      /\ changes' \in 0..MaxChanges
  BY BoundAssumption DEF LeavesGuild, Happens, PInv, TypeOK, gatewayVars
<1>2. member \in [Guilds -> SUBSET Users] /\ online \subseteq Users
  BY DEF PInv, TypeOK
<1>3. member' \in [Guilds -> SUBSET Users] /\ online' \subseteq Users
  BY <1>1, <1>2
<1>4. (\A v \in Users \ {u} : Present(v)' <=> Present(v)) /\ ~Present(u)'
  BY <1>1, <1>2 DEF Present
<1>5. Sends([kind |-> "offline", guild |-> g, user |-> u])
  BY <1>1 DEF Sends
<1>6. QED
  BY <1>1, <1>3, <1>4, <1>5, SendsKeeps

LEMMA PermissionStep ==
  ASSUME PInv, NEW c \in Channels, NEW u \in Users, PermissionChanges(c, u)
  PROVE  PInv'
<1>1. /\ views' = [views EXCEPT ![c] = IF u \in views[c] THEN views[c] \ {u} ELSE views[c] \cup {u}]
      /\ unsure' = unsure \cup {u}
      /\ UNCHANGED <<online, member, queue, up, drops, fails, users, guilds, announced>>
      /\ changes' \in 0..MaxChanges
  BY BoundAssumption DEF PermissionChanges, Happens, PInv, TypeOK, gatewayVars
<1>2. TypeOK'
  BY <1>1 DEF PInv, TypeOK
<1>3. \A v \in Users : Present(v)' <=> Present(v)
  BY <1>1 DEF Present
<1>4. Tracked' /\ Loaded'
  BY <1>1 DEF PInv, Tracked, TrackedAreAnnounced, Loaded
<1>5. Gone'
  BY <1>1, <1>3 DEF PInv, Gone
<1>6. \A v \in Users \ unsure' : \A d \in Configured : v \in views'[d] => v \in views[d] /\ v \notin unsure
  <2>1. Configured \subseteq Channels /\ views \in [Channels -> SUBSET Users]
    BY ChannelAssumption DEF PInv, TypeOK
  <2>2. QED
    BY <1>1, <2>1
<1>7. Here'
  BY <1>1, <1>3, <1>6 DEF PInv, Here
<1>8. QED
  BY <1>2, <1>4, <1>5, <1>7 DEF PInv

LEMMA IdentifyStep ==
  ASSUME OneGuild, PInv, Identify
  PROVE  PInv'
<1>1. PICK g \in Guilds : Guilds = {g}
  BY DEF OneGuild
<1>2. PICK p : p = online \cap member[g]
  OBVIOUS
<1>3. PICK r, e : r = [kind |-> "ready"] /\ e = [kind |-> "create", guild |-> g, present |-> p]
  OBVIOUS
<1>4. queue' = <<r, e>>
  <2>1. PICK s \in SetToSeqs({[kind |-> "create", guild |-> h, present |-> online \cap member[h]] : h \in Guilds}) :
          queue' = <<r>> \o s
    BY <1>3 DEF Identify
  <2>2. {[kind |-> "create", guild |-> h, present |-> online \cap member[h]] : h \in Guilds} = {e}
    BY <1>1, <1>2, <1>3
  <2>3. s = <<e>>
    BY <2>2, ListOfOne
  <2>4. <<r>> \o <<e>> = <<r, e>>
    BY TwoReports
  <2>5. QED
    BY <2>1, <2>3, <2>4
<1>5. /\ up' = TRUE /\ unsure' = {} /\ ~up /\ users = {}
      /\ UNCHANGED <<online, member, views, changes, drops, fails, users, guilds, announced>>
  BY DEF Identify, PInv, Gone, discordVars, gatewayVars
<1>6. r \in Event /\ e \in Event
  BY <1>2, <1>3 DEF Event, PInv, TypeOK
<1>7. TypeOK'
  <2>1. queue' \in Seq(Event)
    BY <1>4, <1>6
  <2>2. QED
    BY <1>5, <2>1 DEF PInv, TypeOK
<1>8. Len(queue') = 2 /\ queue'[1] = r /\ queue'[2] = e /\ \A k \in 1..2 : k = 1 \/ k = 2
  BY <1>4
<1>9. \A u \in Users : /\ Present(u)' <=> u \in p
                       /\ Brings(e, u) <=> u \in p
                       /\ ~Brings(r, u) /\ ~Clears(e, u)
  BY <1>1, <1>2, <1>3, <1>5 DEF Present, Brings, Clears
<1>10. \A u \in Users : Brought(queue', u) <=> u \in p
  BY <1>8, <1>9 DEF Brought
<1>11. Tracked'
  BY <1>5 DEF PInv, Tracked, TrackedAreAnnounced
<1>12. Gone' /\ Here'
  BY <1>5, <1>9, <1>10 DEF Gone, Here
<1>13. Loaded'
  BY <1>3, <1>8 DEF Loaded
<1>14. QED
  BY <1>7, <1>11, <1>12, <1>13 DEF PInv

LEMMA ResumeStep ==
  ASSUME PInv, Resume
  PROVE  PInv'
<1>1. /\ up' = TRUE /\ unsure' = Users /\ drops > 0 /\ users = {}
      /\ UNCHANGED <<online, member, views, changes, queue, drops, fails, users, guilds, announced>>
  BY DEF Resume, PInv, Gone, discordVars, gatewayVars
<1>2. TypeOK'
  BY <1>1 DEF PInv, TypeOK
<1>3. Tracked'
  BY <1>1 DEF PInv, Tracked, TrackedAreAnnounced
<1>4. Gone'
  BY <1>1 DEF PInv, Gone, Present
<1>5. Here'
  BY <1>1 DEF Here
<1>6. Loaded'
  BY <1>1 DEF PInv, Loaded
<1>7. QED
  BY <1>2, <1>3, <1>4, <1>5, <1>6 DEF PInv

(* What clear leaves is consistent.                                        *)
LEMMA ClearedAll ==
  ASSUME clear
  PROVE  /\ users' = {} /\ \A c \in Configured : announced'[c] = {}
         /\ Tracked'
<1>1. users' = {} /\ \A c \in Configured : announced'[c] = {}
  BY DEF clear
<1>2. QED
  BY <1>1 DEF Tracked, TrackedAreAnnounced

LEMMA DisconnectStep ==
  ASSUME PInv, onDisconnect
  PROVE  PInv'
<1>1. /\ up' = FALSE /\ up /\ drops' \in 0..MaxDrops /\ clear
      /\ UNCHANGED <<online, member, views, changes, queue, fails, guilds, unsure>>
  BY BoundAssumption DEF onDisconnect, discordVars, PInv, TypeOK
<1>2. users' = {} /\ Tracked'
  BY <1>1, ClearedAll
<1>3. TypeOK'
  BY <1>1 DEF PInv, TypeOK, clear
<1>4. Gone'
  BY <1>1, <1>2 DEF PInv, Gone, Present
<1>5. Here'
  BY <1>1 DEF Here
<1>6. Loaded'
  BY <1>1 DEF PInv, Loaded
<1>7. QED
  BY <1>2, <1>3, <1>4, <1>5, <1>6 DEF PInv

-----------------------------------------------------------------------------
(* A report is handled *)

LEMMA Received ==
  ASSUME PInv, NEW kind, Receives(kind)
  PROVE  /\ queue \in Seq(Event) /\ queue # <<>> /\ up
         /\ Head(queue) = queue[1] /\ queue[1] \in Event /\ queue[1].kind = kind
         /\ queue' = Tail(queue) /\ queue' \in Seq(Event)
         /\ UNCHANGED <<online, member, views, changes, up, drops>>
         /\ \A u : Present(u)' <=> Present(u)
         /\ \A u : /\ Cleared(queue, u) <=> Clears(queue[1], u) \/ Cleared(queue', u)
                   /\ Brought(queue, u) <=> Brought(queue', u) \/ (Brings(queue[1], u) /\ ~Cleared(queue', u))
<1>1. queue \in Seq(Event) /\ queue # <<>> /\ up /\ Head(queue).kind = kind
      /\ queue' = Tail(queue) /\ UNCHANGED <<online, member, views, changes, up, drops>>
  BY DEF Receives, PInv, TypeOK, discordVars
<1>2. QED
  BY <1>1, Handled, HandledReport DEF Present

(* The queue moves up.                                                     *)
LEMMA ReceivedLoaded ==
  ASSUME PInv, NEW kind, Receives(kind),
         \/ kind = "ready"
         \/ \A g \in Guilds : guilds'[g] = ChannelsOf[g] \cap Configured
  PROVE  Loaded'
<1>1. /\ queue \in Seq(Event) /\ queue # <<>> /\ up /\ queue[1].kind = kind
      /\ queue' = Tail(queue)
  BY Received
<1>2. PICK n \in Nat \ {0} : n = Len(queue)
  BY <1>1, Handled
<1>3. Len(queue') = n - 1 /\ \A k \in 1..(n - 1) : queue'[k] = queue[k + 1]
  BY <1>1, <1>2, Handled
<1>4. ASSUME NEW k \in 1..(n - 1), queue'[k].kind = "ready" PROVE FALSE
  <2>1. k + 1 \in 1..n /\ k + 1 # 1 /\ queue[k + 1].kind = "ready"
    BY <1>3, <1>4
  <2>2. QED
    BY <2>1, <1>2 DEF PInv, Loaded
<1>5. kind = "ready" => n - 1 > 0 /\ queue'[1].kind = "create"
  <2>1. kind = "ready" => n > 1 /\ queue[2].kind = "create"
    BY <1>1, <1>2 DEF PInv, Loaded
  <2>2. n > 1 => 1 \in 1..(n - 1) /\ 1 + 1 = 2
    OBVIOUS
  <2>3. n > 1 => queue'[1] = queue[2]
    BY <2>2, <1>3
  <2>4. QED
    BY <2>1, <2>2, <2>3
<1>6. QED
  BY <1>3, <1>4, <1>5 DEF Loaded

LEMMA ReadyStep ==
  ASSUME PInv, onReady
  PROVE  PInv'
<1>1. Receives("ready") /\ clear /\ guilds' = [g \in Guilds |-> {}] /\ UNCHANGED <<fails, unsure>>
  BY DEF onReady
<1>2. /\ queue[1].kind = "ready" /\ queue' \in Seq(Event)
      /\ UNCHANGED <<online, member, views, changes, up, drops>>
      /\ \A u : Present(u)' <=> Present(u)
      /\ \A u : /\ Cleared(queue, u) <=> Clears(queue[1], u) \/ Cleared(queue', u)
                /\ Brought(queue, u) <=> Brought(queue', u) \/ (Brings(queue[1], u) /\ ~Cleared(queue', u))
  BY <1>1, Received
<1>3. \A u : Clears(queue[1], u) /\ ~Brings(queue[1], u)
  BY <1>2 DEF Clears, Brings
<1>4. users' = {} /\ Tracked'
  BY <1>1, ClearedAll
<1>5. TypeOK'
  BY <1>1, <1>2 DEF PInv, TypeOK, clear
<1>6. Gone'
  BY <1>2, <1>3, <1>4 DEF PInv, Gone
<1>7. Here'
  BY <1>1, <1>2, <1>3, <1>4 DEF PInv, Here
<1>8. Loaded'
  BY <1>1, ReceivedLoaded
<1>9. QED
  BY <1>4, <1>5, <1>6, <1>7, <1>8 DEF PInv

(* The channels of the guild, as far as there are gateways for them, are   *)
(* all there are.                                                          *)
LEMMA OnlyChannels ==
  ASSUME NEW g, Guilds = {g}
  PROVE  ChannelsOf[g] \cap Configured = Configured
  BY ChannelAssumption DEF Channels

(* Users arrive in the guild: the reports that say so.                     *)
LEMMA ArriveKeeps ==
  ASSUME NEW g, Guilds = {g}, PInv, NEW kind \in {"create", "online"}, Receives(kind),
         NEW arrivals \in SUBSET Users,
         \A u \in Users : Brings(queue[1], u) <=> u \in arrivals,
         guilds' = [h \in Guilds |-> Configured],
         Arrive(Configured, arrivals)
  PROVE  PInv'
<1>1. /\ queue[1].kind = kind /\ queue' \in Seq(Event) /\ up
      /\ UNCHANGED <<online, member, views, changes, up, drops>>
      /\ \A u : Present(u)' <=> Present(u)
      /\ \A u : /\ Cleared(queue, u) <=> Clears(queue[1], u) \/ Cleared(queue', u)
                /\ Brought(queue, u) <=> Brought(queue', u) \/ (Brings(queue[1], u) /\ ~Cleared(queue', u))
  BY Received
<1>2. \A u : ~Clears(queue[1], u)
  BY <1>1 DEF Clears
<1>3. Configured \subseteq Channels /\ views \in [Channels -> SUBSET Users]
      /\ announced \in [Configured -> SUBSET Users] /\ users \in SUBSET Users
  BY ChannelAssumption DEF PInv, TypeOK
<1>4. PICK failed \in SUBSET Lookups(Configured, arrivals), joins \in SUBSET Lookups(Configured, arrivals) :
        /\ joins = Lookups(Configured, arrivals) \ failed /\ Fail(failed)
        /\ announced' = [c \in Configured |-> announced[c] \cup {p[2] : p \in {q \in joins : q[1] = c}}]
        /\ users' = users \cup {p[2] : p \in joins}
  BY DEF Arrive
<1>5. \A c \in Configured : \A u : <<c, u>> \in Lookups(Configured, arrivals) <=>
                                  u \in arrivals /\ u \notin users /\ u \in views[c]
  BY DEF Lookups
<1>6. \A p \in Lookups(Configured, arrivals) : p = <<p[1], p[2]>> /\ p[1] \in Configured /\ p[2] \in arrivals
  BY DEF Lookups
<1>7. \A u : /\ \A c \in Configured : u \in announced'[c] <=> u \in announced[c] \/ <<c, u>> \in joins
             /\ u \in users' <=> u \in users \/ \E c \in Configured : <<c, u>> \in joins
             /\ u \in unsure' <=> u \in unsure \/ \E c \in Configured : <<c, u>> \in failed
  <2> TAKE u
  <2>1. ASSUME NEW c \in Configured PROVE u \in announced'[c] <=> u \in announced[c] \/ <<c, u>> \in joins
    <3>1. announced'[c] = announced[c] \cup {p[2] : p \in {q \in joins : q[1] = c}}
      BY <1>4
    <3>2. u \in {p[2] : p \in {q \in joins : q[1] = c}} <=> <<c, u>> \in joins
      BY <1>6
    <3>3. QED
      BY <3>1, <3>2
  <2>2. u \in users' <=> u \in users \/ \E c \in Configured : <<c, u>> \in joins
    <3>1. u \in {p[2] : p \in joins} <=> \E c \in Configured : <<c, u>> \in joins
      BY <1>6
    <3>2. QED
      BY <1>4, <3>1
  <2>3. u \in unsure' <=> u \in unsure \/ \E c \in Configured : <<c, u>> \in failed
    <3>1. unsure' = unsure \cup {p[2] : p \in failed}
      BY <1>4 DEF Fail
    <3>2. u \in {p[2] : p \in failed} <=> \E c \in Configured : <<c, u>> \in failed
      BY <1>6
    <3>3. QED
      BY <3>1, <3>2
  <2>4. QED
    BY <2>1, <2>2, <2>3
<1>8. \A c \in Configured : \A u : <<c, u>> \in joins \/ <<c, u>> \in failed => u \in arrivals /\ u \in Users
  BY <1>5
<1>9. TypeOK'
  <2>1. fails' \in 0..MaxFails
    BY <1>4, BoundAssumption DEF Fail, PInv, TypeOK
  <2>2. users' \subseteq Users /\ unsure' \subseteq Users
    BY <1>3, <1>7, <1>8 DEF PInv, TypeOK
  <2>3. announced' \in [Configured -> SUBSET Users]
    <3>1. \A c \in Configured : announced'[c] \in SUBSET Users
      BY <1>3, <1>7, <1>8
    <3>2. QED
      BY <3>1, <1>4
  <2>4. QED
    BY <2>1, <2>2, <2>3, <1>1 DEF PInv, TypeOK
<1>10. Tracked'
  <2>1. \A u : u \in users <=> \E c \in Configured : u \in announced[c]
    BY DEF PInv, Tracked, TrackedAreAnnounced
  <2>2. \A u : u \in users' <=> \E c \in Configured : u \in announced'[c]
    BY <1>7, <2>1
  <2>3. \A h \in Guilds : Configured \ guilds'[h] = {}
    OBVIOUS
  <2>4. users' = UNION {announced'[c] : c \in Configured}
    BY <2>2
  <2>5. QED
    BY <2>3, <2>4 DEF Tracked, TrackedAreAnnounced
<1>11. Gone'
  <2>1. ASSUME NEW u \in Users, ~Present(u)
        PROVE  ~Brought(queue', u) /\ (u \in users' => Cleared(queue', u))
    <3>1. ~Brought(queue, u) /\ (u \in users => Cleared(queue, u))
      BY <2>1 DEF PInv, Gone
    <3>2. u \in users' => u \in users \/ u \in arrivals
      BY <1>7, <1>8
    <3>3. QED
      BY <1>1, <1>2, <3>1, <3>2
  <2>2. QED
    BY <1>1, <2>1 DEF Gone
<1>12. Here'
  <2>1. ASSUME NEW u \in Users \ unsure', NEW c \in Configured, u \in views[c]
        PROVE  /\ u \in users' => u \in announced'[c]
               /\ Present(u) => Brought(queue', u) \/ (u \in announced'[c] /\ ~Cleared(queue', u))
    <3>1. /\ u \notin unsure /\ <<c, u>> \notin failed
          /\ u \in users => u \in announced[c]
          /\ Present(u) => Brought(queue, u) \/ (u \in announced[c] /\ ~Cleared(queue, u))
      BY <1>1, <1>7, <2>1 DEF PInv, Here
    <3>2. u \in users \/ u \in arrivals => u \in announced'[c]
      BY <1>4, <1>5, <1>7, <2>1, <3>1
    <3>3. u \in users' => u \in users \/ u \in arrivals
      BY <1>7, <1>8
    <3>4. u \in announced[c] => u \in announced'[c]
      BY <1>7
    <3>5. QED
      BY <1>1, <1>2, <3>1, <3>2, <3>3, <3>4
  <2>2. QED
    BY <1>1, <2>1 DEF Here
<1>13. Loaded'
  BY ReceivedLoaded, OnlyChannels
<1>14. QED
  BY <1>9, <1>10, <1>11, <1>12, <1>13 DEF PInv

LEMMA GuildCreateStep ==
  ASSUME OneGuild, PInv, onGuildCreate
  PROVE  PInv'
<1>1. PICK g : Guilds = {g}
  BY DEF OneGuild
<1>2. Receives("create")
  BY DEF onGuildCreate
<1>3. Head(queue) = queue[1] /\ queue[1] \in Event /\ queue[1].kind = "create"
  BY <1>2, Received
<1>4. queue[1].guild = g /\ queue[1].present \in SUBSET Users
  BY <1>1, <1>3, Reports
<1>5. guilds' = [guilds EXCEPT ![g] = Configured] /\ guilds \in [Guilds -> SUBSET Configured]
  BY <1>1, <1>3, <1>4, OnlyChannels DEF onGuildCreate, PInv, TypeOK
<1>6. guilds' = [h \in Guilds |-> Configured]
  BY <1>1, <1>5
<1>7. Arrive(Configured, queue[1].present)
  BY <1>1, <1>3, <1>4, <1>6 DEF onGuildCreate, Arrive
<1>8. \A u \in Users : Brings(queue[1], u) <=> u \in queue[1].present
  BY <1>3 DEF Brings
<1>9. QED
  BY <1>1, <1>2, <1>4, <1>6, <1>7, <1>8, ArriveKeeps

(* When Ready and the guild have been handled, the gateway knows its       *)
(* channels.                                                               *)
LEMMA ChannelsKnown ==
  ASSUME NEW g, Guilds = {g}, PInv, NEW kind \in {"online", "offline"}, Receives(kind)
  PROVE  guilds[g] = Configured /\ guilds = [h \in Guilds |-> Configured]
<1>1. queue \in Seq(Event) /\ queue # <<>> /\ up /\ queue[1].kind = kind
  BY Received
<1>2. guilds[g] = ChannelsOf[g] \cap Configured
  BY <1>1 DEF PInv, Loaded
<1>3. guilds \in [Guilds -> SUBSET Configured]
  BY DEF PInv, TypeOK
<1>4. QED
  BY <1>2, <1>3, OnlyChannels

LEMMA PresenceStep ==
  ASSUME OneGuild, PInv, onPresenceUpdate
  PROVE  PInv'
<1>1. PICK g : Guilds = {g}
  BY DEF OneGuild
<1>2. Receives("online") /\ UNCHANGED guilds
  BY DEF onPresenceUpdate
<1>3. Head(queue) = queue[1] /\ queue[1] \in Event /\ queue[1].kind = "online"
  BY <1>2, Received
<1>4. queue[1].guild = g /\ queue[1].user \in Users
  BY <1>1, <1>3, Reports
<1>5. guilds[g] = Configured /\ guilds = [h \in Guilds |-> Configured]
  BY <1>1, <1>2, ChannelsKnown
<1>6. Arrive(Configured, {queue[1].user})
  BY <1>3, <1>4, <1>5 DEF onPresenceUpdate
<1>7. \A u \in Users : Brings(queue[1], u) <=> u \in {queue[1].user}
  BY <1>3 DEF Brings
<1>8. QED
  BY <1>1, <1>2, <1>4, <1>5, <1>6, <1>7, ArriveKeeps

LEMMA OfflineStep ==
  ASSUME OneGuild, PInv, onOffline
  PROVE  PInv'
<1>1. PICK g : Guilds = {g}
  BY DEF OneGuild
<1>2. Receives("offline") /\ UNCHANGED <<fails, guilds, unsure>>
  BY DEF onOffline
<1>3. /\ queue[1].kind = "offline" /\ queue[1] \in Event /\ Head(queue) = queue[1]
      /\ queue' \in Seq(Event) /\ up
      /\ UNCHANGED <<online, member, views, changes, up, drops>>
      /\ \A u : Present(u)' <=> Present(u)
      /\ \A u : /\ Cleared(queue, u) <=> Clears(queue[1], u) \/ Cleared(queue', u)
                /\ Brought(queue, u) <=> Brought(queue', u) \/ (Brings(queue[1], u) /\ ~Cleared(queue', u))
  BY <1>2, Received
<1>4. PICK v \in Users : v = queue[1].user /\ queue[1].guild = g
  BY <1>1, <1>3, Reports
<1>5. guilds[g] = Configured /\ guilds = [h \in Guilds |-> Configured]
  BY <1>1, <1>2, ChannelsKnown
<1>6. /\ announced' = [c \in Configured |->
           IF v \in users /\ c \in Configured THEN announced[c] \ {v} ELSE announced[c]]
      /\ users' = users \ {v}
  BY <1>3, <1>4, <1>5 DEF onOffline, Depart
<1>7. \A u : ~Brings(queue[1], u) /\ (Clears(queue[1], u) <=> u = v)
  BY <1>3, <1>4 DEF Brings, Clears
<1>8. TypeOK'
  BY <1>2, <1>3, <1>6 DEF PInv, TypeOK
<1>9. users = UNION {announced[c] : c \in Configured}
  BY DEF PInv, Tracked, TrackedAreAnnounced
<1>10. Tracked'
  <2>1. ASSUME NEW u \in users' PROVE \E c \in Configured : u \in announced'[c]
    BY <1>6, <1>9, <2>1
  <2>2. ASSUME NEW c \in Configured, NEW u \in announced'[c] PROVE u \in users'
    <3>1. u \in announced[c] /\ u \in users
      BY <1>6, <1>9, <2>2
    <3>2. u # v
      BY <1>6, <2>2, <3>1
    <3>3. QED
      BY <1>6, <3>1, <3>2
  <2>3. \A h \in Guilds : Configured \ guilds'[h] = {}
    BY <1>2, <1>5
  <2>4. QED
    BY <2>1, <2>2, <2>3 DEF Tracked, TrackedAreAnnounced
<1>11. Gone'
  <2>1. ASSUME NEW u \in Users, ~Present(u)
        PROVE  ~Brought(queue', u) /\ (u \in users' => Cleared(queue', u))
    <3>1. ~Brought(queue, u) /\ (u \in users => Cleared(queue, u))
      BY <2>1 DEF PInv, Gone
    <3>2. u \in users' => u \in users /\ u # v
      BY <1>6
    <3>3. QED
      BY <1>3, <1>7, <3>1, <3>2
  <2>2. QED
    BY <1>3, <2>1 DEF Gone
<1>12. Here'
  <2>1. ASSUME NEW u \in Users \ unsure, NEW c \in Configured, u \in views[c]
        PROVE  /\ u \in users' => u \in announced'[c]
               /\ Present(u) => Brought(queue', u) \/ (u \in announced'[c] /\ ~Cleared(queue', u))
    <3>1. /\ u \in users => u \in announced[c]
          /\ Present(u) => Brought(queue, u) \/ (u \in announced[c] /\ ~Cleared(queue, u))
      BY <1>3, <2>1 DEF PInv, Here
    <3>2. /\ u \in users' => u \in users /\ u # v
          /\ u # v => (u \in announced'[c] <=> u \in announced[c])
      BY <1>6
    <3>3. QED
      BY <1>3, <1>7, <3>1, <3>2
  <2>2. QED
    BY <1>2, <1>3, <2>1 DEF Here
<1>13. Loaded'
  BY <1>1, <1>2, <1>5, ReceivedLoaded, OnlyChannels
<1>14. QED
  BY <1>8, <1>10, <1>11, <1>12, <1>13 DEF PInv

LEMMA PInvStep ==
  ASSUME OneGuild, PInv, [Next]_vars
  PROVE  PInv'
<1>1. ASSUME NEW u \in Users, StatusChanges(u) PROVE PInv'
  BY <1>1, StatusStep
<1>2. ASSUME NEW g \in Guilds, NEW u \in Users, LeavesGuild(g, u) PROVE PInv'
  BY <1>2, LeavesStep
<1>3. ASSUME NEW c \in Channels, NEW u \in Users, PermissionChanges(c, u) PROVE PInv'
  BY <1>3, PermissionStep
<1>4. CASE Identify \/ Resume \/ onDisconnect
  BY <1>4, IdentifyStep, ResumeStep, DisconnectStep
<1>5. CASE onReady \/ onGuildCreate \/ onPresenceUpdate \/ onOffline
  BY <1>5, ReadyStep, GuildCreateStep, PresenceStep, OfflineStep
<1>6. CASE UNCHANGED vars
  BY <1>6 DEF vars, discordVars, gatewayVars, PInv, TypeOK, Tracked, TrackedAreAnnounced,
              Gone, Here, Loaded, Present
<1>7. QED
  BY <1>1, <1>2, <1>3, <1>4, <1>5, <1>6, Zenon DEF Next

LEMMA Inductive == OneGuild /\ Spec => []PInv
<1> SUFFICES ASSUME OneGuild PROVE Spec => []PInv
  OBVIOUS
<1>1. Init => PInv
  BY PInvInit
<1>2. PInv /\ [Next]_vars => PInv'
  BY PInvStep
<1>3. QED
  BY <1>1, <1>2, PTL DEF Spec

-----------------------------------------------------------------------------

(* In one guild, whatever members, permissions and the connection do,      *)
(* nobody gets a second Join and nobody who is announced misses the Leave. *)
THEOREM TrackedMeansAnnounced == OneGuild /\ Spec => []TrackedAreAnnounced
<1>1. PInv => TrackedAreAnnounced
  BY DEF PInv, Tracked
<1> QED BY Inductive, <1>1, PTL

(* In one guild nobody who went offline or left it is still announced once *)
(* the reports are handled, also if the connection was lost in between.    *)
THEOREM NobodyGoneIsAnnounced == OneGuild /\ Spec => []AnnouncedAreOnline
<1>1. PInv => AnnouncedAreOnline
  <2> SUFFICES ASSUME PInv, UpToDate, NEW g \in Guilds, NEW c \in ChannelsOf[g] \cap Configured,
                      NEW u \in announced[c]
               PROVE  u \in online /\ u \in member[g]
    BY DEF AnnouncedAreOnline
  <2>1. u \in users /\ u \in Users
    BY DEF PInv, Tracked, TrackedAreAnnounced, TypeOK
  <2>2. Len(queue) = 0
    BY DEF UpToDate
  <2>3. ~Cleared(queue, u)
    BY <2>2 DEF Cleared
  <2>4. Present(u)
    BY <2>1, <2>3 DEF PInv, Gone
  <2>5. QED
    BY <2>4 DEF Present
<1> QED BY Inductive, <1>1, PTL

(* In one guild, once the reports are handled, everybody who is online and *)
(* may view a channel is announced there, but for those who were missed by *)
(* a resumed session, whose permissions changed, or who could not be       *)
(* looked up when they came.                                               *)
THEOREM EverybodyIsAnnounced == OneGuild /\ Spec => []OnlineAreAnnounced
<1>1. OneGuild /\ PInv => OnlineAreAnnounced
  <2> SUFFICES ASSUME OneGuild, PInv, UpToDate, NEW c \in Configured, NEW u \in Entitled(c) \ unsure
               PROVE  u \in announced[c]
    BY DEF OnlineAreAnnounced
  <2>1. PICK g : Guilds = {g}
    BY DEF OneGuild
  <2>2. Present(u) /\ u \in views[c] /\ u \in Users
    BY <2>1 DEF Entitled, Present, PInv, TypeOK
  <2>3. Len(queue) = 0 /\ up
    BY DEF UpToDate
  <2>4. ~Brought(queue, u)
    BY <2>3 DEF Brought
  <2>5. QED
    BY <2>2, <2>3, <2>4 DEF PInv, Here
<1> SUFFICES ASSUME OneGuild PROVE Spec => []OnlineAreAnnounced
  OBVIOUS
<1>2. PInv => OnlineAreAnnounced
  BY <1>1
<1>3. Spec => []PInv
  BY Inductive
<1> QED BY <1>2, <1>3, PTL

=============================================================================
