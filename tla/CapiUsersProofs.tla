---------------------------- MODULE CapiUsersProofs ----------------------------
(***************************************************************************)
(* What CapiUsers promises, for any names, sessions and connections.       *)
(*                                                                         *)
(* An ID that was given to a name on this connection is no other name's,   *)
(* as the server counts: that is so of the sessions in the channel, of the *)
(* reports on their way, of the users that are known once the report that  *)
(* begins the connection is read, and of the calls that looked them up.    *)
(***************************************************************************)
EXTENDS CapiUsers, FiniteSetTheorems, SequenceTheorems, TLAPS

Report == [kind : {"joined", "left"}, name : Names, id : Nat] \cup [kind : {"connect"}]
Target == [name : Names, id : Nat, connection : Nat]

Types ==
  /\ begun \in Nat /\ connections \in Nat \ {0}
  /\ session \in [Names -> Nat \cup {None}]
  /\ queue \in Seq(Report)
  /\ users \in [Names -> Nat \cup {None}]
  /\ call \in [Calls -> Target \cup {None}]
  /\ joins \in [Names -> Nat]

Owns(n, i) == i <= begun /\ \A m \in Names : session[m] = i => m = n

Sessions == \A n \in Names : session[n] # None => Owns(n, session[n])
Reports ==
  /\ \A k \in DOMAIN queue : queue[k].kind = "joined" => Owns(queue[k].name, queue[k].id)
  /\ \A k \in DOMAIN queue : queue[k].kind = "connect" => k = 1
NoConnect == \A k \in DOMAIN queue : queue[k].kind # "connect"
KnownUsers == NoConnect => \A n \in Names : users[n] # None => Owns(n, users[n]) /\ joins[n] > 0
Targets ==
  \A c \in Calls : call[c] # None =>
    /\ call[c].connection <= connections
    /\ call[c].connection = connections => Owns(call[c].name, call[c].id)

IInv == Types /\ Sessions /\ Reports /\ KnownUsers /\ Targets

USE NoneAssumption, NamesAssumption

LEMMA IInvInit == Init => IInv
<1> SUFFICES ASSUME Init PROVE IInv
  OBVIOUS
<1>1. Connect \in Report /\ Connect.kind = "connect"
  BY DEF Connect, Report
<1>2. queue \in Seq(Report) /\ DOMAIN queue = {1} /\ queue[1] = Connect
  BY <1>1 DEF Init
<1>3. Types
  BY <1>2 DEF Init, Types
<1>4. Sessions /\ Targets
  BY DEF Init, Sessions, Targets
<1>5. Reports
  BY <1>1, <1>2 DEF Reports
<1>6. KnownUsers
  BY DEF Init, KnownUsers
<1>7. QED
  BY <1>3, <1>4, <1>5, <1>6 DEF IInv

(* Reading a report leaves those behind it.                                *)
LEMMA TailOf ==
  ASSUME NEW S, NEW q \in Seq(S), q # <<>>
  PROVE  /\ Tail(q) \in Seq(S) /\ Head(q) \in S /\ Head(q) = q[1] /\ 1 \in DOMAIN q
         /\ \A k \in DOMAIN Tail(q) : k + 1 \in DOMAIN q /\ Tail(q)[k] = q[k + 1] /\ k + 1 # 1
  OBVIOUS

LEMMA AppendOf ==
  ASSUME NEW S, NEW q \in Seq(S), NEW e \in S
  PROVE  /\ Append(q, e) \in Seq(S)
         /\ \A k \in DOMAIN Append(q, e) :
              (k \in DOMAIN q /\ Append(q, e)[k] = q[k]) \/ (k = Len(q) + 1 /\ Append(q, e)[k] = e)
         /\ \A k \in DOMAIN q : k \in DOMAIN Append(q, e) /\ Append(q, e)[k] = q[k]
  OBVIOUS

LEMMA ReportKinds ==
  ASSUME NEW n \in Names, NEW i \in Nat
  PROVE  /\ Joined(n, i) \in Report /\ Joined(n, i).kind = "joined" /\ Joined(n, i).kind # "connect"
         /\ Joined(n, i).name = n /\ Joined(n, i).id = i
         /\ Left(n, i) \in Report /\ Left(n, i).kind # "joined" /\ Left(n, i).kind # "connect"
         /\ Left(n, i).kind = "left" /\ Left(n, i).name = n /\ Left(n, i).id = i
  BY DEF Joined, Left, Report

(* IDs that are in use stay so while a report is added or read.            *)
LEMMA Append1 ==
  ASSUME IInv, NEW e \in Report, e.kind # "connect", queue' = Append(queue, e),
         begun' \in Nat, begun <= begun',
         \A n \in Names : \A i \in Nat : Owns(n, i) => Owns(n, i)',
         e.kind = "joined" => Owns(e.name, e.id)'
  PROVE  /\ queue' \in Seq(Report) /\ Reports'
         /\ NoConnect' => NoConnect
<1>1. queue \in Seq(Report) /\ Reports
  BY DEF IInv, Types
<1>2. /\ queue' \in Seq(Report)
      /\ \A k \in DOMAIN queue' :
           (k \in DOMAIN queue /\ queue'[k] = queue[k]) \/ (k = Len(queue) + 1 /\ queue'[k] = e)
      /\ \A k \in DOMAIN queue : k \in DOMAIN queue' /\ queue'[k] = queue[k]
  BY <1>1, AppendOf
<1>3. \A k \in DOMAIN queue : queue[k].kind = "joined" => queue[k].name \in Names /\ queue[k].id \in Nat
  BY <1>1 DEF Report
<1>4. (\A k \in DOMAIN queue : queue[k].kind = "joined" => Owns(queue[k].name, queue[k].id))'
  BY <1>1, <1>2, <1>3 DEF Reports
<1>5. \A k \in DOMAIN queue' : queue'[k].kind = "connect" => k = 1
  BY <1>1, <1>2 DEF Reports
<1>6. NoConnect' => NoConnect
  BY <1>2 DEF NoConnect
<1>7. QED
  BY <1>2, <1>4, <1>5, <1>6 DEF Reports

LEMMA Tail1 ==
  ASSUME IInv, queue # <<>>, queue' = Tail(queue), UNCHANGED <<begun, session>>
  PROVE  /\ queue' \in Seq(Report) /\ Reports' /\ NoConnect'
         /\ Head(queue) \in Report
         /\ Head(queue).kind = "joined" => Owns(Head(queue).name, Head(queue).id)
         /\ Head(queue).kind # "connect" => NoConnect
<1>1. queue \in Seq(Report) /\ Reports
  BY DEF IInv, Types
<1>2. /\ queue' \in Seq(Report) /\ Head(queue) \in Report /\ Head(queue) = queue[1] /\ 1 \in DOMAIN queue
      /\ \A k \in DOMAIN queue' : k + 1 \in DOMAIN queue /\ queue'[k] = queue[k + 1] /\ k + 1 # 1
  BY <1>1, TailOf
<1>3. \A n, i : Owns(n, i)' = Owns(n, i)
  BY DEF Owns
<1>4. Reports'
  BY <1>1, <1>2, <1>3 DEF Reports
<1>5. NoConnect'
  BY <1>1, <1>2 DEF Reports, NoConnect
<1>6. Head(queue).kind # "connect" => NoConnect
  BY <1>1, <1>2 DEF Reports, NoConnect
<1>7. QED
  BY <1>1, <1>2, <1>4, <1>5, <1>6 DEF Reports

(* A session that is new takes no ID of another.                           *)
LEMMA OwnsGrows ==
  ASSUME IInv, NEW n \in Names, begun' = begun + 1,
         session' = [session EXCEPT ![n] = begun']
  PROVE  /\ \A m \in Names : \A i \in Nat : Owns(m, i) => Owns(m, i)'
         /\ Owns(n, begun)' /\ Sessions' /\ begun' \in Nat /\ begun <= begun'
<1>1. begun \in Nat /\ session \in [Names -> Nat \cup {None}] /\ Sessions
  BY DEF IInv, Types
<1>2. \A m \in Names : session[m] # begun + 1
  BY <1>1 DEF Sessions, Owns
<1>3. \A m \in Names : \A i \in Nat : Owns(m, i) => Owns(m, i)'
  BY <1>1 DEF Owns
<1>4. Owns(n, begun)'
  BY <1>1, <1>2 DEF Owns
<1>5. Sessions'
  BY <1>1, <1>3, <1>4 DEF Sessions
<1>6. QED
  BY <1>1, <1>3, <1>4, <1>5

(* Nor does the end of one.                                                *)
LEMMA OwnsShrinks ==
  ASSUME IInv, NEW n \in Names, session[n] # None, begun' = begun, Ends(n)
  PROVE  /\ \A m \in Names : \A i \in Nat : Owns(m, i) => Owns(m, i)'
         /\ session' \in [Names -> Nat \cup {None}] /\ Sessions'
         /\ queue' \in Seq(Report) /\ Reports' /\ (NoConnect' => NoConnect)
<1>1. begun \in Nat /\ session \in [Names -> Nat \cup {None}] /\ Sessions
  BY DEF IInv, Types
<1>2. session' = [session EXCEPT ![n] = None] /\ queue' = Append(queue, Left(n, session[n]))
  BY DEF Ends
<1>3. \A m \in Names : \A i \in Nat : Owns(m, i) => Owns(m, i)'
  BY <1>1, <1>2 DEF Owns
<1>4. session' \in [Names -> Nat \cup {None}] /\ Sessions'
  BY <1>1, <1>2, <1>3 DEF Sessions
<1>5. PICK i \in Nat : i = session[n]
  BY <1>1
<1>6. PICK e \in Report : e = Left(n, i) /\ e.kind # "connect" /\ e.kind # "joined"
  BY ReportKinds
<1>7. queue' \in Seq(Report) /\ Reports' /\ (NoConnect' => NoConnect)
  BY <1>1, <1>2, <1>3, <1>5, <1>6, Append1
<1>8. QED
  BY <1>3, <1>4, <1>7

-----------------------------------------------------------------------------

LEMMA TwoOf ==
  ASSUME NEW S, NEW q \in Seq(S), NEW d \in S, NEW e \in S
  PROVE  /\ q \o <<d, e>> = Append(Append(q, d), e)
         /\ q \o <<d, e>> \in Seq(S) /\ DOMAIN (q \o <<d, e>>) = DOMAIN q \cup {Len(q) + 1, Len(q) + 2}
         /\ (q \o <<d, e>>)[Len(q) + 1] = d /\ (q \o <<d, e>>)[Len(q) + 2] = e
         /\ Len(q) + 1 \in Nat /\ Len(q) + 1 \notin DOMAIN q /\ Len(q) + 2 \notin DOMAIN q
         /\ \A k \in DOMAIN q : (q \o <<d, e>>)[k] = q[k] /\ k < Len(q) + 1
  OBVIOUS

(* The reports of a session that replaces another, in either order.        *)
LEMMA AppendTwo ==
  ASSUME IInv, NEW d \in Report, NEW e \in Report, d.kind # "connect", e.kind # "connect",
         queue' = queue \o <<d, e>>,
         \A n \in Names : \A i \in Nat : Owns(n, i) => Owns(n, i)',
         d.kind = "joined" => Owns(d.name, d.id)', e.kind = "joined" => Owns(e.name, e.id)'
  PROVE  queue' \in Seq(Report) /\ Reports' /\ (NoConnect' => NoConnect)
<1>1. queue \in Seq(Report) /\ Reports
  BY DEF IInv, Types
<1> DEFINE r == Append(queue, d)
<1>2. /\ r \in Seq(Report)
      /\ \A k \in DOMAIN r :
           (k \in DOMAIN queue /\ r[k] = queue[k]) \/ (k = Len(queue) + 1 /\ r[k] = d)
      /\ \A k \in DOMAIN queue : k \in DOMAIN r /\ r[k] = queue[k]
  BY <1>1, AppendOf
<1>3. queue' = Append(r, e)
  BY <1>1, TwoOf
<1> HIDE DEF r
<1>4. /\ queue' \in Seq(Report)
      /\ \A k \in DOMAIN queue' :
           (k \in DOMAIN r /\ queue'[k] = r[k]) \/ (k = Len(r) + 1 /\ queue'[k] = e)
      /\ \A k \in DOMAIN r : k \in DOMAIN queue' /\ queue'[k] = r[k]
  <2>1. /\ Append(r, e) \in Seq(Report)
        /\ \A k \in DOMAIN Append(r, e) :
             (k \in DOMAIN r /\ Append(r, e)[k] = r[k]) \/ (k = Len(r) + 1 /\ Append(r, e)[k] = e)
        /\ \A k \in DOMAIN r : k \in DOMAIN Append(r, e) /\ Append(r, e)[k] = r[k]
    BY <1>2, AppendOf
  <2>2. QED
    BY <2>1, <1>3
<1>5. \A k \in DOMAIN queue : queue[k].kind = "joined" => queue[k].name \in Names /\ queue[k].id \in Nat
  BY <1>1 DEF Report
<1>6. (\A k \in DOMAIN queue : queue[k].kind = "joined" => Owns(queue[k].name, queue[k].id))'
  BY <1>1, <1>2, <1>4, <1>5 DEF Reports
<1>7. \A k \in DOMAIN queue' : queue'[k].kind = "connect" => k = 1
  BY <1>1, <1>2, <1>4 DEF Reports
<1>8. NoConnect' => NoConnect
  BY <1>2, <1>4 DEF NoConnect
<1>9. QED
  BY <1>4, <1>6, <1>7, <1>8 DEF Reports

(* What is known and looked up stays the user's while IDs stay.            *)
LEMMA KnownStay ==
  ASSUME IInv, UNCHANGED <<users, joins>>, connections' = connections,
         \A n \in Names : \A i \in Nat : Owns(n, i) => Owns(n, i)',
         NoConnect' => NoConnect,
         \A c \in Calls : call'[c] \in {call[c], None}
  PROVE  KnownUsers' /\ Targets'
<1>1. /\ users \in [Names -> Nat \cup {None}] /\ KnownUsers
      /\ call \in [Calls -> Target \cup {None}] /\ Targets
  BY DEF IInv, Types
<1>2. KnownUsers'
  BY <1>1 DEF KnownUsers
<1>3. \A c \in Calls : call[c] # None => call[c].name \in Names /\ call[c].id \in Nat
  BY <1>1 DEF Target
<1>4. Targets'
  BY <1>1, <1>3 DEF Targets
<1>5. QED
  BY <1>2, <1>4

LEMMA EntersStep ==
  ASSUME IInv, NEW n \in Names, UserEnters(n)
  PROVE  IInv'
<1>1. Types /\ begun \in Nat /\ session \in [Names -> Nat \cup {None}]
  BY DEF IInv, Types
<1>2. /\ begun' = begun + 1 /\ session' = [session EXCEPT ![n] = begun']
      /\ UNCHANGED <<connections, users, call, joins>>
  BY DEF UserEnters
<1>3. /\ \A m \in Names : \A i \in Nat : Owns(m, i) => Owns(m, i)'
      /\ Owns(n, begun)' /\ Sessions' /\ begun' \in Nat /\ begun <= begun'
  BY <1>2, OwnsGrows
<1>4. PICK i \in Nat : i = begun'
  BY <1>3
<1>5. PICK e \in Report : /\ e = Joined(n, i) /\ e.kind = "joined" /\ e.kind # "connect"
                          /\ e.name = n /\ e.id = i
  BY ReportKinds
<1>6. e.kind = "joined" => Owns(e.name, e.id)'
  BY <1>3, <1>4, <1>5 DEF Owns
<1>7. queue' \in Seq(Report) /\ Reports' /\ (NoConnect' => NoConnect)
  <2>1. CASE session[n] = None
    <3>1. queue' = Append(queue, e)
      BY <2>1, <1>4, <1>5 DEF UserEnters
    <3>2. QED
      BY <3>1, <1>3, <1>5, <1>6, Append1
  <2>2. CASE session[n] # None
    <3>1. PICK j \in Nat : j = session[n]
      BY <1>1, <2>2
    <3>2. PICK d \in Report : d = Left(n, j) /\ d.kind # "connect" /\ d.kind # "joined"
      BY ReportKinds
    <3>3. queue' = queue \o <<d, e>> \/ queue' = queue \o <<e, d>>
      BY <2>2, <1>4, <1>5, <3>1, <3>2 DEF UserEnters
    <3>4. CASE queue' = queue \o <<d, e>>
      BY <3>2, <3>4, <1>3, <1>5, <1>6, AppendTwo
    <3>5. CASE queue' = queue \o <<e, d>>
      BY <3>2, <3>5, <1>3, <1>5, <1>6, AppendTwo
    <3>6. QED
      BY <3>3, <3>4, <3>5
  <2>3. QED
    BY <2>1, <2>2
<1>8. Types'
  BY <1>1, <1>2, <1>3, <1>7 DEF Types
<1>9. KnownUsers' /\ Targets'
  BY <1>2, <1>3, <1>7, KnownStay
<1>10. QED
  BY <1>3, <1>7, <1>8, <1>9 DEF IInv

LEMMA EndsStep ==
  ASSUME IInv, NEW n \in Names, session[n] # None, Ends(n),
         UNCHANGED <<begun, connections, users, joins>>,
         call' \in [Calls -> Target \cup {None}], \A c \in Calls : call'[c] \in {call[c], None}
  PROVE  IInv'
<1>1. /\ \A m \in Names : \A i \in Nat : Owns(m, i) => Owns(m, i)'
      /\ session' \in [Names -> Nat \cup {None}] /\ Sessions'
      /\ queue' \in Seq(Report) /\ Reports' /\ (NoConnect' => NoConnect)
  BY OwnsShrinks
<1>2. Types'
  BY <1>1 DEF IInv, Types
<1>3. KnownUsers' /\ Targets'
  BY <1>1, KnownStay
<1>4. QED
  BY <1>1, <1>2, <1>3 DEF IInv

LEMMA FuncOf ==
  ASSUME NEW S, NEW n \in Nat, NEW f \in [1..n -> S]
  PROVE  f \in Seq(S) /\ Len(f) = n /\ DOMAIN f = 1..n
  OBVIOUS

LEMMA ConsOf ==
  ASSUME NEW S, NEW q \in Seq(S), NEW e \in S
  PROVE  /\ <<e>> \o q \in Seq(S) /\ 1 \in DOMAIN (<<e>> \o q) /\ (<<e>> \o q)[1] = e
         /\ DOMAIN (<<e>> \o q) = 1..(Len(q) + 1)
         /\ \A k \in DOMAIN (<<e>> \o q) : k # 1 => k - 1 \in 1..Len(q) /\ (<<e>> \o q)[k] = q[k - 1]
  OBVIOUS

LEMMA ReconnectStep ==
  ASSUME IInv, Reconnect
  PROVE  IInv'
<1> DEFINE present == {n \in Names : session[n] # None}
           size == Cardinality(present)
<1>1. IInv /\ Types
  BY DEF IInv
<1>2. size \in Nat
  BY FS_Subset, FS_CardinalityType
<1>3. PICK id \in Bijection(present, 1..size) :
        /\ begun' = size
        /\ session' = [n \in Names |-> IF n \in present THEN id[n] ELSE None]
        /\ queue' = <<Connect>> \o [i \in 1..begun' |-> Joined(CHOOSE n \in present : id[n] = i, i)]
  BY DEF Reconnect
<1>4. /\ id \in [present -> 1..size]
      /\ \A m, n \in present : id[m] = id[n] => m = n
      /\ \A i \in 1..size : \E n \in present : id[n] = i
  BY <1>3, Zenon DEF Bijection, Injection, Surjection, IsInjective
<1>5. connections' = connections + 1 /\ joins' = [n \in Names |-> 0] /\ UNCHANGED <<users, call>>
  BY DEF Reconnect
<1> DEFINE name(i) == CHOOSE n \in present : id[n] = i
           rest == [i \in 1..size |-> Joined(name(i), i)]
<1>6. \A i \in 1..size : name(i) \in present /\ id[name(i)] = i
  BY <1>4
<1>7. session' \in [Names -> Nat \cup {None}] /\ \A n \in Names : session'[n] = IF n \in present THEN id[n] ELSE None
  BY <1>2, <1>3, <1>4
<1>8. Sessions'
  <2>1. \A n \in Names : session'[n] # None => n \in present /\ session'[n] = id[n]
    BY <1>7
  <2>2. QED
    BY <2>1, <1>2, <1>3, <1>4 DEF Sessions, Owns
<1>9. \A i \in 1..size : /\ name(i) \in Names /\ rest[i] \in Report /\ rest[i].kind = "joined"
                         /\ rest[i].name = name(i) /\ rest[i].id = i
  <2>1. ASSUME NEW i \in 1..size
        PROVE  /\ name(i) \in Names /\ rest[i] \in Report /\ rest[i].kind = "joined"
               /\ rest[i].name = name(i) /\ rest[i].id = i
    <3>1. name(i) \in Names /\ i \in Nat /\ rest[i] = Joined(name(i), i)
      BY <1>2, <1>6
    <3>2. QED
      BY <3>1, ReportKinds
  <2>2. QED
    BY <2>1
<1>10. rest \in Seq(Report) /\ Len(rest) = size /\ DOMAIN rest = 1..size
  <2>1. rest \in [1..size -> Report]
    BY <1>9
  <2>2. QED
    BY <2>1, <1>2, FuncOf, Zenon
<1>11. Connect \in Report /\ Connect.kind = "connect"
  BY DEF Connect, Report
<1>12. queue' = <<Connect>> \o rest
  BY <1>3
<1> HIDE DEF rest, name
<1>13. /\ <<Connect>> \o rest \in Seq(Report) /\ 1 \in DOMAIN (<<Connect>> \o rest)
       /\ (<<Connect>> \o rest)[1] = Connect
       /\ \A k \in DOMAIN (<<Connect>> \o rest) :
            k # 1 => k - 1 \in 1..Len(rest) /\ (<<Connect>> \o rest)[k] = rest[k - 1]
  <2>1. PICK c \in Report : c = Connect
    BY <1>11
  <2>2. PICK r \in Seq(Report) : r = rest
    BY <1>10
  <2>3. /\ <<c>> \o r \in Seq(Report) /\ 1 \in DOMAIN (<<c>> \o r) /\ (<<c>> \o r)[1] = c
        /\ \A k \in DOMAIN (<<c>> \o r) : k # 1 => k - 1 \in 1..Len(r) /\ (<<c>> \o r)[k] = r[k - 1]
    BY ConsOf
  <2>4. QED
    BY <2>1, <2>2, <2>3, Zenon
<1>14. /\ queue' \in Seq(Report) /\ 1 \in DOMAIN queue' /\ queue'[1] = Connect
       /\ \A k \in DOMAIN queue' : k # 1 => k - 1 \in 1..size /\ queue'[k] = rest[k - 1]
  BY <1>10, <1>12, <1>13, Zenon
<1>15. Reports'
  <2>1. \A k \in DOMAIN queue' : queue'[k].kind = "connect" => k = 1
    BY <1>9, <1>14
  <2>2. \A i \in 1..size : \A m \in Names : session'[m] = i => m = name(i)
    BY <1>4, <1>6, <1>7
  <2>3. (\A k \in DOMAIN queue : queue[k].kind = "joined" => Owns(queue[k].name, queue[k].id))'
    <3>1. SUFFICES ASSUME NEW k \in DOMAIN queue', queue'[k].kind = "joined"
                   PROVE  queue'[k].id <= begun' /\ \A m \in Names : session'[m] = queue'[k].id => m = queue'[k].name
      BY <3>1 DEF Owns
    <3>2. k # 1
      BY <3>1, <1>11, <1>14
    <3>3. k - 1 \in 1..size /\ queue'[k].name = name(k - 1) /\ queue'[k].id = k - 1
      BY <3>2, <1>9, <1>14
    <3>4. QED
      BY <3>3, <2>2, <1>2, <1>3
  <2>4. QED
    BY <2>1, <2>3 DEF Reports
<1>16. KnownUsers'
  BY <1>11, <1>14 DEF KnownUsers, NoConnect
<1>17. Targets'
  BY <1>1, <1>5 DEF IInv, Types, Targets, Target
<1>18. Types'
  BY <1>1, <1>2, <1>3, <1>5, <1>7, <1>14 DEF Types
<1>19. QED
  BY <1>8, <1>15, <1>16, <1>17, <1>18 DEF IInv

(* The gateway reads a report.                                             *)
LEMMA ReadStep ==
  ASSUME IInv, onConnectEvent \/ onUserJoined \/ onUserLeft
  PROVE  IInv'
<1> DEFINE u == Head(queue)
<1>1. queue # <<>> /\ queue' = Tail(queue) /\ UNCHANGED <<session, begun, connections, call>>
  BY DEF onConnectEvent, onUserJoined, onUserLeft, Reads, server
<1>2. /\ queue' \in Seq(Report) /\ Reports' /\ NoConnect' /\ u \in Report
      /\ u.kind = "joined" => Owns(u.name, u.id)
      /\ u.kind # "connect" => NoConnect
  BY <1>1, Tail1
<1>3. \A n, i : Owns(n, i)' = Owns(n, i)
  BY <1>1 DEF Owns
<1>4. Types /\ Sessions /\ KnownUsers /\ Targets
  BY DEF IInv
<1>5. Sessions' /\ Targets'
  BY <1>1, <1>3, <1>4 DEF Sessions, Targets
<1>6. CASE onConnectEvent
  <2>1. \A n \in Names : users'[n] = None
    BY <1>6 DEF onConnectEvent
  <2>2. Types'
    BY <1>1, <1>2, <1>4, <1>6 DEF Types, onConnectEvent
  <2>3. QED
    BY <2>1, <2>2, <1>2, <1>5 DEF IInv, KnownUsers
<1>7. CASE onUserJoined
  <2>1. /\ u.kind = "joined" /\ u.name \in Names /\ u.id \in Nat
        /\ users' = [users EXCEPT ![u.name] = u.id]
        /\ joins' = [joins EXCEPT ![u.name] = @ + 1]
    BY <1>2, <1>7 DEF onUserJoined, Reads, Report
  <2>2. Types'
    BY <2>1, <1>1, <1>2, <1>4 DEF Types
  <2>3. \A n \in Names : users'[n] # None => Owns(n, users'[n]) /\ joins'[n] > 0
    BY <2>1, <1>2, <1>4 DEF Types, KnownUsers
  <2>4. KnownUsers'
    BY <2>3, <1>1 DEF KnownUsers, Owns
  <2>5. QED
    BY <2>2, <2>4, <1>2, <1>5 DEF IInv
<1>8. CASE onUserLeft
  <2>1. u.kind = "left" /\ u.name \in Names /\ u.id \in Nat /\ NoConnect
    BY <1>2, <1>8 DEF onUserLeft, Reads, Report
  <2>2. \/ UNCHANGED <<users, joins>>
        \/ /\ users[u.name] = u.id
           /\ users' = [users EXCEPT ![u.name] = None]
           /\ joins' = [joins EXCEPT ![u.name] = @ - 1]
    BY <1>8 DEF onUserLeft
  <2>3. users[u.name] = u.id => joins[u.name] > 0
    <3>1. users[u.name] = u.id => users[u.name] # None
      BY <2>1
    <3>2. QED
      BY <3>1, <2>1, <1>4 DEF KnownUsers
  <2>4. Types'
    <3>1. users' \in [Names -> Nat \cup {None}] /\ joins' \in [Names -> Nat]
      <4>1. CASE UNCHANGED <<users, joins>>
        BY <4>1, <1>4 DEF Types
      <4>2. CASE users[u.name] = u.id /\ joins' = [joins EXCEPT ![u.name] = @ - 1]
                                     /\ users' = [users EXCEPT ![u.name] = None]
        <5>1. joins[u.name] \in Nat /\ joins[u.name] > 0 /\ joins[u.name] - 1 \in Nat
          BY <4>2, <2>1, <2>3, <1>4 DEF Types
        <5>2. QED
          BY <4>2, <5>1, <1>4 DEF Types
      <4>3. QED
        BY <2>2, <4>1, <4>2
    <3>2. QED
      BY <3>1, <1>1, <1>2, <1>4 DEF Types
  <2>5. \A n \in Names : users'[n] # None => Owns(n, users'[n]) /\ joins'[n] > 0
    BY <2>1, <2>2, <1>4 DEF Types, KnownUsers
  <2>6. KnownUsers'
    BY <2>5, <1>1 DEF KnownUsers, Owns
  <2>7. QED
    BY <2>4, <2>6, <1>2, <1>5 DEF IInv
<1>9. QED
  BY <1>6, <1>7, <1>8

(* The reports that were read are of this connection if its first was.     *)
LEMMA KnownMeans ==
  ASSUME IInv
  PROVE  Known \in Nat /\ Known <= connections /\ (Known = connections => NoConnect)
<1>1. connections \in Nat /\ connections > 0
  BY DEF IInv, Types
<1>2. QED
  BY <1>1 DEF Known, NoConnect

LEMMA AimStep ==
  ASSUME IInv, NEW c \in Calls, NEW n \in Names, Aim(c, n)
  PROVE  IInv'
<1>1. Types /\ Sessions /\ Reports /\ KnownUsers /\ Targets
  BY DEF IInv
<1>2. /\ UNCHANGED <<session, begun, connections, queue, users, joins>>
      /\ users[n] # None
      /\ call' = [call EXCEPT ![c] = [name |-> n, id |-> users[n], connection |-> Known]]
  BY DEF Aim, server
<1>3. users[n] \in Nat /\ Known \in Nat /\ Known <= connections /\ (Known = connections => Owns(n, users[n]))
  BY <1>1, <1>2, KnownMeans DEF Types, KnownUsers
<1>4. Types'
  BY <1>1, <1>2, <1>3 DEF Types, Target
<1>5. Sessions' /\ Reports' /\ KnownUsers'
  BY <1>1, <1>2 DEF Sessions, Reports, KnownUsers, NoConnect, Owns
<1>6. Targets'
  BY <1>1, <1>2, <1>3 DEF Types, Targets, Target, Owns
<1>7. QED
  BY <1>4, <1>5, <1>6 DEF IInv

LEMMA StrikeStep ==
  ASSUME IInv, NEW c \in Calls, Strike(c)
  PROVE  IInv'
<1>1. /\ UNCHANGED <<begun, connections, users, joins>>
      /\ call' = [call EXCEPT ![c] = None]
  BY DEF Strike
<1>2. call' \in [Calls -> Target \cup {None}] /\ \A d \in Calls : call'[d] \in {call[d], None}
  BY <1>1 DEF IInv, Types
<1>3. CASE UNCHANGED <<session, queue>>
  <2>1. Types' /\ Sessions' /\ Reports' /\ KnownUsers'
    BY <1>1, <1>2, <1>3 DEF IInv, Types, Sessions, Reports, KnownUsers, NoConnect, Owns
  <2>2. Targets'
    BY <1>1, <1>2, <1>3 DEF IInv, Targets, Owns
  <2>3. QED
    BY <2>1, <2>2 DEF IInv
<1>4. CASE \E n \in Struck(c) : Ends(n)
  <2>1. PICK n \in Names : session[n] = call[c].id /\ Ends(n)
    BY <1>4 DEF Struck
  <2>2. call[c] # None /\ call[c].id \in Nat
    BY DEF Strike, IInv, Types, Target
  <2>3. session[n] # None
    BY <2>1, <2>2
  <2>4. QED
    BY <2>1, <2>3, <1>1, <1>2, EndsStep
<1>5. QED
  BY <1>3, <1>4 DEF Strike

LEMMA IInvStep == IInv /\ [Next]_vars => IInv'
<1> SUFFICES ASSUME IInv, [Next]_vars PROVE IInv'
  OBVIOUS
<1>1. ASSUME NEW n \in Names, UserEnters(n) PROVE IInv'
  BY <1>1, EntersStep
<1>2. ASSUME NEW n \in Names, UserLeaves(n) PROVE IInv'
  <2>1. session[n] # None /\ Ends(n) /\ UNCHANGED <<begun, connections, users, call, joins>>
    BY <1>2 DEF UserLeaves
  <2>2. call' \in [Calls -> Target \cup {None}] /\ \A c \in Calls : call'[c] \in {call[c], None}
    BY <2>1 DEF IInv, Types
  <2>3. QED
    BY <2>1, <2>2, EndsStep
<1>3. CASE Reconnect
  BY <1>3, ReconnectStep
<1>4. CASE onConnectEvent \/ onUserJoined \/ onUserLeft
  BY <1>4, ReadStep
<1>5. ASSUME NEW c \in Calls, NEW n \in Names, Aim(c, n) PROVE IInv'
  BY <1>5, AimStep
<1>6. ASSUME NEW c \in Calls, Strike(c) PROVE IInv'
  BY <1>6, StrikeStep
<1>7. CASE UNCHANGED vars
  <2>1. \A n, i : Owns(n, i)' = Owns(n, i)
    BY <1>7 DEF vars, Owns
  <2>2. QED
    BY <1>7, <2>1 DEF vars, IInv, Types, Sessions, Reports, KnownUsers, NoConnect, Targets
<1>8. QED
  BY <1>1, <1>2, <1>3, <1>4, <1>5, <1>6, <1>7, Zenon DEF Next

LEMMA Inductive == Spec => []IInv
  BY IInvInit, IInvStep, PTL DEF Spec

(* A whisper, kick or ban of capi.go that is sent on the connection its ID *)
(* was read on reaches the user it was meant for, or nobody.               *)
THEOREM OthersAreSpared == Spec => []OthersSpared
<1>1. IInv => OthersSpared
  BY DEF IInv, Targets, Owns, OthersSpared, Struck
<1>2. QED
  BY <1>1, Inductive, PTL

(* Whoever is in Gateway.users has been announced by a Join since the last *)
(* Clear, however sessions and connections follow one another.             *)
THEOREM KnownAreListed == Spec => []PresentAreListed
<1>1. IInv => PresentAreListed
  BY DEF IInv, KnownUsers, NoConnect, PresentAreListed
<1>2. QED
  BY <1>1, Inductive, PTL

-----------------------------------------------------------------------------
(* What has been reported and not read leads from users to the sessions in *)
(* the channel.  An ID that is no session's is on its way out: behind it   *)
(* comes the report that its session ended, or that another replaced it.   *)

JoinedAt(k, n) == queue[k].kind = "joined" /\ queue[k].name = n
Outdated(k, n, i) == JoinedAt(k, n) \/ (queue[k].kind = "left" /\ queue[k].name = n /\ queue[k].id = i)

OldIds ==
  \A k \in DOMAIN queue : queue[k].kind = "left" =>
    queue[k].id <= begun /\ queue[k].id # session[queue[k].name]
OldReports ==
  \A k \in DOMAIN queue : \A n \in Names : JoinedAt(k, n) /\ queue[k].id # session[n] =>
    \E l \in DOMAIN queue : l > k /\ Outdated(l, n, queue[k].id)
OldUsers ==
  NoConnect => \A n \in Names : users[n] # None /\ users[n] # session[n] =>
    \E l \in DOMAIN queue : Outdated(l, n, users[n])

(* A session in the channel is known, or its report is the last of joins.  *)
There(n) == NoConnect /\ users[n] = session[n] /\ \A k \in DOMAIN queue : ~JoinedAt(k, n)
Coming(n) ==
  \E k \in DOMAIN queue : /\ JoinedAt(k, n) /\ queue[k].id = session[n]
                          /\ \A l \in DOMAIN queue : JoinedAt(l, n) => l <= k
Arrivals == \A n \in Names : session[n] # None => There(n) \/ Coming(n)

SInv == OldIds /\ OldReports /\ OldUsers /\ Arrivals

LEMMA SInvInit == Init => SInv
<1> SUFFICES ASSUME Init PROVE SInv
  OBVIOUS
<1>1. DOMAIN queue = {1} /\ queue[1].kind = "connect"
  BY DEF Init, Connect
<1>2. QED
  BY <1>1 DEF Init, SInv, OldIds, OldReports, OldUsers, Arrivals, JoinedAt, NoConnect

(* The reports of a change in the channel, behind those there are.         *)
Reported(n, v) ==
  /\ session' = [session EXCEPT ![n] = v] /\ session[n] # v
  /\ users' = users /\ begun' \in Nat /\ begun <= begun' /\ (v # None => v > begun)
  /\ queue' \in Seq(Report)
  /\ \A k \in DOMAIN queue : k \in DOMAIN queue' /\ queue'[k] = queue[k]
  /\ \A k \in DOMAIN queue' \ DOMAIN queue :
       /\ queue'[k].kind # "connect" /\ queue'[k].name = n
       /\ \A j \in DOMAIN queue : j < k
       /\ queue'[k].kind = "joined" => queue'[k].id = v
       /\ queue'[k].kind = "left" => queue'[k].id = session[n]
  /\ session[n] # None => \E k \in DOMAIN queue' \ DOMAIN queue : queue'[k].kind = "left"
  /\ v # None => \E k \in DOMAIN queue' \ DOMAIN queue :
       queue'[k].kind = "joined" /\ \A l \in DOMAIN queue' \ DOMAIN queue : queue'[l].kind = "joined" => l <= k

LEMMA ReportedKeeps ==
  ASSUME IInv, SInv, NEW n \in Names, NEW v \in Nat \cup {None}, Reported(n, v)
  PROVE  SInv'
<1> DEFINE old == DOMAIN queue
           new == DOMAIN queue' \ DOMAIN queue
<1>1. /\ begun \in Nat /\ session \in [Names -> Nat \cup {None}] /\ users \in [Names -> Nat \cup {None}]
      /\ queue \in Seq(Report) /\ Sessions
  BY DEF IInv, Types
<1>2. \A m \in Names : session'[m] = IF m = n THEN v ELSE session[m]
  BY <1>1 DEF Reported
<1>3. \A k \in DOMAIN queue' : queue'[k] \in Report /\ k \in Nat
  BY DEF Reported
<1>4. \A k \in DOMAIN queue' : queue'[k].kind # "connect" => queue'[k].name \in Names /\ queue'[k].id \in Nat
  BY <1>3 DEF Report
<1>5. old \subseteq DOMAIN queue' /\ \A k \in old : queue'[k] = queue[k]
  BY DEF Reported
<1>6. session[n] # None => session[n] \in Nat /\ session[n] <= begun
  BY <1>1 DEF Sessions, Owns
<1>7. NoConnect' => NoConnect
  BY <1>5 DEF NoConnect
<1>8. session[n] # None => \E k \in new : /\ queue'[k].kind = "left" /\ queue'[k].name = n
                                         /\ queue'[k].id = session[n] /\ \A j \in old : j < k
  BY DEF Reported
<1>9. OldIds'
  <2>1. ASSUME NEW k \in DOMAIN queue', queue'[k].kind = "left"
        PROVE  queue'[k].id <= begun' /\ queue'[k].id # session'[queue'[k].name]
    <3>1. queue'[k].id \in Nat /\ queue'[k].name \in Names /\ begun' \in Nat /\ begun <= begun'
      BY <2>1, <1>4 DEF Reported
    <3>2. CASE k \in old
      <4>1. queue'[k].id <= begun /\ queue'[k].id # session[queue'[k].name]
        BY <3>2, <2>1, <1>5 DEF SInv, OldIds
      <4>2. queue'[k].id # v
        BY <4>1, <3>1, <1>1, NoneAssumption DEF Reported
      <4>3. QED
        BY <4>1, <4>2, <3>1, <1>1, <1>2
    <3>3. CASE k \in new
      <4>1. queue'[k].name = n /\ queue'[k].id = session[n] /\ session[n] # v
        BY <3>3, <2>1 DEF Reported
      <4>2. QED
        BY <4>1, <3>1, <1>1, <1>2, <1>6, NoneAssumption
    <3>4. QED
      BY <3>2, <3>3
  <2>2. QED
    BY <2>1 DEF OldIds
<1>10. ASSUME NEW m \in Names, NEW i \in Nat, i # session'[m], i = session[m]
       PROVE  \E l \in new : Outdated(l, m, i)' /\ \A j \in old : j < l
  <2>1. m = n /\ session[n] # None
    BY <1>10, <1>2, NoneAssumption
  <2>2. QED
    BY <2>1, <1>8, <1>10 DEF Outdated
<1>11. \A l \in old : \A m, i : Outdated(l, m, i)' = Outdated(l, m, i) /\ JoinedAt(l, m)' = JoinedAt(l, m)
  BY <1>5 DEF Outdated, JoinedAt
<1>12. OldReports'
  <2>1. ASSUME NEW k \in DOMAIN queue', NEW m \in Names, JoinedAt(k, m)', queue'[k].id # session'[m]
        PROVE  \E l \in DOMAIN queue' : l > k /\ Outdated(l, m, queue[k].id)'
    <3>1. queue'[k].id \in Nat /\ queue'[k].name = m /\ queue'[k].kind = "joined" /\ k \in Nat
      BY <2>1, <1>3, <1>4 DEF JoinedAt
    <3>2. k \in old
      <4>1. k \in new => m = n /\ queue'[k].id = v
        BY <3>1 DEF Reported
      <4>2. QED
        BY <4>1, <2>1, <1>2
    <3>3. CASE queue'[k].id # session[m]
      <4>1. PICK l \in old : l > k /\ Outdated(l, m, queue[k].id)
        BY <3>2, <3>3, <2>1, <1>5, <1>11 DEF SInv, OldReports
      <4>2. QED
        BY <4>1, <3>2, <1>5, <1>11
    <3>4. CASE queue'[k].id = session[m]
      <4>1. PICK l \in new : Outdated(l, m, queue[k].id)' /\ \A j \in old : j < l
        BY <3>1, <3>4, <2>1, <1>10
      <4>2. l > k
        BY <4>1, <3>2
      <4>3. QED
        BY <4>1, <4>2
    <3>5. QED
      BY <3>3, <3>4
  <2>2. QED
    BY <2>1 DEF OldReports, JoinedAt
<1>13. OldUsers'
  <2>1. ASSUME NoConnect', NEW m \in Names, users'[m] # None, users'[m] # session'[m]
        PROVE  \E l \in DOMAIN queue' : Outdated(l, m, users[m])'
    <3>1. users'[m] = users[m] /\ users[m] \in Nat /\ NoConnect
      BY <2>1, <1>1, <1>7 DEF Reported
    <3>2. CASE users[m] # session[m]
      <4>1. PICK l \in old : Outdated(l, m, users[m])
        BY <3>1, <3>2, <2>1 DEF SInv, OldUsers
      <4>2. Outdated(l, m, users[m])'
        BY <4>1, <3>1, <1>11
      <4>3. QED
        BY <4>2, <1>5, <3>1
    <3>3. CASE users[m] = session[m]
      <4>1. PICK l \in new : Outdated(l, m, users[m])'
        BY <3>1, <3>3, <2>1, <1>10
      <4>2. QED
        BY <4>1, <3>1
    <3>4. QED
      BY <3>2, <3>3
  <2>2. QED
    BY <2>1 DEF OldUsers, Outdated, JoinedAt
<1>14. Arrivals'
  <2>1. ASSUME NEW m \in Names, session'[m] # None PROVE There(m)' \/ Coming(m)'
    <3>1. CASE m = n
      <4>1. session'[n] = v /\ v # None
        BY <3>1, <2>1, <1>2
      <4>2. PICK k \in new : /\ queue'[k].kind = "joined"
                             /\ \A l \in new : queue'[l].kind = "joined" => l <= k
        BY <4>1 DEF Reported
      <4>3. queue'[k].name = n /\ queue'[k].id = v /\ \A j \in old : j < k
        BY <4>2 DEF Reported
      <4>4. \A l \in DOMAIN queue' : JoinedAt(l, n)' => l <= k
        <5>1. ASSUME NEW l \in DOMAIN queue', JoinedAt(l, n)' PROVE l <= k
          <6>1. l \in Nat /\ k \in Nat
            BY <1>3
          <6>2. CASE l \in old
            BY <6>1, <6>2, <4>3
          <6>3. CASE l \in new
            BY <6>3, <5>1, <4>2 DEF JoinedAt
          <6>4. QED
            BY <6>2, <6>3
        <5>2. QED
          BY <5>1
      <4>5. QED
        BY <3>1, <4>1, <4>2, <4>3, <4>4 DEF Coming, JoinedAt
    <3>2. CASE m # n
      <4>1. session'[m] = session[m] /\ users'[m] = users[m] /\ (There(m) \/ Coming(m))
        BY <3>2, <2>1, <1>2 DEF Reported, SInv, Arrivals
      <4>2. \A l \in new : ~JoinedAt(l, m)' /\ queue'[l].kind # "connect"
        BY <3>2 DEF Reported, JoinedAt
      <4>3. CASE There(m)
        <5>1. NoConnect'
          BY <4>2, <4>3, <1>5 DEF There, NoConnect
        <5>2. QED
          BY <5>1, <4>1, <4>2, <4>3, <1>5, <1>11 DEF There, JoinedAt
      <4>4. CASE Coming(m)
        <5>1. PICK k \in old : /\ JoinedAt(k, m) /\ queue[k].id = session[m]
                               /\ \A l \in old : JoinedAt(l, m) => l <= k
          BY <4>4 DEF Coming
        <5>2. JoinedAt(k, m)' /\ queue'[k].id = session'[m]
          BY <5>1, <4>1, <1>5 DEF JoinedAt
        <5>3. \A l \in DOMAIN queue' : JoinedAt(l, m)' => l <= k
          BY <5>1, <4>2, <1>11
        <5>4. QED
          BY <5>2, <5>3, <1>5 DEF Coming, JoinedAt
      <4>5. QED
        BY <4>1, <4>3, <4>4
    <3>3. QED
      BY <3>1, <3>2
  <2>2. QED
    BY <2>1 DEF Arrivals
<1>15. QED
  BY <1>9, <1>12, <1>13, <1>14 DEF SInv

LEMMA EndsKeeps ==
  ASSUME IInv, SInv, NEW n \in Names, session[n] # None, Ends(n), UNCHANGED <<begun, users>>
  PROVE  SInv'
<1>1. /\ begun \in Nat /\ session \in [Names -> Nat \cup {None}] /\ queue \in Seq(Report)
  BY DEF IInv, Types
<1>2. PICK i \in Nat : i = session[n]
  BY <1>1
<1>3. PICK e \in Report : /\ e = Left(n, i) /\ e.kind = "left" /\ e.name = n /\ e.id = i
  BY ReportKinds
<1>4. queue' = Append(queue, e) /\ session' = [session EXCEPT ![n] = None]
  BY <1>2, <1>3 DEF Ends
<1>5. /\ queue' \in Seq(Report) /\ DOMAIN queue' = DOMAIN queue \cup {Len(queue) + 1}
      /\ queue'[Len(queue) + 1] = e /\ Len(queue) + 1 \notin DOMAIN queue
      /\ \A k \in DOMAIN queue : queue'[k] = queue[k] /\ k < Len(queue) + 1
  BY <1>1, <1>3, <1>4
<1>6. Reported(n, None)
  BY <1>1, <1>2, <1>3, <1>4, <1>5 DEF Reported
<1>7. QED
  BY <1>6, ReportedKeeps

LEMMA EntersKeeps ==
  ASSUME IInv, SInv, NEW n \in Names, UserEnters(n)
  PROVE  SInv'
<1>1. /\ begun \in Nat /\ session \in [Names -> Nat \cup {None}] /\ queue \in Seq(Report) /\ Sessions
  BY DEF IInv, Types
<1>2. PICK i \in Nat : i = begun + 1
  BY <1>1
<1>3. begun' = i /\ session' = [session EXCEPT ![n] = i] /\ users' = users /\ i > begun /\ i # None
  BY <1>1, <1>2 DEF UserEnters
<1>4. PICK e \in Report : e = Joined(n, i) /\ e.kind = "joined" /\ e.name = n /\ e.id = i
  BY ReportKinds
<1>5. session[n] # i
  BY <1>1, <1>3 DEF Sessions, Owns
<1>6. CASE session[n] = None
  <2>1. queue' = Append(queue, e)
    BY <1>3, <1>4, <1>6 DEF UserEnters
  <2>2. /\ queue' \in Seq(Report) /\ DOMAIN queue' = DOMAIN queue \cup {Len(queue) + 1}
        /\ queue'[Len(queue) + 1] = e /\ Len(queue) + 1 \in Nat
        /\ Len(queue) + 1 \notin DOMAIN queue
        /\ \A k \in DOMAIN queue : queue'[k] = queue[k] /\ k < Len(queue) + 1
    BY <2>1, <1>1, <1>4
  <2>3. Reported(n, i)
    BY <2>2, <1>1, <1>3, <1>4, <1>5, <1>6 DEF Reported
  <2>4. QED
    BY <2>3, ReportedKeeps
<1>7. CASE session[n] # None
  <2>1. PICK j \in Nat : j = session[n]
    BY <1>1, <1>7
  <2>2. PICK d \in Report : d = Left(n, j) /\ d.kind = "left" /\ d.name = n /\ d.id = j
    BY ReportKinds
  <2>3. queue' = queue \o <<d, e>> \/ queue' = queue \o <<e, d>>
    BY <2>1, <2>2, <1>3, <1>4, <1>7 DEF UserEnters
  <2>4. /\ queue' \in Seq(Report) /\ DOMAIN queue' = DOMAIN queue \cup {Len(queue) + 1, Len(queue) + 2}
        /\ \/ queue'[Len(queue) + 1] = d /\ queue'[Len(queue) + 2] = e
           \/ queue'[Len(queue) + 1] = e /\ queue'[Len(queue) + 2] = d
        /\ Len(queue) + 1 \in Nat
        /\ Len(queue) + 1 \notin DOMAIN queue /\ Len(queue) + 2 \notin DOMAIN queue
        /\ \A k \in DOMAIN queue : queue'[k] = queue[k] /\ k < Len(queue) + 1
    <3>1. CASE queue' = queue \o <<d, e>>
      <4>1. PICK q \in Seq(Report) : q = queue
        BY <1>1
      <4>2. /\ q \o <<d, e>> \in Seq(Report)
            /\ DOMAIN (q \o <<d, e>>) = DOMAIN q \cup {Len(q) + 1, Len(q) + 2}
            /\ (q \o <<d, e>>)[Len(q) + 1] = d /\ (q \o <<d, e>>)[Len(q) + 2] = e
            /\ Len(q) + 1 \in Nat /\ Len(q) + 1 \notin DOMAIN q /\ Len(q) + 2 \notin DOMAIN q
            /\ \A k \in DOMAIN q : (q \o <<d, e>>)[k] = q[k] /\ k < Len(q) + 1
        OBVIOUS
      <4>3. QED
        BY <4>1, <4>2, <3>1, Zenon
    <3>2. CASE queue' = queue \o <<e, d>>
      <4>1. PICK q \in Seq(Report) : q = queue
        BY <1>1
      <4>2. /\ q \o <<e, d>> \in Seq(Report)
            /\ DOMAIN (q \o <<e, d>>) = DOMAIN q \cup {Len(q) + 1, Len(q) + 2}
            /\ (q \o <<e, d>>)[Len(q) + 1] = e /\ (q \o <<e, d>>)[Len(q) + 2] = d
            /\ Len(q) + 1 \in Nat /\ Len(q) + 1 \notin DOMAIN q /\ Len(q) + 2 \notin DOMAIN q
            /\ \A k \in DOMAIN q : (q \o <<e, d>>)[k] = q[k] /\ k < Len(q) + 1
        OBVIOUS
      <4>3. QED
        BY <4>1, <4>2, <3>2, Zenon
    <3>3. QED
      BY <2>3, <3>1, <3>2
  <2>5. Reported(n, i)
    BY <2>1, <2>2, <2>4, <1>1, <1>3, <1>4, <1>5, <1>7 DEF Reported
  <2>6. QED
    BY <2>5, ReportedKeeps
<1>8. QED
  BY <1>6, <1>7

(* A new connection reports everybody anew.                                *)
LEMMA ReconnectKeeps ==
  ASSUME IInv, Reconnect
  PROVE  SInv'
<1> DEFINE present == {n \in Names : session[n] # None}
           size == Cardinality(present)
<1>1. size \in Nat
  BY FS_Subset, FS_CardinalityType
<1>2. PICK id \in Bijection(present, 1..size) :
        /\ begun' = size
        /\ session' = [n \in Names |-> IF n \in present THEN id[n] ELSE None]
        /\ queue' = <<Connect>> \o [i \in 1..begun' |-> Joined(CHOOSE n \in present : id[n] = i, i)]
  BY DEF Reconnect
<1>3. /\ id \in [present -> 1..size]
      /\ \A m, n \in present : id[m] = id[n] => m = n
      /\ \A i \in 1..size : \E n \in present : id[n] = i
  BY <1>2, Zenon DEF Bijection, Injection, Surjection, IsInjective
<1> DEFINE name(i) == CHOOSE n \in present : id[n] = i
           rest == [i \in 1..size |-> Joined(name(i), i)]
<1>4. \A i \in 1..size : name(i) \in present /\ id[name(i)] = i
  BY <1>3
<1>5. \A i \in 1..size : /\ rest[i] \in Report /\ rest[i].kind = "joined"
                         /\ rest[i].name = name(i) /\ rest[i].id = i
  <2>1. ASSUME NEW i \in 1..size
        PROVE  /\ rest[i] \in Report /\ rest[i].kind = "joined"
               /\ rest[i].name = name(i) /\ rest[i].id = i
    <3>1. name(i) \in Names /\ i \in Nat /\ rest[i] = Joined(name(i), i)
      BY <1>1, <1>4
    <3>2. QED
      BY <3>1, ReportKinds
  <2>2. QED
    BY <2>1
<1>6. queue' = <<Connect>> \o rest
  BY <1>2
<1>7. rest \in Seq(Report) /\ Len(rest) = size
  <2>1. rest \in [1..size -> Report]
    BY <1>5
  <2>2. QED
    BY <2>1, <1>1, FuncOf, Zenon
<1>8. Connect \in Report /\ Connect.kind = "connect"
  BY DEF Connect, Report
<1> HIDE DEF rest
<1>9. PICK r \in Seq(Report), c \in Report : r = rest /\ c = Connect
  BY <1>7, <1>8
<1>10. queue' = <<c>> \o r /\ Len(r) = size
  BY <1>6, <1>7, <1>9
<1>11. /\ DOMAIN queue' = 1..(size + 1) /\ queue'[1] = c
       /\ \A k \in DOMAIN queue' : k # 1 => k - 1 \in 1..size /\ queue'[k] = r[k - 1]
  <2>1. /\ DOMAIN (<<c>> \o r) = 1..(Len(r) + 1) /\ (<<c>> \o r)[1] = c
        /\ \A k \in DOMAIN (<<c>> \o r) : k # 1 => k - 1 \in 1..Len(r) /\ (<<c>> \o r)[k] = r[k - 1]
    BY ConsOf
  <2>2. QED
    BY <2>1, <1>10, Zenon
<1>12. \A i \in 1..size : i + 1 \in DOMAIN queue' /\ queue'[i + 1] = r[i]
  BY <1>1, <1>10
<1>13. \A k \in DOMAIN queue' : k # 1 => /\ k - 1 \in 1..size /\ queue'[k].kind = "joined"
                                         /\ queue'[k].name = name(k - 1) /\ queue'[k].id = k - 1
  BY <1>5, <1>9, <1>11
<1>14. queue'[1].kind = "connect" /\ 1 \in DOMAIN queue'
  BY <1>1, <1>8, <1>9, <1>11
<1> HIDE DEF name
<1>15. \A n \in Names : session'[n] = IF n \in present THEN id[n] ELSE None
  BY <1>2
<1>16. OldIds' /\ OldUsers'
  BY <1>13, <1>14 DEF OldIds, OldUsers, NoConnect
<1>17. OldReports'
  <2>1. \A k \in DOMAIN queue' : k # 1 => queue'[k].id = session'[queue'[k].name]
    <3>1. ASSUME NEW k \in DOMAIN queue', k # 1 PROVE queue'[k].id = session'[queue'[k].name]
      <4>1. PICK i \in 1..size : i = k - 1
        BY <3>1, <1>13
      <4>2. PICK n \in present : n = name(i) /\ id[n] = i
        BY <1>4
      <4>3. queue'[k].name = n /\ queue'[k].id = i
        BY <3>1, <4>1, <4>2, <1>13
      <4>4. QED
        BY <4>2, <4>3, <1>15
    <3>2. QED
      BY <3>1
  <2>2. QED
    BY <2>1, <1>14 DEF OldReports, JoinedAt
<1>18. Arrivals'
  <2>1. ASSUME NEW n \in Names, session'[n] # None PROVE Coming(n)'
    <3>1. n \in present /\ session'[n] = id[n] /\ id[n] \in 1..size
      BY <2>1, <1>3, <1>15
    <3>2. name(id[n]) = n
      BY <3>1, <1>3, <1>4
    <3>3. PICK k \in DOMAIN queue' : k = id[n] + 1
      BY <3>1, <1>12
    <3>4. k # 1 /\ k - 1 = id[n]
      BY <3>1, <3>3
    <3>5. queue'[k].kind = "joined" /\ queue'[k].name = n /\ queue'[k].id = session'[n]
      BY <3>1, <3>2, <3>4, <1>13
    <3>6. \A l \in DOMAIN queue' : queue'[l].kind = "joined" /\ queue'[l].name = n => l = k
      <4>1. ASSUME NEW l \in DOMAIN queue', queue'[l].kind = "joined", queue'[l].name = n PROVE l = k
        <5>1. l # 1 /\ l - 1 \in 1..size /\ name(l - 1) = n
          BY <4>1, <1>13, <1>14
        <5>2. id[n] = l - 1
          BY <5>1, <1>4
        <5>3. QED
          BY <5>1, <5>2, <3>4, <1>11, <1>1
      <4>2. QED
        BY <4>1
    <3>7. \A l \in DOMAIN queue' : queue'[l].kind = "joined" /\ queue'[l].name = n => l <= k
      BY <3>3, <3>6, <1>11, <1>1
    <3>8. QED
      BY <3>5, <3>7 DEF Coming, JoinedAt
  <2>2. QED
    BY <2>1 DEF Arrivals
<1>19. QED
  BY <1>16, <1>17, <1>18 DEF SInv

LEMMA ReadKeeps ==
  ASSUME IInv, SInv, onConnectEvent \/ onUserJoined \/ onUserLeft
  PROVE  SInv'
<1> DEFINE u == Head(queue)
<1>1. queue # <<>> /\ queue' = Tail(queue) /\ UNCHANGED <<session, begun>>
  BY DEF onConnectEvent, onUserJoined, onUserLeft, Reads, server
<1>2. queue \in Seq(Report) /\ users \in [Names -> Nat \cup {None}] /\ session \in [Names -> Nat \cup {None}]
  BY DEF IInv, Types
<1>3. /\ queue' \in Seq(Report) /\ u \in Report /\ u = queue[1] /\ 1 \in DOMAIN queue
      /\ \A k \in DOMAIN queue' : k + 1 \in DOMAIN queue /\ queue'[k] = queue[k + 1] /\ k + 1 # 1 /\ k \in Nat
      /\ \A k \in DOMAIN queue : k # 1 => k - 1 \in DOMAIN queue' /\ queue'[k - 1] = queue[k] /\ k > 1 /\ k \in Nat
  BY <1>1, <1>2, TailOf
<1>4. NoConnect' /\ (u.kind # "connect" => NoConnect)
  BY <1>1, Tail1
<1>5. \A k \in DOMAIN queue' : \A n, i :
        JoinedAt(k, n)' = JoinedAt(k + 1, n) /\ (Outdated(k + 1, n, i) <=> (JoinedAt(k, n)' \/
          (queue'[k].kind = "left" /\ queue'[k].name = n /\ queue'[k].id = i)))
  BY <1>3 DEF JoinedAt, Outdated
<1>6. \A k \in DOMAIN queue : k # 1 =>
        \A n : JoinedAt(k, n) => k - 1 \in DOMAIN queue' /\ JoinedAt(k - 1, n)'
  BY <1>3 DEF JoinedAt
<1>7. OldIds'
  BY <1>1, <1>3 DEF SInv, OldIds
<1>8. OldReports'
  <2>1. ASSUME NEW k \in DOMAIN queue', NEW n \in Names, JoinedAt(k, n)', queue'[k].id # session'[n]
        PROVE  \E l \in DOMAIN queue' : l > k /\ Outdated(l, n, queue[k].id)'
    <3>1. JoinedAt(k + 1, n) /\ queue[k + 1].id # session[n] /\ queue[k + 1] = queue'[k]
      BY <2>1, <1>1, <1>3 DEF JoinedAt
    <3>2. PICK l \in DOMAIN queue : l > k + 1 /\ Outdated(l, n, queue[k + 1].id)
      BY <3>1, <1>3 DEF SInv, OldReports
    <3>3. l # 1 /\ l - 1 > k /\ l - 1 \in DOMAIN queue' /\ (l - 1) + 1 = l
      BY <3>2, <1>3
    <3>4. Outdated(l - 1, n, queue[k].id)'
      BY <3>1, <3>2, <3>3, <1>5 DEF Outdated, JoinedAt
    <3>5. QED
      BY <3>3, <3>4
  <2>2. QED
    BY <2>1 DEF OldReports, JoinedAt
<1>9. ASSUME NEW n \in Names, NEW k \in DOMAIN queue, k # 1, JoinedAt(k, n), queue[k].id = session[n],
             \A l \in DOMAIN queue : JoinedAt(l, n) => l <= k
      PROVE  Coming(n)'
  <2>1. k - 1 \in DOMAIN queue' /\ queue'[k - 1] = queue[k] /\ k \in Nat
    BY <1>3, <1>9
  <2>2. JoinedAt(k - 1, n)' /\ queue'[k - 1].id = session'[n]
    BY <2>1, <1>1, <1>6, <1>9
  <2>3. \A l \in DOMAIN queue' : JoinedAt(l, n)' => l <= k - 1
    BY <2>1, <1>3, <1>9 DEF JoinedAt
  <2>4. QED
    BY <2>1, <2>2, <2>3 DEF Coming, JoinedAt
<1>10. CASE onConnectEvent
  <2>1. \A n \in Names : users'[n] = None
    BY <1>10 DEF onConnectEvent
  <2>2. u.kind = "connect" /\ ~NoConnect
    BY <1>3, <1>10 DEF onConnectEvent, Reads, NoConnect
  <2>3. OldUsers'
    BY <2>1 DEF OldUsers
  <2>4. Arrivals'
    <3>1. ASSUME NEW n \in Names, session'[n] # None PROVE Coming(n)'
      <4>1. PICK k \in DOMAIN queue : /\ JoinedAt(k, n) /\ queue[k].id = session[n]
                                      /\ \A l \in DOMAIN queue : JoinedAt(l, n) => l <= k
        BY <3>1, <2>2, <1>1 DEF SInv, Arrivals, There, Coming
      <4>2. k # 1
        BY <4>1, <2>2, <1>3 DEF JoinedAt
      <4>3. QED
        BY <4>1, <4>2, <1>9
    <3>2. QED
      BY <3>1 DEF Arrivals
  <2>5. QED
    BY <2>3, <2>4, <1>7, <1>8 DEF SInv
<1>11. ASSUME NEW n \in Names, There(n), users'[n] = users[n] PROVE There(n)'
  BY <1>1, <1>3, <1>4, <1>11 DEF There, JoinedAt
<1>12. ASSUME NEW n \in Names, users[n] # None, users[n] # session[n], NoConnect,
              ~Outdated(1, n, users[n]), users'[n] = users[n]
       PROVE  \E l \in DOMAIN queue' : Outdated(l, n, users[n])'
  <2>1. PICK l \in DOMAIN queue : Outdated(l, n, users[n])
    BY <1>12 DEF SInv, OldUsers
  <2>2. l # 1 /\ l - 1 \in DOMAIN queue' /\ (l - 1) + 1 = l
    BY <2>1, <1>3, <1>12
  <2>3. Outdated(l - 1, n, users[n])'
    BY <2>1, <2>2, <1>3, <1>12 DEF Outdated, JoinedAt
  <2>4. QED
    BY <2>2, <2>3
<1>13. CASE onUserJoined
  <2>1. /\ u.kind = "joined" /\ u.name \in Names /\ u.id \in Nat /\ NoConnect
        /\ users' = [users EXCEPT ![u.name] = u.id]
    BY <1>3, <1>4, <1>13 DEF onUserJoined, Reads, Report
  <2>2. JoinedAt(1, u.name) /\ \A n \in Names : n # u.name => users'[n] = users[n] /\ \A i : ~Outdated(1, n, i)
    BY <2>1, <1>2, <1>3 DEF JoinedAt, Outdated
  <2>3. users'[u.name] = u.id
    BY <2>1, <1>2
  <2>4. OldUsers'
    <3>1. ASSUME NEW n \in Names, users'[n] # None, users'[n] # session'[n]
          PROVE  \E l \in DOMAIN queue' : Outdated(l, n, users[n])'
      <4>1. CASE n # u.name
        BY <4>1, <3>1, <2>1, <2>2, <1>1, <1>12
      <4>2. CASE n = u.name
        <5>1. queue[1].id # session[n]
          BY <4>2, <3>1, <2>3, <1>1, <1>3
        <5>2. PICK l \in DOMAIN queue : l > 1 /\ Outdated(l, n, queue[1].id)
          BY <4>2, <5>1, <2>2, <1>3 DEF SInv, OldReports
        <5>3. l # 1 /\ l - 1 \in DOMAIN queue' /\ (l - 1) + 1 = l /\ queue[1].id = users'[n]
          BY <4>2, <5>2, <2>3, <1>3
        <5>4. Outdated(l - 1, n, users[n])'
          BY <5>2, <5>3, <1>3 DEF Outdated, JoinedAt
        <5>5. QED
          BY <5>3, <5>4
      <4>3. QED
        BY <4>1, <4>2
    <3>2. QED
      BY <3>1 DEF OldUsers, Outdated, JoinedAt
  <2>5. Arrivals'
    <3>1. ASSUME NEW n \in Names, session'[n] # None PROVE There(n)' \/ Coming(n)'
      <4>1. session[n] # None /\ (There(n) \/ Coming(n))
        BY <3>1, <1>1 DEF SInv, Arrivals
      <4>2. CASE There(n)
        <5>1. n # u.name
          BY <4>2, <2>2, <1>3 DEF There
        <5>2. QED
          BY <4>2, <5>1, <2>2, <1>11
      <4>3. CASE Coming(n)
        <5>1. PICK k \in DOMAIN queue : /\ JoinedAt(k, n) /\ queue[k].id = session[n]
                                        /\ \A l \in DOMAIN queue : JoinedAt(l, n) => l <= k
          BY <4>3 DEF Coming
        <5>2. CASE k # 1
          BY <5>1, <5>2, <1>9
        <5>3. CASE k = 1
          <6>1. n = u.name /\ users'[n] = session'[n]
            BY <5>1, <5>3, <2>3, <1>1, <1>3 DEF JoinedAt
          <6>2. \A l \in DOMAIN queue : l # 1 => ~JoinedAt(l, n)
            BY <5>1, <5>3, <1>3
          <6>3. \A l \in DOMAIN queue' : ~JoinedAt(l, n)'
            BY <6>2, <1>3 DEF JoinedAt
          <6>4. QED
            BY <6>1, <6>3, <1>4 DEF There, JoinedAt
        <5>4. QED
          BY <5>2, <5>3
      <4>4. QED
        BY <4>1, <4>2, <4>3
    <3>2. QED
      BY <3>1 DEF Arrivals
  <2>6. QED
    BY <2>4, <2>5, <1>7, <1>8 DEF SInv
<1>14. CASE onUserLeft
  <2>1. u.kind = "left" /\ u.name \in Names /\ u.id \in Nat /\ NoConnect /\ u.id # None
    BY <1>3, <1>4, <1>14, NoneAssumption DEF onUserLeft, Reads, Report
  <2>2. \/ users[u.name] # u.id /\ users' = users
        \/ users[u.name] = u.id /\ users' = [users EXCEPT ![u.name] = None]
    BY <1>14 DEF onUserLeft
  <2>3. u.id # session[u.name]
    BY <2>1, <1>3 DEF SInv, OldIds
  <2>4. \A n \in Names : users'[n] # None => users'[n] = users[n] /\ ~(n = u.name /\ users[n] = u.id)
    BY <2>2, <1>2
  <2>5. OldUsers'
    <3>1. ASSUME NEW n \in Names, users'[n] # None, users'[n] # session'[n]
          PROVE  \E l \in DOMAIN queue' : Outdated(l, n, users[n])'
      <4>1. ~Outdated(1, n, users[n])
        BY <3>1, <2>1, <2>4, <1>3 DEF Outdated, JoinedAt
      <4>2. QED
        BY <3>1, <4>1, <2>1, <2>4, <1>1, <1>12
    <3>2. QED
      BY <3>1 DEF OldUsers, Outdated, JoinedAt
  <2>6. Arrivals'
    <3>1. ASSUME NEW n \in Names, session'[n] # None PROVE There(n)' \/ Coming(n)'
      <4>1. session[n] # None /\ (There(n) \/ Coming(n))
        BY <3>1, <1>1 DEF SInv, Arrivals
      <4>2. CASE There(n)
        <5>1. users[n] = session[n]
          BY <4>2 DEF There
        <5>2. users'[n] = users[n]
          BY <5>1, <2>1, <2>2, <2>3, <1>2
        <5>3. QED
          BY <4>2, <5>2, <1>11
      <4>3. CASE Coming(n)
        <5>1. PICK k \in DOMAIN queue : /\ JoinedAt(k, n) /\ queue[k].id = session[n]
                                        /\ \A l \in DOMAIN queue : JoinedAt(l, n) => l <= k
          BY <4>3 DEF Coming
        <5>2. k # 1
          BY <5>1, <2>1, <1>3 DEF JoinedAt
        <5>3. QED
          BY <5>1, <5>2, <1>9
      <4>4. QED
        BY <4>1, <4>2, <4>3
    <3>2. QED
      BY <3>1 DEF Arrivals
  <2>7. QED
    BY <2>5, <2>6, <1>7, <1>8 DEF SInv
<1>15. QED
  BY <1>10, <1>13, <1>14

LEMMA SInvStep == IInv /\ SInv /\ [Next]_vars => SInv'
<1> SUFFICES ASSUME IInv, SInv, [Next]_vars PROVE SInv'
  OBVIOUS
<1>1. ASSUME NEW n \in Names, UserEnters(n) PROVE SInv'
  BY <1>1, EntersKeeps
<1>2. ASSUME NEW n \in Names, UserLeaves(n) PROVE SInv'
  BY <1>2, EndsKeeps DEF UserLeaves
<1>3. CASE Reconnect
  BY <1>3, ReconnectKeeps
<1>4. CASE onConnectEvent \/ onUserJoined \/ onUserLeft
  BY <1>4, ReadKeeps
<1>5. ASSUME UNCHANGED <<session, begun, queue, users>> PROVE SInv'
  BY <1>5 DEF SInv, OldIds, OldReports, OldUsers, Arrivals, There, Coming, JoinedAt, Outdated, NoConnect
<1>6. ASSUME NEW c \in Calls, NEW n \in Names, Aim(c, n) PROVE SInv'
  BY <1>5, <1>6 DEF Aim, server
<1>7. ASSUME NEW c \in Calls, Strike(c) PROVE SInv'
  <2>1. UNCHANGED <<begun, users>>
    BY <1>7 DEF Strike
  <2>2. CASE UNCHANGED <<session, queue>>
    BY <2>1, <2>2, <1>5
  <2>3. CASE \E n \in Struck(c) : Ends(n)
    <3>1. PICK n \in Names : session[n] = call[c].id /\ Ends(n)
      BY <2>3 DEF Struck
    <3>2. call[c] # None /\ call[c].id \in Nat
      BY <1>7 DEF Strike, IInv, Types, Target
    <3>3. QED
      BY <3>1, <3>2, <2>1, EndsKeeps
  <2>4. QED
    BY <1>7, <2>2, <2>3 DEF Strike
<1>8. CASE UNCHANGED vars
  BY <1>5, <1>8 DEF vars
<1>9. QED
  BY <1>1, <1>2, <1>3, <1>4, <1>6, <1>7, <1>8, Zenon DEF Next

(* Once the gateway has read what the server reported, Gateway.users has   *)
(* the sessions that are in the channel, however the reports of old and    *)
(* new sessions came, across whispers, kicks and reconnections.            *)
THEOREM KnownArePresent == Spec => []UsersArePresent
<1>1. IInv /\ SInv => UsersArePresent
  <2>1. ASSUME IInv, SInv, queue = <<>> PROVE users = session
    <3>1. NoConnect /\ \A n : ~Coming(n)
      BY <2>1 DEF NoConnect, Coming
    <3>2. \A n \in Names : users[n] = session[n]
      BY <3>1, <2>1 DEF SInv, OldUsers, Arrivals, There
    <3>3. users \in [Names -> Nat \cup {None}] /\ session \in [Names -> Nat \cup {None}]
      BY <2>1 DEF IInv, Types
    <3>4. QED
      BY <3>2, <3>3
  <2>2. QED
    BY <2>1 DEF UsersArePresent
<1>2. QED
  BY <1>1, Inductive, SInvInit, SInvStep, PTL DEF Spec

=============================================================================
