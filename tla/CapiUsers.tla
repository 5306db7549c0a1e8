------------------------------ MODULE CapiUsers ------------------------------
(***************************************************************************)
(* Who is in the channel of a capi gateway (gateway/capi/capi.go).         *)
(*                                                                         *)
(* The server gives every session of a user an ID of its own and reports   *)
(* who joins and who leaves, by ID and name.  The gateway keeps the ID of  *)
(* each name, to whisper, kick and ban with, and fires Join and Leave.  A  *)
(* user may come back while an old session is still there: the server ends *)
(* the old one, and reports the two changes in either order.               *)
(*                                                                         *)
(* IDs are those of a connection: they are counted anew on the next one,   *)
(* from the bot, which has ID 1 (and which is left out here).              *)
(***************************************************************************)
EXTENDS Naturals, Sequences, FiniteSets, Functions

CONSTANTS Names,          \* names of users
          None,           \* no ID
          Calls,          \* goroutines that whisper, kick and ban
          MaxSessions,    \* bound: sessions of a connection
          MaxConnections  \* bound: connections of the gateway

ASSUME NamesAssumption == IsFiniteSet(Names)
ASSUME NoneAssumption == None \notin Nat
ASSUME BoundAssumption == MaxSessions \in Nat /\ MaxConnections \in Nat

Id == 1..MaxSessions

Event == [kind : {"joined", "left"}, name : Names, id : Id] \cup [kind : {"connect"}]

VARIABLES
  session,      \* session[n]: the session of n in the channel, or None
  begun,        \* sessions of this connection so far
  connections,  \* connections begun so far; the gateway is on the last
  queue,        \* what the server reported and the gateway did not read
  users,        \* Gateway.users: the ID of a name, or None
  call,         \* call[c]: whom goroutine c is to whisper to, kick or ban, or None
  joins         \* history: joins[n] is the Join events of n less the Leave events,
                \* since the last Clear

server == <<session, begun, connections>>
vars == <<session, begun, connections, queue, users, call, joins>>

Connect == [kind |-> "connect"]
Joined(n, i) == [kind |-> "joined", name |-> n, id |-> i]
Left(n, i) == [kind |-> "left", name |-> n, id |-> i]

Init ==
  /\ session = [n \in Names |-> None]
  /\ begun = 0
  /\ connections = 1
  /\ queue = <<Connect>>
  /\ users = [n \in Names |-> None]
  /\ call = [c \in Calls |-> None]
  /\ joins = [n \in Names |-> 0]

-----------------------------------------------------------------------------
(* The server *)

UserEnters(n) ==
  /\ begun < MaxSessions
  /\ begun' = begun + 1
  /\ session' = [session EXCEPT ![n] = begun']
  /\ IF session[n] = None
       THEN queue' = Append(queue, Joined(n, begun'))
       ELSE \/ queue' = queue \o <<Left(n, session[n]), Joined(n, begun')>>
            \/ queue' = queue \o <<Joined(n, begun'), Left(n, session[n])>>
  /\ UNCHANGED <<connections, users, call, joins>>

(* Somebody is in the channel no more.                                     *)
Ends(n) ==
  /\ session' = [session EXCEPT ![n] = None]
  /\ queue' = Append(queue, Left(n, session[n]))

UserLeaves(n) ==
  /\ session[n] # None
  /\ Ends(n)
  /\ UNCHANGED <<begun, connections, users, call, joins>>

(* The connection ends, with what was not read of it, and the next begins  *)
(* (see Lifecycle), with IDs of its own.  Run fires Clear in between, and  *)
(* leaves users alone.                                                     *)
Reconnect ==
  /\ connections < MaxConnections
  /\ connections' = connections + 1
  /\ LET present == {n \in Names : session[n] # None}
     IN \E id \in Bijection(present, 1..Cardinality(present)) :
          /\ begun' = Cardinality(present)
          /\ session' = [n \in Names |-> IF n \in present THEN id[n] ELSE None]
          /\ queue' = <<Connect>> \o [i \in 1..begun' |-> Joined(CHOOSE n \in present : id[n] = i, i)]
  /\ joins' = [n \in Names |-> 0]
  /\ UNCHANGED <<users, call>>

-----------------------------------------------------------------------------
(* The gateway reads its connection in one goroutine *)

Reads(kind) ==
  /\ queue # <<>> /\ Head(queue).kind = kind
  /\ queue' = Tail(queue)
  /\ UNCHANGED <<server, call>>

(* Mutant: users is not emptied.                                           *)
onConnectEvent_UsersKept ==
  /\ Reads("connect")
  /\ joins' = [n \in Names |-> 0]
  /\ UNCHANGED users

onConnectEvent ==
  /\ Reads("connect")
  /\ users' = [n \in Names |-> None]
  /\ joins' = [n \in Names |-> 0]

onUserJoined ==
  /\ Reads("joined")
  /\ LET u == Head(queue)
     IN  /\ users' = [users EXCEPT ![u.name] = u.id]
         /\ joins' = [joins EXCEPT ![u.name] = @ + 1]

(* Mutant: the ID is not compared.                                         *)
onUserLeft_AnySession ==
  /\ Reads("left")
  /\ LET u == Head(queue)
     IN  IF users[u.name] # None
           THEN /\ users' = [users EXCEPT ![u.name] = None]
                /\ joins' = [joins EXCEPT ![u.name] = IF @ = 0 THEN 0 ELSE @ - 1]
           ELSE UNCHANGED <<users, joins>>

(* Leave is fired for the session that users knows, and no other.          *)
onUserLeft ==
  /\ Reads("left")
  /\ LET u == Head(queue)
     IN  IF users[u.name] = u.id
           THEN /\ users' = [users EXCEPT ![u.name] = None]
                /\ joins' = [joins EXCEPT ![u.name] = @ - 1]
           ELSE UNCHANGED <<users, joins>>

-----------------------------------------------------------------------------
(* SayPrivate, Kick and Ban *)

(* The connection the reports that were read are of.                       *)
Known ==
  IF \E i \in DOMAIN queue : queue[i].kind = "connect" THEN connections - 1 ELSE connections

(* They look up the ID, and leave the request to a goroutine.              *)
Aim(c, n) ==
  /\ call[c] = None
  /\ users[n] # None
  /\ call' = [call EXCEPT ![c] = [name |-> n, id |-> users[n], connection |-> Known]]
  /\ UNCHANGED <<server, queue, users, joins>>

Struck(c) == {n \in Names : session[n] = call[c].id}

(* A whisper, an error, or whoever has the ID now is kicked or banned.     *)
Strike(c) ==
  /\ call[c] # None
  /\ call' = [call EXCEPT ![c] = None]
  /\ \/ UNCHANGED <<session, queue>>
     \/ \E n \in Struck(c) : Ends(n)
  /\ UNCHANGED <<begun, connections, users, joins>>

-----------------------------------------------------------------------------

Next ==
  \/ \E n \in Names : UserEnters(n) \/ UserLeaves(n)
  \/ Reconnect
  \/ onConnectEvent \/ onUserJoined \/ onUserLeft
  \/ \E c \in Calls : (\E n \in Names : Aim(c, n)) \/ Strike(c)

Spec == Init /\ [][Next]_vars

-----------------------------------------------------------------------------

TypeOK ==
  /\ session \in [Names -> Id \cup {None}]
  /\ begun \in 0..MaxSessions
  /\ connections \in 1..MaxConnections
  /\ queue \in Seq(Event)
  /\ users \in [Names -> Id \cup {None}]
  /\ call \in [Calls -> [name : Names, id : Id, connection : 0..MaxConnections] \cup {None}]
  /\ joins \in [Names -> 0..MaxSessions]

(* A name stands for the session that is in the channel, once all reports  *)
(* are read: a whisper, kick or ban does not go to a session of the past,  *)
(* however the reports of an old and a new session came.                   *)
UsersArePresent == queue = <<>> => users = session

(* Whoever users knows has been announced on this connection.              *)
PresentAreListed ==
  (\A i \in DOMAIN queue : queue[i].kind # "connect")
    => \A n \in Names : users[n] # None => joins[n] > 0

(* A whisper, kick or ban reaches whom it was meant for or nobody, as long *)
(* as the connection lasts: he may leave, and others come, while it is on  *)
(* its way.                                                                *)
OthersSpared ==
  \A c \in Calls : call[c] # None /\ call[c].connection = connections => Struck(c) \subseteq {call[c].name}

(* "Kick user from channel": the same, whatever happens to the connection. *)
OthersNeverStruck == \A c \in Calls : call[c] # None => Struck(c) \subseteq {call[c].name}

(* "the online user list": nobody is on it who left.  A list has an entry  *)
(* per Join, and a Leave removes one (Channel.Relay, see OnlineList).      *)
ListedArePresent == queue = <<>> => \A n \in Names : joins[n] > 0 => session[n] # None

=============================================================================
