----------------------------- MODULE OnlineList -----------------------------
(***************************************************************************)
(* The online user list a Discord channel keeps in one message             *)
(* (gateway/discord/channel.go, fed by goop/relay.go).                     *)
(*                                                                         *)
(* Every gateway has a goroutine that reads its connection, and a command  *)
(* goroutine may change a user's access beside it.  Both compute an event  *)
(* and fire it; the relay drops events of users below JoinAccess and calls *)
(* Relay on the channel, which edits the list under omut, sorts it under a *)
(* second acquisition of omut, and wakes the updater.  The updater is a    *)
(* goroutine of its own: it renders the list, skips a text it has sent     *)
(* before, and posts or edits the message.                                 *)
(*                                                                         *)
(* Since is the time of an arrival; only its order matters.  A rendered    *)
(* line shows for how long its user is online, in seconds: fresh says that *)
(* a text differs from the previous one by these durations alone.          *)
(***************************************************************************)
EXTENDS Integers, Sequences, FiniteSets, Functions

CONSTANTS Gateways,    \* the gateways whose joins are relayed to the channel
          Users,       \* the users of each gateway
          Levels,      \* access levels
          JoinAccess,  \* RelayConfig.JoinAccess of the relays
          Fit,         \* lines that fit in a message
          MaxEvents,   \* bound: things that happen on the gateways
          MaxFails,    \* bound: requests that end with an error
          MaxDeletes   \* bound: times a moderator deletes the message

ASSUME LevelsAssumption == Levels \subseteq Int /\ JoinAccess \in Int
ASSUME BoundAssumption == {Fit, MaxEvents, MaxFails, MaxDeletes} \subseteq Nat

Thread == Gateways \X {"loop", "cmd"}

Event == [kind : {"join", "user", "leave"}, gw : Gateways, user : Users, access : Levels]
         \cup [kind : {"clear"}, gw : Gateways]

Entry == [gw : Gateways, user : Users, access : Levels, since : 1..MaxEvents]

NoText == [total |-> -1, lines |-> <<>>]  \* no text sent yet
NoMessage == 0                            \* OnlineListID is empty

VARIABLES
  here,      \* here[g]: users in the channel of gateway g
  access,    \* access[g][u]: the access level user() computes
  happened,  \* things that happened so far
  arrivals,  \* entries made so far: the clock that Since is read from
  step,      \* step[th]: where thread th is
  event,     \* event[th]: the event it is handling
  online,    \* Channel.online
  signal,    \* ochan holds a value
  updater,   \* where the updater is
  text,      \* content, what it is about to send
  last,      \* last, what it sent before
  listID,    \* OnlineListID
  message,   \* message[id]: text of a message in the channel; NoText once deleted
  unanswered, \* history: messages that were posted though the post ended with an error
  fails,
  deletes

gatewayVars == <<here, access, happened>>
updaterVars == <<updater, text, last, listID, message, unanswered, fails, deletes>>
vars == <<here, access, happened, arrivals, step, event, online, signal, updater, text,
          last, listID, message, unanswered, fails, deletes>>

Init ==
  /\ here = [g \in Gateways |-> {}]
  /\ access \in [Gateways -> [Users -> Levels]]
  /\ happened = 0
  /\ arrivals = 0
  /\ step = [th \in Thread |-> "idle"]
  /\ event \in [Thread -> {[kind |-> "clear", gw |-> g] : g \in Gateways}]
  /\ \A th \in Thread : event[th].gw = th[1]
  /\ online = <<>>
  /\ signal = FALSE
  /\ updater = "none"
  /\ text = NoText
  /\ last = NoText
  /\ listID = NoMessage
  /\ message = <<>>
  /\ unanswered = {}
  /\ fails = 0
  /\ deletes = 0

-----------------------------------------------------------------------------
(* The gateways *)

Fire(th, ev) ==
  /\ event' = [event EXCEPT ![th] = ev]
  /\ step' = [step EXCEPT ![th] = "relay"]

About(kind, g, u, a) == [kind |-> kind, gw |-> g, user |-> u, access |-> a]

Happens(th) ==
  /\ step[th] = "idle"
  /\ happened < MaxEvents
  /\ happened' = happened + 1
  /\ UNCHANGED <<arrivals, online, signal, updaterVars>>

UserJoined(g, u) ==
  /\ Happens(<<g, "loop">>)
  /\ u \notin here[g]
  /\ here' = [here EXCEPT ![g] = @ \cup {u}]
  /\ Fire(<<g, "loop">>, About("join", g, u, access[g][u]))
  /\ UNCHANGED access

UserLeft(g, u) ==
  /\ Happens(<<g, "loop">>)
  /\ u \in here[g]
  /\ here' = [here EXCEPT ![g] = @ \ {u}]
  /\ Fire(<<g, "loop">>, About("leave", g, u, access[g][u]))
  /\ UNCHANGED access

(* The connection ended, or the bot entered another channel.               *)
Cleared(g) ==
  /\ Happens(<<g, "loop">>)
  /\ here[g] # {}
  /\ here' = [here EXCEPT ![g] = {}]
  /\ Fire(<<g, "loop">>, [kind |-> "clear", gw |-> g])
  /\ UNCHANGED access

(* The flags of a user change what user() computes.                        *)
UserUpdate(g, u, a) ==
  /\ Happens(<<g, "loop">>)
  /\ u \in here[g]
  /\ access[g][u] # a
  /\ access' = [access EXCEPT ![g][u] = a]
  /\ Fire(<<g, "loop">>, About("user", g, u, a))
  /\ UNCHANGED here

(* A command sets the access of a user, who need not be there.             *)
SetUserAccess(g, u, a) ==
  /\ Happens(<<g, "cmd">>)
  /\ access[g][u] # a
  /\ access' = [access EXCEPT ![g][u] = a]
  /\ IF u \in here[g]
       THEN Fire(<<g, "cmd">>, About("user", g, u, a))
       ELSE UNCHANGED <<step, event>>
  /\ UNCHANGED here

-----------------------------------------------------------------------------
(* The channel *)

Matches(ev) == {i \in DOMAIN online : online[i].gw = ev.gw /\ online[i].user = ev.user}
Least(S) == CHOOSE i \in S : \A j \in S : i <= j
Greatest(S) == CHOOSE i \in S : \A j \in S : j <= i

(* The entries at f[1], f[2] ...                                           *)
Arrange(f) == online' = [k \in DOMAIN f |-> online[f[k]]]

(* The entries of other gateways are copied.                               *)
clearOnline(g) ==
  LET kept == {i \in DOMAIN online : online[i].gw # g} IN
  \E f \in Bijection(1..Cardinality(kept), kept) :
    /\ \A k, l \in DOMAIN f : k < l => f[k] < f[l]
    /\ Arrange(f)

Edit(ev) ==
  \/ ev.kind = "clear" /\ clearOnline(ev.gw)
  \/ /\ ev.kind = "join"
     /\ online' = Append(online, [gw |-> ev.gw, user |-> ev.user,
                                  access |-> ev.access, since |-> arrivals + 1])
  \/ /\ ev.kind = "user"
     /\ online' = IF Matches(ev) = {} THEN online
                  ELSE [online EXCEPT ![Least(Matches(ev))].access = ev.access]
  \/ /\ ev.kind = "leave"
     /\ online' = IF Matches(ev) = {} THEN online
                  ELSE LET i == Greatest(Matches(ev))
                       IN  SubSeq(online, 1, i - 1) \o SubSeq(online, i + 1, Len(online))

Passes(ev) == ev.kind = "clear" \/ ev.access >= JoinAccess

(* Mutant: a reconnect does not clear the list.                            *)
Relay_ClearIgnored(th) ==
  /\ step[th] = "relay"
  /\ IF Passes(event[th]) /\ event[th].kind # "clear"
       THEN /\ Edit(event[th])
            /\ arrivals' = IF event[th].kind = "join" THEN arrivals + 1 ELSE arrivals
            /\ step' = [step EXCEPT ![th] =
                 IF event[th].kind \in {"join", "user"} THEN "sort" ELSE "notify"]
       ELSE /\ step' = [step EXCEPT ![th] = "idle"]
            /\ UNCHANGED <<online, arrivals>>
  /\ UNCHANGED <<gatewayVars, event, signal, updaterVars>>

(* The relay and the first critical section.                               *)
Relay(th) ==
  /\ step[th] = "relay"
  /\ IF Passes(event[th])
       THEN /\ Edit(event[th])
            /\ arrivals' = IF event[th].kind = "join" THEN arrivals + 1 ELSE arrivals
            /\ step' = [step EXCEPT ![th] =
                 IF event[th].kind \in {"join", "user"} THEN "sort" ELSE "notify"]
       ELSE /\ step' = [step EXCEPT ![th] = "idle"]
            /\ UNCHANGED <<online, arrivals>>
  /\ UNCHANGED <<gatewayVars, event, signal, updaterVars>>

InOrder(o, p) == o.access > p.access \/ (o.access = p.access /\ o.since < p.since)

(* Any order in which nobody stands behind someone he belongs before.      *)
sortOnline(th) ==
  /\ step[th] = "sort"
  /\ \E f \in Bijection(DOMAIN online, DOMAIN online) :
       /\ \A k, l \in DOMAIN f : k < l => ~InOrder(online[f[l]], online[f[k]])
       /\ Arrange(f)
  /\ step' = [step EXCEPT ![th] = "notify"]
  /\ UNCHANGED <<gatewayVars, arrivals, event, signal, updaterVars>>

(* The first call starts the updater.                                      *)
updateOnline(th) ==
  /\ step[th] = "notify"
  /\ updater' = IF updater = "none" THEN "wait" ELSE updater
  /\ signal' = TRUE
  /\ step' = [step EXCEPT ![th] = "idle"]
  /\ UNCHANGED <<gatewayVars, arrivals, event, online, text, last, listID, message, unanswered, fails, deletes>>

-----------------------------------------------------------------------------
(* The updater *)

Text == [total |-> Len(online), lines |-> SubSeq(online, 1, IF Len(online) < Fit THEN Len(online) ELSE Fit)]

(* Mutant: the durations are not part of the text.                         *)
Render_NoDurations(fresh) ==
  /\ text' = Text
  /\ IF Text = last
       THEN UNCHANGED <<updater, last>>
       ELSE updater' = "send" /\ last' = Text

Render(fresh) ==
  /\ text' = Text
  /\ IF Text = last /\ ~(fresh /\ online # <<>>)
       THEN UNCHANGED <<updater, last>>
       ELSE updater' = "send" /\ last' = Text

Wake ==
  /\ updater = "wait"
  /\ signal
  /\ signal' = FALSE
  /\ \E fresh \in BOOLEAN : Render(fresh)
  /\ UNCHANGED <<gatewayVars, arrivals, step, event, online, listID, message, unanswered, fails, deletes>>

(* The ticker.                                                             *)
Tick ==
  /\ updater = "wait"
  /\ Render(TRUE)
  /\ UNCHANGED <<gatewayVars, arrivals, step, event, online, signal, listID, message, unanswered, fails, deletes>>

Sent ==
  /\ updater' = "wait"
  /\ UNCHANGED <<gatewayVars, arrivals, step, event, online, signal, text, last, deletes>>

Post ==
  /\ updater = "send"
  /\ listID = NoMessage
  /\ message' = Append(message, text)
  /\ listID' = Len(message')
  /\ Sent
  /\ UNCHANGED <<unanswered, fails>>

(* Mutant: the edit goes to a new message.                                 *)
Update_Reposts ==
  /\ updater = "send"
  /\ listID # NoMessage
  /\ message[listID] # NoText
  /\ message' = Append(message, text)
  /\ listID' = Len(message')
  /\ Sent
  /\ UNCHANGED <<unanswered, fails>>

Update ==
  /\ updater = "send"
  /\ listID # NoMessage
  /\ message[listID] # NoText
  /\ message' = [message EXCEPT ![listID] = text]
  /\ Sent
  /\ UNCHANGED <<listID, unanswered, fails>>

(* Discord reports that the message does not exist.                        *)
UpdateUnknown ==
  /\ updater = "send"
  /\ listID # NoMessage
  /\ message[listID] = NoText
  /\ listID' = NoMessage
  /\ Sent
  /\ UNCHANGED <<message, unanswered, fails>>

(* The request ends with another error: Discord did not carry it out; or   *)
(* it did and the answer is lost, and the message it posted remains        *)
(* unknown to the updater.                                                 *)
SendFails ==
  /\ updater = "send"
  /\ fails < MaxFails
  /\ fails' = fails + 1
  /\ \/ UNCHANGED <<message, unanswered>>
     \/ /\ listID = NoMessage
        /\ message' = Append(message, text)
        /\ unanswered' = unanswered \cup {Len(message')}
     \/ /\ listID # NoMessage /\ message[listID] # NoText
        /\ message' = [message EXCEPT ![listID] = text]
        /\ UNCHANGED unanswered
  /\ Sent
  /\ UNCHANGED listID

Delete ==
  /\ deletes < MaxDeletes
  /\ \E id \in DOMAIN message :
       /\ message[id] # NoText
       /\ message' = [message EXCEPT ![id] = NoText]
  /\ deletes' = deletes + 1
  /\ UNCHANGED <<gatewayVars, arrivals, step, event, online, signal, updater, text, last, listID, unanswered, fails>>

-----------------------------------------------------------------------------

Handle(th) == Relay(th) \/ sortOnline(th) \/ updateOnline(th)
Send == Post \/ Update \/ UpdateUnknown \/ SendFails

Next ==
  \/ \E g \in Gateways, u \in Users : UserJoined(g, u) \/ UserLeft(g, u)
  \/ \E g \in Gateways, u \in Users, a \in Levels : UserUpdate(g, u, a) \/ SetUserAccess(g, u, a)
  \/ \E g \in Gateways : Cleared(g)
  \/ \E th \in Thread : Handle(th)
  \/ Wake \/ Tick \/ Send \/ Delete

Spec == Init /\ [][Next]_vars

(* The goroutines run, the ticker ticks, and requests come to an end.      *)
FairSpec ==
  /\ Spec
  /\ \A th \in Thread : WF_vars(Handle(th))
  /\ WF_vars(Wake) /\ WF_vars(Tick) /\ WF_vars(Send)

-----------------------------------------------------------------------------

Content == [total : -1..MaxEvents, lines : Seq(Entry)]

TypeOK ==
  /\ here \in [Gateways -> SUBSET Users]
  /\ access \in [Gateways -> [Users -> Levels]]
  /\ happened \in 0..MaxEvents
  /\ arrivals \in 0..MaxEvents
  /\ step \in [Thread -> {"idle", "relay", "sort", "notify"}]
  /\ event \in [Thread -> Event]
  /\ online \in Seq(Entry)
  /\ signal \in BOOLEAN
  /\ updater \in {"none", "wait", "send"}
  /\ text \in Content /\ last \in Content
  /\ message \in Seq(Content)
  /\ listID \in 0..Len(message) /\ unanswered \subseteq DOMAIN message
  /\ fails \in 0..MaxFails /\ deletes \in 0..MaxDeletes

Listed(g) == {online[i].user : i \in {j \in DOMAIN online : online[j].gw = g}}

(* The list holds the users that are online, each of them once: for every  *)
(* gateway whose last event has been relayed.  Entries are edited and      *)
(* sorted in different critical sections, and two gateways may be between  *)
(* the two at a time; still the list is in order when nobody is about to   *)
(* sort it.                                                                *)
ListIsOnline ==
  /\ (\A th \in Thread : step[th] # "sort") =>
       \A i, j \in DOMAIN online : i < j => InOrder(online[i], online[j])
  /\ \A g \in Gateways : step[<<g, "loop">>] # "relay" =>
      /\ Listed(g) = here[g]
      /\ \A i, j \in DOMAIN online :
           online[i].gw = g /\ online[j].gw = g /\ online[i].user = online[j].user => i = j

(* "the online user list": whatever access the relay asks for, a user that *)
(* left does not stay in the list.                                         *)
ListedAreOnline ==
  \A g \in Gateways : step[<<g, "loop">>] # "relay" => Listed(g) \subseteq here[g]

(* There is a single message: another one is deleted, or was posted by a   *)
(* request whose answer is lost.  The message of a request that succeeded  *)
(* is edited until somebody deletes it.                                    *)
SingleMessage ==
  \A id \in DOMAIN message :
    id # listID /\ id \notin unanswered => message[id] = NoText

(* "continously update a single message": whatever becomes of the answers, *)
(* there are no two messages in the channel.                               *)
OneAtATime ==
  \A id, other \in DOMAIN message :
    message[id] # NoText /\ message[other] # NoText => id = other

Shown == listID # NoMessage /\ message[listID] = Text

(* Failed requests and deleted messages are made up for, because the       *)
(* durations change: once the list rests, and is not empty, the message    *)
(* comes to show it.                                                       *)
ShownUnlessEmpty == <>[](online # <<>>) => []<>Shown

(* "continously update a single message with the online user list": once   *)
(* there is a list, and it rests, the message comes to show it.            *)
ListShown == <>[](updater # "none") => []<>Shown

=============================================================================
