------------------------------- MODULE Moderation -------------------------------
(***************************************************************************)
(* Who may be in a channel of Battle.net: the commands set, ban, unban and *)
(* kick (goop/cmd), aliases, auto-kick (goop/goop.go) and the bans that    *)
(* are seen in the channel (gateway/bnet/bnet.go).                         *)
(*                                                                         *)
(* A command runs in a goroutine of its own.  It looks up its users and    *)
(* their levels once, and changes them one after the other: first a level, *)
(* then a line to the server.  The loop that reads what the server reports *)
(* changes the same levels, in handlers that read a level first and act on *)
(* it later.  Other operators ban and unban too; the server reports all of *)
(* that, late.                                                             *)
(*                                                                         *)
(* The queue of lines to the server is what SayFifo promises, at most Cap  *)
(* lines that the server has not handled.                                  *)
(***************************************************************************)
EXTENDS Access, Sequences, FiniteSets

CONSTANTS Users,         \* people
          Anybody,       \* the pattern that matches everybody
          Placeholder,   \* the text "%ARG1%"
          BaseAccess,    \* the level by AccessTalk and the groups of the configuration
          DefaultUser,   \* AccessUser of the section of defaults
          InitAccess,    \* AccessUser at the start, several values
          Operator,      \* is the bot an operator at the start?
          Issuers,       \* who types commands: [id, access, here]
          Inputs,        \* what they type: [cmd, args]
          Alias,         \* the aliases of the configuration
          Cap,           \* lines the queue holds
          MaxCommands,   \* bound: commands typed
          MaxEvents      \* bound: what people in the channel do

(* An AccessUser entry may have any text as its key.                       *)
Ids == Users \cup {Anybody, Placeholder}

Commands == {"set", "ban", "unban", "kick"}

ASSUME UsersAssumption ==
  /\ Anybody \notin Users /\ Placeholder \notin Users \cup {Anybody}
  /\ BaseAccess \in [Ids -> Int32]
  /\ DefaultUser \in [Ids -> Int32]
  /\ InitAccess \subseteq [Ids -> Int32]
  /\ Operator \in BOOLEAN
  /\ \A by \in Issuers : by.access \in Int32 /\ by.here \in BOOLEAN
ASSUME NamesAssumption == NLevels = 12 /\ ConLevels[7] = 0
ASSUME AliasAssumption ==
  /\ DOMAIN Alias \cap Commands = {}
  /\ \E rank \in [DOMAIN Alias -> 1..Cardinality(DOMAIN Alias)] :
       \A a, b \in DOMAIN Alias : Alias[a].exe = b => rank[b] < rank[a]
ASSUME ModerationBounds == Cap \in Nat /\ MaxCommands \in Nat /\ MaxEvents \in Nat

Slot == 1..MaxCommands

AccessAdmin == ConLevels[3]
AccessOperator == ConLevels[4]
AccessWhitelist == ConLevels[5]
AccessDefault == 0
AccessKick == ConLevels[9]
AccessBan == ConLevels[10]
AccessBlacklist == ConLevels[11]

(* The default configuration of the commands.                              *)
Priviledge(name) ==
  CASE name = "set" -> AccessAdmin
    [] name \in {"ban", "unban", "kick"} -> AccessOperator
    [] OTHER -> AccessDefault
AccessOverride == AccessAdmin

VARIABLES
  accessUser, \* AccessUser: 0 where there is no entry
  operator,   \* is the bot an operator, as far as it knows
  present,    \* the users of the channel, as far as it knows
  saych,      \* lines to the server
  loop,       \* what the handler that runs is about to do
  cmd,        \* the commands
  channel,    \* at the server: who is in the channel
  banned,     \* who is banned from it
  isOperator, \* is the bot an operator
  reports,    \* what the server has reported, still unread
  events,     \* how often somebody did something
  tracked,    \* history: was the level last changed by a ban or an unban?
  unwanted,   \* history: was a user to be kicked when he last joined or talked?
  lapsed      \* history: a line was refused by the queue or for lack of rights

bot == <<accessUser, operator, present, saych, loop, cmd>>
server == <<channel, banned, isOperator>>
histories == <<tracked, unwanted, lapsed>>
vars == <<bot, server, reports, events, histories>>

-----------------------------------------------------------------------------
(* Users and their levels.                                                 *)

user(u) == IF accessUser[u] # AccessDefault THEN accessUser[u] ELSE BaseAccess[u]

(* User finds those in the channel, and those with an entry.               *)
Found(u) == u \in present \/ accessUser[u] # AccessDefault
User(u) == [id |-> u, access |-> IF u \in present THEN user(u) ELSE accessUser[u]]

(* A pattern that is the name of somebody is not matched with others.      *)
FindUser(pat) ==
  IF Found(pat) THEN {User(pat)}
  ELSE IF pat = Anybody THEN {User(u) : u \in {v \in Ids : Found(v)}}
  ELSE {}

FindUserInChannel(pat) ==
  IF Found(pat) THEN {User(pat)}
  ELSE IF pat = Anybody THEN {User(u) : u \in present}
  ELSE {}

(* Whoever is not found is taken by the text that was typed.               *)
OrTyped(found, pat) == IF found = {} THEN {[id |-> pat, access |-> AccessDefault]} ELSE found

(* The default level removes the entry; main answers the ConfigUpdate by   *)
(* merging the defaults, which may have one too.                           *)
SetUserAccess(u, a, byBan) ==
  /\ accessUser' = [accessUser EXCEPT ![u] = IF a = AccessDefault THEN DefaultUser[u] ELSE a]
  /\ tracked' = [tracked EXCEPT ![u] = byBan]

Full == Len(saych) >= Cap

Line(type, u) == [type |-> type, id |-> u]

(* The bot is to send a line of an operator, and may have to refuse.       *)
Send(line) == operator /\ ~Full /\ saych' = Append(saych, line)
Refused == ~operator \/ Full

-----------------------------------------------------------------------------
(* Commands.                                                               *)

NoCommand == [phase |-> "none", by |-> [id |-> Anybody, access |-> 0, here |-> FALSE],
              cmd |-> "none", args |-> <<>>, todo |-> {}, cur |-> Anybody]

Ended == [NoCommand EXCEPT !.phase = "done"]

(* execTrigger: if there is such a command, whoever may execute it has a   *)
(* goroutine started.                                                      *)
execTrigger(by, name, args) ==
  IF name \in Commands \cup DOMAIN Alias /\ by.access >= Priviledge(name)
    THEN [NoCommand EXCEPT !.phase = "start", !.by = by, !.cmd = name, !.args = args]
    ELSE Ended

(* Somebody types a command, here or on another gateway.                   *)
Type(i) ==
  /\ cmd[i] = NoCommand
  /\ \A j \in 1..(i - 1) : cmd[j] # NoCommand
  /\ \E by \in Issuers, typed \in Inputs :
       cmd' = [cmd EXCEPT ![i] = execTrigger(by, typed.cmd, typed.args)]
  /\ UNCHANGED <<accessUser, operator, present, saych, loop, server, reports, events, histories>>

(* An argument is replaced where there are more arguments than its index.  *)
Replace(a, args) ==
  IF a.arg = 0 THEN a.text
  ELSE IF Len(args) <= a.arg THEN Placeholder ELSE args[a.arg]

(* Alias.Execute fires the command it stands for, as a trigger.            *)
ExecuteAlias(i) ==
  /\ cmd[i].phase = "start" /\ cmd[i].cmd \in DOMAIN Alias
  /\ LET c == cmd[i]
         a == Alias[c.cmd]
         args == IF a.arg = <<>> THEN c.args ELSE [k \in DOMAIN a.arg |-> Replace(a.arg[k], c.args)]
         by == IF a.with = AccessDefault THEN c.by ELSE [c.by EXCEPT !.access = a.with]
     IN cmd' = [cmd EXCEPT ![i] =
          IF Len(c.args) < a.expected THEN [c EXCEPT !.phase = "reply"] ELSE execTrigger(by, a.exe, args)]
  /\ UNCHANGED <<accessUser, operator, present, saych, loop, server, reports, events, histories>>

(* Set: the level that is typed, or a default; it must be below one's own. *)
SetLevel(c) ==
  IF Len(c.args) <= 1 THEN AccessWhitelist
  ELSE IF c.args[2] \in Text THEN UnmarshalText(c.args[2])
  ELSE Error

MaySet(c, u) == u.id # c.by.id /\ u.access # SetLevel(c) /\ u.access < c.by.access

(* Ban and Kick: those below oneself, and the protected ones for an admin. *)
MayBan(c, u) ==
  /\ u.id # c.by.id /\ u.access < c.by.access
  /\ u.access < AccessWhitelist \/ c.by.access >= AccessOverride

MayUnban(c, u) ==
  u.id # c.by.id /\ (u.access > AccessBlacklist \/ c.by.access >= AccessOverride)

(* The users a command acts on, with the levels they have now.             *)
Targets(c) ==
  LET pat == c.args[1] IN
  CASE c.cmd = "set"   -> IF SetLevel(c) = Error \/ SetLevel(c) >= c.by.access THEN {}
                          ELSE {u \in OrTyped(FindUser(pat), pat) : MaySet(c, u)}
    [] c.cmd = "ban"   -> {u \in OrTyped(FindUserInChannel(pat), pat) : MayBan(c, u)}
    [] c.cmd = "kick"  -> {u \in FindUserInChannel(pat) : MayBan(c, u)}
    [] c.cmd = "unban" -> {u \in OrTyped(FindUser(pat), pat) : MayUnban(c, u)}

LookUp(i) ==
  /\ cmd[i].phase = "start" /\ cmd[i].cmd \in Commands
  /\ cmd' = [cmd EXCEPT ![i].phase = "act", ![i].todo = Targets(cmd[i])]
  /\ UNCHANGED <<accessUser, operator, present, saych, loop, server, reports, events, histories>>

(* The loop over the users: the level of the next one is changed.  Kick    *)
(* leaves it alone, and so does Unban if it was not below the default.     *)
ChangeLevel(i) ==
  /\ cmd[i].phase = "act"
  /\ \E u \in cmd[i].todo :
       LET name == cmd[i].cmd
           next == [cmd[i] EXCEPT !.todo = @ \ {u}, !.cur = u.id] IN
       /\ cmd' = [cmd EXCEPT ![i] = IF name = "set" THEN next ELSE [next EXCEPT !.phase = "say"]]
       /\ CASE name = "set" -> SetUserAccess(u.id, SetLevel(next), FALSE)
            [] name = "ban" -> SetUserAccess(u.id, AccessBan, TRUE)
            [] name = "unban" /\ u.access < AccessDefault -> SetUserAccess(u.id, AccessDefault, TRUE)
            [] OTHER -> UNCHANGED <<accessUser, tracked>>
  /\ UNCHANGED <<operator, present, saych, loop, server, reports, events, unwanted, lapsed>>

(* Gateway.Ban, Unban and Kick.  A refusal ends the command, whoever else  *)
(* it was to act on.                                                       *)
SendLine(i) ==
  /\ cmd[i].phase = "say"
  /\ \/ /\ Send(Line(cmd[i].cmd, cmd[i].cur))
        /\ cmd' = [cmd EXCEPT ![i].phase = "act"]
        /\ UNCHANGED <<tracked, lapsed>>
     \/ /\ Refused
        /\ cmd' = [cmd EXCEPT ![i].phase = "reply"]
        /\ tracked' = IF cmd[i].cmd = "kick" THEN tracked ELSE [tracked EXCEPT ![cmd[i].cur] = FALSE]
        /\ lapsed' = TRUE
        /\ UNCHANGED saych
  /\ UNCHANGED <<accessUser, operator, present, loop, server, reports, events, unwanted>>

(* Mutant: a reply waits until all that was said before is sent.           *)
Reply_Waits(i) ==
  /\ cmd[i].phase = "reply" \/ (cmd[i].phase = "act" /\ cmd[i].todo = {})
  /\ saych = <<>>
  /\ cmd' = [cmd EXCEPT ![i] = Ended]
  /\ saych' = IF cmd[i].by.here /\ ~Full THEN Append(saych, Line("say", Anybody)) ELSE saych
  /\ UNCHANGED <<accessUser, operator, present, loop, server, reports, events, histories>>

(* The reply goes where the command came from.                             *)
Reply(i) ==
  /\ cmd[i].phase = "reply" \/ (cmd[i].phase = "act" /\ cmd[i].todo = {})
  /\ cmd' = [cmd EXCEPT ![i] = Ended]
  /\ saych' = IF cmd[i].by.here /\ ~Full THEN Append(saych, Line("say", Anybody)) ELSE saych
  /\ UNCHANGED <<accessUser, operator, present, loop, server, reports, events, histories>>

-----------------------------------------------------------------------------
(* The loop that reads the reports of the server.                          *)

Idle == [step |-> "idle", id |-> Anybody, access |-> AccessDefault]
About(step, u, a) == [step |-> step, id |-> u, access |-> a]

(* Mutant: onSystemMessage looks at bans only.                             *)
Persists_BansOnly(r) == r.type = "banned" /\ accessUser[r.id] > AccessBan /\ accessUser[r.id] < AccessWhitelist

(* The bans and unbans onSystemMessage makes its own.                      *)
Persists(r) ==
  \/ r.type = "banned" /\ accessUser[r.id] > AccessBan /\ accessUser[r.id] < AccessWhitelist
  \/ r.type = "unbanned" /\ accessUser[r.id] < AccessDefault

(* Mutant: those to be kicked are let in, and kicked when they talk.       *)
Kicks_Talkers(r) == r.type = "talked" /\ user(r.id) <= AccessKick
Kicks(r) == r.type \in {"joined", "talked"} /\ user(r.id) <= AccessKick

(* The client notes who is there, and its handlers begin.                  *)
Read ==
  /\ loop = Idle
  /\ reports # <<>>
  /\ reports' = Tail(reports)
  /\ LET r == Head(reports) IN
       /\ present' = CASE r.type = "joined" -> present \cup {r.id}
                       [] r.type = "left" -> present \ {r.id}
                       [] OTHER -> present
       /\ operator' = CASE r.type = "opped" -> TRUE [] r.type = "deopped" -> FALSE [] OTHER -> operator
       /\ loop' = CASE Persists(r) -> About("persist", r.id, IF r.type = "banned" THEN AccessBan ELSE AccessDefault)
                    [] Kicks(r) -> About("kick", r.id, user(r.id))
                    [] OTHER -> Idle
       /\ unwanted' = IF r.type \in {"joined", "talked", "left"}
                        THEN [unwanted EXCEPT ![r.id] = r.type # "left" /\ user(r.id) <= AccessKick]
                        ELSE unwanted
  /\ UNCHANGED <<accessUser, saych, cmd, server, events, tracked, lapsed>>

(* ... and go on: a ban or unban is persisted.                             *)
Persist ==
  /\ loop.step = "persist"
  /\ SetUserAccess(loop.id, loop.access, TRUE)
  /\ loop' = Idle
  /\ UNCHANGED <<operator, present, saych, cmd, server, reports, events, unwanted, lapsed>>

(* autoKick; an error is fired on the main object.                         *)
AutoKick ==
  /\ loop.step = "kick"
  /\ loop' = Idle
  /\ \/ /\ Send(Line(IF loop.access <= AccessBan THEN "ban" ELSE "kick", loop.id))
        /\ UNCHANGED lapsed
     \/ /\ Refused
        /\ lapsed' = TRUE
        /\ UNCHANGED saych
  /\ UNCHANGED <<accessUser, operator, present, cmd, server, reports, events, tracked, unwanted>>

-----------------------------------------------------------------------------
(* The server, and the people in the channel.                              *)

Report(types, u) == [k \in DOMAIN types |-> Line(types[k], u)]

(* What the server tells of a line of an operator.                         *)
Leaves(u) == IF u \in channel THEN <<"left">> ELSE <<>>

BanAtServer(u) ==
  /\ u \in Users \ banned
  /\ banned' = banned \cup {u}
  /\ channel' = channel \ {u}
  /\ reports' = reports \o Report(<<"banned">> \o Leaves(u), u)

UnbanAtServer(u) ==
  /\ u \in banned
  /\ banned' = banned \ {u}
  /\ reports' = Append(reports, Line("unbanned", u))
  /\ UNCHANGED channel

KickAtServer(u) ==
  /\ u \in channel
  /\ channel' = channel \ {u}
  /\ reports' = Append(reports, Line("left", u))
  /\ UNCHANGED banned

(* The server handles a line.                                              *)
Serve ==
  /\ saych # <<>>
  /\ saych' = Tail(saych)
  /\ LET l == Head(saych)
         obeyed == \/ l.type = "ban" /\ BanAtServer(l.id)
                   \/ l.type = "unban" /\ UnbanAtServer(l.id)
                   \/ l.type = "kick" /\ KickAtServer(l.id)
         idle == \/ l.type = "say"
                 \/ l.type = "ban" /\ l.id \notin Users \ banned
                 \/ l.type = "unban" /\ l.id \notin banned
                 \/ l.type = "kick" /\ l.id \notin channel
     IN \/ isOperator /\ obeyed /\ UNCHANGED <<tracked, lapsed>>
        \/ idle /\ UNCHANGED <<channel, banned, reports, tracked, lapsed>>
        \/ /\ ~isOperator /\ ~idle
           /\ tracked' = IF l.type = "kick" THEN tracked ELSE [tracked EXCEPT ![l.id] = FALSE]
           /\ lapsed' = TRUE
           /\ UNCHANGED <<channel, banned, reports>>
  /\ UNCHANGED <<accessUser, operator, present, loop, cmd, isOperator, events, unwanted>>

(* People join, talk and leave; other operators ban and unban; the bot     *)
(* becomes an operator, or is one no more.                                 *)
Joins(u) ==
  /\ u \notin channel \cup banned
  /\ channel' = channel \cup {u}
  /\ reports' = Append(reports, Line("joined", u))
  /\ UNCHANGED <<banned, isOperator>>

Talks(u) ==
  /\ u \in channel
  /\ reports' = Append(reports, Line("talked", u))
  /\ UNCHANGED server

Opped ==
  /\ isOperator' = ~isOperator
  /\ reports' = Append(reports, Line(IF isOperator THEN "deopped" ELSE "opped", Anybody))
  /\ UNCHANGED <<channel, banned>>

People ==
  /\ events < MaxEvents
  /\ events' = events + 1
  /\ \/ \E u \in Users : \/ Joins(u)
                         \/ Talks(u)
                         \/ KickAtServer(u) /\ UNCHANGED isOperator
                         \/ BanAtServer(u) /\ UNCHANGED isOperator
                         \/ UnbanAtServer(u) /\ UNCHANGED isOperator
     \/ Opped
  /\ UNCHANGED <<bot, histories>>

-----------------------------------------------------------------------------

Init ==
  /\ accessUser \in InitAccess
  /\ operator = Operator /\ isOperator = Operator
  /\ present \in SUBSET Users /\ channel = present
  /\ banned = {u \in Users \ present : accessUser[u] <= AccessBan}
  /\ saych = <<>> /\ reports = <<>>
  /\ loop = Idle
  /\ cmd = [i \in Slot |-> NoCommand]
  /\ events = 0
  /\ tracked = [u \in Ids |-> FALSE]
  /\ unwanted = [u \in Users |-> FALSE]
  /\ lapsed = FALSE

Execute(i) == ExecuteAlias(i) \/ LookUp(i) \/ ChangeLevel(i) \/ SendLine(i) \/ Reply(i)

Handle == Read \/ Persist \/ AutoKick

Next ==
  \/ \E i \in Slot : Type(i) \/ Execute(i)
  \/ Handle
  \/ Serve
  \/ People

Spec == Init /\ [][Next]_vars

(* Goroutines are run; nothing is assumed of the server.                   *)
FairSpec == Spec /\ WF_vars(Handle) /\ \A i \in Slot : WF_vars(Execute(i))

-----------------------------------------------------------------------------

TypeOK ==
  /\ accessUser \in [Ids -> Int32]
  /\ operator \in BOOLEAN /\ isOperator \in BOOLEAN /\ lapsed \in BOOLEAN
  /\ present \subseteq Users /\ channel \subseteq Users /\ banned \subseteq Users
  /\ Len(saych) <= Cap
  /\ loop.step \in {"idle", "kick", "persist"} /\ loop.id \in Ids /\ loop.access \in Int32
  /\ \A i \in Slot : cmd[i].phase \in {"none", "start", "act", "say", "reply", "done"}
  /\ tracked \in [Ids -> BOOLEAN] /\ unwanted \in [Users -> BOOLEAN]

AtRest == \A i \in Slot : cmd[i].phase \in {"none", "done"}

Quiet == AtRest /\ saych = <<>> /\ reports = <<>> /\ loop = Idle

(* Every level that commands, aliases and bans store is there again when   *)
(* the configuration has been written and read: its text is one, and means *)
(* the same.                                                               *)
StoredLevels == \A u \in Ids : UnmarshalText(String(accessUser[u])) = accessUser[u]

(* The bans the bot remembers are those of the server: whatever commands,  *)
(* other operators and late reports do to a user at the same time, in the  *)
(* end his level is that of a banned user exactly if he is banned.  Except *)
(* for levels given by set, and bans the bot was not allowed to pass on.   *)
BansAgree ==
  Quiet => \A u \in Users : tracked[u] =>
             (u \in banned) = (accessUser[u] <= AccessBan)

(* Nobody stays who was to be kicked when he last joined or talked, though *)
(* he leaves and comes back while the line is on its way, unless a line    *)
(* was refused.                                                            *)
IntrudersRemoved ==
  Quiet /\ ~lapsed => \A u \in channel : ~unwanted[u]

(* A command comes to its end, through every alias, whatever the server    *)
(* does with the lines.                                                    *)
CommandsEnd == []<>AtRest

(* Counterexample: an alias acts on whom was typed.                        *)
AliasNamesUser ==
  \A i \in Slot : cmd[i].args # <<>> => cmd[i].args[1] # Placeholder

(* Counterexample, where no admin types: a blacklisted user is "only       *)
(* unbannable by admins".                                                  *)
BlacklistHolds == \A u \in Users : accessUser[u] <= AccessBan

(* Counterexample: a ban of another operator does not lower those who were *)
(* made trusted users before.                                              *)
PromotionKept ==
  [][\A u \in Users : loop # loop' /\ accessUser[u] >= AccessWhitelist => accessUser'[u] = accessUser[u]]_vars

=============================================================================
