------------------------------- MODULE Presence -------------------------------
(***************************************************************************)
(* Who is online in the channels of a Discord gateway                      *)
(* (gateway/discord/discord.go).                                           *)
(*                                                                         *)
(* Discord reports the status of members per guild, in order; the handlers *)
(* run one at a time (SyncEvents).  The gateway keeps one set of the users *)
(* that are online, whatever the guild, and fires Join and Leave on its    *)
(* channels of the guild.  When the connection is lost it clears all of    *)
(* it; discordgo then identifies anew, and Discord lists everybody, or     *)
(* resumes, and Discord sends only what was missed.                        *)
(***************************************************************************)
EXTENDS Naturals, SequencesExt

CONSTANTS Guilds,      \* guilds the bot is in
          ChannelsOf,  \* ChannelsOf[g]: the channels of guild g
          Configured,  \* the channels that are gateways
          Users,
          MaxChanges,  \* bound: things that happen at Discord
          MaxDrops,    \* bound: connections lost
          MaxFails     \* bound: reports for which something cannot be looked up

Channels == UNION {ChannelsOf[g] : g \in Guilds}

ASSUME ChannelAssumption ==
  /\ \A g, h \in Guilds : g # h => ChannelsOf[g] \cap ChannelsOf[h] = {}
  /\ Configured \subseteq Channels
ASSUME BoundAssumption == {MaxChanges, MaxDrops, MaxFails} \subseteq Nat

Event == [kind : {"online", "offline"}, guild : Guilds, user : Users]
         \cup [kind : {"create"}, guild : Guilds, present : SUBSET Users]
         \cup [kind : {"ready"}]

VARIABLES
  online,     \* users whose status is not offline
  member,     \* member[g]: members of guild g
  views,      \* views[c]: users allowed to view channel c, as discordgo has it
  queue,      \* what Discord sent, or will send when the session is resumed
  up,         \* the gateway is connected
  changes,
  drops,
  fails,
  users,      \* Gateway.users
  guilds,     \* Gateway.guilds
  announced,  \* history: users with a Join and no Leave on channel c since its last Clear
  unsure      \* history: users that may be online without a Join: all of them once a
              \* session is resumed, those whose permissions changed, and those who
              \* could not be looked up

discordVars == <<online, member, views, changes>>
gatewayVars == <<users, guilds, announced>>
vars == <<discordVars, queue, up, drops, fails, gatewayVars, unsure>>

Init ==
  /\ online \in SUBSET Users
  /\ member = [g \in Guilds |-> Users]
  /\ views \in [Channels -> {Users, {}}]
  /\ queue = <<>>
  /\ up = FALSE
  /\ changes = 0
  /\ drops = 0
  /\ fails = 0
  /\ users = {}
  /\ guilds = [g \in Guilds |-> {}]
  /\ announced = [c \in Configured |-> {}]
  /\ unsure = {}

-----------------------------------------------------------------------------
(* Discord *)

Happens ==
  /\ changes < MaxChanges
  /\ changes' = changes + 1
  /\ UNCHANGED <<up, drops, fails, gatewayVars>>

(* A report per guild that the user is a member of, in any order.          *)
StatusChanges(u) ==
  /\ Happens
  /\ online' = IF u \in online THEN online \ {u} ELSE online \cup {u}
  /\ LET kind == IF u \in online THEN "offline" ELSE "online"
     IN  \E s \in SetToSeqs({[kind |-> kind, guild |-> g, user |-> u] :
                               g \in {h \in Guilds : u \in member[h]}}) :
           queue' = queue \o s
  /\ UNCHANGED <<member, views, unsure>>

(* GUILD_MEMBER_REMOVE: goop handles it as a user who goes offline.        *)
LeavesGuild(g, u) ==
  /\ Happens
  /\ u \in member[g]
  /\ member' = [member EXCEPT ![g] = @ \ {u}]
  /\ queue' = Append(queue, [kind |-> "offline", guild |-> g, user |-> u])
  /\ UNCHANGED <<online, views, unsure>>

PermissionChanges(c, u) ==
  /\ Happens
  /\ views' = [views EXCEPT ![c] = IF u \in @ THEN @ \ {u} ELSE @ \cup {u}]
  /\ unsure' = unsure \cup {u}
  /\ UNCHANGED <<online, member, queue>>

(* A new session: Ready, then every guild with its members that are        *)
(* online.  A resumed session: what was missed.                            *)
Identify ==
  /\ ~up
  /\ up' = TRUE
  /\ \E s \in SetToSeqs({[kind |-> "create", guild |-> g, present |-> online \cap member[g]] :
                           g \in Guilds}) :
       queue' = <<[kind |-> "ready"]>> \o s
  /\ unsure' = {}
  /\ UNCHANGED <<discordVars, drops, fails, gatewayVars>>

Resume ==
  /\ ~up /\ drops > 0
  /\ up' = TRUE
  /\ unsure' = Users
  /\ UNCHANGED <<discordVars, queue, drops, fails, gatewayVars>>

-----------------------------------------------------------------------------
(* The gateway *)

(* Mutant: users is not emptied.                                           *)
clear_UsersKept ==
  /\ announced' = [c \in Configured |-> {}]
  /\ UNCHANGED users

clear ==
  /\ announced' = [c \in Configured |-> {}]
  /\ users' = {}

onDisconnect ==
  /\ up /\ drops < MaxDrops
  /\ up' = FALSE
  /\ drops' = drops + 1
  /\ clear
  /\ UNCHANGED <<discordVars, queue, fails, guilds, unsure>>

Receives(kind) ==
  /\ up /\ queue # <<>> /\ Head(queue).kind = kind
  /\ queue' = Tail(queue)
  /\ UNCHANGED <<discordVars, up, drops>>

(* The guilds that Ready names have no channels and no members yet.        *)
onReady ==
  /\ Receives("ready")
  /\ clear
  /\ guilds' = [g \in Guilds |-> {}]
  /\ UNCHANGED <<fails, unsure>>

(* Who is not yet tracked is looked up for every channel of the guild: the *)
(* permission, then the user.                                              *)
Lookups(in, arrivals) == {p \in in \X (arrivals \ users) : p[2] \in views[p[1]]}

(* When a look-up fails an error is fired, and there is no Join.           *)
Fail(failed) ==
  /\ failed # {} => fails < MaxFails
  /\ fails' = IF failed = {} THEN fails ELSE fails + 1
  /\ unsure' = unsure \cup {p[2] : p \in failed}

(* Mutant: who cannot be looked up, or may view no channel, is tracked.    *)
Arrive_Untracked(in, arrivals) ==
  \E failed \in SUBSET Lookups(in, arrivals) :
    LET joins == Lookups(in, arrivals) \ failed IN
    /\ Fail(failed)
    /\ announced' = [c \in Configured |-> announced[c] \cup {p[2] : p \in {q \in joins : q[1] = c}}]
    /\ users' = users \cup arrivals

(* updatePresence of users that are online: those that are not yet tracked *)
(* get a Join on the channels they may view, and are tracked if there was  *)
(* such a channel.                                                         *)
Arrive(in, arrivals) ==
  \E failed \in SUBSET Lookups(in, arrivals) :
    LET joins == Lookups(in, arrivals) \ failed IN
    /\ Fail(failed)
    /\ announced' = [c \in Configured |-> announced[c] \cup {p[2] : p \in {q \in joins : q[1] = c}}]
    /\ users' = users \cup {p[2] : p \in joins}

(* Mutant: Leave goes to the channels the user may view now.               *)
Depart_Viewed(in, u) ==
  /\ announced' = [c \in Configured |->
       IF u \in users /\ c \in in /\ u \in views[c] THEN announced[c] \ {u} ELSE announced[c]]
  /\ users' = users \ {u}

(* updatePresence of a user who is offline: Leave on every channel of the  *)
(* guild.                                                                  *)
Depart(in, u) ==
  /\ announced' = [c \in Configured |->
       IF u \in users /\ c \in in THEN announced[c] \ {u} ELSE announced[c]]
  /\ users' = users \ {u}

onGuildCreate ==
  /\ Receives("create")
  /\ LET g == Head(queue).guild
     IN  guilds' = [guilds EXCEPT ![g] = ChannelsOf[g] \cap Configured]
  /\ Arrive(guilds'[Head(queue).guild], Head(queue).present)

onPresenceUpdate ==
  /\ Receives("online")
  /\ Arrive(guilds[Head(queue).guild], {Head(queue).user})
  /\ UNCHANGED guilds

onOffline ==
  /\ Receives("offline")
  /\ Depart(guilds[Head(queue).guild], Head(queue).user)
  /\ UNCHANGED <<fails, guilds, unsure>>

-----------------------------------------------------------------------------

Next ==
  \/ \E u \in Users : StatusChanges(u)
  \/ \E g \in Guilds, u \in Users : LeavesGuild(g, u)
  \/ \E c \in Channels, u \in Users : PermissionChanges(c, u)
  \/ Identify \/ Resume
  \/ onDisconnect \/ onReady \/ onGuildCreate \/ onPresenceUpdate \/ onOffline

Spec == Init /\ [][Next]_vars

-----------------------------------------------------------------------------

TypeOK ==
  /\ online \subseteq Users /\ users \subseteq Users /\ unsure \subseteq Users
  /\ member \in [Guilds -> SUBSET Users]
  /\ views \in [Channels -> SUBSET Users]
  /\ queue \in Seq(Event)
  /\ up \in BOOLEAN
  /\ changes \in 0..MaxChanges /\ drops \in 0..MaxDrops /\ fails \in 0..MaxFails
  /\ guilds \in [Guilds -> SUBSET Configured]
  /\ announced \in [Configured -> SUBSET Users]

UpToDate == up /\ queue = <<>>

Entitled(c) == online \cap views[c] \cap UNION {member[g] : g \in {h \in Guilds : c \in ChannelsOf[h]}}

(* users is exactly who has been announced somewhere: nobody gets a second *)
(* Join, and nobody who is announced misses the Leave.                     *)
TrackedAreAnnounced == users = UNION {announced[c] : c \in Configured}

(* Nobody is announced who is offline or left the guild, across lost       *)
(* connections and whatever happens to permissions.                        *)
AnnouncedAreOnline ==
  UpToDate => \A g \in Guilds : \A c \in ChannelsOf[g] \cap Configured :
                announced[c] \subseteq online \cap member[g]

(* Whoever is online and may view a channel is announced there, but for    *)
(* those the gateway cannot know of or could not look up since the session *)
(* began.                                                                  *)
OnlineAreAnnounced == UpToDate => \A c \in Configured : Entitled(c) \ unsure \subseteq announced[c]

(* "the online user list": everybody online is on it, after a resumed      *)
(* session too.                                                            *)
ResumedAreAnnounced ==
  UpToDate /\ changes = 0 => \A c \in Configured : Entitled(c) \subseteq announced[c]

=============================================================================
