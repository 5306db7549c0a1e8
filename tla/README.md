# A verification of goop

goop is a chat bot in Go that connects channels of Battle.net, Discord and the
terminal, relays what is said between them, executes commands and runs plugins.
This directory holds TLA+ models of its concurrent and stateful parts, the TLC
configurations that check them, and proofs for TLAPS. Paths are relative to the
root of the repository.

    tlc -workers 2 -config SayQueue.cfg SayQueue.tla    # a run
    tlapm SayQueueProofs.tla                            # the proofs of a module

`PROJECT.json` names for every run its module and properties, for every
definition the lines of source it stands for, for every property a mutant of the
code that breaks it, and for every hazard of the code the properties aimed at it.

## 1. Inventory

| Component | Source | State | Operations | Interacts with |
|---|---|---|---|---|
| Battle.net client | `gateway/bnet/bnet.go` | `saych`, the client's connection and users, `AccessUser` | Run, Say, SayPrivate, Kick, Ban, SetUserAccess, handlers of client events | fires gateway events; its `say` is called from every other goroutine |
| CAPI client | `gateway/capi/capi.go` | as above, and `users`: IDs by name | the same | the same |
| Discord | `gateway/discord/discord.go` | `users`, `guilds` | Run, handlers of discordgo events, updatePresence | fires events on its channels |
| Discord channel | `gateway/discord/channel.go` | `saych`, `webhookch`, `online`, the list message | Say, Relay, updateOnline, message parsing | target of relays |
| Terminal | `gateway/stdio/stdio.go` | its reader | Run, read, Relay | pipe fed by `main` |
| Common gateway code | `gateway/*.go` | trigger settings; access levels | Fire helpers, FindUser, ExtractTrigger, String/UnmarshalText of levels | used by all |
| Core | `goop/goop.go`, `goop/relay.go` | gateways, relays, commands | AddGateway, AddRelay, Run, execTrigger, auto-kick, auto-ban | handlers on every gateway |
| Commands | `goop/cmd/*.go` | `Settings`, `Alias` entries | Execute of each | run in a goroutine per trigger |
| Plugins | `goop/plugin/*.go`, `plugins/*.lua` | Lua state, timers | Load, Run, Close, AfterFunc | event handlers in Lua |
| Configuration | `config.go`, `structs.go` | `Config`, its hash; `config.persist.toml` | Load, Map, Merge, Set, Unset, Save | commands change it, `main` saves it |
| Program | `main.go` | context, signal channel, pipe | start, run, save loop, quit, restart | all |

What is hard in it, and what makes each part correct:

- **Messages to say.** Any goroutine may say something on any gateway; the first
  call makes a channel and a goroutine. Correct: one channel, the order of
  acceptance kept, no word of a message that was refused, no caller ever waits,
  every accepted message reaches the client.
- **Relays.** Handlers run synchronously and fire further events from within:
  an error of a relay is an event that is relayed. Correct: no echoes, copies in
  the order of origin, a reply after its question, bounded recursion, errors
  reported unless someone prevents the report, every Fire returns.
- **Who is online.** Three views of the same fact: the IDs of capi, the set of
  Discord users, the list shown in a Discord channel. Events come from several
  goroutines, connections are lost, requests fail. Correct: the view is what the
  server last said, once all it said is read.
- **Ending.** A signal, `.quit`, `.restart`, the end of all gateways; sessions,
  logons and pauses under way. Correct: the run ends, plugins are told when all gateways have ended, and
  a signal is not forgotten between two runs.
- **Persistence.** A difference of two configurations is written while commands
  change one of them. Correct: what was saved is what is loaded, and all that
  changes is saved sometime.
- **Timers.** A timer may fire while it is cancelled, registered or stopped.
  Correct: a cancel tells the truth and Stop reaches what is registered.
- **Levels.** The text of a level is all that the file keeps of it. Correct: it
  is read back the same, over all 32 bits.
- **Moderation.** Commands, handlers of the client and other operators change
  the level of a user and the bans of the server, each in two steps that the
  others come between. Correct: in the end the level and the server agree, who
  is to be kicked does not stay, and a command ends through every alias.
- **Nested settings.** Setting one key copies, maps, strips and merges back the
  whole tree. Correct: all other keys keep their value, a relay does not
  turn into another.

## 2. Modules

`SayFifo` is an abstract specification: a queue of bounded capacity that either
accepts or refuses, and handles what it accepted in order. `SayQueue` is the
code; it instantiates `SayFifo` with a refinement mapping that says which of
its steps accept, refuse and handle. `Relay` is built on what `SayFifo`
promises: its gateways have a bounded log of lines instead of the steps of the
queue. `Moderation` is built on the same promise, and on `Access`, for the levels that
it stores. `ConfigTree` extends `ConfigPersist` and says with the operators of
`Structs` that the flat configuration of the one is the nested one of the code.
The other modules model components that meet only through events, and
each has the events of its environment as actions. `MC...` modules only give
constants their values. `...Proofs` modules hold theorems; `SayQueueProofs` is
about `SayFifo` too, `ModerationProofs` about `Access`, `ConfigPersistProofs`
about `ConfigTree` and `Structs`, and `LifecycleProofs` about `Lifecycle`, `Timers`, whose specification is called `TimersSpec`, and an instance of `Terminal`.

| Module | Models | State in the model and in the code |
|---|---|---|
| `SayQueue` | `say` and `Say` (bnet.go:169-203, capi.go, channel.go have the same code) | `smut`, `saych`, the buffer and the parked reader of each Go channel, the program counter of each caller; `accepted`, `handled`, `said` are histories |
| `Relay` | Fire on a gateway with the handlers of `AddGateway` and `Relay` | a stack of event frames per goroutine, as Go's call stack; the queue of each gateway; commands started and not yet run |
| `OnlineList` | `Channel.Relay`, `updateOnline`, filters of `Relay` | `online`, `signal`, `last`, the posted messages; per gateway and goroutine the event being relayed; `here` and `access` are what the source gateway knows |
| `Timers` | `timers.go` | `stop`, `timers`; for each timer the state of the Go runtime and of the two functions that may touch it |
| `ConfigPersist` | `Config` | three keys stand for the three kinds: a default section, a field that falls back to it, an entry of a map; `conf`, `def`, `file`, `hash` |
| `Lifecycle` | `Run` of four gateways, `goop.Run`, `main` | where each goroutine is; connection, delay and failures per client; context and signal |
| `Terminal` | main.go:267-278, 311 and stdio.go | the pipe `pw` of the current run, the goroutine of the terminal, a reader per run |
| `Structs` | `merge`, `Map`, `DeleteEqual`, `Find`, `Set`, `Unset` of structs.go | a tree of structs, maps and leaves; operators without state. The functions that call themselves are unrolled: one operator for each level, six below the root |
| `ConfigTree` | `MergeDefaults`, `Map`, `GetRelay`, `Set` of config.go on such trees | the tree that stands for the keys of `ConfigPersist`, the chain of defaults above a gateway, the relays |
| `Access` | `String`, `UnmarshalText` of access.go | operators without state; `Moderation` uses it |
| `Moderation` | `set`, `ban`, `unban`, `kick`, `alias` of `cmd`, `execTrigger`, auto-kick, `Ban`, `Kick`, `SetUserAccess`, `onSystemMessage` of bnet.go, `FindUser` | `AccessUser`, the queue of lines, where each command and the handler are; who is in the channel, banned and an operator at the server; the unread reports |
| `CapiUsers` | `users` of capi.go, and the goroutines of `SayPrivate`, `Kick` and `Ban` | sessions as the server has them, the unread reports, `users`, the ID each goroutine has looked up |
| `Presence` | `users`, `guilds` of discord.go | status, members and permissions at Discord, the unread events, `users`, `guilds`, and who has been announced per channel |

A step of a model is what the code does between two points where another
goroutine can be seen: a critical section, a channel operation, an atomic
effect of an external call. Handlers that run on the one reading goroutine of a
gateway (capi, Discord with SyncEvents) are one step; where such a handler may be
overtaken (`OnlineList`, `Relay`) it is several.

### Abstractions

- Messages, users and gateways are names. Texts, times and levels keep what
  the guards distinguish. Times of joining are numbered; the text of the list is
  what it lists, with `fresh` when only the durations changed.
- `OnlineList` has no plugin that prevents an event: then a gateway's relay is not
  reached at all. The loop that copies all entries but those of a gateway, and
  `sort.Slice`, are rearrangements: the new list has at place k the old entry at
  `f[k]`, where `f` is increasing for the copy, and for the sort any bijection that puts
  nobody behind someone he belongs before; this is what the sort guarantees. `Fit` bounds the lines that fit into a message, as the code
  does for 2000 characters, and is 1 in the runs, so that lists that do not fit occur.
- `Relay` has chat, Say, trigger and error events, with all handlers of `AddGateway` for
  them: the catch-all, in which a plugin may prevent any event, the relays, `execTrigger`, the
  kick of who may not chat, and `checkTriggerChat`, which fires a trigger from within
  the Fire of a chat (goop.go:162). That of whispers (`checkTriggerPrivateChat`, goop.go:80) is left
  out: whispers have no order against the relays of a channel. `dropped` counts every line that is
  lost: copies, kicks and replies over a full queue, and lines the server did not
  take. `excused` counts those nobody is told of: the queue's goroutine says
  nothing when the connection is closed (bnet.go:177, capi.go:178), and a plugin may
  prevent the error. A relay swallows errors of a closed connection too (relay.go:64), but a queue
  refuses with `ErrSayBufferFull` only. `RankAssumption` says that
  Log relays have no cycle; with one, and a full queue in it, the recursion has
  no bound but the drain of that queue.
- `Moderation` has one channel and three kinds of patterns: a name, one that
  matches everybody, and the text `%ARG1%` that an alias leaves where an argument
  is missing. A command looks up its users in one step, sends and stores in
  one step each: `main` sets `GOMAXPROCS(1)` (main.go:256), so that two writes
  of the map are taken as whole calls. `AliasAssumption` says that aliases have no
  cycle; one with a cycle fires for ever. Bans that capi sees are persisted
  by the same code as those of bnet. Octal numbers are left out.
- `CapiUsers` leaves the bot out; it has ID 1 on every connection.
- `Structs` takes names as equal or not, where the code ignores case, and a list
  as a leaf. A setting is at most six levels below the root
  (`Relay.To[g].From[h].ChatAccess`), and so deep do its operators go; below that they
  meet leaves only. In `ConfigTree` the sections of Capi and Discord are
  treated as that of BNet.
- `ConfigPersist` writes the file in two steps, truncation and content. A write
  that stores a part of the content is not modelled. Its keys are values, so
  that what `structs.go` does by reflection is restriction and override of functions.
- `Lifecycle` numbers pauses in units with the limits `Low` and `High`.
- In `Access` the width of an integer is a constant, and addition wraps at it.
  Its text is a named level and what is added to it.
- The libraries (bnet, capi, discordgo, the Lua interpreter) are not in the
  repository. They are modelled from their use: Run of a client ends when its
  connection does, a Close before Logon does not reach the later connection,
  events come in the order of the connection, a resumed Discord session brings
  what was missed and no Ready.

## 3. Runs

The runs of `PROJECT.json`, with the number of distinct states:

| Run | Question | Bounds, and why they suffice |
|---|---|---|
| `SayQueue` (142k) | is there one channel, is order kept, is nothing said of a refused line, is `SayFifo` implemented, does Say return, is every accepted line handled? | two callers with two calls, one place: both race for the first use, and with a line in hand and one in the buffer the last two lines meet a full queue; the proofs lift the bounds |
| `Relay_order` (1.7M) | no copy twice, order of origin, replies after questions | two gateways relaying to each other, two messages, each of which may be a command, or ask for the trigger |
| `Relay_errors` (150k) | bounded nesting, every loss reported or excused, every Fire returns | one place per queue and two failing sends; the log relays a to b to console are the longest chain of three gateways; levels at both thresholds |
| `OnlineList` (559k) | is the list who is online, in order, and shown in one message in the end? | two gateways, each with a loop and a command goroutine, three events: two relays between the two critical sections and one more; a request that fails, carried out or not, and a deleted message |
| `Timers` | cancel, Stop and registration against firing | three timers, all interleavings; the proofs lift the bound |
| `ConfigPersist` (1.3M) | is what was saved loaded, do changes reach the file? Are the conversions those of the code, does setting a key keep the others and the relays? | three values, so that a value can equal the default, the value of the file or neither; three changes by two commands that overlap with each other and with a save, a failed save, a crash. The trees have every combination of values and missing sections on a chain of three defaults, and two relays to a gateway |
| `Lifecycle` (292k) | limits of the delay, Stop last, does a signal or a quit end the run? | one gateway of each kind; a delay of 0, below the lower limit, and failures past the upper one; two runs, for a signal between them |
| `Terminal` (15k) | is a line that is typed while a run reads handled, unless the run ends first? | three runs and four lines |
| `Moderation` (1.3M) | do levels survive as text, do bans agree with the server, is who is to be kicked gone, does every command end? | a user at the default level or banned, two commands of an admin and an operator, two events: a command can overtake another, and a report of an event; two lines fit the queue, so that it refuses; a name that is no command; seven bits for a level, with one that wraps (`max+1`) |
| `CapiUsers` (1.2M) | are the IDs those of the sessions that are there, does a whisper, kick or ban hit nobody else? | two users on two connections: a rejoin on either, with a second user in between; two goroutines |
| `Presence` (346k) | is announced who is online? | one guild with a channel that is not configured, three changes, a lost connection, two handlers in which look-ups fail |
| `ConfigPersist_removed` | "These changes are saved on disk and will be loaded in future runs as well" (docs/config.md:59) | **violated**: Save writes a difference, which cannot say that an entry of `config.toml` was removed |

The modules with state have a type invariant (that of `Timers` is in
`LifecycleProofs`). None takes a place among the properties of the runs: the
invariants of section 5 contain the types that they need, and TLC checks
`TypeOK` when it is added to a configuration. `CHECK_DEADLOCK FALSE` stands in the
configurations of models that stop when their bound of events is used up.
`Lifecycle` is checked for deadlock, with a step for a program that has ended.

### Where the code and its documentation part

These configurations are not among the runs; each shows in a short
counterexample why a stronger form of a property does not hold. The properties
of the runs state the exception.

| Configuration (module) | Property | What happens | Said by |
|---|---|---|---|
| `Timers_late` (`Timers`) | `NoneAfterStop` | a timer made by a callback that still runs after Stop fires | timers.go:44 "Stop all timers" |
| `OnlineList_ghost` (`OnlineList`) | `ListedAreOnline` | `onLeave` (relay.go:115) drops the Leave of a user whose level fell below `JoinAccess` while online; the user stays listed | docs/discord.md:48 "continously update a single message with the online user list" |
| `OnlineList_twice` (`OnlineList`) | `OneAtATime` | a post that Discord carried out and whose answer is lost is repeated (channel.go:449), and two messages show the list; `SingleMessage` leaves out those that nobody was told of (`unanswered`) | the same |
| `OnlineList_stale` (`OnlineList`) | `ListShown` | `last` is set before the request (channel.go:446); when the edit to an empty list fails, nothing changes the text any more | the same |
| `Moderation_alias` (`MCModeration`) | `AliasNamesUser` | an argument is replaced only if there are more arguments than its index (alias.go:84), so that the last one stays `%ARG1%` | docs/commands_custom.md:37 "Argument at index 123" |
| `Moderation_blacklist` (`MCModeration`) | `BlacklistHolds` | the unban of another operator, seen by the bot (bnet.go:505), unbans a blacklisted user | docs/access.md:16 "Auto ban, only unbannable by admins" |
| `Moderation_promotion` (`MCModeration`) | `PromotionKept` | onSystemMessage reads the level and stores the ban in two steps; a `set` in between is lost | bnet.go:507 asks for a level below `AccessWhitelist` |
| `Moderation_default` (`MCModeration`) | `BansAgree` | with a ban in the section of defaults, an unbanned user is at the banned level again after the ConfigUpdate | docs/commands_builtin.md:172 "Unban `[username]`" |
| `ConfigPersist_relays` (`MCConfigPersist`) | `RelaysAsConfigured` | a section that repeats the default next to relays of its own is stripped, and what falls back to it becomes another relay | docs/relay.md:62 "searches in the following order and uses the first found section" |
| `CapiUsers_stale` (`CapiUsers`) | `OthersNeverStruck` | an ID looked up before the connection was lost (capi.go:209) belongs to somebody else on the next | docs/commands_builtin.md:187 "Kick `[username]` from channel" |
| `CapiUsers_ghost` (`CapiUsers`) | `ListedArePresent` | two Joins and one Leave (capi.go:420) when the server reports a new session before the end of the old one | the same |
| `Presence_guilds` (`MCPresence`) | `AnnouncedAreOnline` | one set of users for all guilds (discord.go:291): a Leave in one makes the other miss its own | the same |
| `Presence_resumed` (`MCPresence`) | `ResumedAreAnnounced` | a lost connection clears all (discord.go:261), and a resumed session lists nobody | the same |
| `ConfigPersist_last` (`MCConfigPersist`) | `QuitKeepsChanges` | a change while the last save is under way is not saved (main.go:368) | main.go:14 "persists all runtime changes" |
| `ConfigPersist_hash` (`MCConfigPersist`) | `ChangesAreWritten` | `Set` and `Unset` merge back the hash they copied (config.go:577), that of an earlier save; when the settings are again what they were then, Save compares equal (config.go:330) and writes nothing any more | the same |
| the same, with one command, one change and `MaxFails = 1` | `ChangesAreWritten` | the hash is set (config.go:333) before the file is created; after an error the difference counts as saved | the same |
| `ConfigPersist_crash` (`MCConfigPersist`) | `CrashKeepsSaved` | the file is truncated, then written (config.go:336) | docs/config.md:59 |
| `ConfigPersist_lost` (`MCConfigPersist`) | `ConfIsAsked` | `SetString` merges back a copy made before another command's change (config.go:577) | docs/commands_builtin.md:88 "Change access level for [username] to [level]" |
| `Lifecycle_late` (`Lifecycle`) | `NothingAfterStop` | the goroutine that reads standard input (stdio.go:157) handles a line when Run no longer waits for it (stdio.go:164), and fires its event after Stop, with the plugins closed | goop/events.go:14 "Stop event" |
| `Lifecycle_quit` (`Lifecycle`) | `QuitEnds` | Close (bnet.go:247) comes before the logon under way has a connection; the session then lasts until the server ends it | main.go:243 "Quit program" |
| `Terminal_deaf` (`Terminal`) | `TypedIsForwarded` | a run that does not read (stdio.go:150) leaves the goroutine of main in a write to its pipe, after a restart too | docs/terminal.md:19 "Any messages typed in the terminal will be forwarded as chat" |

## 4. Fairness

Weak fairness is assumed of goroutines of the program (Go's scheduler runs a
goroutine that can run) and of timers and tickers (they expire). `SayQueue`
also has strong fairness of its mutex, which Go hands to a waiter that starves.
Where a liveness property needs an external call to return, it is assumed to
return with a result or an error: `OnlineList` (a request to Discord),
`Lifecycle` (Logon and Open), and the premise `DrainFairness` of
`AcceptedIsHandled` (a send to the server). `SayReturns` and `FireReturns` do not have
it: there a server may be silent for ever. `CommandsEnd` has the goroutines of commands
and the loop of the client (`Handle`, `Execute`) and nothing of the server. No fairness is assumed of users, of
servers that end sessions, of signals, errors and crashes. `SignalHonoured` and
`ShutdownEnds` allow for the connection that is made after its Close, and for
nothing else. `ChangesReachFile` speaks of programs that stay up, and of saves that
do not fail and are not for ever misled by a hash that was put back; `ShownUnlessEmpty` of a list that comes to rest and is not empty.

## 5. Proofs

Theorems hold for every value of the constants that satisfies the named
assumptions of the module. Some need a hypothesis besides, which is a named
definition in the same module. `OneGuild`, `NeutralDefaults` and
`EveryLevelPasses` are each met by a run of section 3, and for each a
configuration there shows what fails without it; `FiniteGateways` and
`FinitelyMany` say that a set is finite. Those about `Terminal` suppose that the
bound of typed lines is a number. Every safety
invariant and action property of the runs that pass is
proved; what is left is at the end of this section. TLC finds each inductive
invariant to hold on the run of its component, with a bound in place of the
infinite sets that some of them name.

**The say queue (`SayQueueProofs`).** `FifoOrder` is about the abstract queue:
what is accepted and not yet handled keeps its order (`PendingOrdered`), and all
that was handled has been accepted (`FromAccepted`). `QueueImplementsFifo` is the
refinement: each step of the code is a step of `SayFifo` under the mapping, or
leaves its variables alone. Most of the work is that a caller that has passed
the lock sees the one channel there is: the invariant relates every program
counter to `smut`, `saych` and the consumer, and `OneChannel` follows.
`QueueKeepsOrder` is the image of `FifoOrder` under the refinement.
`SayEventsKeepOrder` uses the same invariant with the histories added, and adds that no
refused line is ever accepted after all (`RefusedStayOut`). A queue refuses when it has no
room: this is a guard of `SayFifo`, and part of the refinement. Assumed: a size between 0 and 255 (it is a uint8), and a value
that is no caller.

**Relays (`RelayProofs`).** `RelayDepth` shows that an error fired within a relay
lies above a frame of higher rank, so that a stack is no longer than the ranks
and the two frames that need none. The order properties `RelayNoEcho`,
`RelayInOrder` and `RelayAnswersLast` have one invariant, `OInv`: the
frame at the base of a stack says which message a goroutine handles and which
targets it has passed (`Way`), and every line in a queue (`Lines`) belongs to a message
that was read, to a target that has been passed, and, when it is an answer, to a command that has
run. A frame only ever moves on (`Later`), and what an error fires above it adds
no line of a message. `RelayReportsDrops` counts: for every gateway whose log is relayed to the console,
the lines that were lost, whatever for, are as many as those reported, those excused and
those that some frame still owes (`Balanced`). `FireTakesBoundedSteps` and `FireNeverWaits` are
what `FireReturns` needs besides fairness. The latter names a state (`Onward`) for every
goroutine in Fire, whatever is in the queues, and proves that a step of that goroutine leads
there: as ENABLED is out of the prover's reach, the successor is written out. A frame owes its relays, and each relay
may be refused and then owes an error with relays of lower rank: `Price[n]` is what one
below rank n costs at most, `Debt` the sum over a stack (`Sum`), and every step in Fire
lowers it. `Price` and `Sum` are recursive functions; `Recursion` proves once that a
number and a rule for the next one give a function. `Limit` bounds the debt at the
start of a call by the number of gateways and `MaxRank`, not by what is in the
queues. Assumed: targets are gateways, log relays have no
cycle, and the two marks of a command, `none` and `done`, are no gateways.

**Lifecycle, timers and terminal (`LifecycleProofs`).** `StopComesLast`: only a client that is
logging on or in a session has a connection, and Run returns only when all have
left (`Resting`), which a gateway does after its error has been reported (goop.go:140). It is
about the goroutines that Run waits for. Others go on: those of the queues, of discordgo and of
standard input, which may fire events after Stop (`Lifecycle_late`), and the one
that saves, which may look at the configuration for the last time before the gateways are at rest
(main.go:368; `ConfigPersist_last` shows the change that is lost). `BackoffDoubles`: the delay at every place of the loop is a
function of the failures counted (`Retries`). `Power` is a recursive function,
and that it satisfies its own equation must be proved: its initial segments
exist, since a least number without one would be neither 0 nor the successor of one that
has (`PowersExist`; the order of the naturals is well-founded, which is used with a set
instead of an operator). `LifecycleTypeCorrect` includes the bounds of all
counters. Assumed: `Low <= High`, and gateways of different kinds are different.
Of timers, the invariant (`Disarmed`) says that a cancelled one, and one that was
registered when Stop ran, is not armed any more: `CancelPrevents` and
`StopReaches` follow. `ActiveAreKnown` says that one that may still call its function is
registered, so that Stop misses nothing.
`Terminal` is instantiated there as `Term`. Who reads a pipe belongs to the current run, or has closed
the pipe (`ReaderInv`), and `pw` is the pipe of the latest run that has one (`LatestPipe`):
hence `WriterNotLeftBehind`, the part of `TypedIsForwarded` that is not about
time. `LinesInOrder` needs that a line is not given away before it was taken (`TermOrder`).

**Configuration (`ConfigPersistProofs`).** `RoundTrip` is the algebra: loading the
difference gives back the configuration, if it is `Restorable`. The invariant
(`Types`, `Saving`, `HashOfFile`, `Settled`) then ties the snapshot, the hash
and the file to the place where the saver is. `Config.Hash` is part of what a command copies and
merges back: a save in between is undone in it. The histories `reverted` and `misled` say
that this has happened, and that a save then wrote nothing because of it; `HashOfFile` and
`SaveRestores` hold but for these, and `ConfigPersist_hash` shows what happens with them.

**Nested configuration (`ConfigPersistProofs`).** `ConversionsAlwaysAgree` says that
what `ConfigPersist` does to three values is what the code does to the tree that
holds them; with it the theorems above are about the code's `Map`, `Merge` and
`DeleteEqual`, not about their images. `OthersAlwaysKept` says what each of five
settings is once one of them has been set. `RelaysKeptAlways` says that relays are what
they were after another setting has changed and the program has been restarted.
They are properties of operators, and proved in two steps. First the
conversions are computed on trees whose settings are parameters, by one lemma for each kind of
section and level, from the leaves up: `MergeDefaultsIs`, `TreeMapIs` (what `Map`
leaves of a tree), `FromMapIs` (what a new configuration makes of that), `ReplacedIs`,
`SavedIs`, `LoadedIs`; `RowSet` and `RowUnset` put together what a command does. Copying a
configuration through its map takes away what equals its default and
`MergeDefaults` brings it back: this is why a setting follows the one it
falls back to (`Expected`), although nobody says so in the code. Then each
theorem is an equation between settings, by cases on which are equal, set or
missing (`ChainSet`, `SetsAgree`, `LoadsAgree`).
Relays have no `MergeDefaults`; what is left out of the map comes back when `GetRelay` asks
for it, from the default beside it. That default is left out as well when it
equals the one of all relays, and nothing brings it back where a relay
beside it is kept: `Hollow` in the model, and the exception of the
property. `NotHollow` translates it into equations between settings (`Plain`), `KeptIfPlain`
proves the rest, and `ConfigPersist_relays` shows the exception to happen. Assumed:
values are numbers, with 0 for a setting that is not set, and `Absent` is none of them.

**Levels and moderation (`ModerationProofs`).** `Least` and `Greatest` say that
the name that the loops of access.go find exists (a set of numbers that is not empty has a
least and a greatest one), `StringShape` and `ParseWritten` that what is added
is what was subtracted and neither wraps. `LevelsSurvive` follows for every
width and every set of named levels that has 0, -1 and both ends of the range.
`ParsedLevels`: what is parsed is a level, though the addition may wrap.
`StoredLevelsSurvive` lifts that to the program: every stored level, and the one
a handler is about to store, is one of `Int32`, and a `set` with users to act on
has a level; an alias may hand it a text that is none, and then it has no users.

`LevelsAgreeWithServer` and `IntrudersDoNotStay` are about what is on its way.
The unread reports about a user end with what the server has (`Latest`). Where the
level of a user differs from it (`Agreeing`), a report is unread or being persisted, which
will change the level, or a line that will change the server is in the queue
or about to be sent. Who is in the channel and unwanted is
`Chased`: the handler is about to kick him, a line against him is in the queue, or his
Join is unread. Assumed of the names of levels, besides what the code has for all of them:
there are twelve and the seventh is 0. `NeutralDefaults` asks that the
default level of nobody bans him or protects him from bans; `Moderation_default`
shows what happens otherwise.

`CommandsTakeBoundedSteps` and `CommandsNeverWait` are what `CommandsEnd` needs besides
fairness. The second names the state that a command that has not ended can go
on to (`Onward`), in every state of the invariant (`GInvHolds`), with a full queue too. `Left` counts what a command has left: the rank of its alias, two steps for each user to act
on, and the reply. A step is one of five (`Moves`), and each
leaves less. The users a command has looked up are no more than there are (`FewTargets`), because
those in the channel are users: `TInv`, the type invariant with the unread reports,
which also gives `ModerationTypeCorrect`.

**Users of capi (`CapiUsersProofs`).** `OthersAreSpared` and `KnownAreListed`: an
ID belongs to one name as long as the connection lasts, wherever it is: in a
session, an unread report, `users`, or a call that has looked it up.
`KnownArePresent` adds `SInv`: an ID that is no session's any more, in an
unread Join (`OldReports`) or in `users` (`OldUsers`), has a later report
behind it that removes or replaces it, and a session in the channel is known, or
its Join is the last one of its name in the queue (`Arrivals`). Assumed:
finitely many names, and a `None` that is no number.

**Users of Discord (`PresenceProofs`).** With `OneGuild`, who is in `users` is
who has been announced (`TrackedMeansAnnounced`). The other two look at the last unread report
about a user: who is not present is not brought by it, and is cleared
by one if he is tracked (`Gone`); who is present and may look into a
channel is brought by it, or announced and not cleared (`Here`), unless he is `unsure`: his
permissions changed, his session was resumed, or the look-up of his permissions or of himself
failed (discord.go:302, 312), after which he stays unannounced and untracked. `Ready` comes
first and the guild right behind it (`Loaded`), so that no report is
ignored for want of its channels. `Presence_guilds` shows the two guilds that
`OneGuild` excludes.

**The online list (`OnlineListProofs`).** `OneMessage`: of the messages whose post was
answered one at most is not deleted. A post whose answer is lost may have taken effect, and is then
`unanswered`; what is left needs that `listID` is an answered message or none. `ListShowsOnline`: while an event is on its way to the list, the
two differ by the user it is about (`Listing`); arrivals are different, so that the order of
the list is strict; and when nobody is about to sort, the list is in order, because an edit that
may disturb it makes its goroutine one that will. `clearOnline` keeps the order since its arrangement is
increasing, and a sort keeps the entries since its arrangement is a bijection.
`EveryLevelPasses` is `JoinAccess = "min"`, as the documentation sets it for an
online list (docs/discord.md:66); without it a user whose level falls stays
listed (`OnlineList_ghost`). The order does not depend on it: `ListStaysInOrder`
has no hypothesis, and holds of lists with users who left or are listed twice.

**Only model-checked.** Liveness: the prover has no rules for fairness and
ENABLED (`AcceptedIsHandled`, `SayReturns`, `FireReturns`, `ShownUnlessEmpty`,
`ChangesReachFile`, `ShutdownEnds`, `SignalHonoured`, `TypedIsForwarded`,
`CommandsEnd`). For three of them the part without fairness is proved: `FireReturns`
(bounded, never waiting), `CommandsEnd` (the same) and `TypedIsForwarded` (the
pipe is that of the current run). The configurations of section 3 that refute a stronger property
are TLC's, too.

## 6. Not modelled

Message parsing of Discord, `ExtractTrigger`, the texts of commands: functions of
strings without state. Globs other than a name and one that matches everybody.
Bindings of Lua (`import.go`): a list of types. Lua plugins: scripts for users to
edit; to the rest they are callers of Say and of timers. Webhooks of Discord:
planned below. `State.RLock` of discordgo (channel.go:99) and Fire under `chatmut`
(discord.go:333): they depend on locks of a library that is not here. Lists,
conversions between Go types, and matching without case in structs.go; CLI
flags and the text of TOML.

Seen while modelling, and within the properties as they are stated: a relay
equal to the default of its gateway cannot be set at runtime, because `Map` leaves
it out and `Set` then finds no such key; a gateway that holds a `*RelayConfig` keeps the old one when
a merge with Delete has replaced the section; `[Relay.To.A]` with a
`From` only has a zero `Default`, not that of `[Relay.Default]`.

## 7. Plan

1. Done: the say queue with its abstraction, relays, the online list, timers,
   configuration with its nested form, lifecycle, terminal, levels, moderation by commands and
   handlers, users of capi and Discord; proofs of all their safety invariants and
   action properties.
2. To model next: the two queues of a Discord channel as two instances of
   `SayFifo`; whispers and kicks of capi beside its queue; `CapiUsers` and
   `Presence` composed with `OnlineList` through an abstract specification "the list
   is who is online", which each implements under its conditions.
3. To prove next: the type invariant of `OnlineList`; and the
   abstract specification of item 2, with its refinements.
