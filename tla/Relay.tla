------------------------------- MODULE Relay -------------------------------
(***************************************************************************)
(* How an event fired on one gateway reaches the others (goop/goop.go,     *)
(* goop/relay.go, the Relay methods of the gateways).                      *)
(*                                                                         *)
(* Fire runs the handlers of an event one after the other in the calling   *)
(* goroutine: first the catch-all of AddGateway, which fires the event on  *)
(* the main object and may prevent the rest, then the relays, then the     *)
(* handlers AddGateway registered first (auto-kick, trigger execution).  A *)
(* relay puts a line in the queue of its target; when the queue is full it *)
(* fires an AsyncError on the target, whose relays run before Fire         *)
(* returns: dispatch recurses, and every goroutine has a stack of frames.  *)
(* An error that is fired on the main object alone has no relays: main     *)
(* prints it.                                                              *)
(*                                                                         *)
(* A queue is what SayFifo promises: accepted lines are kept in order, at  *)
(* most Cap of them unhandled.  Std:io is the gateway Console: it writes   *)
(* to the log and never refuses a line.                                    *)
(***************************************************************************)
EXTENDS Integers, Sequences, FiniteSets

CONSTANTS Gateways,    \* the gateways, Console among them
          Console,     \* std:io
          ChatTo,      \* ChatTo[g]: gateways with Relay.To[t].From[g].Chat
          SayTo,       \* the same for Say
          LogTo,       \* the same for Log
          Position,    \* Position[g][t]: where g runs its relay to t
          ChatAccess,  \* RelayConfig.ChatAccess
          TriggerAccess, \* TriggerConfig.Access
          Levels,      \* access levels of the people who chat
          Rank,        \* a ranking of the gateways that shows LogTo acyclic
          MaxRank,
          Cap,         \* lines a queue holds
          MaxEvents,   \* bound: messages that arrive
          MaxFails     \* bound: lines the server refuses

Kick == -1             \* gateway.AccessKick, shortened
Voice == 1             \* gateway.AccessVoice

ASSUME ConsoleAssumption == Console \in Gateways
ASSUME NameAssumption == Gateways \cap {"none", "done"} = {}
ASSUME TargetAssumption ==
  /\ ChatTo \in [Gateways -> SUBSET Gateways]
  /\ SayTo \in [Gateways -> SUBSET Gateways]
  /\ LogTo \in [Gateways -> SUBSET Gateways]
  /\ Position \in [Gateways -> [Gateways -> Nat]]
ASSUME RankAssumption ==
  /\ MaxRank \in Nat
  /\ Rank \in [Gateways -> 0..MaxRank]
  /\ \A g \in Gateways : \A t \in LogTo[g] : Rank[t] < Rank[g]
ASSUME BoundAssumption ==
  /\ Levels \subseteq Int /\ ChatAccess \in Int /\ TriggerAccess \in Int
  /\ Cap \in Nat /\ MaxEvents \in Nat /\ MaxFails \in Nat

Id == 1..MaxEvents

(* The goroutines that fire events: the read loop of a gateway, the        *)
(* goroutine draining its queue, and one for each executed command.        *)
Thread == (Gateways \X {"loop", "drain"}) \cup (Id \X {"cmd"})

(* id is the message that started it all; its text may be a command of the *)
(* gateway, or "?trigger", which asks for the trigger of a gateway that    *)
(* has another one.                                                        *)
Event == [kind : {"chat", "trigger", "say", "error"}, id : 0..MaxEvents,
          level : Levels \cup {0}, text : {"talk", "cmd", "ask"}]

Frame == [gw : Gateways, ev : Event, phase : {"main", "relay", "done"}, todo : SUBSET Gateways]

Line == [kind : {"chat", "say", "error", "reply", "kick"}, id : 0..MaxEvents, from : Gateways]

VARIABLES
  stack,    \* stack[th]: the calls of Fire thread th is in
  log,      \* log[g]: history of the lines accepted for g
  load,     \* load[g]: how many of them are not handled yet
  command,  \* command[id]: the gateway of a command to execute, or "none", "done"
  next,     \* the next message
  fails,    \* lines the servers refused so far
  dropped,  \* dropped[g]: history, lines for g that are lost
  excused   \* excused[g]: history, those that nobody is told of, as the connection was
            \* closed or a plugin prevents the error

losses == <<dropped, excused>>
vars == <<stack, log, load, command, next, fails, dropped, excused>>

Top(th) == stack[th][Len(stack[th])]
Under(th) == SubSeq(stack[th], 1, Len(stack[th]) - 1)
Replace(th, f) == [stack EXCEPT ![th] = Append(Under(th), f)]

Fresh(g, ev) == [gw |-> g, ev |-> ev, phase |-> "main", todo |-> {}]
Error(id) == [kind |-> "error", id |-> id, level |-> 0, text |-> "talk"]

Full(g) == g # Console /\ load[g] >= Cap

(* say(): the line enters the queue of g; the console prints it at once.   *)
Put(g, line) ==
  /\ log' = [log EXCEPT ![g] = Append(@, line)]
  /\ load' = IF g = Console THEN load ELSE [load EXCEPT ![g] = @ + 1]

Init ==
  /\ stack = [th \in Thread |-> <<>>]
  /\ log = [g \in Gateways |-> <<>>]
  /\ load = [g \in Gateways |-> 0]
  /\ command = [i \in Id |-> "none"]
  /\ next = 1
  /\ fails = 0
  /\ dropped = [g \in Gateways |-> 0]
  /\ excused = [g \in Gateways |-> 0]

-----------------------------------------------------------------------------

(* Mutant: onLog does not look at RelayConfig.Log.                         *)
Audience_LogIgnored(ev, g) ==
  CASE ev.kind = "chat"  -> {t \in ChatTo[g] : ev.level >= ChatAccess}
    [] ev.kind = "say"   -> SayTo[g]
    [] ev.kind = "error" -> Gateways
    [] ev.kind = "trigger" -> {}

(* The relays of an event on g that let it pass.                           *)
Audience(ev, g) ==
  CASE ev.kind = "chat"  -> {t \in ChatTo[g] : ev.level >= ChatAccess}
    [] ev.kind = "say"   -> SayTo[g]
    [] ev.kind = "error" -> LogTo[g]
    [] ev.kind = "trigger" -> {}

Chat(level, text) == [kind |-> "chat", id |-> next, level |-> level, text |-> text]

(* Mutant: the loop takes the next message before Fire has returned.       *)
FireChat_Reentrant(g) ==
  /\ g # Console
  /\ next \in Id
  /\ next' = next + 1
  /\ \E level \in Levels :
       stack' = [stack EXCEPT ![<<g, "loop">>] = Append(@, Fresh(g, Chat(level, "talk")))]
  /\ UNCHANGED <<log, load, command, fails, losses>>

(* The read loop of g receives a message and fires Chat.  Its trigger, if  *)
(* it has one, is fired when that call has returned: see Return.           *)
FireChat(g) ==
  /\ g # Console
  /\ stack[<<g, "loop">>] = <<>>
  /\ next \in Id
  /\ next' = next + 1
  /\ \E level \in Levels, text \in {"talk", "cmd", "ask"} :
       stack' = [stack EXCEPT ![<<g, "loop">>] = <<Fresh(g, Chat(level, text))>>]
  /\ UNCHANGED <<log, load, command, fails, losses>>

(* checkTriggerChat: somebody with a voice asks for the trigger.           *)
Asks(f) == f.ev.kind = "chat" /\ f.ev.text = "ask" /\ f.ev.level >= Voice
TriggerOf(f) == Fresh(f.gw, [f.ev EXCEPT !.kind = "trigger"])

Passes(th, f) == Replace(th, [f EXCEPT !.phase = "relay", !.todo = Audience(f.ev, f.gw)])

(* Mutants: the handler of the main object waits for room in the queue;    *)
(* checkTriggerChat is registered after the relays, so it runs before them.*)
MainHandlers_Waits(th) ==
  /\ stack[th] # <<>>
  /\ LET f == Top(th) IN f.phase = "main" /\ ~Full(f.gw) /\ stack' = Passes(th, f)
  /\ UNCHANGED <<log, load, command, next, fails, losses>>

MainHandlers_AskFirst(th) ==
  /\ stack[th] # <<>>
  /\ LET f == Top(th)
         g == [f EXCEPT !.ev.text = "talk"]
     IN  /\ f.phase = "main"
         /\ stack' = IF Asks(f) THEN [Passes(th, g) EXCEPT ![th] = Append(@, TriggerOf(g))]
                                ELSE Passes(th, f)
  /\ UNCHANGED <<log, load, command, next, fails, losses>>

(* The catch-all: the event is fired on the main object, where a plugin    *)
(* may prevent it, be it an error.                                         *)
MainHandlers(th) ==
  /\ stack[th] # <<>>
  /\ LET f == Top(th) IN
       /\ f.phase = "main"
       /\ \/ stack' = Passes(th, f) /\ UNCHANGED excused
          \/ /\ stack' = Replace(th, [f EXCEPT !.phase = "done"])
             /\ excused' = IF f.ev.kind = "error" THEN [excused EXCEPT ![f.gw] = @ + 1] ELSE excused
  /\ UNCHANGED <<log, load, command, next, fails, dropped>>

Advance(th, f, t) == Replace(th, [f EXCEPT !.todo = @ \ {t}])

(* Relays use say, not Say: a relayed line is not announced.               *)
(* Mutant: it is.                                                          *)
Copied_Announced(th, f, t) ==
  [Advance(th, f, t) EXCEPT ![th] = Append(@, Fresh(t, [Error(f.ev.id) EXCEPT !.kind = "say"]))]
Copied(th, f, t) == Advance(th, f, t)

(* Over a full queue an error is fired on the target, inside this call.    *)
(* Mutant: it is not.                                                      *)
Refused_Silent(th, f, t) == Advance(th, f, t)
Refused(th, f, t) == [Advance(th, f, t) EXCEPT ![th] = Append(@, Fresh(t, Error(f.ev.id)))]

(* relay(): the next relay in line takes the event.                        *)
RelayTo(th) ==
  /\ stack[th] # <<>>
  /\ LET f == Top(th) IN
       /\ f.phase = "relay"
       /\ \E t \in f.todo :
            /\ \A u \in f.todo : Position[f.gw][t] <= Position[f.gw][u]
            /\ \/ /\ ~Full(t)
                  /\ Put(t, [kind |-> f.ev.kind, id |-> f.ev.id, from |-> f.gw])
                  /\ stack' = Copied(th, f, t)
                  /\ UNCHANGED dropped
               \/ /\ Full(t)
                  /\ stack' = Refused(th, f, t)
                  /\ dropped' = [dropped EXCEPT ![t] = @ + 1]
                  /\ UNCHANGED <<log, load>>
  /\ UNCHANGED <<command, next, fails, excused>>

(* A line that g refuses a handler or a command: the error is fired on the *)
(* main object, which prints it unless a plugin prevents it.  Mutant: it   *)
(* is ignored, like a kick that is not permitted.                          *)
Lose_Ignored(g, id) ==
  /\ dropped' = [dropped EXCEPT ![g] = @ + 1]
  /\ UNCHANGED <<log, load, excused>>

Lose(g, id) ==
  /\ dropped' = [dropped EXCEPT ![g] = @ + 1]
  /\ \/ Put(Console, [kind |-> "error", id |-> id, from |-> g]) /\ UNCHANGED excused
     \/ excused' = [excused EXCEPT ![g] = @ + 1] /\ UNCHANGED <<log, load>>

(* autoKickChat: the line of the kick, if the bot may kick.                *)
AutoKick(f) ==
  /\ f.ev.kind = "chat" /\ f.ev.level <= Kick
  /\ ~Full(f.gw)
  /\ Put(f.gw, [kind |-> "kick", id |-> f.ev.id, from |-> f.gw])
  /\ UNCHANGED losses

NoKick(f) ==
  \/ UNCHANGED <<log, load, losses>>
  \/ f.ev.kind = "chat" /\ f.ev.level <= Kick /\ Full(f.gw) /\ Lose(f.gw, f.ev.id)

(* The handlers of AddGateway, after the relays: execTrigger, which starts *)
(* a goroutine for the command; autoKickChat, which prevents what is left  *)
(* if it kicked; and checkTriggerChat.  That is the last handler, and      *)
(* onChat finds no other command in its text: the Fire of its trigger      *)
(* stands in the place of that of the chat.                                *)
LocalHandlers(th) ==
  /\ stack[th] # <<>>
  /\ LET f == Top(th) IN
       /\ f.phase = "relay"
       /\ f.todo = {}
       /\ \/ AutoKick(f) /\ stack' = Replace(th, [f EXCEPT !.phase = "done"])
          \/ NoKick(f) /\ stack' = Replace(th, IF Asks(f) THEN TriggerOf(f) ELSE [f EXCEPT !.phase = "done"])
       /\ command' = IF f.ev.kind = "trigger" THEN [command EXCEPT ![f.ev.id] = f.gw] ELSE command
  /\ UNCHANGED <<next, fails>>

(* Fire returns.  onChat goes on to fire the trigger of the message,       *)
(* whether or not the chat was prevented.                                  *)
Return(th) ==
  /\ stack[th] # <<>>
  /\ LET f == Top(th) IN
       /\ f.phase = "done"
       /\ stack' = [stack EXCEPT ![th] =
            IF f.ev.kind = "chat" /\ f.ev.text = "cmd" /\ f.ev.level >= TriggerAccess
              THEN <<TriggerOf(f)>>
              ELSE Under(th)]
  /\ UNCHANGED <<log, load, command, next, fails, losses>>

(* The goroutine of a command answers with Say on the gateway of the       *)
(* message.  Say fires its event when the line is queued; a full queue     *)
(* ends the command with an error for the main object.                     *)
Reply(i) ==
  /\ command[i] \in Gateways
  /\ LET g == command[i] IN
       IF Full(g)
         THEN Lose(g, i) /\ UNCHANGED stack
         ELSE /\ Put(g, [kind |-> "reply", id |-> i, from |-> g])
              /\ stack' = [stack EXCEPT ![<<i, "cmd">>] =
                   <<Fresh(g, [kind |-> "say", id |-> i, level |-> 0, text |-> "talk"])>>]
              /\ UNCHANGED losses
  /\ command' = [command EXCEPT ![i] = "done"]
  /\ UNCHANGED <<next, fails>>

(* The draining goroutine sends a line; or the line is lost: the goroutine *)
(* fires the error itself, with id 0, unless it says that the connection   *)
(* is closed.                                                              *)
Drain(g) ==
  /\ load[g] > 0
  /\ stack[<<g, "drain">>] = <<>>
  /\ load' = [load EXCEPT ![g] = @ - 1]
  /\ UNCHANGED <<stack, log, command, next, fails, losses>>

DrainFails(g) ==
  /\ load[g] > 0
  /\ stack[<<g, "drain">>] = <<>>
  /\ fails < MaxFails
  /\ fails' = fails + 1
  /\ load' = [load EXCEPT ![g] = @ - 1]
  /\ dropped' = [dropped EXCEPT ![g] = @ + 1]
  /\ \/ stack' = [stack EXCEPT ![<<g, "drain">>] = <<Fresh(g, Error(0))>>] /\ UNCHANGED excused
     \/ excused' = [excused EXCEPT ![g] = @ + 1] /\ UNCHANGED stack
  /\ UNCHANGED <<log, command, next>>

-----------------------------------------------------------------------------

Dispatch(th) == MainHandlers(th) \/ RelayTo(th) \/ LocalHandlers(th) \/ Return(th)

Next ==
  \/ \E th \in Thread : Dispatch(th)
  \/ \E i \in Id : Reply(i)
  \/ \E g \in Gateways : FireChat(g) \/ Drain(g) \/ DrainFails(g)

Spec == Init /\ [][Next]_vars

(* Goroutines inside Fire are run; nothing is assumed of the servers.      *)
FairSpec == Spec /\ \A th \in Thread : WF_vars(Dispatch(th))

-----------------------------------------------------------------------------

TypeOK ==
  /\ stack \in [Thread -> Seq(Frame)]
  /\ log \in [Gateways -> Seq(Line)]
  /\ load \in [Gateways -> 0..Cap]
  /\ command \in [Id -> Gateways \cup {"none", "done"}]
  /\ next \in 1..(MaxEvents + 1)
  /\ fails \in 0..MaxFails
  /\ {dropped, excused} \subseteq [Gateways -> Nat]

(* Errors about full queues cannot recurse without end: when no gateway    *)
(* relays its log to itself, directly or through others, a goroutine is    *)
(* never in more calls of Fire than the longest chain of Log relays plus   *)
(* the event and the first error.                                          *)
DepthBound == \A th \in Thread : Len(stack[th]) <= MaxRank + 2

(* No echo and no duplicate: a gateway is given a message, its answer or a *)
(* copy of either at most once, though relays run in both directions.      *)
RelayedOnce ==
  \A g \in Gateways : \A i, j \in DOMAIN log[g] :
    /\ log[g][i].kind # "error" /\ log[g][i].kind = log[g][j].kind
    /\ log[g][i].id = log[g][j].id
    => i = j

(* The messages of one gateway arrive on another in the order they were    *)
(* received.                                                               *)
OriginOrder ==
  \A g \in Gateways : \A i, j \in DOMAIN log[g] :
    /\ i < j /\ log[g][i].kind = "chat" /\ log[g][j].kind = "chat"
    /\ log[g][i].from = log[g][j].from
    => log[g][i].id < log[g][j].id

(* "These handlers are called after relay handlers": nobody is shown the   *)
(* answer to a command before the command.                                 *)
ReplyAfterQuestion ==
  \A g \in Gateways : \A i, j \in DOMAIN log[g] :
    log[g][i].kind = "chat" /\ log[g][j].kind \in {"say", "reply"} /\ log[g][i].id = log[g][j].id
    => i < j

Quiet == \A th \in Thread : stack[th] = <<>>

ErrorLines(g) == {i \in DOMAIN log[Console] : log[Console][i].kind = "error" /\ log[Console][i].from = g}

(* A line that is lost, be it a copy, a kick or an answer over a full      *)
(* queue or one that could not be sent, is reported at the console once,   *)
(* for each gateway whose log is relayed there.  The exceptions are those  *)
(* of the code: an error about a closed connection is not fired, and a     *)
(* plugin may prevent it.                                                  *)
DropsReported ==
  Quiet => \A g \in Gateways :
    Console \in LogTo[g] => Cardinality(ErrorLines(g)) + excused[g] = dropped[g]

(* Fire returns even if no queue is ever drained: a slow server never      *)
(* stalls the event loop of another gateway.                               *)
FireReturns == \A th \in Thread : stack[th] # <<>> ~> stack[th] = <<>>

=============================================================================
