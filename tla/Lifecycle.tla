------------------------------ MODULE Lifecycle ------------------------------
(***************************************************************************)
(* How the program runs, reconnects, ends and starts again (main.go,       *)
(* goop/goop.go, the Run methods of the gateways).                         *)
(*                                                                         *)
(* A run has a context that can be cancelled once.  Run starts a goroutine *)
(* per gateway and waits for all of them; a goroutine of main waits for a  *)
(* signal or the end of the context, another saves the configuration.      *)
(* Clients are the gateways of Battle.net (bnet and capi): each has a loop *)
(* that logs on and runs a session, and a goroutine that closes the        *)
(* client, once, when the context is cancelled.                            *)
(*                                                                         *)
(* The client libraries are external: Logon dials, and hands the           *)
(* connection to the client when it has it; Close closes the connection    *)
(* the client has at that time.  Durations are counted in units.           *)
(*                                                                         *)
(* Of events the model keeps which goroutine fires one after Stop.  That   *)
(* of Run fires them between two steps of a gateway; what other goroutines *)
(* still have to fire when Run returns is shown for the one that reads     *)
(* standard input.                                                         *)
(***************************************************************************)
EXTENDS Naturals, FiniteSetsExt

CONSTANTS Clients,      \* bnet and capi gateways
          Discord,      \* Discord gateways
          Console,      \* std:io
          Delay,        \* GatewayConfig.ReconnectDelay
          Low, High,    \* 10 seconds and 4 hours
          MaxOpens,     \* attempts of a Discord gateway, 59 in the code
          MaxFailures,  \* bound: logons that fail in a row
          MaxRuns       \* bound: runs of the program

ASSUME DelayAssumption == Delay \in Nat /\ Low \in Nat /\ High \in Nat /\ Low <= High
ASSUME BoundAssumption == {MaxOpens, MaxFailures, MaxRuns} \subseteq Nat \ {0}
ASSUME GatewayAssumption == Clients \cap Discord = {} /\ Console \notin Clients \cup Discord

Gateways == Clients \cup Discord \cup {Console}

VARIABLES
  main,       \* "running" until Run returns, then "stopped", then "ended"
  cancelled,  \* the context is cancelled
  restart,    \* the flag .restart sets
  sig,        \* the channel of signals, which buffers one
  watcher,    \* the goroutine that waits for a signal: "select" or "gone"
  saver,      \* the goroutine that saves: "wait", "check", "send"
  pc,         \* pc[g]: where Run of gateway g is; "failed" once it returned an
              \* error, "left" once its goroutine is done
  conn,       \* conn[g]: connection of client g: "none", "open", "closed"
  closer,     \* closer[g]: the goroutine that closes it: "wait"; "closed" once it
              \* called Close, "missed" if there was no connection to close
  wait,       \* wait[g]: backoff
  failures,   \* failures[g]: logons that failed since the last session
  busy,       \* the goroutine that reads standard input handles a line
  runs,
  owed,       \* history: there was a signal, and no .restart after it was handled
  late        \* history: whose events came after Stop of this run, a subset of
              \* {"Run", "read"}

gatewayVars == <<pc, conn, closer, wait, failures, busy, late>>
runVars == <<cancelled, restart, watcher, saver, gatewayVars>>
vars == <<main, cancelled, restart, sig, watcher, saver, pc, conn, closer, wait, failures, busy,
          runs, owed, late>>

(* The start of a run: Load, New, and the goroutines main starts.          *)
Init ==
  /\ main = "running"
  /\ cancelled = FALSE
  /\ restart = FALSE
  /\ sig = FALSE
  /\ watcher = "select"
  /\ saver = "wait"
  /\ pc = [g \in Gateways |-> "check"]
  /\ conn = [g \in Clients |-> "none"]
  /\ closer = [g \in Clients |-> "wait"]
  /\ wait = [g \in Clients |-> Delay]
  /\ failures = [g \in Clients \cup Discord |-> 0]
  /\ busy = FALSE
  /\ runs = 1
  /\ owed = FALSE
  /\ late = {}

-----------------------------------------------------------------------------
(* main *)

(* Mutant: a channel without a buffer.                                     *)
Signal_Unbuffered ==
  /\ main # "ended"
  /\ sig' = (watcher = "select")
  /\ owed' = TRUE
  /\ UNCHANGED <<main, runs, runVars>>

Signal ==
  /\ main # "ended"
  /\ sig' = TRUE
  /\ owed' = TRUE
  /\ UNCHANGED <<main, runs, runVars>>

(* The goroutine takes either case of its select.                          *)
WatchSignal ==
  /\ watcher = "select" /\ sig
  /\ sig' = FALSE
  /\ restart' = FALSE
  /\ cancelled' = TRUE
  /\ watcher' = "gone"
  /\ UNCHANGED <<main, saver, runs, owed, gatewayVars>>

WatchDone ==
  /\ watcher = "select" /\ cancelled
  /\ watcher' = "gone"
  /\ UNCHANGED <<main, cancelled, restart, sig, saver, runs, owed, gatewayVars>>

(* The .quit and .restart commands.                                        *)
Quit ==
  /\ main # "ended"
  /\ cancelled' = TRUE
  /\ UNCHANGED <<main, restart, sig, watcher, saver, runs, owed, gatewayVars>>

Restart ==
  /\ main # "ended" /\ runs < MaxRuns
  /\ restart' = TRUE
  /\ cancelled' = TRUE
  /\ owed' = (owed /\ sig)
  /\ UNCHANGED <<main, sig, watcher, saver, runs, gatewayVars>>

(* Mutant: wg.Done comes before the report of what a gateway returned.      *)
RunReturns_Unreported ==
  /\ main = "running"
  /\ \A g \in Gateways : pc[g] \in {"failed", "left"}
  /\ main' = "stopped"
  /\ cancelled' = TRUE
  /\ UNCHANGED <<restart, sig, watcher, saver, runs, owed, gatewayVars>>

(* The WaitGroup is down to zero.  Run fires Stop, which closes the        *)
(* plugins; main cancels the context.                                      *)
RunReturns ==
  /\ main = "running"
  /\ \A g \in Gateways : pc[g] = "left"
  /\ main' = "stopped"
  /\ cancelled' = TRUE
  /\ UNCHANGED <<restart, sig, watcher, saver, runs, owed, gatewayVars>>

(* A timer, or the end of the context; then Save (see ConfigPersist).  The *)
(* last one may come before the gateways are at rest, or be over then.     *)
Save ==
  /\ saver = "wait"
  /\ saver' = "check"
  /\ UNCHANGED <<main, cancelled, restart, sig, watcher, runs, owed, gatewayVars>>

SaveLoop ==
  /\ saver = "check"
  /\ saver' = IF cancelled THEN "send" ELSE "wait"
  /\ UNCHANGED <<main, cancelled, restart, sig, watcher, runs, owed, gatewayVars>>

(* main receives done from the saving goroutine, and ends or starts again. *)
End ==
  /\ main = "stopped" /\ saver = "send"
  /\ ~restart
  /\ main' = "ended"
  /\ UNCHANGED <<sig, runs, owed, runVars>>

StartAgain ==
  /\ main = "stopped" /\ saver = "send"
  /\ restart
  /\ main' = "running"
  /\ runs' = runs + 1
  /\ cancelled' = FALSE
  /\ restart' = FALSE
  /\ watcher' = "select"
  /\ saver' = "wait"
  /\ pc' = [g \in Gateways |-> "check"]
  /\ conn' = [g \in Clients |-> "none"]
  /\ closer' = [g \in Clients |-> "wait"]
  /\ wait' = [g \in Clients |-> Delay]
  /\ failures' = [g \in Clients \cup Discord |-> 0]
  /\ busy' = FALSE
  /\ late' = {}
  /\ UNCHANGED <<sig, owed>>

-----------------------------------------------------------------------------
(* Run of the gateways of Battle.net *)

mainVars == <<main, cancelled, restart, sig, watcher, saver, busy, runs, owed>>

Goes(g, to) == pc' = [pc EXCEPT ![g] = to]

(* A goroutine fires an event.                                             *)
FiresEvent(who) == late' = IF main = "running" THEN late ELSE late \cup {who}

Clamp(n) == IF n < Low THEN Low ELSE IF n > High THEN High ELSE n

LoopHead(g) ==
  /\ pc[g] = "check"
  /\ IF cancelled
       THEN Goes(g, "left") /\ UNCHANGED wait
       ELSE Goes(g, "dial") /\ wait' = [wait EXCEPT ![g] = Clamp(@)]
  /\ UNCHANGED <<conn, closer, failures, late, mainVars>>

Dialed(g) ==
  /\ pc[g] = "dial"
  /\ conn' = [conn EXCEPT ![g] = "open"]
  /\ Goes(g, "logon")
  /\ UNCHANGED <<closer, wait, failures, late, mainVars>>

(* Logon fails.  Most errors, a closed connection among them, are worth    *)
(* another try and fire an event; the others end the gateway, and so does  *)
(* any error once the context is cancelled.                                *)
LogonFails(g) ==
  /\ pc[g] = "dial" \/ pc[g] = "logon"
  /\ conn[g] = "closed" \/ failures[g] < MaxFailures
  /\ conn' = [conn EXCEPT ![g] = "none"]
  /\ \E reconnect \in BOOLEAN :
       /\ conn[g] = "closed" => reconnect
       /\ IF reconnect /\ ~cancelled
            THEN Goes(g, "backoff") /\ failures' = [failures EXCEPT ![g] = @ + 1] /\ FiresEvent("Run")
            ELSE Goes(g, "failed") /\ UNCHANGED <<failures, late>>
  /\ UNCHANGED <<closer, wait, mainVars>>

(* The select between the timer and the end of the context.                *)
BackedOff(g) ==
  /\ pc[g] = "backoff"
  /\ wait' = [wait EXCEPT ![g] = @ * 2]
  /\ Goes(g, "check")
  /\ UNCHANGED <<conn, closer, failures, late, mainVars>>

(* Mutant: the backoff of the last outage is kept.                         *)
LoggedOn_BackoffKept(g) ==
  /\ pc[g] = "logon"
  /\ conn[g] = "open"
  /\ Goes(g, "session")
  /\ failures' = [failures EXCEPT ![g] = 0]
  /\ FiresEvent("Run")
  /\ UNCHANGED <<conn, closer, wait, mainVars>>

(* Connected is fired.                                                     *)
LoggedOn(g) ==
  /\ pc[g] = "logon"
  /\ conn[g] = "open"
  /\ Goes(g, "session")
  /\ wait' = [wait EXCEPT ![g] = Delay]
  /\ failures' = [failures EXCEPT ![g] = 0]
  /\ FiresEvent("Run")
  /\ UNCHANGED <<conn, closer, mainVars>>

(* Client.Run returns when the connection is closed; Disconnected and      *)
(* Clear are fired, and SetConn forgets the connection.                    *)
SessionEnds(g) ==
  /\ pc[g] = "session"
  /\ conn[g] = "closed"
  /\ conn' = [conn EXCEPT ![g] = "none"]
  /\ Goes(g, "check")
  /\ FiresEvent("Run")
  /\ UNCHANGED <<closer, wait, failures, mainVars>>

(* The goroutine Run has started for the gateway reports the error that    *)
(* Run of the gateway returned, unless it is context.Canceled, then is     *)
(* done.                                                                   *)
Reports(g) ==
  /\ pc[g] = "failed"
  /\ Goes(g, "left")
  /\ FiresEvent("Run")
  /\ UNCHANGED <<conn, closer, wait, failures, mainVars>>

(* Mutant: the client is only closed in a session.                         *)
Close_InSession(g) ==
  /\ closer[g] = "wait" /\ cancelled
  /\ closer' = [closer EXCEPT ![g] = IF conn[g] = "none" THEN "missed" ELSE "closed"]
  /\ conn' = IF pc[g] = "session" THEN [conn EXCEPT ![g] = "closed"] ELSE conn
  /\ UNCHANGED <<pc, wait, failures, late, mainVars>>

Close(g) ==
  /\ closer[g] = "wait" /\ cancelled
  /\ closer' = [closer EXCEPT ![g] = IF conn[g] = "none" THEN "missed" ELSE "closed"]
  /\ conn' = IF conn[g] = "open" THEN [conn EXCEPT ![g] = "closed"] ELSE conn
  /\ UNCHANGED <<pc, wait, failures, late, mainVars>>

(* The server closes the connection, or the network does.                  *)
Drop(g) ==
  /\ conn[g] = "open"
  /\ pc[g] = "session" \/ failures[g] < MaxFailures
  /\ conn' = [conn EXCEPT ![g] = "closed"]
  /\ UNCHANGED <<pc, closer, wait, failures, late, mainVars>>

-----------------------------------------------------------------------------
(* Run of the other gateways *)

(* Discord: Open is tried MaxOpens times, and after a success, or when the *)
(* context is cancelled before the first attempt, Run waits for the end.   *)
TryOpen(d) ==
  /\ pc[d] = "check"
  /\ IF cancelled \/ failures[d] = MaxOpens
       THEN Goes(d, IF failures[d] = 0 THEN "session" ELSE "failed")
       ELSE Goes(d, "open")
  /\ UNCHANGED <<conn, closer, wait, failures, late, mainVars>>

Opened(d) ==
  /\ pc[d] = "open"
  /\ Goes(d, "session")
  /\ UNCHANGED <<conn, closer, wait, failures, late, mainVars>>

OpenFails(d) ==
  /\ pc[d] = "open"
  /\ failures' = [failures EXCEPT ![d] = @ + 1]
  /\ Goes(d, "backoff")
  /\ FiresEvent("Run")
  /\ UNCHANGED <<conn, closer, wait, mainVars>>

Paused(d) ==
  /\ pc[d] = "backoff"
  /\ Goes(d, "check")
  /\ UNCHANGED <<conn, closer, wait, failures, late, mainVars>>

(* Standard input is read until the end, or not at all.                    *)
ReadInput ==
  /\ pc[Console] = "check"
  /\ \E Read \in BOOLEAN : Goes(Console, IF Read THEN "session" ELSE "left")
  /\ UNCHANGED <<conn, closer, wait, failures, late, mainVars>>

Leave(g) ==
  /\ pc[g] = "session" /\ cancelled
  /\ Goes(g, "left")
  /\ UNCHANGED <<conn, closer, wait, failures, late, mainVars>>

(* The goroutine that reads standard input handles a line, and fires the   *)
(* event it stands for.  Run does not wait for it, but closes what it      *)
(* reads: it takes no other line.                                          *)
TakesLine ==
  /\ pc[Console] = "session" /\ ~busy
  /\ busy' = TRUE
  /\ UNCHANGED <<main, cancelled, restart, sig, watcher, saver, pc, conn, closer, wait, failures,
                 runs, owed, late>>

HandlesLine ==
  /\ busy /\ main # "ended"
  /\ busy' = FALSE
  /\ FiresEvent("read")
  /\ UNCHANGED <<main, cancelled, restart, sig, watcher, saver, pc, conn, closer, wait, failures,
                 runs, owed>>

-----------------------------------------------------------------------------

Watch == WatchSignal \/ WatchDone
Logon(g) == Dialed(g) \/ LoggedOn(g) \/ LogonFails(g)
Client(g) == LoopHead(g) \/ Logon(g) \/ BackedOff(g) \/ SessionEnds(g) \/ Reports(g)
Open(d) == TryOpen(d) \/ Opened(d) \/ OpenFails(d) \/ Paused(d) \/ Leave(d) \/ Reports(d)
Terminal == ReadInput \/ Leave(Console)
Reader == TakesLine \/ HandlesLine
Main == RunReturns \/ End \/ StartAgain

(* Once the program has ended there is nothing to do.                      *)
Ended == main = "ended" /\ UNCHANGED vars

Next ==
  \/ Signal \/ Watch \/ Quit \/ Restart
  \/ Main \/ Save \/ SaveLoop
  \/ \E g \in Clients : Client(g) \/ Close(g) \/ Drop(g)
  \/ \E d \in Discord : Open(d)
  \/ Terminal \/ Reader
  \/ Ended

Spec == Init /\ [][Next]_vars

(* Goroutines run, timers expire, Logon and Open come to an end.  Nothing  *)
(* is assumed of signals, commands and servers.                            *)
FairSpec ==
  /\ Spec
  /\ WF_vars(Watch) /\ WF_vars(Main) /\ WF_vars(Save) /\ WF_vars(SaveLoop)
  /\ \A g \in Clients : WF_vars(Client(g)) /\ WF_vars(Close(g))
  /\ \A d \in Discord : WF_vars(Open(d))
  /\ WF_vars(Terminal)

-----------------------------------------------------------------------------

TypeOK ==
  /\ main \in {"running", "stopped", "ended"}
  /\ cancelled \in BOOLEAN /\ restart \in BOOLEAN /\ sig \in BOOLEAN /\ owed \in BOOLEAN
  /\ watcher \in {"select", "gone"}
  /\ saver \in {"wait", "check", "send"}
  /\ pc \in [Gateways -> {"check", "dial", "logon", "open", "backoff", "session", "failed", "left"}]
  /\ conn \in [Clients -> {"none", "open", "closed"}]
  /\ closer \in [Clients -> {"wait", "closed", "missed"}]
  /\ wait \in [Clients -> 0..(2 * High + Delay)]
  /\ failures \in [Clients \cup Discord -> 0..(MaxFailures + MaxOpens)]
  /\ busy \in BOOLEAN
  /\ runs \in 1..MaxRuns
  /\ late \subseteq {"Run", "read"}

(* 2^n *)
Power[n \in Nat] == IF n = 0 THEN 1 ELSE 2 * Power[n - 1]

(* The n-th retry of an outage waits twice as long as the one before, from *)
(* ReconnectDelay on and between the limits; a session starts it afresh.   *)
BackoffIsExponential ==
  \A g \in Clients : pc[g] = "backoff" =>
    wait[g] = Min({High, Max({Low, Delay}) * Power[failures[g] - 1]})

(* Stop, on which the plugins are closed, comes after every event of the   *)
(* goroutines Run has started, the report of what a gateway returned       *)
(* included, and no client is connected then: whatever logons, outages and *)
(* closing goroutines the end of the run met, nothing of them is left.     *)
StopIsLast ==
  /\ "Run" \notin late
  /\ main # "running" => \A g \in Clients : conn[g] # "open"

(* No event at all comes after Stop.                                       *)
NothingAfterStop == late = {}

(* The connection of a client that was made after Close: nobody closes it. *)
Unclosed(g) == closer[g] = "missed" /\ conn[g] = "open"

Over(r) == main = "ended" \/ runs > r

(* Once the context is cancelled the run ends, whatever the gateways are   *)
(* doing, but for a client that is logging on at the time.                 *)
ShutdownEnds ==
  \A r \in 1..MaxRuns :
    runs = r /\ cancelled ~> Over(r) \/ \E g \in Clients : Unclosed(g)

(* "Quit program": it ends, or starts again.                               *)
QuitEnds == \A r \in 1..MaxRuns : runs = r /\ cancelled ~> Over(r)

(* A signal ends the program, even one that comes between two runs or      *)
(* together with .restart, unless .restart is executed after it was seen.  *)
SignalHonoured == owed ~> main = "ended" \/ ~owed \/ \E g \in Clients : Unclosed(g)

=============================================================================
