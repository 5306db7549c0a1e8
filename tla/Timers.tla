------------------------------- MODULE Timers -------------------------------
(***************************************************************************)
(* The timers of a plugin (goop/plugin/timers.go).                         *)
(*                                                                         *)
(* setTimeout starts a runtime timer and then registers it; when the timer *)
(* fires, a goroutine of its own calls the function and unregisters it;    *)
(* the function setTimeout returns unregisters the timer and stops it.     *)
(* When the program ends, Close stops what is registered.  The function    *)
(* may itself call setTimeout, as plugins/announce.lua does.               *)
(*                                                                         *)
(* Every critical section is one step; nothing holds the mutex while it    *)
(* calls a function.                                                       *)
(***************************************************************************)
EXTENDS Naturals, FiniteSets

CONSTANT Timer  \* the calls of setTimeout

VARIABLES
  stop,     \* Timers.stop
  timers,   \* Timers.timers
  runtime,  \* runtime[m]: "unused", "armed", "calling" f, "called" it, "done", "stopped"
  caller,   \* caller[m]: "none", "add" to call, "holding" the cancel function,
            \* "stop" to call, "cancelled" (it returned TRUE), "late" (FALSE)
  reached   \* history: the timers that were registered when Stop ran

timersVars == <<stop, timers, runtime, caller, reached>>

TimersInit ==
  /\ stop = FALSE
  /\ timers = {}
  /\ runtime = [m \in Timer |-> "unused"]
  /\ caller = [m \in Timer |-> "none"]
  /\ reached = {}

(* AfterFunc up to its call of add.  The script has run before Stop; after *)
(* it, only a function that a timer called still runs.                     *)
AfterFunc(m) ==
  /\ runtime[m] = "unused"
  /\ stop => \E n \in Timer : runtime[n] = "calling"
  /\ runtime' = [runtime EXCEPT ![m] = "armed"]
  /\ caller' = [caller EXCEPT ![m] = "add"]
  /\ UNCHANGED <<stop, timers, reached>>

add(m) ==
  /\ caller[m] = "add"
  /\ timers' = IF stop THEN timers ELSE timers \cup {m}
  /\ caller' = [caller EXCEPT ![m] = "holding"]
  /\ UNCHANGED <<stop, runtime, reached>>

(* Mutant: the timer is unregistered before f is called.                   *)
Fires_Unregisters(m) ==
  /\ runtime[m] = "armed"
  /\ runtime' = [runtime EXCEPT ![m] = "calling"]
  /\ timers' = timers \ {m}
  /\ UNCHANGED <<stop, caller, reached>>

Fires(m) ==
  /\ runtime[m] = "armed"
  /\ runtime' = [runtime EXCEPT ![m] = "calling"]
  /\ UNCHANGED <<stop, timers, caller, reached>>

Returns(m) ==
  /\ runtime[m] = "calling"
  /\ runtime' = [runtime EXCEPT ![m] = "called"]
  /\ UNCHANGED <<stop, timers, caller, reached>>

(* The del after the call of f.                                            *)
Fired(m) ==
  /\ runtime[m] = "called"
  /\ runtime' = [runtime EXCEPT ![m] = "done"]
  /\ timers' = timers \ {m}
  /\ UNCHANGED <<stop, caller, reached>>

(* The function setTimeout returned: del, then Timer.Stop.                 *)
Cancel(m) ==
  /\ caller[m] = "holding"
  /\ timers' = timers \ {m}
  /\ caller' = [caller EXCEPT ![m] = "stop"]
  /\ UNCHANGED <<stop, runtime, reached>>

(* Mutant: it reports success without stopping the timer.                  *)
CancelStop_Forgotten(m) ==
  /\ caller[m] = "stop"
  /\ caller' = [caller EXCEPT ![m] = IF runtime[m] = "armed" THEN "cancelled" ELSE "late"]
  /\ UNCHANGED <<stop, timers, runtime, reached>>

CancelStop(m) ==
  /\ caller[m] = "stop"
  /\ caller' = [caller EXCEPT ![m] = IF runtime[m] = "armed" THEN "cancelled" ELSE "late"]
  /\ runtime' = [runtime EXCEPT ![m] = IF @ = "armed" THEN "stopped" ELSE @]
  /\ UNCHANGED <<stop, timers, reached>>

(* Mutant: only the flag is set.                                           *)
Stop_FlagOnly ==
  /\ ~stop
  /\ stop' = TRUE
  /\ reached' = timers
  /\ UNCHANGED <<timers, runtime, caller>>

(* Close.                                                                  *)
Stop ==
  /\ ~stop
  /\ stop' = TRUE
  /\ reached' = timers
  /\ runtime' = [m \in Timer |->
       IF m \in timers /\ runtime[m] = "armed" THEN "stopped" ELSE runtime[m]]
  /\ UNCHANGED <<timers, caller>>

TimersNext ==
  \/ Stop
  \/ \E m \in Timer : AfterFunc(m) \/ add(m) \/ Fires(m) \/ Returns(m) \/ Fired(m)
                      \/ Cancel(m) \/ CancelStop(m)

TimersSpec == TimersInit /\ [][TimersNext]_timersVars

-----------------------------------------------------------------------------

Begins(m) == runtime[m] = "armed" /\ runtime'[m] = "calling"

(* A function never starts after its cancel function returned TRUE.        *)
CancelHonest == [][\A m \in Timer : Begins(m) => caller[m] # "cancelled"]_timersVars

(* A function never starts after Stop, if its timer was registered then,   *)
(* even if a cancellation or another function is under way.                *)
RegisteredAreStopped == [][\A m \in Timer : Begins(m) => m \notin reached]_timersVars

(* "Timers registers all active timers": a timer that setTimeout has       *)
(* returned is registered until its function has returned, or it is        *)
(* cancelled, or the program stops.                                        *)
ActiveAreRegistered ==
  ~stop => \A m \in Timer : runtime[m] \in {"armed", "calling"} /\ caller[m] = "holding"
                            => m \in timers

(* "Stop all timers": no function starts once Stop has run.                *)
NoneAfterStop == [][\A m \in Timer : Begins(m) => ~stop]_timersVars

=============================================================================
