------------------------------ MODULE Terminal ------------------------------
(***************************************************************************)
(* Lines typed in the terminal (main.go, gateway/stdio/stdio.go).          *)
(*                                                                         *)
(* One goroutine reads standard input for as long as the process lives,    *)
(* since a restart must not close it.  It writes each line to pw: standard *)
(* output until the first run has made a pipe, then the pipe of the latest *)
(* run.  Run of std:io reads its pipe in a goroutine, if it reads at all,  *)
(* and closes it when the context is cancelled.  A write to a pipe waits   *)
(* until the line is read or the pipe closed.                              *)
(***************************************************************************)
EXTENDS Naturals

CONSTANTS Reads,    \* values StdIO.Config.Read may have when a run starts
          MaxRuns,  \* bound: runs of the program
          MaxLines  \* bound: lines typed

ASSUME ReadsAssumption == Reads \subseteq BOOLEAN
ASSUME BoundAssumption == MaxRuns \in Nat \ {0} /\ MaxLines \in Nat

Pipe == 1..MaxRuns  \* the pipe of each run
Stdout == 0

VARIABLES
  run,      \* the current run
  phase,    \* "loading" until the pipe is made, "running", "over"
  pw,       \* what lines are written to
  reader,   \* reader[p]: "none", "reading" pipe p, "busy" with a line, "blocked" on res
  closed,   \* closed[p]: the reading end of p is closed
  typed,    \* lines typed so far
  taken,    \* of those, the lines the goroutine of main took from os.Stdin
  input,    \* what that goroutine does: "read", "got" a line, "write"
  to,       \* where it is writing
  handled   \* history: handled[n] is the run that was given line n, 0 if none was

vars == <<run, phase, pw, reader, closed, typed, taken, input, to, handled>>
runVars == <<run, phase, pw, reader, closed>>
inputVars == <<typed, taken, input, to>>

Init ==
  /\ run = 1
  /\ phase = "loading"
  /\ pw = Stdout
  /\ reader = [p \in Pipe |-> "none"]
  /\ closed = [p \in Pipe |-> FALSE]
  /\ typed = 0
  /\ taken = 0
  /\ input = "read"
  /\ to = Stdout
  /\ handled = [n \in 1..MaxLines |-> 0]

-----------------------------------------------------------------------------
(* The runs *)

(* Mutant: a restart keeps the writing end of the old pipe.                *)
MakePipe_Once ==
  /\ phase = "loading"
  /\ phase' = "running"
  /\ pw' = IF pw = Stdout THEN run ELSE pw
  /\ \E read \in Reads :
       reader' = IF read THEN [reader EXCEPT ![run] = "reading"] ELSE reader
  /\ UNCHANGED <<run, closed, inputVars, handled>>

(* io.Pipe, New, and Run of std:io up to its select or its return.         *)
MakePipe ==
  /\ phase = "loading"
  /\ phase' = "running"
  /\ pw' = run
  /\ \E read \in Reads :
       reader' = IF read THEN [reader EXCEPT ![run] = "reading"] ELSE reader
  /\ UNCHANGED <<run, closed, inputVars, handled>>

(* The context is cancelled; Run, if it got that far, closes the pipe.     *)
Stop ==
  /\ phase = "running"
  /\ phase' = "over"
  /\ closed' = [closed EXCEPT ![run] = reader[run] # "none"]
  /\ UNCHANGED <<run, pw, reader, inputVars, handled>>

StartAgain ==
  /\ phase = "over" /\ run < MaxRuns
  /\ run' = run + 1
  /\ phase' = "loading"
  /\ UNCHANGED <<pw, reader, closed, inputVars, handled>>

-----------------------------------------------------------------------------
(* The goroutine that reads standard input *)

Type ==
  /\ typed < MaxLines
  /\ typed' = typed + 1
  /\ UNCHANGED <<runVars, taken, input, to, handled>>

(* ReadBytes returns a line.                                               *)
Take ==
  /\ input = "read" /\ taken < typed
  /\ taken' = taken + 1
  /\ input' = "got"
  /\ UNCHANGED <<runVars, typed, to, handled>>

(* pw.Write begins; pw is whatever main last assigned to it.               *)
Write ==
  /\ input = "got"
  /\ to' = pw
  /\ input' = IF pw = Stdout THEN "read" ELSE "write"
  /\ UNCHANGED <<runVars, typed, taken, handled>>

(* The pipe is closed: the error is ignored, the line gone.                *)
WriteFails ==
  /\ input = "write" /\ closed[to]
  /\ input' = "read"
  /\ UNCHANGED <<runVars, typed, taken, to, handled>>

-----------------------------------------------------------------------------
(* read of std:io *)

(* The event of the line is fired, by run p.                               *)
Read(p) ==
  /\ reader[p] = "reading"
  /\ input = "write" /\ to = p /\ ~closed[p]
  /\ input' = "read"
  /\ reader' = [reader EXCEPT ![p] = "busy"]
  /\ handled' = [handled EXCEPT ![taken] = p]
  /\ UNCHANGED <<run, phase, pw, closed, typed, taken, to>>

Handled(p) ==
  /\ reader[p] = "busy"
  /\ reader' = [reader EXCEPT ![p] = "reading"]
  /\ UNCHANGED <<run, phase, pw, closed, inputVars, handled>>

(* Nobody receives the error from res any more.                            *)
ReadFails(p) ==
  /\ reader[p] = "reading" /\ closed[p]
  /\ reader' = [reader EXCEPT ![p] = "blocked"]
  /\ UNCHANGED <<run, phase, pw, closed, inputVars, handled>>

-----------------------------------------------------------------------------

Input == Take \/ Write \/ WriteFails
Reader(p) == Read(p) \/ Handled(p) \/ ReadFails(p)

Next ==
  \/ MakePipe \/ Stop \/ StartAgain
  \/ Type \/ Input
  \/ \E p \in Pipe : Reader(p)

Spec == Init /\ [][Next]_vars

(* Goroutines run and handlers return; a run lasts as long as it likes,    *)
(* and nobody has to type.                                                 *)
FairSpec ==
  /\ Spec
  /\ WF_vars(MakePipe) /\ WF_vars(Input)
  /\ \A p \in Pipe : WF_vars(Reader(p))

-----------------------------------------------------------------------------

(* Every variable has its type, and no line is taken that was not typed.   *)
TypeOK ==
  /\ run \in Pipe
  /\ phase \in {"loading", "running", "over"}
  /\ pw \in {Stdout} \cup Pipe /\ to \in {Stdout} \cup Pipe
  /\ reader \in [Pipe -> {"none", "reading", "busy", "blocked"}]
  /\ closed \in [Pipe -> BOOLEAN]
  /\ typed \in 0..MaxLines /\ taken \in 0..typed
  /\ input \in {"read", "got", "write"}
  /\ handled \in [1..MaxLines -> {0} \cup Pipe]

(* "Any messages typed in the terminal will be forwarded as chat": a line  *)
(* that is still to be taken from standard input while std:io reads is     *)
(* given to that run, unless the run ends first.  Restarts of the program  *)
(* (main.go, goto start) must not leave the goroutine of main behind.      *)
TypedIsForwarded ==
  \A r \in Pipe : \A n \in 1..MaxLines :
    (run = r /\ phase = "running" /\ reader[r] # "none" /\ taken < n /\ n <= typed)
      ~> (handled[n] = r \/ phase # "running" \/ run # r)

=============================================================================
