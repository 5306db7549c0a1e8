---------------------------- MODULE LifecycleProofs ----------------------------
(***************************************************************************)
(* What Lifecycle promises, for any gateways, delays and limits, what      *)
(* Timers promises, for any number of timers, and Terminal, for any runs.  *)
(*                                                                         *)
(* Lifecycle: no goroutine that Run has started fires an event after Stop, *)
(* and no client has a connection then; a retry waits as long as the       *)
(* number of failures says, however sessions and outages alternate.        *)
(*                                                                         *)
(* Timers: a timer that Stop found registered, or whose cancellation       *)
(* succeeded, is not armed any more.                                       *)
(*                                                                         *)
(* Terminal: a restart does not leave behind the goroutine that reads      *)
(* standard input, and lines go to runs in order.                          *)
(***************************************************************************)
EXTENDS Lifecycle, Timers, WellFoundedInduction, TLAPS

(* Power satisfies its recursive definition.                               *)
Powers(n) == {f \in [0..n -> Nat] : f[0] = 1 /\ \A i \in 1..n : f[i] = 2 * f[i - 1]}

(* A set of numbers that is not empty has a least one.                     *)
LEMMA LeastNumber ==
  ASSUME NEW S \in SUBSET Nat, S # {}
  PROVE  \E i \in S : i - 1 \notin S
<1>1. PICK i \in S : \A j \in S : <<j, i>> \notin OpToRel(<, Nat)
  BY NatLessThanWellFounded, WFMin, Zenon
<1>2. \A j \in S : ~(j < i)
  BY <1>1, Zenon DEF OpToRel
<1>3. i - 1 \notin S
  BY <1>2
<1>4. QED
  BY <1>3

LEMMA PowersExist == \A n \in Nat : Powers(n) # {}
<1> DEFINE S == {n \in Nat : Powers(n) = {}}
<1>1. ASSUME NEW n \in S, n - 1 \notin S  PROVE FALSE
  <2>1. CASE n = 0
    <3>1. [i \in 0..0 |-> 1] \in Powers(0)
      BY DEF Powers
    <3>2. QED
      BY <2>1, <3>1
  <2>2. CASE n # 0
    <3>1. n \in Nat /\ n - 1 \in Nat
      BY <2>2
    <3>2. PICK f : f \in Powers(n - 1)
      BY <3>1, <1>1
    <3>3. PICK g : g = [i \in 0..n |-> IF i = n THEN 2 * f[n - 1] ELSE f[i]]
      OBVIOUS
    <3>4. /\ f \in [0..(n - 1) -> Nat] /\ f[0] = 1
          /\ \A i \in 1..(n - 1) : f[i] = 2 * f[i - 1]
      BY <3>2 DEF Powers
    <3>5. g \in [0..n -> Nat] /\ g[0] = 1
      BY <2>2, <3>1, <3>3, <3>4
    <3>6. \A i \in 1..n : g[i] = 2 * g[i - 1]
      BY <3>1, <3>3, <3>4
    <3>7. g \in Powers(n)
      BY <3>5, <3>6 DEF Powers
    <3>8. QED
      BY <3>7
  <2>3. QED
    BY <2>1, <2>2
<1>2. S = {}
  <2> HIDE DEF S
  <2>1. S \in SUBSET Nat
    BY DEF S
  <2>2. QED
    BY <1>1, <2>1, LeastNumber
<1>3. QED
  BY <1>2

LEMMA PowersAgree ==
  ASSUME NEW n \in Nat, NEW f \in Powers(n), NEW m \in Nat, NEW g \in Powers(m)
  PROVE  \A i \in Nat : i <= n /\ i <= m => f[i] = g[i]
<1> DEFINE S == {i \in Nat : i <= n /\ i <= m /\ f[i] # g[i]}
<1>1. ASSUME NEW i \in S, i - 1 \notin S  PROVE FALSE
  <2>1. f[0] = 1 /\ g[0] = 1
    BY DEF Powers
  <2>2. i \in 1..n /\ i \in 1..m /\ i - 1 \in Nat
    BY <2>1
  <2>3. f[i - 1] = g[i - 1]
    BY <2>2, <1>1
  <2>4. f[i] = 2 * f[i - 1] /\ g[i] = 2 * g[i - 1]
    BY <2>2 DEF Powers
  <2>5. QED
    BY <2>3, <2>4
<1>2. S = {}
  <2> HIDE DEF S
  <2>1. S \in SUBSET Nat
    BY DEF S
  <2>2. QED
    BY <1>1, <2>1, LeastNumber
<1>3. QED
  BY <1>2

LEMMA PowerIsRecursive ==
  /\ Power[0] = 1
  /\ \A n \in Nat : Power[n] \in Nat \ {0} /\ Power[n + 1] = 2 * Power[n]
<1>1. PICK h : h = [n \in Nat |-> (CHOOSE f : f \in Powers(n))[n]]
  OBVIOUS
<1>2. ASSUME NEW n \in Nat, NEW f \in Powers(n), NEW i \in 0..n
      PROVE  h[i] = f[i]
  <2>1. PICK g : g = CHOOSE e : e \in Powers(i)
    OBVIOUS
  <2>2. i \in Nat
    OBVIOUS
  <2>3. g \in Powers(i)
    BY <2>1, <2>2, PowersExist
  <2>4. h[i] = g[i]
    BY <1>1, <2>1, <2>2
  <2>5. g[i] = f[i]
    BY <2>2, <2>3, PowersAgree
  <2>6. QED
    BY <2>4, <2>5
<1>3. ASSUME NEW n \in Nat
      PROVE  h[n] \in Nat /\ h[n] = IF n = 0 THEN 1 ELSE 2 * h[n - 1]
  <2>1. PICK f : f \in Powers(n)
    BY PowersExist
  <2>2. h[n] = f[n] /\ (n # 0 => h[n - 1] = f[n - 1])
    BY <2>1, <1>2
  <2>3. /\ f \in [0..n -> Nat] /\ f[0] = 1 /\ \A i \in 1..n : f[i] = 2 * f[i - 1]
    BY <2>1 DEF Powers
  <2>4. QED
    BY <2>2, <2>3
<1>4. h = [n \in Nat |-> IF n = 0 THEN 1 ELSE 2 * h[n - 1]]
  BY <1>1, <1>3
<1>5. Power = [n \in Nat |-> IF n = 0 THEN 1 ELSE 2 * Power[n - 1]]
  BY <1>4 DEF Power
<1>6. ASSUME NEW n \in Nat  PROVE Power[n] = IF n = 0 THEN 1 ELSE 2 * Power[n - 1]
  BY <1>5
<1> DEFINE S == {n \in Nat : Power[n] \notin Nat \ {0}}
<1>7. ASSUME NEW n \in S, n - 1 \notin S  PROVE FALSE
  <2>1. CASE n = 0
    BY <2>1, <1>6
  <2>2. CASE n # 0
    <3>1. n \in Nat /\ n - 1 \in Nat
      BY <2>2
    <3>2. Power[n - 1] \in Nat \ {0} /\ Power[n] = 2 * Power[n - 1]
      BY <3>1, <2>2, <1>6, <1>7
    <3>3. Power[n] \in Nat \ {0}
      BY <3>2
    <3>4. QED
      BY <3>3
  <2>3. QED
    BY <2>1, <2>2
<1>8. S = {}
  <2> HIDE DEF S
  <2>1. S \in SUBSET Nat
    BY DEF S
  <2>2. QED
    BY <1>7, <2>1, LeastNumber
<1>9. ASSUME NEW n \in Nat  PROVE Power[n + 1] = 2 * Power[n]
  <2>1. n + 1 \in Nat /\ n + 1 # 0 /\ (n + 1) - 1 = n
    OBVIOUS
  <2>2. QED
    BY <2>1, <1>6
<1>10. QED
  BY <1>6, <1>8, <1>9

-----------------------------------------------------------------------------
(* Lifecycle *)

(* The n-th wait of an outage, from 0 on.                                  *)
Waits(n) == LET w == (IF Low < Delay THEN Delay ELSE Low) * Power[n]
            IN  IF w < High THEN w ELSE High

(* Clamping twice a wait gives the next one.                               *)
LEMMA WaitsDouble ==
  /\ Clamp(Delay) = Waits(0)
  /\ \A n \in Nat : Waits(n) \in 0..High /\ Clamp(2 * Waits(n)) = Waits(n + 1)
<1>1. PICK m : m = IF Low < Delay THEN Delay ELSE Low
  OBVIOUS
<1>2. m \in Nat /\ m >= Low /\ m >= Delay
  BY <1>1, DelayAssumption
<1>3. Clamp(Delay) = Waits(0)
  <2>1. Waits(0) = IF m < High THEN m ELSE High
    BY <1>1, <1>2, PowerIsRecursive DEF Waits
  <2>2. QED
    BY <2>1, <1>1, DelayAssumption DEF Clamp
<1>4. ASSUME NEW n \in Nat
      PROVE  Waits(n) \in 0..High /\ Clamp(2 * Waits(n)) = Waits(n + 1)
  <2>1. PICK p : p = Power[n]
    OBVIOUS
  <2>2. p \in Nat \ {0} /\ Power[n + 1] = 2 * p
    BY <2>1, PowerIsRecursive
  <2>3. PICK x : x = m * p
    OBVIOUS
  <2>4. x \in Nat /\ m * (2 * p) = 2 * x
    BY <2>2, <2>3, <1>2
  <2>5. x >= Low
    <3>1. \A a, b \in Nat : b # 0 => a * b >= a
      OBVIOUS
    <3>2. x >= m
      BY <3>1, <2>2, <2>3, <1>2
    <3>3. QED
      BY <3>2, <2>4, <1>2, DelayAssumption
  <2>6. Waits(n) = (IF x < High THEN x ELSE High) /\ Waits(n + 1) = IF 2 * x < High THEN 2 * x ELSE High
    BY <2>1, <2>2, <2>3, <2>4, <1>1 DEF Waits
  <2>7. QED
    BY <2>4, <2>5, <2>6, DelayAssumption DEF Clamp
<1>5. QED
  BY <1>3, <1>4

(* A client with a connection is logging on or in a session; once Run has  *)
(* returned every gateway has left, and none of them has fired since.      *)
Resting ==
  /\ "Run" \notin late
  /\ \A g \in Clients : conn[g] # "none" => pc[g] \in {"logon", "session"}
  /\ main # "running" => \A g \in Gateways : pc[g] = "left"

(* Where the backoff of a client stands in its loop.                       *)
Retries ==
  \A g \in Clients :
    /\ pc[g] = "check" => wait[g] = IF failures[g] = 0 THEN Delay ELSE 2 * Waits(failures[g] - 1)
    /\ pc[g] \in {"dial", "logon"} => wait[g] = Waits(failures[g])
    /\ pc[g] = "backoff" => failures[g] # 0 /\ wait[g] = Waits(failures[g] - 1)
    /\ pc[g] = "session" => failures[g] = 0 /\ wait[g] = Delay
    /\ pc[g] # "open"

(* What keeps the counters below their bounds.                             *)
Counts ==
  /\ \A g \in Clients : /\ failures[g] <= MaxFailures
                        /\ pc[g] = "logon" /\ conn[g] = "closed" /\ ~cancelled => failures[g] < MaxFailures
  /\ \A d \in Discord : /\ failures[d] <= MaxOpens
                        /\ pc[d] = "open" => failures[d] < MaxOpens
  /\ restart => runs < MaxRuns

IInv == TypeOK /\ Resting /\ Retries /\ Counts

LEMMA Limits ==
  /\ Delay \in Nat /\ Low \in Nat /\ High \in Nat /\ Low <= High
  /\ MaxOpens \in Nat \ {0} /\ MaxFailures \in Nat \ {0} /\ MaxRuns \in Nat \ {0}
  /\ Delay \in 0..(2 * High + Delay) /\ 1 \in 1..MaxRuns /\ 0 \in 0..(MaxFailures + MaxOpens)
<1>1. /\ Delay \in Nat /\ Low \in Nat /\ High \in Nat /\ Low <= High
      /\ MaxOpens \in Nat \ {0} /\ MaxFailures \in Nat \ {0} /\ MaxRuns \in Nat \ {0}
  BY DelayAssumption, BoundAssumption
<1>2. QED
  BY <1>1

LEMMA IInvInit == Init => IInv
<1> SUFFICES ASSUME Init PROVE IInv
  OBVIOUS
<1>1. TypeOK
  BY Limits DEF Init, TypeOK
<1>2. Resting /\ Retries /\ Counts
  BY Limits, GatewayAssumption DEF Init, Resting, Retries, Counts, Gateways
<1>3. QED
  BY <1>1, <1>2 DEF IInv

(* The steps of main.                                                      *)
LEMMA MainStep ==
  ASSUME IInv, Signal \/ Watch \/ Quit \/ Restart \/ RunReturns \/ End \/ Save \/ SaveLoop
  PROVE  IInv'
<1> USE DEF IInv, TypeOK, runVars, gatewayVars
<1>1. CASE Signal
  <2>1. TypeOK'
    BY <1>1, Limits DEF Signal, Resting, Retries, Counts
  <2>2. Resting'
    BY <1>1, Limits DEF Signal, Resting
  <2>3. Retries'
    BY <1>1, Limits DEF Signal, Retries
  <2>4. Counts'
    BY <1>1, Limits DEF Signal, Counts
  <2>5. QED
    BY <2>1, <2>2, <2>3, <2>4
<1>2. CASE Watch
  <2>1. CASE WatchSignal
    BY <2>1 DEF WatchSignal, Resting, Retries, Counts
  <2>2. CASE WatchDone
    BY <2>2 DEF WatchDone, Resting, Retries, Counts
  <2>3. QED
    BY <1>2, <2>1, <2>2 DEF Watch
<1>3. CASE Quit
  BY <1>3 DEF Quit, Resting, Retries, Counts
<1>4. CASE Restart
  BY <1>4 DEF Restart, Resting, Retries, Counts
<1>5. CASE RunReturns
  BY <1>5 DEF RunReturns, Resting, Retries, Counts
<1>6. CASE End
  BY <1>6 DEF End, Resting, Retries, Counts
<1>7. CASE Save \/ SaveLoop
  <2>1. UNCHANGED <<main, cancelled, restart, sig, watcher, runs, owed, gatewayVars>>
        /\ saver' \in {"wait", "check", "send"}
    BY <1>7 DEF Save, SaveLoop
  <2>2. QED
    BY <2>1 DEF Resting, Retries, Counts
<1>8. QED
  BY <1>1, <1>2, <1>3, <1>4, <1>5, <1>6, <1>7

LEMMA StartAgainStep == IInv /\ StartAgain => IInv'
<1> SUFFICES ASSUME IInv, StartAgain PROVE IInv'
  OBVIOUS
<1>1. TypeOK'
  <2>1. runs' \in 1..MaxRuns
    BY Limits DEF IInv, StartAgain, TypeOK, Counts
  <2>2. QED
    BY <2>1, Limits DEF IInv, StartAgain, TypeOK
<1>2. Resting' /\ Retries' /\ Counts'
  BY Limits, GatewayAssumption DEF StartAgain, Resting, Retries, Counts, Gateways
<1>3. QED
  BY <1>1, <1>2 DEF IInv

LEMMA ClientStep ==
  ASSUME IInv, NEW g \in Clients, Client(g) \/ Close(g) \/ Drop(g)
  PROVE  IInv'
<1>0. late' = late
  <2>1. pc[g] # "left" => main = "running"
    BY DEF IInv, Resting, Gateways
  <2>2. QED
    BY <2>1 DEF Client, Logon, LoopHead, Dialed, LoggedOn, LogonFails, BackedOff, SessionEnds,
                Reports, Close, Drop, FiresEvent, Goes
<1> USE <1>0 DEF IInv, TypeOK, mainVars, Goes
<1>1. /\ g \in Gateways /\ g \notin Discord
      /\ \A n \in Nat : Waits(n) \in 0..High /\ Clamp(2 * Waits(n)) = Waits(n + 1)
      /\ Clamp(Delay) = Waits(0) /\ Low \in Nat /\ High \in Nat /\ Delay \in Nat
      /\ MaxFailures \in Nat /\ MaxOpens \in Nat
  BY GatewayAssumption, DelayAssumption, BoundAssumption, WaitsDouble DEF Gateways
<1>2. CASE LoopHead(g)
  <2>1. wait[g] = (IF failures[g] = 0 THEN Delay ELSE 2 * Waits(failures[g] - 1)) /\ failures[g] \in Nat
    BY <1>2 DEF LoopHead, Retries
  <2>2. Clamp(wait[g]) = Waits(failures[g]) /\ Waits(failures[g]) \in 0..High
    BY <2>1, <1>1
  <2>3. TypeOK'
    BY <1>1, <1>2, <2>2 DEF LoopHead
  <2>4. main = "running" /\ UNCHANGED <<conn, closer, failures, mainVars>>
    BY <1>1, <1>2 DEF LoopHead, Resting
  <2>5. CASE cancelled
    <3>1. pc' = [pc EXCEPT ![g] = "left"] /\ wait' = wait /\ conn[g] = "none"
      BY <1>2, <2>5 DEF LoopHead, Resting
    <3>2. Resting' /\ Counts'
      BY <1>1, <2>4, <3>1 DEF Resting, Counts
    <3>3. Retries'
      BY <1>1, <2>4, <3>1 DEF Retries
    <3>4. QED
      BY <2>3, <3>2, <3>3
  <2>6. CASE ~cancelled
    <3>1. /\ pc' = [pc EXCEPT ![g] = "dial"] /\ conn[g] = "none"
          /\ wait' = [wait EXCEPT ![g] = Waits(failures[g])]
      BY <1>2, <2>2, <2>6 DEF LoopHead, Resting
    <3>2. Resting' /\ Counts'
      BY <1>1, <2>4, <3>1 DEF Resting, Counts
    <3>3. Retries'
      BY <1>1, <2>4, <3>1 DEF Retries
    <3>4. QED
      BY <2>3, <3>2, <3>3
  <2>7. QED
    BY <2>5, <2>6
<1>3. CASE Dialed(g)
  BY <1>1, <1>3 DEF Dialed, Resting, Retries, Counts
<1>4. CASE LoggedOn(g)
  <2>1. TypeOK'
    BY <1>1, <1>4 DEF LoggedOn, Resting, Retries, Counts
  <2>2. Resting'
    BY <1>1, <1>4 DEF LoggedOn, Resting
  <2>3. Retries'
    BY <1>1, <1>4 DEF LoggedOn, Retries
  <2>4. Counts'
    BY <1>1, <1>4 DEF LoggedOn, Counts
  <2>5. QED
    BY <2>1, <2>2, <2>3, <2>4
<1>5. CASE LogonFails(g)
  <2>1. PICK reconnect \in BOOLEAN :
          /\ conn[g] = "closed" => reconnect
          /\ IF reconnect /\ ~cancelled
               THEN Goes(g, "backoff") /\ failures' = [failures EXCEPT ![g] = @ + 1]
               ELSE Goes(g, "failed") /\ UNCHANGED failures
    BY <1>5 DEF LogonFails
  <2>2. /\ pc[g] \in {"dial", "logon"} /\ failures[g] \in Nat /\ wait[g] = Waits(failures[g])
        /\ conn' = [conn EXCEPT ![g] = "none"]
        /\ UNCHANGED <<closer, wait, mainVars>>
        /\ ~cancelled => failures[g] < MaxFailures
    BY <1>5 DEF LogonFails, Retries, Counts, Resting
  <2>3. CASE reconnect /\ ~cancelled
    <3>1. /\ failures' = [failures EXCEPT ![g] = failures[g] + 1]
          /\ pc' = [pc EXCEPT ![g] = "backoff"]
          /\ failures[g] + 1 \in 0..MaxFailures /\ (failures[g] + 1) - 1 = failures[g]
      BY <1>1, <2>1, <2>2, <2>3
    <3>2. TypeOK'
      BY <1>1, <2>2, <3>1
    <3>3. Resting'
      BY <1>1, <2>2, <3>1 DEF Resting
    <3>4. Counts'
      BY <1>1, <2>2, <3>1 DEF Counts
    <3>5. Retries'
      BY <1>1, <2>2, <3>1 DEF Retries
    <3>6. QED
      BY <3>2, <3>3, <3>4, <3>5
  <2>4. CASE ~(reconnect /\ ~cancelled)
    <3>1. UNCHANGED failures /\ pc' = [pc EXCEPT ![g] = "failed"]
      BY <2>1, <2>4
    <3>2. TypeOK' /\ Counts'
      BY <1>1, <2>2, <3>1 DEF Counts
    <3>3. Resting'
      BY <1>1, <2>2, <3>1 DEF Resting
    <3>4. Retries'
      BY <1>1, <2>2, <3>1 DEF Retries
    <3>5. QED
      BY <3>2, <3>3, <3>4
  <2>5. QED
    BY <2>3, <2>4
<1>6. CASE BackedOff(g)
  <2>1. failures[g] \in Nat \ {0} /\ wait[g] = Waits(failures[g] - 1) /\ pc[g] = "backoff"
    BY <1>6 DEF BackedOff, Retries
  <2>2. Waits(failures[g] - 1) \in 0..High
    BY <2>1, <1>1
  <2>3. TypeOK'
    BY <1>1, <1>6, <2>1, <2>2 DEF BackedOff
  <2>4. Resting' /\ Counts'
    BY <1>1, <1>6 DEF BackedOff, Resting, Counts
  <2>5. Retries'
    BY <1>1, <1>6, <2>1 DEF BackedOff, Retries
  <2>6. QED
    BY <2>3, <2>4, <2>5
<1>7. CASE SessionEnds(g)
  BY <1>1, <1>7 DEF SessionEnds, Resting, Retries, Counts
<1>8. CASE Reports(g)
  BY <1>1, <1>8 DEF Reports, Resting, Retries, Counts
<1>9. CASE Close(g)
  BY <1>1, <1>9 DEF Close, Resting, Retries, Counts
<1>10. CASE Drop(g)
  BY <1>1, <1>10 DEF Drop, Resting, Retries, Counts
<1>11. QED
  BY <1>2, <1>3, <1>4, <1>5, <1>6, <1>7, <1>8, <1>9, <1>10 DEF Client, Logon

(* A step that only moves gateway d, which is no client.                   *)
LEMMA Moves ==
  ASSUME IInv, NEW d \in Gateways, d \notin Clients, pc[d] # "left",
         NEW to \in {"check", "open", "backoff", "session", "failed", "left"},
         d \in Discord /\ to = "open" => failures[d] < MaxOpens,
         pc' = [pc EXCEPT ![d] = to], UNCHANGED <<conn, closer, wait, failures, late, mainVars>>
  PROVE  IInv'
<1> USE DEF mainVars
<1>1. TypeOK'
  BY DEF IInv, TypeOK
<1>2. main = "running"
  BY DEF IInv, Resting
<1>3. pc \in [Gateways -> {"check", "dial", "logon", "open", "backoff", "session", "failed", "left"}]
      /\ Clients \subseteq Gateways /\ Discord \subseteq Gateways
  BY DEF IInv, TypeOK, Gateways
<1>4. \A g \in Gateways : g # d => pc'[g] = pc[g]
  BY <1>3
<1>5. Resting'
  BY <1>2, <1>3, <1>4 DEF IInv, Resting
<1>6. Retries'
  BY <1>3, <1>4 DEF IInv, Retries
<1>7. Counts'
  BY <1>3, <1>4 DEF IInv, Counts
<1>8. QED
  BY <1>1, <1>5, <1>6, <1>7 DEF IInv

LEMMA TerminalStep == IInv /\ Terminal => IInv'
<1> SUFFICES ASSUME IInv, Terminal PROVE IInv'
  OBVIOUS
<1>1. Console \in Gateways /\ Console \notin Clients /\ Console \notin Discord
  BY GatewayAssumption DEF Gateways
<1>2. PICK to \in {"session", "left"} :
        /\ pc[Console] # "left" /\ pc' = [pc EXCEPT ![Console] = to]
        /\ UNCHANGED <<conn, closer, wait, failures, late, mainVars>>
  BY DEF Terminal, ReadInput, Leave, Goes
<1>3. QED
  BY <1>1, <1>2, Moves

LEMMA DiscordStep ==
  ASSUME IInv, NEW d \in Discord, Open(d)
  PROVE  IInv'
<1>1. d \in Gateways /\ d \notin Clients /\ MaxOpens \in Nat /\ MaxFailures \in Nat
  BY GatewayAssumption, BoundAssumption DEF Gateways
<1>2. failures[d] \in 0..(MaxFailures + MaxOpens) /\ failures[d] <= MaxOpens
  BY DEF IInv, TypeOK, Counts
<1>3. CASE OpenFails(d)
  <2>1. failures' = [failures EXCEPT ![d] = failures[d] + 1] /\ failures[d] + 1 \in 0..MaxOpens
    BY <1>1, <1>2, <1>3 DEF OpenFails, IInv, Counts
  <2>2. pc' = [pc EXCEPT ![d] = "backoff"] /\ UNCHANGED <<conn, closer, wait, mainVars>>
    BY <1>3 DEF OpenFails, Goes
  <2>3. main = "running"
    BY <1>1, <1>3 DEF OpenFails, IInv, Resting
  <2>4. late' = late
    BY <1>3, <2>3 DEF OpenFails, FiresEvent
  <2>5. TypeOK'
    BY <1>1, <2>1, <2>2, <2>4 DEF IInv, TypeOK, mainVars
  <2>6. Resting'
    BY <1>1, <2>2, <2>3, <2>4 DEF IInv, TypeOK, Resting, mainVars
  <2>7. Retries'
    BY <1>1, <2>1, <2>2 DEF IInv, TypeOK, Retries, mainVars
  <2>8. Counts'
    BY <1>1, <2>1, <2>2 DEF IInv, TypeOK, Counts, mainVars
  <2>9. QED
    BY <2>5, <2>6, <2>7, <2>8 DEF IInv
<1>4. CASE TryOpen(d) \/ Opened(d) \/ Paused(d) \/ Leave(d) \/ Reports(d)
  <2>1. PICK to \in {"check", "open", "session", "failed", "left"} :
          /\ pc[d] # "left" /\ pc' = [pc EXCEPT ![d] = to]
          /\ to = "open" => failures[d] # MaxOpens
          /\ UNCHANGED <<conn, closer, wait, failures, late, mainVars>>
    <3>1. Reports(d) => main = "running"
      BY <1>1 DEF Reports, IInv, Resting
    <3>2. QED
      BY <1>4, <3>1 DEF TryOpen, Opened, Paused, Leave, Reports, FiresEvent, Goes
  <2>2. to = "open" => failures[d] < MaxOpens
    BY <1>1, <1>2, <2>1
  <2>3. QED
    BY <1>1, <2>1, <2>2, Moves
<1>5. QED
  BY <1>3, <1>4 DEF Open

LEMMA ReaderStep == IInv /\ Reader => IInv'
<1> SUFFICES ASSUME IInv, Reader PROVE IInv'
  OBVIOUS
<1>1. /\ busy' \in BOOLEAN
      /\ late' = late \/ late' = late \cup {"read"}
      /\ UNCHANGED <<main, cancelled, restart, sig, watcher, saver, pc, conn, closer, wait, failures,
                      runs, owed>>
  BY DEF Reader, TakesLine, HandlesLine, FiresEvent
<1>2. late' \subseteq {"Run", "read"} /\ "Run" \notin late'
  BY <1>1 DEF IInv, TypeOK, Resting
<1>3. QED
  BY <1>1, <1>2 DEF IInv, TypeOK, Resting, Retries, Counts

LEMMA IInvStep == IInv /\ [Next]_vars => IInv'
<1> SUFFICES ASSUME IInv, [Next]_vars PROVE IInv'
  OBVIOUS
<1>1. CASE Signal \/ Watch \/ Quit \/ Restart \/ Save \/ SaveLoop
  BY <1>1, MainStep
<1>2. CASE Main
  BY <1>2, MainStep, StartAgainStep DEF Main
<1>3. ASSUME NEW g \in Clients, Client(g) \/ Close(g) \/ Drop(g)  PROVE IInv'
  BY <1>3, ClientStep
<1>4. ASSUME NEW d \in Discord, Open(d)  PROVE IInv'
  BY <1>4, DiscordStep
<1>5. CASE Terminal
  BY <1>5, TerminalStep
<1>6. CASE Reader
  BY <1>6, ReaderStep
<1>7. CASE UNCHANGED vars
  BY <1>7 DEF vars, IInv, TypeOK, Resting, Retries, Counts
<1>8. QED
  BY <1>1, <1>2, <1>3, <1>4, <1>5, <1>6, <1>7, Zenon DEF Next, Ended

LEMMA Inductive == Spec => []IInv
BY IInvInit, IInvStep, PTL DEF Spec

(* The state of the program has its type, for any gateways and limits.     *)
THEOREM LifecycleTypeCorrect == Spec => []TypeOK
<1>1. IInv => TypeOK
  BY DEF IInv
<1> QED BY Inductive, <1>1, PTL

(* Stop is the last event of the goroutines Run has started, whatever      *)
(* signals, commands, outages and closing goroutines came in between, in   *)
(* this run and in those before; and no client is connected then.          *)
THEOREM StopComesLast == Spec => []StopIsLast
<1>1. IInv => StopIsLast
  BY DEF IInv, Resting, StopIsLast, Gateways
<1> QED BY Inductive, <1>1, PTL

(* For any ReconnectDelay and limits, the n-th retry of an outage waits    *)
(* ReconnectDelay * 2^(n - 1), kept between the limits.                    *)
THEOREM BackoffDoubles == Spec => []BackoffIsExponential
<1>1. IInv => BackoffIsExponential
  <2> SUFFICES ASSUME IInv, NEW g \in Clients, pc[g] = "backoff"
               PROVE  wait[g] = Min({High, Max({Low, Delay}) * Power[failures[g] - 1]})
    BY DEF BackoffIsExponential
  <2>1. failures[g] \in Nat \ {0} /\ wait[g] = Waits(failures[g] - 1)
    BY DEF IInv, TypeOK, Retries
  <2>2. PICK n \in Nat : n = failures[g] - 1
    BY <2>1
  <2>3. \A a, b \in Nat : Max({a, b}) = (IF a < b THEN b ELSE a) /\ Min({a, b}) = IF b < a THEN b ELSE a
    BY DEF Max, Min
  <2>4. PICK m \in Nat : m = Max({Low, Delay}) /\ m = IF Low < Delay THEN Delay ELSE Low
    BY <2>3, DelayAssumption
  <2>5. PICK x \in Nat : x = m * Power[n]
    BY PowerIsRecursive
  <2>6. Waits(n) = IF x < High THEN x ELSE High
    BY <2>4, <2>5 DEF Waits
  <2>7. Min({High, x}) = IF x < High THEN x ELSE High
    BY <2>3, DelayAssumption
  <2>8. QED
    BY <2>1, <2>2, <2>4, <2>5, <2>6, <2>7
<1> QED BY Inductive, <1>1, PTL

-----------------------------------------------------------------------------
(* Timers *)

Runtime == {"unused", "armed", "calling", "called", "done", "stopped"}
Caller  == {"none", "add", "holding", "stop", "cancelled", "late"}

TimersTypeOK ==
  /\ stop \in BOOLEAN
  /\ timers \in SUBSET Timer
  /\ runtime \in [Timer -> Runtime]
  /\ caller \in [Timer -> Caller]
  /\ reached \in SUBSET Timer

(* Before its AfterFunc a timer is neither registered nor held.            *)
Disarmed ==
  /\ \A m \in Timer : runtime[m] = "unused" => m \notin timers /\ caller[m] = "none"
  /\ ~stop => reached = {}
  /\ \A m \in reached : runtime[m] \notin {"unused", "armed"}
  /\ \A m \in Timer : caller[m] = "cancelled" => runtime[m] \notin {"unused", "armed"}
  /\ ActiveAreRegistered

TimersInv == TimersTypeOK /\ Disarmed

LEMMA TimersInvInit == TimersInit => TimersInv
BY DEF TimersInit, TimersInv, TimersTypeOK, Disarmed, ActiveAreRegistered, Runtime, Caller

LEMMA TimersInvStep == TimersInv /\ [TimersNext]_timersVars => TimersInv'
<1> SUFFICES ASSUME TimersInv, [TimersNext]_timersVars PROVE TimersInv'
  OBVIOUS
<1> USE DEF TimersInv, TimersTypeOK, Disarmed, ActiveAreRegistered, Runtime, Caller
<1>1. CASE Stop
  BY <1>1 DEF Stop
<1>2. ASSUME NEW m \in Timer, AfterFunc(m) PROVE TimersInv'
  BY <1>2 DEF AfterFunc
<1>3. ASSUME NEW m \in Timer, add(m) PROVE TimersInv'
  BY <1>3 DEF add
<1>4. ASSUME NEW m \in Timer, Fires(m) PROVE TimersInv'
  BY <1>4 DEF Fires
<1>5. ASSUME NEW m \in Timer, Returns(m) PROVE TimersInv'
  BY <1>5 DEF Returns
<1>6. ASSUME NEW m \in Timer, Fired(m) PROVE TimersInv'
  BY <1>6 DEF Fired
<1>7. ASSUME NEW m \in Timer, Cancel(m) PROVE TimersInv'
  BY <1>7 DEF Cancel
<1>8. ASSUME NEW m \in Timer, CancelStop(m) PROVE TimersInv'
  BY <1>8 DEF CancelStop
<1>9. CASE UNCHANGED timersVars
  BY <1>9 DEF timersVars
<1> QED BY <1>1, <1>2, <1>3, <1>4, <1>5, <1>6, <1>7, <1>8, <1>9 DEF TimersNext

LEMMA TimersInductive == TimersSpec => []TimersInv
BY TimersInvInit, TimersInvStep, PTL DEF TimersSpec

(* However many timers are created, cancelled and fired around it, Stop    *)
(* disarms every timer it finds registered.                                *)
THEOREM StopReaches == TimersSpec => RegisteredAreStopped
<1>1. TimersInv /\ [TimersNext]_timersVars => [\A m \in Timer : Begins(m) => m \notin reached]_timersVars
  BY DEF TimersInv, Disarmed, Begins
<1> QED BY TimersInductive, <1>1, PTL DEF TimersSpec, RegisteredAreStopped

(* A cancel function that answers TRUE has prevented the call.             *)
THEOREM CancelPrevents == TimersSpec => CancelHonest
<1>1. TimersInv /\ [TimersNext]_timersVars => [\A m \in Timer : Begins(m) => caller[m] # "cancelled"]_timersVars
  BY DEF TimersInv, Disarmed, Begins
<1> QED BY TimersInductive, <1>1, PTL DEF TimersSpec, CancelHonest

(* However many timers there are, one that has not been called, cancelled  *)
(* or stopped is known to Stop.                                            *)
THEOREM ActiveAreKnown == TimersSpec => []ActiveAreRegistered
<1>1. TimersInv => ActiveAreRegistered
  BY DEF TimersInv, Disarmed
<1> QED BY TimersInductive, <1>1, PTL

-----------------------------------------------------------------------------
(* The terminal *)

CONSTANTS Reads, MaxLines
VARIABLES run, phase, pw, reader, closed, typed, taken, input, to, handled

Term == INSTANCE Terminal

(* Lines are written to the pipe of the latest run that has made one.      *)
LatestPipe == pw = IF phase = "loading" THEN run - 1 ELSE run

(* The reader of a pipe belongs to the current run, or the pipe is closed. *)
ReaderInv(p) ==
  /\ reader[p] # "none" => closed[p] \/ (p = run /\ phase = "running")
  /\ reader[p] = "blocked" => closed[p]

TermInv ==
  /\ Term!TypeOK
  /\ LatestPipe
  /\ input = "write" => to # Term!Stdout
  /\ \A p \in Term!Pipe : ReaderInv(p)

(* A line is given away after it was taken, to a run not before that of    *)
(* the lines before it.                                                    *)
TermOrder ==
  /\ to <= pw
  /\ \A n \in 1..MaxLines : /\ handled[n] <= to
                            /\ handled[n] # 0 => n <= taken /\ (n = taken => input = "read")
  /\ \A m, n \in 1..MaxLines : m < n /\ handled[m] # 0 /\ handled[n] # 0 => handled[m] <= handled[n]

LEMMA TermInvInit == ASSUME MaxLines \in Nat PROVE Term!Init => TermInv
<1> SUFFICES ASSUME Term!Init PROVE TermInv
  OBVIOUS
<1>1. 1 \in Term!Pipe
  BY BoundAssumption DEF Term!Pipe
<1> QED BY <1>1 DEF Term!Init, TermInv, Term!TypeOK, LatestPipe, ReaderInv, Term!Stdout

LEMMA TermInvStep == ASSUME MaxLines \in Nat PROVE TermInv /\ [Term!Next]_Term!vars => TermInv'
<1> SUFFICES ASSUME TermInv, [Term!Next]_Term!vars PROVE TermInv'
  OBVIOUS
<1>1. Term!TypeOK /\ LatestPipe /\ MaxRuns \in Nat /\ Term!Stdout = 0 /\ Term!Pipe = 1..MaxRuns
  BY BoundAssumption DEF TermInv, Term!Pipe, Term!Stdout
<1> USE <1>1 DEF TermInv, Term!TypeOK, LatestPipe, ReaderInv, Term!runVars, Term!inputVars
<1>2. CASE Term!MakePipe
  BY <1>2 DEF Term!MakePipe
<1>3. CASE Term!Stop
  BY <1>3 DEF Term!Stop
<1>4. CASE Term!StartAgain
  BY <1>4 DEF Term!StartAgain
<1>5. CASE Term!Type
  BY <1>5 DEF Term!Type
<1>6. CASE Term!Input
  BY <1>6 DEF Term!Input, Term!Take, Term!Write, Term!WriteFails
<1>7. ASSUME NEW p \in Term!Pipe, Term!Reader(p) PROVE TermInv'
  <2>1. CASE Term!Read(p)
    BY <1>7, <2>1 DEF Term!Read
  <2>2. CASE Term!Handled(p)
    BY <1>7, <2>2 DEF Term!Handled
  <2>3. CASE Term!ReadFails(p)
    BY <1>7, <2>3 DEF Term!ReadFails
  <2> QED BY <1>7, <2>1, <2>2, <2>3 DEF Term!Reader
<1>8. CASE UNCHANGED Term!vars
  BY <1>8 DEF Term!vars
<1> QED BY <1>2, <1>3, <1>4, <1>5, <1>6, <1>7, <1>8 DEF Term!Next

LEMMA TermOrderInit == ASSUME MaxLines \in Nat PROVE Term!Init => TermOrder
BY DEF Term!Init, TermOrder, Term!Stdout

LEMMA TermOrderStep ==
  ASSUME MaxLines \in Nat
  PROVE  TermInv /\ TermOrder /\ [Term!Next]_Term!vars => TermOrder'
<1> SUFFICES ASSUME TermInv, TermOrder, [Term!Next]_Term!vars PROVE TermOrder'
  OBVIOUS
<1>1. /\ Term!TypeOK /\ LatestPipe
      /\ \A n \in 1..MaxLines : handled[n] \in Nat
      /\ run \in Nat /\ pw \in Nat /\ to \in Nat /\ taken \in Nat /\ typed \in Nat /\ typed <= MaxLines
  <2>1. Term!TypeOK /\ LatestPipe
    BY DEF TermInv
  <2>2. MaxRuns \in Nat
    BY BoundAssumption
  <2>3. typed \in Nat /\ typed <= MaxLines /\ taken \in Nat
    BY <2>1 DEF Term!TypeOK
  <2>4. run \in Nat /\ pw \in Nat /\ to \in Nat
    BY <2>1, <2>2 DEF Term!TypeOK, Term!Pipe, Term!Stdout
  <2>5. \A n \in 1..MaxLines : handled[n] \in Nat
    BY <2>1, <2>2 DEF Term!TypeOK, Term!Pipe
  <2> QED BY <2>1, <2>3, <2>4, <2>5
<1>2. CASE Term!MakePipe
  <2>1. pw' = run /\ pw <= run /\ UNCHANGED <<to, taken, input, handled>>
    BY <1>1, <1>2 DEF Term!MakePipe, Term!inputVars, LatestPipe
  <2> QED BY <1>1, <2>1 DEF TermOrder
<1>3. CASE Term!Stop \/ Term!StartAgain \/ Term!Type \/ UNCHANGED Term!vars
  <2>1. UNCHANGED <<pw, to, taken, input, handled>>
    BY <1>3 DEF Term!Stop, Term!StartAgain, Term!Type, Term!vars, Term!inputVars, Term!runVars
  <2> QED BY <2>1 DEF TermOrder
<1>4. CASE Term!Take
  <2>1. taken' = taken + 1 /\ UNCHANGED <<pw, to, handled>>
    BY <1>4 DEF Term!Take, Term!runVars
  <2> QED BY <1>1, <2>1 DEF TermOrder
<1>5. CASE Term!Write
  <2>1. to' = pw /\ input = "got" /\ UNCHANGED <<pw, taken, handled>>
    BY <1>5 DEF Term!Write, Term!runVars
  <2> QED BY <1>1, <2>1 DEF TermOrder
<1>6. CASE Term!WriteFails
  <2>1. input = "write" /\ UNCHANGED <<pw, to, taken, handled>>
    BY <1>6 DEF Term!WriteFails, Term!runVars
  <2> QED BY <1>1, <2>1 DEF TermOrder
<1>7. ASSUME NEW p \in Term!Pipe, Term!Reader(p) PROVE TermOrder'
  <2>1. CASE Term!Read(p)
    <3>1. /\ input = "write" /\ input' = "read" /\ to = p /\ UNCHANGED <<pw, to, taken>>
          /\ handled' = [handled EXCEPT ![taken] = p]
      BY <2>1 DEF Term!Read
    <3>2. \A n \in 1..MaxLines : handled'[n] = IF n = taken THEN to ELSE handled[n]
      BY <1>1, <3>1 DEF Term!TypeOK
    <3>3. \A n \in 1..MaxLines : handled[n] # 0 => n < taken
      BY <1>1, <3>1 DEF TermOrder
    <3> QED BY <1>1, <3>1, <3>2, <3>3 DEF TermOrder
  <2>2. CASE Term!Handled(p) \/ Term!ReadFails(p)
    <3>1. UNCHANGED <<pw, to, taken, input, handled>>
      BY <2>2 DEF Term!Handled, Term!ReadFails, Term!inputVars
    <3> QED BY <3>1 DEF TermOrder
  <2> QED BY <1>7, <2>1, <2>2 DEF Term!Reader
<1> QED BY <1>2, <1>3, <1>4, <1>5, <1>6, <1>7 DEF Term!Next, Term!Input

LEMMA TermHolds == ASSUME MaxLines \in Nat PROVE Term!Spec => [](TermInv /\ TermOrder)
<1>1. Term!Init => TermInv /\ TermOrder
  BY TermInvInit, TermOrderInit
<1>2. TermInv /\ TermOrder /\ [Term!Next]_Term!vars => (TermInv /\ TermOrder)'
  BY TermInvStep, TermOrderStep
<1> QED BY <1>1, <1>2, PTL DEF Term!Spec

(* Who waits until a line is read, waits for the run there is, or the pipe *)
(* is closed and the write will fail; or the run does not read at all      *)
(* (Read of std:io is off).                                                *)
NotLeftBehind ==
  input = "write" => \/ closed[to]
                     \/ to = run /\ phase = "running" /\ reader[to] \in {"reading", "busy"}
                     \/ reader[to] = "none"

(* The goroutine that reads standard input is not left behind by a restart *)
(* (goto start of main.go): what it writes to a pipe is read by the        *)
(* current run, or refused since the run closed the pipe, if each run      *)
(* reads.                                                                  *)
THEOREM WriterNotLeftBehind == ASSUME MaxLines \in Nat PROVE Term!Spec => []NotLeftBehind
<1>1. TermInv => NotLeftBehind
  <2> SUFFICES ASSUME TermInv, input = "write" PROVE NotLeftBehind
    BY DEF NotLeftBehind
  <2>1. to \in Term!Pipe /\ reader[to] \in {"none", "reading", "busy", "blocked"}
    BY DEF TermInv, Term!TypeOK
  <2>2. ReaderInv(to)
    BY <2>1 DEF TermInv
  <2> QED BY <2>1, <2>2 DEF NotLeftBehind, ReaderInv
<1> QED BY <1>1, TermHolds, PTL

(* A line is given to one run, once.                                       *)
GivenOnce == [][\A n \in 1..MaxLines : handled[n] # 0 => handled'[n] = handled[n]]_Term!vars

(* Lines that are typed one after the other are not given to runs in the   *)
(* opposite order, and a line to no run but once (pw of main.go).          *)
THEOREM LinesInOrder ==
  ASSUME MaxLines \in Nat
  PROVE  Term!Spec => /\ GivenOnce
                      /\ [](\A m, n \in 1..MaxLines :
                              m < n /\ handled[m] # 0 /\ handled[n] # 0 => handled[m] <= handled[n])
<1>1. TermInv /\ TermOrder /\ [Term!Next]_Term!vars =>
        [\A n \in 1..MaxLines : handled[n] # 0 => handled'[n] = handled[n]]_Term!vars
  <2> SUFFICES ASSUME TermInv, TermOrder, Term!Next, NEW n \in 1..MaxLines, handled[n] # 0
               PROVE  handled'[n] = handled[n]
    OBVIOUS
  <2>1. ASSUME NEW p \in Term!Pipe, Term!Read(p) PROVE handled'[n] = handled[n]
    <3>1. handled' = [handled EXCEPT ![taken] = p] /\ input = "write" /\ n # taken
      BY <2>1 DEF Term!Read, TermOrder
    <3> QED BY <3>1 DEF TermInv, Term!TypeOK
  <2>2. (\A p \in Term!Pipe : ~Term!Read(p)) => UNCHANGED handled
    BY DEF Term!Next, Term!MakePipe, Term!Stop, Term!StartAgain, Term!Type, Term!Input, Term!Take,
           Term!Write, Term!WriteFails, Term!Reader, Term!Handled, Term!ReadFails
  <2> QED BY <2>1, <2>2
<1>2. TermOrder => \A m, n \in 1..MaxLines :
                     m < n /\ handled[m] # 0 /\ handled[n] # 0 => handled[m] <= handled[n]
  BY DEF TermOrder
<1> QED BY <1>1, <1>2, TermHolds, PTL DEF Term!Spec, GivenOnce

=============================================================================
