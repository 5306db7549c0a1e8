---------------------------- MODULE RelayProofs ----------------------------
(***************************************************************************)
(* Proofs about Relay, for any gateways and any relay configuration whose  *)
(* Log relays have no cycle.                                               *)
(*                                                                         *)
(* StackInv: dispatch does not recurse without end.                        *)
(*                                                                         *)
(* Way: what the base of each goroutine's stack still has to relay, and    *)
(* what it fires once it is done.  Lines and Ordered: what a gateway has   *)
(* been given so far, and that nothing under way is behind it.  Together   *)
(* they give the order of messages and answers, and that there is no echo. *)
(*                                                                         *)
(* Balanced: the lines lost on a gateway are those that were reported,     *)
(* those that are excused, and those whose report is under way.            *)
(*                                                                         *)
(* Debt: the steps that a goroutine in Fire has left at most; Onward: the  *)
(* state after the next of them.                                           *)
(***************************************************************************)
EXTENDS Relay, FiniteSetTheorems, SequenceTheorems, WellFoundedInduction, TLAPS

(* The frames a goroutine has pushed on its first call of Fire are errors, *)
(* each on a gateway ranked below the one before; the relays an error      *)
(* still has to go through are Log relays.  Triggers are not relayed.      *)
FrameInv(f, i) ==
  /\ i >= 2 => f.ev.kind = "error"
  /\ f.ev.kind = "trigger" => f.todo = {}
  /\ f.ev.kind = "error" => /\ Rank[f.gw] + i <= MaxRank + 2
                            /\ f.todo \subseteq LogTo[f.gw]

StackInv == \A th \in Thread : \A i \in 1..Len(stack[th]) : FrameInv(stack[th][i], i)

Inv == TypeOK /\ StackInv

(* The top of a stack and what is under it.                                *)
LEMMA TopOfStack ==
  ASSUME NEW s \in Seq(Frame), s # <<>>
  PROVE  /\ s[Len(s)] \in Frame
         /\ Len(s) \in Nat /\ Len(s) >= 1
         /\ SubSeq(s, 1, Len(s) - 1) \in Seq(Frame)
         /\ Len(SubSeq(s, 1, Len(s) - 1)) = Len(s) - 1
         /\ \A i \in 1..(Len(s) - 1) : SubSeq(s, 1, Len(s) - 1)[i] = s[i]
<1>1. Len(s) \in Nat /\ Len(s) >= 1 /\ s[Len(s)] \in Frame /\ \A i \in 1..Len(s) : s[i] \in Frame
  BY EmptySeq, LenProperties, ElementOfSeq
<1> DEFINE n == Len(s) - 1
<1>2. n \in Nat /\ n \in Int /\ 1 \in Int /\ \A i \in 1..n : s[i] \in Frame
  BY <1>1
<1> HIDE DEF n
<1>3. /\ SubSeq(s, 1, n) \in Seq(Frame)
      /\ Len(SubSeq(s, 1, n)) = IF 1 <= n THEN n - 1 + 1 ELSE 0
      /\ \A i \in 1..(n - 1 + 1) : SubSeq(s, 1, n)[i] = s[1 + i - 1]
  BY <1>2, SubSeqProperties
<1>4. Len(SubSeq(s, 1, n)) = n /\ \A i \in 1..n : SubSeq(s, 1, n)[i] = s[i]
  BY <1>2, <1>3
<1> QED
  BY <1>1, <1>3, <1>4 DEF n

(* Replacing the top of a stack by f, and pushing h on the result.         *)
LEMMA ReplaceTop ==
  ASSUME NEW s \in Seq(Frame), s # <<>>, NEW f \in Frame, NEW h \in Frame
  PROVE  LET r == Append(SubSeq(s, 1, Len(s) - 1), f)
             p == Append(r, h)
         IN  /\ r \in Seq(Frame) /\ Len(r) = Len(s)
             /\ \A i \in 1..(Len(s) - 1) : r[i] = s[i]
             /\ r[Len(s)] = f
             /\ p \in Seq(Frame) /\ Len(p) = Len(s) + 1
             /\ \A i \in 1..Len(s) : p[i] = r[i]
             /\ p[Len(s) + 1] = h
<1> DEFINE u == SubSeq(s, 1, Len(s) - 1)
           r == Append(u, f)
           p == Append(r, h)
<1>1. /\ Len(s) \in Nat /\ Len(s) >= 1 /\ u \in Seq(Frame) /\ Len(u) = Len(s) - 1
      /\ \A i \in 1..(Len(s) - 1) : u[i] = s[i]
  BY TopOfStack
<1> HIDE DEF u
<1>2. /\ r \in Seq(Frame) /\ Len(r) = Len(u) + 1
      /\ \A i \in 1..Len(u) : r[i] = u[i]
      /\ r[Len(u) + 1] = f
  BY <1>1, AppendProperties
<1> HIDE DEF r
<1>3. /\ p \in Seq(Frame) /\ Len(p) = Len(r) + 1
      /\ \A i \in 1..Len(r) : p[i] = r[i]
      /\ p[Len(r) + 1] = h
  BY <1>2, AppendProperties
<1> HIDE DEF p
<1> QED
  BY <1>1, <1>2, <1>3 DEF p, r, u

(* A step that changes the stack of one thread keeps the invariant if the  *)
(* new stack is well formed.                                               *)
LEMMA StackKept ==
  ASSUME Inv, NEW th \in Thread, NEW s \in Seq(Frame),
         stack' = [stack EXCEPT ![th] = s],
         \A i \in 1..Len(s) : FrameInv(s[i], i)
  PROVE  stack' \in [Thread -> Seq(Frame)] /\ StackInv'
<1>1. stack' \in [Thread -> Seq(Frame)]
  BY DEF Inv, TypeOK
<1>2. ASSUME NEW t \in Thread, NEW i \in 1..Len(stack'[t]) PROVE FrameInv(stack'[t][i], i)
  <2>1. CASE t = th
    BY <1>2, <2>1 DEF Inv, TypeOK
  <2>2. CASE t # th
    BY <1>2, <2>2 DEF Inv, TypeOK, StackInv
  <2> QED
    BY <2>1, <2>2
<1> QED
  BY <1>1, <1>2 DEF StackInv, FrameInv

(* say() keeps the queues well formed.                                     *)
LEMMA PutType ==
  ASSUME Inv, NEW g \in Gateways, NEW line \in Line, ~Full(g), Put(g, line)
  PROVE  log' \in [Gateways -> Seq(Line)] /\ load' \in [Gateways -> 0..Cap]
<1>1. Append(log[g], line) \in Seq(Line)
  BY AppendProperties DEF Inv, TypeOK
<1>2. log' \in [Gateways -> Seq(Line)]
  BY <1>1 DEF Inv, TypeOK, Put
<1>3. load' \in [Gateways -> 0..Cap]
  <2>1. CASE g = Console
    BY <2>1 DEF Inv, TypeOK, Put
  <2>2. CASE g # Console
    <3>1. load[g] \in 0..Cap /\ load[g] < Cap /\ Cap \in Nat
      BY <2>2, BoundAssumption DEF Inv, TypeOK, Full
    <3>2. load[g] + 1 \in 0..Cap
      BY <3>1
    <3> QED
      BY <2>2, <3>2 DEF Inv, TypeOK, Put
  <2> QED
    BY <2>1, <2>2
<1> QED
  BY <1>2, <1>3

(* So does a line that is refused: the console never is full.              *)
LEMMA LoseType ==
  ASSUME Inv, NEW g \in Gateways, NEW id \in 0..MaxEvents, Lose(g, id)
  PROVE  /\ log' \in [Gateways -> Seq(Line)] /\ load' \in [Gateways -> 0..Cap]
         /\ {dropped', excused'} \subseteq [Gateways -> Nat]
<1>1. dropped' \in [Gateways -> Nat]
  BY DEF Lose, Inv, TypeOK
<1>2. CASE UNCHANGED <<log, load>> /\ excused' = [excused EXCEPT ![g] = @ + 1]
  BY <1>1, <1>2 DEF Inv, TypeOK
<1>3. CASE Put(Console, [kind |-> "error", id |-> id, from |-> g]) /\ UNCHANGED excused
  <2>1. [kind |-> "error", id |-> id, from |-> g] \in Line
    BY DEF Line
  <2>2. Console \in Gateways /\ ~Full(Console)
    BY ConsoleAssumption DEF Full
  <2>3. log' \in [Gateways -> Seq(Line)] /\ load' \in [Gateways -> 0..Cap]
    BY <1>3, <2>1, <2>2, PutType
  <2> QED
    BY <1>1, <1>3, <2>3 DEF Inv, TypeOK
<1> QED
  BY <1>2, <1>3 DEF Lose

(* The frames the actions create.                                          *)
LEMMA NewFrames ==
  ASSUME NEW g \in Gateways, NEW ev \in Event
  PROVE  /\ Fresh(g, ev) \in Frame
         /\ Fresh(g, ev).gw = g /\ Fresh(g, ev).ev = ev /\ Fresh(g, ev).todo = {}
         /\ FrameInv(Fresh(g, ev), 1)
         /\ ev.kind = "error" => FrameInv(Fresh(g, ev), 2)
BY RankAssumption DEF Fresh, Frame, FrameInv

LEMMA ErrorEvent == \A i \in 0..MaxEvents : Error(i) \in Event /\ Error(i).kind = "error"
BY DEF Error, Event

LEMMA InvInit == Init => Inv
BY BoundAssumption, EmptySeq DEF Init, Inv, TypeOK, StackInv

LEMMA InvNext == Inv /\ [Next]_vars => Inv'
<1> SUFFICES ASSUME Inv, [Next]_vars PROVE Inv'
  OBVIOUS
<1> USE DEF Inv
<1>1. ASSUME NEW g \in Gateways, FireChat(g) PROVE Inv'
  <2>1. PICK level \in Levels, text \in {"talk", "cmd", "ask"} :
          stack' = [stack EXCEPT ![<<g, "loop">>] = <<Fresh(g, Chat(level, text))>>]
    BY <1>1 DEF FireChat
  <2>2. Chat(level, text) \in Event
    BY <1>1 DEF FireChat, Chat, Event, Id
  <2> DEFINE f == Fresh(g, Chat(level, text))
  <2>3. f \in Frame /\ FrameInv(f, 1)
    BY <2>2, NewFrames
  <2> HIDE DEF f
  <2>4. <<f>> \in Seq(Frame) /\ Len(<<f>>) = 1 /\ <<f>>[1] = f
    BY <2>3
  <2>5. \A i \in 1..Len(<<f>>) : FrameInv(<<f>>[i], i)
    BY <2>3, <2>4
  <2>6. <<g, "loop">> \in Thread
    BY DEF Thread
  <2>7. stack' = [stack EXCEPT ![<<g, "loop">>] = <<f>>]
    BY <2>1 DEF f
  <2>8. stack' \in [Thread -> Seq(Frame)] /\ StackInv'
    BY <2>4, <2>5, <2>6, <2>7, StackKept
  <2>9. next' \in 1..(MaxEvents + 1)
    BY <1>1, BoundAssumption DEF FireChat, TypeOK, Id
  <2> QED
    BY <1>1, <2>8, <2>9 DEF FireChat, TypeOK, losses
<1>2. ASSUME NEW th \in Thread, stack[th] # <<>>, NEW f \in Frame,
             FrameInv(f, Len(stack[th])), stack' = Replace(th, f)
      PROVE  stack' \in [Thread -> Seq(Frame)] /\ StackInv'
  <2> DEFINE s == stack[th]
             r == Append(SubSeq(s, 1, Len(s) - 1), f)
  <2>1. s \in Seq(Frame) /\ s # <<>> /\ \A i \in 1..Len(s) : FrameInv(s[i], i)
    BY <1>2 DEF TypeOK, StackInv
  <2>2. stack' = [stack EXCEPT ![th] = r]
    BY <1>2 DEF Replace, Under
  <2>3. FrameInv(f, Len(s))
    BY <1>2
  <2> HIDE DEF s
  <2>4. /\ r \in Seq(Frame) /\ Len(r) = Len(s) /\ Len(s) \in Nat
        /\ \A i \in 1..(Len(s) - 1) : r[i] = s[i]
        /\ r[Len(s)] = f
    BY <2>1, ReplaceTop, LenProperties
  <2> HIDE DEF r
  <2>5. \A i \in 1..Len(r) : FrameInv(r[i], i)
    BY <2>1, <2>3, <2>4
  <2> QED
    BY <2>2, <2>4, <2>5, StackKept
<1>3. ASSUME NEW th \in Thread, stack[th] # <<>>
      PROVE  /\ Top(th) \in Frame
             /\ FrameInv(Top(th), Len(stack[th]))
             /\ Len(stack[th]) \in Nat /\ Len(stack[th]) >= 1
  <2>1. stack[th] \in Seq(Frame) /\ \A i \in 1..Len(stack[th]) : FrameInv(stack[th][i], i)
    BY DEF TypeOK, StackInv
  <2>2. stack[th][Len(stack[th])] \in Frame /\ Len(stack[th]) \in Nat /\ Len(stack[th]) >= 1
    BY <1>3, <2>1, TopOfStack
  <2> QED
    BY <2>1, <2>2 DEF Top
<1>4. ASSUME NEW th \in Thread, MainHandlers(th) PROVE Inv'
  <2> DEFINE f == Top(th)
  <2>1. stack[th] # <<>>
    BY <1>4 DEF MainHandlers
  <2>2. f \in Frame /\ FrameInv(f, Len(stack[th])) /\ f.ev \in Event /\ f.gw \in Gateways
    BY <1>3, <2>1 DEF Frame
  <2>3. UNCHANGED <<log, load, command, next, fails, dropped>> /\ excused' \in [Gateways -> Nat]
    <3>1. excused' \in {excused, [excused EXCEPT ![f.gw] = @ + 1]} /\ UNCHANGED <<log, load, command, next, fails, dropped>>
      BY <1>4 DEF MainHandlers
    <3>2. excused \in [Gateways -> Nat]
      BY DEF TypeOK
    <3> HIDE DEF f
    <3> QED
      BY <2>2, <3>1, <3>2
  <2>4. CASE stack' = Replace(th, [f EXCEPT !.phase = "relay", !.todo = Audience(f.ev, f.gw)])
    <3> DEFINE e == [f EXCEPT !.phase = "relay", !.todo = Audience(f.ev, f.gw)]
    <3>1. /\ Audience(f.ev, f.gw) \subseteq Gateways
          /\ f.ev.kind = "error" => Audience(f.ev, f.gw) = LogTo[f.gw]
          /\ f.ev.kind = "trigger" => Audience(f.ev, f.gw) = {}
      BY <2>2, TargetAssumption DEF Audience, Event
    <3>2. e \in Frame /\ e.gw = f.gw /\ e.ev = f.ev /\ e.todo = Audience(f.ev, f.gw)
      BY <2>2, <3>1 DEF Frame
    <3>3. stack' = Replace(th, e)
      BY <2>4
    <3> HIDE DEF e
    <3>4. FrameInv(e, Len(stack[th]))
      BY <2>2, <3>1, <3>2 DEF FrameInv
    <3>5. stack' \in [Thread -> Seq(Frame)] /\ StackInv'
      BY <1>2, <2>1, <3>2, <3>3, <3>4
    <3> QED
      BY <2>3, <3>5 DEF TypeOK
  <2>5. CASE stack' = Replace(th, [f EXCEPT !.phase = "done"])
    <3> DEFINE e == [f EXCEPT !.phase = "done"]
    <3>1. e \in Frame /\ e.gw = f.gw /\ e.ev = f.ev /\ e.todo = f.todo
      BY <2>2 DEF Frame
    <3>2. stack' = Replace(th, e)
      BY <2>5
    <3> HIDE DEF e
    <3>3. FrameInv(e, Len(stack[th]))
      BY <2>2, <3>1 DEF FrameInv
    <3>4. stack' \in [Thread -> Seq(Frame)] /\ StackInv'
      BY <1>2, <2>1, <3>1, <3>2, <3>3
    <3> QED
      BY <2>3, <3>4 DEF TypeOK
  <2> QED
    BY <1>4, <2>4, <2>5 DEF MainHandlers, Passes
<1>5. ASSUME NEW th \in Thread, RelayTo(th) PROVE Inv'
  <2> DEFINE f == Top(th)
  <2>1. stack[th] # <<>>
    BY <1>5 DEF RelayTo
  <2>2. /\ f \in Frame /\ FrameInv(f, Len(stack[th])) /\ f.ev \in Event /\ f.gw \in Gateways
        /\ f.ev.id \in 0..MaxEvents /\ Len(stack[th]) \in Nat /\ Len(stack[th]) >= 1
    BY <1>3, <2>1 DEF Frame, Event
  <2>3. PICK t \in f.todo :
          \/ /\ ~Full(t)
             /\ Put(t, [kind |-> f.ev.kind, id |-> f.ev.id, from |-> f.gw])
             /\ stack' = Copied(th, f, t)
             /\ UNCHANGED dropped
          \/ /\ Full(t)
             /\ stack' = Refused(th, f, t)
             /\ dropped' = [dropped EXCEPT ![t] = @ + 1]
             /\ UNCHANGED <<log, load>>
    BY <1>5 DEF RelayTo
  <2>4. t \in Gateways
    BY <2>2 DEF Frame
  <2> DEFINE e == [f EXCEPT !.todo = @ \ {t}]
  <2>5. e \in Frame /\ e.gw = f.gw /\ e.ev = f.ev /\ e.todo = f.todo \ {t}
    BY <2>2 DEF Frame
  <2>6. FrameInv(e, Len(stack[th]))
    BY <2>2, <2>5 DEF FrameInv
  <2>7. UNCHANGED <<command, next, fails, excused>>
    BY <1>5 DEF RelayTo
  <2>8. CASE ~Full(t) /\ stack' = Copied(th, f, t) /\ UNCHANGED dropped
             /\ Put(t, [kind |-> f.ev.kind, id |-> f.ev.id, from |-> f.gw])
    <3>1. stack' = Replace(th, e)
      BY <2>8 DEF Copied, Advance
    <3>2. stack' \in [Thread -> Seq(Frame)] /\ StackInv'
      BY <1>2, <2>1, <2>5, <2>6, <3>1
    <3>3. f.ev.kind # "trigger"
      BY <2>2 DEF FrameInv
    <3>4. [kind |-> f.ev.kind, id |-> f.ev.id, from |-> f.gw] \in Line
      BY <2>2, <3>3 DEF Line, Event
    <3>5. log' \in [Gateways -> Seq(Line)] /\ load' \in [Gateways -> 0..Cap]
      BY <2>4, <2>8, <3>4, PutType
    <3> QED
      BY <2>7, <2>8, <3>2, <3>5 DEF TypeOK
  <2>9. CASE Full(t) /\ stack' = Refused(th, f, t) /\ dropped' = [dropped EXCEPT ![t] = @ + 1]
             /\ UNCHANGED <<log, load>>
    <3> DEFINE s == stack[th]
               h == Fresh(t, Error(f.ev.id))
               r == Append(SubSeq(s, 1, Len(s) - 1), e)
               p == Append(r, h)
    <3>1. h \in Frame /\ h.gw = t /\ h.ev.kind = "error" /\ h.todo = {} /\ FrameInv(h, 2)
      BY <2>2, <2>4, ErrorEvent, NewFrames
    <3>2. FrameInv(h, Len(s) + 1)
      <4>1. CASE f.ev.kind = "error"
        <5>1. Rank[t] < Rank[f.gw] /\ Rank[f.gw] + Len(s) <= MaxRank + 2
          BY <2>2, <2>3, <4>1, RankAssumption DEF FrameInv
        <5>2. Rank[t] \in Nat /\ Rank[f.gw] \in Nat /\ MaxRank \in Nat /\ Len(s) \in Nat
          BY <2>2, <2>4, RankAssumption
        <5>3. Rank[t] + (Len(s) + 1) <= MaxRank + 2
          BY <5>1, <5>2
        <5> QED
          BY <3>1, <5>3 DEF FrameInv
      <4>2. CASE f.ev.kind # "error"
        <5>1. Len(s) = 1
          <6> DEFINE n == Len(s)
          <6>1. ~(n >= 2) /\ n >= 1 /\ n \in Nat
            BY <2>2, <4>2 DEF FrameInv
          <6> HIDE DEF n
          <6>2. n = 1
            BY <6>1
          <6> QED
            BY <6>2 DEF n
        <5> QED
          BY <3>1, <5>1
      <4> QED
        BY <4>1, <4>2
    <3>3. stack' = [stack EXCEPT ![th] = p]
      <4>1. stack' = [[stack EXCEPT ![th] = r] EXCEPT ![th] = Append(@, h)]
        BY <2>9 DEF Refused, Advance, Replace, Under
      <4>2. stack \in [Thread -> Seq(Frame)]
        BY DEF TypeOK
      <4> HIDE DEF r, h
      <4> QED
        BY <4>1, <4>2 DEF p
    <3>4. s \in Seq(Frame) /\ s # <<>> /\ \A i \in 1..Len(s) : FrameInv(s[i], i)
      BY <2>1 DEF TypeOK, StackInv
    <3>5. FrameInv(e, Len(s)) /\ e \in Frame
      BY <2>5, <2>6
    <3> HIDE DEF s, h, e
    <3>6. /\ r \in Seq(Frame) /\ Len(r) = Len(s) /\ Len(s) \in Nat
          /\ \A i \in 1..(Len(s) - 1) : r[i] = s[i]
          /\ r[Len(s)] = e
          /\ p \in Seq(Frame) /\ Len(p) = Len(s) + 1
          /\ \A i \in 1..Len(s) : p[i] = r[i]
          /\ p[Len(s) + 1] = h
      BY <3>1, <3>4, <3>5, ReplaceTop, LenProperties
    <3> HIDE DEF r, p
    <3>7. \A i \in 1..Len(p) : FrameInv(p[i], i)
      BY <3>2, <3>4, <3>5, <3>6
    <3>8. stack' \in [Thread -> Seq(Frame)] /\ StackInv'
      BY <3>3, <3>6, <3>7, StackKept
    <3>9. dropped' \in [Gateways -> Nat]
      BY <2>4, <2>9 DEF TypeOK
    <3> QED
      BY <2>7, <2>9, <3>8, <3>9 DEF TypeOK
  <2> QED
    BY <2>3, <2>8, <2>9
<1>6. ASSUME NEW th \in Thread, LocalHandlers(th) PROVE Inv'
  <2> DEFINE f == Top(th)
             e == [f EXCEPT !.phase = "done"]
             h == TriggerOf(f)
  <2>1. /\ stack[th] # <<>> /\ f.todo = {} /\ UNCHANGED <<next, fails>>
        /\ stack' = Replace(th, e) \/ (stack' = Replace(th, h) /\ f.ev.kind = "chat")
        /\ AutoKick(f) \/ NoKick(f)
        /\ command' = IF f.ev.kind = "trigger" THEN [command EXCEPT ![f.ev.id] = f.gw] ELSE command
    BY <1>6 DEF LocalHandlers, Asks
  <2>2. /\ f \in Frame /\ FrameInv(f, Len(stack[th])) /\ f.ev \in Event /\ f.gw \in Gateways
        /\ f.ev.id \in 0..MaxEvents
    BY <1>3, <2>1 DEF Frame, Event
  <2>3. e \in Frame /\ FrameInv(e, Len(stack[th]))
    BY <2>2 DEF Frame, FrameInv
  <2>4. f.ev.kind = "chat" => h \in Frame /\ FrameInv(h, Len(stack[th]))
    <3>1. [f.ev EXCEPT !.kind = "trigger"] \in Event
      BY <2>2 DEF Event
    <3>2. h \in Frame /\ h.ev.kind = "trigger" /\ h.todo = {}
      BY <2>2, <3>1, NewFrames DEF TriggerOf, Event
    <3>3. f.ev.kind = "chat" => ~(Len(stack[th]) >= 2)
      BY <2>2 DEF FrameInv
    <3> HIDE DEF h
    <3> QED
      BY <3>2, <3>3 DEF FrameInv
  <2>5. stack' \in [Thread -> Seq(Frame)] /\ StackInv'
    <3> HIDE DEF e, h
    <3> QED
      BY <1>2, <2>1, <2>3, <2>4
  <2>6. /\ log' \in [Gateways -> Seq(Line)] /\ load' \in [Gateways -> 0..Cap]
        /\ {dropped', excused'} \subseteq [Gateways -> Nat]
    <3>1. [kind |-> "kick", id |-> f.ev.id, from |-> f.gw] \in Line
      BY <2>2 DEF Line
    <3>2. CASE AutoKick(f)
      BY <2>2, <3>1, <3>2, PutType DEF AutoKick, TypeOK, losses
    <3>3. CASE UNCHANGED <<log, load, losses>>
      BY <3>3 DEF TypeOK, losses
    <3>4. CASE Lose(f.gw, f.ev.id)
      BY <2>2, <3>4, LoseType
    <3> QED
      BY <2>1, <3>2, <3>3, <3>4 DEF NoKick
  <2>7. command' \in [Id -> Gateways \cup {"none", "done"}]
    BY <2>1, <2>2 DEF TypeOK
  <2> QED
    BY <2>1, <2>5, <2>6, <2>7 DEF TypeOK
<1>7. ASSUME NEW th \in Thread, Return(th) PROVE Inv'
  <2> DEFINE f == Top(th)
             s == stack[th]
             h == Fresh(f.gw, [f.ev EXCEPT !.kind = "trigger"])
  <2>1. s # <<>> /\ UNCHANGED <<log, load, command, next, fails, dropped, excused>>
        /\ \/ f.ev.kind = "chat" /\ stack' = [stack EXCEPT ![th] = <<h>>]
           \/ stack' = [stack EXCEPT ![th] = SubSeq(s, 1, Len(s) - 1)]
    BY <1>7 DEF Return, Under, TriggerOf, losses
  <2>2. f \in Frame /\ f.ev \in Event /\ f.gw \in Gateways
    BY <1>3, <2>1 DEF Frame
  <2>3. stack' \in [Thread -> Seq(Frame)] /\ StackInv'
    <3>1. CASE stack' = [stack EXCEPT ![th] = <<h>>]
      <4>1. [f.ev EXCEPT !.kind = "trigger"] \in Event
        BY <2>2 DEF Event
      <4>2. h \in Frame /\ FrameInv(h, 1)
        BY <2>2, <4>1, NewFrames
      <4> HIDE DEF h
      <4>3. <<h>> \in Seq(Frame) /\ \A i \in 1..Len(<<h>>) : FrameInv(<<h>>[i], i)
        BY <4>2
      <4> QED
        BY <3>1, <4>3, StackKept
    <3>2. CASE stack' = [stack EXCEPT ![th] = SubSeq(s, 1, Len(s) - 1)]
      <4>1. s \in Seq(Frame) /\ \A i \in 1..Len(s) : FrameInv(s[i], i)
        BY DEF TypeOK, StackInv
      <4>2. s # <<>>
        BY <2>1
      <4> DEFINE u == SubSeq(s, 1, Len(s) - 1)
      <4> HIDE DEF s
      <4>3. /\ u \in Seq(Frame) /\ Len(u) = Len(s) - 1 /\ Len(s) \in Nat
            /\ \A i \in 1..(Len(s) - 1) : u[i] = s[i]
        BY <4>1, <4>2, TopOfStack
      <4>4. stack' = [stack EXCEPT ![th] = u]
        BY <3>2
      <4> HIDE DEF u
      <4>5. \A i \in 1..Len(u) : FrameInv(u[i], i)
        BY <4>1, <4>3
      <4> QED
        BY <4>3, <4>4, <4>5, StackKept
    <3> QED
      BY <2>1, <3>1, <3>2
  <2> QED
    BY <2>1, <2>3 DEF TypeOK
<1>8. ASSUME NEW i \in Id, Reply(i) PROVE Inv'
  <2>1. command[i] \in Gateways /\ command' = [command EXCEPT ![i] = "done"] /\ UNCHANGED <<next, fails>>
    BY <1>8 DEF Reply
  <2> DEFINE g == command[i]
             ev == [kind |-> "say", id |-> i, level |-> 0, text |-> "talk"]
  <2>2. command' \in [Id -> Gateways \cup {"none", "done"}]
    BY <2>1 DEF TypeOK
  <2>3. CASE Lose(g, i) /\ UNCHANGED stack
    <3>1. /\ log' \in [Gateways -> Seq(Line)] /\ load' \in [Gateways -> 0..Cap]
          /\ {dropped', excused'} \subseteq [Gateways -> Nat]
      BY <2>1, <2>3, LoseType, BoundAssumption DEF Id
    <3> QED
      BY <2>1, <2>2, <2>3, <3>1 DEF TypeOK, StackInv
  <2>4. CASE /\ ~Full(g)
             /\ Put(g, [kind |-> "reply", id |-> i, from |-> g])
             /\ stack' = [stack EXCEPT ![<<i, "cmd">>] = <<Fresh(g, ev)>>]
             /\ UNCHANGED losses
    <3>1. [kind |-> "reply", id |-> i, from |-> g] \in Line /\ ev \in Event /\ <<i, "cmd">> \in Thread
      BY <2>1, BoundAssumption DEF Line, Event, Thread, Id
    <3>2. log' \in [Gateways -> Seq(Line)] /\ load' \in [Gateways -> 0..Cap]
      BY <2>1, <2>4, <3>1, PutType
    <3> DEFINE h == Fresh(g, ev)
    <3>3. h \in Frame /\ FrameInv(h, 1)
      BY <2>1, <3>1, NewFrames
    <3>4. stack' = [stack EXCEPT ![<<i, "cmd">>] = <<h>>]
      BY <2>4
    <3> HIDE DEF h
    <3>5. <<h>> \in Seq(Frame) /\ \A j \in 1..Len(<<h>>) : FrameInv(<<h>>[j], j)
      BY <3>3
    <3>6. stack' \in [Thread -> Seq(Frame)] /\ StackInv'
      BY <3>1, <3>4, <3>5, StackKept
    <3> QED
      BY <2>1, <2>2, <2>4, <3>2, <3>6 DEF TypeOK, losses
  <2> QED
    BY <1>8, <2>3, <2>4 DEF Reply
<1>9. ASSUME NEW g \in Gateways, Drain(g) PROVE Inv'
  <2>1. load' \in [Gateways -> 0..Cap]
    BY <1>9, BoundAssumption DEF Drain, TypeOK
  <2> QED
    BY <1>9, <2>1 DEF Drain, TypeOK, StackInv, losses
<1>10. ASSUME NEW g \in Gateways, DrainFails(g) PROVE Inv'
  <2>1. load' \in [Gateways -> 0..Cap] /\ fails' \in 0..MaxFails /\ dropped' \in [Gateways -> Nat]
        /\ excused' \in [Gateways -> Nat] /\ UNCHANGED <<log, command, next>>
    <3>1. excused' \in {excused, [excused EXCEPT ![g] = @ + 1]}
      BY <1>10 DEF DrainFails
    <3>2. excused \in [Gateways -> Nat] /\ dropped \in [Gateways -> Nat]
          /\ load \in [Gateways -> 0..Cap] /\ fails \in 0..MaxFails
      BY DEF TypeOK
    <3>3. excused' \in [Gateways -> Nat]
      BY <3>1, <3>2
    <3>4. /\ UNCHANGED <<log, command, next>> /\ load[g] > 0 /\ fails < MaxFails /\ fails' = fails + 1
          /\ load' = [load EXCEPT ![g] = @ - 1] /\ dropped' = [dropped EXCEPT ![g] = @ + 1]
      BY <1>10 DEF DrainFails
    <3> QED
      BY <3>2, <3>3, <3>4, BoundAssumption
  <2> DEFINE h == Fresh(g, Error(0))
  <2>2. h \in Frame /\ FrameInv(h, 1)
    <3>1. Error(0) \in Event
      BY ErrorEvent, BoundAssumption
    <3> QED
      BY <3>1, NewFrames
  <2>3. /\ stack' = [stack EXCEPT ![<<g, "drain">>] = <<h>>] \/ UNCHANGED stack
        /\ <<g, "drain">> \in Thread
    BY <1>10 DEF DrainFails, Thread
  <2> HIDE DEF h
  <2>4. <<h>> \in Seq(Frame) /\ \A j \in 1..Len(<<h>>) : FrameInv(<<h>>[j], j)
    BY <2>2
  <2>5. stack' \in [Thread -> Seq(Frame)] /\ StackInv'
    <3>1. CASE UNCHANGED stack
      BY <3>1 DEF TypeOK, StackInv
    <3>2. CASE stack' = [stack EXCEPT ![<<g, "drain">>] = <<h>>]
      BY <2>3, <2>4, <3>2, StackKept
    <3> QED
      BY <2>3, <3>1, <3>2
  <2> QED
    BY <2>1, <2>5 DEF TypeOK
<1>11. CASE UNCHANGED vars
  BY <1>11 DEF vars, TypeOK, StackInv, losses
<1> QED
  BY <1>1, <1>4, <1>5, <1>6, <1>7, <1>8, <1>9, <1>10, <1>11 DEF Next, Dispatch

LEMMA InvHolds == Spec => []Inv
BY InvInit, InvNext, PTL DEF Spec

(* Every reachable state is well formed; no queue exceeds its capacity.    *)
THEOREM RelayTypeCorrect == Spec => []TypeOK
<1>1. Inv => TypeOK
  BY DEF Inv
<1> QED
  BY <1>1, InvHolds, PTL

(* relay() and Fire call each other at most MaxRank + 2 deep when the Log  *)
(* relays have no cycle, however many queues are full.                     *)
THEOREM RelayDepth == Spec => []DepthBound
<1>1. Inv => DepthBound
  <2> SUFFICES ASSUME Inv, NEW th \in Thread PROVE Len(stack[th]) <= MaxRank + 2
    BY DEF DepthBound
  <2> DEFINE n == Len(stack[th])
  <2>1. stack[th] \in Seq(Frame) /\ n \in Nat /\ MaxRank \in Nat
    BY LenProperties, RankAssumption DEF Inv, TypeOK
  <2>2. CASE n >= 2
    <3>1. FrameInv(stack[th][n], n) /\ stack[th][n] \in Frame
      BY <2>1, <2>2, ElementOfSeq DEF Inv, StackInv
    <3>2. Rank[stack[th][n].gw] + n <= MaxRank + 2 /\ stack[th][n].gw \in Gateways
      BY <2>2, <3>1 DEF FrameInv, Frame
    <3>3. Rank[stack[th][n].gw] \in Nat
      BY <3>2, RankAssumption
    <3> QED
      BY <2>1, <3>2, <3>3
  <2>3. CASE n < 2
    BY <2>1, <2>3
  <2> QED
    BY <2>1, <2>2, <2>3
<1> QED
  BY <1>1, InvHolds, PTL


-----------------------------------------------------------------------------
(* Where a message is on its way.  Its read loop handles it, from the chat *)
(* to the trigger it may hold; then the goroutine of its command answers;  *)
(* a log has no line of it that is still to come.                          *)

Base(th) == stack[th][1]
Passed(f, t) == f.phase # "main" /\ t \notin f.todo

Loops ==
  /\ \A g \in Gateways : stack[<<g, "loop">>] # <<>> =>
       LET f == Base(<<g, "loop">>)
       IN  /\ f.ev.kind \in {"chat", "trigger"} /\ f.gw = g
           /\ f.ev.id \in Id /\ f.ev.id < next
           /\ f.ev.kind = "chat" \/ f.phase # "done" => command[f.ev.id] = "none"
  /\ \A g, h \in Gateways :
       /\ stack[<<g, "loop">>] # <<>> /\ stack[<<h, "loop">>] # <<>>
       /\ Base(<<g, "loop">>).ev.id = Base(<<h, "loop">>).ev.id
       => g = h
Drains ==
  \A g \in Gateways : stack[<<g, "drain">>] # <<>> => Base(<<g, "drain">>).ev.kind = "error"
Answers ==
  \A i \in Id : stack[<<i, "cmd">>] # <<>> =>
    /\ Base(<<i, "cmd">>).ev.kind = "say" /\ Base(<<i, "cmd">>).ev.id = i
    /\ command[i] = "done"
Commands == \A i \in Id : i >= next => command[i] = "none"

ChatLine(t, l) ==
  /\ l.id < next
  /\ \A g \in Gateways : stack[<<g, "loop">>] # <<>> =>
       LET f == Base(<<g, "loop">>)
       IN  /\ l.id = f.ev.id => g = l.from /\ (f.ev.kind = "trigger" \/ Passed(f, t))
           /\ g = l.from => l.id <= f.ev.id
KickLine(l) ==
  /\ l.id < next
  /\ \A g \in Gateways : stack[<<g, "loop">>] # <<>> /\ l.id = Base(<<g, "loop">>).ev.id =>
       Base(<<g, "loop">>).ev.kind = "trigger" \/ Base(<<g, "loop">>).phase = "done"
AnswerLine(t, l) ==
  /\ l.id \in Id /\ command[l.id] = "done"
  /\ l.kind = "say" /\ stack[<<l.id, "cmd">>] # <<>> => Passed(Base(<<l.id, "cmd">>), t)
LineInv(t, l) ==
  /\ l.kind = "chat" => ChatLine(t, l)
  /\ l.kind = "kick" => KickLine(l)
  /\ l.kind \in {"say", "reply"} => AnswerLine(t, l)

Lines == \A t \in Gateways : \A k \in DOMAIN log[t] : LineInv(t, log[t][k])
Ordered == RelayedOnce /\ OriginOrder /\ ReplyAfterQuestion

Way == Loops /\ Drains /\ Answers /\ Commands
OInv == Inv /\ Way /\ Lines /\ Ordered

LEMMA OInvInit == Init => OInv
<1> SUFFICES ASSUME Init PROVE OInv
  OBVIOUS
<1>1. \A th \in Thread : stack[th] = <<>>
  BY DEF Init
<1>2. \A g \in Gateways : log[g] = <<>>
  BY DEF Init
<1>3. Way
  BY <1>1 DEF Init, Way, Loops, Drains, Answers, Commands, Thread
<1>4. Lines /\ Ordered
  BY <1>2 DEF Lines, Ordered, RelayedOnce, OriginOrder, ReplyAfterQuestion
<1>5. QED
  BY <1>3, <1>4, InvInit DEF OInv

(* A message goes on: the frame at the base of a stack is replaced by a    *)
(* later one, or leaves.                                                   *)
Later(f, e) ==
  /\ e.gw = f.gw /\ e.ev.id = f.ev.id
  /\ \/ e.ev.kind = f.ev.kind /\ (f.phase = "done" => e.phase = "done")
        /\ \A t \in Gateways : Passed(f, t) => Passed(e, t)
     \/ f.ev.kind = "chat" /\ e.ev.kind = "trigger"

GoesOn(th) == stack'[th] # <<>> => stack[th] # <<>> /\ Later(stack[th][1], stack'[th][1])

(* A command begins when the handlers of its trigger are done.             *)
Begins(i) ==
  /\ command[i] = "none" /\ command'[i] \in Gateways /\ i < next
  /\ \A g \in Gateways : stack'[<<g, "loop">>] # <<>> /\ stack'[<<g, "loop">>][1].ev.id = i =>
       stack'[<<g, "loop">>][1].ev.kind = "trigger" /\ stack'[<<g, "loop">>][1].phase = "done"

Moves ==
  /\ \A g \in Gateways : GoesOn(<<g, "loop">>) /\ GoesOn(<<g, "drain">>)
  /\ \A i \in Id : GoesOn(<<i, "cmd">>)
  /\ \A i \in Id : command'[i] = command[i] \/ Begins(i)
  /\ next' = next

LEMMA WayKept ==
  ASSUME Inv, Way, Moves
  PROVE  Way' /\ \A t \in Gateways : \A l \in Line : LineInv(t, l) => LineInv(t, l)'
<1>1. next \in Nat /\ Id \subseteq Nat /\ next' = next
  BY BoundAssumption DEF Inv, TypeOK, Id, Moves
<1>2. ASSUME NEW g \in Gateways, NEW e, e = stack'[<<g, "loop">>][1], stack'[<<g, "loop">>] # <<>>
      PROVE  \E f : /\ f = stack[<<g, "loop">>][1] /\ stack[<<g, "loop">>] # <<>> /\ Later(f, e)
                    /\ f.ev.kind \in {"chat", "trigger"} /\ f.gw = g
                    /\ f.ev.id \in Id /\ f.ev.id < next
                    /\ f.ev.kind = "chat" \/ f.phase # "done" => command[f.ev.id] = "none"
  <2>1. GoesOn(<<g, "loop">>)
    BY DEF Moves
  <2>2. PICK f : f = stack[<<g, "loop">>][1] /\ stack[<<g, "loop">>] # <<>> /\ Later(f, e)
    BY <1>2, <2>1 DEF GoesOn
  <2>3. Loops
    BY DEF Way
  <2>4. QED
    BY <2>2, <2>3 DEF Loops, Base
<1>3. Loops'
  <2>1. ASSUME NEW g \in Gateways, NEW e, e = stack'[<<g, "loop">>][1], stack'[<<g, "loop">>] # <<>>
        PROVE  /\ e.ev.kind \in {"chat", "trigger"} /\ e.gw = g
               /\ e.ev.id \in Id /\ e.ev.id < next
               /\ e.ev.kind = "chat" \/ e.phase # "done" => command'[e.ev.id] = "none"
    <3>1. PICK f : /\ Later(f, e)
                   /\ f.ev.kind \in {"chat", "trigger"} /\ f.gw = g
                   /\ f.ev.id \in Id /\ f.ev.id < next
                   /\ f.ev.kind = "chat" \/ f.phase # "done" => command[f.ev.id] = "none"
      BY <2>1, <1>2
    <3>2. /\ e.ev.kind \in {"chat", "trigger"} /\ e.gw = g
          /\ e.ev.id \in Id /\ e.ev.id < next
          /\ e.ev.kind = "chat" \/ e.phase # "done" => command[e.ev.id] = "none"
      BY <3>1 DEF Later
    <3>3. Begins(e.ev.id) => e.ev.kind = "trigger" /\ e.phase = "done"
      BY <2>1 DEF Begins
    <3>4. command'[e.ev.id] = command[e.ev.id] \/ Begins(e.ev.id)
      BY <3>2 DEF Moves
    <3>5. QED
      BY <3>2, <3>3, <3>4
  <2>2. ASSUME NEW g \in Gateways, NEW h \in Gateways,
               stack'[<<g, "loop">>] # <<>>, stack'[<<h, "loop">>] # <<>>,
               stack'[<<g, "loop">>][1].ev.id = stack'[<<h, "loop">>][1].ev.id
        PROVE  g = h
    <3>1. stack[<<g, "loop">>] # <<>> /\ Later(stack[<<g, "loop">>][1], stack'[<<g, "loop">>][1])
      BY <1>2, <2>2
    <3>2. stack[<<h, "loop">>] # <<>> /\ Later(stack[<<h, "loop">>][1], stack'[<<h, "loop">>][1])
      BY <1>2, <2>2
    <3>3. stack[<<g, "loop">>][1].ev.id = stack[<<h, "loop">>][1].ev.id
      BY <3>1, <3>2, <2>2 DEF Later
    <3>4. QED
      BY <3>1, <3>2, <3>3 DEF Way, Loops, Base
  <2>3. \A g \in Gateways : stack'[<<g, "loop">>] # <<>> =>
          LET e == stack'[<<g, "loop">>][1]
          IN  /\ e.ev.kind \in {"chat", "trigger"} /\ e.gw = g
              /\ e.ev.id \in Id /\ e.ev.id < next'
              /\ e.ev.kind = "chat" \/ e.phase # "done" => command'[e.ev.id] = "none"
    <3>1. SUFFICES ASSUME NEW g \in Gateways, stack'[<<g, "loop">>] # <<>>
                   PROVE  LET e == stack'[<<g, "loop">>][1]
                          IN  /\ e.ev.kind \in {"chat", "trigger"} /\ e.gw = g
                              /\ e.ev.id \in Id /\ e.ev.id < next'
                              /\ e.ev.kind = "chat" \/ e.phase # "done" => command'[e.ev.id] = "none"
      OBVIOUS
    <3>2. PICK e : e = stack'[<<g, "loop">>][1]
      OBVIOUS
    <3>3. /\ e.ev.kind \in {"chat", "trigger"} /\ e.gw = g
          /\ e.ev.id \in Id /\ e.ev.id < next
          /\ e.ev.kind = "chat" \/ e.phase # "done" => command'[e.ev.id] = "none"
      BY <2>1, <3>1, <3>2
    <3>4. QED
      BY <3>2, <3>3, <1>1
  <2>4. QED
    BY <2>2, <2>3 DEF Loops, Base
<1>4. Drains'
  <2>1. ASSUME NEW g \in Gateways, stack'[<<g, "drain">>] # <<>>
        PROVE  stack'[<<g, "drain">>][1].ev.kind = "error"
    <3>1. GoesOn(<<g, "drain">>) /\ Drains
      BY DEF Moves, Way
    <3>2. stack[<<g, "drain">>] # <<>> /\ Later(stack[<<g, "drain">>][1], stack'[<<g, "drain">>][1])
      BY <2>1, <3>1 DEF GoesOn
    <3>3. stack[<<g, "drain">>][1].ev.kind = "error"
      BY <3>1, <3>2 DEF Drains, Base
    <3>4. QED
      BY <3>2, <3>3 DEF Later
  <2>2. QED
    BY <2>1 DEF Drains, Base
<1>5. ASSUME NEW i \in Id, stack'[<<i, "cmd">>] # <<>>
      PROVE  /\ stack[<<i, "cmd">>] # <<>> /\ Later(stack[<<i, "cmd">>][1], stack'[<<i, "cmd">>][1])
             /\ stack[<<i, "cmd">>][1].ev.kind = "say" /\ stack[<<i, "cmd">>][1].ev.id = i
             /\ command[i] = "done"
  <2>1. GoesOn(<<i, "cmd">>) /\ Answers
    BY DEF Moves, Way
  <2>2. stack[<<i, "cmd">>] # <<>> /\ Later(stack[<<i, "cmd">>][1], stack'[<<i, "cmd">>][1])
    BY <1>5, <2>1 DEF GoesOn
  <2>3. QED
    BY <2>1, <2>2 DEF Answers, Base
<1>6. \A i \in Id : command[i] = "done" => command'[i] = "done"
  BY DEF Moves, Begins
<1>7. Answers'
  <2>1. ASSUME NEW i \in Id, stack'[<<i, "cmd">>] # <<>>
        PROVE  /\ stack'[<<i, "cmd">>][1].ev.kind = "say" /\ stack'[<<i, "cmd">>][1].ev.id = i
               /\ command'[i] = "done"
    BY <2>1, <1>5, <1>6 DEF Later
  <2>2. QED
    BY <2>1 DEF Answers, Base
<1>8. Commands'
  <2>1. ASSUME NEW i \in Id, i >= next PROVE command'[i] = "none"
    <3>1. ~(i < next)
      BY <2>1, <1>1
    <3>2. command'[i] = command[i]
      BY <3>1 DEF Moves, Begins
    <3>3. QED
      BY <2>1, <3>2 DEF Way, Commands
  <2>2. QED
    BY <2>1, <1>1 DEF Commands
<1>9. ASSUME NEW t \in Gateways, NEW l \in Line, LineInv(t, l) PROVE LineInv(t, l)'
  <2>1. ASSUME l.kind = "chat" PROVE ChatLine(t, l)'
    <3>1. ChatLine(t, l) /\ l.id < next'
      BY <1>1, <1>9, <2>1 DEF LineInv, ChatLine
    <3>2. ASSUME NEW g \in Gateways, NEW e, e = stack'[<<g, "loop">>][1], stack'[<<g, "loop">>] # <<>>
          PROVE  /\ l.id = e.ev.id => g = l.from /\ (e.ev.kind = "trigger" \/ Passed(e, t))
                 /\ g = l.from => l.id <= e.ev.id
      <4>1. PICK f : f = stack[<<g, "loop">>][1] /\ stack[<<g, "loop">>] # <<>> /\ Later(f, e)
        BY <3>2, <1>2
      <4>2. /\ l.id = f.ev.id => g = l.from /\ (f.ev.kind = "trigger" \/ Passed(f, t))
            /\ g = l.from => l.id <= f.ev.id
        BY <3>1, <4>1 DEF ChatLine, Base
      <4>3. QED
        BY <4>1, <4>2 DEF Later
    <3>3. QED
      BY <3>1, <3>2 DEF ChatLine, Passed, Base
  <2>2. ASSUME l.kind = "kick" PROVE KickLine(l)'
    <3>1. KickLine(l) /\ l.id < next'
      BY <1>1, <1>9, <2>2 DEF LineInv, KickLine
    <3>2. ASSUME NEW g \in Gateways, NEW e, e = stack'[<<g, "loop">>][1], stack'[<<g, "loop">>] # <<>>,
                 l.id = e.ev.id
          PROVE  e.ev.kind = "trigger" \/ e.phase = "done"
      <4>1. PICK f : f = stack[<<g, "loop">>][1] /\ stack[<<g, "loop">>] # <<>> /\ Later(f, e)
        BY <3>2, <1>2
      <4>2. f.ev.kind = "trigger" \/ f.phase = "done"
        BY <3>1, <3>2, <4>1 DEF KickLine, Base, Later
      <4>3. QED
        BY <4>1, <4>2 DEF Later
    <3>3. QED
      BY <3>1, <3>2 DEF KickLine, Base
  <2>3. ASSUME l.kind \in {"say", "reply"} PROVE AnswerLine(t, l)'
    <3>1. AnswerLine(t, l) /\ l.id \in Id /\ command'[l.id] = "done"
      BY <1>6, <1>9, <2>3 DEF LineInv, AnswerLine
    <3>2. ASSUME l.kind = "say", stack'[<<l.id, "cmd">>] # <<>>
          PROVE  Passed(stack'[<<l.id, "cmd">>][1], t)
      <4>1. /\ stack[<<l.id, "cmd">>] # <<>> /\ Later(stack[<<l.id, "cmd">>][1], stack'[<<l.id, "cmd">>][1])
            /\ stack[<<l.id, "cmd">>][1].ev.kind = "say"
        BY <3>1, <3>2, <1>5
      <4>2. Passed(stack[<<l.id, "cmd">>][1], t)
        BY <3>1, <3>2, <4>1 DEF AnswerLine, Base
      <4>3. QED
        BY <4>1, <4>2 DEF Later
    <3>3. QED
      BY <3>1, <3>2 DEF AnswerLine, Passed, Base
  <2>4. QED
    BY <2>1, <2>2, <2>3 DEF LineInv
<1>10. QED
  BY <1>3, <1>4, <1>7, <1>8, <1>9 DEF Way

LEMMA LaterItself == \A f : Later(f, f)
  BY DEF Later

(* What becomes of the base of a stack when its top is replaced, has a     *)
(* call pushed on it, or returns.                                          *)
LEMMA BaseReplaced ==
  ASSUME Inv, NEW th \in Thread, stack[th] # <<>>, NEW f \in Frame, stack' = Replace(th, f)
  PROVE  /\ \A t \in Thread : t # th => stack'[t] = stack[t]
         /\ stack'[th] # <<>> /\ stack'[th][1] = IF Len(stack[th]) = 1 THEN f ELSE stack[th][1]
<1>1. PICK s \in Seq(Frame) : s = stack[th] /\ s # <<>>
  BY DEF Inv, TypeOK
<1> DEFINE r == Append(SubSeq(s, 1, Len(s) - 1), f)
<1>2. r \in Seq(Frame) /\ Len(r) = Len(s) /\ (\A i \in 1..(Len(s) - 1) : r[i] = s[i]) /\ r[Len(s)] = f
  BY <1>1, ReplaceTop
<1>3. stack' = [stack EXCEPT ![th] = r] /\ stack \in [Thread -> Seq(Frame)]
  BY <1>1 DEF Replace, Under, Inv, TypeOK
<1> HIDE DEF r
<1>4. Len(s) \in Nat /\ Len(s) >= 1
  BY <1>1, TopOfStack
<1>5. r # <<>> /\ r[1] = IF Len(s) = 1 THEN f ELSE s[1]
  BY <1>2, <1>4
<1>6. QED
  BY <1>1, <1>3, <1>5

LEMMA BasePushed ==
  ASSUME Inv, NEW th \in Thread, stack[th] # <<>>, NEW f \in Frame, NEW h \in Frame,
         stack' = [Replace(th, f) EXCEPT ![th] = Append(@, h)]
  PROVE  /\ \A t \in Thread : t # th => stack'[t] = stack[t]
         /\ stack'[th] # <<>> /\ stack'[th][1] = IF Len(stack[th]) = 1 THEN f ELSE stack[th][1]
<1>1. PICK s \in Seq(Frame) : s = stack[th] /\ s # <<>>
  BY DEF Inv, TypeOK
<1> DEFINE r == Append(SubSeq(s, 1, Len(s) - 1), f)
           p == Append(r, h)
<1>2. /\ r \in Seq(Frame) /\ Len(r) = Len(s) /\ (\A i \in 1..(Len(s) - 1) : r[i] = s[i]) /\ r[Len(s)] = f
      /\ p \in Seq(Frame) /\ Len(p) = Len(s) + 1 /\ \A i \in 1..Len(s) : p[i] = r[i]
  BY <1>1, ReplaceTop
<1>3. stack' = [[stack EXCEPT ![th] = r] EXCEPT ![th] = Append(@, h)] /\ stack \in [Thread -> Seq(Frame)]
  BY <1>1 DEF Replace, Under, Inv, TypeOK
<1> HIDE DEF r
<1>4. stack' = [stack EXCEPT ![th] = p]
  BY <1>3
<1> HIDE DEF p
<1>5. Len(s) \in Nat /\ Len(s) >= 1
  BY <1>1, TopOfStack
<1>6. p # <<>> /\ p[1] = IF Len(s) = 1 THEN f ELSE s[1]
  BY <1>2, <1>5, EmptySeq
<1>7. QED
  BY <1>1, <1>3, <1>4, <1>6

LEMMA BasePopped ==
  ASSUME Inv, NEW th \in Thread, stack[th] # <<>>, stack' = [stack EXCEPT ![th] = Under(th)]
  PROVE  /\ \A t \in Thread : t # th => stack'[t] = stack[t]
         /\ stack'[th] # <<>> => stack'[th][1] = stack[th][1]
         /\ Len(stack[th]) = 1 => stack'[th] = <<>>
<1>1. PICK s \in Seq(Frame) : s = stack[th] /\ s # <<>>
  BY DEF Inv, TypeOK
<1> DEFINE u == SubSeq(s, 1, Len(s) - 1)
<1>2. /\ Len(s) \in Nat /\ Len(s) >= 1 /\ u \in Seq(Frame) /\ Len(u) = Len(s) - 1
      /\ \A i \in 1..(Len(s) - 1) : u[i] = s[i]
  BY <1>1, TopOfStack
<1>3. stack' = [stack EXCEPT ![th] = u] /\ stack \in [Thread -> Seq(Frame)]
  BY <1>1 DEF Under, Inv, TypeOK
<1> HIDE DEF u
<1>4. u # <<>> => Len(u) >= 1 /\ u[1] = s[1]
  BY <1>2, EmptySeq
<1>5. Len(s) = 1 => u = <<>>
  BY <1>2, EmptySeq
<1>6. QED
  BY <1>1, <1>3, <1>4, <1>5

(* Which goroutine handles which event: calls that are nested, and those   *)
(* of a goroutine draining a queue, are errors.                            *)
LEMMA WhoseTop ==
  ASSUME Inv, Way, NEW th \in Thread, stack[th] # <<>>, NEW f, f = Top(th)
  PROVE  /\ f \in Frame /\ f.ev \in Event /\ f.gw \in Gateways /\ FrameInv(f, Len(stack[th]))
         /\ f.ev.kind \in {"chat", "trigger"} =>
              /\ Len(stack[th]) = 1 /\ f = stack[th][1] /\ th = <<f.gw, "loop">>
              /\ f.ev.id \in Id /\ f.ev.id < next
              /\ f.ev.kind = "chat" \/ f.phase # "done" => command[f.ev.id] = "none"
         /\ f.ev.kind = "say" =>
              /\ Len(stack[th]) = 1 /\ f = stack[th][1] /\ th = <<f.ev.id, "cmd">>
              /\ f.ev.id \in Id /\ command[f.ev.id] = "done"
         /\ f.ev.kind = "error" /\ Len(stack[th]) = 1 => f = stack[th][1] /\ \E g \in Gateways : th = <<g, "drain">>
<1>1. PICK s \in Seq(Frame) : s = stack[th] /\ s # <<>> /\ f = s[Len(s)]
  BY DEF Inv, TypeOK, Top
<1>2. Len(s) \in Nat /\ Len(s) >= 1 /\ f \in Frame
  BY <1>1, TopOfStack
<1>3. FrameInv(f, Len(s)) /\ f.ev \in Event /\ f.gw \in Gateways
  BY <1>1, <1>2 DEF Inv, StackInv, Frame
<1>4. f.ev.kind # "error" => Len(s) = 1 /\ f = s[1]
  <2>1. PICK n \in Nat : n = Len(s) /\ n >= 1 /\ f = s[n]
    BY <1>1, <1>2
  <2>2. n >= 2 => f.ev.kind = "error"
    BY <2>1, <1>3 DEF FrameInv
  <2>3. n < 2 => n = 1
    BY <2>1
  <2>4. n >= 2 \/ n < 2
    OBVIOUS
  <2>5. QED
    BY <2>1, <2>2, <2>3, <2>4, Zenon
<1>5. Len(s) = 1 => f = s[1]
  BY <1>1
<1>6. ASSUME NEW g \in Gateways, th = <<g, "loop">>, Len(s) = 1
      PROVE  /\ f.ev.kind \in {"chat", "trigger"} /\ f.gw = g /\ f.ev.id \in Id /\ f.ev.id < next
             /\ f.ev.kind = "chat" \/ f.phase # "done" => command[f.ev.id] = "none"
  BY <1>1, <1>5, <1>6 DEF Way, Loops, Base
<1>7. ASSUME NEW g \in Gateways, th = <<g, "drain">>, Len(s) = 1 PROVE f.ev.kind = "error"
  BY <1>1, <1>5, <1>7 DEF Way, Drains, Base
<1>8. ASSUME NEW i \in Id, th = <<i, "cmd">>, Len(s) = 1
      PROVE  f.ev.kind = "say" /\ f.ev.id = i /\ command[i] = "done"
  BY <1>1, <1>5, <1>8 DEF Way, Answers, Base
<1>9. (\E g \in Gateways : th = <<g, "loop">>) \/ (\E g \in Gateways : th = <<g, "drain">>) \/ (\E i \in Id : th = <<i, "cmd">>)
  BY DEF Thread
<1>10. CASE \E g \in Gateways : th = <<g, "loop">>
  BY <1>1, <1>2, <1>3, <1>4, <1>6, <1>10
<1>11. CASE \E g \in Gateways : th = <<g, "drain">>
  BY <1>1, <1>2, <1>3, <1>4, <1>7, <1>11
<1>12. CASE \E i \in Id : th = <<i, "cmd">>
  BY <1>1, <1>2, <1>3, <1>4, <1>8, <1>12
<1>13. QED
  BY <1>9, <1>10, <1>11, <1>12

(* The top of a stack goes on, or errors come and go above its base.       *)
LEMMA TopMoves ==
  ASSUME Inv, Way, NEW th \in Thread, stack[th] # <<>>, NEW f, f = Top(th),
         \A t \in Thread : t # th => stack'[t] = stack[t],
         NEW e, Later(f, e),
         stack'[th] # <<>> => stack'[th][1] = IF Len(stack[th]) = 1 THEN e ELSE stack[th][1],
         next' = next, \A i \in Id : command'[i] = command[i] \/ Begins(i)
  PROVE  Moves
<1>1. Len(stack[th]) = 1 => f = stack[th][1]
  BY DEF Top
<1>2. GoesOn(th)
  BY <1>1, LaterItself DEF GoesOn
<1>3. \A t \in Thread : GoesOn(t)
  BY <1>2, LaterItself DEF GoesOn
<1>4. /\ \A g \in Gateways : <<g, "loop">> \in Thread /\ <<g, "drain">> \in Thread
      /\ \A i \in Id : <<i, "cmd">> \in Thread
  BY DEF Thread
<1>5. QED
  BY <1>3, <1>4 DEF Moves

-----------------------------------------------------------------------------
(* A line enters a queue.                                                  *)

Added(t, line) == log' = [log EXCEPT ![t] = Append(@, line)]

LEMMA AppendOne ==
  ASSUME NEW q \in Seq(Line), NEW line \in Line
  PROVE  /\ Append(q, line) \in Seq(Line)
         /\ \A k \in DOMAIN Append(q, line) :
              \/ k \in DOMAIN q /\ Append(q, line)[k] = q[k]
              \/ Append(q, line)[k] = line /\ k \in Nat /\ \A j \in DOMAIN q : j < k
         /\ \A k, j \in DOMAIN Append(q, line) : k \notin DOMAIN q /\ j \notin DOMAIN q => j = k
         /\ \A k \in DOMAIN q : k \in Nat /\ q[k] \in Line
  OBVIOUS

LEMMA LineAdded ==
  ASSUME Inv, NEW t \in Gateways, NEW line \in Line, Added(t, line)
  PROVE  /\ \A g \in Gateways : \A k \in DOMAIN log'[g] :
              \/ k \in DOMAIN log[g] /\ log'[g][k] = log[g][k]
              \/ g = t /\ log'[g][k] = line /\ k \notin DOMAIN log[g] /\ k \in Nat /\ \A j \in DOMAIN log[t] : j < k
         /\ \A j, k \in DOMAIN log'[t] : k \notin DOMAIN log[t] /\ j \notin DOMAIN log[t] => j = k
         /\ \A g \in Gateways : \A k \in DOMAIN log[g] : k \in Nat /\ log[g][k] \in Line
<1>1. log \in [Gateways -> Seq(Line)]
  BY DEF Inv, TypeOK
<1>2. PICK q \in Seq(Line) : q = log[t]
  BY <1>1
<1>3. \A g \in Gateways : log'[g] = IF g = t THEN Append(q, line) ELSE log[g]
  BY <1>1, <1>2 DEF Added
<1>4. /\ \A k \in DOMAIN Append(q, line) :
           \/ k \in DOMAIN q /\ Append(q, line)[k] = q[k]
           \/ Append(q, line)[k] = line /\ k \in Nat /\ \A j \in DOMAIN q : j < k
      /\ \A k, j \in DOMAIN Append(q, line) : k \notin DOMAIN q /\ j \notin DOMAIN q => j = k
      /\ \A k \in DOMAIN q : k \in Nat /\ q[k] \in Line
  BY AppendOne
<1>5. \A g \in Gateways : \A k \in DOMAIN log[g] : k \in Nat /\ log[g][k] \in Line
  BY <1>1
<1>6. \A k \in DOMAIN q : ~(k < k)
  BY <1>4
<1>7. \A g \in Gateways : \A k \in DOMAIN log'[g] :
        \/ k \in DOMAIN log[g] /\ log'[g][k] = log[g][k]
        \/ g = t /\ log'[g][k] = line /\ k \notin DOMAIN log[g] /\ k \in Nat /\ \A j \in DOMAIN log[t] : j < k
  <2>1. ASSUME NEW g \in Gateways, NEW k \in DOMAIN log'[g]
        PROVE  \/ k \in DOMAIN log[g] /\ log'[g][k] = log[g][k]
               \/ g = t /\ log'[g][k] = line /\ k \notin DOMAIN log[g] /\ k \in Nat /\ \A j \in DOMAIN log[t] : j < k
    <3>1. CASE g # t
      BY <2>1, <3>1, <1>3
    <3>2. CASE g = t
      <4>1. log'[g] = Append(q, line) /\ log[g] = q
        BY <3>2, <1>2, <1>3
      <4>2. QED
        BY <2>1, <3>2, <4>1, <1>4, <1>6
    <3>3. QED
      BY <3>1, <3>2
  <2>2. QED
    BY <2>1
<1>8. QED
  BY <1>2, <1>3, <1>4, <1>5, <1>7

(* A line that is new, and not about a command that has been answered.     *)
NewLine(t, line) ==
  /\ line.kind # "error" =>
       \A k \in DOMAIN log[t] : log[t][k].kind = line.kind => log[t][k].id # line.id
  /\ line.kind = "chat" =>
       \A k \in DOMAIN log[t] :
         /\ log[t][k].kind = "chat" /\ log[t][k].from = line.from => log[t][k].id < line.id
         /\ log[t][k].kind \in {"say", "reply"} => log[t][k].id # line.id

LEMMA OrderedKept ==
  ASSUME Inv, Ordered, NEW t \in Gateways, NEW line \in Line, Added(t, line), NewLine(t, line)
  PROVE  Ordered'
<1>1. /\ \A g \in Gateways : \A k \in DOMAIN log'[g] :
           \/ k \in DOMAIN log[g] /\ log'[g][k] = log[g][k]
           \/ g = t /\ log'[g][k] = line /\ k \notin DOMAIN log[g] /\ k \in Nat /\ \A j \in DOMAIN log[t] : j < k
      /\ \A j, k \in DOMAIN log'[t] : k \notin DOMAIN log[t] /\ j \notin DOMAIN log[t] => j = k
      /\ \A g \in Gateways : \A k \in DOMAIN log[g] : k \in Nat /\ log[g][k] \in Line
  BY LineAdded
<1>2. RelayedOnce'
  <2>1. ASSUME NEW g \in Gateways, NEW i \in DOMAIN log'[g], NEW j \in DOMAIN log'[g],
               log'[g][i].kind # "error", log'[g][i].kind = log'[g][j].kind, log'[g][i].id = log'[g][j].id
        PROVE  i = j
    <3>1. CASE i \in DOMAIN log[g] /\ j \in DOMAIN log[g]
      <4>1. log'[g][i] = log[g][i] /\ log'[g][j] = log[g][j]
        BY <3>1, <1>1
      <4>2. QED
        BY <2>1, <3>1, <4>1 DEF Ordered, RelayedOnce
    <3>2. CASE i \notin DOMAIN log[g] /\ j \in DOMAIN log[g]
      <4>1. g = t /\ log'[g][i] = line /\ log'[g][j] = log[g][j]
        BY <3>2, <1>1
      <4>2. QED
        BY <2>1, <3>2, <4>1 DEF NewLine
    <3>3. CASE i \in DOMAIN log[g] /\ j \notin DOMAIN log[g]
      <4>1. g = t /\ log'[g][j] = line /\ log'[g][i] = log[g][i]
        BY <3>3, <1>1
      <4>2. QED
        BY <2>1, <3>3, <4>1 DEF NewLine
    <3>4. CASE i \notin DOMAIN log[g] /\ j \notin DOMAIN log[g]
      <4>1. g = t
        BY <3>4, <1>1
      <4>2. QED
        BY <3>4, <4>1, <1>1
    <3>5. QED
      BY <3>1, <3>2, <3>3, <3>4
  <2>2. QED
    BY <2>1 DEF RelayedOnce
<1>3. ASSUME NEW g \in Gateways, NEW i \in DOMAIN log'[g], NEW j \in DOMAIN log'[g]
      PROVE  /\ i \in Nat /\ j \in Nat
             /\ i \notin DOMAIN log[g] => g = t /\ log'[g][i] = line /\ ~(i < j)
             /\ i \notin DOMAIN log[g] /\ j \in DOMAIN log[g] => j < i
             /\ i \in DOMAIN log[g] => log'[g][i] = log[g][i]
  <2>1. i \notin DOMAIN log[g] => g = t /\ log'[g][i] = line /\ \A k \in DOMAIN log[g] : k < i
    BY <1>1
  <2>2. i \in Nat /\ j \in Nat
    BY <1>1
  <2>3. CASE j \in DOMAIN log[g]
    BY <2>1, <2>2, <2>3, <1>1
  <2>4. CASE j \notin DOMAIN log[g]
    <3>1. i \notin DOMAIN log[g] => i = j
      BY <2>4, <2>1, <1>1
    <3>2. QED
      BY <3>1, <2>1, <2>2, <2>4, <1>1
  <2>5. QED
    BY <2>3, <2>4
<1>4. OriginOrder'
  <2>1. ASSUME NEW g \in Gateways, NEW i \in DOMAIN log'[g], NEW j \in DOMAIN log'[g],
               i < j, log'[g][i].kind = "chat", log'[g][j].kind = "chat", log'[g][i].from = log'[g][j].from
        PROVE  log'[g][i].id < log'[g][j].id
    <3>1. i \in DOMAIN log[g] /\ log'[g][i] = log[g][i]
      BY <2>1, <1>3
    <3>2. CASE j \in DOMAIN log[g]
      <4>1. log'[g][j] = log[g][j]
        BY <3>2, <1>1
      <4>2. QED
        BY <2>1, <3>1, <3>2, <4>1 DEF Ordered, OriginOrder
    <3>3. CASE j \notin DOMAIN log[g]
      <4>1. g = t /\ log'[g][j] = line
        BY <3>3, <1>1
      <4>2. QED
        BY <2>1, <3>1, <4>1 DEF NewLine
    <3>4. QED
      BY <3>2, <3>3
  <2>2. QED
    BY <2>1 DEF OriginOrder
<1>5. ReplyAfterQuestion'
  <2>1. ASSUME NEW g \in Gateways, NEW i \in DOMAIN log'[g], NEW j \in DOMAIN log'[g],
               log'[g][i].kind = "chat", log'[g][j].kind \in {"say", "reply"}, log'[g][i].id = log'[g][j].id
        PROVE  i < j
    <3>1. CASE i \in DOMAIN log[g] /\ j \in DOMAIN log[g]
      <4>1. log'[g][i] = log[g][i] /\ log'[g][j] = log[g][j]
        BY <3>1, <1>1
      <4>2. QED
        BY <2>1, <3>1, <4>1 DEF Ordered, ReplyAfterQuestion
    <3>2. CASE i \notin DOMAIN log[g]
      <4>1. g = t /\ log'[g][i] = line
        BY <3>2, <1>1
      <4>2. j \notin DOMAIN log[g] => log'[g][j] = line
        BY <1>1
      <4>3. j \in DOMAIN log[g] => log'[g][j] = log[g][j]
        BY <1>1
      <4>4. QED
        BY <2>1, <4>1, <4>2, <4>3 DEF NewLine
    <3>3. CASE i \in DOMAIN log[g] /\ j \notin DOMAIN log[g]
      BY <3>3, <1>3
    <3>4. QED
      BY <3>1, <3>2, <3>3
  <2>2. QED
    BY <2>1 DEF ReplyAfterQuestion
<1>6. QED
  BY <1>2, <1>4, <1>5 DEF Ordered

(* Lines stay what they are while messages go on; so is the one that is new. *)
LEMMA LinesStay ==
  ASSUME Inv, Lines, log' = log, \A t \in Gateways : \A l \in Line : LineInv(t, l) => LineInv(t, l)'
  PROVE  Lines'
<1>1. \A g \in Gateways : \A k \in DOMAIN log[g] : log[g][k] \in Line
  BY DEF Inv, TypeOK
<1>2. ASSUME NEW g \in Gateways, NEW k \in DOMAIN log[g], NEW l \in Line, l = log[g][k]
      PROVE  LineInv(g, l)'
  BY <1>2 DEF Lines
<1>3. QED
  BY <1>1, <1>2 DEF Lines, LineInv, ChatLine, KickLine, AnswerLine, Base, Passed

LEMMA LinesAdded ==
  ASSUME Inv, Lines, \A t \in Gateways : \A l \in Line : LineInv(t, l) => LineInv(t, l)',
         NEW t \in Gateways, NEW line \in Line, Added(t, line), LineInv(t, line)'
  PROVE  Lines'
<1>1. \A g \in Gateways : \A k \in DOMAIN log[g] : log[g][k] \in Line
  BY DEF Inv, TypeOK
<1>2. \A g \in Gateways : \A k \in DOMAIN log'[g] :
        \/ k \in DOMAIN log[g] /\ log'[g][k] = log[g][k]
        \/ g = t /\ log'[g][k] = line
  BY LineAdded
<1>3. ASSUME NEW g \in Gateways, NEW k \in DOMAIN log'[g], NEW l, l = log'[g][k]
      PROVE  LineInv(g, l)'
  <2>1. CASE k \in DOMAIN log[g] /\ log'[g][k] = log[g][k]
    <3>1. l \in Line /\ LineInv(g, l)
      BY <1>3, <2>1, <1>1 DEF Lines
    <3>2. QED
      BY <3>1
  <2>2. CASE g = t /\ log'[g][k] = line
    BY <1>3, <2>2
  <2>3. QED
    BY <1>2, <1>3, <2>1, <2>2
<1>4. QED
  BY <1>3 DEF Lines

-----------------------------------------------------------------------------

LEMMA FireChatKeeps ==
  ASSUME OInv, NEW g \in Gateways, FireChat(g)
  PROVE  Way' /\ Lines' /\ Ordered'
<1>1. PICK level \in Levels, text \in {"talk", "cmd", "ask"} :
        stack' = [stack EXCEPT ![<<g, "loop">>] = <<Fresh(g, Chat(level, text))>>]
  BY DEF FireChat
<1>2. next \in Id /\ next' = next + 1 /\ UNCHANGED <<log, command>> /\ next \in Nat /\ Id \subseteq Nat
  BY BoundAssumption DEF FireChat, Id
<1> DEFINE f == Fresh(g, Chat(level, text))
<1>3. f.gw = g /\ f.ev.kind = "chat" /\ f.ev.id = next
  BY DEF Fresh, Chat
<1> HIDE DEF f
<1>4. stack \in [Thread -> Seq(Frame)] /\ <<g, "loop">> \in Thread
  BY DEF OInv, Inv, TypeOK, Thread
<1>5. /\ stack'[<<g, "loop">>] = <<f>>
      /\ \A h \in Gateways : h # g => stack'[<<h, "loop">>] = stack[<<h, "loop">>]
      /\ \A h \in Gateways : stack'[<<h, "drain">>] = stack[<<h, "drain">>]
      /\ \A i \in Id : stack'[<<i, "cmd">>] = stack[<<i, "cmd">>]
  BY <1>1, <1>4 DEF Thread, f
<1>6. command[next] = "none"
  BY <1>2 DEF OInv, Way, Commands
<1>7. stack'[<<g, "loop">>] # <<>> /\ stack'[<<g, "loop">>][1] = f
  BY <1>5
<1>8. \A h \in Gateways : stack'[<<h, "loop">>] # <<>> /\ h # g =>
        LET e == stack'[<<h, "loop">>][1]
        IN  /\ e.ev.kind \in {"chat", "trigger"} /\ e.gw = h
            /\ e.ev.id \in Id /\ e.ev.id < next
            /\ e.ev.kind = "chat" \/ e.phase # "done" => command[e.ev.id] = "none"
  BY <1>5 DEF OInv, Way, Loops, Base
<1>9. Loops'
  <2>1. \A h \in Gateways : stack'[<<h, "loop">>] # <<>> =>
          LET e == stack'[<<h, "loop">>][1]
          IN  /\ e.ev.kind \in {"chat", "trigger"} /\ e.gw = h
              /\ e.ev.id \in Id /\ e.ev.id < next'
              /\ e.ev.kind = "chat" \/ e.phase # "done" => command'[e.ev.id] = "none"
    <3>1. ASSUME NEW h \in Gateways, h # g, stack'[<<h, "loop">>] # <<>>, NEW e, e = stack'[<<h, "loop">>][1]
          PROVE  /\ e.ev.kind \in {"chat", "trigger"} /\ e.gw = h
                 /\ e.ev.id \in Id /\ e.ev.id < next'
                 /\ e.ev.kind = "chat" \/ e.phase # "done" => command'[e.ev.id] = "none"
      <4>1. /\ e.ev.kind \in {"chat", "trigger"} /\ e.gw = h
            /\ e.ev.id \in Id /\ e.ev.id < next
            /\ e.ev.kind = "chat" \/ e.phase # "done" => command[e.ev.id] = "none"
        BY <3>1, <1>8
      <4>2. PICK i \in Nat : i = e.ev.id /\ i < next
        BY <4>1, <1>2
      <4>3. i < next'
        BY <4>2, <1>2
      <4>4. command' = command
        BY <1>2
      <4>5. QED
        BY <4>1, <4>2, <4>3, <4>4
    <3>2. /\ f.ev.kind \in {"chat", "trigger"} /\ f.gw = g
          /\ f.ev.id \in Id /\ f.ev.id < next'
          /\ f.ev.kind = "chat" \/ f.phase # "done" => command'[f.ev.id] = "none"
      BY <1>2, <1>3, <1>6
    <3>3. QED
      BY <3>1, <3>2, <1>7, Zenon
  <2>2. ASSUME NEW h \in Gateways, NEW j \in Gateways,
               stack'[<<h, "loop">>] # <<>>, stack'[<<j, "loop">>] # <<>>,
               stack'[<<h, "loop">>][1].ev.id = stack'[<<j, "loop">>][1].ev.id
        PROVE  h = j
    <3>1. CASE h # g /\ j # g
      BY <2>2, <3>1, <1>5 DEF OInv, Way, Loops, Base
    <3>2. h # g => stack'[<<h, "loop">>][1].ev.id < next /\ stack'[<<h, "loop">>][1].ev.id \in Nat
      BY <2>2, <1>2, <1>8
    <3>3. j # g => stack'[<<j, "loop">>][1].ev.id < next /\ stack'[<<j, "loop">>][1].ev.id \in Nat
      BY <2>2, <1>2, <1>8
    <3>4. QED
      BY <2>2, <3>1, <3>2, <3>3, <1>2, <1>3, <1>7
  <2>3. QED
    BY <2>1, <2>2 DEF Loops, Base
<1>10. Drains' /\ Answers'
  BY <1>2, <1>5 DEF OInv, Way, Drains, Answers, Base
<1>11. Commands'
  BY <1>2 DEF OInv, Way, Commands
<1>12. ASSUME NEW t \in Gateways, NEW l \in Line, LineInv(t, l) PROVE LineInv(t, l)'
  <2>1. l.id \in Nat
    BY BoundAssumption DEF Line
  <2>2. ASSUME l.kind = "chat" PROVE ChatLine(t, l)'
    <3>1. ChatLine(t, l)
      BY <1>12, <2>2 DEF LineInv
    <3>2. l.id < next /\ l.id < next' /\ l.id # next /\ l.id <= next
      BY <3>1, <2>1, <1>2 DEF ChatLine
    <3>3. \A h \in Gateways : stack'[<<h, "loop">>] # <<>> =>
            LET e == stack'[<<h, "loop">>][1]
            IN  /\ l.id = e.ev.id => h = l.from /\ (e.ev.kind = "trigger" \/ Passed(e, t))
                /\ h = l.from => l.id <= e.ev.id
      BY <3>1, <3>2, <1>3, <1>5, <1>7 DEF ChatLine, Base
    <3>4. QED
      BY <3>2, <3>3 DEF ChatLine, Base, Passed
  <2>3. ASSUME l.kind = "kick" PROVE KickLine(l)'
    <3>1. KickLine(l)
      BY <1>12, <2>3 DEF LineInv
    <3>2. l.id < next /\ l.id < next' /\ l.id # next
      BY <3>1, <2>1, <1>2 DEF KickLine
    <3>3. QED
      BY <3>1, <3>2, <1>3, <1>5, <1>7 DEF KickLine, Base
  <2>4. ASSUME l.kind \in {"say", "reply"} PROVE AnswerLine(t, l)'
    BY <1>12, <2>4, <1>2, <1>5 DEF LineInv, AnswerLine, Base, Passed
  <2>5. QED
    BY <2>2, <2>3, <2>4 DEF LineInv
<1>13. Lines'
  BY <1>2, <1>12, LinesStay DEF OInv
<1>14. Ordered'
  BY <1>2 DEF OInv, Ordered, RelayedOnce, OriginOrder, ReplyAfterQuestion
<1>15. QED
  BY <1>9, <1>10, <1>11, <1>13, <1>14 DEF Way

(* Nothing is logged, and messages go on or stay.                          *)
LEMMA MovesKeeps ==
  ASSUME OInv, Moves, UNCHANGED log
  PROVE  Way' /\ Lines' /\ Ordered'
<1>1. Way' /\ \A t \in Gateways : \A l \in Line : LineInv(t, l) => LineInv(t, l)'
  BY WayKept DEF OInv
<1>2. Lines'
  BY <1>1, LinesStay DEF OInv
<1>3. Ordered'
  BY DEF OInv, Ordered, RelayedOnce, OriginOrder, ReplyAfterQuestion
<1>4. QED
  BY <1>1, <1>2, <1>3

(* A line is logged that is new.                                           *)
LEMMA AddedKeeps ==
  ASSUME OInv, Moves, NEW t \in Gateways, NEW line \in Line, Added(t, line),
         NewLine(t, line), Way' => LineInv(t, line)'
  PROVE  Way' /\ Lines' /\ Ordered'
<1>1. Way' /\ \A u \in Gateways : \A l \in Line : LineInv(u, l) => LineInv(u, l)'
  BY WayKept DEF OInv
<1>2. Lines'
  BY <1>1, LinesAdded DEF OInv
<1>3. Ordered'
  BY OrderedKept DEF OInv
<1>4. QED
  BY <1>1, <1>2, <1>3

(* A line is refused: an error may be logged, which is about no message.   *)
LEMMA LoseLogs ==
  ASSUME NEW g \in Gateways, NEW id \in 0..MaxEvents, Lose(g, id)
  PROVE  \/ log' = log
         \/ \E line \in Line : /\ Added(Console, line)
                               /\ \A t : NewLine(t, line) /\ LineInv(t, line)'
<1> DEFINE put == [kind |-> "error", id |-> id, from |-> g]
<1>1. put \in Line /\ put.kind = "error"
  BY DEF Line
<1>2. log' = log \/ Added(Console, put)
  BY DEF Lose, Put, Added
<1> HIDE DEF put
<1>3. \A t : NewLine(t, put) /\ LineInv(t, put)'
  BY <1>1 DEF NewLine, LineInv
<1>4. QED
  BY <1>1, <1>2, <1>3

LEMMA MainHandlersKeeps ==
  ASSUME OInv, NEW th \in Thread, MainHandlers(th)
  PROVE  Way' /\ Lines' /\ Ordered'
<1> DEFINE f == Top(th)
<1>1. stack[th] # <<>> /\ f.phase = "main" /\ UNCHANGED <<log, command, next>>
  BY DEF MainHandlers
<1>2. /\ f \in Frame /\ f.ev \in Event /\ f.gw \in Gateways
  BY <1>1, WhoseTop DEF OInv
<1>3. PICK e \in Frame : e.gw = f.gw /\ e.ev = f.ev /\ stack' = Replace(th, e)
  <2>1. CASE stack' = Replace(th, [f EXCEPT !.phase = "relay", !.todo = Audience(f.ev, f.gw)])
    <3>1. Audience(f.ev, f.gw) \subseteq Gateways
      BY <1>2, TargetAssumption DEF Audience, Event
    <3>2. [f EXCEPT !.phase = "relay", !.todo = Audience(f.ev, f.gw)] \in Frame
      BY <1>2, <3>1 DEF Frame
    <3>3. QED
      BY <1>2, <2>1, <3>2 DEF Frame
  <2>2. CASE stack' = Replace(th, [f EXCEPT !.phase = "done"])
    BY <1>2, <2>2 DEF Frame
  <2>3. QED
    BY <2>1, <2>2 DEF MainHandlers, Passes
<1>4. Later(f, e)
  BY <1>1, <1>3 DEF Later, Passed
<1> HIDE DEF f
<1>6. Moves
  BY <1>1, <1>3, <1>4, BaseReplaced, TopMoves DEF OInv, f
<1>7. QED
  BY <1>1, <1>6, MovesKeeps

LEMMA ReturnKeeps ==
  ASSUME OInv, NEW th \in Thread, Return(th)
  PROVE  Way' /\ Lines' /\ Ordered'
<1>1. PICK f : f = Top(th)
  OBVIOUS
<1>2. stack[th] # <<>> /\ UNCHANGED <<log, command, next>>
  BY DEF Return
<1>3. CASE stack' = [stack EXCEPT ![th] = Under(th)]
  <2>1. /\ \A t \in Thread : t # th => stack'[t] = stack[t]
        /\ stack'[th] # <<>> => stack'[th][1] = stack[th][1]
        /\ Len(stack[th]) = 1 => stack'[th] = <<>>
    BY <1>2, <1>3, BasePopped DEF OInv
  <2>2. Moves
    BY <2>1, <1>1, <1>2, LaterItself, TopMoves DEF OInv
  <2>3. QED
    BY <2>2, <1>2, MovesKeeps
<1>4. CASE f.ev.kind = "chat" /\ stack' = [stack EXCEPT ![th] = <<Fresh(f.gw, [f.ev EXCEPT !.kind = "trigger"])>>]
  <2>1. f \in Frame /\ f.ev \in Event /\ Len(stack[th]) = 1
    BY <1>1, <1>2, <1>4, WhoseTop DEF OInv
  <2> DEFINE e == Fresh(f.gw, [f.ev EXCEPT !.kind = "trigger"])
  <2>2. e.gw = f.gw /\ e.ev.kind = "trigger" /\ e.ev.id = f.ev.id
    BY <2>1 DEF Fresh, Event
  <2> HIDE DEF e
  <2>3. Later(f, e)
    BY <1>4, <2>2 DEF Later
  <2>4. \A t \in Thread : t # th => stack'[t] = stack[t]
    BY <1>4 DEF OInv, Inv, TypeOK
  <2>5. stack'[th] = <<e>>
    BY <1>4 DEF OInv, Inv, TypeOK, e
  <2>6. stack'[th][1] = e
    BY <2>5
  <2>7. Moves
    BY <2>1, <2>3, <2>4, <2>6, <1>1, <1>2, TopMoves DEF OInv
  <2>8. QED
    BY <2>7, <1>2, MovesKeeps
<1>5. QED
  BY <1>1, <1>3, <1>4 DEF Return, TriggerOf

LEMMA RelayToKeeps ==
  ASSUME OInv, NEW th \in Thread, RelayTo(th)
  PROVE  Way' /\ Lines' /\ Ordered'
<1>0. PICK f : f = Top(th)
  OBVIOUS
<1>1. stack[th] # <<>> /\ f.phase = "relay" /\ UNCHANGED <<command, next>>
  BY <1>0 DEF RelayTo
<1>2. PICK t \in f.todo :
        \/ /\ ~Full(t)
           /\ Put(t, [kind |-> f.ev.kind, id |-> f.ev.id, from |-> f.gw])
           /\ stack' = Copied(th, f, t)
        \/ /\ Full(t)
           /\ stack' = Refused(th, f, t)
           /\ UNCHANGED log
  BY <1>0 DEF RelayTo
<1>3. /\ f \in Frame /\ f.ev \in Event /\ f.gw \in Gateways /\ FrameInv(f, Len(stack[th]))
      /\ f.ev.kind \in {"chat", "trigger"} =>
           /\ Len(stack[th]) = 1 /\ f = stack[th][1] /\ th = <<f.gw, "loop">>
           /\ f.ev.id \in Id /\ f.ev.id < next
           /\ f.ev.kind = "chat" \/ f.phase # "done" => command[f.ev.id] = "none"
      /\ f.ev.kind = "say" =>
           /\ Len(stack[th]) = 1 /\ f = stack[th][1] /\ th = <<f.ev.id, "cmd">>
           /\ f.ev.id \in Id /\ command[f.ev.id] = "done"
  BY <1>0, <1>1, WhoseTop DEF OInv
<1>4. t \in Gateways /\ f.ev.kind \in {"chat", "say", "error"}
  BY <1>2, <1>3 DEF Frame, Event, FrameInv
<1> DEFINE left == [f EXCEPT !.todo = @ \ {t}]
           put == [kind |-> f.ev.kind, id |-> f.ev.id, from |-> f.gw]
<1>5. PICK e \in Frame : e = left /\ e.gw = f.gw /\ e.ev = f.ev /\ e.phase = f.phase /\ e.todo = f.todo \ {t}
  <2>1. left \in Frame /\ left.gw = f.gw /\ left.ev = f.ev /\ left.phase = f.phase /\ left.todo = f.todo \ {t}
    BY <1>3 DEF Frame
  <2> HIDE DEF left
  <2>2. QED
    BY <2>1
<1>6. PICK line \in Line : line = put /\ line.kind = f.ev.kind /\ line.id = f.ev.id /\ line.from = f.gw
  <2>1. put \in Line /\ put.kind = f.ev.kind /\ put.id = f.ev.id /\ put.from = f.gw
    BY <1>3, <1>4 DEF Line, Event
  <2> HIDE DEF put
  <2>2. QED
    BY <2>1
<1>7. Later(f, e) /\ Passed(e, t) /\ ~Passed(f, t)
  BY <1>1, <1>2, <1>5 DEF Later, Passed
<1>8. \/ Added(t, line) /\ stack' = Replace(th, e)
      \/ UNCHANGED log /\ stack' = [Replace(th, e) EXCEPT ![th] = Append(@, Fresh(t, Error(f.ev.id)))]
  BY <1>2, <1>5, <1>6 DEF Put, Added, Copied, Refused, Advance
<1>9. Fresh(t, Error(f.ev.id)) \in Frame
  <2>1. f.ev.id \in 0..MaxEvents
    BY <1>3 DEF Event
  <2>2. QED
    BY <2>1, <1>4, ErrorEvent, NewFrames
<1>10. /\ \A u \in Thread : u # th => stack'[u] = stack[u]
       /\ stack'[th] # <<>> /\ stack'[th][1] = IF Len(stack[th]) = 1 THEN e ELSE stack[th][1]
  <2>1. CASE stack' = Replace(th, e)
    BY <2>1, <1>1, <1>5, BaseReplaced DEF OInv
  <2>2. CASE stack' = [Replace(th, e) EXCEPT ![th] = Append(@, Fresh(t, Error(f.ev.id)))]
    BY <2>2, <1>1, <1>5, <1>9, BasePushed DEF OInv
  <2>3. QED
    BY <1>8, <2>1, <2>2
<1>11. Moves
  BY <1>0, <1>1, <1>7, <1>10, TopMoves DEF OInv
<1>12. CASE UNCHANGED log
  BY <1>11, <1>12, MovesKeeps
<1>13. CASE Added(t, line)
  <2>1. ASSUME NEW k \in DOMAIN log[t] PROVE LineInv(t, log[t][k])
    BY <1>4 DEF OInv, Lines
  <2>2. CASE f.ev.kind = "error"
    <3>1. NewLine(t, line) /\ LineInv(t, line)'
      BY <2>2, <1>6 DEF NewLine, LineInv
    <3>2. QED
      BY <3>1, <1>4, <1>6, <1>11, <1>13, AddedKeeps
  <2>3. CASE f.ev.kind = "chat"
    <3>1. /\ Base(<<f.gw, "loop">>) = f /\ stack[<<f.gw, "loop">>] # <<>>
          /\ f.ev.id \in Id /\ f.ev.id < next /\ command[f.ev.id] = "none"
      BY <2>3, <1>1, <1>3 DEF Base
    <3>2. stack'[<<f.gw, "loop">>] # <<>> /\ stack'[<<f.gw, "loop">>][1] = e
      BY <2>3, <1>3, <1>10
    <3>3. ASSUME NEW k \in DOMAIN log[t], NEW l, l = log[t][k]
          PROVE  /\ l.kind = "chat" => l.id # f.ev.id /\ (l.from = f.gw => l.id < f.ev.id)
                 /\ l.kind \in {"say", "reply"} => l.id # f.ev.id
      <4>1. LineInv(t, l)
        BY <2>1, <3>3
      <4>2. ASSUME l.kind = "chat" PROVE l.id # f.ev.id /\ (l.from = f.gw => l.id <= f.ev.id)
        BY <4>1, <4>2, <3>1, <2>3, <1>3, <1>7 DEF LineInv, ChatLine
      <4>3. ASSUME l.kind \in {"say", "reply"} PROVE l.id # f.ev.id
        BY <4>1, <4>3, <3>1 DEF LineInv, AnswerLine
      <4>4. l \in Line
        BY <3>3, <1>4 DEF OInv, Inv, TypeOK
      <4>5. l.id \in Nat /\ f.ev.id \in Nat
        BY <4>4, <3>1, BoundAssumption DEF Line, Id
      <4>6. QED
        BY <4>2, <4>3, <4>5
    <3>4. NewLine(t, line)
      BY <2>3, <3>3, <1>6 DEF NewLine
    <3>5. ASSUME Way' PROVE LineInv(t, line)'
      <4>1. ASSUME NEW g \in Gateways, stack'[<<g, "loop">>] # <<>>, NEW d, d = stack'[<<g, "loop">>][1]
            PROVE  /\ line.id = d.ev.id => g = line.from /\ (d.ev.kind = "trigger" \/ Passed(d, t))
                   /\ g = line.from => line.id <= d.ev.id
        <5>1. g = f.gw => d = e
          BY <4>1, <3>2
        <5>2. d.ev.id = e.ev.id => g = f.gw
          BY <4>1, <3>2, <3>5, <1>3 DEF Way, Loops, Base
        <5>3. line.id <= e.ev.id
          BY <3>1, <1>5, <1>6, BoundAssumption DEF Id
        <5>4. QED
          BY <5>1, <5>2, <5>3, <1>5, <1>6, <1>7
      <4>2. line.id < next'
        BY <3>1, <1>1, <1>6
      <4>3. QED
        BY <4>1, <4>2, <2>3, <1>6 DEF LineInv, ChatLine, Base, Passed
    <3>6. QED
      BY <3>4, <3>5, <1>4, <1>6, <1>11, <1>13, AddedKeeps
  <2>4. CASE f.ev.kind = "say"
    <3>1. /\ Base(<<f.ev.id, "cmd">>) = f /\ stack[<<f.ev.id, "cmd">>] # <<>>
          /\ f.ev.id \in Id /\ command[f.ev.id] = "done"
      BY <2>4, <1>1, <1>3 DEF Base
    <3>2. stack'[<<f.ev.id, "cmd">>] # <<>> /\ stack'[<<f.ev.id, "cmd">>][1] = e
      BY <2>4, <1>3, <1>10
    <3>3. ASSUME NEW k \in DOMAIN log[t], NEW l, l = log[t][k], l.kind = "say"
          PROVE  l.id # f.ev.id
      <4>1. LineInv(t, l)
        BY <2>1, <3>3
      <4>2. QED
        BY <4>1, <3>1, <3>3, <1>7 DEF LineInv, AnswerLine
    <3>4. NewLine(t, line)
      BY <2>4, <3>3, <1>6 DEF NewLine
    <3>5. LineInv(t, line)'
      <4>1. command' = command
        BY <1>1
      <4>2. QED
        BY <4>1, <2>4, <3>1, <3>2, <1>6, <1>7 DEF LineInv, AnswerLine, Base, Passed
    <3>6. QED
      BY <3>4, <3>5, <1>4, <1>6, <1>11, <1>13, AddedKeeps
  <2>5. QED
    BY <1>4, <2>2, <2>3, <2>4
<1>14. QED
  BY <1>8, <1>12, <1>13

LEMMA LocalHandlersKeeps ==
  ASSUME OInv, NEW th \in Thread, LocalHandlers(th)
  PROVE  Way' /\ Lines' /\ Ordered'
<1>0. PICK f : f = Top(th)
  OBVIOUS
<1>1. /\ stack[th] # <<>> /\ f.phase = "relay" /\ f.todo = {} /\ next' = next
      /\ \/ AutoKick(f) /\ stack' = Replace(th, [f EXCEPT !.phase = "done"])
         \/ NoKick(f) /\ stack' = Replace(th, [f EXCEPT !.phase = "done"])
         \/ NoKick(f) /\ stack' = Replace(th, TriggerOf(f)) /\ f.ev.kind = "chat"
      /\ command' = IF f.ev.kind = "trigger" THEN [command EXCEPT ![f.ev.id] = f.gw] ELSE command
  BY <1>0 DEF LocalHandlers, Asks
<1>2. /\ f \in Frame /\ f.ev \in Event /\ f.gw \in Gateways
      /\ f.ev.kind \in {"chat", "trigger"} =>
           /\ Len(stack[th]) = 1 /\ f = stack[th][1] /\ th = <<f.gw, "loop">>
           /\ f.ev.id \in Id /\ f.ev.id < next
           /\ f.ev.kind = "chat" \/ f.phase # "done" => command[f.ev.id] = "none"
  BY <1>0, <1>1, WhoseTop DEF OInv
<1>3. PICK e \in Frame : /\ stack' = Replace(th, e) /\ e.ev.id = f.ev.id /\ Later(f, e)
                         /\ f.ev.kind = "trigger" => e.ev.kind = "trigger" /\ e.phase = "done"
                         /\ (AutoKick(f) /\ e.phase = "done") \/ NoKick(f)
  <2> DEFINE finished == [f EXCEPT !.phase = "done"]
             trigger == TriggerOf(f)
  <2>1. finished \in Frame /\ finished.gw = f.gw /\ finished.ev = f.ev /\ finished.phase = "done" /\ finished.todo = f.todo
    BY <1>2 DEF Frame
  <2>2. f.ev.kind = "chat" => /\ trigger \in Frame /\ trigger.gw = f.gw
                              /\ trigger.ev.id = f.ev.id /\ trigger.ev.kind = "trigger"
    <3>1. f.ev.kind = "chat" => [f.ev EXCEPT !.kind = "trigger"] \in Event
      BY <1>2 DEF Event
    <3>2. QED
      BY <3>1, <1>2, NewFrames DEF TriggerOf, Event
  <2>3. \/ AutoKick(f) /\ stack' = Replace(th, finished)
        \/ NoKick(f) /\ stack' = Replace(th, finished)
        \/ NoKick(f) /\ stack' = Replace(th, trigger) /\ f.ev.kind = "chat"
    BY <1>1
  <2> HIDE DEF finished, trigger
  <2>4. Later(f, finished)
    BY <2>1, <1>1 DEF Later, Passed
  <2>5. f.ev.kind = "chat" => Later(f, trigger)
    BY <2>2 DEF Later
  <2>6. CASE stack' = Replace(th, finished) /\ (AutoKick(f) \/ NoKick(f))
    BY <2>1, <2>4, <2>6
  <2>7. CASE NoKick(f) /\ stack' = Replace(th, trigger) /\ f.ev.kind = "chat"
    BY <2>2, <2>5, <2>7
  <2>8. QED
    BY <2>3, <2>6, <2>7
<1>5. /\ \A u \in Thread : u # th => stack'[u] = stack[u]
      /\ stack'[th] # <<>> /\ stack'[th][1] = IF Len(stack[th]) = 1 THEN e ELSE stack[th][1]
  BY <1>1, <1>3, BaseReplaced DEF OInv
<1>6. \A i \in Id : command'[i] = command[i] \/ Begins(i)
  <2>1. CASE f.ev.kind # "trigger"
    BY <2>1, <1>1
  <2>2. CASE f.ev.kind = "trigger"
    <3>1. \A i \in Id : i # f.ev.id => command'[i] = command[i]
      BY <2>2, <1>1 DEF OInv, Inv, TypeOK
    <3>2. /\ command[f.ev.id] = "none" /\ command'[f.ev.id] \in Gateways
          /\ f.ev.id < next /\ f.ev.id \in Id
      BY <2>2, <1>1, <1>2 DEF OInv, Inv, TypeOK
    <3>3. ASSUME NEW g \in Gateways, stack'[<<g, "loop">>] # <<>>, stack'[<<g, "loop">>][1].ev.id = f.ev.id
          PROVE  stack'[<<g, "loop">>][1] = e
      <4>1. CASE g = f.gw
        BY <4>1, <2>2, <1>2, <1>5
      <4>2. CASE g # f.gw
        <5>1. stack'[<<g, "loop">>] = stack[<<g, "loop">>]
          BY <4>2, <2>2, <1>2, <1>5 DEF Thread
        <5>2. stack[<<f.gw, "loop">>] # <<>> /\ stack[<<f.gw, "loop">>][1] = f
          BY <2>2, <1>1, <1>2
        <5>3. QED
          BY <5>1, <5>2, <4>2, <3>3, <1>2 DEF OInv, Way, Loops, Base
      <4>3. QED
        BY <4>1, <4>2
    <3>4. Begins(f.ev.id)
      BY <3>2, <3>3, <2>2, <1>3 DEF Begins
    <3>5. QED
      BY <3>1, <3>4
  <2>3. QED
    BY <2>1, <2>2
<1>7. Moves
  BY <1>0, <1>1, <1>3, <1>5, <1>6, TopMoves DEF OInv
<1> DEFINE put == [kind |-> "kick", id |-> f.ev.id, from |-> f.gw]
<1>8. PICK line \in Line : line = put /\ line.kind = "kick" /\ line.id = f.ev.id
  <2>1. put \in Line /\ put.kind = "kick" /\ put.id = f.ev.id
    BY <1>2 DEF Line, Event
  <2> HIDE DEF put
  <2>2. QED
    BY <2>1
<1>9. CASE log' = log
  BY <1>7, <1>9, MovesKeeps
<1>10. CASE f.ev.kind = "chat" /\ e.phase = "done" /\ Added(f.gw, line)
  <2>1. Base(<<f.gw, "loop">>) = f /\ stack[<<f.gw, "loop">>] # <<>> /\ f.ev.id < next
    BY <1>1, <1>2, <1>10 DEF Base
  <2>2. ASSUME NEW k \in DOMAIN log[f.gw], NEW l, l = log[f.gw][k], l.kind = "kick"
        PROVE  l.id # f.ev.id
    <3>1. LineInv(f.gw, l)
      BY <2>2, <1>2 DEF OInv, Lines
    <3>2. QED
      BY <3>1, <2>1, <2>2, <1>1, <1>2, <1>10 DEF LineInv, KickLine
  <2>3. NewLine(f.gw, line)
    BY <2>2, <1>8 DEF NewLine
  <2>4. ASSUME Way' PROVE LineInv(f.gw, line)'
    <3>1. ASSUME NEW g \in Gateways, stack'[<<g, "loop">>] # <<>>, NEW d, d = stack'[<<g, "loop">>][1],
                 line.id = d.ev.id
          PROVE  d.phase = "done"
      <4>1. stack'[<<f.gw, "loop">>] # <<>> /\ stack'[<<f.gw, "loop">>][1] = e
        BY <1>2, <1>5, <1>10
      <4>2. d.ev.id = e.ev.id
        BY <3>1, <1>3, <1>8
      <4>3. g = f.gw
        BY <4>1, <4>2, <3>1, <2>4, <1>2 DEF Way, Loops, Base
      <4>4. QED
        BY <4>1, <4>3, <3>1, <1>10
    <3>2. line.id < next'
      BY <2>1, <1>1, <1>8
    <3>3. QED
      BY <3>1, <3>2, <1>8 DEF LineInv, KickLine, Base
  <2>5. QED
    BY <2>3, <2>4, <1>2, <1>7, <1>10, AddedKeeps
<1>11. CASE Lose(f.gw, f.ev.id)
  <2>1. f.ev.id \in 0..MaxEvents
    BY <1>2 DEF Event
  <2>2. PICK l \in Line : log' = log \/ (Added(Console, l) /\ NewLine(Console, l) /\ LineInv(Console, l)')
    BY <2>1, <1>2, <1>8, <1>11, LoseLogs
  <2>3. QED
    BY <2>2, <1>7, <1>9, AddedKeeps, ConsoleAssumption
<1>12. \/ log' = log
       \/ f.ev.kind = "chat" /\ e.phase = "done" /\ Added(f.gw, line)
       \/ Lose(f.gw, f.ev.id)
  BY <1>3, <1>8 DEF AutoKick, NoKick, Put, Added
<1>13. QED
  BY <1>9, <1>10, <1>11, <1>12

LEMMA ReplyKeeps ==
  ASSUME OInv, NEW i \in Id, Reply(i)
  PROVE  Way' /\ Lines' /\ Ordered'
<1>1. PICK g \in Gateways : g = command[i]
  BY DEF Reply
<1>2. g # "none" /\ g # "done"
  BY NameAssumption
<1>3. next' = next /\ command' = [command EXCEPT ![i] = "done"] /\ next \in Nat /\ i \in Nat
  BY BoundAssumption DEF Reply, OInv, Inv, TypeOK, Id
<1>4. /\ command'[i] = "done" /\ \A j \in Id : j # i => command'[j] = command[j]
  BY <1>3 DEF OInv, Inv, TypeOK
<1> DEFINE ev == [kind |-> "say", id |-> i, level |-> 0, text |-> "talk"]
           put == [kind |-> "reply", id |-> i, from |-> g]
<1>5. /\ \A h \in Gateways : /\ stack'[<<h, "loop">>] = stack[<<h, "loop">>]
                             /\ stack'[<<h, "drain">>] = stack[<<h, "drain">>]
      /\ \A j \in Id : j # i => stack'[<<j, "cmd">>] = stack[<<j, "cmd">>]
      /\ stack'[<<i, "cmd">>] = stack[<<i, "cmd">>] \/ stack'[<<i, "cmd">>] = <<Fresh(g, ev)>>
  <2>1. stack' = stack \/ stack' = [stack EXCEPT ![<<i, "cmd">>] = <<Fresh(g, ev)>>]
    BY <1>1 DEF Reply
  <2>2. stack \in [Thread -> Seq(Frame)]
    BY DEF OInv, Inv, TypeOK
  <2>3. QED
    BY <2>1, <2>2 DEF Thread
<1>6. stack[<<i, "cmd">>] = <<>>
  BY <1>1, <1>2 DEF OInv, Way, Answers
<1>7. stack'[<<i, "cmd">>] # <<>> => stack'[<<i, "cmd">>][1].ev.kind = "say" /\ stack'[<<i, "cmd">>][1].ev.id = i
  BY <1>5, <1>6 DEF Fresh
<1>8. Loops'
  <2> DEFINE Fine(d, h) ==
        /\ d.ev.kind \in {"chat", "trigger"} /\ d.gw = h
        /\ d.ev.id \in Id /\ d.ev.id < next'
        /\ d.ev.kind = "chat" \/ d.phase # "done" => command'[d.ev.id] = "none"
  <2>1. ASSUME NEW h \in Gateways, stack[<<h, "loop">>] # <<>>
        PROVE  Fine(stack[<<h, "loop">>][1], h)
    <3>1. PICK d : d = stack[<<h, "loop">>][1]
      OBVIOUS
    <3>2. /\ d.ev.kind \in {"chat", "trigger"} /\ d.gw = h
          /\ d.ev.id \in Id /\ d.ev.id < next
          /\ d.ev.kind = "chat" \/ d.phase # "done" => command[d.ev.id] = "none"
      BY <2>1, <3>1 DEF OInv, Way, Loops, Base
    <3>3. Fine(d, h)
      BY <3>2, <1>1, <1>2, <1>3, <1>4
    <3>4. QED
      BY <3>1, <3>3
  <2>2. \A h, j \in Gateways :
          /\ stack[<<h, "loop">>] # <<>> /\ stack[<<j, "loop">>] # <<>>
          /\ stack[<<h, "loop">>][1].ev.id = stack[<<j, "loop">>][1].ev.id
          => h = j
    BY DEF OInv, Way, Loops, Base
  <2>3. ASSUME NEW h \in Gateways, stack'[<<h, "loop">>] # <<>>
        PROVE  Fine(stack'[<<h, "loop">>][1], h)
    <3> HIDE DEF Fine
    <3>1. stack'[<<h, "loop">>] = stack[<<h, "loop">>]
      BY <1>5
    <3>2. QED
      BY <2>1, <2>3, <3>1
  <2>4. \A h, j \in Gateways :
          /\ stack'[<<h, "loop">>] # <<>> /\ stack'[<<j, "loop">>] # <<>>
          /\ stack'[<<h, "loop">>][1].ev.id = stack'[<<j, "loop">>][1].ev.id
          => h = j
    BY <2>2, <1>5, Zenon
  <2>5. QED
    BY <2>3, <2>4 DEF Loops, Base
<1>9. Drains'
  BY <1>5 DEF OInv, Way, Drains, Base
<1>10. Answers'
  <2>1. ASSUME NEW j \in Id, stack'[<<j, "cmd">>] # <<>>
        PROVE  /\ stack'[<<j, "cmd">>][1].ev.kind = "say" /\ stack'[<<j, "cmd">>][1].ev.id = j
               /\ command'[j] = "done"
    <3>1. CASE j = i
      BY <2>1, <3>1, <1>4, <1>7
    <3>2. CASE j # i
      BY <2>1, <3>2, <1>4, <1>5 DEF OInv, Way, Answers, Base
    <3>3. QED
      BY <3>1, <3>2
  <2>2. QED
    BY <2>1 DEF Answers, Base
<1>11. Commands'
  <2>1. ~(i >= next)
    BY <1>1, <1>2 DEF OInv, Way, Commands
  <2>2. \A j \in Id : j >= next => j # i /\ command[j] = "none"
    BY <2>1 DEF OInv, Way, Commands
  <2>3. QED
    BY <2>2, <1>3, <1>4 DEF Commands
<1>12. ASSUME NEW t \in Gateways, NEW l \in Line, LineInv(t, l) PROVE LineInv(t, l)'
  <2>1. ASSUME l.kind = "chat" PROVE ChatLine(t, l)'
    BY <1>12, <2>1, <1>3, <1>5 DEF LineInv, ChatLine, Base, Passed
  <2>2. ASSUME l.kind = "kick" PROVE KickLine(l)'
    BY <1>12, <2>2, <1>3, <1>5 DEF LineInv, KickLine, Base
  <2>3. ASSUME l.kind \in {"say", "reply"} PROVE AnswerLine(t, l)'
    <3>1. AnswerLine(t, l) /\ l.id # i /\ l.id \in Id
      BY <1>12, <2>3, <1>1, <1>2 DEF LineInv, AnswerLine
    <3>2. QED
      BY <3>1, <1>4, <1>5 DEF AnswerLine, Base, Passed
  <2>4. QED
    BY <2>1, <2>2, <2>3 DEF LineInv
<1>13. CASE log' = log
  <2>1. Lines'
    BY <1>12, <1>13, LinesStay DEF OInv
  <2>2. Ordered'
    BY <1>13 DEF OInv, Ordered, RelayedOnce, OriginOrder, ReplyAfterQuestion
  <2>3. QED
    BY <2>1, <2>2, <1>8, <1>9, <1>10, <1>11 DEF Way
<1>14. CASE log' = [log EXCEPT ![g] = Append(@, put)]
  <2>1. PICK line \in Line : line = put /\ line.kind = "reply" /\ line.id = i
    <3>1. put \in Line /\ put.kind = "reply" /\ put.id = i
      BY <1>3, BoundAssumption DEF Line, Id
    <3> HIDE DEF put
    <3>2. QED
      BY <3>1
  <2>2. Added(g, line)
    BY <1>14, <2>1 DEF Added
  <2>3. ASSUME NEW k \in DOMAIN log[g], NEW l, l = log[g][k], l.kind = "reply"
        PROVE  l.id # i
    <3>1. LineInv(g, l)
      BY <2>3 DEF OInv, Lines
    <3>2. QED
      BY <3>1, <2>3, <1>1, <1>2 DEF LineInv, AnswerLine
  <2>4. NewLine(g, line)
    BY <2>1, <2>3 DEF NewLine
  <2>5. LineInv(g, line)'
    BY <2>1, <1>4 DEF LineInv, AnswerLine
  <2>6. Lines' /\ Ordered'
    BY <2>2, <2>4, <2>5, <1>12, LinesAdded, OrderedKept DEF OInv
  <2>7. QED
    BY <2>6, <1>8, <1>9, <1>10, <1>11 DEF Way
<1>15. CASE Lose(g, i)
  <2>1. i \in 0..MaxEvents
    BY BoundAssumption DEF Id
  <2>2. CASE log' = log
    BY <1>13, <2>2
  <2>3. CASE \E line \in Line : Added(Console, line) /\ \A t : NewLine(t, line) /\ LineInv(t, line)'
    <3>1. PICK line \in Line : Added(Console, line) /\ NewLine(Console, line) /\ LineInv(Console, line)'
      BY <2>3
    <3>2. Lines' /\ Ordered'
      BY <3>1, <1>12, LinesAdded, OrderedKept, ConsoleAssumption DEF OInv
    <3>3. QED
      BY <3>2, <1>8, <1>9, <1>10, <1>11 DEF Way
  <2>4. QED
    BY <2>1, <2>2, <2>3, <1>15, LoseLogs
<1>16. Lose(g, i) \/ log' = [log EXCEPT ![g] = Append(@, put)]
  BY <1>1 DEF Reply, Put
<1>17. QED
  BY <1>14, <1>15, <1>16

LEMMA DrainFailsKeeps ==
  ASSUME OInv, NEW g \in Gateways, DrainFails(g)
  PROVE  Way' /\ Lines' /\ Ordered'
<1> DEFINE h == Fresh(g, Error(0))
<1>1. /\ UNCHANGED <<log, command, next>>
      /\ stack' = [stack EXCEPT ![<<g, "drain">>] = <<h>>] \/ UNCHANGED stack
  BY DEF DrainFails
<1>2. h.ev.kind = "error"
  BY DEF Fresh, Error
<1> HIDE DEF h
<1>3. stack \in [Thread -> Seq(Frame)] /\ <<g, "drain">> \in Thread
  BY DEF OInv, Inv, TypeOK, Thread
<1>4. /\ \A t \in Gateways : stack'[<<t, "loop">>] = stack[<<t, "loop">>]
      /\ \A i \in Id : stack'[<<i, "cmd">>] = stack[<<i, "cmd">>]
      /\ \A t \in Gateways : stack'[<<t, "drain">>] \in {<<h>>, stack[<<t, "drain">>]}
  BY <1>1, <1>3 DEF Thread
<1>5. Loops'
  BY <1>1, <1>4 DEF OInv, Way, Loops, Base
<1>6. Drains'
  BY <1>2, <1>4 DEF OInv, Way, Drains, Base
<1>7. Answers'
  BY <1>1, <1>4 DEF OInv, Way, Answers, Base
<1>8. Commands'
  BY <1>1 DEF OInv, Way, Commands
<1>9. \A t \in Gateways : \A l \in Line : LineInv(t, l) => LineInv(t, l)'
  <2>1. ASSUME NEW t \in Gateways, NEW l \in Line, LineInv(t, l) PROVE LineInv(t, l)'
    <3>1. l.kind = "chat" => ChatLine(t, l)'
      BY <2>1, <1>1, <1>4 DEF LineInv, ChatLine, Base, Passed
    <3>2. l.kind = "kick" => KickLine(l)'
      BY <2>1, <1>1, <1>4 DEF LineInv, KickLine, Base
    <3>3. l.kind \in {"say", "reply"} => AnswerLine(t, l)'
      BY <2>1, <1>1, <1>4 DEF LineInv, AnswerLine, Base, Passed
    <3>4. QED
      BY <3>1, <3>2, <3>3 DEF LineInv
  <2>2. QED
    BY <2>1
<1>10. Lines'
  BY <1>1, <1>9, LinesStay DEF OInv
<1>11. Ordered'
  BY <1>1 DEF OInv, Ordered, RelayedOnce, OriginOrder, ReplyAfterQuestion
<1>12. QED
  BY <1>5, <1>6, <1>7, <1>8, <1>10, <1>11 DEF Way

LEMMA StillKeeps ==
  ASSUME OInv, UNCHANGED <<stack, log, command, next>>
  PROVE  Way' /\ Lines' /\ Ordered'
<1>1. Moves
  BY LaterItself DEF Moves, GoesOn
<1>2. QED
  BY <1>1, MovesKeeps

LEMMA OInvNext == OInv /\ [Next]_vars => OInv'
<1> SUFFICES ASSUME OInv, [Next]_vars PROVE OInv'
  OBVIOUS
<1>1. Inv'
  BY InvNext DEF OInv
<1>2. ASSUME NEW g \in Gateways, FireChat(g) PROVE Way' /\ Lines' /\ Ordered'
  BY <1>2, FireChatKeeps
<1>3. ASSUME NEW th \in Thread, Dispatch(th) PROVE Way' /\ Lines' /\ Ordered'
  BY <1>3, MainHandlersKeeps, RelayToKeeps, LocalHandlersKeeps, ReturnKeeps DEF Dispatch
<1>4. ASSUME NEW i \in Id, Reply(i) PROVE Way' /\ Lines' /\ Ordered'
  BY <1>4, ReplyKeeps
<1>5. ASSUME NEW g \in Gateways, Drain(g) PROVE Way' /\ Lines' /\ Ordered'
  BY <1>5, StillKeeps DEF Drain
<1>6. ASSUME NEW g \in Gateways, DrainFails(g) PROVE Way' /\ Lines' /\ Ordered'
  BY <1>6, DrainFailsKeeps
<1>7. ASSUME UNCHANGED vars PROVE Way' /\ Lines' /\ Ordered'
  <2>1. UNCHANGED <<stack, log, command, next>>
    BY <1>7 DEF vars
  <2>2. QED
    BY <2>1, StillKeeps
<1>8. Way' /\ Lines' /\ Ordered'
  BY <1>2, <1>3, <1>4, <1>5, <1>6, <1>7, Zenon DEF Next
<1>9. QED
  BY <1>1, <1>8 DEF OInv

LEMMA OInvHolds == Spec => []OInv
BY OInvInit, OInvNext, PTL DEF Spec

(* No echo and no duplicate, whatever the relays are: though they run in   *)
(* both directions, a line is not fired again where it is copied to, and   *)
(* no gateway is given a chat, an answer or a kick twice.                  *)
THEOREM RelayNoEcho == Spec => []RelayedOnce
<1>1. OInv => RelayedOnce
  BY DEF OInv, Ordered
<1>2. QED
  BY <1>1, OInvHolds, PTL

(* The chat of one gateway arrives on another in the order it was received *)
(* in, as its read loop returns from Fire before it takes the next.        *)
THEOREM RelayInOrder == Spec => []OriginOrder
<1>1. OInv => OriginOrder
  BY DEF OInv, Ordered
<1>2. QED
  BY <1>1, OInvHolds, PTL

(* execTrigger runs after the relays, and its goroutine answers later: the *)
(* answer is behind the command on every gateway that is shown both.       *)
THEOREM RelayAnswersLast == Spec => []ReplyAfterQuestion
<1>1. OInv => ReplyAfterQuestion
  BY DEF OInv, Ordered
<1>2. QED
  BY <1>1, OInvHolds, PTL

-----------------------------------------------------------------------------
(* What is lost and not yet reported.  An error that is fired is owed to   *)
(* the console until its call has come to the relay that goes there.       *)

Owed(f, g) ==
  /\ f.ev.kind = "error" /\ f.gw = g
  /\ f.phase = "main" \/ (f.phase = "relay" /\ Console \in f.todo)

Pending(g) == {p \in Thread \X Nat : p[2] \in DOMAIN stack[p[1]] /\ Owed(stack[p[1]][p[2]], g)}

Balance(g) ==
  /\ IsFiniteSet(ErrorLines(g)) /\ IsFiniteSet(Pending(g))
  /\ dropped[g] = Cardinality(ErrorLines(g)) + Cardinality(Pending(g)) + excused[g]

Reporting == {g \in Gateways : Console \in LogTo[g]}

Balanced == \A g \in Reporting : Balance(g)

LEMMA AddOne ==
  ASSUME NEW S, IsFiniteSet(S), NEW x, x \notin S
  PROVE  /\ IsFiniteSet(S) /\ Cardinality(S) \in Nat
         /\ IsFiniteSet(S \cup {x}) /\ Cardinality(S \cup {x}) = Cardinality(S) + 1
  BY FS_AddElement, FS_CardinalityType

(* What a step does to the lines at the console, and to the errors owed.   *)
Silent(g) == ErrorLines(g)' = ErrorLines(g)
More(g) == \E x : x \notin ErrorLines(g) /\ ErrorLines(g)' = ErrorLines(g) \cup {x}
Kept(g) == Pending(g)' = Pending(g)
Paid(g) == \E x : x \in Pending(g) /\ Pending(g)' = Pending(g) \ {x}
Fired(g) == \E x : x \notin Pending(g) /\ Pending(g)' = Pending(g) \cup {x}

(* Nothing changes; what was owed is reported or excused; an error is      *)
(* fired; or a line is lost that is reported or excused at once.           *)
LEMMA BalanceKept ==
  ASSUME NEW g \in Gateways, Balance(g), dropped[g] \in Nat, excused[g] \in Nat,
         \/ Silent(g) /\ Kept(g) /\ dropped'[g] = dropped[g] /\ excused'[g] = excused[g]
         \/ More(g) /\ Paid(g) /\ dropped'[g] = dropped[g] /\ excused'[g] = excused[g]
         \/ Silent(g) /\ Paid(g) /\ dropped'[g] = dropped[g] /\ excused'[g] = excused[g] + 1
         \/ Silent(g) /\ Fired(g) /\ dropped'[g] = dropped[g] + 1 /\ excused'[g] = excused[g]
         \/ More(g) /\ Kept(g) /\ dropped'[g] = dropped[g] + 1 /\ excused'[g] = excused[g]
         \/ Silent(g) /\ Kept(g) /\ dropped'[g] = dropped[g] + 1 /\ excused'[g] = excused[g] + 1
  PROVE  Balance(g)'
<1>1. PICK S, T, U, V : S = ErrorLines(g) /\ T = Pending(g) /\ U = ErrorLines(g)' /\ V = Pending(g)'
  OBVIOUS
<1>2. IsFiniteSet(S) /\ IsFiniteSet(T) /\ dropped[g] = Cardinality(S) + Cardinality(T) + excused[g]
  BY <1>1 DEF Balance
<1>3. Cardinality(S) \in Nat /\ Cardinality(T) \in Nat
  BY <1>2, FS_CardinalityType
<1>4. SUFFICES IsFiniteSet(U) /\ IsFiniteSet(V) /\ dropped'[g] = Cardinality(U) + Cardinality(V) + excused'[g]
  BY <1>1 DEF Balance
<1>5. More(g) => IsFiniteSet(U) /\ Cardinality(U) = Cardinality(S) + 1
  BY <1>1, <1>2, AddOne DEF More
<1>6. Silent(g) => U = S
  BY <1>1 DEF Silent
<1>7. Fired(g) => IsFiniteSet(V) /\ Cardinality(V) = Cardinality(T) + 1
  BY <1>1, <1>2, AddOne DEF Fired
<1>8. Kept(g) => V = T
  BY <1>1 DEF Kept
<1>9. Paid(g) => IsFiniteSet(V) /\ Cardinality(V) = Cardinality(T) - 1
  <2>1. ASSUME Paid(g) PROVE IsFiniteSet(V) /\ Cardinality(V) = Cardinality(T) - 1
    <3>1. PICK x : x \in T /\ V = T \ {x}
      BY <2>1, <1>1 DEF Paid
    <3>2. QED
      BY <3>1, <1>2, FS_RemoveElement
  <2>2. QED
    BY <2>1
<1>10. IsFiniteSet(U) /\ IsFiniteSet(V)
  BY <1>2, <1>5, <1>6, <1>7, <1>8, <1>9
<1>11. QED
  BY <1>2, <1>3, <1>5, <1>6, <1>7, <1>8, <1>9, <1>10

(* The lines at the console.                                               *)
LEMMA ErrorAdded ==
  ASSUME Inv, NEW line \in Line, Added(Console, line), line.kind = "error", NEW g \in Gateways, line.from = g
  PROVE  More(g)
<1>1. PICK q \in Seq(Line) : q = log[Console]
  BY ConsoleAssumption DEF Inv, TypeOK
<1>2. log'[Console] = Append(q, line)
  BY <1>1, ConsoleAssumption DEF Added, Inv, TypeOK
<1>3. /\ DOMAIN Append(q, line) = DOMAIN q \cup {Len(q) + 1} /\ Len(q) + 1 \notin DOMAIN q
      /\ Append(q, line)[Len(q) + 1] = line
      /\ \A k \in DOMAIN q : Append(q, line)[k] = q[k]
  OBVIOUS
<1>4. Len(q) + 1 \notin ErrorLines(g)
  BY <1>1, <1>3 DEF ErrorLines
<1>5. ErrorLines(g)' = ErrorLines(g) \cup {Len(q) + 1}
  BY <1>1, <1>2, <1>3 DEF ErrorLines
<1>6. QED
  BY <1>4, <1>5 DEF More

LEMMA OtherAdded ==
  ASSUME Inv, NEW t \in Gateways, NEW line \in Line, Added(t, line), NEW g \in Gateways,
         t # Console \/ line.kind # "error" \/ line.from # g
  PROVE  Silent(g)
<1>1. CASE t # Console
  <2>1. log'[Console] = log[Console]
    BY <1>1, ConsoleAssumption DEF Added, Inv, TypeOK
  <2>2. QED
    BY <2>1 DEF ErrorLines, Silent
<1>2. CASE t = Console
  <2>1. PICK q \in Seq(Line) : q = log[Console]
    BY ConsoleAssumption DEF Inv, TypeOK
  <2>2. log'[Console] = Append(q, line)
    BY <2>1, <1>2, ConsoleAssumption DEF Added, Inv, TypeOK
  <2>3. /\ DOMAIN Append(q, line) = DOMAIN q \cup {Len(q) + 1} /\ Len(q) + 1 \notin DOMAIN q
        /\ Append(q, line)[Len(q) + 1] = line
        /\ \A k \in DOMAIN q : Append(q, line)[k] = q[k]
    OBVIOUS
  <2>4. QED
    BY <2>1, <2>2, <2>3, <1>2 DEF ErrorLines, Silent
<1>3. QED
  BY <1>1, <1>2

(* The calls of one goroutine change.                                      *)
Owes(th, k, g) == k \in DOMAIN stack[th] /\ Owed(stack[th][k], g)

LEMMA PendingOf ==
  ASSUME NEW g, NEW th \in Thread, \A u \in Thread : u # th => stack'[u] = stack[u]
  PROVE  /\ (\A k \in Nat : Owes(th, k, g)' <=> Owes(th, k, g)) => Kept(g)
         /\ \A n \in Nat :
              /\ Owes(th, n, g) /\ (\A k \in Nat : Owes(th, k, g)' <=> Owes(th, k, g) /\ k # n)
                   => Paid(g)
              /\ ~Owes(th, n, g) /\ (\A k \in Nat : Owes(th, k, g)' <=> Owes(th, k, g) \/ k = n)
                   => Fired(g)
<1>1. \A p \in Thread \X Nat : p = <<p[1], p[2]>> /\ p[1] \in Thread /\ p[2] \in Nat
  OBVIOUS
<1>2. \A p \in Thread \X Nat : p \in Pending(g) <=> Owes(p[1], p[2], g)
  BY DEF Pending, Owes
<1>3. \A p \in Thread \X Nat : p \in Pending(g)' <=> Owes(p[1], p[2], g)'
  BY DEF Pending, Owes, Owed
<1>4. \A u \in Thread : \A k \in Nat : u # th => (Owes(u, k, g)' <=> Owes(u, k, g))
  BY DEF Owes, Owed
<1>5. Pending(g) \subseteq Thread \X Nat /\ Pending(g)' \subseteq Thread \X Nat
  BY DEF Pending
<1>6. ASSUME \A k \in Nat : Owes(th, k, g)' <=> Owes(th, k, g) PROVE Kept(g)
  <2>1. \A p \in Thread \X Nat : p \in Pending(g)' <=> p \in Pending(g)
    BY <1>1, <1>2, <1>3, <1>4, <1>6
  <2>2. QED
    BY <2>1, <1>5 DEF Kept
<1>7. ASSUME NEW n \in Nat, Owes(th, n, g), \A k \in Nat : Owes(th, k, g)' <=> Owes(th, k, g) /\ k # n
      PROVE  Paid(g)
  <2>1. PICK x \in Thread \X Nat : x = <<th, n>>
    OBVIOUS
  <2>2. x \in Pending(g)
    BY <2>1, <1>2, <1>7
  <2>3. \A p \in Thread \X Nat : p \in Pending(g)' <=> p \in Pending(g) /\ p # x
    BY <2>1, <1>1, <1>2, <1>3, <1>4, <1>7
  <2>4. QED
    BY <2>2, <2>3, <1>5 DEF Paid
<1>8. ASSUME NEW n \in Nat, ~Owes(th, n, g), \A k \in Nat : Owes(th, k, g)' <=> Owes(th, k, g) \/ k = n
      PROVE  Fired(g)
  <2>1. PICK x \in Thread \X Nat : x = <<th, n>>
    OBVIOUS
  <2>2. x \notin Pending(g)
    BY <2>1, <1>2, <1>8
  <2>3. \A p \in Thread \X Nat : p \in Pending(g)' <=> p \in Pending(g) \/ p = x
    BY <2>1, <1>1, <1>2, <1>3, <1>4, <1>8
  <2>4. QED
    BY <2>2, <2>3, <1>5 DEF Fired
<1>9. QED
  BY <1>6, <1>7, <1>8

LEMMA OwesReplaced ==
  ASSUME Inv, NEW th \in Thread, stack[th] # <<>>, NEW f \in Frame, stack' = Replace(th, f), NEW g
  PROVE  \E n \in Nat :
           /\ Owes(th, n, g) <=> Owed(Top(th), g)
           /\ \A k \in Nat : Owes(th, k, g)' <=> IF k = n THEN Owed(f, g) ELSE Owes(th, k, g)
<1>1. PICK s \in Seq(Frame) : s = stack[th] /\ s # <<>>
  BY DEF Inv, TypeOK
<1> DEFINE r == Append(SubSeq(s, 1, Len(s) - 1), f)
<1>2. r \in Seq(Frame) /\ Len(r) = Len(s) /\ (\A i \in 1..(Len(s) - 1) : r[i] = s[i]) /\ r[Len(s)] = f
  BY <1>1, ReplaceTop
<1>3. stack' = [stack EXCEPT ![th] = r] /\ stack \in [Thread -> Seq(Frame)]
  BY <1>1 DEF Replace, Under, Inv, TypeOK
<1> HIDE DEF r
<1>4. PICK n \in Nat : n = Len(s) /\ n >= 1
  BY <1>1, TopOfStack
<1>5. DOMAIN s = 1..n /\ DOMAIN r = 1..n /\ stack'[th] = r
  BY <1>2, <1>3, <1>4
<1>6. Owes(th, n, g) <=> Owed(Top(th), g)
  BY <1>1, <1>4, <1>5 DEF Owes, Top
<1>7. \A k \in Nat : Owes(th, k, g)' <=> IF k = n THEN Owed(f, g) ELSE Owes(th, k, g)
  <2>1. ASSUME NEW k \in Nat
        PROVE  (k \in 1..n /\ Owed(r[k], g)) <=> IF k = n THEN Owed(f, g) ELSE k \in 1..n /\ Owed(s[k], g)
    <3>1. k \in 1..n /\ k # n => r[k] = s[k]
      BY <2>1, <1>2, <1>4
    <3>2. r[n] = f /\ n \in 1..n
      BY <1>2, <1>4
    <3>3. QED
      BY <3>1, <3>2
  <2>2. QED
    BY <2>1, <1>1, <1>5 DEF Owes, Owed
<1>8. QED
  BY <1>6, <1>7

LEMMA OwesPushed ==
  ASSUME Inv, NEW th \in Thread, stack[th] # <<>>, NEW f \in Frame, NEW h \in Frame,
         stack' = [Replace(th, f) EXCEPT ![th] = Append(@, h)], NEW g, Owed(f, g) <=> Owed(Top(th), g)
  PROVE  \E n \in Nat :
           /\ ~Owes(th, n, g)
           /\ \A k \in Nat : Owes(th, k, g)' <=> IF k = n THEN Owed(h, g) ELSE Owes(th, k, g)
<1>1. PICK s \in Seq(Frame) : s = stack[th] /\ s # <<>>
  BY DEF Inv, TypeOK
<1> DEFINE r == Append(SubSeq(s, 1, Len(s) - 1), f)
           p == Append(r, h)
<1>2. /\ r \in Seq(Frame) /\ Len(r) = Len(s) /\ (\A i \in 1..(Len(s) - 1) : r[i] = s[i]) /\ r[Len(s)] = f
      /\ p \in Seq(Frame) /\ Len(p) = Len(s) + 1 /\ (\A i \in 1..Len(s) : p[i] = r[i]) /\ p[Len(s) + 1] = h
  BY <1>1, ReplaceTop
<1>3. stack' = [[stack EXCEPT ![th] = r] EXCEPT ![th] = Append(@, h)] /\ stack \in [Thread -> Seq(Frame)]
  BY <1>1 DEF Replace, Under, Inv, TypeOK
<1> HIDE DEF r
<1>4. stack' = [stack EXCEPT ![th] = p]
  BY <1>3
<1> HIDE DEF p
<1>5. PICK n \in Nat : n = Len(s) /\ n >= 1
  BY <1>1, TopOfStack
<1>6. DOMAIN s = 1..n /\ DOMAIN p = 1..(n + 1) /\ stack'[th] = p
  BY <1>2, <1>3, <1>4, <1>5
<1>7. Owed(s[n], g) <=> Owed(f, g)
  BY <1>1, <1>5 DEF Top
<1>8. ~Owes(th, n + 1, g)
  BY <1>1, <1>5, <1>6 DEF Owes
<1>9. \A k \in Nat : Owes(th, k, g)' <=> IF k = n + 1 THEN Owed(h, g) ELSE Owes(th, k, g)
  <2>1. ASSUME NEW k \in Nat
        PROVE  (k \in 1..(n + 1) /\ Owed(p[k], g)) <=> IF k = n + 1 THEN Owed(h, g) ELSE k \in 1..n /\ Owed(s[k], g)
    <3>1. k \in 1..n /\ k # n => p[k] = s[k]
      BY <2>1, <1>2, <1>5
    <3>2. p[n + 1] = h /\ n + 1 \in 1..(n + 1) /\ p[n] = f /\ (k \in 1..(n + 1) <=> k \in 1..n \/ k = n + 1)
      BY <1>2, <1>5
    <3>3. n + 1 \notin 1..n
      BY <1>5
    <3>4. QED
      BY <3>1, <3>2, <3>3, <1>7
  <2>2. QED
    BY <2>1, <1>1, <1>6 DEF Owes, Owed
<1>10. n + 1 \in Nat
  BY <1>5
<1>11. QED
  BY <1>8, <1>9, <1>10

LEMMA OwesPopped ==
  ASSUME Inv, NEW th \in Thread, stack[th] # <<>>, stack' = [stack EXCEPT ![th] = Under(th)],
         NEW g, ~Owed(Top(th), g)
  PROVE  \A k \in Nat : Owes(th, k, g)' <=> Owes(th, k, g)
<1>1. PICK s \in Seq(Frame) : s = stack[th] /\ s # <<>>
  BY DEF Inv, TypeOK
<1> DEFINE u == SubSeq(s, 1, Len(s) - 1)
<1>2. /\ u \in Seq(Frame) /\ Len(u) = Len(s) - 1
      /\ \A i \in 1..(Len(s) - 1) : u[i] = s[i]
  BY <1>1, TopOfStack
<1>3. stack' = [stack EXCEPT ![th] = u] /\ stack \in [Thread -> Seq(Frame)]
  BY <1>1 DEF Under, Inv, TypeOK
<1> HIDE DEF u
<1>4. PICK n \in Nat : n = Len(s) /\ n >= 1
  BY <1>1, TopOfStack
<1>5. DOMAIN s = 1..n /\ DOMAIN u = 1..(n - 1) /\ stack'[th] = u
  BY <1>2, <1>3, <1>4
<1>6. ~Owed(s[n], g)
  BY <1>1, <1>4 DEF Top
<1>7. ASSUME NEW k \in Nat
      PROVE  (k \in 1..(n - 1) /\ Owed(u[k], g)) <=> (k \in 1..n /\ Owed(s[k], g))
  <2>1. k \in 1..(n - 1) => u[k] = s[k]
    BY <1>2, <1>4
  <2>2. k \in 1..n <=> k \in 1..(n - 1) \/ k = n
    BY <1>4
  <2>3. n \notin 1..(n - 1)
    BY <1>4
  <2>4. QED
    BY <2>1, <2>2, <2>3, <1>6
<1>8. QED
  BY <1>1, <1>5, <1>7 DEF Owes, Owed

(* A stack of one call, in the place of none or of one that owes nothing.  *)
LEMMA OwesAnew ==
  ASSUME Inv, NEW th \in Thread, NEW h, stack' = [stack EXCEPT ![th] = <<h>>], NEW g,
         \A k \in Nat : ~Owes(th, k, g)
  PROVE  \A k \in Nat : Owes(th, k, g)' <=> (k = 1 /\ Owed(h, g))
<1>1. stack'[th] = <<h>>
  BY DEF Inv, TypeOK
<1>2. DOMAIN stack'[th] = {1} /\ stack'[th][1] = h
  BY <1>1
<1>3. QED
  BY <1>2 DEF Owes, Owed

(* The loss of a line that a handler or a command has for t.               *)
LEMMA LoseBalance ==
  ASSUME Inv, NEW g \in Reporting, Balance(g), NEW t \in Gateways, NEW id \in 0..MaxEvents,
         Lose(t, id), Kept(g)
  PROVE  Balance(g)'
<1>1. g \in Gateways /\ dropped \in [Gateways -> Nat] /\ excused \in [Gateways -> Nat]
  BY DEF Reporting, Inv, TypeOK
<1>2. dropped'[g] = IF g = t THEN dropped[g] + 1 ELSE dropped[g]
  BY <1>1 DEF Lose
<1> DEFINE put == [kind |-> "error", id |-> id, from |-> t]
<1>3. PICK line \in Line : line = put /\ line.kind = "error" /\ line.from = t
  <2>1. put \in Line /\ put.kind = "error" /\ put.from = t
    BY DEF Line
  <2> HIDE DEF put
  <2>2. QED
    BY <2>1
<1>4. CASE Added(Console, line) /\ UNCHANGED excused
  <2>1. IF g = t THEN More(g) ELSE Silent(g)
    BY <1>1, <1>3, <1>4, ErrorAdded, OtherAdded, ConsoleAssumption
  <2>2. QED
    BY <2>1, <1>1, <1>2, <1>4, BalanceKept
<1>5. CASE UNCHANGED log /\ excused' = [excused EXCEPT ![t] = @ + 1]
  <2>1. Silent(g) /\ excused'[g] = IF g = t THEN excused[g] + 1 ELSE excused[g]
    BY <1>1, <1>5 DEF Silent, ErrorLines
  <2>2. QED
    BY <2>1, <1>1, <1>2, BalanceKept
<1>6. QED
  BY <1>3, <1>4, <1>5 DEF Lose, Put, Added

LEMMA MainHandlersBalance ==
  ASSUME OInv, NEW g \in Reporting, Balance(g), NEW th \in Thread, MainHandlers(th)
  PROVE  Balance(g)'
<1>1. PICK f : f = Top(th)
  OBVIOUS
<1>2. stack[th] # <<>> /\ f.phase = "main" /\ UNCHANGED <<log, dropped>>
  BY <1>1 DEF MainHandlers
<1>3. f \in Frame /\ f.ev \in Event /\ f.gw \in Gateways
  BY <1>1, <1>2, WhoseTop DEF OInv
<1>4. g \in Gateways /\ dropped[g] \in Nat /\ excused \in [Gateways -> Nat] /\ Silent(g)
  BY <1>2 DEF Reporting, OInv, Inv, TypeOK, ErrorLines, Silent
<1> DEFINE relayed == [f EXCEPT !.phase = "relay", !.todo = Audience(f.ev, f.gw)]
           prevented == [f EXCEPT !.phase = "done"]
<1>5. \/ stack' = Replace(th, relayed) /\ UNCHANGED excused
      \/ /\ stack' = Replace(th, prevented)
         /\ excused' = IF f.ev.kind = "error" THEN [excused EXCEPT ![f.gw] = @ + 1] ELSE excused
  BY <1>1 DEF MainHandlers, Passes
<1>6. ASSUME NEW e \in Frame, stack' = Replace(th, e)
      PROVE  /\ (Owed(e, g) <=> Owed(f, g)) => Kept(g)
             /\ Owed(f, g) /\ ~Owed(e, g) => Paid(g)
  <2>1. \A u \in Thread : u # th => stack'[u] = stack[u]
    BY <1>2, <1>6, BaseReplaced DEF OInv
  <2>2. PICK n \in Nat :
          /\ Owes(th, n, g) <=> Owed(f, g)
          /\ \A k \in Nat : Owes(th, k, g)' <=> IF k = n THEN Owed(e, g) ELSE Owes(th, k, g)
    BY <1>1, <1>2, <1>6, OwesReplaced DEF OInv
  <2>3. ASSUME Owed(e, g) <=> Owed(f, g) PROVE Kept(g)
    <3>1. \A k \in Nat : Owes(th, k, g)' <=> Owes(th, k, g)
      BY <2>2, <2>3
    <3>2. QED
      BY <2>1, <3>1, PendingOf
  <2>4. ASSUME Owed(f, g), ~Owed(e, g) PROVE Paid(g)
    <3>1. Owes(th, n, g) /\ \A k \in Nat : Owes(th, k, g)' <=> Owes(th, k, g) /\ k # n
      BY <2>2, <2>4
    <3>2. QED
      BY <2>1, <3>1, PendingOf
  <2>5. QED
    BY <2>3, <2>4
<1>7. CASE stack' = Replace(th, relayed) /\ UNCHANGED excused
  <2>1. Audience(f.ev, f.gw) \subseteq Gateways /\ (f.ev.kind = "error" => Audience(f.ev, f.gw) = LogTo[f.gw])
    BY <1>3, TargetAssumption DEF Audience, Event
  <2>2. /\ relayed \in Frame /\ relayed.ev = f.ev /\ relayed.gw = f.gw /\ relayed.phase = "relay"
        /\ relayed.todo = Audience(f.ev, f.gw)
    BY <1>3, <2>1 DEF Frame
  <2> HIDE DEF relayed
  <2>3. Owed(relayed, g) <=> Owed(f, g)
    BY <2>1, <2>2, <1>2 DEF Owed, Reporting
  <2>4. QED
    BY <2>2, <2>3, <1>2, <1>4, <1>6, <1>7, BalanceKept
<1>8. CASE /\ stack' = Replace(th, prevented)
           /\ excused' = IF f.ev.kind = "error" THEN [excused EXCEPT ![f.gw] = @ + 1] ELSE excused
  <2>1. prevented \in Frame /\ prevented.phase = "done"
    BY <1>3 DEF Frame
  <2> HIDE DEF prevented
  <2>2. ~Owed(prevented, g) /\ (Owed(f, g) <=> f.ev.kind = "error" /\ f.gw = g)
    BY <2>1, <1>2 DEF Owed
  <2>3. excused'[g] = IF f.ev.kind = "error" /\ f.gw = g THEN excused[g] + 1 ELSE excused[g]
    BY <1>3, <1>4, <1>8
  <2>4. IF f.ev.kind = "error" /\ f.gw = g THEN Paid(g) ELSE Kept(g)
    BY <2>1, <2>2, <1>6, <1>8
  <2>5. QED
    BY <2>3, <2>4, <1>2, <1>4, BalanceKept
<1>9. QED
  BY <1>5, <1>7, <1>8

LEMMA RelayToBalance ==
  ASSUME OInv, NEW g \in Reporting, Balance(g), NEW th \in Thread, RelayTo(th)
  PROVE  Balance(g)'
<1>1. PICK f : f = Top(th)
  OBVIOUS
<1>2. stack[th] # <<>> /\ f.phase = "relay"
  BY <1>1 DEF RelayTo
<1>3. f \in Frame /\ f.ev \in Event /\ f.gw \in Gateways /\ FrameInv(f, Len(stack[th]))
  BY <1>1, <1>2, WhoseTop DEF OInv
<1>4. PICK t \in f.todo :
        \/ /\ ~Full(t)
           /\ Put(t, [kind |-> f.ev.kind, id |-> f.ev.id, from |-> f.gw])
           /\ stack' = Copied(th, f, t)
           /\ UNCHANGED dropped
        \/ /\ Full(t)
           /\ stack' = Refused(th, f, t)
           /\ dropped' = [dropped EXCEPT ![t] = @ + 1]
           /\ UNCHANGED <<log, load>>
  BY <1>1 DEF RelayTo
<1>5. t \in Gateways /\ f.ev.kind \in {"chat", "say", "error"} /\ g \in Gateways /\ dropped \in [Gateways -> Nat]
      /\ excused[g] \in Nat /\ excused'[g] = excused[g]
  BY <1>3, <1>4 DEF RelayTo, Frame, Event, FrameInv, Reporting, OInv, Inv, TypeOK
<1> DEFINE left == [f EXCEPT !.todo = @ \ {t}]
           put == [kind |-> f.ev.kind, id |-> f.ev.id, from |-> f.gw]
           lost == Fresh(t, Error(f.ev.id))
<1>6. PICK e \in Frame : e = left /\ e.gw = f.gw /\ e.ev = f.ev /\ e.phase = f.phase /\ e.todo = f.todo \ {t}
  <2>1. left \in Frame /\ left.gw = f.gw /\ left.ev = f.ev /\ left.phase = f.phase /\ left.todo = f.todo \ {t}
    BY <1>3 DEF Frame
  <2> HIDE DEF left
  <2>2. QED
    BY <2>1
<1>7. PICK line \in Line : line = put /\ line.kind = f.ev.kind /\ line.from = f.gw
  <2>1. put \in Line /\ put.kind = f.ev.kind /\ put.from = f.gw
    BY <1>3, <1>5 DEF Line, Event
  <2> HIDE DEF put
  <2>2. QED
    BY <2>1
<1>8. t # Console => (Owed(e, g) <=> Owed(f, g))
  BY <1>2, <1>6 DEF Owed
<1>9. t = Console => ~Owed(e, g) /\ (Owed(f, g) <=> f.ev.kind = "error" /\ f.gw = g)
  BY <1>2, <1>4, <1>6 DEF Owed
<1>10. CASE Added(t, line) /\ stack' = Replace(th, e) /\ UNCHANGED dropped
  <2>1. \A u \in Thread : u # th => stack'[u] = stack[u]
    BY <1>2, <1>10, BaseReplaced DEF OInv
  <2>2. PICK n \in Nat :
          /\ Owes(th, n, g) <=> Owed(f, g)
          /\ \A k \in Nat : Owes(th, k, g)' <=> IF k = n THEN Owed(e, g) ELSE Owes(th, k, g)
    BY <1>1, <1>2, <1>10, OwesReplaced DEF OInv
  <2>3. CASE t = Console /\ f.ev.kind = "error" /\ f.gw = g
    <3>1. Owes(th, n, g) /\ \A k \in Nat : Owes(th, k, g)' <=> Owes(th, k, g) /\ k # n
      BY <2>2, <2>3, <1>9
    <3>2. Paid(g)
      BY <3>1, <2>1, PendingOf
    <3>3. More(g)
      BY <2>3, <1>5, <1>7, <1>10, ErrorAdded DEF OInv
    <3>4. QED
      BY <3>2, <3>3, <1>5, <1>10, BalanceKept
  <2>4. CASE ~(t = Console /\ f.ev.kind = "error" /\ f.gw = g)
    <3>1. Owed(e, g) <=> Owed(f, g)
      BY <2>4, <1>8, <1>9
    <3>2. \A k \in Nat : Owes(th, k, g)' <=> Owes(th, k, g)
      BY <2>2, <3>1
    <3>3. Kept(g)
      BY <2>1, <3>2, PendingOf
    <3>4. Silent(g)
      BY <2>4, <1>5, <1>7, <1>10, OtherAdded DEF OInv
    <3>5. QED
      BY <3>3, <3>4, <1>5, <1>10, BalanceKept
  <2>5. QED
    BY <2>3, <2>4
<1>11. CASE /\ Full(t) /\ stack' = [Replace(th, e) EXCEPT ![th] = Append(@, lost)]
            /\ dropped' = [dropped EXCEPT ![t] = @ + 1] /\ UNCHANGED log
  <2>1. t # Console
    BY <1>11 DEF Full
  <2>2. lost \in Frame /\ lost.gw = t /\ lost.ev.kind = "error" /\ lost.phase = "main"
    <3>1. f.ev.id \in 0..MaxEvents
      BY <1>3 DEF Event
    <3>2. lost \in Frame
      BY <3>1, <1>5, ErrorEvent, NewFrames
    <3>3. QED
      BY <3>2 DEF Fresh, Error
  <2>3. Owed(lost, g) <=> g = t
    BY <2>2 DEF Owed
  <2> HIDE DEF lost
  <2>4. \A u \in Thread : u # th => stack'[u] = stack[u]
    BY <1>2, <1>11, <2>2, BasePushed DEF OInv
  <2>5. PICK n \in Nat :
          /\ ~Owes(th, n, g)
          /\ \A k \in Nat : Owes(th, k, g)' <=> IF k = n THEN Owed(lost, g) ELSE Owes(th, k, g)
    BY <2>1, <2>2, <1>1, <1>2, <1>8, <1>11, OwesPushed DEF OInv
  <2>6. Silent(g)
    BY <1>11 DEF ErrorLines, Silent
  <2>7. CASE g = t
    <3>1. \A k \in Nat : Owes(th, k, g)' <=> Owes(th, k, g) \/ k = n
      BY <2>3, <2>5, <2>7
    <3>2. Fired(g)
      BY <3>1, <2>4, <2>5, PendingOf
    <3>3. dropped'[g] = dropped[g] + 1
      BY <2>7, <1>5, <1>11
    <3>4. QED
      BY <3>2, <3>3, <2>6, <1>5, BalanceKept
  <2>8. CASE g # t
    <3>1. \A k \in Nat : Owes(th, k, g)' <=> Owes(th, k, g)
      BY <2>3, <2>5, <2>8
    <3>2. Kept(g)
      BY <3>1, <2>4, PendingOf
    <3>3. dropped'[g] = dropped[g]
      BY <2>8, <1>5, <1>11
    <3>4. QED
      BY <3>2, <3>3, <2>6, <1>5, BalanceKept
  <2>9. QED
    BY <2>7, <2>8
<1>12. \/ Added(t, line) /\ stack' = Replace(th, e) /\ UNCHANGED dropped
       \/ /\ Full(t) /\ stack' = [Replace(th, e) EXCEPT ![th] = Append(@, lost)]
          /\ dropped' = [dropped EXCEPT ![t] = @ + 1] /\ UNCHANGED log
  BY <1>4, <1>6, <1>7 DEF Put, Added, Copied, Refused, Advance
<1>13. QED
  BY <1>10, <1>11, <1>12

LEMMA LocalHandlersBalance ==
  ASSUME OInv, NEW g \in Reporting, Balance(g), NEW th \in Thread, LocalHandlers(th)
  PROVE  Balance(g)'
<1>1. PICK f : f = Top(th)
  OBVIOUS
<1> DEFINE finished == [f EXCEPT !.phase = "done"]
           trigger == TriggerOf(f)
<1>2. /\ stack[th] # <<>> /\ f.phase = "relay" /\ f.todo = {}
      /\ AutoKick(f) \/ NoKick(f)
      /\ stack' = Replace(th, finished) \/ (stack' = Replace(th, trigger) /\ f.ev.kind = "chat")
  BY <1>1 DEF LocalHandlers, Asks
<1>3. f \in Frame /\ f.ev \in Event /\ f.gw \in Gateways /\ f.ev.id \in 0..MaxEvents
  <2>1. f \in Frame /\ f.ev \in Event /\ f.gw \in Gateways
    BY <1>1, <1>2, WhoseTop DEF OInv
  <2>2. QED
    BY <2>1 DEF Event
<1>4. g \in Gateways /\ dropped[g] \in Nat /\ excused[g] \in Nat
  BY DEF Reporting, OInv, Inv, TypeOK
<1>5. PICK e \in Frame : stack' = Replace(th, e) /\ ~Owed(e, g)
  <2>1. finished \in Frame /\ finished.phase = "done"
    BY <1>3 DEF Frame
  <2>2. f.ev.kind = "chat" => trigger \in Frame /\ trigger.ev.kind = "trigger"
    <3>1. f.ev.kind = "chat" => [f.ev EXCEPT !.kind = "trigger"] \in Event
      BY <1>3 DEF Event
    <3>2. QED
      BY <3>1, <1>3, NewFrames DEF TriggerOf, Event
  <2> HIDE DEF finished, trigger
  <2>3. QED
    BY <2>1, <2>2, <1>2 DEF Owed
<1>6. \A u \in Thread : u # th => stack'[u] = stack[u]
  BY <1>2, <1>5, BaseReplaced DEF OInv
<1>7. PICK n \in Nat :
        /\ Owes(th, n, g) <=> Owed(f, g)
        /\ \A k \in Nat : Owes(th, k, g)' <=> IF k = n THEN Owed(e, g) ELSE Owes(th, k, g)
  BY <1>1, <1>2, <1>5, OwesReplaced DEF OInv
<1>8. ~Owed(f, g)
  BY <1>2 DEF Owed
<1>9. Kept(g)
  <2>1. \A k \in Nat : Owes(th, k, g)' <=> Owes(th, k, g)
    BY <1>5, <1>7, <1>8
  <2>2. QED
    BY <2>1, <1>6, PendingOf
<1>10. CASE UNCHANGED <<log, losses>>
  <2>1. Silent(g)
    BY <1>10 DEF ErrorLines, Silent
  <2>2. QED
    BY <2>1, <1>4, <1>9, <1>10, BalanceKept DEF losses
<1>11. CASE AutoKick(f)
  <2> DEFINE put == [kind |-> "kick", id |-> f.ev.id, from |-> f.gw]
  <2>1. PICK line \in Line : line = put /\ line.kind = "kick"
    <3>1. put \in Line /\ put.kind = "kick"
      BY <1>3 DEF Line
    <3> HIDE DEF put
    <3>2. QED
      BY <3>1
  <2>2. Added(f.gw, line) /\ UNCHANGED losses
    BY <2>1, <1>11 DEF AutoKick, Put, Added
  <2>3. Silent(g)
    BY <2>1, <2>2, <1>3, <1>4, OtherAdded DEF OInv
  <2>4. QED
    BY <2>2, <2>3, <1>4, <1>9, BalanceKept DEF losses
<1>12. CASE Lose(f.gw, f.ev.id)
  BY <1>3, <1>9, <1>12, LoseBalance DEF OInv
<1>13. QED
  BY <1>2, <1>10, <1>11, <1>12 DEF NoKick

LEMMA ReturnBalance ==
  ASSUME OInv, NEW g \in Reporting, Balance(g), NEW th \in Thread, Return(th)
  PROVE  Balance(g)'
<1>1. PICK f : f = Top(th)
  OBVIOUS
<1>2. stack[th] # <<>> /\ f.phase = "done" /\ UNCHANGED <<log, dropped, excused>>
  BY <1>1 DEF Return, losses
<1>3. ~Owed(f, g) /\ g \in Gateways /\ dropped[g] \in Nat /\ excused[g] \in Nat
  BY <1>2 DEF Owed, Reporting, OInv, Inv, TypeOK
<1>4. /\ \A u \in Thread : u # th => stack'[u] = stack[u]
      /\ \A k \in Nat : Owes(th, k, g)' <=> Owes(th, k, g)
  <2>1. CASE stack' = [stack EXCEPT ![th] = Under(th)]
    BY <2>1, <1>1, <1>2, <1>3, BasePopped, OwesPopped DEF OInv
  <2>2. CASE f.ev.kind = "chat" /\ stack' = [stack EXCEPT ![th] = <<Fresh(f.gw, [f.ev EXCEPT !.kind = "trigger"])>>]
    <3>1. f \in Frame /\ f.ev \in Event /\ Len(stack[th]) = 1 /\ stack[th][1] = f
      BY <2>2, <1>1, <1>2, WhoseTop DEF OInv
    <3> DEFINE h == Fresh(f.gw, [f.ev EXCEPT !.kind = "trigger"])
    <3>2. h.ev.kind = "trigger"
      BY <3>1 DEF Fresh, Event
    <3> HIDE DEF h
    <3>3. ~Owed(h, g)
      BY <3>2 DEF Owed
    <3>4. \A k \in Nat : ~Owes(th, k, g)
      <4>1. DOMAIN stack[th] = {1}
        <5>1. PICK s \in Seq(Frame) : s = stack[th]
          BY DEF OInv, Inv, TypeOK
        <5>2. QED
          BY <5>1, <3>1
      <4>2. QED
        BY <4>1, <3>1, <1>3 DEF Owes
    <3>5. stack' = [stack EXCEPT ![th] = <<h>>]
      BY <2>2 DEF h
    <3>6. \A k \in Nat : Owes(th, k, g)' <=> (k = 1 /\ Owed(h, g))
      BY <3>4, <3>5, OwesAnew DEF OInv
    <3>7. \A u \in Thread : u # th => stack'[u] = stack[u]
      BY <3>5 DEF OInv, Inv, TypeOK
    <3>8. QED
      BY <3>3, <3>4, <3>6, <3>7
  <2>3. QED
    BY <1>1, <2>1, <2>2 DEF Return, TriggerOf
<1>5. Kept(g)
  BY <1>4, PendingOf
<1>6. Silent(g)
  BY <1>2 DEF ErrorLines, Silent
<1>7. QED
  BY <1>2, <1>3, <1>5, <1>6, BalanceKept

(* A goroutine that was in no call of Fire begins one.                     *)
LEMMA BeginsBalance ==
  ASSUME OInv, NEW g \in Reporting, NEW th \in Thread, NEW h,
         stack[th] = <<>>, stack' = [stack EXCEPT ![th] = <<h>>]
  PROVE  /\ ~Owed(h, g) => Kept(g)
         /\ Owed(h, g) => Fired(g)
<1>1. \A k \in Nat : ~Owes(th, k, g)
  BY DEF Owes
<1>2. \A k \in Nat : Owes(th, k, g)' <=> (k = 1 /\ Owed(h, g))
  BY <1>1, OwesAnew DEF OInv
<1>3. \A u \in Thread : u # th => stack'[u] = stack[u]
  BY DEF OInv, Inv, TypeOK
<1>4. ASSUME ~Owed(h, g) PROVE Kept(g)
  <2>1. \A k \in Nat : Owes(th, k, g)' <=> Owes(th, k, g)
    BY <1>1, <1>2, <1>4
  <2>2. QED
    BY <2>1, <1>3, PendingOf
<1>5. ASSUME Owed(h, g) PROVE Fired(g)
  <2>1. ~Owes(th, 1, g) /\ \A k \in Nat : Owes(th, k, g)' <=> Owes(th, k, g) \/ k = 1
    BY <1>1, <1>2, <1>5
  <2>2. QED
    BY <2>1, <1>3, PendingOf
<1>6. QED
  BY <1>4, <1>5

LEMMA NextBalance ==
  ASSUME OInv, NEW g \in Reporting, Balance(g), [Next]_vars
  PROVE  Balance(g)'
<1>1. g \in Gateways /\ dropped \in [Gateways -> Nat] /\ dropped[g] \in Nat
      /\ excused \in [Gateways -> Nat] /\ excused[g] \in Nat
  BY DEF Reporting, OInv, Inv, TypeOK
<1>2. ASSUME UNCHANGED <<stack, log, dropped, excused>> PROVE Balance(g)'
  <2>1. Kept(g) /\ Silent(g)
    BY <1>2 DEF Pending, Owed, ErrorLines, Kept, Silent
  <2>2. QED
    BY <2>1, <1>1, <1>2, BalanceKept
<1>3. ASSUME NEW t \in Gateways, FireChat(t) PROVE Balance(g)'
  <2>1. PICK level \in Levels, text \in {"talk", "cmd", "ask"} :
          stack' = [stack EXCEPT ![<<t, "loop">>] = <<Fresh(t, Chat(level, text))>>]
    BY <1>3 DEF FireChat
  <2>2. ~Owed(Fresh(t, Chat(level, text)), g)
    BY DEF Owed, Fresh, Chat
  <2>3. stack[<<t, "loop">>] = <<>> /\ <<t, "loop">> \in Thread /\ UNCHANGED <<log, dropped, excused>>
    BY <1>3 DEF FireChat, Thread, losses
  <2>4. PICK h : h = Fresh(t, Chat(level, text))
    OBVIOUS
  <2>5. stack' = [stack EXCEPT ![<<t, "loop">>] = <<h>>] /\ ~Owed(h, g)
    BY <2>1, <2>2, <2>4
  <2>6. Kept(g)
    BY <2>3, <2>5, BeginsBalance
  <2>7. Silent(g)
    BY <2>3 DEF ErrorLines, Silent
  <2>8. QED
    BY <2>3, <2>6, <2>7, <1>1, BalanceKept
<1>4. ASSUME NEW th \in Thread, Dispatch(th) PROVE Balance(g)'
  BY <1>4, MainHandlersBalance, RelayToBalance, LocalHandlersBalance, ReturnBalance DEF Dispatch
<1>5. ASSUME NEW i \in Id, Reply(i) PROVE Balance(g)'
  <2>1. PICK t \in Gateways : t = command[i]
    BY <1>5 DEF Reply
  <2> DEFINE ev == [kind |-> "say", id |-> i, level |-> 0, text |-> "talk"]
             put == [kind |-> "reply", id |-> i, from |-> t]
  <2>2. i \in 0..MaxEvents
    BY BoundAssumption DEF Id
  <2>3. CASE Lose(t, i) /\ UNCHANGED stack
    <3>1. Kept(g)
      BY <2>3 DEF Kept, Pending, Owed
    <3>2. QED
      BY <2>2, <2>3, <3>1, LoseBalance DEF OInv
  <2>4. CASE UNCHANGED losses /\ log' = [log EXCEPT ![t] = Append(@, put)] /\ stack' = [stack EXCEPT ![<<i, "cmd">>] = <<Fresh(t, ev)>>]
    <3>1. stack[<<i, "cmd">>] = <<>> /\ <<i, "cmd">> \in Thread
      BY <2>1, NameAssumption DEF OInv, Way, Answers, Thread
    <3>2. ~Owed(Fresh(t, ev), g)
      BY DEF Owed, Fresh
    <3>3. PICK h : h = Fresh(t, ev)
      OBVIOUS
    <3>4. Kept(g)
      BY <2>4, <3>1, <3>2, <3>3, BeginsBalance
    <3>5. PICK line \in Line : line = put /\ line.kind = "reply"
      <4>1. put \in Line /\ put.kind = "reply"
        BY BoundAssumption DEF Line, Id
      <4> HIDE DEF put
      <4>2. QED
        BY <4>1
    <3>6. Added(t, line)
      BY <2>4, <3>5 DEF Added
    <3>7. Silent(g)
      BY <3>5, <3>6, <1>1, OtherAdded DEF OInv
    <3>8. QED
      BY <2>4, <3>4, <3>7, <1>1, BalanceKept DEF losses
  <2>5. QED
    BY <1>5, <2>1, <2>3, <2>4 DEF Reply, Put
<1>6. ASSUME NEW t \in Gateways, Drain(t) PROVE Balance(g)'
  BY <1>2, <1>6 DEF Drain, losses
<1>7. ASSUME NEW t \in Gateways, DrainFails(t) PROVE Balance(g)'
  <2>1. PICK h : h = Fresh(t, Error(0))
    OBVIOUS
  <2>2. /\ stack[<<t, "drain">>] = <<>> /\ <<t, "drain">> \in Thread
        /\ dropped' = [dropped EXCEPT ![t] = @ + 1]
        /\ \/ stack' = [stack EXCEPT ![<<t, "drain">>] = <<h>>] /\ UNCHANGED excused
           \/ excused' = [excused EXCEPT ![t] = @ + 1] /\ UNCHANGED stack
    BY <1>7, <2>1 DEF DrainFails, Thread
  <2>3. Owed(h, g) <=> g = t
    BY <2>1 DEF Owed, Fresh, Error
  <2>4. Silent(g) /\ dropped'[g] = IF g = t THEN dropped[g] + 1 ELSE dropped[g]
    BY <1>1, <1>7, <2>2 DEF DrainFails, ErrorLines, Silent
  <2>5. CASE stack' = [stack EXCEPT ![<<t, "drain">>] = <<h>>] /\ UNCHANGED excused
    <3>1. IF g = t THEN Fired(g) ELSE Kept(g)
      BY <2>2, <2>3, <2>5, BeginsBalance
    <3>2. QED
      BY <3>1, <2>4, <2>5, <1>1, BalanceKept
  <2>6. CASE excused' = [excused EXCEPT ![t] = @ + 1] /\ UNCHANGED stack
    <3>1. Kept(g)
      BY <2>6 DEF Kept, Pending, Owed
    <3>2. excused'[g] = IF g = t THEN excused[g] + 1 ELSE excused[g]
      BY <1>1, <2>6
    <3>3. QED
      BY <3>1, <3>2, <2>4, <1>1, BalanceKept
  <2>7. QED
    BY <2>2, <2>5, <2>6
<1>8. ASSUME UNCHANGED vars PROVE Balance(g)'
  BY <1>2, <1>8 DEF vars
<1>9. QED
  BY <1>3, <1>4, <1>5, <1>6, <1>7, <1>8, Zenon DEF Next

LEMMA BalancedInit == Init => Balanced
<1> SUFFICES ASSUME Init, NEW g \in Reporting PROVE Balance(g)
  BY DEF Balanced
<1>1. ErrorLines(g) = {}
  BY ConsoleAssumption DEF Init, ErrorLines
<1>2. Pending(g) = {}
  BY DEF Init, Pending
<1>3. dropped[g] = 0 /\ excused[g] = 0
  BY DEF Init, Reporting
<1>4. QED
  BY <1>1, <1>2, <1>3, FS_EmptySet DEF Balance

(* Every line a full queue refused, be it a copy, a kick or an answer, and *)
(* every one that could not be sent, is reported at the console once and   *)
(* no more, for each gateway whose log is relayed there, unless the        *)
(* connection was closed or a plugin prevents the error: no error is lost  *)
(* on its way through relays that are full.                                *)
THEOREM RelayReportsDrops == Spec => []DropsReported
<1>1. OInv /\ Balanced /\ [Next]_vars => Balanced'
  BY NextBalance DEF Balanced, Reporting
<1>2. Spec => []Balanced
  BY <1>1, BalancedInit, OInvHolds, PTL DEF Spec
<1>3. OInv /\ Balanced => DropsReported
  <2>1. ASSUME OInv, Balanced, Quiet, NEW g \in Gateways, Console \in LogTo[g]
        PROVE  Cardinality(ErrorLines(g)) + excused[g] = dropped[g]
    <3>1. Balance(g)
      BY <2>1 DEF Balanced, Reporting
    <3>2. Pending(g) = {}
      BY <2>1 DEF Pending, Quiet
    <3>3. Cardinality(ErrorLines(g)) \in Nat /\ excused[g] \in Nat
      BY <2>1, <3>1, FS_CardinalityType DEF Balance, OInv, Inv, TypeOK
    <3>4. QED
      BY <3>1, <3>2, <3>3, FS_EmptySet DEF Balance
  <2>2. QED
    BY <2>1 DEF DropsReported
<1>4. QED
  BY <1>2, <1>3, OInvHolds, PTL

-----------------------------------------------------------------------------
(* Fire returns *)

(* A set of numbers with 0 and the successors of all its members has them  *)
(* all.                                                                    *)
LEMMA AllNumbers ==
  ASSUME NEW S, 0 \in S, \A n \in Nat : n \in S => n + 1 \in S
  PROVE  \A n \in Nat : n \in S
<1> DEFINE T == {n \in Nat : n \notin S}
<1>1. SUFFICES ASSUME T # {} PROVE FALSE
  OBVIOUS
<1>2. T \in SUBSET Nat
  OBVIOUS
<1> HIDE DEF T
<1>3. PICK i \in T : \A j \in T : <<j, i>> \notin OpToRel(<, Nat)
  BY <1>1, <1>2, NatLessThanWellFounded, WFMin, Zenon
<1>4. \A j \in T : ~(j < i)
  BY <1>2, <1>3, Zenon DEF OpToRel
<1>5. i \in Nat /\ i \notin S /\ i - 1 \notin T
  BY <1>2, <1>4 DEF T
<1>6. i # 0 /\ i - 1 \in Nat /\ (i - 1) + 1 = i
  BY <1>5
<1> QED BY <1>5, <1>6 DEF T

(* What a number and a rule for the next one give.                         *)
Given(a, g, n) == {f \in [0..n -> Nat] : f[0] = a /\ \A i \in 1..n : f[i] = g[<<f[i - 1], i>>]}

LEMMA Recursion ==
  ASSUME NEW a \in Nat, NEW g \in [Nat \X Nat -> Nat]
  PROVE  \E f \in [Nat -> Nat] : \A n \in Nat : f[n] = IF n = 0 THEN a ELSE g[<<f[n - 1], n>>]
<1> DEFINE S == {n \in Nat : Given(a, g, n) # {}}
<1>1. 0 \in S
  <2>1. [i \in 0..0 |-> a] \in Given(a, g, 0)
    BY DEF Given
  <2> QED BY <2>1
<1>2. ASSUME NEW n \in Nat, n \in S PROVE n + 1 \in S
  <2>1. PICK f : f \in Given(a, g, n)
    BY <1>2
  <2>2. /\ f \in [0..n -> Nat] /\ f[0] = a
        /\ \A i \in 1..n : f[i] = g[<<f[i - 1], i>>]
    BY <2>1 DEF Given
  <2>3. f[n] \in Nat /\ <<f[n], n + 1>> \in Nat \X Nat
    BY <2>2
  <2>4. g[<<f[n], n + 1>>] \in Nat
    BY <2>3
  <2>5. PICK e : e = [i \in 0..(n + 1) |-> IF i = n + 1 THEN g[<<f[n], n + 1>>] ELSE f[i]]
    OBVIOUS
  <2>6. e \in [0..(n + 1) -> Nat] /\ e[0] = a
    BY <2>2, <2>4, <2>5
  <2>7. ASSUME NEW i \in 1..(n + 1) PROVE e[i] = g[<<e[i - 1], i>>]
    <3>1. CASE i = n + 1
      <4>1. e[i] = g[<<f[n], n + 1>>] /\ e[i - 1] = f[n]
        BY <2>5, <3>1
      <4> QED BY <3>1, <4>1
    <3>2. CASE i # n + 1
      <4>1. i \in 1..n /\ e[i] = f[i] /\ e[i - 1] = f[i - 1]
        BY <2>5, <3>2
      <4> QED BY <2>2, <4>1
    <3> QED BY <3>1, <3>2
  <2>8. e \in Given(a, g, n + 1)
    BY <2>6, <2>7 DEF Given
  <2> QED BY <2>8
<1>3. \A n \in Nat : Given(a, g, n) # {}
  <2>1. \A n \in Nat : n \in S => n + 1 \in S
    BY <1>2
  <2> HIDE DEF S
  <2>2. \A n \in Nat : n \in S
    BY <1>1, <2>1, AllNumbers
  <2> QED BY <2>2 DEF S
<1>4. ASSUME NEW n \in Nat, NEW e \in Given(a, g, n), NEW m \in Nat, NEW f \in Given(a, g, m)
      PROVE  \A i \in Nat : i <= n /\ i <= m => e[i] = f[i]
  <2> DEFINE U == {i \in Nat : i <= n /\ i <= m => e[i] = f[i]}
  <2>1. 0 \in U
    BY DEF Given
  <2>2. ASSUME NEW i \in Nat, i \in U PROVE i + 1 \in U
    <3>1. SUFFICES ASSUME i + 1 <= n, i + 1 <= m PROVE e[i + 1] = f[i + 1]
      OBVIOUS
    <3>2. e[i] = f[i] /\ i + 1 \in 1..n /\ i + 1 \in 1..m /\ (i + 1) - 1 = i
      BY <2>2, <3>1
    <3>3. e[i + 1] = g[<<e[(i + 1) - 1], i + 1>>] /\ f[i + 1] = g[<<f[(i + 1) - 1], i + 1>>]
      BY <3>2 DEF Given
    <3> QED BY <3>2, <3>3
  <2>3. \A i \in Nat : i \in U => i + 1 \in U
    BY <2>2
  <2> HIDE DEF U
  <2>4. \A i \in Nat : i \in U
    BY <2>1, <2>3, AllNumbers
  <2> QED BY <2>4 DEF U
<1>5. PICK h : h = [n \in Nat |-> (CHOOSE f : f \in Given(a, g, n))[n]]
  OBVIOUS
<1>6. ASSUME NEW n \in Nat, NEW f \in Given(a, g, n), NEW i \in 0..n
      PROVE  h[i] = f[i]
  <2>1. PICK e : e = CHOOSE x : x \in Given(a, g, i)
    OBVIOUS
  <2>2. i \in Nat /\ i <= n /\ i <= i
    OBVIOUS
  <2>3. e \in Given(a, g, i)
    BY <1>3, <2>1, <2>2
  <2>4. h[i] = e[i]
    BY <1>5, <2>1, <2>2
  <2> QED BY <1>4, <2>2, <2>3, <2>4
<1>7. ASSUME NEW n \in Nat
      PROVE  h[n] \in Nat /\ h[n] = IF n = 0 THEN a ELSE g[<<h[n - 1], n>>]
  <2>1. PICK f : f \in Given(a, g, n)
    BY <1>3
  <2>2. n \in 0..n /\ (n # 0 => n - 1 \in 0..n /\ n \in 1..n)
    OBVIOUS
  <2>3. h[n] = f[n] /\ (n # 0 => h[n - 1] = f[n - 1])
    BY <1>6, <2>1, <2>2
  <2>4. /\ f \in [0..n -> Nat] /\ f[0] = a /\ \A i \in 1..n : f[i] = g[<<f[i - 1], i>>]
    BY <2>1 DEF Given
  <2> QED BY <2>2, <2>3, <2>4
<1>8. h \in [Nat -> Nat]
  BY <1>5, <1>7
<1> QED BY <1>7, <1>8

(* The sum of the first n values of a function.                            *)
Sum(h, n) ==
  LET sum[i \in Nat] == IF i = 0 THEN 0 ELSE sum[i - 1] + h[i]
  IN sum[n]

LEMMA SumIs ==
  ASSUME NEW h \in [Nat -> Nat]
  PROVE  /\ Sum(h, 0) = 0
         /\ \A n \in Nat : Sum(h, n) \in Nat /\ Sum(h, n + 1) = Sum(h, n) + h[n + 1]
<1> DEFINE IsSum(f) == f = [i \in Nat |-> IF i = 0 THEN 0 ELSE f[i - 1] + h[i]]
           sum == CHOOSE f : IsSum(f)
           g == [p \in Nat \X Nat |-> p[1] + h[p[2]]]
<1>1. g \in [Nat \X Nat -> Nat] /\ \A x, y \in Nat : g[<<x, y>>] = x + h[y]
  OBVIOUS
<1> HIDE DEF g
<1>2. PICK f \in [Nat -> Nat] : \A n \in Nat : f[n] = IF n = 0 THEN 0 ELSE g[<<f[n - 1], n>>]
  <2>1. g \in [Nat \X Nat -> Nat] /\ 0 \in Nat
    BY <1>1
  <2> QED BY <2>1, Recursion, Zenon
<1>3. ASSUME NEW n \in Nat PROVE f[n] = IF n = 0 THEN 0 ELSE f[n - 1] + h[n]
  <2>1. n # 0 => f[n - 1] \in Nat
    OBVIOUS
  <2> QED BY <1>1, <1>2, <2>1
<1>4. IsSum(f)
  BY <1>2, <1>3
<1>5. IsSum(sum)
  BY <1>4
<1>6. \A n : Sum(h, n) = sum[n]
  BY DEF Sum
<1> HIDE DEF sum
<1>7. \A n \in Nat : sum[n] = IF n = 0 THEN 0 ELSE sum[n - 1] + h[n]
  BY <1>5
<1> HIDE DEF IsSum
<1> DEFINE S == {n \in Nat : sum[n] \in Nat}
<1>8. 0 \in S
  BY <1>7
<1>9. \A n \in Nat : sum[n + 1] = sum[n] + h[n + 1]
  <2> TAKE n \in Nat
  <2>1. n + 1 \in Nat /\ n + 1 # 0 /\ (n + 1) - 1 = n
    OBVIOUS
  <2> QED BY <1>7, <2>1
<1>10. \A n \in Nat : n \in S => n + 1 \in S
  BY <1>9
<1> HIDE DEF S
<1>11. \A n \in Nat : n \in S
  BY <1>8, <1>10, AllNumbers
<1> QED BY <1>6, <1>7, <1>9, <1>11 DEF S

LEMMA SumSame ==
  ASSUME NEW h \in [Nat -> Nat], NEW k \in [Nat -> Nat], NEW n \in Nat, \A i \in 1..n : h[i] = k[i]
  PROVE  Sum(h, n) = Sum(k, n)
<1> DEFINE S == {i \in Nat : i <= n => Sum(h, i) = Sum(k, i)}
<1>1. 0 \in S
  BY SumIs
<1>2. ASSUME NEW i \in Nat, i \in S PROVE i + 1 \in S
  <2>1. Sum(h, i + 1) = Sum(h, i) + h[i + 1] /\ Sum(k, i + 1) = Sum(k, i) + k[i + 1]
    BY SumIs
  <2> QED BY <1>2, <2>1
<1>3. \A i \in Nat : i \in S => i + 1 \in S
  BY <1>2
<1> HIDE DEF S
<1>4. n \in S
  BY <1>1, <1>3, AllNumbers
<1> QED BY <1>4 DEF S

(* Relays cost steps: the n-th price is that of a relay to a gateway with  *)
(* a rank below n.  It covers the relay itself, and when it is refused the *)
(* three steps of the error, and one relay of it to every gateway.         *)
FiniteGateways == IsFiniteSet(Gateways)
Size == Cardinality(Gateways)
Price[n \in Nat] == IF n = 0 THEN 1 ELSE 4 + Size * Price[n - 1]

LEMMA TimesNat == \A x, y \in Nat : x * y \in Nat /\ (x + 1) * y = x * y + y
  OBVIOUS
LEMMA TimesOrder == \A x, y, z \in Nat : x <= y => x * z <= y * z
  OBVIOUS
LEMMA TimesLeast == \A x, y \in Nat : x >= 1 => x * y >= y
  OBVIOUS

LEMMA SizeIs ==
  ASSUME FiniteGateways
  PROVE  /\ Size \in Nat /\ Size >= 1
         /\ \A S \in SUBSET Gateways : IsFiniteSet(S) /\ Cardinality(S) \in Nat /\ Cardinality(S) <= Size
<1>1. Size \in Nat
  BY FS_CardinalityType DEF FiniteGateways, Size
<1>2. Size # 0
  BY ConsoleAssumption, FS_EmptySet DEF FiniteGateways, Size
<1>3. \A S \in SUBSET Gateways : IsFiniteSet(S) /\ Cardinality(S) \in Nat /\ Cardinality(S) <= Size
  BY FS_Subset, FS_CardinalityType DEF FiniteGateways, Size
<1> QED BY <1>1, <1>2, <1>3

LEMMA PriceIs ==
  ASSUME FiniteGateways
  PROVE  /\ \A n \in Nat : Price[n] \in Nat /\ Price[n] >= 1 /\ Price[n + 1] = 4 + Size * Price[n]
         /\ \A m, n \in Nat : m <= n => Price[m] <= Price[n]
<1>1. Size \in Nat /\ Size >= 1
  BY SizeIs
<1> DEFINE g == [p \in Nat \X Nat |-> 4 + Size * p[1]]
<1>2. g \in [Nat \X Nat -> Nat] /\ \A x, y \in Nat : g[<<x, y>>] = 4 + Size * x
  <2>1. \A x \in Nat : 4 + Size * x \in Nat
    BY <1>1, TimesNat
  <2> QED BY <2>1
<1> HIDE DEF g
<1>3. PICK f \in [Nat -> Nat] : \A n \in Nat : f[n] = IF n = 0 THEN 1 ELSE g[<<f[n - 1], n>>]
  <2>1. g \in [Nat \X Nat -> Nat] /\ 1 \in Nat
    BY <1>2
  <2> QED BY <2>1, Recursion, Zenon
<1>4. ASSUME NEW n \in Nat PROVE f[n] = IF n = 0 THEN 1 ELSE 4 + Size * f[n - 1]
  <2>1. n # 0 => f[n - 1] \in Nat
    OBVIOUS
  <2> QED BY <1>2, <1>3, <2>1
<1>5. f = [n \in Nat |-> IF n = 0 THEN 1 ELSE 4 + Size * f[n - 1]]
  BY <1>4
<1>6. Price = [n \in Nat |-> IF n = 0 THEN 1 ELSE 4 + Size * Price[n - 1]]
  BY <1>5 DEF Price
<1>7. \A n \in Nat : Price[n] = IF n = 0 THEN 1 ELSE 4 + Size * Price[n - 1]
  BY <1>6
<1>8. \A n \in Nat : Price[n + 1] = 4 + Size * Price[n]
  <2> TAKE n \in Nat
  <2>1. n + 1 \in Nat /\ n + 1 # 0 /\ (n + 1) - 1 = n
    OBVIOUS
  <2> QED BY <1>7, <2>1
<1> DEFINE S == {n \in Nat : Price[n] \in Nat /\ Price[n] >= 1}
<1>9. \A n \in Nat : n \in S
  <2>1. 0 \in S
    BY <1>7
  <2>2. ASSUME NEW n \in Nat, n \in S PROVE n + 1 \in S
    <3>1. Size * Price[n] \in Nat
      BY <1>1, <2>2, TimesNat
    <3> QED BY <1>8, <3>1
  <2>3. \A n \in Nat : n \in S => n + 1 \in S
    BY <2>2
  <2> HIDE DEF S
  <2> QED BY <2>1, <2>3, AllNumbers
<1>10. \A n \in Nat : Price[n] \in Nat /\ Price[n] >= 1
  BY <1>9
<1>11. \A n \in Nat : Price[n] <= Price[n + 1]
  <2> TAKE n \in Nat
  <2>1. Price[n] \in Nat /\ Size * Price[n] \in Nat /\ Size * Price[n] >= Price[n]
    BY <1>1, <1>10, TimesNat, TimesLeast
  <2> QED BY <1>8, <2>1
<1>12. ASSUME NEW m \in Nat, NEW n \in Nat, m <= n PROVE Price[m] <= Price[n]
  <2> DEFINE T == {k \in Nat : Price[m] <= Price[m + k]}
  <2>1. 0 \in T
    BY <1>10
  <2>2. ASSUME NEW k \in Nat, k \in T PROVE k + 1 \in T
    <3>1. m + k \in Nat /\ (m + k) + 1 = m + (k + 1) /\ m + (k + 1) \in Nat
      OBVIOUS
    <3>2. Price[m + k] <= Price[m + (k + 1)]
      BY <1>11, <3>1
    <3>3. Price[m] \in Nat /\ Price[m + k] \in Nat /\ Price[m + (k + 1)] \in Nat
      BY <1>10, <3>1
    <3> QED BY <2>2, <3>2, <3>3
  <2>3. \A k \in Nat : k \in T => k + 1 \in T
    BY <2>2
  <2> HIDE DEF T
  <2>4. n - m \in T
    <3>1. n - m \in Nat
      BY <1>12
    <3> QED BY <2>1, <2>3, <3>1, AllNumbers
  <2> QED BY <2>4 DEF T
<1> QED BY <1>8, <1>10, <1>12

(* The ranks of the targets of an event are below its reach.               *)
Reach(f) == IF f.ev.kind = "error" THEN Rank[f.gw] ELSE MaxRank + 1

(* The steps left to a call of Fire and to all that it fires: those of its *)
(* relays, of its own phases, and of the trigger after a chat.             *)
Whole(f) == 3 + Size * Price[Reach(f)]
Trigger(f) == IF f.ev.kind = "chat" THEN 3 + Size * Price[MaxRank + 1] ELSE 0
Own(f) ==
  CASE f.phase = "main" -> Whole(f)
    [] f.phase = "relay" -> 2 + Cardinality(f.todo) * Price[Reach(f)]
    [] OTHER -> 1
Cost(f) == Own(f) + Trigger(f)

Costs(s) == [i \in Nat |-> IF i \in 1..Len(s) THEN Cost(s[i]) ELSE 0]
Total(s) == Sum(Costs(s), Len(s))

LEMMA ReachIs ==
  ASSUME NEW f \in Frame
  PROVE  Reach(f) \in Nat /\ Reach(f) <= MaxRank + 1
BY RankAssumption DEF Reach, Frame

LEMMA CostIs ==
  ASSUME FiniteGateways, NEW f \in Frame
  PROVE  /\ Cost(f) \in Nat /\ Cost(f) >= 1 /\ Trigger(f) \in Nat /\ Own(f) \in Nat /\ Own(f) >= 1 /\ Whole(f) \in Nat
         /\ Cost(f) = Own(f) + Trigger(f)
<1>1. MaxRank + 1 \in Nat
  BY RankAssumption
<1>2. Size \in Nat /\ Price[Reach(f)] \in Nat /\ Price[MaxRank + 1] \in Nat
  BY <1>1, SizeIs, PriceIs, ReachIs
<1>3. f.todo \in SUBSET Gateways
  BY DEF Frame
<1>4. Cardinality(f.todo) \in Nat
  BY <1>3, SizeIs
<1>5. Size * Price[Reach(f)] \in Nat /\ Size * Price[MaxRank + 1] \in Nat /\ Cardinality(f.todo) * Price[Reach(f)] \in Nat
  BY <1>2, <1>4, TimesNat
<1>6. Trigger(f) \in Nat
  BY <1>5 DEF Trigger
<1>7. Whole(f) \in Nat /\ Whole(f) >= 1
  BY <1>5 DEF Whole
<1>8. Own(f) \in Nat /\ Own(f) >= 1
  BY <1>5, <1>7 DEF Own
<1> QED BY <1>6, <1>7, <1>8 DEF Cost

LEMMA CostsAre ==
  ASSUME FiniteGateways, NEW s \in Seq(Frame)
  PROVE  /\ Costs(s) \in [Nat -> Nat]
         /\ \A i \in 1..Len(s) : s[i] \in Frame /\ Costs(s)[i] = Cost(s[i])
<1>1. Len(s) \in Nat /\ \A i \in 1..Len(s) : s[i] \in Frame
  BY LenProperties, ElementOfSeq
<1>2. \A i \in 1..Len(s) : Cost(s[i]) \in Nat
  BY <1>1, CostIs
<1>3. \A i \in 1..Len(s) : i \in Nat
  BY <1>1
<1> QED BY <1>1, <1>2, <1>3 DEF Costs

(* Two stacks with the same frames up to n.                                *)
LEMMA TotalsUpTo ==
  ASSUME FiniteGateways, NEW s \in Seq(Frame), NEW r \in Seq(Frame), NEW n \in Nat,
         n <= Len(s), n <= Len(r), \A i \in 1..n : r[i] = s[i]
  PROVE  Sum(Costs(r), n) = Sum(Costs(s), n) /\ Sum(Costs(s), n) \in Nat
<1>1. Costs(s) \in [Nat -> Nat] /\ Costs(r) \in [Nat -> Nat]
  BY CostsAre
<1>2. Len(s) \in Nat /\ Len(r) \in Nat
  BY LenProperties
<1>3. ASSUME NEW i \in 1..n PROVE Costs(r)[i] = Costs(s)[i]
  <2>1. i \in 1..Len(s) /\ i \in 1..Len(r)
    BY <1>2
  <2> QED BY <2>1, CostsAre
<1> QED BY <1>1, <1>3, SumSame, SumIs

LEMMA TotalIs ==
  ASSUME FiniteGateways, NEW s \in Seq(Frame), s # <<>>
  PROVE  /\ Len(s) \in Nat /\ Len(s) - 1 \in Nat /\ Sum(Costs(s), Len(s) - 1) \in Nat
         /\ Total(s) = Sum(Costs(s), Len(s) - 1) + Cost(s[Len(s)])
         /\ s[Len(s)] \in Frame
<1>1. Len(s) \in Nat /\ Len(s) >= 1 /\ s[Len(s)] \in Frame
  BY TopOfStack
<1> DEFINE n == Len(s) - 1
<1>2. n \in Nat /\ n + 1 = Len(s) /\ Len(s) \in 1..Len(s)
  BY <1>1
<1>3. Costs(s) \in [Nat -> Nat] /\ Costs(s)[Len(s)] = Cost(s[Len(s)])
  BY <1>2, CostsAre
<1> HIDE DEF n
<1>4. Sum(Costs(s), n) \in Nat /\ Sum(Costs(s), n + 1) = Sum(Costs(s), n) + Costs(s)[n + 1]
  BY <1>2, <1>3, SumIs
<1> QED BY <1>1, <1>2, <1>3, <1>4 DEF Total, n

(* The top of a stack is replaced, has a call pushed on it, or returns.    *)
LEMMA TotalsOf ==
  ASSUME FiniteGateways, NEW s \in Seq(Frame), s # <<>>, NEW f \in Frame, NEW h \in Frame
  PROVE  LET u == SubSeq(s, 1, Len(s) - 1)
             r == Append(u, f)
             p == Append(r, h)
         IN  \E n \in Nat :
               /\ Total(s) = n + Cost(s[Len(s)])
               /\ Total(u) = n
               /\ Total(r) = n + Cost(f)
               /\ Total(p) = n + Cost(f) + Cost(h)
<1> DEFINE u == SubSeq(s, 1, Len(s) - 1)
           r == Append(u, f)
           p == Append(r, h)
           m == Len(s) - 1
           n == Sum(Costs(s), m)
<1>1. /\ Len(s) \in Nat /\ m \in Nat /\ n \in Nat /\ m + 1 = Len(s)
      /\ Total(s) = n + Cost(s[Len(s)])
  BY TotalIs
<1>2. /\ u \in Seq(Frame) /\ Len(u) = m /\ \A i \in 1..m : u[i] = s[i]
  BY TopOfStack
<1>3. /\ r \in Seq(Frame) /\ Len(r) = Len(s)
      /\ \A i \in 1..m : r[i] = s[i]
      /\ r[Len(s)] = f
      /\ p \in Seq(Frame) /\ Len(p) = Len(s) + 1
      /\ \A i \in 1..Len(s) : p[i] = r[i]
      /\ p[Len(s) + 1] = h
  BY ReplaceTop
<1> HIDE DEF u, r, p, m
<1>4. Total(u) = n
  <2>1. Sum(Costs(u), m) = Sum(Costs(s), m)
    BY <1>1, <1>2, TotalsUpTo
  <2> QED BY <1>2, <2>1 DEF Total
<1>5. Total(r) = n + Cost(f)
  <2>1. Sum(Costs(r), m) = Sum(Costs(s), m)
    <3>1. m <= Len(s) /\ m <= Len(r)
      BY <1>1, <1>3
    <3> QED BY <1>1, <1>3, <3>1, TotalsUpTo
  <2>2. r # <<>> /\ Len(r) - 1 = m
    BY <1>1, <1>3
  <2> QED BY <1>3, <2>1, <2>2, TotalIs
<1>6. Total(p) = n + Cost(f) + Cost(h)
  <2>1. Sum(Costs(p), Len(s)) = Sum(Costs(r), Len(s))
    BY <1>1, <1>3, TotalsUpTo
  <2>2. p # <<>> /\ Len(p) - 1 = Len(s)
    BY <1>1, <1>3
  <2>3. Total(p) = Sum(Costs(p), Len(s)) + Cost(h)
    BY <1>3, <2>2, TotalIs
  <2>4. Sum(Costs(r), Len(s)) = n + Cost(f)
    BY <1>3, <1>5 DEF Total
  <2> QED BY <2>1, <2>3, <2>4
<1> HIDE DEF n
<1> QED BY <1>1, <1>4, <1>5, <1>6 DEF u, r, p

LEMMA TotalOfOne ==
  ASSUME FiniteGateways, NEW h \in Frame
  PROVE  Total(<<>>) = 0 /\ Total(<<h>>) = Cost(h)
<1>1. <<h>> \in Seq(Frame) /\ <<h>> # <<>> /\ Len(<<h>>) = 1 /\ <<h>>[1] = h
  OBVIOUS
<1>2. Len(<<h>>) - 1 = 0
  BY <1>1
<1>3. Costs(<<h>>) \in [Nat -> Nat]
  BY <1>1, CostsAre
<1>4. Total(<<h>>) = Sum(Costs(<<h>>), 0) + Cost(h) /\ Sum(Costs(<<h>>), 0) = 0
  BY <1>1, <1>2, <1>3, TotalIs, SumIs
<1>5. Total(<<>>) = 0
  <2>1. <<>> \in Seq(Frame) /\ Len(<<>>) = 0
    OBVIOUS
  <2>2. Costs(<<>>) \in [Nat -> Nat]
    BY <2>1, CostsAre
  <2> QED BY <2>1, <2>2, SumIs DEF Total
<1> QED BY <1>4, <1>5, CostIs

LEMMA MainHandlersShrinks ==
  ASSUME FiniteGateways, Inv, NEW th \in Thread, MainHandlers(th)
  PROVE  Total(stack'[th]) < Total(stack[th])
<1> DEFINE s == stack[th]
           f == s[Len(s)]
<1>1. s \in Seq(Frame) /\ s # <<>> /\ f \in Frame /\ stack \in [Thread -> Seq(Frame)]
  BY TopOfStack DEF MainHandlers, Inv, TypeOK
<1>2. PICK e \in {[f EXCEPT !.phase = "relay", !.todo = Audience(f.ev, f.gw)], [f EXCEPT !.phase = "done"]} :
        f.phase = "main" /\ stack'[th] = Append(SubSeq(s, 1, Len(s) - 1), e)
  BY <1>1 DEF MainHandlers, Passes, Replace, Under, Top
<1>3. f.ev \in Event /\ f.gw \in Gateways
  BY <1>1 DEF Frame
<1>4. Audience(f.ev, f.gw) \in SUBSET Gateways
  BY <1>3, TargetAssumption DEF Audience, Event
<1>5. e \in Frame /\ e.ev = f.ev /\ e.gw = f.gw
  BY <1>1, <1>2, <1>4 DEF Frame
<1>6. e.phase = "done" \/ (e.phase = "relay" /\ e.todo = Audience(f.ev, f.gw))
  BY <1>1, <1>2 DEF Frame
<1> HIDE DEF s, f
<1>7. Reach(e) = Reach(f) /\ Trigger(e) = Trigger(f) /\ Whole(e) = Whole(f)
  BY <1>5 DEF Reach, Trigger, Whole
<1>8. Own(e) < Own(f)
  <2>1. Own(f) = 3 + Size * Price[Reach(f)]
    BY <1>2 DEF Own, Whole
  <2>2. Size \in Nat /\ Price[Reach(f)] \in Nat /\ Size * Price[Reach(f)] \in Nat
    BY <1>1, SizeIs, PriceIs, ReachIs, TimesNat
  <2>3. CASE e.phase = "done"
    BY <2>1, <2>2, <2>3 DEF Own
  <2>4. CASE e.phase = "relay" /\ e.todo = Audience(f.ev, f.gw)
    <3>1. Cardinality(e.todo) \in Nat /\ Cardinality(e.todo) <= Size
      BY <1>4, <2>4, SizeIs
    <3>2. Cardinality(e.todo) * Price[Reach(f)] <= Size * Price[Reach(f)]
      BY <2>2, <3>1, TimesOrder
    <3>3. Cardinality(e.todo) * Price[Reach(f)] \in Nat
      BY <2>2, <3>1, TimesNat
    <3>4. Own(e) = 2 + Cardinality(e.todo) * Price[Reach(f)]
      BY <1>7, <2>4 DEF Own
    <3> QED BY <2>1, <2>2, <3>2, <3>3, <3>4
  <2> QED BY <1>6, <2>3, <2>4
<1>9. PICK n \in Nat : Total(s) = n + Cost(f) /\ Total(Append(SubSeq(s, 1, Len(s) - 1), e)) = n + Cost(e)
  BY <1>1, <1>5, TotalsOf DEF f
<1>10. Cost(e) < Cost(f) /\ Cost(e) \in Nat /\ Cost(f) \in Nat
  BY <1>1, <1>5, <1>7, <1>8, CostIs
<1> QED BY <1>2, <1>9, <1>10 DEF s

LEMMA RelayToShrinks ==
  ASSUME FiniteGateways, Inv, NEW th \in Thread, RelayTo(th)
  PROVE  Total(stack'[th]) < Total(stack[th])
<1> DEFINE s == stack[th]
           f == s[Len(s)]
<1>1. /\ s \in Seq(Frame) /\ s # <<>> /\ f \in Frame /\ stack \in [Thread -> Seq(Frame)] /\ FrameInv(f, Len(s))
      /\ Len(s) \in 1..Len(s)
  BY TopOfStack DEF RelayTo, Inv, TypeOK, StackInv
<1>2. f.phase = "relay" /\ f.ev \in Event /\ f.gw \in Gateways /\ f.todo \in SUBSET Gateways /\ f.ev.id \in 0..MaxEvents
  BY <1>1 DEF RelayTo, Top, Frame, Event
<1>3. PICK t \in f.todo : stack' = Copied(th, f, t) \/ stack' = Refused(th, f, t)
  BY DEF RelayTo, Top
<1> DEFINE e == [f EXCEPT !.todo = @ \ {t}]
           h == Fresh(t, Error(f.ev.id))
           r == Append(SubSeq(s, 1, Len(s) - 1), e)
<1>4. e \in Frame /\ e.ev = f.ev /\ e.gw = f.gw /\ e.phase = "relay" /\ e.todo = f.todo \ {t}
  BY <1>1, <1>2 DEF Frame
<1>5. h \in Frame /\ h.gw = t /\ h.ev.kind = "error" /\ h.phase = "main"
  BY <1>2, ErrorEvent, NewFrames DEF Fresh
<1>6. stack'[th] = r \/ stack'[th] = Append(r, h)
  BY <1>1, <1>3 DEF Copied, Refused, Advance, Replace, Under
<1> HIDE DEF s, f, e, h
<1> DEFINE p == Price[Reach(f)]
           c == Cardinality(e.todo)
<1>7. p \in Nat /\ p >= 1
  BY <1>1, PriceIs, ReachIs
<1>8. c \in Nat /\ Cardinality(f.todo) = c + 1
  <2>1. IsFiniteSet(f.todo) /\ e.todo \in SUBSET Gateways
    BY <1>2, <1>4, SizeIs
  <2>2. Cardinality(f.todo \ {t}) = Cardinality(f.todo) - 1 /\ Cardinality(f.todo) \in Nat /\ c \in Nat
    BY <1>2, <2>1, FS_RemoveElement, SizeIs
  <2> QED BY <1>4, <2>2
<1>9. Own(f) = 2 + (c * p + p) /\ Own(e) = 2 + c * p /\ Trigger(e) = Trigger(f) /\ c * p \in Nat
  <2>1. Reach(e) = Reach(f) /\ Trigger(e) = Trigger(f)
    BY <1>4 DEF Reach, Trigger
  <2>2. Own(f) = 2 + (c + 1) * p /\ Own(e) = 2 + c * p
    BY <1>2, <1>4, <1>8, <2>1 DEF Own
  <2>3. (c + 1) * p = c * p + p /\ c * p \in Nat
    BY <1>7, <1>8, TimesNat
  <2> QED BY <2>1, <2>2, <2>3
<1>10. Cost(h) < p
  <2>1. Rank[t] \in Nat /\ Rank[t] + 1 <= Reach(f)
    <3>1. t \in Gateways /\ Rank[t] \in 0..MaxRank /\ Rank[f.gw] \in Nat /\ MaxRank \in Nat
      BY <1>2, RankAssumption
    <3>2. f.ev.kind = "error" => Rank[t] < Rank[f.gw]
      BY <1>1, <1>2, RankAssumption DEF FrameInv
    <3> QED BY <3>1, <3>2 DEF Reach
  <2>2. Reach(f) \in Nat
    BY <1>1, ReachIs
  <2>3. Price[Rank[t] + 1] <= p /\ Price[Rank[t] + 1] = 4 + Size * Price[Rank[t]] /\ Price[Rank[t]] \in Nat
    BY <2>1, <2>2, PriceIs
  <2>4. Cost(h) = 3 + Size * Price[Rank[t]]
    <3>1. Own(h) = 3 + Size * Price[Rank[t]] /\ Trigger(h) = 0
      BY <1>5 DEF Own, Whole, Reach, Trigger
    <3>2. Cost(h) = Own(h) + Trigger(h) /\ Own(h) \in Nat
      BY <1>5, CostIs
    <3> QED BY <3>1, <3>2
  <2>5. Size * Price[Rank[t]] \in Nat
    BY <2>3, SizeIs, TimesNat
  <2> QED BY <1>7, <2>3, <2>4, <2>5
<1>11. PICK n \in Nat : Total(s) = n + Cost(f) /\ Total(r) = n + Cost(e) /\ Total(Append(r, h)) = n + Cost(e) + Cost(h)
  BY <1>1, <1>4, <1>5, TotalsOf DEF f
<1>12. /\ Cost(f) = Own(f) + Trigger(f) /\ Cost(e) = Own(e) + Trigger(e)
       /\ Cost(h) \in Nat /\ Trigger(f) \in Nat
  BY <1>1, <1>4, <1>5, CostIs
<1> HIDE DEF p, c, r
<1>13. Cost(e) + p = Cost(f) /\ Cost(e) \in Nat /\ Cost(f) \in Nat
  BY <1>7, <1>9, <1>12
<1>14. Total(r) < Total(s) /\ Total(Append(r, h)) < Total(s)
  BY <1>7, <1>10, <1>11, <1>12, <1>13
<1> QED BY <1>6, <1>14 DEF s

(* The trigger of a chat costs what the chat set aside for it.             *)
LEMMA TriggerCosts ==
  ASSUME FiniteGateways, NEW f \in Frame, f.ev.kind = "chat"
  PROVE  TriggerOf(f) \in Frame /\ Cost(TriggerOf(f)) = Trigger(f)
<1> DEFINE h == TriggerOf(f)
<1>1. f.ev \in Event /\ f.gw \in Gateways
  BY DEF Frame
<1>2. [f.ev EXCEPT !.kind = "trigger"] \in Event /\ [f.ev EXCEPT !.kind = "trigger"].kind = "trigger"
  BY <1>1 DEF Event
<1>3. h \in Frame /\ h.ev.kind = "trigger" /\ h.phase = "main"
  BY <1>1, <1>2, NewFrames DEF Fresh, TriggerOf
<1> HIDE DEF h
<1>4. Own(h) = Trigger(f) /\ Trigger(h) = 0
  BY <1>3 DEF Own, Whole, Reach, Trigger
<1>5. Trigger(f) \in Nat
  BY CostIs
<1>6. Cost(h) = Trigger(f)
  BY <1>4, <1>5 DEF Cost
<1> QED BY <1>3, <1>6 DEF h

LEMMA LocalHandlersShrinks ==
  ASSUME FiniteGateways, Inv, NEW th \in Thread, LocalHandlers(th)
  PROVE  Total(stack'[th]) < Total(stack[th])
<1> DEFINE s == stack[th]
           f == s[Len(s)]
           finished == [f EXCEPT !.phase = "done"]
           trigger == TriggerOf(f)
<1>1. s \in Seq(Frame) /\ s # <<>> /\ f \in Frame /\ stack \in [Thread -> Seq(Frame)]
  BY TopOfStack DEF LocalHandlers, Inv, TypeOK
<1>2. /\ f.phase = "relay" /\ f.todo = {}
      /\ \/ stack'[th] = Append(SubSeq(s, 1, Len(s) - 1), finished)
         \/ f.ev.kind = "chat" /\ stack'[th] = Append(SubSeq(s, 1, Len(s) - 1), trigger)
  BY <1>1 DEF LocalHandlers, Asks, Replace, Under, Top
<1>3. finished \in Frame /\ finished.ev = f.ev /\ finished.phase = "done"
  BY <1>1 DEF Frame
<1>4. f.ev.kind = "chat" => trigger \in Frame /\ Cost(trigger) = Trigger(f)
  BY <1>1, TriggerCosts
<1> HIDE DEF s, f, finished, trigger
<1>5. Cost(f) = 2 + Trigger(f) /\ Trigger(f) \in Nat
  <2>1. Price[Reach(f)] \in Nat /\ Cardinality(f.todo) = 0
    BY <1>1, <1>2, PriceIs, ReachIs, FS_EmptySet
  <2>2. 0 * Price[Reach(f)] = 0
    BY <2>1
  <2>3. Own(f) = 2
    BY <1>2, <2>1, <2>2 DEF Own
  <2> QED BY <1>1, <2>3, CostIs
<1>6. Cost(finished) = 1 + Trigger(f)
  BY <1>1, <1>3, CostIs DEF Own, Trigger
<1>7. ASSUME NEW e \in Frame, Cost(e) < Cost(f), Cost(e) \in Nat,
             stack'[th] = Append(SubSeq(s, 1, Len(s) - 1), e)
      PROVE  Total(stack'[th]) < Total(s)
  <2>1. PICK n \in Nat : Total(s) = n + Cost(f) /\ Total(Append(SubSeq(s, 1, Len(s) - 1), e)) = n + Cost(e)
    BY <1>1, TotalsOf DEF f
  <2> QED BY <1>5, <1>7, <2>1
<1>8. CASE stack'[th] = Append(SubSeq(s, 1, Len(s) - 1), finished)
  <2>1. Cost(finished) < Cost(f) /\ Cost(finished) \in Nat
    BY <1>5, <1>6
  <2> QED BY <2>1, <1>3, <1>7, <1>8, Zenon DEF s
<1>9. CASE f.ev.kind = "chat" /\ stack'[th] = Append(SubSeq(s, 1, Len(s) - 1), trigger)
  <2>1. trigger \in Frame /\ Cost(trigger) < Cost(f) /\ Cost(trigger) \in Nat
    BY <1>4, <1>5, <1>9
  <2> QED BY <2>1, <1>7, <1>9, Zenon DEF s
<1> QED BY <1>2, <1>8, <1>9 DEF s

LEMMA ReturnShrinks ==
  ASSUME FiniteGateways, Inv, NEW th \in Thread, Return(th)
  PROVE  Total(stack'[th]) < Total(stack[th])
<1> DEFINE s == stack[th]
           f == s[Len(s)]
           u == SubSeq(s, 1, Len(s) - 1)
           h == TriggerOf(f)
<1>1. s \in Seq(Frame) /\ s # <<>> /\ f \in Frame /\ stack \in [Thread -> Seq(Frame)]
  BY TopOfStack DEF Return, Inv, TypeOK
<1>2. /\ f.phase = "done"
      /\ (f.ev.kind = "chat" /\ stack'[th] = <<h>>) \/ stack'[th] = u
  BY <1>1 DEF Return, Top, Under
<1>3. PICK n \in Nat : Total(s) = n + Cost(f) /\ Total(u) = n
  BY <1>1, TotalsOf
<1> HIDE DEF f, u, h
<1>4. Cost(f) = 1 + Trigger(f) /\ Trigger(f) \in Nat
  BY <1>1, <1>2, CostIs DEF Own
<1>5. CASE stack'[th] = u
  BY <1>3, <1>4, <1>5 DEF s
<1>6. CASE f.ev.kind = "chat" /\ stack'[th] = <<h>>
  <2>1. h \in Frame /\ Cost(h) = Trigger(f)
    BY <1>1, <1>6, TriggerCosts DEF h
  <2>2. Total(<<h>>) = Cost(h)
    BY <2>1, TotalOfOne
  <2> QED BY <1>3, <1>4, <1>6, <2>1, <2>2 DEF s
<1> QED BY <1>2, <1>5, <1>6

LEMMA ShrinksInFire ==
  ASSUME FiniteGateways, OInv, [Next]_vars, NEW th \in Thread,
         stack[th] # <<>>, stack'[th] # stack[th] \/ Dispatch(th)
  PROVE  Total(stack'[th]) < Total(stack[th])
<1>1. Inv /\ Way /\ stack \in [Thread -> Seq(Frame)]
  BY DEF OInv, Inv, TypeOK
<1>2. CASE Dispatch(th)
  BY <1>1, <1>2, MainHandlersShrinks, RelayToShrinks, LocalHandlersShrinks, ReturnShrinks DEF Dispatch
<1>3. CASE stack'[th] # stack[th]
  <2>1. ASSUME NEW t \in Thread, Dispatch(t) PROVE t = th
    BY <1>1, <1>3, <2>1 DEF Dispatch, MainHandlers, Passes, RelayTo, LocalHandlers, Return, Copied, Refused, Advance, Replace
  <2>2. ASSUME NEW g \in Gateways, FireChat(g) PROVE FALSE
    BY <1>1, <1>3, <2>2 DEF FireChat
  <2>3. ASSUME NEW g \in Gateways, Drain(g) \/ DrainFails(g) PROVE FALSE
    BY <1>1, <1>3, <2>3 DEF Drain, DrainFails
  <2>4. ASSUME NEW i \in Id, Reply(i) PROVE FALSE
    <3>1. th = <<i, "cmd">> /\ command[i] \in Gateways
      BY <1>1, <1>3, <2>4 DEF Reply
    <3>2. command[i] = "done"
      BY <1>1, <3>1 DEF Way, Answers
    <3> QED BY <3>1, <3>2, NameAssumption
  <2>5. ~UNCHANGED vars
    BY <1>3 DEF vars
  <2> QED BY <1>2, <2>1, <2>2, <2>3, <2>4, <2>5 DEF Next
<1> QED BY <1>2, <1>3

(* The steps a goroutine in Fire has left at most, and those it begins     *)
(* with.                                                                   *)
Debt(th) == Total(stack[th])
Limit == 2 * (3 + Size * Price[MaxRank + 1])
InDebt == \A th \in Thread : Debt(th) \in 0..Limit

LEMMA FreshDebt ==
  ASSUME FiniteGateways, NEW g \in Gateways, NEW ev \in Event
  PROVE  Total(<<Fresh(g, ev)>>) \in 0..Limit
<1> DEFINE h == Fresh(g, ev)
           w == 3 + Size * Price[MaxRank + 1]
<1>1. h \in Frame /\ h.phase = "main" /\ Cost(h) \in Nat /\ Cost(h) = Whole(h) + Trigger(h)
  BY NewFrames, CostIs DEF Fresh, Own
<1> HIDE DEF h
<1>2. Size \in Nat /\ Reach(h) \in Nat /\ Reach(h) <= MaxRank + 1 /\ MaxRank + 1 \in Nat
  BY <1>1, SizeIs, ReachIs, RankAssumption
<1>3. Price[Reach(h)] <= Price[MaxRank + 1] /\ Price[Reach(h)] \in Nat /\ Price[MaxRank + 1] \in Nat
  BY <1>2, PriceIs
<1>4. Price[Reach(h)] * Size <= Price[MaxRank + 1] * Size
  BY <1>2, <1>3, TimesOrder
<1>5. /\ Size * Price[Reach(h)] \in Nat /\ Size * Price[MaxRank + 1] \in Nat
      /\ Size * Price[Reach(h)] <= Size * Price[MaxRank + 1]
  <2>1. \A x, y \in Nat : x * y = y * x
    OBVIOUS
  <2> QED BY <1>2, <1>3, <1>4, <2>1, TimesNat
<1>6. Whole(h) <= w /\ Trigger(h) <= w /\ Whole(h) \in Nat /\ Trigger(h) \in Nat /\ w \in Nat
  BY <1>1, <1>5, CostIs DEF Whole, Trigger
<1> HIDE DEF w
<1>7. Cost(h) <= 2 * w /\ 2 * w \in Nat
  BY <1>1, <1>6
<1> QED BY <1>1, <1>7, TotalOfOne DEF Limit, w, h

LEMMA DebtKept ==
  ASSUME FiniteGateways, OInv, OInv', InDebt, [Next]_vars
  PROVE  InDebt'
<1> SUFFICES ASSUME NEW th \in Thread PROVE Total(stack'[th]) \in 0..Limit
  BY DEF InDebt, Debt
<1>1. Total(stack[th]) \in 0..Limit /\ stack \in [Thread -> Seq(Frame)] /\ stack' \in [Thread -> Seq(Frame)]
  BY DEF InDebt, Debt, OInv, Inv, TypeOK
<1>2. Total(stack'[th]) \in Nat /\ Limit \in Nat
  <2>1. stack'[th] \in Seq(Frame)
    BY <1>1
  <2>2. MaxRank + 1 \in Nat
    BY RankAssumption
  <2>3. Size * Price[MaxRank + 1] \in Nat
    BY <2>2, SizeIs, PriceIs, TimesNat
  <2>4. Limit \in Nat
    BY <2>3 DEF Limit
  <2>5. Costs(stack'[th]) \in [Nat -> Nat] /\ Len(stack'[th]) \in Nat
    BY <2>1, CostsAre, LenProperties
  <2> QED BY <2>4, <2>5, SumIs DEF Total
<1>3. CASE stack'[th] = stack[th]
  BY <1>1, <1>3
<1>4. CASE stack[th] # <<>> /\ stack'[th] # stack[th]
  BY <1>1, <1>2, <1>4, ShrinksInFire
<1>5. CASE stack[th] = <<>> /\ stack'[th] # stack[th]
  <2>1. ASSUME NEW g \in Gateways, FireChat(g) PROVE Total(stack'[th]) \in 0..Limit
    <3>1. PICK level \in Levels, text \in {"talk", "cmd", "ask"} :
            stack' = [stack EXCEPT ![<<g, "loop">>] = <<Fresh(g, Chat(level, text))>>]
      BY <2>1 DEF FireChat
    <3>2. Chat(level, text) \in Event
      BY <2>1 DEF FireChat, Chat, Event, Id
    <3>3. stack'[th] = <<Fresh(g, Chat(level, text))>>
      BY <1>1, <1>5, <3>1
    <3> QED BY <3>2, <3>3, FreshDebt
  <2>2. ASSUME NEW g \in Gateways, DrainFails(g) PROVE Total(stack'[th]) \in 0..Limit
    <3>1. stack'[th] = <<Fresh(g, Error(0))>>
      BY <1>1, <1>5, <2>2 DEF DrainFails
    <3>2. Error(0) \in Event
      BY BoundAssumption, ErrorEvent
    <3> QED BY <3>1, <3>2, FreshDebt
  <2>3. ASSUME NEW i \in Id, Reply(i) PROVE Total(stack'[th]) \in 0..Limit
    <3> DEFINE ev == [kind |-> "say", id |-> i, level |-> 0, text |-> "talk"]
    <3>1. stack'[th] = <<Fresh(command[i], ev)>> /\ command[i] \in Gateways
      BY <1>1, <1>5, <2>3 DEF Reply
    <3>2. ev \in Event
      BY BoundAssumption DEF Event, Id
    <3> HIDE DEF ev
    <3> QED BY <3>1, <3>2, FreshDebt
  <2>4. ASSUME NEW t \in Thread, Dispatch(t) PROVE FALSE
    <3>1. stack[t] # <<>>
      BY <2>4 DEF Dispatch, MainHandlers, RelayTo, LocalHandlers, Return
    <3>2. t = th
      BY <1>1, <1>5, <2>4 DEF Dispatch, MainHandlers, Passes, RelayTo, LocalHandlers, Return, Copied, Refused, Advance, Replace
    <3> QED BY <1>5, <3>1, <3>2
  <2>5. ASSUME NEW g \in Gateways, Drain(g) PROVE FALSE
    BY <1>5, <2>5 DEF Drain
  <2>6. ~UNCHANGED vars
    BY <1>5 DEF vars
  <2> QED BY <2>1, <2>2, <2>3, <2>4, <2>5, <2>6 DEF Next
<1> QED BY <1>3, <1>4, <1>5

LEMMA DebtInit ==
  ASSUME FiniteGateways, Init
  PROVE  InDebt
<1> SUFFICES ASSUME NEW th \in Thread PROVE Total(stack[th]) \in 0..Limit
  BY DEF InDebt, Debt
<1>1. stack[th] = <<>>
  BY DEF Init
<1>2. Fresh(Console, Error(0)) \in Frame
  BY ConsoleAssumption, BoundAssumption, ErrorEvent, NewFrames
<1>3. Total(stack[th]) = 0
  BY <1>1, <1>2, TotalOfOne
<1>4. Limit \in Nat
  <2>1. MaxRank + 1 \in Nat
    BY RankAssumption
  <2>2. Size * Price[MaxRank + 1] \in Nat
    BY <2>1, SizeIs, PriceIs, TimesNat
  <2> QED BY <2>2 DEF Limit
<1> QED BY <1>3, <1>4

(* Every step that a goroutine takes in Fire, and every other that changes *)
(* its stack meanwhile, lowers its debt: no error of a relay               *)
(* (AddEventHandler's Log) keeps a call going.                             *)
FireShrinks ==
  [][\A th \in Thread :
       stack[th] # <<>> /\ (stack'[th] # stack[th] \/ Dispatch(th)) => Debt(th)' < Debt(th)]_vars

(* The state after the next step of a goroutine in Fire, for each handler  *)
(* that may be next: a relay puts its line in the queue or, if that is     *)
(* full, counts it as dropped and fires an error on the target.            *)
First(f, t) == t \in f.todo /\ \A u \in f.todo : Position[f.gw][t] <= Position[f.gw][u]

State(calls, lines, held, run, lost) == <<calls, lines, held, run, next, fails, lost, excused>>

Relayed(th, f, t) ==
  LET line == [kind |-> f.ev.kind, id |-> f.ev.id, from |-> f.gw]
  IN IF Full(t)
     THEN State(Refused(th, f, t), log, load, command, [dropped EXCEPT ![t] = @ + 1])
     ELSE State(Copied(th, f, t), [log EXCEPT ![t] = Append(@, line)],
                IF t = Console THEN load ELSE [load EXCEPT ![t] = @ + 1], command, dropped)

Handled(th, f) ==
  State(Replace(th, IF Asks(f) THEN TriggerOf(f) ELSE [f EXCEPT !.phase = "done"]), log, load,
        IF f.ev.kind = "trigger" THEN [command EXCEPT ![f.ev.id] = f.gw] ELSE command, dropped)

Returned(th, f) ==
  State([stack EXCEPT ![th] = IF f.ev.kind = "chat" /\ f.ev.text = "cmd" /\ f.ev.level >= TriggerAccess
                                THEN <<TriggerOf(f)>> ELSE Under(th)],
        log, load, command, dropped)

Onward(th) ==
  LET f == Top(th) IN
  CASE f.phase = "main" -> State(Passes(th, f), log, load, command, dropped)
    [] f.phase = "relay" /\ f.todo # {} -> Relayed(th, f, CHOOSE t \in Gateways : First(f, t))
    [] f.phase = "relay" /\ f.todo = {} -> Handled(th, f)
    [] f.phase = "done" -> Returned(th, f)

(* A set of gateways that is not empty has one with the least position.    *)
LEMMA FirstRelay ==
  ASSUME NEW f \in Frame, f.todo # {}
  PROVE  \E t \in Gateways : First(f, t)
<1>1. f.gw \in Gateways /\ f.todo \in SUBSET Gateways
  BY DEF Frame
<1> DEFINE P == {Position[f.gw][t] : t \in f.todo}
<1>2. P \in SUBSET Nat /\ P # {}
  BY <1>1, TargetAssumption
<1>3. PICK i \in P : \A j \in P : <<j, i>> \notin OpToRel(<, Nat)
  <2> HIDE DEF P
  <2> QED BY <1>2, NatLessThanWellFounded, WFMin, Zenon
<1>4. \A j \in P : ~(j < i)
  <2> HIDE DEF P
  <2> QED BY <1>2, <1>3, Zenon DEF OpToRel
<1>5. PICK t \in f.todo : i = Position[f.gw][t]
  BY <1>3, Zenon
<1>6. \A u \in f.todo : Position[f.gw][t] <= Position[f.gw][u]
  <2> TAKE u \in f.todo
  <2>1. Position[f.gw][u] \in P /\ Position[f.gw][u] \in Nat /\ Position[f.gw][t] \in Nat
    BY <1>1, TargetAssumption
  <2> HIDE DEF P
  <2>2. ~(Position[f.gw][u] < i)
    BY <1>4, <2>1
  <2> QED BY <1>5, <2>1, <2>2
<1> QED BY <1>1, <1>6 DEF First

(* Every call of Fire returns after at most Limit steps, a number that     *)
(* depends on the gateways and the Log relays alone: each step of a        *)
(* goroutine in Fire leaves it fewer, whatever the queues, the servers and *)
(* the other goroutines do.                                                *)
THEOREM FireTakesBoundedSteps == ASSUME FiniteGateways PROVE Spec => []InDebt /\ FireShrinks
<1>1. OInv /\ [Next]_vars =>
        [\A th \in Thread :
           stack[th] # <<>> /\ (stack'[th] # stack[th] \/ Dispatch(th)) => Debt(th)' < Debt(th)]_vars
  BY ShrinksInFire DEF Debt
<1>2. Init => InDebt
  BY DebtInit
<1>3. OInv /\ OInv' /\ InDebt /\ [Next]_vars => InDebt'
  BY DebtKept
<1>4. Spec => []OInv
  BY OInvHolds
<1> QED BY <1>1, <1>2, <1>3, <1>4, PTL DEF Spec, FireShrinks

(* A goroutine in Fire can always take its next step: in every state of    *)
(* the invariant, which all reachable ones satisfy (InvHolds), the state   *)
(* given by Onward is one that a step of it leads to.  Onward looks at the *)
(* goroutine's own calls and, for what a relay does, at the one queue that *)
(* it is for, which may be full; nothing is asked of any other goroutine.  *)
THEOREM FireNeverWaits ==
  ASSUME Inv, NEW th \in Thread, stack[th] # <<>>, vars' = Onward(th)
  PROVE  Dispatch(th)
<1>1. PICK f \in Frame : f = Top(th)
  BY TopOfStack DEF Inv, TypeOK, Top
<1>2. CASE f.phase = "main"
  <2>1. vars' = State(Passes(th, f), log, load, command, dropped)
    BY <1>1, <1>2 DEF Onward
  <2>2. MainHandlers(th)
    BY <2>1, <1>1, <1>2 DEF MainHandlers, State, vars
  <2>3. QED
    BY <2>2 DEF Dispatch
<1>3. CASE f.phase = "relay" /\ f.todo # {}
  <2>1. PICK t \in Gateways : t = (CHOOSE u \in Gateways : First(f, u)) /\ First(f, t)
    BY <1>3, FirstRelay
  <2>2. vars' = Relayed(th, f, t)
    BY <1>1, <1>3, <2>1 DEF Onward
  <2>3. CASE Full(t)
    <3>1. /\ stack' = Refused(th, f, t) /\ dropped' = [dropped EXCEPT ![t] = @ + 1]
          /\ UNCHANGED <<log, load, command, next, fails, excused>>
      BY <2>2, <2>3 DEF Relayed, State, vars
    <3>2. RelayTo(th)
      BY <1>1, <1>3, <2>1, <2>3, <3>1 DEF RelayTo, First
    <3>3. QED
      BY <3>2 DEF Dispatch
  <2>4. CASE ~Full(t)
    <3>1. /\ stack' = Copied(th, f, t) /\ Put(t, [kind |-> f.ev.kind, id |-> f.ev.id, from |-> f.gw])
          /\ UNCHANGED <<command, next, fails, dropped, excused>>
      BY <2>2, <2>4 DEF Relayed, State, vars, Put
    <3>2. RelayTo(th)
      BY <1>1, <1>3, <2>1, <2>4, <3>1 DEF RelayTo, First
    <3>3. QED
      BY <3>2 DEF Dispatch
  <2>5. QED
    BY <2>3, <2>4
<1>4. CASE f.phase = "relay" /\ f.todo = {}
  <2>1. vars' = Handled(th, f)
    BY <1>1, <1>4 DEF Onward
  <2>2. LocalHandlers(th)
    BY <2>1, <1>1, <1>4 DEF Handled, LocalHandlers, NoKick, State, vars, losses
  <2>3. QED
    BY <2>2 DEF Dispatch
<1>5. CASE f.phase = "done"
  <2>1. vars' = Returned(th, f)
    BY <1>1, <1>5 DEF Onward
  <2>2. Return(th)
    BY <2>1, <1>1, <1>5 DEF Returned, Return, State, vars, losses
  <2>3. QED
    BY <2>2 DEF Dispatch
<1>6. QED
  BY <1>1, <1>2, <1>3, <1>4, <1>5 DEF Frame

=============================================================================
