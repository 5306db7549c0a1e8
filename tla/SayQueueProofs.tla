--------------------------- MODULE SayQueueProofs ---------------------------
(***************************************************************************)
(* Proofs about SayQueue, for every number of callers, calls and every     *)
(* BufSize: SayFifo keeps the order of the lines, the queue implements     *)
(* SayFifo, and so keeps it too.                                           *)
(***************************************************************************)
EXTENDS SayQueue, SequenceTheorems, TLAPS

-----------------------------------------------------------------------------
(* What the queue of SayFifo guarantees *)

(* The strengthening of WireOrdered: what is on the wire was accepted      *)
(* before what is pending, and what is pending is in the order of          *)
(* acceptance.                                                             *)
PendingOrdered ==
  /\ \A i \in DOMAIN wire, k \in DOMAIN Pending : Fifo!Before(accepted, wire[i], Pending[k])
  /\ \A k, l \in DOMAIN Pending : k < l => Fifo!Before(accepted, Pending[k], Pending[l])

(* What is on the wire or pending was accepted. *)
FromAccepted ==
  /\ Fifo!Contents(wire) \subseteq Fifo!Contents(accepted)
  /\ Fifo!Contents(Pending) \subseteq Fifo!Contents(accepted)

FifoInv == Fifo!TypeOK /\ Fifo!AcceptedOnce /\ FromAccepted /\ Fifo!WireOrdered /\ PendingOrdered

(* Appending to a sequence keeps the order of what it already holds, and   *)
(* puts the new element behind all of it.                                  *)
LEMMA BeforeAppend ==
  ASSUME NEW S, NEW s \in Seq(S), NEW m \in S
  PROVE  /\ \A a, b : Fifo!Before(s, a, b) => Fifo!Before(Append(s, m), a, b)
         /\ \A a \in Fifo!Contents(s) : Fifo!Before(Append(s, m), a, m)
         /\ Fifo!Contents(Append(s, m)) = Fifo!Contents(s) \cup {m}
<1> DEFINE t == Append(s, m)
<1>1. /\ t \in Seq(S)
      /\ Len(s) \in Nat
      /\ DOMAIN s = 1..Len(s)
      /\ DOMAIN t = 1..(Len(s) + 1)
      /\ t[Len(s) + 1] = m
      /\ \A i \in 1..Len(s) : t[i] = s[i]
  BY AppendProperties, LenProperties
<1> HIDE DEF t
<1>2. \A a, b : Fifo!Before(s, a, b) => Fifo!Before(t, a, b)
  BY <1>1 DEF Fifo!Before
<1>3. ASSUME NEW a \in Fifo!Contents(s) PROVE Fifo!Before(t, a, m)
  <2>1. PICK i \in 1..Len(s) : s[i] = a
    BY <1>1 DEF Fifo!Contents
  <2>2. i < Len(s) + 1 /\ t[i] = a /\ i \in DOMAIN t /\ Len(s) + 1 \in DOMAIN t
    BY <1>1, <2>1
  <2> QED
    BY <1>1, <2>2 DEF Fifo!Before
<1>4. Fifo!Contents(t) = Fifo!Contents(s) \cup {m}
  <2>1. ASSUME NEW x \in Fifo!Contents(t) PROVE x \in Fifo!Contents(s) \cup {m}
    BY <1>1, <2>1 DEF Fifo!Contents
  <2>2. ASSUME NEW x \in Fifo!Contents(s) PROVE x \in Fifo!Contents(t)
    BY <1>1, <2>2 DEF Fifo!Contents
  <2>3. m \in Fifo!Contents(t)
    BY <1>1 DEF Fifo!Contents
  <2> QED
    BY <2>1, <2>2, <2>3
<1> QED
  BY <1>2, <1>3, <1>4 DEF t

(* The tail of a non-empty sequence, index by index.                       *)
LEMMA TailIndices ==
  ASSUME NEW S, NEW s \in Seq(S), s # <<>>
  PROVE  /\ Head(s) = s[1] /\ Head(s) \in S /\ 1 \in DOMAIN s
         /\ Tail(s) \in Seq(S)
         /\ \A k \in DOMAIN Tail(s) : k + 1 \in DOMAIN s /\ Tail(s)[k] = s[k + 1] /\ k \in Nat /\ k > 0
         /\ Fifo!Contents(Tail(s)) \subseteq Fifo!Contents(s)
<1>1. /\ Len(s) \in Nat /\ Len(s) > 0 /\ DOMAIN s = 1..Len(s)
      /\ Head(s) = s[1] /\ Head(s) \in S
      /\ Tail(s) \in Seq(S) /\ Len(Tail(s)) = Len(s) - 1
      /\ \A k \in 1..Len(Tail(s)) : Tail(s)[k] = s[k + 1]
  BY HeadTailProperties, LenProperties, EmptySeq
<1>2. DOMAIN Tail(s) = 1..(Len(s) - 1)
  BY <1>1, LenProperties
<1>3. \A k \in DOMAIN Tail(s) : k + 1 \in DOMAIN s /\ Tail(s)[k] = s[k + 1] /\ k \in Nat /\ k > 0
  BY <1>1, <1>2
<1> QED
  BY <1>1, <1>3 DEF Fifo!Contents

LEMMA FifoInvInit == Fifo!Init => FifoInv
BY DEF Fifo!Init, FifoInv, Fifo!TypeOK, Fifo!AcceptedOnce, FromAccepted, Fifo!WireOrdered, PendingOrdered, Fifo!Contents

LEMMA FifoInvNext == FifoInv /\ [Fifo!Next]_(Fifo!vars) => FifoInv'
<1> SUFFICES ASSUME FifoInv, [Fifo!Next]_(Fifo!vars) PROVE FifoInv'
  OBVIOUS
<1> USE DEF FifoInv
<1>1. CASE \E m \in Message : Fifo!Accept(m)
  <2>1. PICK m \in Message : Fifo!Accept(m)
    BY <1>1
  <2>2. /\ \A a, b : Fifo!Before(accepted, a, b) => Fifo!Before(accepted', a, b)
        /\ \A a \in Fifo!Contents(accepted) : Fifo!Before(accepted', a, m)
        /\ Fifo!Contents(accepted') = Fifo!Contents(accepted) \cup {m}
        /\ Fifo!Contents(Pending') = Fifo!Contents(Pending) \cup {m}
    BY <2>1, BeforeAppend DEF Fifo!Accept, Fifo!TypeOK
  <2>3. Fifo!TypeOK'
    BY <2>1, AppendProperties DEF Fifo!Accept, Fifo!TypeOK
  <2>4. Fifo!AcceptedOnce'
    BY <2>1, AppendProperties, LenProperties DEF Fifo!Accept, Fifo!TypeOK, Fifo!AcceptedOnce, Fifo!Contents
  <2>5. FromAccepted'
    BY <2>1, <2>2 DEF Fifo!Accept, FromAccepted
  <2>6. Fifo!WireOrdered'
    BY <2>1, <2>2 DEF Fifo!Accept, Fifo!WireOrdered
  <2>7. \A k \in DOMAIN Pending' : \/ k \in DOMAIN Pending /\ Pending'[k] = Pending[k]
                                   \/ k = Len(Pending) + 1 /\ Pending'[k] = m
    BY <2>1, AppendProperties, LenProperties DEF Fifo!Accept, Fifo!TypeOK
  <2>8. /\ \A i \in DOMAIN wire : wire[i] \in Fifo!Contents(accepted)
        /\ \A k \in DOMAIN Pending : Pending[k] \in Fifo!Contents(accepted) /\ k \in 1..Len(Pending)
    BY LenProperties DEF FromAccepted, Fifo!Contents, Fifo!TypeOK
  <2>9. PendingOrdered'
    <3>1. ASSUME NEW i \in DOMAIN wire', NEW k \in DOMAIN Pending'
          PROVE  Fifo!Before(accepted', wire'[i], Pending'[k])
      BY <2>1, <2>2, <2>7, <2>8 DEF Fifo!Accept, PendingOrdered
    <3>2. ASSUME NEW k \in DOMAIN Pending', NEW l \in DOMAIN Pending', k < l
          PROVE  Fifo!Before(accepted', Pending'[k], Pending'[l])
      <4>1. k \in DOMAIN Pending /\ Pending'[k] = Pending[k]
        BY <2>7, <2>8, <3>2, LenProperties DEF Fifo!TypeOK
      <4> QED
        BY <2>2, <2>7, <2>8, <3>2, <4>1 DEF PendingOrdered
    <3> QED
      BY <3>1, <3>2 DEF PendingOrdered
  <2> QED
    BY <2>3, <2>4, <2>5, <2>6, <2>9
<1>2. ASSUME Pending # <<>>, Pending' = Tail(Pending), UNCHANGED accepted,
             \/ wire' = Append(wire, Head(Pending)) /\ UNCHANGED lost
             \/ UNCHANGED wire /\ lost' = lost \cup {Head(Pending)}
      PROVE  FifoInv'
  <2>1. /\ Head(Pending) = Pending[1] /\ Head(Pending) \in Message /\ 1 \in DOMAIN Pending
        /\ Pending' \in Seq(Message)
        /\ \A k \in DOMAIN Pending' :
             k + 1 \in DOMAIN Pending /\ Pending'[k] = Pending[k + 1] /\ k \in Nat /\ k > 0
        /\ Fifo!Contents(Pending') \subseteq Fifo!Contents(Pending)
    BY <1>2, TailIndices DEF Fifo!TypeOK
  <2>2. /\ wire' \in Seq(Message)
        /\ \A i \in DOMAIN wire' : \/ i \in DOMAIN wire /\ wire'[i] = wire[i]
                                   \/ i = Len(wire) + 1 /\ wire'[i] = Pending[1]
    <3>1. CASE wire' = Append(wire, Head(Pending))
      <4>1. wire \in Seq(Message) /\ Head(Pending) \in Message
        BY <2>1 DEF Fifo!TypeOK
      <4>2. /\ wire' \in Seq(Message)
            /\ Len(wire') = Len(wire) + 1
            /\ \A i \in 1..Len(wire) : wire'[i] = wire[i]
            /\ wire'[Len(wire) + 1] = Pending[1]
        BY <2>1, <3>1, <4>1, AppendProperties
      <4>3. DOMAIN wire = 1..Len(wire) /\ DOMAIN wire' = 1..(Len(wire) + 1) /\ Len(wire) \in Nat
        BY <4>1, <4>2, LenProperties
      <4> QED
        BY <4>2, <4>3
    <3>2. CASE UNCHANGED wire
      BY <3>2 DEF Fifo!TypeOK
    <3> QED
      BY <1>2, <3>1, <3>2
  <2>3. Fifo!TypeOK'
    <3>1. lost' \in SUBSET Message
      BY <1>2, <2>1 DEF Fifo!TypeOK
    <3> QED
      BY <1>2, <2>1, <2>2, <3>1 DEF Fifo!TypeOK
  <2>4. Fifo!AcceptedOnce'
    BY <1>2 DEF Fifo!AcceptedOnce
  <2>5. FromAccepted'
    <3>1. \A i \in DOMAIN wire' : wire'[i] \in Fifo!Contents(accepted)
      BY <2>1, <2>2 DEF FromAccepted, Fifo!Contents
    <3>2. Fifo!Contents(wire') \subseteq Fifo!Contents(accepted)
      BY <3>1 DEF Fifo!Contents
    <3> QED
      BY <1>2, <2>1, <3>2 DEF FromAccepted
  <2>6. \A i \in DOMAIN wire : i \in 1..Len(wire)
    BY LenProperties DEF Fifo!TypeOK
  <2>7. Fifo!WireOrdered'
    <3> SUFFICES ASSUME NEW i \in DOMAIN wire', NEW j \in DOMAIN wire', i < j
                 PROVE  Fifo!Before(accepted, wire'[i], wire'[j])
      BY <1>2 DEF Fifo!WireOrdered
    <3>1. i \in DOMAIN wire /\ wire'[i] = wire[i]
      BY <2>2, <2>6, LenProperties DEF Fifo!TypeOK
    <3> QED
      BY <2>1, <2>2, <3>1 DEF Fifo!WireOrdered, PendingOrdered
  <2>8. PendingOrdered'
    <3>1. ASSUME NEW i \in DOMAIN wire', NEW k \in DOMAIN Pending'
          PROVE  Fifo!Before(accepted, wire'[i], Pending'[k])
      <4>1. k + 1 \in DOMAIN Pending /\ Pending'[k] = Pending[k + 1] /\ 1 < k + 1
        BY <2>1
      <4> QED
        BY <2>1, <2>2, <4>1 DEF PendingOrdered
    <3>2. ASSUME NEW k \in DOMAIN Pending', NEW l \in DOMAIN Pending', k < l
          PROVE  Fifo!Before(accepted, Pending'[k], Pending'[l])
      BY <2>1, <3>2 DEF PendingOrdered
    <3> QED
      BY <1>2, <3>1, <3>2 DEF PendingOrdered
  <2> QED
    BY <2>3, <2>4, <2>5, <2>7, <2>8
<1>3. CASE Fifo!Deliver
  BY <1>2, <1>3 DEF Fifo!Deliver
<1>4. CASE Fifo!GiveUp
  BY <1>2, <1>4 DEF Fifo!GiveUp
<1>5. CASE UNCHANGED Fifo!vars
  <2>1. accepted' = accepted /\ Pending' = Pending /\ wire' = wire /\ lost' = lost
    BY <1>5 DEF Fifo!vars
  <2>2. Fifo!TypeOK'
    BY <2>1 DEF Fifo!TypeOK
  <2>3. Fifo!AcceptedOnce' /\ FromAccepted'
    BY <2>1 DEF Fifo!AcceptedOnce, FromAccepted, Fifo!Contents
  <2>4. Fifo!WireOrdered'
    BY <2>1 DEF Fifo!WireOrdered, Fifo!Before
  <2>5. PendingOrdered'
    BY <2>1 DEF PendingOrdered, Fifo!Before
  <2> QED
    BY <2>2, <2>3, <2>4, <2>5
<1> QED
  BY <1>1, <1>3, <1>4, <1>5 DEF Fifo!Next

LEMMA FifoInvHolds == Fifo!Spec => []FifoInv
BY FifoInvInit, FifoInvNext, PTL DEF Fifo!Spec

(* The server receives lines in the order in which they were accepted,     *)
(* however many they are and whatever number can be waiting.               *)
THEOREM FifoOrder == Fifo!Spec => [](Fifo!WireOrdered /\ Fifo!AcceptedOnce)
<1>1. FifoInv => Fifo!WireOrdered /\ Fifo!AcceptedOnce
  BY DEF FifoInv
<1> QED
  BY <1>1, FifoInvHolds, PTL

-----------------------------------------------------------------------------
(* What the code guarantees *)

Steps == {"lock", "check", "make", "unlock", "send"}

(* The mutex is held by the caller in the critical section, and the caller *)
(* about to make the channel is right that there is none.                  *)
LockInv ==
  /\ \A c \in Callers : pc[c] \in {"check", "make", "unlock"} <=> smut = c
  /\ \A c \in Callers : pc[c] = "make" => saych = None
  /\ \A c \in Callers : pc[c] \in {"unlock", "send"} => saych # None

(* There is one channel; the goroutine draining it is the only one.        *)
ChannelInv ==
  /\ \A h \in Callers : consumer[h] # "none" <=> saych = h
  /\ \A h \in Callers : consumer[h] = "parked" => buf[h] = <<>>
  /\ \A h \in Callers : consumer[h] = "saying" => hand[h] \in Message
  /\ \A h \in Callers : h # saych => buf[h] = <<>>
  /\ \A h \in Callers : Len(buf[h]) <= BufSize

(* A line is not accepted before its caller has sent it.                   *)
FreshInv ==
  /\ \A m \in Fifo!Contents(accepted) : m[2] <= calls[m[1]]
  /\ \A c \in Callers : pc[c] # "idle" => calls[c] >= 1
  /\ \A c \in Callers : pc[c] \in Steps => Line(c) \notin Fifo!Contents(accepted)

Inv == TypeOK /\ LockInv /\ ChannelInv /\ FreshInv

LEMMA PendingType == Inv => Pending \in Seq(Message) /\ Len(Pending) <= BufSize + 1
<1> SUFFICES ASSUME Inv PROVE Pending \in Seq(Message) /\ Len(Pending) <= BufSize + 1
  OBVIOUS
<1>1. CASE saych = None
  BY <1>1, EmptySeq, BufSizeAssumption DEF Pending
<1>2. CASE saych # None
  <2>1. saych \in Callers /\ buf[saych] \in Seq(Message) /\ Len(buf[saych]) <= BufSize
        /\ Len(buf[saych]) \in Nat
    BY <1>2, LenProperties DEF Inv, TypeOK, ChannelInv
  <2>2. CASE consumer[saych] = "saying"
    <3>1. hand[saych] \in Message
      BY <2>1, <2>2 DEF Inv, ChannelInv
    <3>2. <<hand[saych]>> \in Seq(Message) /\ Len(<<hand[saych]>>) = 1
      BY <3>1
    <3>3. Pending = <<hand[saych]>> \o buf[saych]
      BY <1>2, <2>2 DEF Pending
    <3>4. Pending \in Seq(Message) /\ Len(Pending) = 1 + Len(buf[saych])
      BY <2>1, <3>2, <3>3, ConcatProperties
    <3> QED
      BY <2>1, <3>4, BufSizeAssumption
  <2>3. CASE consumer[saych] # "saying"
    <3>1. Pending = buf[saych]
      BY <1>2, <2>3 DEF Pending
    <3> QED
      BY <2>1, <3>1, BufSizeAssumption
  <2> QED
    BY <2>2, <2>3
<1> QED
  BY <1>1, <1>2

LEMMA InvInit == Init => Inv
<1> SUFFICES ASSUME Init PROVE Inv
  OBVIOUS
<1>1. TypeOK
  BY BufSizeAssumption, MaxCallsAssumption DEF Init, TypeOK, Kind
<1>2. LockInv /\ ChannelInv /\ FreshInv
  BY NoneAssumption, BufSizeAssumption DEF Init, LockInv, ChannelInv, FreshInv, Fifo!Contents, Steps
<1> QED
  BY <1>1, <1>2 DEF Inv

(* What sending a line to the channel does to the history.                 *)
LEMMA LineAccepted ==
  ASSUME Inv, NEW c \in Callers, pc[c] \in Steps, accepted' = Append(accepted, Line(c))
  PROVE  /\ Line(c) \in Message
         /\ Line(c)[1] = c /\ Line(c)[2] = calls[c]
         /\ accepted' \in Seq(Message)
         /\ Fifo!Contents(accepted') = Fifo!Contents(accepted) \cup {Line(c)}
         /\ \A a, b : Fifo!Before(accepted, a, b) => Fifo!Before(accepted', a, b)
         /\ \A a \in Fifo!Contents(accepted) : Fifo!Before(accepted', a, Line(c))
<1>1. Line(c) \in Message /\ Line(c)[1] = c /\ Line(c)[2] = calls[c]
  BY DEF Inv, TypeOK, FreshInv, Line, Message, Steps
<1>2. accepted \in Seq(Message)
  BY DEF Inv, TypeOK
<1>3. accepted' \in Seq(Message)
  BY <1>1, <1>2, AppendProperties
<1> DEFINE m == Line(c)
           t == Append(accepted, m)
<1>4. m \in Message
  BY <1>1
<1> HIDE DEF m
<1>5. /\ \A a, b : Fifo!Before(accepted, a, b) => Fifo!Before(t, a, b)
      /\ \A a \in Fifo!Contents(accepted) : Fifo!Before(t, a, m)
      /\ Fifo!Contents(t) = Fifo!Contents(accepted) \cup {m}
  BY <1>2, <1>4, BeforeAppend
<1>6. accepted' = t
  BY DEF m
<1> HIDE DEF t
<1> QED
  BY <1>1, <1>3, <1>5, <1>6 DEF m

(* Steps that accept no line and start no call keep FreshInv.              *)
LEMMA FreshKept ==
  ASSUME Inv, UNCHANGED <<accepted, calls>>,
         \A d \in Callers : /\ pc'[d] # "idle" => pc[d] # "idle"
                            /\ pc'[d] \in Steps => pc[d] \in Steps
  PROVE  FreshInv'
BY DEF Inv, FreshInv, Fifo!Contents, Line

LEMMA InvNext == Inv /\ [Next]_vars => Inv'
<1> SUFFICES ASSUME Inv, [Next]_vars PROVE Inv'
  OBVIOUS
<1> USE NoneAssumption, MaxCallsAssumption, BufSizeAssumption
<1> USE DEF Inv
<1>1. ASSUME NEW c \in Callers, Call(c) PROVE Inv'
  <2>1. /\ calls[c] \in Nat /\ calls' = [calls EXCEPT ![c] = calls[c] + 1]
        /\ calls'[c] = calls[c] + 1 /\ \A d \in Callers : calls'[d] >= calls[d]
        /\ \A d \in Callers \ {c} : calls'[d] = calls[d] /\ pc'[d] = pc[d]
        /\ pc'[c] = "lock" /\ UNCHANGED accepted
    BY <1>1 DEF Call, TypeOK, history
  <2>2. TypeOK' /\ LockInv' /\ ChannelInv'
    <3>1. calls' \in [Callers -> 0..MaxCalls]
      BY <1>1 DEF Call, TypeOK
    <3>2. TypeOK'
      BY <1>1, <3>1 DEF Call, TypeOK, Kind, history
    <3>3. LockInv' /\ ChannelInv'
      BY <1>1 DEF Call, TypeOK, LockInv, ChannelInv, history
    <3> QED
      BY <3>2, <3>3
  <2>3. \A m \in Fifo!Contents(accepted) : m \in Message
    BY DEF TypeOK, Fifo!Contents
  <2>4. \A m \in Fifo!Contents(accepted) : m[1] \in Callers /\ m[2] \in Nat /\ m[2] <= calls[m[1]]
    BY <2>3 DEF FreshInv, Message
  <2>5. \A m \in Fifo!Contents(accepted) : m[2] <= calls'[m[1]]
    BY <2>1, <2>4 DEF TypeOK
  <2>6. \A d \in Callers : pc'[d] # "idle" => calls'[d] >= 1
    BY <2>1 DEF FreshInv
  <2>7. ASSUME NEW d \in Callers, pc'[d] \in Steps, Line(d)' \in Fifo!Contents(accepted) PROVE FALSE
    <3>1. Line(d)' = <<d, calls'[d]>>
      BY DEF Line
    <3>2. Line(d)'[1] = d /\ Line(d)'[2] = calls'[d]
      BY <3>1
    <3>3. CASE d = c
      BY <2>1, <2>4, <2>7, <3>2, <3>3
    <3>4. CASE d # c
      BY <2>1, <2>7, <3>1, <3>4 DEF FreshInv, Line
    <3> QED
      BY <3>3, <3>4
  <2>8. FreshInv'
    <3>1. Fifo!Contents(accepted)' = Fifo!Contents(accepted)
      BY <2>1 DEF Fifo!Contents
    <3> QED
      BY <2>5, <2>6, <2>7, <3>1 DEF FreshInv
  <2> QED
    BY <2>2, <2>8
<1>2. ASSUME NEW c \in Callers, Lock(c) PROVE Inv'
  <2>1. TypeOK'
    BY <1>2 DEF Lock, TypeOK, history
  <2>2. LockInv'
    BY <1>2 DEF Lock, TypeOK, LockInv, history
  <2>3. ChannelInv'
    BY <1>2 DEF Lock, TypeOK, LockInv, ChannelInv, history
  <2>4. FreshInv'
    BY <1>2, FreshKept DEF Lock, TypeOK, Steps, history
  <2> QED
    BY <2>1, <2>2, <2>3, <2>4
<1>3. ASSUME NEW c \in Callers, CheckChannel(c) PROVE Inv'
  <2>1. TypeOK'
    BY <1>3 DEF CheckChannel, TypeOK, history
  <2>2. LockInv'
    BY <1>3 DEF CheckChannel, TypeOK, LockInv, history
  <2>3. ChannelInv'
    BY <1>3 DEF CheckChannel, TypeOK, LockInv, ChannelInv, history
  <2>4. FreshInv'
    BY <1>3, FreshKept DEF CheckChannel, TypeOK, Steps, history
  <2> QED
    BY <2>1, <2>2, <2>3, <2>4
<1>4. ASSUME NEW c \in Callers, MakeChannel(c) PROVE Inv'
  <2>1. TypeOK'
    BY <1>4 DEF MakeChannel, TypeOK, history
  <2>2. LockInv'
    BY <1>4 DEF MakeChannel, TypeOK, LockInv, history
  <2>3. ChannelInv'
    BY <1>4 DEF MakeChannel, TypeOK, LockInv, ChannelInv, history
  <2>4. FreshInv'
    BY <1>4, FreshKept DEF MakeChannel, TypeOK, Steps, history
  <2> QED
    BY <2>1, <2>2, <2>3, <2>4
<1>5. ASSUME NEW c \in Callers, Unlock(c) PROVE Inv'
  <2>1. TypeOK'
    BY <1>5 DEF Unlock, TypeOK, history
  <2>2. LockInv'
    BY <1>5 DEF Unlock, TypeOK, LockInv, history
  <2>3. ChannelInv'
    BY <1>5 DEF Unlock, TypeOK, LockInv, ChannelInv, history
  <2>4. FreshInv'
    BY <1>5, FreshKept DEF Unlock, TypeOK, Steps, history
  <2> QED
    BY <2>1, <2>2, <2>3, <2>4
<1>6. ASSUME NEW c \in Callers, HandOver(c) PROVE Inv'
  <2>1. /\ saych \in Callers /\ pc[c] \in Steps /\ Line(c) \in Message
        /\ Line(c)[1] = c /\ Line(c)[2] = calls[c]
        /\ accepted' \in Seq(Message)
        /\ Fifo!Contents(accepted') = Fifo!Contents(accepted) \cup {Line(c)}
    BY <1>6, LineAccepted DEF HandOver, TypeOK, LockInv, Steps
  <2>2. TypeOK'
    BY <1>6, <2>1 DEF HandOver, TypeOK, AfterSend
  <2>3. LockInv'
    BY <1>6, <2>1 DEF HandOver, TypeOK, LockInv, AfterSend
  <2>4. ChannelInv'
    BY <1>6, <2>1 DEF HandOver, TypeOK, LockInv, ChannelInv, AfterSend
  <2>5. FreshInv'
    <3>1. UNCHANGED calls /\ pc'[c] \in {"fire", "idle"} /\ pc[c] = "send"
          /\ \A d \in Callers \ {c} : pc'[d] = pc[d]
      BY <1>6 DEF HandOver, TypeOK, AfterSend
    <3>2. \A d \in Callers : Line(d)' = Line(d) /\ Line(d)[1] = d
      BY <3>1 DEF Line
    <3>3. Fifo!Contents(accepted)' = Fifo!Contents(accepted')
      BY DEF Fifo!Contents
    <3>4. \A m \in Fifo!Contents(accepted') : m[2] <= calls'[m[1]]
      BY <2>1, <3>1 DEF FreshInv, TypeOK
    <3>5. \A d \in Callers : pc'[d] # "idle" => calls'[d] >= 1
      BY <3>1 DEF FreshInv
    <3>6. \A d \in Callers : pc'[d] \in Steps => Line(d)' \notin Fifo!Contents(accepted')
      BY <2>1, <3>1, <3>2 DEF FreshInv, Steps
    <3> QED
      BY <3>3, <3>4, <3>5, <3>6 DEF FreshInv
  <2> QED
    BY <2>2, <2>3, <2>4, <2>5
<1>7. ASSUME NEW c \in Callers, Enqueue(c) PROVE Inv'
  <2>1. /\ saych \in Callers /\ pc[c] \in Steps /\ Line(c) \in Message
        /\ Line(c)[1] = c /\ Line(c)[2] = calls[c]
        /\ accepted' \in Seq(Message)
        /\ Fifo!Contents(accepted') = Fifo!Contents(accepted) \cup {Line(c)}
        /\ Append(buf[saych], Line(c)) \in Seq(Message)
        /\ Len(Append(buf[saych], Line(c))) = Len(buf[saych]) + 1
        /\ Len(buf[saych]) \in Nat
    BY <1>7, LineAccepted, AppendProperties, LenProperties DEF Enqueue, TypeOK, LockInv, Steps
  <2>2. TypeOK'
    BY <1>7, <2>1 DEF Enqueue, TypeOK, AfterSend
  <2>3. LockInv'
    BY <1>7, <2>1 DEF Enqueue, TypeOK, LockInv, AfterSend
  <2>4. ChannelInv'
    BY <1>7, <2>1 DEF Enqueue, TypeOK, LockInv, ChannelInv, AfterSend
  <2>5. FreshInv'
    <3>1. UNCHANGED calls /\ pc'[c] \in {"fire", "idle"} /\ pc[c] = "send"
          /\ \A d \in Callers \ {c} : pc'[d] = pc[d]
      BY <1>7 DEF Enqueue, TypeOK, AfterSend
    <3>2. \A d \in Callers : Line(d)' = Line(d) /\ Line(d)[1] = d
      BY <3>1 DEF Line
    <3>3. Fifo!Contents(accepted)' = Fifo!Contents(accepted')
      BY DEF Fifo!Contents
    <3>4. \A m \in Fifo!Contents(accepted') : m[2] <= calls'[m[1]]
      BY <2>1, <3>1 DEF FreshInv, TypeOK
    <3>5. \A d \in Callers : pc'[d] # "idle" => calls'[d] >= 1
      BY <3>1 DEF FreshInv
    <3>6. \A d \in Callers : pc'[d] \in Steps => Line(d)' \notin Fifo!Contents(accepted')
      BY <2>1, <3>1, <3>2 DEF FreshInv, Steps
    <3> QED
      BY <3>3, <3>4, <3>5, <3>6 DEF FreshInv
  <2> QED
    BY <2>2, <2>3, <2>4, <2>5
<1>8. ASSUME NEW c \in Callers, Refuse(c) PROVE Inv'
  <2>1. Line(c) \in Message
    BY <1>8 DEF Refuse, TypeOK, FreshInv, Line, Message
  <2>2. TypeOK'
    BY <1>8, <2>1 DEF Refuse, TypeOK, history
  <2>3. LockInv'
    BY <1>8, <2>1 DEF Refuse, TypeOK, LockInv, history
  <2>4. ChannelInv'
    BY <1>8, <2>1 DEF Refuse, TypeOK, LockInv, ChannelInv, history
  <2>5. FreshInv'
    BY <1>8, <2>1, FreshKept DEF Refuse, TypeOK, Steps, history
  <2> QED
    BY <2>2, <2>3, <2>4, <2>5
<1>9. ASSUME NEW c \in Callers, FireSay(c) PROVE Inv'
  <2>1. said' \in Seq(Message)
    <3>1. Line(c) \in Message
      BY <1>9 DEF FireSay, TypeOK, FreshInv, Line, Message
    <3> QED
      BY <1>9, <3>1, AppendProperties DEF FireSay, TypeOK
  <2>2. TypeOK'
    BY <1>9, <2>1 DEF FireSay, TypeOK, history
  <2>3. LockInv'
    BY <1>9, <2>1 DEF FireSay, TypeOK, LockInv, history
  <2>4. ChannelInv'
    BY <1>9, <2>1 DEF FireSay, TypeOK, LockInv, ChannelInv, history
  <2>5. FreshInv'
    BY <1>9, <2>1, FreshKept DEF FireSay, TypeOK, Steps, history
  <2> QED
    BY <2>2, <2>3, <2>4, <2>5
<1>10. ASSUME NEW h \in Callers, Receive(h) PROVE Inv'
  <2>1. /\ Head(buf[h]) \in Message
        /\ Tail(buf[h]) \in Seq(Message)
        /\ Len(Tail(buf[h])) = Len(buf[h]) - 1
        /\ Len(buf[h]) \in Nat
    BY <1>10, HeadTailProperties, LenProperties DEF Receive, TypeOK
  <2>2. TypeOK'
    BY <1>10, <2>1 DEF Receive, TypeOK, callerVars, history
  <2>3. LockInv'
    BY <1>10, <2>1 DEF Receive, TypeOK, LockInv, callerVars, history
  <2>4. ChannelInv'
    BY <1>10, <2>1 DEF Receive, TypeOK, LockInv, ChannelInv, callerVars, history
  <2>5. FreshInv'
    BY <1>10, <2>1, FreshKept DEF Receive, TypeOK, Steps, callerVars, history
  <2> QED
    BY <2>2, <2>3, <2>4, <2>5
<1>11. ASSUME NEW h \in Callers, Park(h) PROVE Inv'
  <2>1. TypeOK'
    BY <1>11 DEF Park, TypeOK, callerVars, history
  <2>2. LockInv'
    BY <1>11 DEF Park, TypeOK, LockInv, callerVars, history
  <2>3. ChannelInv'
    BY <1>11 DEF Park, TypeOK, LockInv, ChannelInv, callerVars, history
  <2>4. FreshInv'
    BY <1>11, FreshKept DEF Park, TypeOK, Steps, callerVars, history
  <2> QED
    BY <2>1, <2>2, <2>3, <2>4
<1>12. ASSUME NEW h \in Callers, Said(h) PROVE Inv'
  <2>1. wire' \in Seq(Message)
    BY <1>12, AppendProperties DEF Said, TypeOK, ChannelInv
  <2>2. TypeOK'
    BY <1>12, <2>1 DEF Said, TypeOK, callerVars
  <2>3. LockInv'
    BY <1>12, <2>1 DEF Said, TypeOK, LockInv, callerVars
  <2>4. ChannelInv'
    BY <1>12, <2>1 DEF Said, TypeOK, LockInv, ChannelInv, callerVars
  <2>5. FreshInv'
    BY <1>12, <2>1, FreshKept DEF Said, TypeOK, Steps, callerVars
  <2> QED
    BY <2>2, <2>3, <2>4, <2>5
<1>13. ASSUME NEW h \in Callers, SayFailed(h) PROVE Inv'
  <2>1. hand[h] \in Message
    BY <1>13 DEF SayFailed, ChannelInv
  <2>2. TypeOK'
    BY <1>13, <2>1 DEF SayFailed, TypeOK, callerVars
  <2>3. LockInv'
    BY <1>13, <2>1 DEF SayFailed, TypeOK, LockInv, callerVars
  <2>4. ChannelInv'
    BY <1>13, <2>1 DEF SayFailed, TypeOK, LockInv, ChannelInv, callerVars
  <2>5. FreshInv'
    BY <1>13, <2>1, FreshKept DEF SayFailed, TypeOK, Steps, callerVars
  <2> QED
    BY <2>2, <2>3, <2>4, <2>5
<1>14. CASE UNCHANGED vars
  <2>1. TypeOK' /\ LockInv' /\ ChannelInv'
    BY <1>14 DEF vars, TypeOK, LockInv, ChannelInv
  <2>2. FreshInv'
    BY <1>14, FreshKept DEF vars
  <2> QED
    BY <2>1, <2>2
<1> QED
  BY <1>1, <1>2, <1>3, <1>4, <1>5, <1>6, <1>7, <1>8, <1>9, <1>10, <1>11, <1>12, <1>13, <1>14
     DEF Next, Caller, Drain, ClientSay

LEMMA InvHolds == Spec => []Inv
BY InvInit, InvNext, PTL DEF Spec

(* Every reachable state of the queue is well formed.                      *)
THEOREM TypeCorrect == Spec => []TypeOK
<1>1. Inv => TypeOK
  BY DEF Inv
<1> QED
  BY <1>1, InvHolds, PTL

-----------------------------------------------------------------------------

(* saych is written once, by the holder of the mutex: the racing first     *)
(* callers of bnet.go:169 make one channel and one draining goroutine.     *)
THEOREM OneChannel == Spec => SaychWrittenOnce
<1>1. Inv /\ [Next]_vars => [saych = None /\ smut = saych']_saych
  <2> SUFFICES ASSUME Inv, [Next]_vars, saych' # saych PROVE saych = None /\ smut = saych'
    OBVIOUS
  <2>1. PICK c \in Callers : MakeChannel(c)
    BY DEF Next, Call, Caller, Lock, CheckChannel, Unlock, HandOver, Enqueue, Refuse, FireSay,
       Drain, ClientSay, Receive, Park, Said, SayFailed, callerVars, vars
  <2> QED
    BY <2>1 DEF MakeChannel, Inv, LockInv
<1> QED
  BY <1>1, InvHolds, PTL DEF Spec, SaychWrittenOnce

-----------------------------------------------------------------------------

(* Head and tail of a sequence built by putting x in front of s.           *)
LEMMA HeadTailOfCons ==
  ASSUME NEW S, NEW x \in S, NEW s \in Seq(S)
  PROVE  <<x>> \o s # <<>> /\ Head(<<x>> \o s) = x /\ Tail(<<x>> \o s) = s
<1> DEFINE t == <<x>> \o s
<1>1. <<x>> \in Seq(S) /\ Len(<<x>>) = 1 /\ <<x>>[1] = x
  OBVIOUS
<1>2. /\ t \in Seq(S) /\ Len(t) = 1 + Len(s) /\ Len(s) \in Nat
      /\ \A i \in 1..Len(t) : t[i] = IF i <= 1 THEN <<x>>[i] ELSE s[i - 1]
  BY <1>1, ConcatProperties, LenProperties
<1> HIDE DEF t
<1>3. t # <<>> /\ Head(t) = x
  BY <1>1, <1>2
<1>4. Tail(t) \in Seq(S) /\ Len(Tail(t)) = Len(s) /\ \A i \in 1..Len(s) : Tail(t)[i] = s[i]
  BY <1>2, <1>3, HeadTailProperties
<1>5. Tail(t) = s
  BY <1>4, SeqEqual
<1> QED
  BY <1>3, <1>5 DEF t

(* The steps of the channel are steps of the abstract queue.               *)
LEMMA FifoStep == Inv /\ Inv' /\ [Next]_vars => [Fifo!Next]_(Fifo!vars)
<1> SUFFICES ASSUME Inv, Inv', [Next]_vars PROVE [Fifo!Next]_(Fifo!vars)
  OBVIOUS
<1> USE NoneAssumption, BufSizeAssumption
<1>1. ASSUME UNCHANGED <<saych, buf, hand, consumer, accepted, wire, lost>>
      PROVE  UNCHANGED Fifo!vars
  BY <1>1 DEF Pending, Fifo!vars
<1>2. ASSUME NEW c \in Callers, MakeChannel(c) PROVE UNCHANGED Fifo!vars
  <2>1. saych = None /\ saych' = c /\ buf[c] = <<>> /\ consumer'[c] = "receive"
        /\ UNCHANGED <<buf, accepted, wire, lost>>
    BY <1>2 DEF MakeChannel, Inv, TypeOK, LockInv, ChannelInv, history
  <2>2. Pending = <<>> /\ Pending' = <<>>
    BY <2>1 DEF Pending
  <2> QED
    BY <2>1, <2>2 DEF Fifo!vars
<1>3. ASSUME NEW c \in Callers, pc[c] = "send", Line(c) \notin Fifo!Contents(accepted),
             accepted' = Append(accepted, Line(c)), UNCHANGED <<saych, wire, lost>>,
             Len(Pending) < BufSize + 1, Pending' = Append(Pending, Line(c))
      PROVE  Fifo!Next
  <2>1. Line(c) \in Message
    BY <1>3, LineAccepted DEF Steps
  <2>2. Fifo!Accept(Line(c))
    BY <1>3 DEF Fifo!Accept
  <2> QED
    BY <2>1, <2>2 DEF Fifo!Next
<1>4. ASSUME NEW c \in Callers, HandOver(c) PROVE Fifo!Next
  <2>1. /\ saych \in Callers /\ saych' = saych /\ saych # None
        /\ consumer[saych] = "parked" /\ buf[saych] = <<>> /\ buf'[saych] = <<>>
        /\ consumer'[saych] = "saying" /\ hand'[saych] = Line(c)
    BY <1>4 DEF HandOver, Inv, TypeOK, LockInv, ChannelInv
  <2>2. Line(c) \in Message /\ Line(c) \notin Fifo!Contents(accepted)
    BY <1>4, LineAccepted DEF HandOver, Inv, FreshInv, Steps
  <2>3. Pending = <<>>
    BY <2>1 DEF Pending
  <2>4. Pending' = <<hand'[saych]>> \o buf'[saych]
    BY <2>1 DEF Pending
  <2>5. Pending' = <<Line(c)>>
    BY <2>1, <2>2, <2>4, ConcatEmptySeq
  <2>6. Append(Pending, Line(c)) = <<Line(c)>>
    BY <2>2, <2>3
  <2>7. Len(Pending) < BufSize + 1
    BY <2>3
  <2> QED
    BY <1>3, <1>4, <2>2, <2>5, <2>6, <2>7 DEF HandOver
<1>5. ASSUME NEW c \in Callers, Enqueue(c) PROVE Fifo!Next
  <2>1. /\ saych \in Callers /\ saych' = saych /\ saych # None /\ UNCHANGED <<consumer, hand>>
        /\ buf[saych] \in Seq(Message) /\ Len(buf[saych]) < BufSize
        /\ buf'[saych] = Append(buf[saych], Line(c))
    BY <1>5 DEF Enqueue, Inv, TypeOK, LockInv
  <2>2. Line(c) \in Message /\ Line(c) \notin Fifo!Contents(accepted)
    BY <1>5, LineAccepted DEF Enqueue, Inv, FreshInv, Steps
  <2>3. Len(Pending) < BufSize + 1 /\ Pending' = Append(Pending, Line(c))
    <3>1. CASE consumer[saych] = "saying"
      <4>1. hand[saych] \in Message
        BY <2>1, <3>1 DEF Inv, ChannelInv
      <4>2. Pending = <<hand[saych]>> \o buf[saych] /\ Pending' = <<hand[saych]>> \o buf'[saych]
        BY <2>1, <3>1 DEF Pending
      <4>3. <<hand[saych]>> \in Seq(Message) /\ Len(<<hand[saych]>>) = 1
        BY <4>1
      <4>4. Len(Pending) = 1 + Len(buf[saych])
        BY <2>1, <4>2, <4>3, ConcatProperties
      <4>5. <<hand[saych]>> \o Append(buf[saych], Line(c)) = Append(<<hand[saych]>> \o buf[saych], Line(c))
        BY <2>1, <2>2, <4>3, ConcatAssociative, AppendIsConcat, ConcatProperties
      <4> QED
        BY <2>1, <4>2, <4>4, <4>5, LenProperties
    <3>2. CASE consumer[saych] # "saying"
      <4>1. Pending = buf[saych] /\ Pending' = buf'[saych]
        BY <2>1, <3>2 DEF Pending
      <4> QED
        BY <2>1, <4>1, LenProperties
    <3> QED
      BY <3>1, <3>2
  <2> QED
    BY <1>3, <1>5, <2>2, <2>3 DEF Enqueue
<1>6. ASSUME NEW h \in Callers, Receive(h) PROVE UNCHANGED Fifo!vars
  <2>1. /\ saych = h /\ saych' = h /\ h # None /\ buf[h] \in Seq(Message) /\ buf[h] # <<>>
        /\ consumer[h] = "receive" /\ consumer'[h] = "saying"
        /\ hand'[h] = Head(buf[h]) /\ buf'[h] = Tail(buf[h])
        /\ UNCHANGED <<accepted, wire, lost>>
    BY <1>6 DEF Receive, Inv, TypeOK, ChannelInv, callerVars, history
  <2>2. Pending = buf[h] /\ Pending' = <<hand'[h]>> \o buf'[h]
    BY <2>1 DEF Pending
  <2>3. <<Head(buf[h])>> \o Tail(buf[h]) = buf[h]
    <3> DEFINE s == buf[h]
    <3>1. s \in Seq(Message) /\ s # <<>>
      BY <2>1
    <3> HIDE DEF s
    <3>2. s = <<Head(s)>> \o Tail(s)
      BY <3>1
    <3> QED
      BY <3>2 DEF s
  <2> QED
    BY <2>1, <2>2, <2>3 DEF Fifo!vars
<1>7. ASSUME NEW h \in Callers, Park(h) PROVE UNCHANGED Fifo!vars
  <2>1. /\ saych = h /\ saych' = h /\ h # None /\ UNCHANGED <<buf, accepted, wire, lost>>
        /\ consumer[h] # "saying" /\ consumer'[h] # "saying"
    BY <1>7 DEF Park, Inv, TypeOK, ChannelInv, callerVars, history
  <2> QED
    BY <2>1 DEF Pending, Fifo!vars
<1>8. ASSUME NEW h \in Callers, consumer[h] = "saying", consumer'[h] = "receive",
             UNCHANGED <<saych, buf>>
      PROVE  Pending # <<>> /\ Head(Pending) = hand[h] /\ Pending' = Tail(Pending)
  <2>1. saych = h /\ saych' = h /\ h # None /\ hand[h] \in Message /\ buf[h] \in Seq(Message)
    BY <1>8 DEF Inv, TypeOK, ChannelInv
  <2>2. Pending = <<hand[h]>> \o buf[h] /\ Pending' = buf[h]
    BY <1>8, <2>1 DEF Pending
  <2> QED
    BY <2>1, <2>2, HeadTailOfCons
<1>9. ASSUME NEW h \in Callers, Said(h) PROVE Fifo!Next
  <2>1. consumer[h] = "saying" /\ consumer'[h] = "receive" /\ wire' = Append(wire, hand[h])
        /\ UNCHANGED <<saych, buf, accepted, lost>>
    BY <1>9 DEF Said, Inv, TypeOK, callerVars
  <2> QED
    BY <1>8, <2>1 DEF Fifo!Next, Fifo!Deliver
<1>10. ASSUME NEW h \in Callers, SayFailed(h) PROVE Fifo!Next
  <2>1. consumer[h] = "saying" /\ consumer'[h] = "receive" /\ lost' = lost \cup {hand[h]}
        /\ UNCHANGED <<saych, buf, accepted, wire>>
    BY <1>10 DEF SayFailed, Inv, TypeOK, callerVars
  <2> QED
    BY <1>8, <2>1 DEF Fifo!Next, Fifo!GiveUp
<1>11. ASSUME NEW c \in Callers,
              Call(c) \/ Lock(c) \/ CheckChannel(c) \/ Unlock(c) \/ Refuse(c) \/ FireSay(c)
       PROVE  UNCHANGED Fifo!vars
  BY <1>1, <1>11 DEF Call, Lock, CheckChannel, Unlock, Refuse, FireSay, history
<1>12. CASE UNCHANGED vars
  BY <1>1, <1>12 DEF vars
<1> QED
  BY <1>2, <1>4, <1>5, <1>6, <1>7, <1>9, <1>10, <1>11, <1>12 DEF Next, Caller, Drain, ClientSay

(* say() is the lossy first-in first-out queue of SayFifo: the refinement  *)
(* run SayQueue_race checks, for any callers and any BufSize.              *)
THEOREM QueueImplementsFifo == Spec => ImplementsFifo
<1>1. Init => Fifo!Init
  BY DEF Init, Fifo!Init, Pending
<1> QED
  BY <1>1, InvHolds, FifoStep, PTL DEF Spec, ImplementsFifo, Fifo!Spec

(* The server receives the lines in the order in which say() accepted      *)
(* them, whichever goroutines called it.                                   *)
THEOREM QueueKeepsOrder == Spec => []WireOrdered
<1>1. Fifo!Spec => []WireOrdered
  BY FifoOrder, PTL DEF WireOrdered
<1> QED
  BY <1>1, QueueImplementsFifo, PTL DEF ImplementsFifo

-----------------------------------------------------------------------------

(* A line that was answered with ErrSayBufferFull does not turn up later.  *)
LEMMA RefusedStayOut == Spec => []RefusedNotAccepted
<1> DEFINE RefusedInv == \A m \in refused : /\ m \notin Fifo!Contents(accepted)
                                            /\ m \in Message
                                            /\ m[2] <= calls[m[1]]
                                            /\ pc[m[1]] # "idle" => m[2] < calls[m[1]]
<1>1. Init => RefusedInv
  BY DEF Init
<1>2. ASSUME Inv, RefusedInv, [Next]_vars
      PROVE  RefusedInv'
  <2> USE <1>2 DEF Inv
  <2>1. \A m \in refused : m[1] \in Callers /\ m[2] \in Nat /\ m = <<m[1], m[2]>>
    BY DEF Message
  <2>2. ASSUME UNCHANGED <<accepted, refused, calls>>,
               \A d \in Callers : pc'[d] # "idle" => pc[d] # "idle"
        PROVE  RefusedInv'
    BY <2>1, <2>2 DEF Fifo!Contents
  <2>3. ASSUME NEW c \in Callers, Call(c) PROVE RefusedInv'
    <3>1. /\ UNCHANGED <<accepted, refused>> /\ pc[c] = "idle" /\ calls[c] \in Nat
          /\ calls'[c] = calls[c] + 1
          /\ \A d \in Callers \ {c} : calls'[d] = calls[d] /\ pc'[d] = pc[d]
      BY <2>3 DEF Call, TypeOK, history
    <3>2. ASSUME NEW m \in refused
          PROVE  m[2] <= calls'[m[1]] /\ (pc'[m[1]] # "idle" => m[2] < calls'[m[1]])
      <4>1. CASE m[1] = c
        BY <2>1, <3>1, <4>1
      <4>2. CASE m[1] # c
        BY <2>1, <3>1, <4>2
      <4> QED
        BY <4>1, <4>2
    <3> QED
      BY <3>1, <3>2 DEF Fifo!Contents
  <2>4. ASSUME NEW c \in Callers, HandOver(c) \/ Enqueue(c) PROVE RefusedInv'
    <3>1. /\ pc[c] = "send" /\ UNCHANGED <<refused, calls>>
          /\ accepted' = Append(accepted, Line(c))
          /\ \A d \in Callers : pc'[d] # "idle" => pc[d] # "idle"
      BY <2>4 DEF HandOver, Enqueue, TypeOK
    <3>2. /\ Fifo!Contents(accepted') = Fifo!Contents(accepted) \cup {Line(c)}
          /\ Line(c)[1] = c /\ Line(c)[2] = calls[c] /\ calls[c] \in Nat
      BY <3>1, LineAccepted DEF Steps, TypeOK
    <3>3. \A m \in refused : m # Line(c)
      BY <2>1, <3>1, <3>2
    <3> QED
      BY <2>1, <3>1, <3>2, <3>3 DEF Fifo!Contents
  <2>5. ASSUME NEW c \in Callers, Refuse(c) PROVE RefusedInv'
    <3>1. /\ pc[c] = "send" /\ pc'[c] = "idle" /\ UNCHANGED <<accepted, calls>>
          /\ refused' = refused \cup {Line(c)}
          /\ \A d \in Callers : pc'[d] # "idle" => pc[d] # "idle"
      BY <2>5 DEF Refuse, TypeOK
    <3>2. /\ Line(c) \in Message /\ Line(c)[1] = c /\ Line(c)[2] = calls[c] /\ calls[c] \in Nat
          /\ Line(c) \notin Fifo!Contents(accepted)
      BY <3>1 DEF FreshInv, TypeOK, Line, Message, Steps
    <3>3. RefusedInv'
      BY <2>1, <3>1, <3>2 DEF Fifo!Contents
    <3> QED
      BY <3>3
  <2>6. ASSUME \/ \E c \in Callers : \/ Lock(c) \/ CheckChannel(c) \/ MakeChannel(c)
                                     \/ Unlock(c) \/ FireSay(c)
               \/ \E h \in Callers : Drain(h) \/ ClientSay(h)
               \/ UNCHANGED vars
        PROVE  RefusedInv'
    <3>1. UNCHANGED <<accepted, refused, calls>> /\ \A d \in Callers : pc'[d] # "idle" => pc[d] # "idle"
      BY <2>6 DEF Lock, CheckChannel, MakeChannel, Unlock, FireSay, Drain, ClientSay,
         Receive, Park, Said, SayFailed, callerVars, history, vars, TypeOK
    <3> QED
      BY <2>2, <3>1
  <2> QED
    BY <2>3, <2>4, <2>5, <2>6 DEF Next, Caller
<1>3. Spec => []RefusedInv
  BY <1>1, <1>2, InvHolds, PTL DEF Spec
<1>4. RefusedInv => RefusedNotAccepted
  BY DEF RefusedNotAccepted
<1> QED
  BY <1>3, <1>4, PTL

-----------------------------------------------------------------------------

(* The Say events of one caller, which relays and loggers see, come in the *)
(* order of its lines on the wire; no refused line is announced.           *)
THEOREM SayEventsKeepOrder == Spec => []SayEventsOrdered
<1> DEFINE FireInv ==
      \A c \in Callers : pc[c] = "fire" =>
        /\ Line(c) \in Fifo!Contents(accepted)
        /\ \A i \in DOMAIN said : said[i][1] = c => Fifo!Before(accepted, said[i], Line(c))
<1>1. Init => SaidInOrder /\ FireInv
  BY DEF Init, SaidInOrder, Fifo!Contents
<1>2. ASSUME Inv, SaidInOrder, FireInv, [Next]_vars
      PROVE  SaidInOrder' /\ FireInv'
  <2> USE <1>2 DEF Inv
  <2>1. ASSUME UNCHANGED <<accepted, said>>,
               \A d \in Callers : pc'[d] = "fire" => pc[d] = "fire" /\ calls'[d] = calls[d]
        PROVE  SaidInOrder' /\ FireInv'
    BY <2>1 DEF SaidInOrder, Line, Fifo!Contents, Fifo!Before
  <2>2. ASSUME NEW c \in Callers, HandOver(c) \/ Enqueue(c)
        PROVE  SaidInOrder' /\ FireInv'
    <3>1. /\ pc[c] \in Steps /\ UNCHANGED <<said, calls>>
          /\ accepted' = Append(accepted, Line(c))
          /\ \A d \in Callers \ {c} : pc'[d] = pc[d]
      BY <2>2 DEF HandOver, Enqueue, TypeOK, Steps
    <3>2. /\ Fifo!Contents(accepted') = Fifo!Contents(accepted) \cup {Line(c)}
          /\ \A a, b : Fifo!Before(accepted, a, b) => Fifo!Before(accepted', a, b)
          /\ \A a \in Fifo!Contents(accepted) : Fifo!Before(accepted', a, Line(c))
      BY <3>1, LineAccepted
    <3>3. \A i \in DOMAIN said : said[i] \in Fifo!Contents(accepted)
      BY DEF SaidInOrder, Fifo!Contents
    <3>4. SaidInOrder'
      <4>1. Fifo!Contents(said)' = Fifo!Contents(said) /\ Fifo!Contents(accepted)' = Fifo!Contents(accepted')
        BY <3>1 DEF Fifo!Contents
      <4>2. Fifo!Contents(said)' \subseteq Fifo!Contents(accepted)'
        BY <3>2, <4>1 DEF SaidInOrder
      <4>3. \A i, j \in DOMAIN said : i < j /\ said[i][1] = said[j][1] => Fifo!Before(accepted', said[i], said[j])
        BY <3>2 DEF SaidInOrder
      <4> QED
        BY <3>1, <4>2, <4>3 DEF SaidInOrder, Fifo!Before
    <3>5. FireInv'
      <4>1. ASSUME NEW d \in Callers, pc'[d] = "fire"
            PROVE  /\ Line(d) \in Fifo!Contents(accepted')
                   /\ \A i \in DOMAIN said : said[i][1] = d => Fifo!Before(accepted', said[i], Line(d))
        <5>1. CASE d = c
          BY <3>2, <3>3, <5>1
        <5>2. CASE d # c
          BY <3>1, <3>2, <4>1, <5>2
        <5> QED
          BY <5>1, <5>2
      <4>2. \A d \in Callers : Line(d)' = Line(d)
        BY <3>1 DEF Line
      <4>3. said' = said /\ Fifo!Contents(accepted)' = Fifo!Contents(accepted')
        BY <3>1 DEF Fifo!Contents
      <4>4. \A a, b : Fifo!Before(accepted, a, b)' <=> Fifo!Before(accepted', a, b)
        BY DEF Fifo!Before
      <4> QED
        BY <4>1, <4>2, <4>3, <4>4 DEF Fifo!Contents, Fifo!Before
    <3> QED
      BY <3>4, <3>5
  <2>3. ASSUME NEW c \in Callers, FireSay(c)
        PROVE  SaidInOrder' /\ FireInv'
    <3>1. /\ pc[c] = "fire" /\ pc'[c] = "idle" /\ UNCHANGED <<accepted, calls>>
          /\ \A d \in Callers \ {c} : pc'[d] = pc[d]
          /\ said' = Append(said, Line(c)) /\ said \in Seq(Message)
          /\ Line(c) \in Message /\ Line(c)[1] = c
      BY <2>3 DEF FireSay, TypeOK, FreshInv, Line, Message
    <3>2. /\ said' \in Seq(Message) /\ Len(said') = Len(said) + 1 /\ Len(said) \in Nat
          /\ DOMAIN said = 1..Len(said) /\ DOMAIN said' = 1..(Len(said) + 1)
          /\ \A i \in 1..Len(said) : said'[i] = said[i]
          /\ said'[Len(said) + 1] = Line(c)
      BY <3>1, AppendProperties, LenProperties
    <3>3. SaidInOrder'
      <4>1. \A i \in DOMAIN said' : said'[i] \in Fifo!Contents(accepted)
        BY <3>1, <3>2 DEF SaidInOrder, Fifo!Contents
      <4>2. ASSUME NEW i \in DOMAIN said', NEW j \in DOMAIN said', i < j, said'[i][1] = said'[j][1]
            PROVE  Fifo!Before(accepted, said'[i], said'[j])
        <5>1. i \in DOMAIN said /\ said'[i] = said[i]
          BY <3>2, <4>2
        <5>2. CASE j \in DOMAIN said
          BY <3>2, <4>2, <5>1, <5>2 DEF SaidInOrder
        <5>3. CASE j = Len(said) + 1
          BY <3>1, <3>2, <4>2, <5>1, <5>3
        <5> QED
          BY <3>2, <5>2, <5>3
      <4> QED
        BY <3>1, <4>1, <4>2 DEF SaidInOrder, Fifo!Contents, Fifo!Before
    <3>4. FireInv'
      <4> SUFFICES ASSUME NEW d \in Callers \ {c}, pc[d] = "fire", NEW i \in DOMAIN said', said'[i][1] = d
                   PROVE  Fifo!Before(accepted, said'[i], Line(d))
        BY <3>1 DEF Line, Fifo!Contents, Fifo!Before
      <4>1. i \in DOMAIN said /\ said'[i] = said[i]
        BY <3>1, <3>2
      <4> QED
        BY <4>1
    <3> QED
      BY <3>3, <3>4
  <2>4. ASSUME \/ \E c \in Callers : \/ Call(c) \/ Lock(c) \/ CheckChannel(c)
                                     \/ MakeChannel(c) \/ Unlock(c) \/ Refuse(c)
               \/ \E h \in Callers : Drain(h) \/ ClientSay(h)
               \/ UNCHANGED vars
        PROVE  SaidInOrder' /\ FireInv'
    <3>1. UNCHANGED <<accepted, said>> /\ \A d \in Callers : pc'[d] = "fire" => pc[d] = "fire" /\ calls'[d] = calls[d]
      BY <2>4 DEF Call, Lock, CheckChannel, MakeChannel, Unlock, Refuse, Drain, ClientSay,
         Receive, Park, Said, SayFailed, callerVars, history, vars, TypeOK
    <3> QED
      BY <2>1, <3>1
  <2> QED
    BY <2>2, <2>3, <2>4 DEF Next, Caller
<1>3. Spec => []SaidInOrder
  BY <1>1, <1>2, InvHolds, PTL DEF Spec
<1> QED
  BY <1>3, RefusedStayOut, PTL DEF SayEventsOrdered

=============================================================================
