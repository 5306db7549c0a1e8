------------------------------ MODULE SayQueue ------------------------------
(***************************************************************************)
(* The outgoing line queue of a gateway (gateway/bnet/bnet.go; capi.go and *)
(* discord/channel.go hold the same code).                                 *)
(*                                                                         *)
(* Any goroutine may call say(): the event loop of the gateway itself, the *)
(* event loops of the gateways relayed to it, command goroutines, plugin   *)
(* timers.  The first call creates the channel saych and the one goroutine *)
(* that drains it, under the mutex smut; every call then tries a           *)
(* non-blocking send and gives up with ErrSayBufferFull.  Nobody closes    *)
(* the channel: the goroutine outlives reconnects.                         *)
(*                                                                         *)
(* Channels and draining goroutines are named after the caller that        *)
(* created them, so that a second channel could be told from the first.    *)
(* The goroutine's range expression, evaluated when the goroutine starts,  *)
(* reads saych: SaychWrittenOnce says why that is the channel it was       *)
(* created with.                                                           *)
(***************************************************************************)
EXTENDS Naturals, Sequences, FiniteSets

CONSTANTS Callers,   \* goroutines that call say()
          None,      \* the nil channel, a free mutex, no line in hand
          BufSize,   \* GatewayConfig.BufSize, a uint8
          MaxCalls   \* bound: calls each caller makes

ASSUME BufSizeAssumption == BufSize \in 0..255
ASSUME MaxCallsAssumption == MaxCalls \in Nat
ASSUME NoneAssumption == None \notin Callers

(* The n-th line of caller c.                                              *)
Message == Callers \X (1..MaxCalls)

(* "chat" goes through Say and is announced with a Say event; "command"    *)
(* is a /w, /kick, /ban, /unban or /join line, which is not.               *)
Kind == {"chat", "command"}

VARIABLES
  smut,      \* holder of the mutex, or None
  saych,     \* the current channel, or None
  buf,       \* buf[h]: lines buffered in channel h
  consumer,  \* consumer[h]: where the goroutine draining h is
  hand,      \* hand[h]: the line that goroutine passed to Client.Say
  pc,        \* pc[c]: where caller c is
  kind,      \* kind[c]: what c is saying
  calls,     \* calls[c]: calls c has made
  accepted,  \* history: lines sent to a channel, in order
  refused,   \* history: lines answered with ErrSayBufferFull
  wire,      \* history: lines the server received, in order
  lost,      \* history: lines Client.Say returned an error for
  said       \* history: lines a Say event was fired for, in order

callerVars == <<smut, saych, pc, kind, calls>>
history    == <<accepted, refused, wire, lost, said>>
vars == <<smut, saych, buf, consumer, hand, pc, kind, calls,
          accepted, refused, wire, lost, said>>

Line(c) == <<c, calls[c]>>

Init ==
  /\ smut = None
  /\ saych = None
  /\ buf = [h \in Callers |-> <<>>]
  /\ consumer = [h \in Callers |-> "none"]
  /\ hand = [h \in Callers |-> None]
  /\ pc = [c \in Callers |-> "idle"]
  /\ kind = [c \in Callers |-> "chat"]
  /\ calls = [c \in Callers |-> 0]
  /\ accepted = <<>>
  /\ refused = {}
  /\ wire = <<>>
  /\ lost = {}
  /\ said = <<>>

-----------------------------------------------------------------------------
(* The callers *)

(* Say, SayPrivate, Kick, Ban, Unban and the /join of Run enter say().     *)
(* Say turns away a line that starts with "/" before it gets here.         *)
Call(c) ==
  /\ pc[c] = "idle"
  /\ calls[c] < MaxCalls
  /\ calls' = [calls EXCEPT ![c] = @ + 1]
  /\ \E k \in Kind : kind' = [kind EXCEPT ![c] = k]
  /\ pc' = [pc EXCEPT ![c] = "lock"]
  /\ UNCHANGED <<smut, saych, buf, consumer, hand, history>>

(* Mutant: the mutex is not taken.                                         *)
Lock_Missing(c) ==
  /\ pc[c] = "lock"
  /\ smut' = c
  /\ pc' = [pc EXCEPT ![c] = "check"]
  /\ UNCHANGED <<saych, buf, consumer, hand, kind, calls, history>>

Lock(c) ==
  /\ pc[c] = "lock"
  /\ smut = None
  /\ smut' = c
  /\ pc' = [pc EXCEPT ![c] = "check"]
  /\ UNCHANGED <<saych, buf, consumer, hand, kind, calls, history>>

(* Mutant: the channel is made anew by every call.                         *)
CheckChannel_Skipped(c) ==
  /\ pc[c] = "check"
  /\ pc' = [pc EXCEPT ![c] = "make"]
  /\ UNCHANGED <<smut, saych, buf, consumer, hand, kind, calls, history>>

CheckChannel(c) ==
  /\ pc[c] = "check"
  /\ pc' = [pc EXCEPT ![c] = IF saych = None THEN "make" ELSE "unlock"]
  /\ UNCHANGED <<smut, saych, buf, consumer, hand, kind, calls, history>>

MakeChannel(c) ==
  /\ pc[c] = "make"
  /\ saych' = c
  /\ consumer' = [consumer EXCEPT ![c] = "receive"]
  /\ pc' = [pc EXCEPT ![c] = "unlock"]
  /\ UNCHANGED <<smut, buf, hand, kind, calls, history>>

Unlock(c) ==
  /\ pc[c] = "unlock"
  /\ smut' = None
  /\ pc' = [pc EXCEPT ![c] = "send"]
  /\ UNCHANGED <<saych, buf, consumer, hand, kind, calls, history>>

AfterSend(c) == IF kind[c] = "chat" THEN "fire" ELSE "idle"

(* The send finds the goroutine parked in its receive: the line is handed  *)
(* over directly, whatever the size of the buffer.                         *)
HandOver(c) ==
  /\ pc[c] = "send"
  /\ consumer[saych] = "parked"
  /\ consumer' = [consumer EXCEPT ![saych] = "saying"]
  /\ hand' = [hand EXCEPT ![saych] = Line(c)]
  /\ accepted' = Append(accepted, Line(c))
  /\ pc' = [pc EXCEPT ![c] = AfterSend(c)]
  /\ UNCHANGED <<smut, saych, buf, kind, calls, refused, wire, lost, said>>

(* Mutant: a channel one line larger than BufSize.                         *)
Enqueue_OffByOne(c) ==
  /\ pc[c] = "send"
  /\ consumer[saych] # "parked"
  /\ Len(buf[saych]) <= BufSize
  /\ buf' = [buf EXCEPT ![saych] = Append(@, Line(c))]
  /\ accepted' = Append(accepted, Line(c))
  /\ pc' = [pc EXCEPT ![c] = AfterSend(c)]
  /\ UNCHANGED <<smut, saych, consumer, hand, kind, calls, refused, wire, lost, said>>

Enqueue(c) ==
  /\ pc[c] = "send"
  /\ consumer[saych] # "parked"
  /\ Len(buf[saych]) < BufSize
  /\ buf' = [buf EXCEPT ![saych] = Append(@, Line(c))]
  /\ accepted' = Append(accepted, Line(c))
  /\ pc' = [pc EXCEPT ![c] = AfterSend(c)]
  /\ UNCHANGED <<smut, saych, consumer, hand, kind, calls, refused, wire, lost, said>>

(* Mutants: Say ignores the error of say() and fires its event all the     *)
(* same; the select has no default branch.                                 *)
Refuse_Announced(c) ==
  /\ pc[c] = "send"
  /\ consumer[saych] # "parked"
  /\ Len(buf[saych]) >= BufSize
  /\ refused' = refused \cup {Line(c)}
  /\ pc' = [pc EXCEPT ![c] = AfterSend(c)]
  /\ UNCHANGED <<smut, saych, buf, consumer, hand, kind, calls, accepted, wire, lost, said>>

Refuse_Blocks(c) == FALSE

(* The default branch of the select: ErrSayBufferFull.                     *)
Refuse(c) ==
  /\ pc[c] = "send"
  /\ consumer[saych] # "parked"
  /\ Len(buf[saych]) >= BufSize
  /\ refused' = refused \cup {Line(c)}
  /\ pc' = [pc EXCEPT ![c] = "idle"]
  /\ UNCHANGED <<smut, saych, buf, consumer, hand, kind, calls, accepted, wire, lost, said>>

(* Say fires its event when the line is queued, not when it is sent.       *)
FireSay(c) ==
  /\ pc[c] = "fire"
  /\ said' = Append(said, Line(c))
  /\ pc' = [pc EXCEPT ![c] = "idle"]
  /\ UNCHANGED <<smut, saych, buf, consumer, hand, kind, calls, accepted, refused, wire, lost>>

-----------------------------------------------------------------------------
(* The draining goroutine of channel h *)

Receive(h) ==
  /\ consumer[h] = "receive"
  /\ buf[h] # <<>>
  /\ hand' = [hand EXCEPT ![h] = Head(buf[h])]
  /\ buf' = [buf EXCEPT ![h] = Tail(@)]
  /\ consumer' = [consumer EXCEPT ![h] = "saying"]
  /\ UNCHANGED <<callerVars, history>>

Park(h) ==
  /\ consumer[h] = "receive"
  /\ buf[h] = <<>>
  /\ consumer' = [consumer EXCEPT ![h] = "parked"]
  /\ UNCHANGED <<buf, hand, callerVars, history>>

(* Client.Say wrote the line to the connection.                            *)
Said(h) ==
  /\ consumer[h] = "saying"
  /\ wire' = Append(wire, hand[h])
  /\ hand' = [hand EXCEPT ![h] = None]
  /\ consumer' = [consumer EXCEPT ![h] = "receive"]
  /\ UNCHANGED <<buf, callerVars, accepted, refused, lost, said>>

(* Mutant: the goroutine returns on the first error.                       *)
SayFailed_Exits(h) ==
  /\ consumer[h] = "saying"
  /\ lost' = lost \cup {hand[h]}
  /\ hand' = [hand EXCEPT ![h] = None]
  /\ consumer' = [consumer EXCEPT ![h] = "none"]
  /\ UNCHANGED <<buf, callerVars, accepted, refused, wire, said>>

(* Client.Say failed: the line is gone.  A close error, what a line queued *)
(* across a disconnect meets, is swallowed; any other is fired as an       *)
(* AsyncError on the gateway, whose handlers may call say() (see Relay).   *)
SayFailed(h) ==
  /\ consumer[h] = "saying"
  /\ lost' = lost \cup {hand[h]}
  /\ hand' = [hand EXCEPT ![h] = None]
  /\ consumer' = [consumer EXCEPT ![h] = "receive"]
  /\ UNCHANGED <<buf, callerVars, accepted, refused, wire, said>>

-----------------------------------------------------------------------------

Caller(c) ==
  \/ Lock(c) \/ CheckChannel(c) \/ MakeChannel(c) \/ Unlock(c)
  \/ HandOver(c) \/ Enqueue(c) \/ Refuse(c) \/ FireSay(c)

Drain(h) == Receive(h) \/ Park(h)

ClientSay(h) == Said(h) \/ SayFailed(h)

Next ==
  \/ \E c \in Callers : Call(c) \/ Caller(c)
  \/ \E h \in Callers : Drain(h) \/ ClientSay(h)

Spec == Init /\ [][Next]_vars

(* A goroutine that can run is run, and Go's mutex hands itself to a       *)
(* waiter that has starved.  Nothing is assumed of Client.Say.             *)
CallerFairness ==
  \A c \in Callers : WF_vars(Caller(c)) /\ SF_vars(Lock(c))

(* Client.Say returns: it waits for its rate limiter, writes and comes     *)
(* back with nil or an error.                                              *)
DrainFairness ==
  \A h \in Callers : WF_vars(Drain(h)) /\ WF_vars(ClientSay(h))

FairSpec == Spec /\ CallerFairness

-----------------------------------------------------------------------------
(* Properties *)

TypeOK ==
  /\ smut \in Callers \cup {None}
  /\ saych \in Callers \cup {None}
  /\ buf \in [Callers -> Seq(Message)]
  /\ consumer \in [Callers -> {"none", "receive", "parked", "saying"}]
  /\ hand \in [Callers -> Message \cup {None}]
  /\ pc \in [Callers -> {"idle", "lock", "check", "make", "unlock", "send", "fire"}]
  /\ kind \in [Callers -> Kind]
  /\ calls \in [Callers -> 0..MaxCalls]
  /\ accepted \in Seq(Message)
  /\ refused \in SUBSET Message
  /\ wire \in Seq(Message)
  /\ lost \in SUBSET Message
  /\ said \in Seq(Message)

(* The lines accepted and not handled: the one in hand and the buffered.   *)
Pending ==
  IF saych = None THEN <<>>
  ELSE IF consumer[saych] = "saying"
         THEN <<hand[saych]>> \o buf[saych]
         ELSE buf[saych]

Fifo == INSTANCE SayFifo WITH Capacity <- BufSize + 1, pending <- Pending

(* However the calls interleave, say() is a lossy first-in first-out       *)
(* queue of BufSize + 1 lines.                                             *)
ImplementsFifo == Fifo!Spec

(* Racing first calls create one channel and one draining goroutine, so    *)
(* no line can end in a channel nobody drains or overtake another.         *)
SaychWrittenOnce == [][saych = None /\ smut = saych']_saych

(* The server receives lines in the order in which say() accepted them.    *)
WireOrdered == Fifo!WireOrdered

(* Say events of one caller come in the order of its lines on the wire,    *)
(* and only for lines that were accepted; what was answered with           *)
(* ErrSayBufferFull is never sent after all.                               *)
SaidInOrder ==
  /\ Fifo!Contents(said) \subseteq Fifo!Contents(accepted)
  /\ \A i, j \in DOMAIN said :
       i < j /\ said[i][1] = said[j][1] => Fifo!Before(accepted, said[i], said[j])

RefusedNotAccepted == refused \cap Fifo!Contents(accepted) = {}

SayEventsOrdered == SaidInOrder /\ RefusedNotAccepted

(* Every accepted line is sent or given up, if Client.Say returns.         *)
AcceptedIsHandled ==
  DrainFairness =>
    \A m \in Message :
      m \in Fifo!Contents(accepted) ~> m \in Fifo!Contents(wire) \cup lost

(* A call returns even if Client.Say never does: the sender of an event is *)
(* not held up by a slow gateway.                                          *)
SayReturns == \A c \in Callers : pc[c] # "idle" ~> pc[c] = "idle"

=============================================================================
