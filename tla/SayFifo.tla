------------------------------ MODULE SayFifo ------------------------------
(***************************************************************************)
(* What a gateway promises about the lines it is asked to say, whatever    *)
(* goroutine asks and however the queue is built: an accepted line is      *)
(* handled once, in the order of acceptance; it is either put on the wire  *)
(* or given up; at most Capacity accepted lines are waiting.  Lines that   *)
(* are refused (ErrSayBufferFull) leave no trace.                          *)
(*                                                                         *)
(* SayQueue is the implementation of this module.                          *)
(***************************************************************************)
EXTENDS Naturals, Sequences

CONSTANTS Message,  \* the lines
          Capacity  \* accepted lines that can be waiting

VARIABLES accepted,  \* the lines accepted so far, in order
          pending,   \* those of them not handled yet
          wire,      \* the lines the server received, in order
          lost       \* the lines given up: the client returned an error

vars == <<accepted, pending, wire, lost>>

Contents(s) == {s[i] : i \in DOMAIN s}

(* a stands before b in the sequence s. *)
Before(s, a, b) == \E i, j \in DOMAIN s : i < j /\ s[i] = a /\ s[j] = b

Init ==
  /\ accepted = <<>>
  /\ pending = <<>>
  /\ wire = <<>>
  /\ lost = {}

Accept(m) ==
  /\ m \notin Contents(accepted)
  /\ Len(pending) < Capacity
  /\ accepted' = Append(accepted, m)
  /\ pending' = Append(pending, m)
  /\ UNCHANGED <<wire, lost>>

Deliver ==
  /\ pending # <<>>
  /\ wire' = Append(wire, Head(pending))
  /\ pending' = Tail(pending)
  /\ UNCHANGED <<accepted, lost>>

GiveUp ==
  /\ pending # <<>>
  /\ lost' = lost \cup {Head(pending)}
  /\ pending' = Tail(pending)
  /\ UNCHANGED <<accepted, wire>>

Next == (\E m \in Message : Accept(m)) \/ Deliver \/ GiveUp

Spec == Init /\ [][Next]_vars

-----------------------------------------------------------------------------

TypeOK ==
  /\ accepted \in Seq(Message)
  /\ pending \in Seq(Message)
  /\ wire \in Seq(Message)
  /\ lost \in SUBSET Message

(* The server receives lines in the order in which they were accepted.     *)
WireOrdered ==
  \A i, j \in DOMAIN wire : i < j => Before(accepted, wire[i], wire[j])

(* No line is accepted, and hence none delivered, twice.                   *)
AcceptedOnce ==
  \A i, j \in DOMAIN accepted : accepted[i] = accepted[j] => i = j

=============================================================================
