------------------------------ MODULE MCRelay ------------------------------
(***************************************************************************)
(* Two chat gateways and the console.  Chat and Say are relayed both ways  *)
(* and to the console; the log of a goes to b and to the console, that of  *)
(* b to the console.                                                       *)
(***************************************************************************)
EXTENDS Relay, TLC

CONSTANTS a, b, con

MCGateways == {a, b, con}
MCTo == (a :> {b}) @@ (b :> {a}) @@ (con :> {})
MCToAll == (a :> {b, con}) @@ (b :> {a, con}) @@ (con :> {})
MCLogTo == (a :> {b, con}) @@ (b :> {con}) @@ (con :> {})
MCRank == (a :> 2) @@ (b :> 1) @@ (con :> 0)
MCPosition == [g \in MCGateways |-> (a :> 0) @@ (con :> 1) @@ (b :> 2)]
MCVoice == {1}
MCKickToVoice == {-1, 0, 1}

=============================================================================
