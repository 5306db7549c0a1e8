----------------------------- MODULE MCPresence -----------------------------
EXTENDS Presence, TLC

CONSTANTS g1, g2, c1, c2, c3

(* One guild with two of its three channels configured; two guilds with    *)
(* one channel each.                                                       *)
MCOneGuild == g1 :> {c1, c2, c3}
MCTwoGuilds == (g1 :> {c1}) @@ (g2 :> {c2})

=============================================================================
