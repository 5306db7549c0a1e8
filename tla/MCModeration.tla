----------------------------- MODULE MCModeration -----------------------------
(***************************************************************************)
(* One person in a channel; seven bits for a level, and the named          *)
(* levels in proportion; some of the default aliases.                      *)
(***************************************************************************)
EXTENDS Moderation, TLC

CONSTANTS u, any, arg

MCLevels == <<63, 40, 12, 8, 4, 1, 0, -1, -4, -8, -12, -64>>
MCVoice == [x \in Ids |-> 1]

Level(i) == [name |-> i, mod |-> 0]

(* "max+1".                                                                *)
MCWrapped == [name |-> 1, mod |-> 1]

MCZero == [x \in Ids |-> 0]
MCDefaultBan == [x \in Ids |-> IF x = u THEN -8 ELSE 0]
MCAccess == {[x \in Ids |-> IF x = u THEN l ELSE 0] : l \in {0, -8}}
MCBlacklist == {[x \in Ids |-> IF x = u THEN -12 ELSE 0]}

(* An admin in the channel, an operator on another gateway.                *)
MCIssuers == {[id |-> "boss", access |-> 12, here |-> TRUE], [id |-> "mod", access |-> 8, here |-> FALSE]}

MCMods == {[id |-> "mod", access |-> 8, here |-> FALSE]}

Typed(name) == {[cmd |-> name, args |-> <<u>>]}
MCInputs ==
  UNION {Typed(c) : c \in {"ban", "unban", "kick", "unblacklist"}}
    \cup {[cmd |-> "set", args |-> <<u, Level(i)>>] : i \in {5, 9}}
    \cup {[cmd |-> "kick", args |-> <<any>>]}
    \cup {[cmd |-> "set", args |-> <<u, MCWrapped>>], [cmd |-> "unknown", args |-> <<u>>]}

Index(n) == [arg |-> n, text |-> Level(7)]
Literal(t) == [arg |-> 0, text |-> t]
MCAlias ==
  ("whitelist" :> [exe |-> "set", arg |-> <<Index(1), Literal(Level(5))>>, expected |-> 1, with |-> 0]) @@
  ("unset" :> [exe |-> "set", arg |-> <<Index(1), Literal(Level(7))>>, expected |-> 1, with |-> 0]) @@
  ("unblacklist" :> [exe |-> "unset", arg |-> <<>>, expected |-> 0, with |-> 0])

=============================================================================
