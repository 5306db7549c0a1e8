------------------------------ MODULE ConfigTree ------------------------------
(***************************************************************************)
(* The configuration as the tree it is (config.go), over Structs.          *)
(*                                                                         *)
(* ConfigPersist takes the configuration for three values.  Here are the   *)
(* conversions of the code, on a tree with all kinds of nesting: Default,  *)
(* which BNet.Default falls back to, BNet.Default, which the gateway g     *)
(* falls back to, and the relays to g, which fall back to Relay.Default or *)
(* Relay.DefaultSelf as a whole.  The sections of Capi and Discord are     *)
(* treated as that of BNet.                                                *)
(***************************************************************************)
EXTENDS ConfigPersist, Sequences

S == INSTANCE Structs

Gateway == {"g", "h"}  \* h has no section of its own

Field(keys) == [k \in keys |-> S!Leaf(0)]
Entries(f) == [k \in DOMAIN f |-> S!Leaf(f[k])]
Levels(f) == S!Dict(S!Leaf(0), Entries(f))

(* A section of defaults or a gateway, a relay, the relays to a gateway.   *)
Section(trigger, talk, users) ==
  S!Struct([Trigger |-> S!Leaf(trigger), AccessTalk |-> S!Leaf(talk), AccessUser |-> Levels(users)])
Relay(access) == S!Struct([ChatAccess |-> S!Leaf(access)])
RelayTo(dflt, from) == S!Struct([Default |-> dflt, From |-> S!Dict(Relay(0), from)])

Tree(trigger, dflt, gateways, relay) ==
  S!Struct([Default |-> S!Struct([Trigger |-> S!Leaf(trigger)]),
            BNet    |-> S!Struct([Default  |-> dflt,
                                  Gateways |-> S!Dict(Section(0, 0, <<>>), gateways)]),
            Relay   |-> relay])
Relays(dflt, self, to) ==
  S!Struct([Default |-> dflt, DefaultSelf |-> self, To |-> S!Dict(RelayTo(Relay(0), <<>>), to)])
NewConfig == Tree(0, Section(0, 0, <<>>), <<>>, Relays(Relay(0), Relay(0), <<>>))

-----------------------------------------------------------------------------
(* Defaults *)

TreeMergeDefaults(c) ==
  LET dflt == S!merge(c.kids.BNet.kids.Default, c.kids.Default, S!Fill)
      bnet == S!Struct([Default  |-> dflt,
                        Gateways |-> [c.kids.BNet.kids.Gateways EXCEPT !.kids =
                                       [g \in DOMAIN @ |-> S!merge(@[g], dflt, S!Fill)]]])
  IN [c EXCEPT !.kids.BNet = bnet]

(* GetRelay makes the sections that a relay lacks.                         *)
GetRelay(c, to, from) ==
  LET r == c.kids.Relay.kids
      t == IF to \in DOMAIN r.To.kids THEN r.To.kids[to] ELSE RelayTo(r.Default, <<>>)
      f == IF from \in DOMAIN t.kids.From.kids THEN t.kids.From.kids[from]
           ELSE IF to = from THEN r.DefaultSelf ELSE t.kids.Default
  IN S!Assign(S!Assign(c, <<"Relay", "To", to>>, t), <<"Relay", "To", to, "From", from>>, f)

(* New asks for the relays of all gateways, those to g here.               *)
Running(c) == GetRelay(GetRelay(c, "g", "g"), "g", "h")
RelayOf(c, from) == S!Find(Running(c), <<"Relay", "To", "g", "From", from>>)

-----------------------------------------------------------------------------
(* Map *)

Put(m, k, x) == [m EXCEPT !.kids[k] = x]

(* Mutant: relays are compared with the default of all relays.             *)
Reduced_Global(r, k, t) ==
  LET from == S!Without(t.kids.From, {f \in DOMAIN t.kids.From.kids : t.kids.From.kids[f] = r.kids.Default})
  IN S!Without(Put(t, "From", from),
       {x \in {"Default"} : t.kids.Default = r.kids.Default} \cup {x \in {"From"} : S!empty(from)})

(* The relays to k without those that equal the default they would get.    *)
Reduced(r, k, t) ==
  LET from == S!Without(t.kids.From,
                {f \in DOMAIN t.kids.From.kids :
                   t.kids.From.kids[f] = IF f = k THEN r.kids.DefaultSelf ELSE t.kids.Default})
  IN S!Without(Put(t, "From", from),
       {x \in {"Default"} : t.kids.Default = r.kids.Default} \cup {x \in {"From"} : S!empty(from)})

RelayMap(r) ==
  LET to == [k \in DOMAIN r.kids.To.kids |-> Reduced(r, k, r.kids.To.kids[k])]
  IN Put(r, "To", S!Dict(S!Nil, Restrict(to, {k \in DOMAIN to : to[k].kids # <<>>})))

(* Mutant: the section of defaults is reduced before the gateways.         *)
BNetMap_DefaultFirst(b, d) ==
  LET dflt == S!DeleteEqual(b.kids.Default, d)
  IN S!Dict(S!Nil, [Default  |-> dflt,
                    Gateways |-> [b.kids.Gateways EXCEPT !.kids = [g \in DOMAIN @ |-> S!DeleteEqual(@[g], dflt)]]])

(* Without what a section would get from its defaults.                     *)
BNetMap(b, d) ==
  LET dflt == b.kids.Default
  IN S!Dict(S!Nil, [Default  |-> S!DeleteEqual(dflt, d),
                    Gateways |-> [b.kids.Gateways EXCEPT !.kids = [g \in DOMAIN @ |-> S!DeleteEqual(@[g], dflt)]]])

TreeMap(c) ==
  LET m == S!Map(c) IN
  Put(Put(m, "BNet", BNetMap(m.kids.BNet, m.kids.Default)), "Relay", RelayMap(m.kids.Relay))

-----------------------------------------------------------------------------
(* Saving, loading, setting *)

Copy(c) == S!merge(NewConfig, c, S!Overwrite)
FromMap(m) == S!merge(NewConfig, m, S!Overwrite)

TreeSave(d, c) == S!DeleteEqual(TreeMap(c), TreeMap(TreeMergeDefaults(Copy(d))))
TreeLoad(d, m) == TreeMergeDefaults(S!merge(Copy(d), m, S!Overwrite))

(* The copy is changed, gets its defaults, and replaces the configuration. *)
Replaced(c, n) == S!merge(c, TreeMergeDefaults(n), S!Replace)

TreeSet(c, path, v) ==
  LET n == FromMap(TreeMap(c))
  IN IF S!Known(n, path) THEN Replaced(c, S!Assign(n, path, S!Leaf(v))) ELSE c

TreeUnset(c, path) ==
  LET n == FromMap(TreeMap(c))
  IN IF S!Find(n, path) = S!Nil THEN c ELSE Replaced(c, S!Unset(n, path))

-----------------------------------------------------------------------------
(* Reference definitions *)

Path == [dflt  |-> <<"BNet", "Default", "AccessTalk">>,
         field |-> <<"BNet", "Gateways", "g", "AccessTalk">>,
         user  |-> <<"BNet", "Gateways", "g", "AccessUser", "x">>]

User(v) == IF v = Absent THEN <<>> ELSE [x |-> v]
Nest(c) ==
  Tree(0, Section(0, c.dflt, <<>>), [g |-> Section(0, c.field, User(c.user))],
       Relays(Relay(1), Relay(0), <<>>))

(* The settings of config.go fall back to one another as these do.         *)
Chain == [Default |-> <<"Default", "Trigger">>,
          BNet    |-> <<"BNet", "Default", "Trigger">>,
          g       |-> <<"BNet", "Gateways", "g", "Trigger">>,
          all     |-> <<"BNet", "Default", "AccessUser", "x">>,
          one     |-> <<"BNet", "Gateways", "g", "AccessUser", "x">>]
Fallback == [BNet |-> "Default", g |-> "BNet", one |-> "all"]

(* What each should be once k is v: v where it is set, and where it        *)
(* followed the setting it falls back to, it still does.  0 stands for not *)
(* set.                                                                    *)
Expected(c, k, v) ==
  LET now(j) == S!Find(c, Chain[j])
      own(j) == IF j = k THEN v ELSE now(j)
      Follows(j) == j # k /\ now(j) = now(Fallback[j])
      new[j \in DOMAIN Chain] ==
        IF j \in DOMAIN Fallback
             /\ (Follows(j) \/ (S!empty(own(j)) /\ new[Fallback[j]] # S!Nil))
          THEN new[Fallback[j]]
          ELSE own(j)
  IN new

ChainTrees ==
  {Tree(t[1], Section(t[2], 1, User(a)), [g |-> Section(t[3], 1, User(u))], Relays(Relay(1), Relay(0), <<>>)) :
     t \in Value \X Value \X Value, a \in Value \cup {Absent}, u \in Value \cup {Absent}}

AnyRelay == {Relay(v) : v \in Value}
AnyTo ==
  {<<>>} \cup {[g |-> RelayTo(t, f)] : t \in AnyRelay, f \in UNION {[F -> AnyRelay] : F \in SUBSET Gateway}}
RelayTrees ==
  {Tree(0, Section(0, 1, <<>>), [g |-> Section(0, 2, <<>>)], Relays(d, s, to)) :
     d \in AnyRelay, s \in AnyRelay, to \in AnyTo}

(* A relay has a section of its own next to one that repeats the default.  *)
Hollow(c) ==
  LET r == RelayMap(S!Map(c).kids.Relay).kids.To.kids
  IN "g" \in DOMAIN r /\ "Default" \notin DOMAIN r.g.kids

(* The properties are about the conversions of a configuration, not about  *)
(* states: they are looked at once, when the program starts.               *)
FirstStart == main = "up" /\ saver = "wait" /\ hash = Absent /\ changes = 0 /\ crashes = 0

-----------------------------------------------------------------------------

(* The conversions of ConfigPersist are those of the code: on the settings *)
(* that stand for all there, merging, mapping, saving, loading, setting    *)
(* and removing give the same, through structs, maps and their defaults.   *)
ConversionsAgree == FirstStart =>
  LET Merged == {MergeDefaults(c) : c \in Config}
      Same(m, n) == \A k \in Key :
        S!Find(n, Path[k]) = IF k \in DOMAIN m /\ m[k] # Absent THEN S!Leaf(m[k]) ELSE S!Nil
  IN /\ \A c \in Config : TreeMergeDefaults(Nest(c)) = Nest(MergeDefaults(c))
     /\ \A c \in Merged : Same(Map(c), TreeMap(Nest(c)))
     /\ \A c \in Merged, k \in Key :
          /\ Running(TreeUnset(Nest(c), Path[k])) = Running(Nest(Unset(c, k)))
          /\ \A v \in Value : Running(TreeSet(Nest(c), Path[k], v)) = Running(Nest(Set(c, k, v)))
     /\ \A d \in Config, c \in Merged :
          /\ Same(Difference(d, c), TreeSave(Nest(d), Nest(c)))
          /\ TreeLoad(Nest(d), TreeSave(Nest(d), Nest(c))) = Nest(Loaded(d, Difference(d, c)))

(* Setting one key changes that key, and what fell back to it follows;     *)
(* every other setting is as it was, though Set rebuilds them all from a   *)
(* map that leaves out what equals its default.                            *)
OthersKept == FirstStart =>
  \A d \in ChainTrees : LET c == TreeMergeDefaults(d) IN
    \A k \in DOMAIN Chain, v \in Value : LET n == TreeSet(c, Chain[k], v) IN
      \A j \in DOMAIN Chain : S!Find(n, Chain[j]) = Expected(c, k, S!Leaf(v))[j]

KeepsRelays(d) ==
  LET n == TreeSet(Running(TreeLoad(d, S!Dict(S!Nil, <<>>))), Path.field, 1)
  IN \A from \in Gateway :
       /\ RelayOf(n, from) = RelayOf(d, from)
       /\ RelayOf(TreeLoad(d, TreeSave(d, n)), from) = RelayOf(d, from)

(* Relays stay as they are configured when something else is set, now and  *)
(* after a restart, unless a section of config.toml repeats the default.   *)
RelaysKept == FirstStart => \A d \in RelayTrees : Hollow(d) \/ KeepsRelays(d)

(* "Goop searches in the following order and uses the first found          *)
(* section": the same, whatever config.toml has.                           *)
RelaysAsConfigured == FirstStart => \A d \in RelayTrees : KeepsRelays(d)

=============================================================================
