-------------------------------- MODULE Structs --------------------------------
(***************************************************************************)
(* Nested settings (structs.go): merging, mapping, finding and setting.    *)
(*                                                                         *)
(* A value is a tree.  A struct has the fields of its type.  A map has any *)
(* keys, and elt, the zero value of its elements; that of a                *)
(* map[string]interface{} is Nil.  Everything else is a leaf, zero where   *)
(* reflect says so.  Names are matched without their case in the code, and *)
(* lists are leaves: the keys of a tree are what remains of both.          *)
(***************************************************************************)
EXTENDS Naturals, Sequences, SequencesExt, Functions

Nil == [type |-> "nil"]
Leaf(v) == [type |-> "leaf", val |-> v]
Struct(kids) == [type |-> "struct", kids |-> kids]
Dict(elt, kids) == [type |-> "map", elt |-> elt, kids |-> kids]
NoKids == <<>>

Keys(t) == IF t.type \in {"struct", "map"} THEN DOMAIN t.kids ELSE {}

empty(t) ==
  \/ t.type = "nil"
  \/ t.type = "leaf" /\ t.val = 0
  \/ t.type = "map" /\ Keys(t) = {}

Zero(t) ==
  CASE t.type = "leaf" -> Leaf(0) [] t.type = "map" -> Dict(t.elt, NoKids) [] OTHER -> Nil

(* MergeOptions                                                            *)
Fill == [overwrite |-> FALSE, delete |-> FALSE]
Overwrite == [overwrite |-> TRUE, delete |-> FALSE]
Replace == [overwrite |-> TRUE, delete |-> TRUE]

(* merge, Map and DeleteEqual call themselves on the values of a struct or *)
(* map.  Here each is given its operation on what is inside, Inner, and    *)
(* there is one for each level down to the deepest leaf, six below the     *)
(* root: Relay.To[g].From[h].ChatAccess.                                   *)

(* A map: an element that is new is merged into the zero value.            *)
mergeMaps(Inner(_, _, _), dst, src, opt) ==
  [dst EXCEPT !.kids =
    [k \in Keys(src) \cup (IF opt.delete THEN {} ELSE Keys(dst)) |->
      IF k \in Keys(src)
        THEN Inner(IF k \in Keys(dst) THEN dst.kids[k] ELSE dst.elt, src.kids[k], opt)
        ELSE dst.kids[k]]]

(* A struct.  A key that dst has no field for is left out, and so is a     *)
(* field of a struct that is not set, unless it overwrites.                *)
mergeFields(Inner(_, _, _), dst, src, opt) ==
  [dst EXCEPT !.kids =
    [k \in Keys(dst) |->
      IF k \in Keys(src) /\ (src.type = "struct" /\ empty(src.kids[k]) => opt.overwrite)
        THEN Inner(dst.kids[k], src.kids[k], opt)
        ELSE dst.kids[k]]]

(* What dst becomes.                                                       *)
mergeInto(Inner(_, _, _), dst, src, opt) ==
  CASE src.type = "leaf" -> IF empty(dst) \/ opt.overwrite THEN src ELSE dst
    [] src.type = "map" /\ dst.type = "nil" -> mergeMaps(Inner, Dict(Nil, NoKids), src, opt)
    [] src.type = "map" /\ dst.type = "map" -> mergeMaps(Inner, dst, src, opt)
    [] OTHER -> mergeFields(Inner, dst, src, opt)

merge0(dst, src, opt) == IF empty(dst) \/ opt.overwrite THEN src ELSE dst
merge1(dst, src, opt) == mergeInto(merge0, dst, src, opt)
merge2(dst, src, opt) == mergeInto(merge1, dst, src, opt)
merge3(dst, src, opt) == mergeInto(merge2, dst, src, opt)
merge4(dst, src, opt) == mergeInto(merge3, dst, src, opt)
merge5(dst, src, opt) == mergeInto(merge4, dst, src, opt)
merge(dst, src, opt) == mergeInto(merge5, dst, src, opt)

(* Structs become maps.                                                    *)
MapOf(Inner(_), t) ==
  IF t.type \in {"struct", "map"} THEN Dict(Nil, [k \in Keys(t) |-> Inner(t.kids[k])]) ELSE t

Map0(t) == t
Map1(t) == MapOf(Map0, t)
Map2(t) == MapOf(Map1, t)
Map3(t) == MapOf(Map2, t)
Map4(t) == MapOf(Map3, t)
Map5(t) == MapOf(Map4, t)
Map(t) == MapOf(Map5, t)

Without(t, ks) == [t EXCEPT !.kids = Restrict(@, DOMAIN @ \ ks)]

Equal(dst, src) == {k \in Keys(dst) \cap Keys(src) : dst.kids[k] = src.kids[k]}

(* Mutant: maps that differ are kept as they are.                          *)
DeleteEqual_Flat(dst, src) == Without(dst, Equal(dst, src))

DeleteEqualIn(Inner(_, _), dst, src) ==
  Without([dst EXCEPT !.kids =
            [k \in Keys(dst) |-> IF dst.kids[k].type = "map" /\ k \in Keys(src)
                                   THEN Inner(dst.kids[k], src.kids[k]) ELSE dst.kids[k]]],
          Equal(dst, src))

DeleteEqual0(dst, src) == Without(dst, Equal(dst, src))
DeleteEqual1(dst, src) == DeleteEqualIn(DeleteEqual0, dst, src)
DeleteEqual2(dst, src) == DeleteEqualIn(DeleteEqual1, dst, src)
DeleteEqual3(dst, src) == DeleteEqualIn(DeleteEqual2, dst, src)
DeleteEqual4(dst, src) == DeleteEqualIn(DeleteEqual3, dst, src)
DeleteEqual(dst, src) == DeleteEqualIn(DeleteEqual4, dst, src)

(* The value under a key, or Nil; the value with another under a key.      *)
Kid(t, k) == IF k \in Keys(t) THEN t.kids[k] ELSE Nil
With(t, k, x) == [t EXCEPT !.kids = [j \in Keys(t) \cup {k} |-> IF j = k THEN x ELSE t.kids[j]]]

(* The values on the way along a path, each Nil once there is none.        *)
Way(t, path) ==
  LET at[i \in 0..Len(path)] == IF i = 0 THEN t ELSE Kid(at[i - 1], path[i])
  IN at

Find(t, path) == Way(t, path)[Len(path)]

(* Assign: the values on the way are rebuilt, from the end.                *)
Assign(t, path, v) ==
  LET n == Len(path)
      new[i \in 0..n] ==
        IF i = 0 THEN v ELSE With(Way(t, path)[n - i], path[n - i + 1], new[i - 1])
  IN new[n]

(* Set and SetString: what exists is changed, and a map gets a new key.    *)
Known(t, path) == Find(t, path) # Nil \/ Find(t, Front(path)).type = "map"
Set(t, path, v) == Assign(t, path, v)

(* Unset: an entry of a map is removed, another value becomes zero.        *)
Unset(t, path) ==
  LET parent == Find(t, Front(path)) IN
  IF parent.type = "map"
    THEN Assign(t, Front(path), Without(parent, {Last(path)}))
    ELSE Assign(t, path, Zero(Find(t, path)))

=============================================================================
