------------------------ MODULE ConfigPersistProofs ------------------------
(***************************************************************************)
(* What is written to config.persist.toml, and what the next run makes of  *)
(* it, for any values and any config.toml.                                 *)
(*                                                                         *)
(* RoundTrip is about the conversions alone: Map, DeleteEqual, the merge   *)
(* of Load and MergeDefaults take a configuration to the file and back     *)
(* exactly when it is Restorable.  SavedConfigRestored and HashMatchesFile *)
(* carry that through the steps of the saving goroutine, beside commands   *)
(* that change the configuration while it writes.                          *)
(*                                                                         *)
(* The rest is about the configuration as the tree it is.  Every tree that *)
(* the properties speak of is given in closed form, by its settings, and   *)
(* so is what each conversion makes of it: one lemma for each kind of      *)
(* section and conversion, from the leaves up to the whole tree.  Then     *)
(* setting, saving and loading become equations between settings, which    *)
(* RelaysStay, ConversionsAreTheCodes and SetKeepsOthers settle for all    *)
(* values.                                                                 *)
(***************************************************************************)
EXTENDS ConfigTree, SequenceTheorems, TLAPS

(* The configurations MergeDefaults returns.                               *)
Settings == {c \in Config : c.field = 0 => c.dflt = 0}

LEMMA ConfigFun ==
  ASSUME NEW c \in Config
  PROVE  /\ c = [k \in Key |-> c[k]]
         /\ c["dflt"] \in Value /\ c["field"] \in Value /\ c["user"] \in Value \cup {Absent}
BY DEF Config, Key

LEMMA FunConfig ==
  ASSUME NEW f, f = [k \in Key |-> f[k]],
         f["dflt"] \in Value, f["field"] \in Value, f["user"] \in Value \cup {Absent}
  PROVE  f \in Config
BY DEF Config, Key

LEMMA MergeDefaultsSettings ==
  ASSUME NEW c \in Config
  PROVE  /\ MergeDefaults(c) \in Settings
         /\ MergeDefaults(c).dflt = c.dflt
         /\ MergeDefaults(c).user = c.user
         /\ MergeDefaults(c).field = IF c.field = 0 THEN c.dflt ELSE c.field
BY DEF MergeDefaults, Settings, Config

LEMMA OverrideKeys ==
  ASSUME NEW c \in Config, NEW m
  PROVE  /\ Override(c, m) = [k \in Key |-> Override(c, m)[k]]
         /\ \A k \in Key : Override(c, m)[k] = IF k \in DOMAIN m THEN m[k] ELSE c[k]
BY DEF Override

LEMMA MapKeys ==
  ASSUME NEW c \in Config
  PROVE  /\ "dflt" \in DOMAIN Map(c)
         /\ "field" \in DOMAIN Map(c) <=> c.field # c.dflt
         /\ "user" \in DOMAIN Map(c) <=> c.user # Absent
         /\ DOMAIN Map(c) \subseteq Key
         /\ \A k \in DOMAIN Map(c) : Map(c)[k] = c[k]
BY DEF Map, Restrict, Key

LEMMA DeleteEqualKeys ==
  ASSUME NEW m, NEW n
  PROVE  /\ \A k : k \in DOMAIN DeleteEqual(m, n) <=>
                   k \in DOMAIN m /\ (k \in DOMAIN n => m[k] # n[k])
         /\ \A k \in DOMAIN DeleteEqual(m, n) : DeleteEqual(m, n)[k] = m[k]
BY DEF DeleteEqual, Restrict

LEMMA DifferenceKeys ==
  ASSUME NEW d \in Config, NEW c \in Config
  PROVE  /\ DOMAIN Difference(d, c) \subseteq Key
         /\ \A k \in DOMAIN Difference(d, c) : Difference(d, c)[k] = c[k]
         /\ "dflt" \in DOMAIN Difference(d, c) <=> c.dflt # d.dflt
         /\ "user" \in DOMAIN Difference(d, c) <=> c.user # Absent /\ c.user # d.user
         /\ "field" \in DOMAIN Difference(d, c) <=>
              /\ c.field # c.dflt
              /\ d.field \notin {0, d.dflt} => c.field # d.field
<1> DEFINE D == MergeDefaults(d)
<1>1. D \in Config
  BY MergeDefaultsSettings DEF Settings
<1>2. D.dflt = d.dflt /\ D.user = d.user /\ D.field = IF d.field = 0 THEN d.dflt ELSE d.field
  BY MergeDefaultsSettings
<1>3. \A k : k \in DOMAIN Difference(d, c) <=>
            k \in DOMAIN Map(c) /\ (k \in DOMAIN Map(D) => Map(c)[k] # Map(D)[k])
  BY DeleteEqualKeys DEF Difference
<1>4. \A k \in DOMAIN Difference(d, c) : Difference(d, c)[k] = Map(c)[k]
  BY DeleteEqualKeys DEF Difference
<1>5. /\ "dflt" \in DOMAIN Map(c)
      /\ "field" \in DOMAIN Map(c) <=> c.field # c.dflt
      /\ "user" \in DOMAIN Map(c) <=> c.user # Absent
      /\ DOMAIN Map(c) \subseteq Key
      /\ \A k \in DOMAIN Map(c) : Map(c)[k] = c[k]
  BY MapKeys
<1>6. /\ "dflt" \in DOMAIN Map(D)
      /\ "field" \in DOMAIN Map(D) <=> D.field # D.dflt
      /\ "user" \in DOMAIN Map(D) <=> D.user # Absent
      /\ \A k \in DOMAIN Map(D) : Map(D)[k] = D[k]
  BY <1>1, MapKeys
<1> HIDE DEF D
<1>7. DOMAIN Difference(d, c) \subseteq Key
  BY <1>3, <1>5
<1>8. \A k \in DOMAIN Difference(d, c) : Difference(d, c)[k] = c[k]
  BY <1>3, <1>4, <1>5
<1>9. "dflt" \in DOMAIN Difference(d, c) <=> c.dflt # d.dflt
  BY <1>2, <1>3, <1>5, <1>6
<1>10. "user" \in DOMAIN Difference(d, c) <=> c.user # Absent /\ c.user # d.user
  BY <1>2, <1>3, <1>5, <1>6
<1>11. "field" \in DOMAIN Difference(d, c) <=>
         /\ c.field # c.dflt
         /\ d.field \notin {0, d.dflt} => c.field # d.field
  BY <1>2, <1>3, <1>5, <1>6
<1> QED BY <1>7, <1>8, <1>9, <1>10, <1>11

(* The file restores a configuration exactly if no setting of config.toml  *)
(* was removed from it: Restorable is what the format cannot express.      *)
THEOREM RoundTrip ==
  ASSUME NEW d \in Config, NEW c \in Settings
  PROVE  Loaded(d, Difference(d, c)) = c <=> Restorable(d, c)
<1> DEFINE m == Difference(d, c)
           o == Override(d, m)
<1>1. c \in Config
  BY DEF Settings
<1>2. /\ \A k \in DOMAIN m : m[k] = c[k]
      /\ "dflt" \in DOMAIN m <=> c.dflt # d.dflt
      /\ "user" \in DOMAIN m <=> c.user # Absent /\ c.user # d.user
      /\ "field" \in DOMAIN m <=>
              /\ c.field # c.dflt
              /\ d.field \notin {0, d.dflt} => c.field # d.field
  BY <1>1, DifferenceKeys
<1>3. /\ o = [k \in Key |-> o[k]]
      /\ \A k \in Key : o[k] = IF k \in DOMAIN m THEN m[k] ELSE d[k]
  BY OverrideKeys
<1>4. {"dflt", "field", "user"} = Key
  BY DEF Key
<1> HIDE DEF m, o
<1>5. o["dflt"] = c.dflt
  BY <1>2, <1>3, <1>4
<1>6. o["user"] = IF c.user = Absent THEN d.user ELSE c.user
  BY <1>2, <1>3, <1>4
<1>7. o["field"] = IF c.field = c.dflt THEN d.field ELSE c.field
  <2>1. CASE c.field = c.dflt
    BY <2>1, <1>2, <1>3, <1>4
  <2>2. CASE c.field # c.dflt
    BY <2>2, <1>2, <1>3, <1>4
  <2> QED BY <2>1, <2>2
<1>8. o \in Config
  <2>1. /\ c["dflt"] \in Value /\ c["field"] \in Value /\ c["user"] \in Value \cup {Absent}
        /\ d["field"] \in Value /\ d["user"] \in Value \cup {Absent}
    BY <1>1, ConfigFun
  <2> QED BY <1>3, <1>5, <1>6, <1>7, <2>1, FunConfig
<1>9. /\ MergeDefaults(o).dflt = o.dflt
      /\ MergeDefaults(o).user = o.user
      /\ MergeDefaults(o).field = IF o.field = 0 THEN o.dflt ELSE o.field
      /\ MergeDefaults(o) \in Config
  BY <1>8, MergeDefaultsSettings DEF Settings
<1>10. MergeDefaults(o) = c <=> MergeDefaults(o).field = c.field /\ MergeDefaults(o).user = c.user
  BY <1>1, <1>5, <1>9 DEF Config
<1>11. MergeDefaults(o).user = c.user <=> (c.user = Absent => d.user = Absent)
  BY <1>6, <1>9
<1>12. MergeDefaults(o).field = c.field <=> (c.field = c.dflt => d.field \in {0, c.field})
  BY <1>5, <1>7, <1>9 DEF Settings
<1> QED BY <1>10, <1>11, <1>12 DEF Loaded, o, m, Restorable

-----------------------------------------------------------------------------
(* The invariant *)

LEMMA SetSettings ==
  ASSUME NEW c \in Config, NEW k \in Key, NEW v,
         v \in Value \/ v = Zero[k]
  PROVE  Set(c, k, v) \in Settings
<1> DEFINE o == Override(Zero, Map(c))
           e == [o EXCEPT ![k] = v]
<1>1. Zero \in Config
  BY ValueAssumption DEF Zero, Config
<1>2. /\ o = [j \in Key |-> o[j]]
      /\ \A j \in Key : o[j] = IF j \in DOMAIN Map(c) THEN Map(c)[j] ELSE Zero[j]
  BY <1>1, OverrideKeys
<1>3. \A j \in DOMAIN Map(c) : Map(c)[j] = c[j]
  BY MapKeys
<1>4. {"dflt", "field", "user"} = Key
  BY DEF Key
<1>5. /\ c["dflt"] \in Value /\ c["field"] \in Value /\ c["user"] \in Value \cup {Absent}
      /\ Zero["dflt"] \in Value /\ Zero["field"] \in Value /\ Zero["user"] \in Value \cup {Absent}
  BY <1>1, ConfigFun
<1> HIDE DEF o
<1>6. o["dflt"] \in Value /\ o["field"] \in Value /\ o["user"] \in Value \cup {Absent}
  BY <1>2, <1>3, <1>4, <1>5
<1>7. /\ e = [j \in Key |-> e[j]]
      /\ \A j \in Key : e[j] = IF j = k THEN v ELSE o[j]
  BY <1>2
<1> HIDE DEF e
<1>8. e["dflt"] \in Value /\ e["field"] \in Value /\ e["user"] \in Value \cup {Absent}
  BY <1>4, <1>5, <1>6, <1>7
<1>9. e \in Config
  BY <1>7, <1>8, FunConfig
<1> QED BY <1>9, MergeDefaultsSettings DEF Set, e, o

(* What a file can hold.                                                   *)
Stored(d) == {<<>>} \cup {Difference(d, c) : c \in Settings}

LEMMA LoadedSettings ==
  ASSUME NEW d \in Config, NEW m \in Stored(d)
  PROVE  Loaded(d, m) \in Settings
<1> DEFINE o == Override(d, m)
<1>1. /\ o = [j \in Key |-> o[j]]
      /\ \A j \in Key : o[j] = IF j \in DOMAIN m THEN m[j] ELSE d[j]
  BY OverrideKeys
<1>2. d["dflt"] \in Value /\ d["field"] \in Value /\ d["user"] \in Value \cup {Absent}
  BY ConfigFun
<1>3. {"dflt", "field", "user"} = Key
  BY DEF Key
<1> HIDE DEF o
<1>4. CASE m = <<>>
  <2>1. DOMAIN m = {}
    BY <1>4
  <2>2. o["dflt"] = d["dflt"] /\ o["field"] = d["field"] /\ o["user"] = d["user"]
    BY <1>1, <1>3, <2>1
  <2>3. o \in Config
    BY <1>1, <1>2, <2>2, FunConfig
  <2> QED BY <2>3, MergeDefaultsSettings DEF Loaded, o
<1>5. ASSUME NEW c \in Settings, m = Difference(d, c) PROVE Loaded(d, m) \in Settings
  <2>1. c \in Config
    BY DEF Settings
  <2>2. \A k \in DOMAIN m : m[k] = c[k]
    BY <1>5, <2>1, DifferenceKeys
  <2>3. c["dflt"] \in Value /\ c["field"] \in Value /\ c["user"] \in Value \cup {Absent}
    BY <2>1, ConfigFun
  <2>4. o["dflt"] \in Value /\ o["field"] \in Value /\ o["user"] \in Value \cup {Absent}
    BY <1>1, <1>2, <1>3, <2>2, <2>3
  <2>5. o \in Config
    BY <1>1, <2>4, FunConfig
  <2> QED BY <2>5, MergeDefaultsSettings DEF Loaded, o
<1> QED BY <1>4, <1>5 DEF Stored

Types ==
  /\ def \in Config
  /\ conf \in Settings /\ snap \in Settings
  /\ \A c \in Command : pending[c] = Absent \/ pending[c].conf \in Settings
  /\ pending = [c \in Command |-> pending[c]]
  /\ file.map \in Stored(def)
  /\ saver \in {"wait", "create", "write", "ended"}
  /\ fails \in Nat /\ crashes \in Nat

(* While the file is being written the hash is that of the configuration   *)
(* Save looked at, until a command puts back the one it copied; without    *)
(* crashes the program is only down when the saving goroutine has ended.   *)
Saving ==
  /\ saver \in {"create", "write"} /\ ~reverted => hash = Difference(def, snap)
  /\ main = "down" /\ crashes = 0 => saver = "ended"

(* Between saves the file has what the hash stands for, unless a command   *)
(* has put back an older one, and what was looked at, unless such a hash   *)
(* has misled the last save.  A file and its hash never disagree.          *)
Settled ==
  Saved => /\ file.map = file.hash
           /\ ~reverted => file.hash = hash
           /\ ~misled /\ Restorable(def, snap) => Loaded(def, file.map) = snap

IInv == Types /\ Saving /\ HashOfFile /\ Settled

LEMMA IInvInit == Init => IInv
<1> SUFFICES ASSUME Init PROVE IInv
  OBVIOUS
<1>1. def \in Config
  BY DefsAssumption DEF Init
<1>2. <<>> \in Stored(def)
  BY DEF Stored
<1>3. Loaded(def, <<>>) \in Settings
  BY <1>1, <1>2, LoadedSettings
<1> QED BY <1>1, <1>2, <1>3 DEF Init, IInv, Types, Saving, HashOfFile, Settled, Saved, EmptyFile

(* Steps of commands: the saving goroutine's part does not move, but the    *)
(* hash may become an older one.                                           *)
LEMMA CommandStep ==
  ASSUME IInv, UNCHANGED <<def, main, fileVars, crashes>>, conf' \in Settings,
         ~reverted' => ~reverted /\ hash' = hash,
         NEW c, NEW x, x = Absent \/ x.conf \in Settings,
         pending' = pending \/ pending' = [pending EXCEPT ![c] = x]
  PROVE  IInv'
<1>1. Types'
  BY DEF IInv, Types, fileVars
<1>2. Saving' /\ HashOfFile'
  BY DEF IInv, Saving, HashOfFile, fileVars
<1>3. Settled'
  BY DEF IInv, Settled, Saved, fileVars
<1> QED BY <1>1, <1>2, <1>3 DEF IInv

LEMMA IInvStep == IInv /\ [Next]_vars => IInv'
<1> SUFFICES ASSUME IInv, [Next]_vars PROVE IInv'
  OBVIOUS
<1> USE DEF IInv
<1>1. ASSUME NEW c \in Command, NEW k \in Key, NEW v \in Value, Change(c, k, v) PROVE IInv'
  <2>1. Set(conf, k, v) \in Settings
    BY SetSettings DEF Types, Settings
  <2> QED BY <1>1, <2>1, CommandStep DEF Change, Types, Copied, saverVars, hashVars
<1>2. ASSUME NEW c \in Command, NEW k \in Key, Remove(c, k) PROVE IInv'
  <2>1. Unset(conf, k) \in Settings
    BY SetSettings DEF Types, Settings, Unset
  <2> QED BY <1>2, <2>1, CommandStep DEF Remove, Types, Copied, saverVars, hashVars
<1>3. ASSUME NEW c \in Command, Install(c) PROVE IInv'
  <2>1. conf' \in Settings
    BY <1>3 DEF Install, Types
  <2>2. ~reverted' => ~reverted /\ hash' = hash
    BY <1>3 DEF Install
  <2> QED BY <1>3, <2>1, <2>2, CommandStep DEF Install
<1>4. ASSUME NEW v \in Value, SetUserAccess(v) PROVE IInv'
  <2> DEFINE entry == IF v = 0 THEN Absent ELSE v
  <2>1. MergeDefaults([conf EXCEPT !.user = entry]) \in Settings
    <3>1. [conf EXCEPT !.user = entry] \in Config
      BY DEF Types, Settings, Config
    <3> QED BY <3>1, MergeDefaultsSettings
  <2> QED BY <1>4, <2>1, CommandStep DEF SetUserAccess, saverVars, hashVars
<1>5. CASE Save
  <2>1. CASE hash' = hash
    <3>1. hash = Difference(def, conf) /\ snap' = conf /\ saver = "wait" /\ saver' \in {"wait", "ended"}
          /\ misled' = reverted
          /\ UNCHANGED <<def, conf, pending, main, reverted, file, stored, fails, crashes>>
      BY <1>5, <2>1 DEF Save, AfterSave, commandVars
    <3>2. Types' /\ Saving' /\ HashOfFile'
      BY <2>1, <3>1, <1>5 DEF Save, Types, Saving, HashOfFile
    <3>3. Restorable(def, conf) => Loaded(def, Difference(def, conf)) = conf
      BY RoundTrip DEF Types
    <3>4. Saved' => Saved
      BY <3>1 DEF Saved
    <3>5. Settled'
      BY <2>1, <3>1, <3>3, <3>4 DEF Settled
    <3> QED BY <3>2, <3>5
  <2>2. CASE hash' # hash
    <3>1. saver' = "create" /\ snap' = conf /\ hash' = Difference(def, conf)
          /\ UNCHANGED <<def, conf, pending, main, file, stored, fails, crashes>> /\ main # "down"
      BY <1>5, <2>2 DEF Save, commandVars
    <3>2. Types' /\ Saving'
      BY <3>1 DEF Types, Saving
    <3>3. HashOfFile' /\ Settled'
      BY <3>1 DEF HashOfFile, Settled, Saved
    <3> QED BY <3>2, <3>3
  <2> QED BY <2>1, <2>2
<1>6. CASE Create
  <2>1. Types' /\ Saving'
    BY <1>6 DEF Create, Types, Saving, EmptyFile, Stored, commandVars, hashVars
  <2>2. HashOfFile' /\ Settled'
    BY <1>6 DEF Create, HashOfFile, Settled, Saved
  <2> QED BY <2>1, <2>2
<1>7. CASE CreateFails
  <2>1. Types' /\ Saving'
    BY <1>7 DEF CreateFails, Types, Saving, AfterSave, commandVars, hashVars
  <2>2. fails' # 0
    BY <1>7 DEF CreateFails, Types
  <2> QED BY <2>1, <2>2 DEF HashOfFile, Settled, Saved
<1>8. CASE Write
  <2> DEFINE m == Difference(def, snap)
  <2>1. /\ saver = "write" /\ main # "down" /\ saver' \in {"wait", "ended"}
        /\ file' = [map |-> m, hash |-> m]
        /\ UNCHANGED <<def, conf, pending, main, snap, hash, reverted, misled, fails, crashes>>
    BY <1>8 DEF Write, Encoded, AfterSave, commandVars, hashVars
  <2>2. ~reverted => hash = m
    BY <2>1 DEF Saving
  <2>3. Restorable(def, snap) => Loaded(def, m) = snap
    BY RoundTrip DEF Types
  <2>4. m \in Stored(def)
    BY DEF Types, Stored
  <2> HIDE DEF m
  <2>5. Types' /\ Saving'
    BY <2>1, <2>4 DEF Types, Saving
  <2> QED BY <2>1, <2>2, <2>3, <2>5 DEF HashOfFile, Settled
<1>9. CASE Quit
  BY <1>9 DEF Quit, Types, Saving, HashOfFile, Settled, Saved, commandVars, saverVars, hashVars, fileVars
<1>10. CASE Exit
  BY <1>10 DEF Exit, Types, Saving, HashOfFile, Settled, Saved, commandVars, saverVars, hashVars, fileVars
<1>11. CASE Crash
  <2>1. crashes' # 0 /\ main' = "down"
    BY <1>11 DEF Crash, Types
  <2> QED BY <1>11, <2>1 DEF Crash, Types, Saving, HashOfFile, Settled, Saved, commandVars, saverVars, hashVars, fileVars
<1>12. CASE Start
  <2>1. Loaded(def, file.map) \in Settings
    BY LoadedSettings DEF Types
  <2>2. Types' /\ Saving' /\ HashOfFile'
    BY <1>12, <2>1 DEF Start, Types, Saving, HashOfFile
  <2>3. Settled'
    BY <1>12 DEF Start, Saving, Settled, Saved
  <2> QED BY <2>2, <2>3
<1>13. CASE UNCHANGED vars
  BY <1>13 DEF vars, Types, Saving, HashOfFile, Settled, Saved
<1> QED BY <1>1, <1>2, <1>3, <1>4, <1>5, <1>6, <1>7, <1>8, <1>9, <1>10, <1>11, <1>12, <1>13
        DEF Next

LEMMA Inductive == Spec => []IInv
BY IInvInit, IInvStep, PTL DEF Spec

(* A save that has completed holds the configuration it looked at, and the *)
(* next run starts with it, unless an older hash made it write nothing.    *)
THEOREM SavedConfigRestored == Spec => []SaveRestores
<1>1. IInv => SaveRestores
  BY DEF IInv, Settled, SaveRestores
<1> QED BY Inductive, <1>1, PTL

(* As long as the file can be created and no command has put back an older *)
(* hash, a save is only skipped when the file holds what it would write.   *)
THEOREM HashMatchesFile == Spec => []HashOfFile
<1>1. IInv => HashOfFile
  BY DEF IInv
<1> QED BY Inductive, <1>1, PTL

LEMMA Leaves ==
  ASSUME NEW v, NEW w
  PROVE  /\ S!Leaf(v).type = "leaf" /\ S!Leaf(v).val = v
         /\ S!Keys(S!Leaf(v)) = {}
         /\ S!empty(S!Leaf(v)) <=> v = 0
         /\ S!Leaf(v) = S!Leaf(w) <=> v = w
BY DEF S!Leaf, S!Keys, S!empty

LEMMA Dicts ==
  ASSUME NEW e, NEW f
  PROVE  /\ S!Dict(e, f).type = "map" /\ S!Dict(e, f).elt = e /\ S!Dict(e, f).kids = f
         /\ S!Keys(S!Dict(e, f)) = DOMAIN f
         /\ S!empty(S!Dict(e, f)) <=> DOMAIN f = {}
         /\ \A x, h : S!Dict(e, f) = S!Dict(x, h) <=> e = x /\ f = h
BY DEF S!Dict, S!Keys, S!empty

LEMMA Structures ==
  ASSUME NEW f
  PROVE  /\ S!Struct(f).type = "struct" /\ S!Struct(f).kids = f
         /\ S!Keys(S!Struct(f)) = DOMAIN f
         /\ ~S!empty(S!Struct(f))
         /\ \A h : S!Struct(f) = S!Struct(h) <=> f = h
BY DEF S!Struct, S!Keys, S!empty

(* Replacing the kids of a map or a struct.                                *)
LEMMA Kids ==
  ASSUME NEW e, NEW f, NEW h
  PROVE  /\ [S!Dict(e, f) EXCEPT !.kids = h] = S!Dict(e, h)
         /\ [S!Struct(f) EXCEPT !.kids = h] = S!Struct(h)
BY DEF S!Dict, S!Struct

LEMMA MergeLeaf ==
  ASSUME NEW d, NEW v, NEW o, NEW r, r = IF S!empty(d) \/ o.overwrite THEN S!Leaf(v) ELSE d
  PROVE  /\ S!merge0(d, S!Leaf(v), o) = r
         /\ S!merge1(d, S!Leaf(v), o) = r
         /\ S!merge2(d, S!Leaf(v), o) = r
         /\ S!merge3(d, S!Leaf(v), o) = r
         /\ S!merge4(d, S!Leaf(v), o) = r
         /\ S!merge5(d, S!Leaf(v), o) = r
<1>1. /\ S!Leaf(v).type = "leaf"
  BY Leaves
<1>2. S!merge0(d, S!Leaf(v), o) = r
  BY <1>1 DEF S!merge0, S!mergeInto
<1>3. S!merge1(d, S!Leaf(v), o) = r
  BY <1>1 DEF S!merge1, S!mergeInto
<1>4. S!merge2(d, S!Leaf(v), o) = r
  BY <1>1 DEF S!merge2, S!mergeInto
<1>5. S!merge3(d, S!Leaf(v), o) = r
  BY <1>1 DEF S!merge3, S!mergeInto
<1>6. S!merge4(d, S!Leaf(v), o) = r
  BY <1>1 DEF S!merge4, S!mergeInto
<1>7. S!merge5(d, S!Leaf(v), o) = r
  BY <1>1 DEF S!merge5, S!mergeInto
<1> QED BY <1>2, <1>3, <1>4, <1>5, <1>6, <1>7

IsMap(u) == u = [k \in DOMAIN u |-> u[k]]

(* r is f with the keys of h, but for the values that both have.           *)
Old(e, f, k) == IF k \in DOMAIN f THEN f[k] ELSE e
MergedKeys(f, h, o) == DOMAIN h \cup (IF o.delete THEN {} ELSE DOMAIN f)
Extends(f, h, o, r) ==
  /\ IsMap(r) /\ DOMAIN r = MergedKeys(f, h, o)
  /\ \A k \in DOMAIN r \ DOMAIN h : r[k] = f[k]

(* What a map merged into a map becomes, for each level.                   *)
LEMMA MergeMaps2 ==
  ASSUME NEW e, NEW f, NEW x, NEW h, NEW o, NEW r, Extends(f, h, o, r),
         \A k \in DOMAIN h : r[k] = S!merge1(Old(e, f, k), h[k], o)
  PROVE  S!merge2(S!Dict(e, f), S!Dict(x, h), o) = S!Dict(e, r)
<1>1. /\ S!Dict(e, f).type = "map" /\ S!Dict(x, h).type = "map"
      /\ S!Dict(e, f).elt = e /\ S!Dict(e, f).kids = f /\ S!Dict(x, h).kids = h
      /\ S!Keys(S!Dict(e, f)) = DOMAIN f /\ S!Keys(S!Dict(x, h)) = DOMAIN h
  BY Dicts
<1>2. \A g : [S!Dict(e, f) EXCEPT !.kids = g] = S!Dict(e, g)
  BY Kids
<1> DEFINE g == [k \in MergedKeys(f, h, o) |->
                  IF k \in DOMAIN h THEN S!merge1(Old(e, f, k), h[k], o) ELSE f[k]]
<1>3. S!merge2(S!Dict(e, f), S!Dict(x, h), o) = S!Dict(e, g)
  BY <1>1, <1>2 DEF S!merge2, S!mergeInto, S!mergeMaps, Old, MergedKeys
<1>4. g = r
  BY DEF IsMap, Extends
<1> QED BY <1>3, <1>4

LEMMA MergeMaps3 ==
  ASSUME NEW e, NEW f, NEW x, NEW h, NEW o, NEW r, Extends(f, h, o, r),
         \A k \in DOMAIN h : r[k] = S!merge2(Old(e, f, k), h[k], o)
  PROVE  S!merge3(S!Dict(e, f), S!Dict(x, h), o) = S!Dict(e, r)
<1>1. /\ S!Dict(e, f).type = "map" /\ S!Dict(x, h).type = "map"
      /\ S!Dict(e, f).elt = e /\ S!Dict(e, f).kids = f /\ S!Dict(x, h).kids = h
      /\ S!Keys(S!Dict(e, f)) = DOMAIN f /\ S!Keys(S!Dict(x, h)) = DOMAIN h
  BY Dicts
<1>2. \A g : [S!Dict(e, f) EXCEPT !.kids = g] = S!Dict(e, g)
  BY Kids
<1> DEFINE g == [k \in MergedKeys(f, h, o) |->
                  IF k \in DOMAIN h THEN S!merge2(Old(e, f, k), h[k], o) ELSE f[k]]
<1>3. S!merge3(S!Dict(e, f), S!Dict(x, h), o) = S!Dict(e, g)
  BY <1>1, <1>2 DEF S!merge3, S!mergeInto, S!mergeMaps, Old, MergedKeys
<1>4. g = r
  BY DEF IsMap, Extends
<1> QED BY <1>3, <1>4

LEMMA MergeMaps4 ==
  ASSUME NEW e, NEW f, NEW x, NEW h, NEW o, NEW r, Extends(f, h, o, r),
         \A k \in DOMAIN h : r[k] = S!merge3(Old(e, f, k), h[k], o)
  PROVE  S!merge4(S!Dict(e, f), S!Dict(x, h), o) = S!Dict(e, r)
<1>1. /\ S!Dict(e, f).type = "map" /\ S!Dict(x, h).type = "map"
      /\ S!Dict(e, f).elt = e /\ S!Dict(e, f).kids = f /\ S!Dict(x, h).kids = h
      /\ S!Keys(S!Dict(e, f)) = DOMAIN f /\ S!Keys(S!Dict(x, h)) = DOMAIN h
  BY Dicts
<1>2. \A g : [S!Dict(e, f) EXCEPT !.kids = g] = S!Dict(e, g)
  BY Kids
<1> DEFINE g == [k \in MergedKeys(f, h, o) |->
                  IF k \in DOMAIN h THEN S!merge3(Old(e, f, k), h[k], o) ELSE f[k]]
<1>3. S!merge4(S!Dict(e, f), S!Dict(x, h), o) = S!Dict(e, g)
  BY <1>1, <1>2 DEF S!merge4, S!mergeInto, S!mergeMaps, Old, MergedKeys
<1>4. g = r
  BY DEF IsMap, Extends
<1> QED BY <1>3, <1>4

LEMMA MergeMaps5 ==
  ASSUME NEW e, NEW f, NEW x, NEW h, NEW o, NEW r, Extends(f, h, o, r),
         \A k \in DOMAIN h : r[k] = S!merge4(Old(e, f, k), h[k], o)
  PROVE  S!merge5(S!Dict(e, f), S!Dict(x, h), o) = S!Dict(e, r)
<1>1. /\ S!Dict(e, f).type = "map" /\ S!Dict(x, h).type = "map"
      /\ S!Dict(e, f).elt = e /\ S!Dict(e, f).kids = f /\ S!Dict(x, h).kids = h
      /\ S!Keys(S!Dict(e, f)) = DOMAIN f /\ S!Keys(S!Dict(x, h)) = DOMAIN h
  BY Dicts
<1>2. \A g : [S!Dict(e, f) EXCEPT !.kids = g] = S!Dict(e, g)
  BY Kids
<1> DEFINE g == [k \in MergedKeys(f, h, o) |->
                  IF k \in DOMAIN h THEN S!merge4(Old(e, f, k), h[k], o) ELSE f[k]]
<1>3. S!merge5(S!Dict(e, f), S!Dict(x, h), o) = S!Dict(e, g)
  BY <1>1, <1>2 DEF S!merge5, S!mergeInto, S!mergeMaps, Old, MergedKeys
<1>4. g = r
  BY DEF IsMap, Extends
<1> QED BY <1>3, <1>4

(* The same for a struct, which a struct or a map is merged into.          *)
Overwrites(src, h, o) ==
  /\ S!Keys(src) = DOMAIN h /\ src.kids = h
  /\ src.type = "map" \/ (src.type = "struct" /\ o.overwrite)
Keeps(f, src, h, o, r) ==
  /\ Overwrites(src, h, o)
  /\ IsMap(r) /\ DOMAIN r = DOMAIN f
  /\ \A k \in DOMAIN f \ DOMAIN h : r[k] = f[k]

LEMMA MergeStructs1 ==
  ASSUME NEW f, NEW src, NEW h, NEW o, NEW r, Keeps(f, src, h, o, r),
         \A k \in DOMAIN f \cap DOMAIN h : r[k] = S!merge0(f[k], h[k], o)
  PROVE  S!merge1(S!Struct(f), src, o) = S!Struct(r)
<1>1. /\ S!Struct(f).type = "struct" /\ S!Struct(f).kids = f /\ S!Keys(S!Struct(f)) = DOMAIN f
      /\ \A g : [S!Struct(f) EXCEPT !.kids = g] = S!Struct(g)
  BY Structures, Kids
<1> DEFINE g == [k \in DOMAIN f |-> IF k \in DOMAIN h THEN S!merge0(f[k], h[k], o) ELSE f[k]]
<1>2. S!merge1(S!Struct(f), src, o) = S!Struct(g)
  BY <1>1 DEF S!merge1, S!mergeInto, S!mergeFields, Overwrites, Keeps
<1>3. g = r
  BY DEF IsMap, Keeps
<1> QED BY <1>2, <1>3

LEMMA MergeStructs3 ==
  ASSUME NEW f, NEW src, NEW h, NEW o, NEW r, Keeps(f, src, h, o, r),
         \A k \in DOMAIN f \cap DOMAIN h : r[k] = S!merge2(f[k], h[k], o)
  PROVE  S!merge3(S!Struct(f), src, o) = S!Struct(r)
<1>1. /\ S!Struct(f).type = "struct" /\ S!Struct(f).kids = f /\ S!Keys(S!Struct(f)) = DOMAIN f
      /\ \A g : [S!Struct(f) EXCEPT !.kids = g] = S!Struct(g)
  BY Structures, Kids
<1> DEFINE g == [k \in DOMAIN f |-> IF k \in DOMAIN h THEN S!merge2(f[k], h[k], o) ELSE f[k]]
<1>2. S!merge3(S!Struct(f), src, o) = S!Struct(g)
  BY <1>1 DEF S!merge3, S!mergeInto, S!mergeFields, Overwrites, Keeps
<1>3. g = r
  BY DEF IsMap, Keeps
<1> QED BY <1>2, <1>3

LEMMA MergeStructs4 ==
  ASSUME NEW f, NEW src, NEW h, NEW o, NEW r, Keeps(f, src, h, o, r),
         \A k \in DOMAIN f \cap DOMAIN h : r[k] = S!merge3(f[k], h[k], o)
  PROVE  S!merge4(S!Struct(f), src, o) = S!Struct(r)
<1>1. /\ S!Struct(f).type = "struct" /\ S!Struct(f).kids = f /\ S!Keys(S!Struct(f)) = DOMAIN f
      /\ \A g : [S!Struct(f) EXCEPT !.kids = g] = S!Struct(g)
  BY Structures, Kids
<1> DEFINE g == [k \in DOMAIN f |-> IF k \in DOMAIN h THEN S!merge3(f[k], h[k], o) ELSE f[k]]
<1>2. S!merge4(S!Struct(f), src, o) = S!Struct(g)
  BY <1>1 DEF S!merge4, S!mergeInto, S!mergeFields, Overwrites, Keeps
<1>3. g = r
  BY DEF IsMap, Keeps
<1> QED BY <1>2, <1>3

LEMMA MergeStructs5 ==
  ASSUME NEW f, NEW src, NEW h, NEW o, NEW r, Keeps(f, src, h, o, r),
         \A k \in DOMAIN f \cap DOMAIN h : r[k] = S!merge4(f[k], h[k], o)
  PROVE  S!merge5(S!Struct(f), src, o) = S!Struct(r)
<1>1. /\ S!Struct(f).type = "struct" /\ S!Struct(f).kids = f /\ S!Keys(S!Struct(f)) = DOMAIN f
      /\ \A g : [S!Struct(f) EXCEPT !.kids = g] = S!Struct(g)
  BY Structures, Kids
<1> DEFINE g == [k \in DOMAIN f |-> IF k \in DOMAIN h THEN S!merge4(f[k], h[k], o) ELSE f[k]]
<1>2. S!merge5(S!Struct(f), src, o) = S!Struct(g)
  BY <1>1 DEF S!merge5, S!mergeInto, S!mergeFields, Overwrites, Keeps
<1>3. g = r
  BY DEF IsMap, Keeps
<1> QED BY <1>2, <1>3

LEMMA MergeStructs ==
  ASSUME NEW f, NEW src, NEW h, NEW o, NEW r, Keeps(f, src, h, o, r),
         \A k \in DOMAIN f \cap DOMAIN h : r[k] = S!merge5(f[k], h[k], o)
  PROVE  S!merge(S!Struct(f), src, o) = S!Struct(r)
<1>1. /\ S!Struct(f).type = "struct" /\ S!Struct(f).kids = f /\ S!Keys(S!Struct(f)) = DOMAIN f
      /\ \A g : [S!Struct(f) EXCEPT !.kids = g] = S!Struct(g)
  BY Structures, Kids
<1> DEFINE g == [k \in DOMAIN f |-> IF k \in DOMAIN h THEN S!merge5(f[k], h[k], o) ELSE f[k]]
<1>2. S!merge(S!Struct(f), src, o) = S!Struct(g)
  BY <1>1 DEF S!merge, S!mergeInto, S!mergeFields, Overwrites, Keeps
<1>3. g = r
  BY DEF IsMap, Keeps
<1> QED BY <1>2, <1>3

LEMMA FillStructs ==
  ASSUME NEW f, NEW h,
         NEW r, IsMap(r), DOMAIN r = DOMAIN f,
         \A k \in DOMAIN f : r[k] = IF k \in DOMAIN h /\ ~S!empty(h[k])
                                     THEN S!merge5(f[k], h[k], S!Fill) ELSE f[k]
  PROVE  S!merge(S!Struct(f), S!Struct(h), S!Fill) = S!Struct(r)
<1>1. \A g : /\ S!Struct(g).type = "struct" /\ S!Struct(g).kids = g /\ S!Keys(S!Struct(g)) = DOMAIN g
            /\ [S!Struct(f) EXCEPT !.kids = g] = S!Struct(g)
  BY Structures, Kids
<1> DEFINE g == [k \in DOMAIN f |->
                  IF k \in DOMAIN h /\ (S!Struct(h).type = "struct" /\ S!empty(h[k]) => S!Fill.overwrite)
                    THEN S!merge5(f[k], h[k], S!Fill) ELSE f[k]]
<1>2. S!merge(S!Struct(f), S!Struct(h), S!Fill) = S!mergeFields(S!merge5, S!Struct(f), S!Struct(h), S!Fill)
  BY <1>1 DEF S!merge, S!mergeInto, S!mergeFields
<1>3. S!merge(S!Struct(f), S!Struct(h), S!Fill) = S!Struct(g)
  BY <1>1, <1>2 DEF S!mergeFields
<1>4. ~S!Fill.overwrite /\ S!Struct(h).type = "struct"
  BY <1>1 DEF S!Fill
<1>5. g = r
  BY <1>4 DEF IsMap
<1> QED BY <1>3, <1>5

-----------------------------------------------------------------------------
(* Users *)

Filled(u, w) ==
  [k \in DOMAIN u \cup DOMAIN w |->
    IF k \in DOMAIN w /\ (k \in DOMAIN u => u[k] = 0) THEN w[k] ELSE u[k]]
Overlaid(u, w) == [k \in DOMAIN u \cup DOMAIN w |-> IF k \in DOMAIN w THEN w[k] ELSE u[k]]
Shared(u, w) == {k \in DOMAIN u \cap DOMAIN w : u[k] = w[k]}
Minus(u, w) == Restrict(u, DOMAIN u \ Shared(u, w))

LEMMA EntriesOf ==
  ASSUME NEW u
  PROVE  /\ DOMAIN Entries(u) = DOMAIN u
         /\ \A k \in DOMAIN u : Entries(u)[k] = S!Leaf(u[k])
         /\ IsMap(Entries(u))
BY DEF Entries, IsMap

LEMMA EntriesEqual ==
  ASSUME NEW u, IsMap(u), NEW w, IsMap(w), Entries(u) = Entries(w)
  PROVE  u = w
<1>1. DOMAIN u = DOMAIN w
  BY EntriesOf
<1>2. \A k \in DOMAIN u : S!Leaf(u[k]) = S!Leaf(w[k])
  BY <1>1, EntriesOf
<1>3. \A k \in DOMAIN u : u[k] = w[k]
  BY <1>2, Leaves
<1> QED BY <1>1, <1>3 DEF IsMap

Users(e, u) == S!Dict(e, Entries(u))

(* A map of users filled, overwritten and replaced.                        *)
Became(u, w, o) ==
  CASE o = S!Fill -> Filled(u, w) [] o = S!Overwrite -> Overlaid(u, w) [] o = S!Replace -> w

LEMMA Options ==
  /\ S!Fill.overwrite = FALSE /\ S!Fill.delete = FALSE
  /\ S!Overwrite.overwrite = TRUE /\ S!Overwrite.delete = FALSE
  /\ S!Replace.overwrite = TRUE /\ S!Replace.delete = TRUE
BY DEF S!Fill, S!Overwrite, S!Replace

LEMMA BecameOf ==
  ASSUME NEW u, NEW w, IsMap(w), NEW o \in {S!Fill, S!Overwrite, S!Replace}
  PROVE  /\ IsMap(Became(u, w, o))
         /\ DOMAIN Became(u, w, o) = MergedKeys(u, w, o)
         /\ \A k \in DOMAIN Became(u, w, o) \ DOMAIN w : Became(u, w, o)[k] = u[k]
         /\ \A k \in DOMAIN w : Became(u, w, o)[k] =
               IF (k \in DOMAIN u /\ u[k] # 0) /\ ~o.overwrite THEN u[k] ELSE w[k]
<1>1. S!Fill # S!Overwrite /\ S!Fill # S!Replace /\ S!Overwrite # S!Replace
  BY DEF S!Fill, S!Overwrite, S!Replace
<1>2. CASE o = S!Fill
  <2>1. Became(u, w, o) = Filled(u, w)
    BY <1>1, <1>2 DEF Became
  <2> QED BY <1>2, <2>1, Options DEF Filled, MergedKeys, IsMap
<1>3. CASE o = S!Overwrite
  <2>1. Became(u, w, o) = Overlaid(u, w)
    BY <1>1, <1>3 DEF Became
  <2> QED BY <1>3, <2>1, Options DEF Overlaid, MergedKeys, IsMap
<1>4. CASE o = S!Replace
  <2>1. Became(u, w, o) = w
    BY <1>1, <1>4 DEF Became
  <2> QED BY <1>4, <2>1, Options DEF MergedKeys, IsMap
<1> QED BY <1>2, <1>3, <1>4

LEMMA MergeUsers ==
  ASSUME NEW u, NEW w, IsMap(w), NEW e, NEW o \in {S!Fill, S!Overwrite, S!Replace}
  PROVE  /\ S!merge2(Levels(u), Users(e, w), o) = Levels(Became(u, w, o))
         /\ S!merge3(Levels(u), Users(e, w), o) = Levels(Became(u, w, o))
         /\ S!merge5(Levels(u), Users(e, w), o) = Levels(Became(u, w, o))
<1> DEFINE b == Became(u, w, o)
           f == Entries(u)
           h == Entries(w)
           r == Entries(b)
<1>1. /\ DOMAIN f = DOMAIN u /\ DOMAIN h = DOMAIN w /\ DOMAIN r = DOMAIN b
      /\ \A k \in DOMAIN u : f[k] = S!Leaf(u[k])
      /\ \A k \in DOMAIN w : h[k] = S!Leaf(w[k])
      /\ \A k \in DOMAIN b : r[k] = S!Leaf(b[k])
      /\ IsMap(r)
  BY EntriesOf
<1>2. /\ DOMAIN b = MergedKeys(u, w, o)
      /\ \A k \in DOMAIN b \ DOMAIN w : b[k] = u[k]
      /\ \A k \in DOMAIN w : b[k] = IF (k \in DOMAIN u /\ u[k] # 0) /\ ~o.overwrite THEN u[k] ELSE w[k]
  BY BecameOf
<1>3. Levels(u) = S!Dict(S!Leaf(0), f) /\ Users(e, w) = S!Dict(e, h) /\ Levels(b) = S!Dict(S!Leaf(0), r)
  BY DEF Levels, Users
<1> HIDE DEF b, f, h, r
<1>4. DOMAIN r = MergedKeys(f, h, o)
  BY <1>1, <1>2 DEF MergedKeys
<1>5. \A k \in DOMAIN r \ DOMAIN h : r[k] = f[k]
  BY <1>1, <1>2 DEF MergedKeys
<1>6. \A v : S!empty(S!Leaf(v)) <=> v = 0
  BY Leaves
<1>7. \A k \in DOMAIN h : r[k] = IF S!empty(Old(S!Leaf(0), f, k)) \/ o.overwrite
                                    THEN h[k] ELSE Old(S!Leaf(0), f, k)
  BY <1>1, <1>2, <1>6 DEF Old, MergedKeys
<1>8. \A k \in DOMAIN h : /\ r[k] = S!merge1(Old(S!Leaf(0), f, k), h[k], o)
                          /\ r[k] = S!merge2(Old(S!Leaf(0), f, k), h[k], o)
                          /\ r[k] = S!merge4(Old(S!Leaf(0), f, k), h[k], o)
  BY <1>1, <1>7, MergeLeaf
<1>9. Extends(f, h, o, r)
  BY <1>1, <1>4, <1>5 DEF Extends
<1> QED BY <1>3, <1>8, <1>9, MergeMaps2, MergeMaps3, MergeMaps5 DEF b

-----------------------------------------------------------------------------
(* Sections *)

Fields == {"Trigger", "AccessTalk", "AccessUser"}

(* What Map and DeleteEqual leave of a section: those of its fields in D.  *)
SectionKids(D, t, a, users) ==
  [k \in D |-> IF k = "Trigger" THEN S!Leaf(t) ELSE IF k = "AccessTalk" THEN S!Leaf(a) ELSE users]
SectionMap(D, t, a, u) == S!Dict(S!Nil, SectionKids(D, t, a, Users(S!Nil, u)))

LEMMA SectionIs ==
  ASSUME NEW t, NEW a, NEW u
  PROVE  Section(t, a, u) = S!Struct(SectionKids(Fields, t, a, Levels(u)))
<1>1. [Trigger |-> S!Leaf(t), AccessTalk |-> S!Leaf(a), AccessUser |-> Levels(u)] =
        SectionKids(Fields, t, a, Levels(u))
  BY DEF SectionKids, Fields
<1> QED BY <1>1 DEF Section

LEMMA SectionKidsOf ==
  ASSUME NEW D \in SUBSET Fields, NEW t, NEW a, NEW users
  PROVE  /\ IsMap(SectionKids(D, t, a, users))
         /\ DOMAIN SectionKids(D, t, a, users) = D
         /\ "Trigger" \in D => SectionKids(D, t, a, users)["Trigger"] = S!Leaf(t)
         /\ "AccessTalk" \in D => SectionKids(D, t, a, users)["AccessTalk"] = S!Leaf(a)
         /\ "AccessUser" \in D => SectionKids(D, t, a, users)["AccessUser"] = users
BY DEF SectionKids, Fields, IsMap

LEMMA SectionsEqual ==
  ASSUME NEW t, NEW a, NEW u, IsMap(u), NEW t2, NEW a2, NEW u2, IsMap(u2),
         Section(t, a, u) = Section(t2, a2, u2)
  PROVE  t = t2 /\ a = a2 /\ u = u2
<1>1. SectionKids(Fields, t, a, Levels(u)) = SectionKids(Fields, t2, a2, Levels(u2))
  BY SectionIs, Structures
<1>2. /\ S!Leaf(t) = S!Leaf(t2) /\ S!Leaf(a) = S!Leaf(a2) /\ Levels(u) = Levels(u2)
  BY <1>1, SectionKidsOf, "Trigger" \in Fields, "AccessTalk" \in Fields, "AccessUser" \in Fields DEF Fields
<1>3. Entries(u) = Entries(u2)
  BY <1>2, Dicts DEF Levels
<1> QED BY <1>2, <1>3, Leaves, EntriesEqual

LEMMA SectionOverwritten ==
  ASSUME NEW t, NEW a, NEW u, NEW D \in SUBSET Fields, NEW x, NEW b, NEW w, IsMap(w),
         NEW o \in {S!Overwrite, S!Replace},
         NEW s, s = Section(IF "Trigger" \in D THEN x ELSE t, IF "AccessTalk" \in D THEN b ELSE a,
                            IF "AccessUser" \in D THEN Became(u, w, o) ELSE u)
  PROVE  /\ S!merge3(Section(t, a, u), SectionMap(D, x, b, w), o) = s
         /\ S!merge4(Section(t, a, u), SectionMap(D, x, b, w), o) = s
         /\ D = Fields => /\ S!merge3(Section(t, a, u), Section(x, b, w), o) = s
                         /\ S!merge4(Section(t, a, u), Section(x, b, w), o) = s
<1> DEFINE f == SectionKids(Fields, t, a, Levels(u))
           r == SectionKids(Fields, IF "Trigger" \in D THEN x ELSE t, IF "AccessTalk" \in D THEN b ELSE a,
                            Levels(IF "AccessUser" \in D THEN Became(u, w, o) ELSE u))
<1>1. Section(t, a, u) = S!Struct(f) /\ s = S!Struct(r)
  BY SectionIs
<1>2. /\ IsMap(r) /\ DOMAIN r = Fields /\ DOMAIN f = Fields
      /\ r["Trigger"] = S!Leaf(IF "Trigger" \in D THEN x ELSE t)
      /\ r["AccessTalk"] = S!Leaf(IF "AccessTalk" \in D THEN b ELSE a)
      /\ r["AccessUser"] = Levels(IF "AccessUser" \in D THEN Became(u, w, o) ELSE u)
      /\ f["Trigger"] = S!Leaf(t)
      /\ f["AccessTalk"] = S!Leaf(a)
      /\ f["AccessUser"] = Levels(u)
  BY SectionKidsOf DEF Fields
<1> HIDE DEF f, r
<1>3. o.overwrite = TRUE
  BY Options
<1>4. ASSUME NEW e, NEW h, h = SectionKids(D, x, b, Users(e, w))
      PROVE  /\ DOMAIN h = D
             /\ \A k \in Fields \ D : r[k] = f[k]
             /\ \A k \in Fields \cap D : /\ r[k] = S!merge2(f[k], h[k], o)
                                         /\ r[k] = S!merge3(f[k], h[k], o)
  <2>1. /\ DOMAIN h = D
        /\ "Trigger" \in D => h["Trigger"] = S!Leaf(x)
        /\ "AccessTalk" \in D => h["AccessTalk"] = S!Leaf(b)
        /\ "AccessUser" \in D => h["AccessUser"] = Users(e, w)
    BY <1>4, SectionKidsOf
  <2>2. \A k \in Fields \ D : r[k] = f[k]
    BY <1>2 DEF Fields
  <2>3. ASSUME "Trigger" \in D
        PROVE  /\ r["Trigger"] = S!merge2(f["Trigger"], h["Trigger"], o)
               /\ r["Trigger"] = S!merge3(f["Trigger"], h["Trigger"], o)
    BY <1>2, <1>3, <2>1, <2>3, MergeLeaf
  <2>4. ASSUME "AccessTalk" \in D
        PROVE  /\ r["AccessTalk"] = S!merge2(f["AccessTalk"], h["AccessTalk"], o)
               /\ r["AccessTalk"] = S!merge3(f["AccessTalk"], h["AccessTalk"], o)
    BY <1>2, <1>3, <2>1, <2>4, MergeLeaf
  <2>5. ASSUME "AccessUser" \in D
        PROVE  /\ r["AccessUser"] = S!merge2(f["AccessUser"], h["AccessUser"], o)
               /\ r["AccessUser"] = S!merge3(f["AccessUser"], h["AccessUser"], o)
    BY <1>2, <2>1, <2>5, MergeUsers
  <2> QED BY <2>1, <2>2, <2>3, <2>4, <2>5 DEF Fields
<1>5. ASSUME NEW e, NEW h, h = SectionKids(D, x, b, Users(e, w)), NEW src, Overwrites(src, h, o)
      PROVE  S!merge3(Section(t, a, u), src, o) = s /\ S!merge4(Section(t, a, u), src, o) = s
  <2>1. /\ DOMAIN h = D
        /\ \A k \in Fields \ D : r[k] = f[k]
        /\ \A k \in Fields \cap D : /\ r[k] = S!merge2(f[k], h[k], o)
                                    /\ r[k] = S!merge3(f[k], h[k], o)
    BY <1>4, <1>5
  <2>2. Keeps(f, src, h, o, r)
    BY <1>2, <1>5, <2>1 DEF Keeps
  <2>3. S!merge3(S!Struct(f), src, o) = S!Struct(r)
    BY <1>2, <2>1, <2>2, MergeStructs3
  <2>4. S!merge4(S!Struct(f), src, o) = S!Struct(r)
    BY <1>2, <2>1, <2>2, MergeStructs4
  <2> QED BY <1>1, <2>3, <2>4
<1>6. Overwrites(SectionMap(D, x, b, w), SectionKids(D, x, b, Users(S!Nil, w)), o)
  BY Dicts DEF SectionMap, Overwrites
<1>7. Section(x, b, w) = S!Struct(SectionKids(Fields, x, b, Users(S!Leaf(0), w)))
  BY SectionIs DEF Users, Levels
<1>8. Overwrites(Section(x, b, w), SectionKids(Fields, x, b, Users(S!Leaf(0), w)), o)
  BY <1>3, <1>7, Structures DEF Overwrites
<1> QED BY <1>5, <1>6, <1>8

Or(x, y) == IF x = 0 THEN y ELSE x

Dflt(t) == S!Struct([Trigger |-> S!Leaf(t)])

LEMMA LeafFilled ==
  ASSUME NEW y, NEW v
  PROVE  S!Leaf(Or(y, v)) = IF ~S!empty(S!Leaf(v)) THEN S!merge5(S!Leaf(y), S!Leaf(v), S!Fill) ELSE S!Leaf(y)
<1>1. S!merge5(S!Leaf(y), S!Leaf(v), S!Fill) = IF y = 0 THEN S!Leaf(v) ELSE S!Leaf(y)
  BY MergeLeaf, Leaves, Options
<1> QED BY <1>1, Leaves DEF Or

LEMMA DefaultFilled ==
  ASSUME NEW t, NEW a, NEW u, NEW x
  PROVE  S!merge(Section(t, a, u), Dflt(x), S!Fill) = Section(Or(t, x), a, u)
<1> DEFINE f == SectionKids(Fields, t, a, Levels(u))
<1>1. Section(t, a, u) = S!Struct(f)
  BY SectionIs
<1>2. /\ DOMAIN f = Fields
      /\ f["Trigger"] = S!Leaf(t)
      /\ f["AccessTalk"] = S!Leaf(a)
      /\ f["AccessUser"] = Levels(u)
  BY SectionKidsOf DEF Fields
<1> HIDE DEF f
<1> DEFINE r == SectionKids(Fields, Or(t, x), a, Levels(u))
           h == [Trigger |-> S!Leaf(x)]
<1>3. /\ DOMAIN r = Fields /\ IsMap(r)
      /\ r["Trigger"] = S!Leaf(Or(t, x))
      /\ r["AccessTalk"] = S!Leaf(a)
      /\ r["AccessUser"] = Levels(u)
  BY SectionKidsOf DEF Fields
<1>4. DOMAIN h = {"Trigger"} /\ h["Trigger"] = S!Leaf(x)
  OBVIOUS
<1>5. Section(Or(t, x), a, u) = S!Struct(r)
  BY SectionIs
<1> HIDE DEF r, h
<1>6. \A k \in DOMAIN f : r[k] = IF k \in DOMAIN h /\ ~S!empty(h[k])
                                   THEN S!merge5(f[k], h[k], S!Fill) ELSE f[k]
  BY <1>2, LeafFilled, <1>3, <1>4 DEF Fields
<1>7. S!merge(S!Struct(f), S!Struct(h), S!Fill) = S!Struct(r)
  BY <1>2, <1>3, <1>6, FillStructs
<1> QED BY <1>1, <1>5, <1>7 DEF h, Dflt

LEMMA SectionFilled ==
  ASSUME NEW t, NEW a, NEW u, IsMap(u), NEW x, NEW b, NEW w, IsMap(w)
  PROVE  S!merge(Section(t, a, u), Section(x, b, w), S!Fill) = Section(Or(t, x), Or(a, b), Filled(u, w))
<1> DEFINE f == SectionKids(Fields, t, a, Levels(u))
<1>1. Section(t, a, u) = S!Struct(f)
  BY SectionIs
<1>2. /\ DOMAIN f = Fields
      /\ f["Trigger"] = S!Leaf(t)
      /\ f["AccessTalk"] = S!Leaf(a)
      /\ f["AccessUser"] = Levels(u)
  BY SectionKidsOf DEF Fields
<1> HIDE DEF f
<1> DEFINE r == SectionKids(Fields, Or(t, x), Or(a, b), Levels(Filled(u, w)))
           h == SectionKids(Fields, x, b, Levels(w))
<1>3. /\ DOMAIN r = Fields /\ IsMap(r)
      /\ r["Trigger"] = S!Leaf(Or(t, x))
      /\ r["AccessTalk"] = S!Leaf(Or(a, b))
      /\ r["AccessUser"] = Levels(Filled(u, w))
  BY SectionKidsOf DEF Fields
<1>4. /\ DOMAIN h = Fields
      /\ h["Trigger"] = S!Leaf(x)
      /\ h["AccessTalk"] = S!Leaf(b)
      /\ h["AccessUser"] = Levels(w)
  BY SectionKidsOf DEF Fields
<1>5. Section(Or(t, x), Or(a, b), Filled(u, w)) = S!Struct(r) /\ Section(x, b, w) = S!Struct(h)
  BY SectionIs
<1> HIDE DEF r, h
<1>6. Levels(Filled(u, w)) =
        IF ~S!empty(Levels(w)) THEN S!merge5(Levels(u), Levels(w), S!Fill) ELSE Levels(u)
  <2>1. S!empty(Levels(w)) <=> DOMAIN w = {}
    BY Dicts, EntriesOf DEF Levels
  <2>2. DOMAIN w = {} => Filled(u, w) = u
    BY DEF Filled, IsMap
  <2>3. S!merge5(Levels(u), Users(S!Leaf(0), w), S!Fill) = Levels(Became(u, w, S!Fill))
    BY MergeUsers
  <2>4. Became(u, w, S!Fill) = Filled(u, w)
    BY DEF Became, S!Fill, S!Overwrite, S!Replace
  <2> QED BY <2>1, <2>2, <2>3, <2>4 DEF Users, Levels
<1>7. \A k \in DOMAIN f : r[k] = IF k \in DOMAIN h /\ ~S!empty(h[k])
                                   THEN S!merge5(f[k], h[k], S!Fill) ELSE f[k]
  BY <1>2, LeafFilled, <1>3, <1>4, <1>6 DEF Fields
<1>8. S!merge(S!Struct(f), S!Struct(h), S!Fill) = S!Struct(r)
  BY <1>2, <1>3, <1>7, FillStructs
<1> QED BY <1>1, <1>5, <1>8

-----------------------------------------------------------------------------
(* Map *)

LEMMA MapLeaf ==
  ASSUME NEW v
  PROVE  /\ S!Map0(S!Leaf(v)) = S!Leaf(v)
         /\ S!Map1(S!Leaf(v)) = S!Leaf(v)
         /\ S!Map2(S!Leaf(v)) = S!Leaf(v)
         /\ S!Map3(S!Leaf(v)) = S!Leaf(v)
         /\ S!Map4(S!Leaf(v)) = S!Leaf(v)
         /\ S!Map5(S!Leaf(v)) = S!Leaf(v)
<1>1. S!Leaf(v).type = "leaf"
  BY Leaves
<1>2. S!Map0(S!Leaf(v)) = S!Leaf(v)
  BY <1>1 DEF S!Map0, S!MapOf
<1>3. S!Map1(S!Leaf(v)) = S!Leaf(v)
  BY <1>1 DEF S!Map1, S!MapOf
<1>4. S!Map2(S!Leaf(v)) = S!Leaf(v)
  BY <1>1 DEF S!Map2, S!MapOf
<1>5. S!Map3(S!Leaf(v)) = S!Leaf(v)
  BY <1>1 DEF S!Map3, S!MapOf
<1>6. S!Map4(S!Leaf(v)) = S!Leaf(v)
  BY <1>1 DEF S!Map4, S!MapOf
<1>7. S!Map5(S!Leaf(v)) = S!Leaf(v)
  BY <1>1 DEF S!Map5, S!MapOf
<1> QED BY <1>2, <1>3, <1>4, <1>5, <1>6, <1>7

(* r is what is inside t when all of it has become maps.                   *)
Inside(t, f, r) ==
  /\ t = S!Struct(f) \/ \E e : t = S!Dict(e, f)
  /\ IsMap(r) /\ DOMAIN r = DOMAIN f

LEMMA MapNode1 ==
  ASSUME NEW t, NEW f, NEW r, Inside(t, f, r), \A k \in DOMAIN f : r[k] = S!Map0(f[k])
  PROVE  S!Map1(t) = S!Dict(S!Nil, r)
<1>1. t.type \in {"struct", "map"} /\ S!Keys(t) = DOMAIN f /\ t.kids = f
  BY Dicts, Structures DEF Inside
<1>2. S!Map1(t) = S!Dict(S!Nil, [k \in DOMAIN f |-> S!Map0(f[k])])
  BY <1>1 DEF S!Map1, S!MapOf
<1>3. [k \in DOMAIN f |-> S!Map0(f[k])] = r
  BY DEF Inside, IsMap
<1> QED BY <1>2, <1>3

LEMMA MapNode2 ==
  ASSUME NEW t, NEW f, NEW r, Inside(t, f, r), \A k \in DOMAIN f : r[k] = S!Map1(f[k])
  PROVE  S!Map2(t) = S!Dict(S!Nil, r)
<1>1. t.type \in {"struct", "map"} /\ S!Keys(t) = DOMAIN f /\ t.kids = f
  BY Dicts, Structures DEF Inside
<1>2. S!Map2(t) = S!Dict(S!Nil, [k \in DOMAIN f |-> S!Map1(f[k])])
  BY <1>1 DEF S!Map2, S!MapOf
<1>3. [k \in DOMAIN f |-> S!Map1(f[k])] = r
  BY DEF Inside, IsMap
<1> QED BY <1>2, <1>3

LEMMA MapNode3 ==
  ASSUME NEW t, NEW f, NEW r, Inside(t, f, r), \A k \in DOMAIN f : r[k] = S!Map2(f[k])
  PROVE  S!Map3(t) = S!Dict(S!Nil, r)
<1>1. t.type \in {"struct", "map"} /\ S!Keys(t) = DOMAIN f /\ t.kids = f
  BY Dicts, Structures DEF Inside
<1>2. S!Map3(t) = S!Dict(S!Nil, [k \in DOMAIN f |-> S!Map2(f[k])])
  BY <1>1 DEF S!Map3, S!MapOf
<1>3. [k \in DOMAIN f |-> S!Map2(f[k])] = r
  BY DEF Inside, IsMap
<1> QED BY <1>2, <1>3

LEMMA MapNode4 ==
  ASSUME NEW t, NEW f, NEW r, Inside(t, f, r), \A k \in DOMAIN f : r[k] = S!Map3(f[k])
  PROVE  S!Map4(t) = S!Dict(S!Nil, r)
<1>1. t.type \in {"struct", "map"} /\ S!Keys(t) = DOMAIN f /\ t.kids = f
  BY Dicts, Structures DEF Inside
<1>2. S!Map4(t) = S!Dict(S!Nil, [k \in DOMAIN f |-> S!Map3(f[k])])
  BY <1>1 DEF S!Map4, S!MapOf
<1>3. [k \in DOMAIN f |-> S!Map3(f[k])] = r
  BY DEF Inside, IsMap
<1> QED BY <1>2, <1>3

LEMMA MapNode5 ==
  ASSUME NEW t, NEW f, NEW r, Inside(t, f, r), \A k \in DOMAIN f : r[k] = S!Map4(f[k])
  PROVE  S!Map5(t) = S!Dict(S!Nil, r)
<1>1. t.type \in {"struct", "map"} /\ S!Keys(t) = DOMAIN f /\ t.kids = f
  BY Dicts, Structures DEF Inside
<1>2. S!Map5(t) = S!Dict(S!Nil, [k \in DOMAIN f |-> S!Map4(f[k])])
  BY <1>1 DEF S!Map5, S!MapOf
<1>3. [k \in DOMAIN f |-> S!Map4(f[k])] = r
  BY DEF Inside, IsMap
<1> QED BY <1>2, <1>3

LEMMA MapNode ==
  ASSUME NEW t, NEW f, NEW r, Inside(t, f, r), \A k \in DOMAIN f : r[k] = S!Map5(f[k])
  PROVE  S!Map(t) = S!Dict(S!Nil, r)
<1>1. t.type \in {"struct", "map"} /\ S!Keys(t) = DOMAIN f /\ t.kids = f
  BY Dicts, Structures DEF Inside
<1>2. S!Map(t) = S!Dict(S!Nil, [k \in DOMAIN f |-> S!Map5(f[k])])
  BY <1>1 DEF S!Map, S!MapOf
<1>3. [k \in DOMAIN f |-> S!Map5(f[k])] = r
  BY DEF Inside, IsMap
<1> QED BY <1>2, <1>3

LEMMA MapUsers ==
  ASSUME NEW e, NEW u
  PROVE  S!Map2(Users(e, u)) = Users(S!Nil, u) /\ S!Map3(Users(e, u)) = Users(S!Nil, u)
<1>1. Inside(Users(e, u), Entries(u), Entries(u))
  BY EntriesOf DEF Inside, Users
<1>2. \A k \in DOMAIN Entries(u) : /\ Entries(u)[k] = S!Map1(Entries(u)[k])
                                   /\ Entries(u)[k] = S!Map2(Entries(u)[k])
  BY EntriesOf, MapLeaf
<1> QED BY <1>1, <1>2, MapNode2, MapNode3 DEF Users

LEMMA MapSection ==
  ASSUME NEW t, NEW a, NEW u
  PROVE  /\ S!Map3(Section(t, a, u)) = SectionMap(Fields, t, a, u)
         /\ S!Map4(Section(t, a, u)) = SectionMap(Fields, t, a, u)
<1> DEFINE f == SectionKids(Fields, t, a, Levels(u))
           r == SectionKids(Fields, t, a, Users(S!Nil, u))
<1>1. /\ IsMap(r) /\ DOMAIN r = Fields /\ DOMAIN f = Fields
      /\ r["Trigger"] = S!Leaf(t) /\ f["Trigger"] = S!Leaf(t)
      /\ r["AccessTalk"] = S!Leaf(a) /\ f["AccessTalk"] = S!Leaf(a)
      /\ r["AccessUser"] = Users(S!Nil, u) /\ f["AccessUser"] = Users(S!Leaf(0), u)
  BY SectionKidsOf DEF Fields, Users, Levels
<1>2. Section(t, a, u) = S!Struct(f) /\ SectionMap(Fields, t, a, u) = S!Dict(S!Nil, r)
  BY SectionIs DEF SectionMap
<1> HIDE DEF f, r
<1>3. Inside(S!Struct(f), f, r)
  BY <1>1 DEF Inside
<1>4. \A k \in DOMAIN f : r[k] = S!Map2(f[k]) /\ r[k] = S!Map3(f[k])
  BY <1>1, MapLeaf, MapUsers DEF Fields
<1> QED BY <1>2, <1>3, <1>4, MapNode3, MapNode4

-----------------------------------------------------------------------------
(* DeleteEqual *)

LEMMA WithoutOf ==
  ASSUME NEW e, NEW f, NEW ks
  PROVE  S!Without(S!Dict(e, f), ks) = S!Dict(e, Restrict(f, DOMAIN f \ ks))
<1>1. S!Dict(e, f).kids = f /\ \A g : [S!Dict(e, f) EXCEPT !.kids = g] = S!Dict(e, g)
  BY Dicts, Kids
<1>2. S!Without(S!Dict(e, f), ks) =
        [S!Dict(e, f) EXCEPT !.kids = Restrict(S!Dict(e, f).kids, DOMAIN S!Dict(e, f).kids \ ks)]
  BY DEF S!Without, S!Restrict, Restrict
<1> QED BY <1>1, <1>2

(* r is f without what is the same in h.                                   *)
Differs(f, h, r) == IsMap(r) /\ DOMAIN r = DOMAIN f \ Shared(f, h)
Nested(f, h, k) == f[k].type = "map" /\ k \in DOMAIN h

LEMMA DeleteMaps0 ==
  ASSUME NEW e, NEW f, NEW x, NEW h, NEW r, Differs(f, h, r),
         \A k \in DOMAIN r : r[k] = f[k]
  PROVE  S!DeleteEqual0(S!Dict(e, f), S!Dict(x, h)) = S!Dict(e, r)
<1>1. /\ S!Dict(e, f).kids = f /\ S!Dict(x, h).kids = h
      /\ S!Keys(S!Dict(e, f)) = DOMAIN f /\ S!Keys(S!Dict(x, h)) = DOMAIN h
      /\ \A g : [S!Dict(e, f) EXCEPT !.kids = g] = S!Dict(e, g)
  BY Dicts, Kids
<1>2. S!Equal(S!Dict(e, f), S!Dict(x, h)) = Shared(f, h)
  BY <1>1 DEF S!Equal, Shared
<1>3. S!DeleteEqual0(S!Dict(e, f), S!Dict(x, h)) = S!Without(S!Dict(e, f), Shared(f, h))
  BY <1>1, <1>2 DEF S!DeleteEqual0
<1>4. Restrict(f, DOMAIN f \ Shared(f, h)) = r
  BY DEF Differs, IsMap, Restrict
<1> QED BY <1>3, <1>4, WithoutOf

LEMMA DeleteMaps1 ==
  ASSUME NEW e, NEW f, NEW x, NEW h, NEW r, Differs(f, h, r),
         \A k \in DOMAIN r : r[k] = IF Nested(f, h, k) THEN S!DeleteEqual0(f[k], h[k]) ELSE f[k]
  PROVE  S!DeleteEqual1(S!Dict(e, f), S!Dict(x, h)) = S!Dict(e, r)
<1>1. /\ S!Dict(e, f).kids = f /\ S!Dict(x, h).kids = h
      /\ S!Keys(S!Dict(e, f)) = DOMAIN f /\ S!Keys(S!Dict(x, h)) = DOMAIN h
      /\ \A g : [S!Dict(e, f) EXCEPT !.kids = g] = S!Dict(e, g)
  BY Dicts, Kids
<1> DEFINE g == [k \in DOMAIN f |-> IF Nested(f, h, k) THEN S!DeleteEqual0(f[k], h[k]) ELSE f[k]]
<1>2. S!Equal(S!Dict(e, f), S!Dict(x, h)) = Shared(f, h)
  BY <1>1 DEF S!Equal, Shared
<1>3. S!DeleteEqual1(S!Dict(e, f), S!Dict(x, h)) = S!Without(S!Dict(e, g), Shared(f, h))
  BY <1>1, <1>2 DEF S!DeleteEqual1, S!DeleteEqualIn, Nested
<1>4. Restrict(g, DOMAIN g \ Shared(f, h)) = r
  BY DEF Differs, IsMap, Restrict
<1> QED BY <1>3, <1>4, WithoutOf

LEMMA DeleteMaps2 ==
  ASSUME NEW e, NEW f, NEW x, NEW h, NEW r, Differs(f, h, r),
         \A k \in DOMAIN r : r[k] = IF Nested(f, h, k) THEN S!DeleteEqual1(f[k], h[k]) ELSE f[k]
  PROVE  S!DeleteEqual2(S!Dict(e, f), S!Dict(x, h)) = S!Dict(e, r)
<1>1. /\ S!Dict(e, f).kids = f /\ S!Dict(x, h).kids = h
      /\ S!Keys(S!Dict(e, f)) = DOMAIN f /\ S!Keys(S!Dict(x, h)) = DOMAIN h
      /\ \A g : [S!Dict(e, f) EXCEPT !.kids = g] = S!Dict(e, g)
  BY Dicts, Kids
<1> DEFINE g == [k \in DOMAIN f |-> IF Nested(f, h, k) THEN S!DeleteEqual1(f[k], h[k]) ELSE f[k]]
<1>2. S!Equal(S!Dict(e, f), S!Dict(x, h)) = Shared(f, h)
  BY <1>1 DEF S!Equal, Shared
<1>3. S!DeleteEqual2(S!Dict(e, f), S!Dict(x, h)) = S!Without(S!Dict(e, g), Shared(f, h))
  BY <1>1, <1>2 DEF S!DeleteEqual2, S!DeleteEqualIn, Nested
<1>4. Restrict(g, DOMAIN g \ Shared(f, h)) = r
  BY DEF Differs, IsMap, Restrict
<1> QED BY <1>3, <1>4, WithoutOf

LEMMA DeleteMaps3 ==
  ASSUME NEW e, NEW f, NEW x, NEW h, NEW r, Differs(f, h, r),
         \A k \in DOMAIN r : r[k] = IF Nested(f, h, k) THEN S!DeleteEqual2(f[k], h[k]) ELSE f[k]
  PROVE  S!DeleteEqual3(S!Dict(e, f), S!Dict(x, h)) = S!Dict(e, r)
<1>1. /\ S!Dict(e, f).kids = f /\ S!Dict(x, h).kids = h
      /\ S!Keys(S!Dict(e, f)) = DOMAIN f /\ S!Keys(S!Dict(x, h)) = DOMAIN h
      /\ \A g : [S!Dict(e, f) EXCEPT !.kids = g] = S!Dict(e, g)
  BY Dicts, Kids
<1> DEFINE g == [k \in DOMAIN f |-> IF Nested(f, h, k) THEN S!DeleteEqual2(f[k], h[k]) ELSE f[k]]
<1>2. S!Equal(S!Dict(e, f), S!Dict(x, h)) = Shared(f, h)
  BY <1>1 DEF S!Equal, Shared
<1>3. S!DeleteEqual3(S!Dict(e, f), S!Dict(x, h)) = S!Without(S!Dict(e, g), Shared(f, h))
  BY <1>1, <1>2 DEF S!DeleteEqual3, S!DeleteEqualIn, Nested
<1>4. Restrict(g, DOMAIN g \ Shared(f, h)) = r
  BY DEF Differs, IsMap, Restrict
<1> QED BY <1>3, <1>4, WithoutOf

LEMMA DeleteMaps4 ==
  ASSUME NEW e, NEW f, NEW x, NEW h, NEW r, Differs(f, h, r),
         \A k \in DOMAIN r : r[k] = IF Nested(f, h, k) THEN S!DeleteEqual3(f[k], h[k]) ELSE f[k]
  PROVE  S!DeleteEqual4(S!Dict(e, f), S!Dict(x, h)) = S!Dict(e, r)
<1>1. /\ S!Dict(e, f).kids = f /\ S!Dict(x, h).kids = h
      /\ S!Keys(S!Dict(e, f)) = DOMAIN f /\ S!Keys(S!Dict(x, h)) = DOMAIN h
      /\ \A g : [S!Dict(e, f) EXCEPT !.kids = g] = S!Dict(e, g)
  BY Dicts, Kids
<1> DEFINE g == [k \in DOMAIN f |-> IF Nested(f, h, k) THEN S!DeleteEqual3(f[k], h[k]) ELSE f[k]]
<1>2. S!Equal(S!Dict(e, f), S!Dict(x, h)) = Shared(f, h)
  BY <1>1 DEF S!Equal, Shared
<1>3. S!DeleteEqual4(S!Dict(e, f), S!Dict(x, h)) = S!Without(S!Dict(e, g), Shared(f, h))
  BY <1>1, <1>2 DEF S!DeleteEqual4, S!DeleteEqualIn, Nested
<1>4. Restrict(g, DOMAIN g \ Shared(f, h)) = r
  BY DEF Differs, IsMap, Restrict
<1> QED BY <1>3, <1>4, WithoutOf

LEMMA DeleteMaps ==
  ASSUME NEW e, NEW f, NEW x, NEW h, NEW r, Differs(f, h, r),
         \A k \in DOMAIN r : r[k] = IF Nested(f, h, k) THEN S!DeleteEqual4(f[k], h[k]) ELSE f[k]
  PROVE  S!DeleteEqual(S!Dict(e, f), S!Dict(x, h)) = S!Dict(e, r)
<1>1. /\ S!Dict(e, f).kids = f /\ S!Dict(x, h).kids = h
      /\ S!Keys(S!Dict(e, f)) = DOMAIN f /\ S!Keys(S!Dict(x, h)) = DOMAIN h
      /\ \A g : [S!Dict(e, f) EXCEPT !.kids = g] = S!Dict(e, g)
  BY Dicts, Kids
<1> DEFINE g == [k \in DOMAIN f |-> IF Nested(f, h, k) THEN S!DeleteEqual4(f[k], h[k]) ELSE f[k]]
<1>2. S!Equal(S!Dict(e, f), S!Dict(x, h)) = Shared(f, h)
  BY <1>1 DEF S!Equal, Shared
<1>3. S!DeleteEqual(S!Dict(e, f), S!Dict(x, h)) = S!Without(S!Dict(e, g), Shared(f, h))
  BY <1>1, <1>2 DEF S!DeleteEqual, S!DeleteEqualIn, Nested
<1>4. Restrict(g, DOMAIN g \ Shared(f, h)) = r
  BY DEF Differs, IsMap, Restrict
<1> QED BY <1>3, <1>4, WithoutOf

LEMMA MinusOf ==
  ASSUME NEW u, NEW w
  PROVE  IsMap(Minus(u, w)) /\ DOMAIN Minus(u, w) = DOMAIN u \ Shared(u, w)
         /\ \A k \in DOMAIN Minus(u, w) : Minus(u, w)[k] = u[k]
BY DEF Minus, Restrict, IsMap

LEMMA DeleteUsers ==
  ASSUME NEW e, NEW u, NEW x, NEW w
  PROVE  /\ S!DeleteEqual1(Users(e, u), Users(x, w)) = Users(e, Minus(u, w))
         /\ S!DeleteEqual2(Users(e, u), Users(x, w)) = Users(e, Minus(u, w))
         /\ S!DeleteEqual4(Users(e, u), Users(x, w)) = Users(e, Minus(u, w))
<1> DEFINE f == Entries(u)
           h == Entries(w)
           r == Entries(Minus(u, w))
<1>1. /\ DOMAIN f = DOMAIN u /\ DOMAIN h = DOMAIN w /\ DOMAIN r = DOMAIN Minus(u, w)
      /\ \A k \in DOMAIN u : f[k] = S!Leaf(u[k])
      /\ \A k \in DOMAIN w : h[k] = S!Leaf(w[k])
      /\ \A k \in DOMAIN r : r[k] = S!Leaf(Minus(u, w)[k])
      /\ IsMap(r)
  BY EntriesOf
<1> HIDE DEF f, h, r
<1>2. Shared(f, h) = Shared(u, w)
  BY <1>1, Leaves DEF Shared
<1>3. Differs(f, h, r)
  BY <1>1, <1>2, MinusOf DEF Differs
<1>4. \A k \in DOMAIN r : r[k] = f[k] /\ ~Nested(f, h, k)
  <2>1. \A k \in DOMAIN Minus(u, w) : k \in DOMAIN u /\ Minus(u, w)[k] = u[k]
    BY MinusOf
  <2>2. \A k \in DOMAIN r : r[k] = f[k]
    BY <1>1, <2>1
  <2>3. \A k \in DOMAIN r : f[k].type = "leaf"
    BY <1>1, <2>2, Leaves
  <2> QED BY <2>2, <2>3 DEF Nested
<1>5. /\ S!DeleteEqual1(S!Dict(e, f), S!Dict(x, h)) = S!Dict(e, r)
      /\ S!DeleteEqual2(S!Dict(e, f), S!Dict(x, h)) = S!Dict(e, r)
      /\ S!DeleteEqual4(S!Dict(e, f), S!Dict(x, h)) = S!Dict(e, r)
  BY <1>3, <1>4, DeleteMaps1, DeleteMaps2, DeleteMaps4
<1> QED BY <1>5 DEF Users, f, h, r

(* The fields two sections have in common.                                 *)
Alike(t, a, u, x, b, w) ==
  {k \in Fields : IF k = "Trigger" THEN t = x ELSE IF k = "AccessTalk" THEN a = b ELSE u = w}

SectionLess(D, t, a, u, E, x, b, w) ==
  SectionMap(D \ (E \cap Alike(t, a, u, x, b, w)), t, a, IF "AccessUser" \in E THEN Minus(u, w) ELSE u)

LEMMA DeleteSection ==
  ASSUME NEW D \in SUBSET Fields, NEW t, NEW a, NEW u, IsMap(u),
         NEW E \in SUBSET Fields, NEW x, NEW b, NEW w, IsMap(w)
  PROVE  /\ S!DeleteEqual2(SectionMap(D, t, a, u), SectionMap(E, x, b, w)) = SectionLess(D, t, a, u, E, x, b, w)
         /\ S!DeleteEqual3(SectionMap(D, t, a, u), SectionMap(E, x, b, w)) = SectionLess(D, t, a, u, E, x, b, w)
         /\ S!DeleteEqual(SectionMap(D, t, a, u), SectionMap(E, x, b, w)) = SectionLess(D, t, a, u, E, x, b, w)
<1> DEFINE G == D \ (E \cap Alike(t, a, u, x, b, w))
           f == SectionKids(D, t, a, Users(S!Nil, u))
           h == SectionKids(E, x, b, Users(S!Nil, w))
           r == SectionKids(G, t, a, Users(S!Nil, IF "AccessUser" \in E THEN Minus(u, w) ELSE u))
<1>1. /\ SectionMap(D, t, a, u) = S!Dict(S!Nil, f)
      /\ SectionMap(E, x, b, w) = S!Dict(S!Nil, h)
      /\ SectionLess(D, t, a, u, E, x, b, w) = S!Dict(S!Nil, r)
  BY DEF SectionMap, SectionLess
<1>2. /\ IsMap(r) /\ DOMAIN r = G /\ DOMAIN f = D /\ DOMAIN h = E
      /\ "Trigger" \in G => r["Trigger"] = S!Leaf(t)
      /\ "AccessTalk" \in G => r["AccessTalk"] = S!Leaf(a)
      /\ "AccessUser" \in G => r["AccessUser"] = Users(S!Nil, IF "AccessUser" \in E THEN Minus(u, w) ELSE u)
  BY SectionKidsOf
<1>3. /\ "Trigger" \in D => f["Trigger"] = S!Leaf(t)
      /\ "AccessTalk" \in D => f["AccessTalk"] = S!Leaf(a)
      /\ "AccessUser" \in D => f["AccessUser"] = Users(S!Nil, u)
      /\ "Trigger" \in E => h["Trigger"] = S!Leaf(x)
      /\ "AccessTalk" \in E => h["AccessTalk"] = S!Leaf(b)
      /\ "AccessUser" \in E => h["AccessUser"] = Users(S!Nil, w)
  BY SectionKidsOf
<1>4. G = D \ (E \cap Alike(t, a, u, x, b, w))
  OBVIOUS
<1> HIDE DEF f, h, r, G
<1>5. /\ S!Leaf(t) = S!Leaf(x) <=> t = x
      /\ S!Leaf(a) = S!Leaf(b) <=> a = b
      /\ Users(S!Nil, u) = Users(S!Nil, w) <=> u = w
  <2>1. Users(S!Nil, u) = Users(S!Nil, w) => Entries(u) = Entries(w)
    BY Dicts DEF Users
  <2> QED BY <2>1, Leaves, EntriesEqual
<1>6. Shared(f, h) = D \cap E \cap Alike(t, a, u, x, b, w)
  <2>1. \A k \in D \cap E : f[k] = h[k] <=> k \in Alike(t, a, u, x, b, w)
    <3> TAKE k \in D \cap E
    <3>1. "Trigger" \in Alike(t, a, u, x, b, w) <=> t = x
      BY DEF Alike, Fields
    <3>2. "AccessTalk" \in Alike(t, a, u, x, b, w) <=> a = b
      BY DEF Alike, Fields
    <3>3. "AccessUser" \in Alike(t, a, u, x, b, w) <=> u = w
      BY DEF Alike, Fields
    <3>4. k \in {"Trigger", "AccessTalk", "AccessUser"}
      BY DEF Fields
    <3>5. CASE k = "Trigger"
      BY <1>3, <1>5, <3>1, <3>5
    <3>6. CASE k = "AccessTalk"
      BY <1>3, <1>5, <3>2, <3>6
    <3>7. CASE k = "AccessUser"
      BY <1>3, <1>5, <3>3, <3>7
    <3> QED BY <3>4, <3>5, <3>6, <3>7
  <2> QED BY <1>2, <2>1 DEF Shared
<1>7. Differs(f, h, r)
  BY <1>2, <1>4, <1>6 DEF Differs
<1>8. /\ S!Leaf(t).type = "leaf" /\ S!Leaf(a).type = "leaf" /\ Users(S!Nil, u).type = "map"
  BY Leaves, Dicts DEF Users
<1>9. \A k \in DOMAIN r : /\ r[k] = IF Nested(f, h, k) THEN S!DeleteEqual1(f[k], h[k]) ELSE f[k]
                          /\ r[k] = IF Nested(f, h, k) THEN S!DeleteEqual2(f[k], h[k]) ELSE f[k]
                          /\ r[k] = IF Nested(f, h, k) THEN S!DeleteEqual4(f[k], h[k]) ELSE f[k]
  <2> TAKE k \in DOMAIN r
  <2>1. k \in D /\ k \in {"Trigger", "AccessTalk", "AccessUser"}
    BY <1>2, <1>4 DEF Fields
  <2>2. CASE k = "Trigger"
    BY <1>2, <1>3, <1>8, <2>1, <2>2 DEF Nested
  <2>3. CASE k = "AccessTalk"
    BY <1>2, <1>3, <1>8, <2>1, <2>3 DEF Nested
  <2>4. CASE k = "AccessUser" /\ k \in E
    <3>1. f[k] = Users(S!Nil, u) /\ h[k] = Users(S!Nil, w) /\ r[k] = Users(S!Nil, Minus(u, w))
      BY <1>2, <1>3, <2>1, <2>4
    <3>2. Nested(f, h, k)
      BY <1>2, <1>8, <2>4, <3>1 DEF Nested
    <3>3. /\ S!DeleteEqual1(Users(S!Nil, u), Users(S!Nil, w)) = Users(S!Nil, Minus(u, w))
          /\ S!DeleteEqual2(Users(S!Nil, u), Users(S!Nil, w)) = Users(S!Nil, Minus(u, w))
          /\ S!DeleteEqual4(Users(S!Nil, u), Users(S!Nil, w)) = Users(S!Nil, Minus(u, w))
      BY DeleteUsers
    <3> QED BY <3>1, <3>2, <3>3
  <2>5. CASE k = "AccessUser" /\ k \notin E
    BY <1>2, <1>3, <2>1, <2>5 DEF Nested
  <2> QED BY <2>1, <2>2, <2>3, <2>4, <2>5
<1> QED BY <1>1, <1>7, <1>9, DeleteMaps2, DeleteMaps3, DeleteMaps

-----------------------------------------------------------------------------
(* Trees *)

Parts == {"Default", "BNet", "Relay"}
TreeKids(E, a, b, c) == [k \in E |-> IF k = "Default" THEN a ELSE IF k = "BNet" THEN b ELSE c]

Halves == {"Default", "Gateways"}
BNetKids(E, d, gs) == [k \in E |-> IF k = "Default" THEN d ELSE gs]

NoSection == Section(0, 0, <<>>)
BNet(d, gs) == S!Struct(BNetKids(Halves, d, S!Dict(NoSection, gs)))
One(x) == [k \in {"g"} |-> x]

LEMMA TreeIs ==
  ASSUME NEW t, NEW d, NEW gs, NEW r
  PROVE  Tree(t, d, gs, r) = S!Struct(TreeKids(Parts, Dflt(t), BNet(d, gs), r))
<1>1. [Default |-> d, Gateways |-> S!Dict(NoSection, gs)] = BNetKids(Halves, d, S!Dict(NoSection, gs))
  BY DEF BNetKids, Halves
<1>2. [Default |-> Dflt(t), BNet |-> BNet(d, gs), Relay |-> r] = TreeKids(Parts, Dflt(t), BNet(d, gs), r)
  BY DEF TreeKids, Parts
<1> QED BY <1>1, <1>2 DEF Tree, BNet, Dflt, NoSection

LEMMA OneIs ==
  ASSUME NEW x
  PROVE  /\ [g |-> x] = One(x) /\ IsMap(One(x)) /\ DOMAIN One(x) = {"g"} /\ One(x)["g"] = x
         /\ \A y : One(x) = One(y) <=> x = y
<1>1. \A y : One(y)["g"] = y
  BY DEF One
<1>2. [g |-> x] = One(x) /\ IsMap(One(x)) /\ DOMAIN One(x) = {"g"}
  BY DEF One, IsMap
<1> QED BY <1>1, <1>2

LEMMA TreeKidsOf ==
  ASSUME NEW E \in SUBSET Parts, NEW a, NEW b, NEW c
  PROVE  /\ IsMap(TreeKids(E, a, b, c)) /\ DOMAIN TreeKids(E, a, b, c) = E
         /\ "Default" \in E => TreeKids(E, a, b, c)["Default"] = a
         /\ "BNet" \in E => TreeKids(E, a, b, c)["BNet"] = b
         /\ "Relay" \in E => TreeKids(E, a, b, c)["Relay"] = c
BY DEF TreeKids, Parts, IsMap

LEMMA BNetKidsOf ==
  ASSUME NEW E \in SUBSET Halves, NEW d, NEW gs
  PROVE  /\ IsMap(BNetKids(E, d, gs)) /\ DOMAIN BNetKids(E, d, gs) = E
         /\ "Default" \in E => BNetKids(E, d, gs)["Default"] = d
         /\ "Gateways" \in E => BNetKids(E, d, gs)["Gateways"] = gs
BY DEF BNetKids, Halves, IsMap

LEMMA DefaultMerged ==
  ASSUME NEW t, NEW x, NEW o \in {S!Overwrite, S!Replace}
  PROVE  /\ S!merge5(Dflt(t), Dflt(x), o) = Dflt(x)
         /\ S!merge5(Dflt(t), S!Dict(S!Nil, [Trigger |-> S!Leaf(x)]), o) = Dflt(x)
<1> DEFINE f == [Trigger |-> S!Leaf(t)]
           h == [Trigger |-> S!Leaf(x)]
<1>1. DOMAIN f = {"Trigger"} /\ DOMAIN h = {"Trigger"} /\ IsMap(h) /\ h["Trigger"] = S!Leaf(x)
  BY DEF IsMap
<1>2. o.overwrite = TRUE
  BY Options
<1>3. Dflt(t) = S!Struct(f) /\ Dflt(x) = S!Struct(h)
  BY DEF Dflt
<1> HIDE DEF f, h
<1>4. h["Trigger"] = S!merge4(f["Trigger"], h["Trigger"], o)
  BY <1>1, <1>2, MergeLeaf
<1>5. \A src : Overwrites(src, h, o) => S!merge5(S!Struct(f), src, o) = S!Struct(h)
  <2> SUFFICES ASSUME NEW src, Overwrites(src, h, o)
               PROVE  S!merge5(S!Struct(f), src, o) = S!Struct(h)
    OBVIOUS
  <2>1. Keeps(f, src, h, o, h)
    BY <1>1 DEF Keeps
  <2> QED BY <1>1, <1>4, <2>1, MergeStructs5
<1>6. Overwrites(S!Struct(h), h, o) /\ Overwrites(S!Dict(S!Nil, h), h, o)
  BY <1>2, Structures, Dicts DEF Overwrites
<1> QED BY <1>3, <1>5, <1>6 DEF h

LEMMA BNetMerged ==
  ASSUME NEW X, NEW gs, IsMap(gs), DOMAIN gs \in SUBSET {"g"},
         NEW E \in SUBSET Halves, NEW d, NEW x, NEW y, NEW src, NEW o,
         Overwrites(src, BNetKids(E, d, S!Dict(x, One(y))), o)
  PROVE  S!merge5(BNet(X, gs), src, o) =
           BNet(IF "Default" \in E THEN S!merge4(X, d, o) ELSE X,
                IF "Gateways" \in E THEN One(S!merge3(Old(NoSection, gs, "g"), y, o)) ELSE gs)
<1> DEFINE hs == S!Dict(NoSection, gs)
           new == IF "Gateways" \in E THEN One(S!merge3(Old(NoSection, gs, "g"), y, o)) ELSE gs
           f == BNetKids(Halves, X, hs)
           h == BNetKids(E, d, S!Dict(x, One(y)))
           r == BNetKids(Halves, IF "Default" \in E THEN S!merge4(X, d, o) ELSE X, S!Dict(NoSection, new))
<1>1. /\ DOMAIN f = Halves /\ f["Default"] = X /\ f["Gateways"] = hs
      /\ DOMAIN h = E
      /\ "Default" \in E => h["Default"] = d
      /\ "Gateways" \in E => h["Gateways"] = S!Dict(x, One(y))
      /\ IsMap(r) /\ DOMAIN r = Halves
      /\ r["Default"] = IF "Default" \in E THEN S!merge4(X, d, o) ELSE X
      /\ r["Gateways"] = S!Dict(NoSection, new)
  <2> HIDE DEF hs, new
  <2>1. DOMAIN f = Halves /\ f["Default"] = X /\ f["Gateways"] = hs
    BY BNetKidsOf DEF Halves
  <2>2. DOMAIN h = E /\ ("Default" \in E => h["Default"] = d) /\ ("Gateways" \in E => h["Gateways"] = S!Dict(x, One(y)))
    BY BNetKidsOf
  <2>3. IsMap(r) /\ DOMAIN r = Halves
    BY BNetKidsOf DEF Halves
  <2>4. r["Default"] = (IF "Default" \in E THEN S!merge4(X, d, o) ELSE X) /\ r["Gateways"] = S!Dict(NoSection, new)
    BY BNetKidsOf DEF Halves
  <2> QED BY <2>1, <2>2, <2>3, <2>4
<1>2. BNet(X, gs) = S!Struct(f)
  BY DEF BNet
<1> HIDE DEF f, h, r
<1>3. ASSUME "Gateways" \in E
      PROVE  S!merge4(hs, S!Dict(x, One(y)), o) = S!Dict(NoSection, new)
  <2>1. new = One(S!merge3(Old(NoSection, gs, "g"), y, o))
    BY <1>3
  <2>2. DOMAIN new = {"g"} /\ IsMap(new) /\ DOMAIN One(y) = {"g"} /\ One(y)["g"] = y
        /\ new["g"] = S!merge3(Old(NoSection, gs, "g"), y, o)
    BY <2>1, OneIs
  <2> HIDE DEF new
  <2>3. Extends(gs, One(y), o, new)
    BY <2>2 DEF Extends, MergedKeys
  <2> QED BY <2>2, <2>3, MergeMaps4
<1> HIDE DEF hs, new
<1>4. Keeps(f, src, h, o, r)
  BY <1>1, <1>3 DEF Keeps, Halves, h, new, hs
<1>5. \A k \in DOMAIN f \cap DOMAIN h : r[k] = S!merge4(f[k], h[k], o)
  BY <1>1, <1>3 DEF Halves
<1>6. S!merge5(S!Struct(f), src, o) = S!Struct(r)
  BY <1>4, <1>5, MergeStructs5
<1> QED BY <1>2, <1>6 DEF BNet, r, new

LEMMA TreeMerged ==
  ASSUME NEW A, NEW B, NEW C, NEW E \in SUBSET Parts, NEW a, NEW b, NEW c, NEW src, NEW o,
         Overwrites(src, TreeKids(E, a, b, c), o)
  PROVE  S!merge(S!Struct(TreeKids(Parts, A, B, C)), src, o) =
           S!Struct(TreeKids(Parts, IF "Default" \in E THEN S!merge5(A, a, o) ELSE A,
                                    IF "BNet" \in E THEN S!merge5(B, b, o) ELSE B,
                                    IF "Relay" \in E THEN S!merge5(C, c, o) ELSE C))
<1> DEFINE f == TreeKids(Parts, A, B, C)
           h == TreeKids(E, a, b, c)
           r == TreeKids(Parts, IF "Default" \in E THEN S!merge5(A, a, o) ELSE A,
                                IF "BNet" \in E THEN S!merge5(B, b, o) ELSE B,
                                IF "Relay" \in E THEN S!merge5(C, c, o) ELSE C)
<1>1. /\ DOMAIN f = Parts /\ f["Default"] = A /\ f["BNet"] = B /\ f["Relay"] = C
      /\ DOMAIN h = E
      /\ "Default" \in E => h["Default"] = a
      /\ "BNet" \in E => h["BNet"] = b
      /\ "Relay" \in E => h["Relay"] = c
      /\ IsMap(r) /\ DOMAIN r = Parts
      /\ r["Default"] = IF "Default" \in E THEN S!merge5(A, a, o) ELSE A
      /\ r["BNet"] = IF "BNet" \in E THEN S!merge5(B, b, o) ELSE B
      /\ r["Relay"] = IF "Relay" \in E THEN S!merge5(C, c, o) ELSE C
  BY TreeKidsOf DEF Parts
<1> HIDE DEF f, r
<1>2. Keeps(f, src, h, o, r)
  <2> HIDE DEF h
  <2> QED BY <1>1 DEF Keeps, Parts, h
<1> HIDE DEF h
<1>3. \A k \in DOMAIN f \cap DOMAIN h : r[k] = S!merge5(f[k], h[k], o)
  BY <1>1 DEF Parts
<1>4. S!merge(S!Struct(f), src, o) = S!Struct(r)
  BY <1>2, <1>3, MergeStructs
<1> QED BY <1>4 DEF f, r

LEMMA ParamsOfTree ==
  ASSUME NEW t, NEW d, NEW gs, NEW r
  PROVE  /\ Tree(t, d, gs, r).kids.Default = Dflt(t)
         /\ Tree(t, d, gs, r).kids.BNet = BNet(d, gs)
         /\ Tree(t, d, gs, r).kids.Relay = r
         /\ BNet(d, gs).kids.Default = d
         /\ BNet(d, gs).kids.Gateways = S!Dict(NoSection, gs)
         /\ \A b : [Tree(t, d, gs, r) EXCEPT !.kids.BNet = b] = S!Struct(TreeKids(Parts, Dflt(t), b, r))
<1> DEFINE f == TreeKids(Parts, Dflt(t), BNet(d, gs), r)
<1>1. Tree(t, d, gs, r) = S!Struct(f)
  BY TreeIs
<1>2. f["Default"] = Dflt(t) /\ f["BNet"] = BNet(d, gs) /\ f["Relay"] = r
  BY TreeKidsOf DEF Parts
<1>3. S!Struct(f).kids = f
  BY Structures
<1>4. ASSUME NEW b
      PROVE  [Tree(t, d, gs, r) EXCEPT !.kids.BNet = b] = S!Struct(TreeKids(Parts, Dflt(t), b, r))
  <2>1. [f EXCEPT !.BNet = b] = TreeKids(Parts, Dflt(t), b, r)
    BY DEF TreeKids, Parts
  <2> HIDE DEF f
  <2>2. [S!Struct(f) EXCEPT !.kids.BNet = b] = S!Struct([f EXCEPT !.BNet = b])
    BY DEF S!Struct
  <2> QED BY <1>1, <2>1, <2>2
<1>5. BNet(d, gs).kids = BNetKids(Halves, d, S!Dict(NoSection, gs))
  BY Structures DEF BNet
<1>6. BNetKids(Halves, d, S!Dict(NoSection, gs)).Default = d
      /\ BNetKids(Halves, d, S!Dict(NoSection, gs)).Gateways = S!Dict(NoSection, gs)
  BY BNetKidsOf DEF Halves
<1> HIDE DEF f
<1>7. Tree(t, d, gs, r).kids = f
  BY <1>1, <1>3
<1>8. /\ Tree(t, d, gs, r).kids.Default = Dflt(t)
      /\ Tree(t, d, gs, r).kids.BNet = BNet(d, gs)
      /\ Tree(t, d, gs, r).kids.Relay = r
  BY <1>2, <1>7
<1> QED BY <1>4, <1>5, <1>6, <1>8

(* A tree whose sections of defaults and of g have these settings.         *)
Chained(t, bt, ba, bu, gt, ga, gu, r) == Tree(t, Section(bt, ba, bu), One(Section(gt, ga, gu)), r)

LEMMA MergeDefaultsIs ==
  ASSUME NEW t, NEW bt, NEW ba, NEW bu, IsMap(bu), NEW gt, NEW ga, NEW gu, IsMap(gu), NEW r
  PROVE  TreeMergeDefaults(Chained(t, bt, ba, bu, gt, ga, gu, r)) =
           Chained(t, Or(bt, t), ba, bu, Or(gt, Or(bt, t)), Or(ga, ba), Filled(gu, bu), r)
<1> DEFINE c == Chained(t, bt, ba, bu, gt, ga, gu, r)
           d == Section(bt, ba, bu)
           s == Section(gt, ga, gu)
           e == Section(Or(bt, t), ba, bu)
           n == Section(Or(gt, Or(bt, t)), Or(ga, ba), Filled(gu, bu))
           gates == S!Dict(NoSection, One(s))
<1>1. /\ c.kids.Default = Dflt(t) /\ c.kids.BNet = BNet(d, One(s))
      /\ BNet(d, One(s)).kids.Default = d /\ BNet(d, One(s)).kids.Gateways = gates
      /\ \A b : [c EXCEPT !.kids.BNet = b] = S!Struct(TreeKids(Parts, Dflt(t), b, r))
  BY ParamsOfTree DEF Chained
<1>2. S!merge(d, Dflt(t), S!Fill) = e
  BY DefaultFilled
<1>3. S!merge(s, e, S!Fill) = n
  <2>1. \A v : S!merge(s, Section(v, ba, bu), S!Fill) = Section(Or(gt, v), Or(ga, ba), Filled(gu, bu))
    BY SectionFilled
  <2> QED BY <2>1
<1>4. [gates EXCEPT !.kids = [g \in DOMAIN @ |-> S!merge(@[g], e, S!Fill)]] = S!Dict(NoSection, One(n))
  <2>1. gates.kids = One(s)
    BY Dicts
  <2>2. [g \in DOMAIN One(s) |-> S!merge(One(s)[g], e, S!Fill)] = One(n)
    BY <1>3 DEF One
  <2>3. \A k : [gates EXCEPT !.kids = k] = S!Dict(NoSection, k)
    BY Kids
  <2> QED BY <2>1, <2>2, <2>3
<1>5. S!Struct([Default |-> e, Gateways |-> S!Dict(NoSection, One(n))]) = BNet(e, One(n))
  <2>1. [Default |-> e, Gateways |-> S!Dict(NoSection, One(n))] = BNetKids(Halves, e, S!Dict(NoSection, One(n)))
    BY DEF BNetKids, Halves
  <2> QED BY <2>1 DEF BNet
<1> HIDE DEF c, d, s, e, n, gates
<1>6. TreeMergeDefaults(c) =
        [c EXCEPT !.kids.BNet =
          S!Struct([Default |-> e,
                    Gateways |-> [gates EXCEPT !.kids = [g \in DOMAIN @ |-> S!merge(@[g], e, S!Fill)]]])]
  BY <1>1, <1>2 DEF TreeMergeDefaults
<1>7. TreeMergeDefaults(c) = S!Struct(TreeKids(Parts, Dflt(t), BNet(e, One(n)), r))
  BY <1>1, <1>4, <1>5, <1>6
<1>8. Tree(t, e, One(n), r) = S!Struct(TreeKids(Parts, Dflt(t), BNet(e, One(n)), r))
  BY TreeIs
<1> QED BY <1>7, <1>8 DEF Chained, c, e, n

-----------------------------------------------------------------------------
(* The map of a tree *)

DfltMap(t) == S!Dict(S!Nil, [Trigger |-> S!Leaf(t)])
BNetDict(E, d, y) == S!Dict(S!Nil, BNetKids(E, d, S!Dict(S!Nil, One(y))))
TreeDict(E, a, b, c) == S!Dict(S!Nil, TreeKids(E, a, b, c))

LEMMA MapDefault ==
  ASSUME NEW t
  PROVE  S!Map5(Dflt(t)) = DfltMap(t)
<1> DEFINE f == [Trigger |-> S!Leaf(t)]
<1>1. IsMap(f) /\ DOMAIN f = {"Trigger"} /\ f["Trigger"] = S!Leaf(t)
  BY DEF IsMap
<1>2. Dflt(t) = S!Struct(f) /\ DfltMap(t) = S!Dict(S!Nil, f)
  BY DEF Dflt, DfltMap
<1> HIDE DEF f
<1>3. Inside(S!Struct(f), f, f)
  BY <1>1 DEF Inside
<1>4. \A k \in DOMAIN f : f[k] = S!Map4(f[k])
  BY <1>1, MapLeaf
<1> QED BY <1>2, <1>3, <1>4, MapNode5

LEMMA MapBNet ==
  ASSUME NEW d, NEW s
  PROVE  S!Map5(BNet(d, One(s))) = BNetDict(Halves, S!Map4(d), S!Map3(s))
<1> DEFINE gates == S!Dict(NoSection, One(s))
           mapped == S!Dict(S!Nil, One(S!Map3(s)))
           f == BNetKids(Halves, d, gates)
           r == BNetKids(Halves, S!Map4(d), mapped)
<1>1. S!Map4(gates) = mapped
  <2>1. DOMAIN One(s) = {"g"} /\ One(s)["g"] = s
    BY OneIs
  <2>2. DOMAIN One(S!Map3(s)) = {"g"} /\ One(S!Map3(s))["g"] = S!Map3(s) /\ IsMap(One(S!Map3(s)))
    BY OneIs
  <2>3. Inside(gates, One(s), One(S!Map3(s)))
    BY <2>1, <2>2 DEF Inside
  <2>4. \A k \in DOMAIN One(s) : One(S!Map3(s))[k] = S!Map3(One(s)[k])
    BY <2>1, <2>2
  <2> QED BY <2>3, <2>4, MapNode4
<1>2. /\ DOMAIN f = Halves /\ f["Default"] = d /\ f["Gateways"] = gates
      /\ IsMap(r) /\ DOMAIN r = Halves /\ r["Default"] = S!Map4(d) /\ r["Gateways"] = mapped
  BY BNetKidsOf DEF Halves
<1>3. BNet(d, One(s)) = S!Struct(f) /\ BNetDict(Halves, S!Map4(d), S!Map3(s)) = S!Dict(S!Nil, r)
  BY DEF BNet, BNetDict
<1> HIDE DEF f, r, gates, mapped
<1>4. Inside(S!Struct(f), f, r)
  BY <1>2 DEF Inside
<1>5. \A k \in DOMAIN f : r[k] = S!Map4(f[k])
  BY <1>1, <1>2 DEF Halves
<1> QED BY <1>3, <1>4, <1>5, MapNode5

LEMMA MapTree ==
  ASSUME NEW t, NEW d, NEW gs, NEW r
  PROVE  S!Map(Tree(t, d, gs, r)) = TreeDict(Parts, DfltMap(t), S!Map5(BNet(d, gs)), S!Map5(r))
<1> DEFINE f == TreeKids(Parts, Dflt(t), BNet(d, gs), r)
           h == TreeKids(Parts, DfltMap(t), S!Map5(BNet(d, gs)), S!Map5(r))
<1>1. /\ DOMAIN f = Parts /\ f["Default"] = Dflt(t) /\ f["BNet"] = BNet(d, gs) /\ f["Relay"] = r
      /\ IsMap(h) /\ DOMAIN h = Parts /\ h["Default"] = DfltMap(t)
      /\ h["BNet"] = S!Map5(BNet(d, gs)) /\ h["Relay"] = S!Map5(r)
  BY TreeKidsOf DEF Parts
<1>2. Tree(t, d, gs, r) = S!Struct(f)
      /\ TreeDict(Parts, DfltMap(t), S!Map5(BNet(d, gs)), S!Map5(r)) = S!Dict(S!Nil, h)
  BY TreeIs DEF TreeDict
<1> HIDE DEF f, h
<1>3. Inside(S!Struct(f), f, h)
  BY <1>1 DEF Inside
<1>4. \A k \in DOMAIN f : h[k] = S!Map5(f[k])
  BY <1>1, MapDefault DEF Parts
<1> QED BY <1>2, <1>3, <1>4, MapNode

(* What the sections of a tree keep of their fields.                       *)
DfltFields(t, bt) == IF bt = t THEN {"AccessTalk", "AccessUser"} ELSE Fields
GateFields(bt, ba, bu, gt, ga, gu) == Fields \ Alike(gt, ga, gu, bt, ba, bu)

LEMMA BNetMapIs ==
  ASSUME NEW t, NEW bt, NEW ba, NEW bu, IsMap(bu), NEW gt, NEW ga, NEW gu, IsMap(gu)
  PROVE  BNetMap(BNetDict(Halves, SectionMap(Fields, bt, ba, bu), SectionMap(Fields, gt, ga, gu)), DfltMap(t)) =
           BNetDict(Halves, SectionMap(DfltFields(t, bt), bt, ba, bu),
                    SectionMap(GateFields(bt, ba, bu, gt, ga, gu), gt, ga, Minus(gu, bu)))
<1> DEFINE d == SectionMap(Fields, bt, ba, bu)
           s == SectionMap(Fields, gt, ga, gu)
           gates == S!Dict(S!Nil, One(s))
           b == BNetDict(Halves, d, s)
           e == SectionMap(DfltFields(t, bt), bt, ba, bu)
           n == SectionMap(GateFields(bt, ba, bu, gt, ga, gu), gt, ga, Minus(gu, bu))
<1>1. S!DeleteEqual(d, DfltMap(t)) = e
  <2> DEFINE E == {"Trigger"}
             none == <<>>
  <2>1. DfltMap(t) = SectionMap(E, t, 0, none)
    <3>1. [Trigger |-> S!Leaf(t)] = SectionKids(E, t, 0, Users(S!Nil, none))
      BY DEF SectionKids
    <3> QED BY <3>1 DEF SectionMap, DfltMap
  <2>2. E \in SUBSET Fields /\ "AccessUser" \notin E
    BY DEF Fields
  <2>3. Fields \ (E \cap Alike(bt, ba, bu, t, 0, none)) = DfltFields(t, bt)
    BY DEF Alike, Fields, DfltFields
  <2>4. IsMap(none)
    BY DEF IsMap
  <2> HIDE DEF E, none
  <2>5. S!DeleteEqual(SectionMap(Fields, bt, ba, bu), SectionMap(E, t, 0, none)) =
          SectionLess(Fields, bt, ba, bu, E, t, 0, none)
    BY <2>2, <2>4, Fields \in SUBSET Fields, DeleteSection
  <2> QED BY <2>1, <2>2, <2>3, <2>5 DEF SectionLess
<1>2. S!DeleteEqual(s, d) = n
  <2>1. "AccessUser" \in Fields /\ Fields \ (Fields \cap Alike(gt, ga, gu, bt, ba, bu)) = GateFields(bt, ba, bu, gt, ga, gu)
    BY DEF Fields, GateFields
  <2>2. S!DeleteEqual(s, d) = SectionLess(Fields, gt, ga, gu, Fields, bt, ba, bu)
    BY Fields \in SUBSET Fields, DeleteSection
  <2> QED BY <2>1, <2>2 DEF SectionLess
<1>3. b.kids.Default = d /\ b.kids.Gateways = gates
  <2>1. b.kids = BNetKids(Halves, d, gates)
    BY Dicts DEF BNetDict
  <2> QED BY <2>1, BNetKidsOf DEF Halves
<1> HIDE DEF d, s, e, n
<1>4. [gates EXCEPT !.kids = [g \in DOMAIN @ |-> S!DeleteEqual(@[g], d)]] = S!Dict(S!Nil, One(n))
  <2>1. gates.kids = One(s)
    BY Dicts
  <2>2. [g \in DOMAIN One(s) |-> S!DeleteEqual(One(s)[g], d)] = One(n)
    BY <1>2 DEF One
  <2>3. \A k : [gates EXCEPT !.kids = k] = S!Dict(S!Nil, k)
    BY Kids
  <2> QED BY <2>1, <2>2, <2>3
<1> HIDE DEF gates, b
<1>5. BNetMap(b, DfltMap(t)) =
        S!Dict(S!Nil, [Default |-> e, Gateways |-> S!Dict(S!Nil, One(n))])
  BY <1>1, <1>3, <1>4 DEF BNetMap
<1>6. [Default |-> e, Gateways |-> S!Dict(S!Nil, One(n))] = BNetKids(Halves, e, S!Dict(S!Nil, One(n)))
  BY DEF BNetKids, Halves
<1> QED BY <1>5, <1>6 DEF BNetDict, b, d, s, e, n

LEMMA PutOf ==
  ASSUME NEW e, NEW f, NEW k, NEW x
  PROVE  Put(S!Dict(e, f), k, x) = S!Dict(e, [f EXCEPT ![k] = x])
BY DEF Put, S!Dict

LEMMA TreeMapIs ==
  ASSUME NEW t, NEW bt, NEW ba, NEW bu, IsMap(bu), NEW gt, NEW ga, NEW gu, IsMap(gu), NEW r
  PROVE  TreeMap(Chained(t, bt, ba, bu, gt, ga, gu, r)) =
           TreeDict(Parts, DfltMap(t),
                    BNetDict(Halves, SectionMap(DfltFields(t, bt), bt, ba, bu),
                             SectionMap(GateFields(bt, ba, bu, gt, ga, gu), gt, ga, Minus(gu, bu))),
                    RelayMap(S!Map5(r)))
<1> DEFINE c == Chained(t, bt, ba, bu, gt, ga, gu, r)
           b == BNetDict(Halves, SectionMap(Fields, bt, ba, bu), SectionMap(Fields, gt, ga, gu))
           n == BNetDict(Halves, SectionMap(DfltFields(t, bt), bt, ba, bu),
                             SectionMap(GateFields(bt, ba, bu, gt, ga, gu), gt, ga, Minus(gu, bu)))
           q == S!Map5(r)
           f == TreeKids(Parts, DfltMap(t), b, q)
<1>1. S!Map5(BNet(Section(bt, ba, bu), One(Section(gt, ga, gu)))) = b
  BY MapBNet, MapSection
<1>2. S!Map(c) = S!Dict(S!Nil, f)
  BY <1>1, MapTree DEF Chained, TreeDict
<1>3. f["Default"] = DfltMap(t) /\ f["BNet"] = b /\ f["Relay"] = q
  BY TreeKidsOf DEF Parts
<1>4. BNetMap(b, DfltMap(t)) = n
  BY BNetMapIs
<1>5. [[f EXCEPT !["BNet"] = n] EXCEPT !["Relay"] = RelayMap(q)] = TreeKids(Parts, DfltMap(t), n, RelayMap(q))
  BY DEF TreeKids, Parts
<1> DEFINE rq == RelayMap(q)
           h == [f EXCEPT !["BNet"] = n]
           j == [h EXCEPT !["Relay"] = rq]
<1> HIDE DEF c, b, n, q, f, rq
<1>6. S!Dict(S!Nil, f).kids = f
  BY Dicts
<1>7. TreeMap(c) = Put(Put(S!Dict(S!Nil, f), "BNet", n), "Relay", RelayMap(q))
  BY <1>2, <1>3, <1>4, <1>6 DEF TreeMap
<1>8. Put(S!Dict(S!Nil, f), "BNet", n) = S!Dict(S!Nil, h)
  BY PutOf
<1> HIDE DEF h
<1>9. Put(S!Dict(S!Nil, h), "Relay", rq) = S!Dict(S!Nil, j)
  BY PutOf
<1>10. j = TreeKids(Parts, DfltMap(t), n, rq)
  BY <1>5 DEF h, rq
<1> HIDE DEF j
<1>11. TreeMap(c) = S!Dict(S!Nil, j)
  BY <1>7, <1>8, <1>9 DEF rq
<1>12. TreeMap(c) = TreeDict(Parts, DfltMap(t), n, rq)
  BY <1>10, <1>11 DEF TreeDict
<1> QED BY <1>12 DEF c, n, q, rq

-----------------------------------------------------------------------------
(* Overwriting and replacing trees *)

NoRelays == Relays(Relay(0), Relay(0), <<>>)

LEMMA SectionReplaced ==
  ASSUME NEW t, NEW a, NEW u, NEW x, NEW b, NEW w, IsMap(w), NEW o \in {S!Overwrite, S!Replace}
  PROVE  /\ S!merge3(Section(t, a, u), Section(x, b, w), o) = Section(x, b, Became(u, w, o))
         /\ S!merge4(Section(t, a, u), Section(x, b, w), o) = Section(x, b, Became(u, w, o))
<1>1. Fields \in SUBSET Fields /\ "Trigger" \in Fields /\ "AccessTalk" \in Fields /\ "AccessUser" \in Fields
  BY DEF Fields
<1>2. PICK s : s = Section(IF "Trigger" \in Fields THEN x ELSE t, IF "AccessTalk" \in Fields THEN b ELSE a,
                           IF "AccessUser" \in Fields THEN Became(u, w, o) ELSE u)
  OBVIOUS
<1>3. s = Section(x, b, Became(u, w, o))
  BY <1>1, <1>2
<1>4. S!merge3(Section(t, a, u), Section(x, b, w), o) = s /\ S!merge4(Section(t, a, u), Section(x, b, w), o) = s
  BY <1>1, <1>2, SectionOverwritten
<1> QED BY <1>3, <1>4

LEMMA SectionOverlaid ==
  ASSUME NEW t, NEW a, NEW u, NEW D \in SUBSET Fields, NEW x, NEW b, NEW w, IsMap(w)
  PROVE  /\ S!merge3(Section(t, a, u), SectionMap(D, x, b, w), S!Overwrite) =
              Section(IF "Trigger" \in D THEN x ELSE t, IF "AccessTalk" \in D THEN b ELSE a,
                      IF "AccessUser" \in D THEN Overlaid(u, w) ELSE u)
         /\ S!merge4(Section(t, a, u), SectionMap(D, x, b, w), S!Overwrite) =
              Section(IF "Trigger" \in D THEN x ELSE t, IF "AccessTalk" \in D THEN b ELSE a,
                      IF "AccessUser" \in D THEN Overlaid(u, w) ELSE u)
<1>1. Became(u, w, S!Overwrite) = Overlaid(u, w)
  BY DEF Became, S!Fill, S!Overwrite, S!Replace
<1>2. PICK s : s = Section(IF "Trigger" \in D THEN x ELSE t, IF "AccessTalk" \in D THEN b ELSE a,
                           IF "AccessUser" \in D THEN Became(u, w, S!Overwrite) ELSE u)
  OBVIOUS
<1>3. /\ S!merge3(Section(t, a, u), SectionMap(D, x, b, w), S!Overwrite) = s
      /\ S!merge4(Section(t, a, u), SectionMap(D, x, b, w), S!Overwrite) = s
  BY <1>2, SectionOverwritten
<1> QED BY <1>1, <1>2, <1>3

LEMMA OverlaidNone ==
  ASSUME NEW w, IsMap(w)
  PROVE  Overlaid(<<>>, w) = w
BY DEF Overlaid, IsMap

(* A whole tree is merged into another: the settings are those of the new  *)
(* one, its users and relays are merged.                                   *)
LEMMA TreeReplaced ==
  ASSUME NEW t, NEW bt, NEW ba, NEW bu, NEW gs, IsMap(gs), DOMAIN gs \in SUBSET {"g"},
         NEW gt, NEW ga, NEW gu, Old(NoSection, gs, "g") = Section(gt, ga, gu), NEW r,
         NEW x, NEW xt, NEW xa, NEW xu, IsMap(xu), NEW yt, NEW ya, NEW yu, IsMap(yu), NEW q,
         NEW o \in {S!Overwrite, S!Replace}
  PROVE  S!merge(Tree(t, Section(bt, ba, bu), gs, r), Chained(x, xt, xa, xu, yt, ya, yu, q), o) =
           Chained(x, xt, xa, Became(bu, xu, o), yt, ya, Became(gu, yu, o), S!merge5(r, q, o))
<1> DEFINE B == Section(bt, ba, bu)
           G == Section(gt, ga, gu)
           X == Section(xt, xa, xu)
           Y == Section(yt, ya, yu)
           NB == Section(xt, xa, Became(bu, xu, o))
           NG == Section(yt, ya, Became(gu, yu, o))
<1>1. S!merge4(B, X, o) = NB /\ S!merge3(G, Y, o) = NG
  BY SectionReplaced
<1>2. o.overwrite = TRUE
  BY Options
<1> HIDE DEF B, G, X, Y, NB, NG
<1>3. S!merge5(BNet(B, gs), BNet(X, One(Y)), o) = BNet(NB, One(NG))
  <2>1. Old(NoSection, gs, "g") = G
    BY DEF G
  <2>2. Overwrites(BNet(X, One(Y)), BNetKids(Halves, X, S!Dict(NoSection, One(Y))), o)
    BY <1>2, Structures DEF BNet, Overwrites
  <2>3. Halves \in SUBSET Halves /\ "Default" \in Halves /\ "Gateways" \in Halves
    BY DEF Halves
  <2>4. S!merge5(BNet(B, gs), BNet(X, One(Y)), o) =
          BNet(IF "Default" \in Halves THEN S!merge4(B, X, o) ELSE B,
               IF "Gateways" \in Halves THEN One(S!merge3(Old(NoSection, gs, "g"), Y, o)) ELSE gs)
    BY <2>1, <2>2, <2>3, BNetMerged
  <2> QED BY <1>1, <2>1, <2>3, <2>4
<1>4. S!merge5(Dflt(t), Dflt(x), o) = Dflt(x)
  BY DefaultMerged
<1> DEFINE f == TreeKids(Parts, Dflt(t), BNet(B, gs), r)
           h == TreeKids(Parts, Dflt(x), BNet(X, One(Y)), q)
           n == TreeKids(Parts, Dflt(x), BNet(NB, One(NG)), S!merge5(r, q, o))
<1>5. S!merge(S!Struct(f), S!Struct(h), o) = S!Struct(n)
  <2>1. Overwrites(S!Struct(h), h, o)
    BY <1>2, Structures DEF Overwrites
  <2>2. Parts \in SUBSET Parts /\ "Default" \in Parts /\ "BNet" \in Parts /\ "Relay" \in Parts
    BY DEF Parts
  <2>3. S!merge(S!Struct(f), S!Struct(h), o) =
          S!Struct(TreeKids(Parts, IF "Default" \in Parts THEN S!merge5(Dflt(t), Dflt(x), o) ELSE Dflt(t),
                                   IF "BNet" \in Parts THEN S!merge5(BNet(B, gs), BNet(X, One(Y)), o) ELSE BNet(B, gs),
                                   IF "Relay" \in Parts THEN S!merge5(r, q, o) ELSE r))
    BY <2>1, <2>2, TreeMerged
  <2> QED BY <1>3, <1>4, <2>2, <2>3
<1>6. /\ Tree(t, Section(bt, ba, bu), gs, r) = S!Struct(f)
      /\ Chained(x, xt, xa, xu, yt, ya, yu, q) = S!Struct(h)
      /\ Chained(x, xt, xa, Became(bu, xu, o), yt, ya, Became(gu, yu, o), S!merge5(r, q, o)) = S!Struct(n)
  BY TreeIs DEF Chained, B, G, X, Y, NB, NG
<1> QED BY <1>5, <1>6

(* A map of settings is merged into a tree, which may have no gateway yet. *)
LEMMA TreeOverlaid ==
  ASSUME NEW t, NEW bt, NEW ba, NEW bu, NEW gs, IsMap(gs), DOMAIN gs \in SUBSET {"g"},
         NEW gt, NEW ga, NEW gu, Old(NoSection, gs, "g") = Section(gt, ga, gu), NEW r,
         NEW E \in SUBSET Parts, NEW x, NEW q,
         NEW F \in SUBSET Halves, "g" \in DOMAIN gs \/ (F = Halves /\ E = Parts),
         NEW D \in SUBSET Fields, NEW xt, NEW xa, NEW xu, IsMap(xu),
         NEW G \in SUBSET Fields, NEW yt, NEW ya, NEW yu, IsMap(yu),
         NEW inB, inB = ("BNet" \in E /\ "Default" \in F), NEW inG, inG = ("BNet" \in E /\ "Gateways" \in F)
  PROVE  S!merge(Tree(t, Section(bt, ba, bu), gs, r),
                 TreeDict(E, DfltMap(x), BNetDict(F, SectionMap(D, xt, xa, xu), SectionMap(G, yt, ya, yu)), q),
                 S!Overwrite) =
           Chained(IF "Default" \in E THEN x ELSE t,
                   IF inB /\ "Trigger" \in D THEN xt ELSE bt,
                   IF inB /\ "AccessTalk" \in D THEN xa ELSE ba,
                   IF inB /\ "AccessUser" \in D THEN Overlaid(bu, xu) ELSE bu,
                   IF inG /\ "Trigger" \in G THEN yt ELSE gt,
                   IF inG /\ "AccessTalk" \in G THEN ya ELSE ga,
                   IF inG /\ "AccessUser" \in G THEN Overlaid(gu, yu) ELSE gu,
                   IF "Relay" \in E THEN S!merge5(r, q, S!Overwrite) ELSE r)
<1> DEFINE o == S!Overwrite
           B == Section(bt, ba, bu)
           X == SectionMap(D, xt, xa, xu)
           Y == SectionMap(G, yt, ya, yu)
           OB == Section(IF "Trigger" \in D THEN xt ELSE bt, IF "AccessTalk" \in D THEN xa ELSE ba,
                         IF "AccessUser" \in D THEN Overlaid(bu, xu) ELSE bu)
           OG == Section(IF "Trigger" \in G THEN yt ELSE gt, IF "AccessTalk" \in G THEN ya ELSE ga,
                         IF "AccessUser" \in G THEN Overlaid(gu, yu) ELSE gu)
           NB == Section(IF inB /\ "Trigger" \in D THEN xt ELSE bt, IF inB /\ "AccessTalk" \in D THEN xa ELSE ba,
                         IF inB /\ "AccessUser" \in D THEN Overlaid(bu, xu) ELSE bu)
           NG == Section(IF inG /\ "Trigger" \in G THEN yt ELSE gt, IF inG /\ "AccessTalk" \in G THEN ya ELSE ga,
                         IF inG /\ "AccessUser" \in G THEN Overlaid(gu, yu) ELSE gu)
           b == BNetDict(F, X, Y)
<1>1. S!merge4(B, X, o) = OB /\ S!merge3(Section(gt, ga, gu), Y, o) = OG
  BY SectionOverlaid
<1>2. /\ inB => NB = OB
      /\ ~inB => NB = B
      /\ inG => NG = OG
      /\ ~inG => NG = Section(gt, ga, gu)
  <2>1. CASE inB /\ inG
    BY <2>1
  <2>2. CASE inB /\ ~inG
    BY <2>2
  <2>3. CASE ~inB /\ inG
    BY <2>3
  <2>4. CASE ~inB /\ ~inG
    BY <2>4
  <2> QED BY <2>1, <2>2, <2>3, <2>4
<1>3. "g" \in DOMAIN gs => gs = One(Section(gt, ga, gu))
  BY DEF IsMap, One, Old
<1> HIDE DEF B, X, Y, OB, OG, NB, NG
<1>4. "BNet" \in E => S!merge5(BNet(B, gs), b, o) = BNet(NB, One(NG))
  <2>1. Overwrites(b, BNetKids(F, X, S!Dict(S!Nil, One(Y))), o)
    BY Dicts DEF BNetDict, Overwrites
  <2>2. S!merge5(BNet(B, gs), b, o) =
          BNet(IF "Default" \in F THEN S!merge4(B, X, o) ELSE B,
               IF "Gateways" \in F THEN One(S!merge3(Old(NoSection, gs, "g"), Y, o)) ELSE gs)
    BY <2>1, BNetMerged
  <2>3. CASE "Gateways" \in F
    BY <1>1, <1>2, <2>2, <2>3
  <2>4. CASE "Gateways" \notin F
    <3>1. gs = One(Section(gt, ga, gu))
      BY <1>3, <2>4 DEF Halves
    <3> QED BY <1>1, <1>2, <2>2, <2>4, <3>1
  <2> QED BY <2>3, <2>4
<1>5. "BNet" \notin E => BNet(B, gs) = BNet(NB, One(NG))
  BY <1>2, <1>3 DEF Parts
<1>6. S!merge5(Dflt(t), DfltMap(x), o) = Dflt(x)
  BY DefaultMerged DEF DfltMap
<1> HIDE DEF b
<1>7. S!merge(S!Struct(TreeKids(Parts, Dflt(t), BNet(B, gs), r)), TreeDict(E, DfltMap(x), b, q), o) =
        S!Struct(TreeKids(Parts, IF "Default" \in E THEN S!merge5(Dflt(t), DfltMap(x), o) ELSE Dflt(t),
                                 IF "BNet" \in E THEN S!merge5(BNet(B, gs), b, o) ELSE BNet(B, gs),
                                 IF "Relay" \in E THEN S!merge5(r, q, o) ELSE r))
  <2>1. Overwrites(TreeDict(E, DfltMap(x), b, q), TreeKids(E, DfltMap(x), b, q), o)
    BY Dicts DEF TreeDict, Overwrites
  <2> QED BY <2>1, TreeMerged
<1>8. /\ (IF "Default" \in E THEN S!merge5(Dflt(t), DfltMap(x), o) ELSE Dflt(t)) =
           Dflt(IF "Default" \in E THEN x ELSE t)
      /\ (IF "BNet" \in E THEN S!merge5(BNet(B, gs), b, o) ELSE BNet(B, gs)) = BNet(NB, One(NG))
  <2>1. (IF "Default" \in E THEN S!merge5(Dflt(t), DfltMap(x), o) ELSE Dflt(t)) =
           Dflt(IF "Default" \in E THEN x ELSE t)
    <3>1. CASE "Default" \in E
      BY <1>6, <3>1
    <3>2. CASE "Default" \notin E
      BY <3>2
    <3> QED BY <3>1, <3>2
  <2> QED BY <1>4, <1>5, <2>1
<1>9. Tree(t, B, gs, r) = S!Struct(TreeKids(Parts, Dflt(t), BNet(B, gs), r))
  BY TreeIs
<1>10. \A v, rr : Tree(v, NB, One(NG), rr) = S!Struct(TreeKids(Parts, Dflt(v), BNet(NB, One(NG)), rr))
  BY TreeIs
<1> QED BY <1>7, <1>8, <1>9, <1>10 DEF Chained, B, X, Y, NB, NG, b

-----------------------------------------------------------------------------
(* Copies of a tree *)

(* What the conversions make of relays.                                    *)
CopiedRelays(r) == S!merge5(NoRelays, r, S!Overwrite)
Rebuilt(r) == S!merge5(NoRelays, RelayMap(S!Map5(r)), S!Overwrite)

(* What is left of a setting that equals its default.                      *)
Own(x, dflt) == IF x = dflt THEN 0 ELSE x

LEMMA NewConfigIs ==
  /\ NewConfig = Tree(0, Section(0, 0, <<>>), <<>>, NoRelays)
  /\ IsMap(<<>>) /\ DOMAIN <<>> = {} /\ DOMAIN <<>> \in SUBSET {"g"}
  /\ Old(NoSection, <<>>, "g") = Section(0, 0, <<>>)
BY DEF NewConfig, NoRelays, IsMap, Old, NoSection

LEMMA CopyIs ==
  ASSUME NEW t, NEW bt, NEW ba, NEW bu, IsMap(bu), NEW gt, NEW ga, NEW gu, IsMap(gu), NEW r
  PROVE  Copy(Chained(t, bt, ba, bu, gt, ga, gu, r)) = Chained(t, bt, ba, bu, gt, ga, gu, CopiedRelays(r))
<1> DEFINE none == <<>>
           new == Tree(0, Section(0, 0, none), none, NoRelays)
<1>1. /\ NewConfig = new /\ IsMap(none) /\ DOMAIN none \in SUBSET {"g"}
      /\ Old(NoSection, none, "g") = Section(0, 0, none)
  BY NewConfigIs
<1>2. Became(none, bu, S!Overwrite) = bu /\ Became(none, gu, S!Overwrite) = gu
  BY OverlaidNone DEF Became, S!Fill, S!Overwrite, S!Replace
<1> HIDE DEF none
<1>3. S!merge(new, Chained(t, bt, ba, bu, gt, ga, gu, r), S!Overwrite) =
        Chained(t, bt, ba, Became(none, bu, S!Overwrite), gt, ga, Became(none, gu, S!Overwrite),
                S!merge5(NoRelays, r, S!Overwrite))
  BY <1>1, TreeReplaced
<1> QED BY <1>1, <1>2, <1>3 DEF Copy, CopiedRelays

LEMMA FromMapIs ==
  ASSUME NEW t, NEW bt, NEW ba, NEW bu, IsMap(bu), NEW gt, NEW ga, NEW gu, IsMap(gu), NEW r
  PROVE  FromMap(TreeMap(Chained(t, bt, ba, bu, gt, ga, gu, r))) =
           Chained(t, Own(bt, t), ba, bu, Own(gt, bt), Own(ga, ba), Minus(gu, bu), Rebuilt(r))
<1> DEFINE none == <<>>
           new == Tree(0, Section(0, 0, none), none, NoRelays)
           D == DfltFields(t, bt)
           G == GateFields(bt, ba, bu, gt, ga, gu)
           less == Minus(gu, bu)
           q == RelayMap(S!Map5(r))
           m == TreeDict(Parts, DfltMap(t),
                         BNetDict(Halves, SectionMap(D, bt, ba, bu), SectionMap(G, gt, ga, less)), q)
<1>1. /\ NewConfig = new /\ IsMap(none) /\ DOMAIN none \in SUBSET {"g"}
      /\ Old(NoSection, none, "g") = Section(0, 0, none)
  BY NewConfigIs
<1>2. IsMap(less) /\ (gu = bu => less = none)
  BY MinusOf DEF Minus, Shared, Restrict
<1>3. TreeMap(Chained(t, bt, ba, bu, gt, ga, gu, r)) = m
  BY TreeMapIs
<1>4. /\ D \in SUBSET Fields /\ G \in SUBSET Fields
      /\ "Trigger" \in D <=> bt # t
      /\ "AccessTalk" \in D /\ "AccessUser" \in D
      /\ "Trigger" \in G <=> gt # bt
      /\ "AccessTalk" \in G <=> ga # ba
      /\ "AccessUser" \in G <=> gu # bu
  BY DEF DfltFields, GateFields, Alike, Fields
<1>5. /\ Parts \in SUBSET Parts /\ Halves \in SUBSET Halves
      /\ "Default" \in Parts /\ "BNet" \in Parts /\ "Relay" \in Parts
      /\ "Default" \in Halves /\ "Gateways" \in Halves
  BY DEF Parts, Halves
<1>6. Overlaid(none, bu) = bu /\ Overlaid(none, less) = less
  BY <1>2, OverlaidNone
<1> HIDE DEF none, D, G, less, q
<1> DEFINE inB == "BNet" \in Parts /\ "Default" \in Halves
           inG == "BNet" \in Parts /\ "Gateways" \in Halves
<1>7. inB = TRUE /\ inG = TRUE
  BY <1>5
<1> HIDE DEF inB, inG
<1>8. inB = ("BNet" \in Parts /\ "Default" \in Halves) /\ inG = ("BNet" \in Parts /\ "Gateways" \in Halves)
  BY DEF inB, inG
<1>9. S!merge(new, m, S!Overwrite) =
        Chained(IF "Default" \in Parts THEN t ELSE 0,
                IF inB /\ "Trigger" \in D THEN bt ELSE 0,
                IF inB /\ "AccessTalk" \in D THEN ba ELSE 0,
                IF inB /\ "AccessUser" \in D THEN Overlaid(none, bu) ELSE none,
                IF inG /\ "Trigger" \in G THEN gt ELSE 0,
                IF inG /\ "AccessTalk" \in G THEN ga ELSE 0,
                IF inG /\ "AccessUser" \in G THEN Overlaid(none, less) ELSE none,
                IF "Relay" \in Parts THEN S!merge5(NoRelays, q, S!Overwrite) ELSE NoRelays)
  BY <1>1, <1>2, <1>4, <1>5, <1>8, TreeOverlaid
<1>10. /\ (IF inB /\ "Trigger" \in D THEN bt ELSE 0) = Own(bt, t)
       /\ (IF inG /\ "Trigger" \in G THEN gt ELSE 0) = Own(gt, bt)
       /\ (IF inG /\ "AccessTalk" \in G THEN ga ELSE 0) = Own(ga, ba)
       /\ (IF inG /\ "AccessUser" \in G THEN Overlaid(none, less) ELSE none) = less
  BY <1>2, <1>4, <1>6, <1>7 DEF Own
<1>11. S!merge(new, m, S!Overwrite) =
         Chained(t, Own(bt, t), ba, bu, Own(gt, bt), Own(ga, ba), less, S!merge5(NoRelays, q, S!Overwrite))
  BY <1>4, <1>5, <1>6, <1>7, <1>9, <1>10
<1> QED BY <1>1, <1>3, <1>11 DEF FromMap, Rebuilt, less, q

LEMMA ReplacedIs ==
  ASSUME NEW t, NEW bt, NEW ba, NEW bu, NEW gt, NEW ga, NEW gu, NEW r,
         NEW x, NEW xt, NEW xa, NEW xu, IsMap(xu), NEW yt, NEW ya, NEW yu, IsMap(yu), NEW q
  PROVE  Replaced(Chained(t, bt, ba, bu, gt, ga, gu, r), Chained(x, xt, xa, xu, yt, ya, yu, q)) =
           Chained(x, Or(xt, x), xa, xu, Or(yt, Or(xt, x)), Or(ya, xa), Filled(yu, xu), S!merge5(r, q, S!Replace))
<1> DEFINE gs == One(Section(gt, ga, gu))
           f == Filled(yu, xu)
           e == Or(xt, x)
           k == Or(yt, e)
           j == Or(ya, xa)
<1>1. /\ IsMap(gs) /\ DOMAIN gs \in SUBSET {"g"} /\ Old(NoSection, gs, "g") = Section(gt, ga, gu)
  BY OneIs DEF Old
<1>2. TreeMergeDefaults(Chained(x, xt, xa, xu, yt, ya, yu, q)) = Chained(x, e, xa, xu, k, j, f, q)
  BY MergeDefaultsIs
<1>3. IsMap(f)
  BY DEF Filled, IsMap
<1>4. \A u, w : Became(u, w, S!Replace) = w
  BY DEF Became, S!Fill, S!Overwrite, S!Replace
<1>5. Chained(t, bt, ba, bu, gt, ga, gu, r) = Tree(t, Section(bt, ba, bu), gs, r)
  BY DEF Chained
<1> HIDE DEF gs, f, e, k, j
<1>6. S!merge(Tree(t, Section(bt, ba, bu), gs, r), Chained(x, e, xa, xu, k, j, f, q), S!Replace) =
        Chained(x, e, xa, Became(bu, xu, S!Replace), k, j, Became(gu, f, S!Replace), S!merge5(r, q, S!Replace))
  BY <1>1, <1>3, TreeReplaced
<1> QED BY <1>2, <1>4, <1>5, <1>6 DEF Replaced, f, e, k, j

-----------------------------------------------------------------------------
(* Saving and loading a tree *)

LEMMA DeleteDefault ==
  ASSUME NEW t, NEW x, t # x
  PROVE  S!DeleteEqual4(DfltMap(t), DfltMap(x)) = DfltMap(t)
<1> DEFINE f == [Trigger |-> S!Leaf(t)]
           h == [Trigger |-> S!Leaf(x)]
<1>1. DOMAIN f = {"Trigger"} /\ f["Trigger"] = S!Leaf(t) /\ IsMap(f)
      /\ DOMAIN h = {"Trigger"} /\ h["Trigger"] = S!Leaf(x)
  BY DEF IsMap
<1> HIDE DEF f, h
<1>2. Differs(f, h, f)
  BY <1>1, Leaves DEF Differs, Shared
<1>3. \A k \in DOMAIN f : ~Nested(f, h, k)
  BY <1>1, Leaves DEF Nested
<1>4. S!DeleteEqual4(S!Dict(S!Nil, f), S!Dict(S!Nil, h)) = S!Dict(S!Nil, f)
  BY <1>2, <1>3, DeleteMaps4
<1> QED BY <1>4 DEF DfltMap, f, h

LEMMA DeleteGateways ==
  ASSUME NEW y, y.type = "map", NEW y2, y # y2
  PROVE  S!DeleteEqual3(S!Dict(S!Nil, One(y)), S!Dict(S!Nil, One(y2))) =
           S!Dict(S!Nil, One(S!DeleteEqual2(y, y2)))
<1> DEFINE f == One(y)
           h == One(y2)
           r == One(S!DeleteEqual2(y, y2))
<1>1. /\ DOMAIN f = {"g"} /\ f["g"] = y /\ DOMAIN h = {"g"} /\ h["g"] = y2
      /\ DOMAIN r = {"g"} /\ r["g"] = S!DeleteEqual2(y, y2) /\ IsMap(r)
  BY OneIs
<1> HIDE DEF f, h, r
<1>2. Differs(f, h, r) /\ Nested(f, h, "g")
  BY <1>1 DEF Differs, Shared, Nested
<1>3. S!DeleteEqual3(S!Dict(S!Nil, f), S!Dict(S!Nil, h)) = S!Dict(S!Nil, r)
  BY <1>1, <1>2, DeleteMaps3
<1> QED BY <1>3 DEF f, h, r

(* The parts of a tree that differ.                                        *)
OtherHalves(d, y, d2, y2) == {k \in Halves : IF k = "Default" THEN d # d2 ELSE y # y2}
OtherParts(t, d, y, q, t2, d2, y2, q2) ==
  {k \in Parts : IF k = "Default" THEN t # t2 ELSE IF k = "BNet" THEN d # d2 \/ y # y2 ELSE q # q2}

LEMMA DeleteBNet ==
  ASSUME NEW d, d.type = "map", NEW y, y.type = "map", NEW d2, NEW y2
  PROVE  S!DeleteEqual4(BNetDict(Halves, d, y), BNetDict(Halves, d2, y2)) =
           BNetDict(OtherHalves(d, y, d2, y2), S!DeleteEqual3(d, d2), S!DeleteEqual2(y, y2))
<1> DEFINE gs == S!Dict(S!Nil, One(y))
           gs2 == S!Dict(S!Nil, One(y2))
           F == OtherHalves(d, y, d2, y2)
           less == S!Dict(S!Nil, One(S!DeleteEqual2(y, y2)))
           f == BNetKids(Halves, d, gs)
           h == BNetKids(Halves, d2, gs2)
           r == BNetKids(F, S!DeleteEqual3(d, d2), less)
<1>1. F \in SUBSET Halves /\ ("Default" \in F <=> d # d2) /\ ("Gateways" \in F <=> y # y2)
  BY DEF OtherHalves, Halves
<1>2. gs = gs2 <=> y = y2
  BY Dicts, OneIs
<1>3. gs.type = "map"
  BY Dicts
<1>4. y # y2 => S!DeleteEqual3(gs, gs2) = less
  BY DeleteGateways
<1> HIDE DEF gs, gs2, less, F
<1>5. /\ DOMAIN f = Halves /\ f["Default"] = d /\ f["Gateways"] = gs
      /\ DOMAIN h = Halves /\ h["Default"] = d2 /\ h["Gateways"] = gs2
      /\ DOMAIN r = F /\ IsMap(r)
      /\ "Default" \in F => r["Default"] = S!DeleteEqual3(d, d2)
      /\ "Gateways" \in F => r["Gateways"] = less
  BY <1>1, BNetKidsOf DEF Halves
<1> HIDE DEF f, h, r
<1>6. Shared(f, h) = Halves \ F
  BY <1>1, <1>2, <1>5 DEF Shared, Halves
<1>7. Differs(f, h, r)
  BY <1>1, <1>5, <1>6 DEF Differs
<1>8. \A k \in DOMAIN r : Nested(f, h, k) /\ r[k] = S!DeleteEqual3(f[k], h[k])
  BY <1>1, <1>3, <1>4, <1>5 DEF Nested, Halves
<1>9. S!DeleteEqual4(S!Dict(S!Nil, f), S!Dict(S!Nil, h)) = S!Dict(S!Nil, r)
  BY <1>7, <1>8, DeleteMaps4
<1> QED BY <1>9 DEF BNetDict, f, h, r, F, gs, gs2, less

LEMMA DeleteTree ==
  ASSUME NEW t, NEW d, d.type = "map", NEW y, y.type = "map", NEW q, q.type = "map",
         NEW t2, NEW d2, NEW y2, NEW q2
  PROVE  S!DeleteEqual(TreeDict(Parts, DfltMap(t), BNetDict(Halves, d, y), q),
                       TreeDict(Parts, DfltMap(t2), BNetDict(Halves, d2, y2), q2)) =
           TreeDict(OtherParts(t, d, y, q, t2, d2, y2, q2), DfltMap(t),
                    BNetDict(OtherHalves(d, y, d2, y2), S!DeleteEqual3(d, d2), S!DeleteEqual2(y, y2)),
                    S!DeleteEqual4(q, q2))
<1> DEFINE a == DfltMap(t)
           a2 == DfltMap(t2)
           b == BNetDict(Halves, d, y)
           b2 == BNetDict(Halves, d2, y2)
           less == BNetDict(OtherHalves(d, y, d2, y2), S!DeleteEqual3(d, d2), S!DeleteEqual2(y, y2))
           E == OtherParts(t, d, y, q, t2, d2, y2, q2)
           f == TreeKids(Parts, a, b, q)
           h == TreeKids(Parts, a2, b2, q2)
           r == TreeKids(E, a, less, S!DeleteEqual4(q, q2))
<1>1. /\ E \in SUBSET Parts /\ ("Default" \in E <=> t # t2)
      /\ "BNet" \in E <=> d # d2 \/ y # y2
      /\ "Relay" \in E <=> q # q2
  BY DEF OtherParts, Parts
<1>2. a = a2 <=> t = t2
  <2>1. [Trigger |-> S!Leaf(t)] = [Trigger |-> S!Leaf(t2)] => S!Leaf(t) = S!Leaf(t2)
    OBVIOUS
  <2> QED BY <2>1, Dicts, Leaves DEF DfltMap
<1>3. b = b2 <=> d = d2 /\ y = y2
  <2>1. b = b2 => BNetKids(Halves, d, S!Dict(S!Nil, One(y))) = BNetKids(Halves, d2, S!Dict(S!Nil, One(y2)))
    BY Dicts DEF BNetDict
  <2>2. b = b2 => d = d2 /\ S!Dict(S!Nil, One(y)) = S!Dict(S!Nil, One(y2))
    BY <2>1, BNetKidsOf DEF Halves
  <2>3. S!Dict(S!Nil, One(y)) = S!Dict(S!Nil, One(y2)) => y = y2
    BY Dicts, OneIs
  <2> QED BY <2>2, <2>3
<1>4. a.type = "map" /\ b.type = "map"
  BY Dicts DEF DfltMap, BNetDict
<1>5. t # t2 => S!DeleteEqual4(a, a2) = a
  BY DeleteDefault
<1>6. S!DeleteEqual4(b, b2) = less
  BY DeleteBNet
<1> HIDE DEF a, a2, b, b2, less, E
<1>7. /\ DOMAIN f = Parts /\ f["Default"] = a /\ f["BNet"] = b /\ f["Relay"] = q
      /\ DOMAIN h = Parts /\ h["Default"] = a2 /\ h["BNet"] = b2 /\ h["Relay"] = q2
      /\ DOMAIN r = E /\ IsMap(r)
      /\ "Default" \in E => r["Default"] = a
      /\ "BNet" \in E => r["BNet"] = less
      /\ "Relay" \in E => r["Relay"] = S!DeleteEqual4(q, q2)
  BY <1>1, TreeKidsOf DEF Parts
<1> HIDE DEF f, h, r
<1>8. Shared(f, h) = Parts \ E
  BY <1>1, <1>2, <1>3, <1>7 DEF Shared, Parts
<1>9. Differs(f, h, r)
  BY <1>1, <1>7, <1>8 DEF Differs
<1>10. \A k \in DOMAIN r : Nested(f, h, k) /\ r[k] = S!DeleteEqual4(f[k], h[k])
  BY <1>1, <1>4, <1>5, <1>6, <1>7 DEF Nested, Parts
<1>11. S!DeleteEqual(S!Dict(S!Nil, f), S!Dict(S!Nil, h)) = S!Dict(S!Nil, r)
  BY <1>9, <1>10, DeleteMaps
<1> QED BY <1>11 DEF TreeDict, f, h, r, E, a, a2, b, b2, less

(* A tree that sets neither triggers nor the users of all gateways.        *)
Bare(a, b, u, r) == Chained(0, 0, a, <<>>, 0, b, u, r)
MapOfRelays(r) == RelayMap(S!Map5(r))

(* m has what is to be saved of such a tree: some of its settings, each in *)
(* the section it belongs to.                                              *)
Holds(m, E, F, D, G, a, b, u, q) ==
  /\ m = TreeDict(E, DfltMap(0), BNetDict(F, SectionMap(D, 0, a, <<>>), SectionMap(G, 0, b, u)), q)
  /\ E \in SUBSET Parts /\ F \in SUBSET Halves /\ D \in SUBSET Fields /\ G \in SUBSET Fields
  /\ "Default" \notin E /\ "Trigger" \notin D /\ "AccessUser" \notin D /\ "Trigger" \notin G
Talks(E, F, D) == "BNet" \in E /\ "Default" \in F /\ "AccessTalk" \in D
Gates(E, F, G, k) == "BNet" \in E /\ "Gateways" \in F /\ k \in G

(* What is saved of the gateway: its users, and AccessTalk.                *)
NewUsers(u, u2) == u # <<>> /\ u # u2
NewTalk(a, b, a2, b2) == b # a /\ (b2 = a2 \/ b # b2)

LEMMA NoUsers ==
  /\ IsMap(<<>>)
  /\ Minus(<<>>, <<>>) = <<>>
  /\ \A u : IsMap(u) => Minus(u, <<>>) = u /\ Filled(u, <<>>) = u /\ Overlaid(u, <<>>) = u
BY DEF IsMap, Minus, Shared, Restrict, Filled, Overlaid

LEMMA BareMap ==
  ASSUME NEW a, NEW b, NEW u, IsMap(u), NEW r
  PROVE  TreeMap(Bare(a, b, u, r)) =
           TreeDict(Parts, DfltMap(0),
                    BNetDict(Halves, SectionMap({"AccessTalk", "AccessUser"}, 0, a, <<>>),
                             SectionMap(GateFields(0, a, <<>>, 0, b, u), 0, b, u)), MapOfRelays(r))
<1> DEFINE none == <<>>
<1>1. IsMap(none) /\ Minus(u, none) = u
  BY NoUsers
<1>2. DfltFields(0, 0) = {"AccessTalk", "AccessUser"}
  BY DEF DfltFields
<1> HIDE DEF none
<1>3. TreeMap(Chained(0, 0, a, none, 0, b, u, r)) =
        TreeDict(Parts, DfltMap(0),
                 BNetDict(Halves, SectionMap(DfltFields(0, 0), 0, a, none),
                          SectionMap(GateFields(0, a, none, 0, b, u), 0, b, Minus(u, none))), MapOfRelays(r))
  BY <1>1, TreeMapIs DEF MapOfRelays
<1> QED BY <1>1, <1>2, <1>3 DEF Bare, none

LEMMA BareDefaults ==
  ASSUME NEW a, NEW b, NEW u, IsMap(u), NEW r
  PROVE  TreeMergeDefaults(Bare(a, b, u, r)) = Bare(a, Or(b, a), u, r)
<1> DEFINE none == <<>>
<1>1. IsMap(none) /\ Filled(u, none) = u
  BY NoUsers
<1>2. Or(0, 0) = 0 /\ Or(0, Or(0, 0)) = 0
  BY DEF Or
<1> HIDE DEF none
<1>3. TreeMergeDefaults(Chained(0, 0, a, none, 0, b, u, r)) =
        Chained(0, Or(0, 0), a, none, Or(0, Or(0, 0)), Or(b, a), Filled(u, none), r)
  BY <1>1, MergeDefaultsIs
<1> QED BY <1>1, <1>2, <1>3 DEF Bare, none

LEMMA RelayMapIsMap ==
  ASSUME NEW r, S!Map5(r).type = "map"
  PROVE  MapOfRelays(r).type = "map"
BY DEF MapOfRelays, RelayMap, Put

LEMMA SavedIs ==
  ASSUME NEW a, NEW b, NEW u, IsMap(u), NEW r, MapOfRelays(r).type = "map",
         NEW a2, NEW b2, NEW u2, IsMap(u2), NEW r2
  PROVE  \E E, F, D, G :
           /\ Holds(TreeSave(Bare(a2, b2, u2, r2), Bare(a, b, u, r)), E, F, D, G, a, b, Minus(u, u2),
                    S!DeleteEqual4(MapOfRelays(r), MapOfRelays(CopiedRelays(r2))))
           /\ Talks(E, F, D) <=> a # a2
           /\ Gates(E, F, G, "AccessTalk") <=> NewTalk(a, b, a2, Or(b2, a2))
           /\ Gates(E, F, G, "AccessUser") <=> NewUsers(u, u2)
           /\ "Relay" \in E <=> MapOfRelays(r) # MapOfRelays(CopiedRelays(r2))
<1> DEFINE none == <<>>
           c2 == Or(b2, a2)
           A == {"AccessTalk", "AccessUser"}
           H == GateFields(0, a, none, 0, b, u)
           H2 == GateFields(0, a2, none, 0, c2, u2)
           d == SectionMap(A, 0, a, none)
           d2 == SectionMap(A, 0, a2, none)
           y == SectionMap(H, 0, b, u)
           y2 == SectionMap(H2, 0, c2, u2)
           q == MapOfRelays(r)
           q2 == MapOfRelays(CopiedRelays(r2))
           E == OtherParts(0, d, y, q, 0, d2, y2, q2)
           F == OtherHalves(d, y, d2, y2)
           D == IF a # a2 THEN {"AccessTalk"} ELSE {}
           G == H \ (H2 \cap Alike(0, b, u, 0, c2, u2))
<1>1. TreeMap(Bare(a, b, u, r)) = TreeDict(Parts, DfltMap(0), BNetDict(Halves, d, y), q)
  BY BareMap
<1>2. TreeMap(TreeMergeDefaults(Copy(Bare(a2, b2, u2, r2)))) =
        TreeDict(Parts, DfltMap(0), BNetDict(Halves, d2, y2), q2)
  <2>1. Copy(Bare(a2, b2, u2, r2)) = Bare(a2, b2, u2, CopiedRelays(r2))
    BY NoUsers, CopyIs DEF Bare
  <2>2. TreeMergeDefaults(Bare(a2, b2, u2, CopiedRelays(r2))) = Bare(a2, c2, u2, CopiedRelays(r2))
    BY BareDefaults
  <2> QED BY <2>1, <2>2, BareMap
<1>3. IsMap(none) /\ Minus(none, none) = none /\ Minus(u, none) = u
  BY NoUsers
<1>4. A \in SUBSET Fields /\ H \in SUBSET Fields /\ H2 \in SUBSET Fields /\ D \in SUBSET Fields /\ G \in SUBSET Fields
  BY DEF GateFields, Fields
<1>5. /\ "Trigger" \notin H
      /\ "AccessTalk" \in H <=> b # a
      /\ "AccessUser" \in H <=> u # none
      /\ "AccessTalk" \in H2 <=> c2 # a2
      /\ "AccessUser" \in H2 <=> u2 # none
      /\ "Trigger" \notin D /\ "AccessUser" \notin D /\ ("AccessTalk" \in D <=> a # a2)
  BY DEF GateFields, Alike, Fields
<1>6. /\ "Trigger" \notin G
      /\ "AccessTalk" \in G <=> NewTalk(a, b, a2, c2)
      /\ "AccessUser" \in G <=> NewUsers(u, u2)
  BY <1>5 DEF Alike, Fields, NewTalk, NewUsers
<1>7. S!DeleteEqual3(d, d2) = SectionMap(D, 0, a, none)
  <2>1. A \ (A \cap Alike(0, a, none, 0, a2, none)) = D
    BY DEF Alike, Fields
  <2> HIDE DEF none, A, D
  <2>2. S!DeleteEqual3(d, d2) = SectionLess(A, 0, a, none, A, 0, a2, none)
    BY <1>3, <1>4, DeleteSection
  <2>3. "AccessUser" \in A
    BY DEF A
  <2> QED BY <1>3, <2>1, <2>2, <2>3 DEF SectionLess
<1>8. S!DeleteEqual2(y, y2) = SectionMap(G, 0, b, Minus(u, u2))
  <2> HIDE DEF none, H, H2
  <2>1. S!DeleteEqual2(y, y2) = SectionLess(H, 0, b, u, H2, 0, c2, u2)
    BY <1>4, DeleteSection
  <2>2. "AccessUser" \notin H2 => Minus(u, u2) = u
    BY <1>3, <1>5
  <2> QED BY <2>1, <2>2 DEF SectionLess
<1>9. d.type = "map" /\ y.type = "map"
  BY Dicts DEF SectionMap
<1>10. /\ TreeSave(Bare(a2, b2, u2, r2), Bare(a, b, u, r)) =
            TreeDict(E, DfltMap(0), BNetDict(F, SectionMap(D, 0, a, none), SectionMap(G, 0, b, Minus(u, u2))),
                     S!DeleteEqual4(q, q2))
  <2> HIDE DEF d, y, d2, y2, q, q2, G, D, none
  <2> QED BY <1>1, <1>2, <1>7, <1>8, <1>9, DeleteTree DEF TreeSave, q
<1>11. d = d2 => D = {}
  <2>1. d = d2 => SectionKids(A, 0, a, Users(S!Nil, none)) = SectionKids(A, 0, a2, Users(S!Nil, none))
    BY Dicts DEF SectionMap
  <2>2. d = d2 => S!Leaf(a) = S!Leaf(a2)
    BY <1>4, <2>1, SectionKidsOf
  <2> QED BY <2>2, Leaves
<1>12. y = y2 => G = {}
  <2> SUFFICES ASSUME y = y2 PROVE G = {}
    OBVIOUS
  <2> HIDE DEF none, H, H2
  <2>1. SectionKids(H, 0, b, Users(S!Nil, u)) = SectionKids(H2, 0, c2, Users(S!Nil, u2))
    BY Dicts DEF SectionMap
  <2>2. H = H2
    BY <1>4, <2>1, SectionKidsOf
  <2>3. "AccessTalk" \in H => S!Leaf(b) = S!Leaf(c2)
    BY <1>4, <2>1, <2>2, SectionKidsOf
  <2>4. "AccessUser" \in H => Users(S!Nil, u) = Users(S!Nil, u2)
    BY <1>4, <2>1, <2>2, SectionKidsOf
  <2>5. "AccessUser" \in H => u = u2
    BY <2>4, Dicts, EntriesEqual DEF Users
  <2>6. "AccessTalk" \in H => b = c2
    BY <2>3, Leaves
  <2> QED BY <1>4, <1>5, <2>2, <2>5, <2>6 DEF Alike, Fields
<1>13. /\ E \in SUBSET Parts /\ F \in SUBSET Halves /\ "Default" \notin E
       /\ "BNet" \in E <=> d # d2 \/ y # y2
       /\ "Default" \in F <=> d # d2
       /\ "Gateways" \in F <=> y # y2
       /\ "Relay" \in E <=> q # q2
  BY DEF OtherParts, OtherHalves, Parts, Halves
<1> HIDE DEF E, F, D, G, d, d2, y, y2, q, q2, c2
<1>14. /\ Talks(E, F, D) <=> a # a2
       /\ Gates(E, F, G, "AccessTalk") <=> NewTalk(a, b, a2, c2)
       /\ Gates(E, F, G, "AccessUser") <=> NewUsers(u, u2)
  BY <1>5, <1>6, <1>11, <1>12, <1>13 DEF Talks, Gates
<1>15. Holds(TreeSave(Bare(a2, b2, u2, r2), Bare(a, b, u, r)), E, F, D, G, a, b, Minus(u, u2), S!DeleteEqual4(q, q2))
  BY <1>4, <1>5, <1>6, <1>10, <1>13 DEF Holds
<1> QED BY <1>13, <1>14, <1>15 DEF q, q2, c2

(* What the next run makes of the relays, and of what was saved.           *)
Reloaded(r2, r) ==
  LET q == MapOfRelays(r)
      q2 == MapOfRelays(CopiedRelays(r2))
  IN IF q = q2 THEN CopiedRelays(r2) ELSE S!merge5(CopiedRelays(r2), S!DeleteEqual4(q, q2), S!Overwrite)

LEMMA LoadedIs ==
  ASSUME NEW a, NEW b, NEW u, IsMap(u), NEW r, MapOfRelays(r).type = "map",
         NEW a2, NEW b2, NEW u2, IsMap(u2), NEW r2
  PROVE  TreeLoad(Bare(a2, b2, u2, r2), TreeSave(Bare(a2, b2, u2, r2), Bare(a, b, u, r))) =
           Bare(a, Or(IF NewTalk(a, b, a2, Or(b2, a2)) THEN b ELSE b2, a),
                IF NewUsers(u, u2) THEN Overlaid(u2, Minus(u, u2)) ELSE u2, Reloaded(r2, r))
<1> DEFINE none == <<>>
           less == Minus(u, u2)
           m == TreeSave(Bare(a2, b2, u2, r2), Bare(a, b, u, r))
           q == MapOfRelays(r)
           q2 == MapOfRelays(CopiedRelays(r2))
           x == S!DeleteEqual4(q, q2)
           gs == One(Section(0, b2, u2))
<1>1. PICK E, F, D, G :
        /\ Holds(m, E, F, D, G, a, b, less, x)
        /\ Talks(E, F, D) <=> a # a2
        /\ Gates(E, F, G, "AccessTalk") <=> NewTalk(a, b, a2, Or(b2, a2))
        /\ Gates(E, F, G, "AccessUser") <=> NewUsers(u, u2)
        /\ "Relay" \in E <=> q # q2
  BY SavedIs
<1>2. IsMap(less) /\ IsMap(none)
  BY MinusOf, NoUsers
<1>3. /\ IsMap(gs) /\ DOMAIN gs \in SUBSET {"g"} /\ "g" \in DOMAIN gs
      /\ Old(NoSection, gs, "g") = Section(0, b2, u2)
  BY OneIs DEF Old
<1>4. Copy(Bare(a2, b2, u2, r2)) = Tree(0, Section(0, a2, none), gs, CopiedRelays(r2))
  BY NoUsers, CopyIs DEF Bare, Chained
<1> DEFINE inB == "BNet" \in E /\ "Default" \in F
           inG == "BNet" \in E /\ "Gateways" \in F
<1>5. inB = ("BNet" \in E /\ "Default" \in F) /\ inG = ("BNet" \in E /\ "Gateways" \in F)
  OBVIOUS
<1>6. Overlaid(none, none) = none
  BY <1>2, OverlaidNone
<1>7. /\ m = TreeDict(E, DfltMap(0), BNetDict(F, SectionMap(D, 0, a, none), SectionMap(G, 0, b, less)), x)
      /\ E \in SUBSET Parts /\ F \in SUBSET Halves /\ D \in SUBSET Fields /\ G \in SUBSET Fields
      /\ "Default" \notin E /\ "Trigger" \notin D /\ "AccessUser" \notin D /\ "Trigger" \notin G
  BY <1>1 DEF Holds
<1>8. /\ inB /\ "AccessTalk" \in D <=> a # a2
      /\ inG /\ "AccessTalk" \in G <=> NewTalk(a, b, a2, Or(b2, a2))
      /\ inG /\ "AccessUser" \in G <=> NewUsers(u, u2)
  BY <1>1 DEF Talks, Gates
<1> DEFINE talk == IF inG /\ "AccessTalk" \in G THEN b ELSE b2
           users == IF inG /\ "AccessUser" \in G THEN Overlaid(u2, less) ELSE u2
           rel == IF "Relay" \in E THEN S!merge5(CopiedRelays(r2), x, S!Overwrite) ELSE CopiedRelays(r2)
<1> HIDE DEF none, less, m, gs, inB, inG, x
<1>9. S!merge(Tree(0, Section(0, a2, none), gs, CopiedRelays(r2)), m, S!Overwrite) =
        Chained(IF "Default" \in E THEN 0 ELSE 0,
                IF inB /\ "Trigger" \in D THEN 0 ELSE 0,
                IF inB /\ "AccessTalk" \in D THEN a ELSE a2,
                IF inB /\ "AccessUser" \in D THEN Overlaid(none, none) ELSE none,
                IF inG /\ "Trigger" \in G THEN 0 ELSE 0,
                talk, users, rel)
  BY <1>2, <1>3, <1>5, <1>7, TreeOverlaid
<1>10. /\ (IF inB /\ "AccessTalk" \in D THEN a ELSE a2) = a
       /\ (IF inB /\ "AccessUser" \in D THEN Overlaid(none, none) ELSE none) = none
       /\ talk = IF NewTalk(a, b, a2, Or(b2, a2)) THEN b ELSE b2
       /\ users = IF NewUsers(u, u2) THEN Overlaid(u2, less) ELSE u2
  BY <1>6, <1>8
<1>11. rel = Reloaded(r2, r)
  BY <1>1 DEF Reloaded, x
<1>12. IsMap(users)
  BY DEF Overlaid, IsMap
<1> HIDE DEF talk, users, rel
<1>13. S!merge(Tree(0, Section(0, a2, none), gs, CopiedRelays(r2)), m, S!Overwrite) = Bare(a, talk, users, rel)
  BY <1>9, <1>10 DEF Bare, none
<1>14. TreeMergeDefaults(Bare(a, talk, users, rel)) = Bare(a, Or(talk, a), users, rel)
  BY <1>12, BareDefaults
<1>15. TreeLoad(Bare(a2, b2, u2, r2), m) = Bare(a, Or(talk, a), users, rel)
  BY <1>4, <1>13, <1>14 DEF TreeLoad
<1> QED BY <1>10, <1>11, <1>15 DEF m, less

-----------------------------------------------------------------------------
(* Find and Assign *)

LEMMA WayIs ==
  ASSUME NEW t, NEW p, NEW w, w = [i \in 0..Len(p) |-> IF i = 0 THEN t ELSE S!Kid(w[i - 1], p[i])]
  PROVE  S!Way(t, p) = [i \in 0..Len(p) |-> IF i = 0 THEN t ELSE S!Kid(S!Way(t, p)[i - 1], p[i])]
<1> DEFINE at == CHOOSE f : f = [i \in 0..Len(p) |-> IF i = 0 THEN t ELSE S!Kid(f[i - 1], p[i])]
<1>1. S!Way(t, p) = at
  BY DEF S!Way
<1>2. at = [i \in 0..Len(p) |-> IF i = 0 THEN t ELSE S!Kid(at[i - 1], p[i])]
  OBVIOUS
<1> QED BY <1>1, <1>2

LEMMA Ways1 ==
  ASSUME NEW t, NEW a
  PROVE  /\ S!Way(t, <<a>>)[0] = t
         /\ S!Find(t, <<a>>) = S!Kid(t, a)
<1> DEFINE p == <<a>>
           w == [i \in 0..1 |-> IF i = 0 THEN t ELSE S!Kid(t, a)]
<1>1. Len(p) = 1 /\ p[1] = a
  OBVIOUS
<1> HIDE DEF p
<1>2. w = [i \in 0..Len(p) |-> IF i = 0 THEN t ELSE S!Kid(w[i - 1], p[i])]
  BY <1>1
<1> HIDE DEF w
<1>3. S!Way(t, p) = [i \in 0..Len(p) |-> IF i = 0 THEN t ELSE S!Kid(S!Way(t, p)[i - 1], p[i])]
  BY <1>2, WayIs
<1>4. S!Way(t, p)[0] = t
  BY <1>1, <1>3
<1>5. S!Way(t, p)[1] = S!Kid(t, a)
  BY <1>1, <1>3, <1>4
<1> QED BY <1>1, <1>4, <1>5 DEF S!Find, p

LEMMA Find1 ==
  ASSUME NEW t, NEW a
  PROVE  S!Find(t, <<a>>) = S!Kid(t, a)
BY Ways1

LEMMA Ways2 ==
  ASSUME NEW t, NEW a, NEW b
  PROVE  /\ S!Way(t, <<a, b>>)[0] = t
         /\ S!Way(t, <<a, b>>)[1] = S!Kid(t, a)
         /\ S!Find(t, <<a, b>>) = S!Kid(S!Kid(t, a), b)
<1> DEFINE p == <<a, b>>
           w == [i \in 0..2 |-> IF i = 0 THEN t
                      ELSE IF i = 1 THEN S!Kid(t, a)
                      ELSE S!Kid(S!Kid(t, a), b)]
<1>1. Len(p) = 2 /\ p[1] = a /\ p[2] = b
  OBVIOUS
<1> HIDE DEF p
<1>2. w = [i \in 0..Len(p) |-> IF i = 0 THEN t ELSE S!Kid(w[i - 1], p[i])]
  BY <1>1
<1> HIDE DEF w
<1>3. S!Way(t, p) = [i \in 0..Len(p) |-> IF i = 0 THEN t ELSE S!Kid(S!Way(t, p)[i - 1], p[i])]
  BY <1>2, WayIs
<1>4. S!Way(t, p)[0] = t
  BY <1>1, <1>3
<1>5. S!Way(t, p)[1] = S!Kid(t, a)
  BY <1>1, <1>3, <1>4
<1>6. S!Way(t, p)[2] = S!Kid(S!Kid(t, a), b)
  BY <1>1, <1>3, <1>5
<1> QED BY <1>1, <1>4, <1>5, <1>6 DEF S!Find, p

LEMMA Find2 ==
  ASSUME NEW t, NEW a, NEW b
  PROVE  S!Find(t, <<a, b>>) = S!Kid(S!Kid(t, a), b)
BY Ways2

LEMMA Ways3 ==
  ASSUME NEW t, NEW a, NEW b, NEW c
  PROVE  /\ S!Way(t, <<a, b, c>>)[0] = t
         /\ S!Way(t, <<a, b, c>>)[1] = S!Kid(t, a)
         /\ S!Way(t, <<a, b, c>>)[2] = S!Kid(S!Kid(t, a), b)
         /\ S!Find(t, <<a, b, c>>) = S!Kid(S!Kid(S!Kid(t, a), b), c)
<1> DEFINE p == <<a, b, c>>
           w == [i \in 0..3 |-> IF i = 0 THEN t
                      ELSE IF i = 1 THEN S!Kid(t, a)
                      ELSE IF i = 2 THEN S!Kid(S!Kid(t, a), b)
                      ELSE S!Kid(S!Kid(S!Kid(t, a), b), c)]
<1>1. Len(p) = 3 /\ p[1] = a /\ p[2] = b /\ p[3] = c
  OBVIOUS
<1> HIDE DEF p
<1>2. w = [i \in 0..Len(p) |-> IF i = 0 THEN t ELSE S!Kid(w[i - 1], p[i])]
  BY <1>1
<1> HIDE DEF w
<1>3. S!Way(t, p) = [i \in 0..Len(p) |-> IF i = 0 THEN t ELSE S!Kid(S!Way(t, p)[i - 1], p[i])]
  BY <1>2, WayIs
<1>4. S!Way(t, p)[0] = t
  BY <1>1, <1>3
<1>5. S!Way(t, p)[1] = S!Kid(t, a)
  BY <1>1, <1>3, <1>4
<1>6. S!Way(t, p)[2] = S!Kid(S!Kid(t, a), b)
  BY <1>1, <1>3, <1>5
<1>7. S!Way(t, p)[3] = S!Kid(S!Kid(S!Kid(t, a), b), c)
  BY <1>1, <1>3, <1>6
<1> QED BY <1>1, <1>4, <1>5, <1>6, <1>7 DEF S!Find, p

LEMMA Find3 ==
  ASSUME NEW t, NEW a, NEW b, NEW c
  PROVE  S!Find(t, <<a, b, c>>) = S!Kid(S!Kid(S!Kid(t, a), b), c)
BY Ways3

LEMMA Ways4 ==
  ASSUME NEW t, NEW a, NEW b, NEW c, NEW d
  PROVE  /\ S!Way(t, <<a, b, c, d>>)[0] = t
         /\ S!Way(t, <<a, b, c, d>>)[1] = S!Kid(t, a)
         /\ S!Way(t, <<a, b, c, d>>)[2] = S!Kid(S!Kid(t, a), b)
         /\ S!Way(t, <<a, b, c, d>>)[3] = S!Kid(S!Kid(S!Kid(t, a), b), c)
         /\ S!Find(t, <<a, b, c, d>>) = S!Kid(S!Kid(S!Kid(S!Kid(t, a), b), c), d)
<1> DEFINE p == <<a, b, c, d>>
           w == [i \in 0..4 |-> IF i = 0 THEN t
                      ELSE IF i = 1 THEN S!Kid(t, a)
                      ELSE IF i = 2 THEN S!Kid(S!Kid(t, a), b)
                      ELSE IF i = 3 THEN S!Kid(S!Kid(S!Kid(t, a), b), c)
                      ELSE S!Kid(S!Kid(S!Kid(S!Kid(t, a), b), c), d)]
<1>1. Len(p) = 4 /\ p[1] = a /\ p[2] = b /\ p[3] = c /\ p[4] = d
  OBVIOUS
<1> HIDE DEF p
<1>2. w = [i \in 0..Len(p) |-> IF i = 0 THEN t ELSE S!Kid(w[i - 1], p[i])]
  BY <1>1
<1> HIDE DEF w
<1>3. S!Way(t, p) = [i \in 0..Len(p) |-> IF i = 0 THEN t ELSE S!Kid(S!Way(t, p)[i - 1], p[i])]
  BY <1>2, WayIs
<1>4. S!Way(t, p)[0] = t
  BY <1>1, <1>3
<1>5. S!Way(t, p)[1] = S!Kid(t, a)
  BY <1>1, <1>3, <1>4
<1>6. S!Way(t, p)[2] = S!Kid(S!Kid(t, a), b)
  BY <1>1, <1>3, <1>5
<1>7. S!Way(t, p)[3] = S!Kid(S!Kid(S!Kid(t, a), b), c)
  BY <1>1, <1>3, <1>6
<1>8. S!Way(t, p)[4] = S!Kid(S!Kid(S!Kid(S!Kid(t, a), b), c), d)
  BY <1>1, <1>3, <1>7
<1> QED BY <1>1, <1>4, <1>5, <1>6, <1>7, <1>8 DEF S!Find, p

LEMMA Find4 ==
  ASSUME NEW t, NEW a, NEW b, NEW c, NEW d
  PROVE  S!Find(t, <<a, b, c, d>>) = S!Kid(S!Kid(S!Kid(S!Kid(t, a), b), c), d)
BY Ways4

LEMMA Ways5 ==
  ASSUME NEW t, NEW a, NEW b, NEW c, NEW d, NEW e
  PROVE  /\ S!Way(t, <<a, b, c, d, e>>)[0] = t
         /\ S!Way(t, <<a, b, c, d, e>>)[1] = S!Kid(t, a)
         /\ S!Way(t, <<a, b, c, d, e>>)[2] = S!Kid(S!Kid(t, a), b)
         /\ S!Way(t, <<a, b, c, d, e>>)[3] = S!Kid(S!Kid(S!Kid(t, a), b), c)
         /\ S!Way(t, <<a, b, c, d, e>>)[4] = S!Kid(S!Kid(S!Kid(S!Kid(t, a), b), c), d)
         /\ S!Find(t, <<a, b, c, d, e>>) = S!Kid(S!Kid(S!Kid(S!Kid(S!Kid(t, a), b), c), d), e)
<1> DEFINE p == <<a, b, c, d, e>>
           w == [i \in 0..5 |-> IF i = 0 THEN t
                      ELSE IF i = 1 THEN S!Kid(t, a)
                      ELSE IF i = 2 THEN S!Kid(S!Kid(t, a), b)
                      ELSE IF i = 3 THEN S!Kid(S!Kid(S!Kid(t, a), b), c)
                      ELSE IF i = 4 THEN S!Kid(S!Kid(S!Kid(S!Kid(t, a), b), c), d)
                      ELSE S!Kid(S!Kid(S!Kid(S!Kid(S!Kid(t, a), b), c), d), e)]
<1>1. Len(p) = 5 /\ p[1] = a /\ p[2] = b /\ p[3] = c /\ p[4] = d /\ p[5] = e
  OBVIOUS
<1> HIDE DEF p
<1>2. w = [i \in 0..Len(p) |-> IF i = 0 THEN t ELSE S!Kid(w[i - 1], p[i])]
  BY <1>1
<1> HIDE DEF w
<1>3. S!Way(t, p) = [i \in 0..Len(p) |-> IF i = 0 THEN t ELSE S!Kid(S!Way(t, p)[i - 1], p[i])]
  BY <1>2, WayIs
<1>4. S!Way(t, p)[0] = t
  BY <1>1, <1>3
<1>5. S!Way(t, p)[1] = S!Kid(t, a)
  BY <1>1, <1>3, <1>4
<1>6. S!Way(t, p)[2] = S!Kid(S!Kid(t, a), b)
  BY <1>1, <1>3, <1>5
<1>7. S!Way(t, p)[3] = S!Kid(S!Kid(S!Kid(t, a), b), c)
  BY <1>1, <1>3, <1>6
<1>8. S!Way(t, p)[4] = S!Kid(S!Kid(S!Kid(S!Kid(t, a), b), c), d)
  BY <1>1, <1>3, <1>7
<1>9. S!Way(t, p)[5] = S!Kid(S!Kid(S!Kid(S!Kid(S!Kid(t, a), b), c), d), e)
  BY <1>1, <1>3, <1>8
<1> QED BY <1>1, <1>4, <1>5, <1>6, <1>7, <1>8, <1>9 DEF S!Find, p

LEMMA Find5 ==
  ASSUME NEW t, NEW a, NEW b, NEW c, NEW d, NEW e
  PROVE  S!Find(t, <<a, b, c, d, e>>) = S!Kid(S!Kid(S!Kid(S!Kid(S!Kid(t, a), b), c), d), e)
BY Ways5

LEMMA Assign2 ==
  ASSUME NEW t, NEW a, NEW b, NEW v
  PROVE  S!Assign(t, <<a, b>>, v) =
           S!With(t, a, S!With(S!Kid(t, a), b, v))
<1> DEFINE p == <<a, b>>
           Onto(i, x) == S!With(S!Way(t, p)[Len(p) - i], p[Len(p) - i + 1], x)
           new == CHOOSE f : f = [i \in 0..Len(p) |-> IF i = 0 THEN v ELSE Onto(i, f[i - 1])]
           v1 == S!With(S!Kid(t, a), b, v)
           v2 == S!With(t, a, v1)
           w == [i \in 0..2 |-> IF i = 0 THEN v ELSE IF i = 1 THEN v1 ELSE v2]
<1>1. Len(p) = 2 /\ p[1] = a /\ p[2] = b
  OBVIOUS
<1>2. S!Assign(t, p, v) = new[Len(p)]
  BY DEF S!Assign
<1>3. S!Way(t, p)[0] = t /\ S!Way(t, p)[1] = S!Kid(t, a)
  BY Ways2
<1> HIDE DEF p, new
<1>4. /\ v1 = Onto(1, v)
      /\ v2 = Onto(2, v1)
  BY <1>1, <1>3
<1> HIDE DEF Onto, v1, v2
<1>5. w = [i \in 0..Len(p) |-> IF i = 0 THEN v ELSE Onto(i, w[i - 1])]
  BY <1>1, <1>4
<1> HIDE DEF w
<1>6. new = [i \in 0..Len(p) |-> IF i = 0 THEN v ELSE Onto(i, new[i - 1])]
  BY <1>5 DEF new
<1>7. new[2] = v2
  BY <1>1, <1>4, <1>6
<1> QED BY <1>1, <1>2, <1>7 DEF p, v1, v2

LEMMA Assign3 ==
  ASSUME NEW t, NEW a, NEW b, NEW c, NEW v
  PROVE  S!Assign(t, <<a, b, c>>, v) =
           S!With(t, a, S!With(S!Kid(t, a), b, S!With(S!Kid(S!Kid(t, a), b), c, v)))
<1> DEFINE p == <<a, b, c>>
           Onto(i, x) == S!With(S!Way(t, p)[Len(p) - i], p[Len(p) - i + 1], x)
           new == CHOOSE f : f = [i \in 0..Len(p) |-> IF i = 0 THEN v ELSE Onto(i, f[i - 1])]
           v1 == S!With(S!Kid(S!Kid(t, a), b), c, v)
           v2 == S!With(S!Kid(t, a), b, v1)
           v3 == S!With(t, a, v2)
           w == [i \in 0..3 |-> IF i = 0 THEN v ELSE IF i = 1 THEN v1 ELSE IF i = 2 THEN v2 ELSE v3]
<1>1. Len(p) = 3 /\ p[1] = a /\ p[2] = b /\ p[3] = c
  OBVIOUS
<1>2. S!Assign(t, p, v) = new[Len(p)]
  BY DEF S!Assign
<1>3. S!Way(t, p)[0] = t /\ S!Way(t, p)[1] = S!Kid(t, a) /\ S!Way(t, p)[2] = S!Kid(S!Kid(t, a), b)
  BY Ways3
<1> HIDE DEF p, new
<1>4. /\ v1 = Onto(1, v)
      /\ v2 = Onto(2, v1)
      /\ v3 = Onto(3, v2)
  BY <1>1, <1>3
<1> HIDE DEF Onto, v1, v2, v3
<1>5. w = [i \in 0..Len(p) |-> IF i = 0 THEN v ELSE Onto(i, w[i - 1])]
  BY <1>1, <1>4
<1> HIDE DEF w
<1>6. new = [i \in 0..Len(p) |-> IF i = 0 THEN v ELSE Onto(i, new[i - 1])]
  BY <1>5 DEF new
<1>7. new[3] = v3
  BY <1>1, <1>4, <1>6
<1> QED BY <1>1, <1>2, <1>7 DEF p, v1, v2, v3

LEMMA Assign4 ==
  ASSUME NEW t, NEW a, NEW b, NEW c, NEW d, NEW v
  PROVE  S!Assign(t, <<a, b, c, d>>, v) =
           S!With(t, a,
           S!With(S!Kid(t, a), b,
           S!With(S!Kid(S!Kid(t, a), b), c,
           S!With(S!Kid(S!Kid(S!Kid(t, a), b), c), d, v))))
<1> DEFINE p == <<a, b, c, d>>
           Onto(i, x) == S!With(S!Way(t, p)[Len(p) - i], p[Len(p) - i + 1], x)
           new == CHOOSE f : f = [i \in 0..Len(p) |-> IF i = 0 THEN v ELSE Onto(i, f[i - 1])]
           v1 == S!With(S!Kid(S!Kid(S!Kid(t, a), b), c), d, v)
           v2 == S!With(S!Kid(S!Kid(t, a), b), c, v1)
           v3 == S!With(S!Kid(t, a), b, v2)
           v4 == S!With(t, a, v3)
           w == [i \in 0..4 |-> IF i = 0 THEN v ELSE IF i = 1 THEN v1 ELSE IF i = 2 THEN v2 ELSE IF i = 3 THEN v3 ELSE v4]
<1>1. Len(p) = 4 /\ p[1] = a /\ p[2] = b /\ p[3] = c /\ p[4] = d
  OBVIOUS
<1>2. S!Assign(t, p, v) = new[Len(p)]
  BY DEF S!Assign
<1>3. S!Way(t, p)[0] = t /\ S!Way(t, p)[1] = S!Kid(t, a) /\ S!Way(t, p)[2] = S!Kid(S!Kid(t, a), b) /\ S!Way(t, p)[3] = S!Kid(S!Kid(S!Kid(t, a), b), c)
  BY Ways4
<1> HIDE DEF p, new
<1>4. /\ v1 = Onto(1, v)
      /\ v2 = Onto(2, v1)
      /\ v3 = Onto(3, v2)
      /\ v4 = Onto(4, v3)
  BY <1>1, <1>3
<1> HIDE DEF Onto, v1, v2, v3, v4
<1>5. w = [i \in 0..Len(p) |-> IF i = 0 THEN v ELSE Onto(i, w[i - 1])]
  BY <1>1, <1>4
<1> HIDE DEF w
<1>6. new = [i \in 0..Len(p) |-> IF i = 0 THEN v ELSE Onto(i, new[i - 1])]
  BY <1>5 DEF new
<1>7. new[4] = v4
  BY <1>1, <1>4, <1>6
<1> QED BY <1>1, <1>2, <1>7 DEF p, v1, v2, v3, v4

LEMMA Assign5 ==
  ASSUME NEW t, NEW a, NEW b, NEW c, NEW d, NEW e, NEW v
  PROVE  S!Assign(t, <<a, b, c, d, e>>, v) =
           S!With(t, a,
           S!With(S!Kid(t, a), b,
           S!With(S!Kid(S!Kid(t, a), b), c,
           S!With(S!Kid(S!Kid(S!Kid(t, a), b), c), d,
           S!With(S!Kid(S!Kid(S!Kid(S!Kid(t, a), b), c), d), e, v)))))
<1> DEFINE p == <<a, b, c, d, e>>
           Onto(i, x) == S!With(S!Way(t, p)[Len(p) - i], p[Len(p) - i + 1], x)
           new == CHOOSE f : f = [i \in 0..Len(p) |-> IF i = 0 THEN v ELSE Onto(i, f[i - 1])]
           v1 == S!With(S!Kid(S!Kid(S!Kid(S!Kid(t, a), b), c), d), e, v)
           v2 == S!With(S!Kid(S!Kid(S!Kid(t, a), b), c), d, v1)
           v3 == S!With(S!Kid(S!Kid(t, a), b), c, v2)
           v4 == S!With(S!Kid(t, a), b, v3)
           v5 == S!With(t, a, v4)
           w == [i \in 0..5 |-> IF i = 0 THEN v ELSE IF i = 1 THEN v1 ELSE IF i = 2 THEN v2 ELSE IF i = 3 THEN v3 ELSE IF i = 4 THEN v4 ELSE v5]
<1>1. Len(p) = 5 /\ p[1] = a /\ p[2] = b /\ p[3] = c /\ p[4] = d /\ p[5] = e
  OBVIOUS
<1>2. S!Assign(t, p, v) = new[Len(p)]
  BY DEF S!Assign
<1>3. S!Way(t, p)[0] = t /\ S!Way(t, p)[1] = S!Kid(t, a) /\ S!Way(t, p)[2] = S!Kid(S!Kid(t, a), b) /\ S!Way(t, p)[3] = S!Kid(S!Kid(S!Kid(t, a), b), c) /\ S!Way(t, p)[4] = S!Kid(S!Kid(S!Kid(S!Kid(t, a), b), c), d)
  BY Ways5
<1> HIDE DEF p, new
<1>4. /\ v1 = Onto(1, v)
      /\ v2 = Onto(2, v1)
      /\ v3 = Onto(3, v2)
      /\ v4 = Onto(4, v3)
      /\ v5 = Onto(5, v4)
  BY <1>1, <1>3
<1> HIDE DEF Onto, v1, v2, v3, v4, v5
<1>5. w = [i \in 0..Len(p) |-> IF i = 0 THEN v ELSE Onto(i, w[i - 1])]
  BY <1>1, <1>4
<1> HIDE DEF w
<1>6. new = [i \in 0..Len(p) |-> IF i = 0 THEN v ELSE Onto(i, new[i - 1])]
  BY <1>5 DEF new
<1>7. new[5] = v5
  BY <1>1, <1>4, <1>6
<1> QED BY <1>1, <1>2, <1>7 DEF p, v1, v2, v3, v4, v5

LEMMA Front3 ==
  ASSUME NEW a, NEW b, NEW c
  PROVE  S!Front(<<a, b, c>>) = <<a, b>> /\ S!Last(<<a, b, c>>) = c
<1> DEFINE p == <<a, b, c>>
           q == <<a, b>>
           E == {a, b, c}
<1>1. Len(p) = 3 /\ p[1] = a /\ p[2] = b /\ p[3] = c
  OBVIOUS
<1>2. q \in Seq(E) /\ Len(q) = 2 /\ q[1] = a /\ q[2] = b
  OBVIOUS
<1>3. a \in E /\ b \in E /\ c \in E
  OBVIOUS
<1> HIDE DEF p, q, E
<1>4. \A i \in 1..2 : p[i] \in E /\ p[i] = q[i]
  BY <1>1, <1>2, <1>3
<1>5. /\ SubSeq(p, 1, 2) \in Seq(E) /\ Len(SubSeq(p, 1, 2)) = 2
      /\ \A i \in 1..2 : SubSeq(p, 1, 2)[i] = p[i]
  BY <1>4, SubSeqProperties
<1>6. SubSeq(p, 1, 2) = q
  BY <1>2, <1>4, <1>5, SeqEqual
<1>7. SubSeq(p, 1, Len(p) - 1) = q /\ p[Len(p)] = c
  BY <1>1, <1>6
<1> QED BY <1>7 DEF S!Front, S!Last, p, q

LEMMA Front4 ==
  ASSUME NEW a, NEW b, NEW c, NEW d
  PROVE  S!Front(<<a, b, c, d>>) = <<a, b, c>> /\ S!Last(<<a, b, c, d>>) = d
<1> DEFINE p == <<a, b, c, d>>
           q == <<a, b, c>>
           E == {a, b, c, d}
<1>1. Len(p) = 4 /\ p[1] = a /\ p[2] = b /\ p[3] = c /\ p[4] = d
  OBVIOUS
<1>2. q \in Seq(E) /\ Len(q) = 3 /\ q[1] = a /\ q[2] = b /\ q[3] = c
  OBVIOUS
<1>3. a \in E /\ b \in E /\ c \in E /\ d \in E
  OBVIOUS
<1> HIDE DEF p, q, E
<1>4. \A i \in 1..3 : p[i] \in E /\ p[i] = q[i]
  BY <1>1, <1>2, <1>3
<1>5. /\ SubSeq(p, 1, 3) \in Seq(E) /\ Len(SubSeq(p, 1, 3)) = 3
      /\ \A i \in 1..3 : SubSeq(p, 1, 3)[i] = p[i]
  BY <1>4, SubSeqProperties
<1>6. SubSeq(p, 1, 3) = q
  BY <1>2, <1>4, <1>5, SeqEqual
<1>7. SubSeq(p, 1, Len(p) - 1) = q /\ p[Len(p)] = d
  BY <1>1, <1>6
<1> QED BY <1>7 DEF S!Front, S!Last, p, q

LEMMA Front5 ==
  ASSUME NEW a, NEW b, NEW c, NEW d, NEW e
  PROVE  S!Front(<<a, b, c, d, e>>) = <<a, b, c, d>> /\ S!Last(<<a, b, c, d, e>>) = e
<1> DEFINE p == <<a, b, c, d, e>>
           q == <<a, b, c, d>>
           E == {a, b, c, d, e}
<1>1. Len(p) = 5 /\ p[1] = a /\ p[2] = b /\ p[3] = c /\ p[4] = d /\ p[5] = e
  OBVIOUS
<1>2. q \in Seq(E) /\ Len(q) = 4 /\ q[1] = a /\ q[2] = b /\ q[3] = c /\ q[4] = d
  OBVIOUS
<1>3. a \in E /\ b \in E /\ c \in E /\ d \in E /\ e \in E
  OBVIOUS
<1> HIDE DEF p, q, E
<1>4. \A i \in 1..4 : p[i] \in E /\ p[i] = q[i]
  BY <1>1, <1>2, <1>3
<1>5. /\ SubSeq(p, 1, 4) \in Seq(E) /\ Len(SubSeq(p, 1, 4)) = 4
      /\ \A i \in 1..4 : SubSeq(p, 1, 4)[i] = p[i]
  BY <1>4, SubSeqProperties
<1>6. SubSeq(p, 1, 4) = q
  BY <1>2, <1>4, <1>5, SeqEqual
<1>7. SubSeq(p, 1, Len(p) - 1) = q /\ p[Len(p)] = e
  BY <1>1, <1>6
<1> QED BY <1>7 DEF S!Front, S!Last, p, q

Plus(f, k, x) == [j \in DOMAIN f \cup {k} |-> IF j = k THEN x ELSE f[j]]

LEMMA KidWith ==
  ASSUME NEW e, NEW f, NEW k, NEW x
  PROVE  /\ S!Kid(S!Struct(f), k) = IF k \in DOMAIN f THEN f[k] ELSE S!Nil
         /\ S!Kid(S!Dict(e, f), k) = IF k \in DOMAIN f THEN f[k] ELSE S!Nil
         /\ S!With(S!Struct(f), k, x) = S!Struct(Plus(f, k, x))
         /\ S!With(S!Dict(e, f), k, x) = S!Dict(e, Plus(f, k, x))
<1>1. /\ S!Struct(f).kids = f /\ S!Keys(S!Struct(f)) = DOMAIN f
      /\ S!Dict(e, f).kids = f /\ S!Keys(S!Dict(e, f)) = DOMAIN f
  BY Structures, Dicts
<1>2. \A h : /\ [S!Dict(e, f) EXCEPT !.kids = h] = S!Dict(e, h)
             /\ [S!Struct(f) EXCEPT !.kids = h] = S!Struct(h)
  BY Kids
<1> QED BY <1>1, <1>2 DEF S!Kid, S!With, Plus

LEMMA InLevels ==
  ASSUME NEW u, NEW k, NEW v
  PROVE  /\ S!Kid(Levels(u), k) = IF k \in DOMAIN u THEN S!Leaf(u[k]) ELSE S!Nil
         /\ S!With(Levels(u), k, S!Leaf(v)) = Levels(Plus(u, k, v))
         /\ S!Without(Levels(u), {k}) = Levels(Restrict(u, DOMAIN u \ {k}))
<1>1. /\ DOMAIN Entries(u) = DOMAIN u
      /\ \A j \in DOMAIN u : Entries(u)[j] = S!Leaf(u[j])
  BY EntriesOf
<1>2. Entries(Plus(u, k, v)) = Plus(Entries(u), k, S!Leaf(v))
  BY <1>1 DEF Plus, Entries
<1>3. Entries(Restrict(u, DOMAIN u \ {k})) = Restrict(Entries(u), DOMAIN Entries(u) \ {k})
  BY <1>1 DEF Restrict, Entries
<1> QED BY <1>1, <1>2, <1>3, KidWith, WithoutOf DEF Levels

LEMMA InSection ==
  ASSUME NEW t, NEW a, NEW u
  PROVE  /\ S!Kid(Section(t, a, u), "Trigger") = S!Leaf(t)
         /\ S!Kid(Section(t, a, u), "AccessTalk") = S!Leaf(a)
         /\ S!Kid(Section(t, a, u), "AccessUser") = Levels(u)
         /\ \A v : S!With(Section(t, a, u), "Trigger", S!Leaf(v)) = Section(v, a, u)
         /\ \A v : S!With(Section(t, a, u), "AccessTalk", S!Leaf(v)) = Section(t, v, u)
         /\ \A w : S!With(Section(t, a, u), "AccessUser", Levels(w)) = Section(t, a, w)
<1> DEFINE f(x, y, w) == SectionKids(Fields, x, y, Levels(w))
<1>1. \A x, y, w : /\ Section(x, y, w) = S!Struct(f(x, y, w)) /\ DOMAIN f(x, y, w) = Fields
                   /\ f(x, y, w)["Trigger"] = S!Leaf(x)
                   /\ f(x, y, w)["AccessTalk"] = S!Leaf(y)
                   /\ f(x, y, w)["AccessUser"] = Levels(w)
  BY SectionIs, SectionKidsOf DEF Fields
<1>2. "Trigger" \in Fields /\ "AccessTalk" \in Fields /\ "AccessUser" \in Fields
  BY DEF Fields
<1>3. /\ \A v : Plus(f(t, a, u), "Trigger", S!Leaf(v)) = f(v, a, u)
      /\ \A v : Plus(f(t, a, u), "AccessTalk", S!Leaf(v)) = f(t, v, u)
      /\ \A w : Plus(f(t, a, u), "AccessUser", Levels(w)) = f(t, a, w)
  BY DEF Plus, SectionKids, Fields
<1> HIDE DEF f
<1>4. \A k, x : /\ S!Kid(S!Struct(f(t, a, u)), k) = IF k \in DOMAIN f(t, a, u) THEN f(t, a, u)[k] ELSE S!Nil
                /\ S!With(S!Struct(f(t, a, u)), k, x) = S!Struct(Plus(f(t, a, u), k, x))
  BY KidWith
<1>5. /\ S!Kid(Section(t, a, u), "Trigger") = S!Leaf(t)
      /\ S!Kid(Section(t, a, u), "AccessTalk") = S!Leaf(a)
      /\ S!Kid(Section(t, a, u), "AccessUser") = Levels(u)
  BY <1>1, <1>2, <1>4
<1>6. /\ \A v : S!With(Section(t, a, u), "Trigger", S!Leaf(v)) = Section(v, a, u)
      /\ \A v : S!With(Section(t, a, u), "AccessTalk", S!Leaf(v)) = Section(t, v, u)
      /\ \A w : S!With(Section(t, a, u), "AccessUser", Levels(w)) = Section(t, a, w)
  BY <1>1, <1>3, <1>4
<1> QED BY <1>5, <1>6

LEMMA InBNet ==
  ASSUME NEW d, NEW gs
  PROVE  /\ S!Kid(BNet(d, gs), "Default") = d
         /\ S!Kid(BNet(d, gs), "Gateways") = S!Dict(NoSection, gs)
         /\ \A x : S!With(BNet(d, gs), "Default", x) = BNet(x, gs)
         /\ \A hs : S!With(BNet(d, gs), "Gateways", S!Dict(NoSection, hs)) = BNet(d, hs)
<1> DEFINE f(x, hs) == BNetKids(Halves, x, S!Dict(NoSection, hs))
<1>1. \A x, hs : /\ BNet(x, hs) = S!Struct(f(x, hs)) /\ DOMAIN f(x, hs) = Halves
                 /\ f(x, hs)["Default"] = x /\ f(x, hs)["Gateways"] = S!Dict(NoSection, hs)
  BY BNetKidsOf DEF BNet, Halves
<1>2. "Default" \in Halves /\ "Gateways" \in Halves
  BY DEF Halves
<1>3. /\ \A x : Plus(f(d, gs), "Default", x) = f(x, gs)
      /\ \A hs : Plus(f(d, gs), "Gateways", S!Dict(NoSection, hs)) = f(d, hs)
  BY DEF Plus, BNetKids, Halves
<1> HIDE DEF f
<1> QED BY <1>1, <1>2, <1>3, KidWith

LEMMA InOne ==
  ASSUME NEW e, NEW s
  PROVE  /\ S!Kid(S!Dict(e, One(s)), "g") = s
         /\ \A x : S!With(S!Dict(e, One(s)), "g", x) = S!Dict(e, One(x))
<1>1. DOMAIN One(s) = {"g"} /\ One(s)["g"] = s
  BY OneIs
<1>2. \A x : Plus(One(s), "g", x) = One(x)
  BY DEF Plus, One
<1> QED BY <1>1, <1>2, KidWith

LEMMA InTree ==
  ASSUME NEW t, NEW d, NEW gs, NEW r
  PROVE  /\ S!Kid(Tree(t, d, gs, r), "Default") = Dflt(t)
         /\ S!Kid(Tree(t, d, gs, r), "BNet") = BNet(d, gs)
         /\ S!Kid(Tree(t, d, gs, r), "Relay") = r
         /\ \A v : S!With(Tree(t, d, gs, r), "Default", Dflt(v)) = Tree(v, d, gs, r)
         /\ \A x, hs : S!With(Tree(t, d, gs, r), "BNet", BNet(x, hs)) = Tree(t, x, hs, r)
         /\ \A q : S!With(Tree(t, d, gs, r), "Relay", q) = Tree(t, d, gs, q)
         /\ S!Kid(Dflt(t), "Trigger") = S!Leaf(t)
         /\ \A v : S!With(Dflt(t), "Trigger", S!Leaf(v)) = Dflt(v)
<1> DEFINE f(v, b, q) == TreeKids(Parts, Dflt(v), b, q)
<1>1. \A v, x, hs, q : /\ Tree(v, x, hs, q) = S!Struct(f(v, BNet(x, hs), q))
  BY TreeIs
<1>2. \A v, b, q : /\ DOMAIN f(v, b, q) = Parts
                   /\ f(v, b, q)["Default"] = Dflt(v) /\ f(v, b, q)["BNet"] = b /\ f(v, b, q)["Relay"] = q
  BY TreeKidsOf DEF Parts
<1>3. "Default" \in Parts /\ "BNet" \in Parts /\ "Relay" \in Parts
  BY DEF Parts
<1>4. /\ \A v, b : Plus(f(t, b, r), "Default", Dflt(v)) = f(v, b, r)
      /\ \A b, x : Plus(f(t, b, r), "BNet", x) = f(t, x, r)
      /\ \A b, q : Plus(f(t, b, r), "Relay", q) = f(t, b, q)
  BY DEF Plus, TreeKids, Parts
<1> HIDE DEF f
<1>5. \A b, k, x : /\ S!Kid(S!Struct(f(t, b, r)), k) = IF k \in DOMAIN f(t, b, r) THEN f(t, b, r)[k] ELSE S!Nil
                   /\ S!With(S!Struct(f(t, b, r)), k, x) = S!Struct(Plus(f(t, b, r), k, x))
  BY KidWith
<1>6. /\ S!Kid(Tree(t, d, gs, r), "Default") = Dflt(t)
      /\ S!Kid(Tree(t, d, gs, r), "BNet") = BNet(d, gs)
      /\ S!Kid(Tree(t, d, gs, r), "Relay") = r
  BY <1>1, <1>2, <1>3, <1>5
<1>7. /\ \A v : S!With(Tree(t, d, gs, r), "Default", Dflt(v)) = Tree(v, d, gs, r)
      /\ \A x, hs : S!With(Tree(t, d, gs, r), "BNet", BNet(x, hs)) = Tree(t, x, hs, r)
      /\ \A q : S!With(Tree(t, d, gs, r), "Relay", q) = Tree(t, d, gs, q)
  BY <1>1, <1>4, <1>5
<1> DEFINE h == [Trigger |-> S!Leaf(t)]
<1>8. \A v : DOMAIN h = {"Trigger"} /\ h["Trigger"] = S!Leaf(t) /\ Plus(h, "Trigger", S!Leaf(v)) = [Trigger |-> S!Leaf(v)]
  BY DEF Plus
<1>9. \A v : Dflt(v) = S!Struct([Trigger |-> S!Leaf(v)])
  BY DEF Dflt
<1>10. Dflt(t) = S!Struct(h)
  BY <1>9
<1> HIDE DEF h
<1>11. /\ S!Kid(Dflt(t), "Trigger") = S!Leaf(t)
       /\ \A v : S!With(Dflt(t), "Trigger", S!Leaf(v)) = Dflt(v)
  BY <1>8, <1>9, <1>10, KidWith
<1> QED BY <1>6, <1>7, <1>11

-----------------------------------------------------------------------------
(* The settings of a tree, found and assigned *)

Entry(u) == IF "x" \in DOMAIN u THEN S!Leaf(u["x"]) ELSE S!Nil

LEMMA ChainedKids ==
  ASSUME NEW t, NEW bt, NEW ba, NEW bu, NEW gt, NEW ga, NEW gu, NEW r,
         NEW c, c = Chained(t, bt, ba, bu, gt, ga, gu, r)
  PROVE  /\ S!Kid(c, "Default") = Dflt(t)
         /\ S!Kid(S!Kid(c, "BNet"), "Default") = Section(bt, ba, bu)
         /\ S!Kid(S!Kid(S!Kid(c, "BNet"), "Gateways"), "g") = Section(gt, ga, gu)
         /\ \A v : S!With(c, "Default", Dflt(v)) = Chained(v, bt, ba, bu, gt, ga, gu, r)
         /\ \A v, a, u : S!With(c, "BNet", S!With(S!Kid(c, "BNet"), "Default", Section(v, a, u))) =
                           Chained(t, v, a, u, gt, ga, gu, r)
         /\ \A v, a, u : S!With(c, "BNet", S!With(S!Kid(c, "BNet"), "Gateways",
                           S!With(S!Kid(S!Kid(c, "BNet"), "Gateways"), "g", Section(v, a, u)))) =
                           Chained(t, bt, ba, bu, v, a, u, r)
<1> DEFINE d == Section(bt, ba, bu)
           s == Section(gt, ga, gu)
           b == BNet(d, One(s))
<1>1. c = Tree(t, d, One(s), r)
  BY DEF Chained
<1> HIDE DEF d, s
<1>2. /\ S!Kid(c, "Default") = Dflt(t) /\ S!Kid(c, "BNet") = b
      /\ \A v : S!With(c, "Default", Dflt(v)) = Tree(v, d, One(s), r)
      /\ \A x, hs : S!With(c, "BNet", BNet(x, hs)) = Tree(t, x, hs, r)
  BY <1>1, InTree
<1>3. /\ S!Kid(b, "Default") = d /\ S!Kid(b, "Gateways") = S!Dict(NoSection, One(s))
      /\ \A x : S!With(b, "Default", x) = BNet(x, One(s))
      /\ \A hs : S!With(b, "Gateways", S!Dict(NoSection, hs)) = BNet(d, hs)
  BY InBNet
<1>4. /\ S!Kid(S!Dict(NoSection, One(s)), "g") = s
      /\ \A x : S!With(S!Dict(NoSection, One(s)), "g", x) = S!Dict(NoSection, One(x))
  BY InOne
<1> HIDE DEF b
<1>5. /\ S!Kid(S!Kid(c, "BNet"), "Default") = d
      /\ S!Kid(S!Kid(c, "BNet"), "Gateways") = S!Dict(NoSection, One(s))
      /\ S!Kid(S!Kid(S!Kid(c, "BNet"), "Gateways"), "g") = s
  BY <1>2, <1>3, <1>4
<1>6. \A x : S!With(c, "BNet", S!With(S!Kid(c, "BNet"), "Default", x)) = Tree(t, x, One(s), r)
  BY <1>2, <1>3
<1>7. \A x : S!With(c, "BNet", S!With(S!Kid(c, "BNet"), "Gateways",
               S!With(S!Kid(S!Kid(c, "BNet"), "Gateways"), "g", x))) = Tree(t, d, One(x), r)
  BY <1>2, <1>3, <1>4
<1> QED BY <1>2, <1>5, <1>6, <1>7 DEF Chained, d, s

LEMMA FoundIs ==
  ASSUME NEW t, NEW bt, NEW ba, NEW bu, NEW gt, NEW ga, NEW gu, NEW r,
         NEW c, c = Chained(t, bt, ba, bu, gt, ga, gu, r)
  PROVE  /\ S!Find(c, <<"Default", "Trigger">>) = S!Leaf(t)
         /\ S!Find(c, <<"BNet", "Default">>) = Section(bt, ba, bu)
         /\ S!Find(c, <<"BNet", "Default", "Trigger">>) = S!Leaf(bt)
         /\ S!Find(c, <<"BNet", "Default", "AccessTalk">>) = S!Leaf(ba)
         /\ S!Find(c, <<"BNet", "Default", "AccessUser">>) = Levels(bu)
         /\ S!Find(c, <<"BNet", "Default", "AccessUser", "x">>) = Entry(bu)
         /\ S!Find(c, <<"BNet", "Gateways", "g">>) = Section(gt, ga, gu)
         /\ S!Find(c, <<"BNet", "Gateways", "g", "Trigger">>) = S!Leaf(gt)
         /\ S!Find(c, <<"BNet", "Gateways", "g", "AccessTalk">>) = S!Leaf(ga)
         /\ S!Find(c, <<"BNet", "Gateways", "g", "AccessUser">>) = Levels(gu)
         /\ S!Find(c, <<"BNet", "Gateways", "g", "AccessUser", "x">>) = Entry(gu)
<1>1. /\ S!Kid(c, "Default") = Dflt(t)
      /\ S!Kid(S!Kid(c, "BNet"), "Default") = Section(bt, ba, bu)
      /\ S!Kid(S!Kid(S!Kid(c, "BNet"), "Gateways"), "g") = Section(gt, ga, gu)
  BY ChainedKids
<1>2. S!Kid(Dflt(t), "Trigger") = S!Leaf(t)
  BY InTree
<1>3. \A x, a, u : /\ S!Kid(Section(x, a, u), "Trigger") = S!Leaf(x)
                   /\ S!Kid(Section(x, a, u), "AccessTalk") = S!Leaf(a)
                   /\ S!Kid(Section(x, a, u), "AccessUser") = Levels(u)
  BY InSection
<1>4. \A u : S!Kid(Levels(u), "x") = Entry(u)
  BY InLevels DEF Entry
<1> DEFINE dflt == S!Kid(S!Kid(c, "BNet"), "Default")
           gate == S!Kid(S!Kid(S!Kid(c, "BNet"), "Gateways"), "g")
<1>5. S!Find(c, <<"Default", "Trigger">>) = S!Kid(S!Kid(c, "Default"), "Trigger")
  BY Find2
<1>6. S!Find(c, <<"BNet", "Default">>) = dflt
  BY Find2
<1>7. S!Find(c, <<"BNet", "Default", "Trigger">>) = S!Kid(dflt, "Trigger")
  BY Find3
<1>8. S!Find(c, <<"BNet", "Default", "AccessTalk">>) = S!Kid(dflt, "AccessTalk")
  BY Find3
<1>9. S!Find(c, <<"BNet", "Default", "AccessUser">>) = S!Kid(dflt, "AccessUser")
  BY Find3
<1>10. S!Find(c, <<"BNet", "Default", "AccessUser", "x">>) = S!Kid(S!Kid(dflt, "AccessUser"), "x")
  BY Find4
<1>11. S!Find(c, <<"BNet", "Gateways", "g">>) = gate
  BY Find3
<1>12. S!Find(c, <<"BNet", "Gateways", "g", "Trigger">>) = S!Kid(gate, "Trigger")
  BY Find4
<1>13. S!Find(c, <<"BNet", "Gateways", "g", "AccessTalk">>) = S!Kid(gate, "AccessTalk")
  BY Find4
<1>14. S!Find(c, <<"BNet", "Gateways", "g", "AccessUser">>) = S!Kid(gate, "AccessUser")
  BY Find4
<1>15. S!Find(c, <<"BNet", "Gateways", "g", "AccessUser", "x">>) = S!Kid(S!Kid(gate, "AccessUser"), "x")
  BY Find5
<1> HIDE DEF dflt, gate
<1>16. dflt = Section(bt, ba, bu) /\ gate = Section(gt, ga, gu)
  BY <1>1 DEF dflt, gate
<1> QED BY <1>1, <1>2, <1>3, <1>4, <1>5, <1>6, <1>7, <1>8, <1>9, <1>10, <1>11, <1>12, <1>13, <1>14, <1>15, <1>16

LEMMA AssignedIs ==
  ASSUME NEW t, NEW bt, NEW ba, NEW bu, NEW gt, NEW ga, NEW gu, NEW r,
         NEW c, c = Chained(t, bt, ba, bu, gt, ga, gu, r), NEW v
  PROVE  /\ S!Assign(c, <<"Default", "Trigger">>, S!Leaf(v)) = Chained(v, bt, ba, bu, gt, ga, gu, r)
         /\ S!Assign(c, <<"BNet", "Default", "Trigger">>, S!Leaf(v)) = Chained(t, v, ba, bu, gt, ga, gu, r)
         /\ S!Assign(c, <<"BNet", "Default", "AccessTalk">>, S!Leaf(v)) = Chained(t, bt, v, bu, gt, ga, gu, r)
         /\ S!Assign(c, <<"BNet", "Default", "AccessUser", "x">>, S!Leaf(v)) =
              Chained(t, bt, ba, Plus(bu, "x", v), gt, ga, gu, r)
         /\ S!Assign(c, <<"BNet", "Gateways", "g", "Trigger">>, S!Leaf(v)) =
              Chained(t, bt, ba, bu, v, ga, gu, r)
         /\ S!Assign(c, <<"BNet", "Gateways", "g", "AccessTalk">>, S!Leaf(v)) =
              Chained(t, bt, ba, bu, gt, v, gu, r)
         /\ S!Assign(c, <<"BNet", "Gateways", "g", "AccessUser", "x">>, S!Leaf(v)) =
              Chained(t, bt, ba, bu, gt, ga, Plus(gu, "x", v), r)
<1> DEFINE b == S!Kid(c, "BNet")
           gs == S!Kid(b, "Gateways")
           d == Section(bt, ba, bu)
           s == Section(gt, ga, gu)
<1>1. /\ S!Kid(c, "Default") = Dflt(t) /\ S!Kid(b, "Default") = d /\ S!Kid(gs, "g") = s
      /\ \A x : S!With(c, "Default", Dflt(x)) = Chained(x, bt, ba, bu, gt, ga, gu, r)
      /\ \A x, a, u : S!With(c, "BNet", S!With(b, "Default", Section(x, a, u))) =
                        Chained(t, x, a, u, gt, ga, gu, r)
      /\ \A x, a, u : S!With(c, "BNet", S!With(b, "Gateways", S!With(gs, "g", Section(x, a, u)))) =
                        Chained(t, bt, ba, bu, x, a, u, r)
  BY ChainedKids
<1>2. S!With(Dflt(t), "Trigger", S!Leaf(v)) = Dflt(v)
  BY InTree
<1>3. /\ S!With(d, "Trigger", S!Leaf(v)) = Section(v, ba, bu)
      /\ S!With(d, "AccessTalk", S!Leaf(v)) = Section(bt, v, bu)
      /\ S!Kid(d, "AccessUser") = Levels(bu)
      /\ \A u : S!With(d, "AccessUser", Levels(u)) = Section(bt, ba, u)
  BY InSection
<1>4. /\ S!With(s, "Trigger", S!Leaf(v)) = Section(v, ga, gu)
      /\ S!With(s, "AccessTalk", S!Leaf(v)) = Section(gt, v, gu)
      /\ S!Kid(s, "AccessUser") = Levels(gu)
      /\ \A u : S!With(s, "AccessUser", Levels(u)) = Section(gt, ga, u)
  BY InSection
<1>5. \A u : S!With(Levels(u), "x", S!Leaf(v)) = Levels(Plus(u, "x", v))
  BY InLevels
<1>6. \A x : S!Assign(c, <<"Default", "Trigger">>, x) =
               S!With(c, "Default", S!With(S!Kid(c, "Default"), "Trigger", x))
  BY Assign2
<1>7. \A x : /\ S!Assign(c, <<"BNet", "Default", "Trigger">>, x) =
                  S!With(c, "BNet", S!With(b, "Default", S!With(S!Kid(b, "Default"), "Trigger", x)))
             /\ S!Assign(c, <<"BNet", "Default", "AccessTalk">>, x) =
                  S!With(c, "BNet", S!With(b, "Default", S!With(S!Kid(b, "Default"), "AccessTalk", x)))
  BY Assign3
<1>8. \A x : /\ S!Assign(c, <<"BNet", "Default", "AccessUser", "x">>, x) =
                  S!With(c, "BNet", S!With(b, "Default", S!With(S!Kid(b, "Default"), "AccessUser",
                    S!With(S!Kid(S!Kid(b, "Default"), "AccessUser"), "x", x))))
             /\ S!Assign(c, <<"BNet", "Gateways", "g", "Trigger">>, x) =
                  S!With(c, "BNet", S!With(b, "Gateways", S!With(gs, "g", S!With(S!Kid(gs, "g"), "Trigger", x))))
             /\ S!Assign(c, <<"BNet", "Gateways", "g", "AccessTalk">>, x) =
                  S!With(c, "BNet", S!With(b, "Gateways", S!With(gs, "g", S!With(S!Kid(gs, "g"), "AccessTalk", x))))
  BY Assign4
<1>9. \A x : S!Assign(c, <<"BNet", "Gateways", "g", "AccessUser", "x">>, x) =
               S!With(c, "BNet", S!With(b, "Gateways", S!With(gs, "g",
                 S!With(S!Kid(gs, "g"), "AccessUser", S!With(S!Kid(S!Kid(gs, "g"), "AccessUser"), "x", x)))))
  BY Assign5
<1> HIDE DEF b, gs, d, s
<1>10. S!Assign(c, <<"Default", "Trigger">>, S!Leaf(v)) = Chained(v, bt, ba, bu, gt, ga, gu, r)
  BY <1>1, <1>2, <1>6
<1>11. /\ S!Assign(c, <<"BNet", "Default", "Trigger">>, S!Leaf(v)) = Chained(t, v, ba, bu, gt, ga, gu, r)
       /\ S!Assign(c, <<"BNet", "Default", "AccessTalk">>, S!Leaf(v)) = Chained(t, bt, v, bu, gt, ga, gu, r)
  BY <1>1, <1>3, <1>7
<1>12. S!Assign(c, <<"BNet", "Default", "AccessUser", "x">>, S!Leaf(v)) =
         Chained(t, bt, ba, Plus(bu, "x", v), gt, ga, gu, r)
  BY <1>1, <1>3, <1>5, <1>8
<1>13. /\ S!Assign(c, <<"BNet", "Gateways", "g", "Trigger">>, S!Leaf(v)) = Chained(t, bt, ba, bu, v, ga, gu, r)
       /\ S!Assign(c, <<"BNet", "Gateways", "g", "AccessTalk">>, S!Leaf(v)) = Chained(t, bt, ba, bu, gt, v, gu, r)
  BY <1>1, <1>4, <1>8 DEF gs
<1>14. S!Assign(c, <<"BNet", "Gateways", "g", "AccessUser", "x">>, S!Leaf(v)) =
         Chained(t, bt, ba, bu, gt, ga, Plus(gu, "x", v), r)
  BY <1>1, <1>4, <1>5, <1>9 DEF gs
<1> QED BY <1>10, <1>11, <1>12, <1>13, <1>14

LEMMA UsersAssigned ==
  ASSUME NEW t, NEW bt, NEW ba, NEW bu, NEW gt, NEW ga, NEW gu, NEW r,
         NEW c, c = Chained(t, bt, ba, bu, gt, ga, gu, r), NEW w
  PROVE  S!Assign(c, <<"BNet", "Gateways", "g", "AccessUser">>, Levels(w)) = Chained(t, bt, ba, bu, gt, ga, w, r)
<1> DEFINE b == S!Kid(c, "BNet")
           gs == S!Kid(b, "Gateways")
           s == Section(gt, ga, gu)
           x == Levels(w)
<1>1. /\ S!Kid(gs, "g") = s
      /\ \A v, a, u : S!With(c, "BNet", S!With(b, "Gateways", S!With(gs, "g", Section(v, a, u)))) =
                        Chained(t, bt, ba, bu, v, a, u, r)
  BY ChainedKids
<1>2. S!With(s, "AccessUser", x) = Section(gt, ga, w)
  BY InSection
<1>3. S!Assign(c, <<"BNet", "Gateways", "g", "AccessUser">>, x) =
        S!With(c, "BNet", S!With(b, "Gateways", S!With(gs, "g", S!With(S!Kid(gs, "g"), "AccessUser", x))))
  BY Assign4
<1> HIDE DEF b, gs, s, x
<1> QED BY <1>1, <1>2, <1>3 DEF x

-----------------------------------------------------------------------------
(* Relays *)

LEMMA MergeStructs2 ==
  ASSUME NEW f, NEW src, NEW h, NEW o, NEW r, Keeps(f, src, h, o, r),
         \A k \in DOMAIN f \cap DOMAIN h : r[k] = S!merge1(f[k], h[k], o)
  PROVE  S!merge2(S!Struct(f), src, o) = S!Struct(r)
<1>1. /\ S!Struct(f).type = "struct" /\ S!Struct(f).kids = f /\ S!Keys(S!Struct(f)) = DOMAIN f
      /\ \A g : [S!Struct(f) EXCEPT !.kids = g] = S!Struct(g)
  BY Structures, Kids
<1> DEFINE g == [k \in DOMAIN f |-> IF k \in DOMAIN h THEN S!merge1(f[k], h[k], o) ELSE f[k]]
<1>2. S!merge2(S!Struct(f), src, o) = S!Struct(g)
  BY <1>1 DEF S!merge2, S!mergeInto, S!mergeFields, Overwrites, Keeps
<1>3. g = r
  BY DEF IsMap, Keeps
<1> QED BY <1>2, <1>3

(* A relay as a map; a map of relays; the same, of relays as maps.         *)
RelayDict(v) == S!Dict(S!Nil, [ChatAccess |-> S!Leaf(v)])
Froms(f) == [k \in DOMAIN f |-> Relay(f[k])]
FromDicts(f) == [k \in DOMAIN f |-> RelayDict(f[k])]

LEMMA RelayMerged ==
  ASSUME NEW a, NEW b, NEW o \in {S!Overwrite, S!Replace}
  PROVE  /\ \A src \in {Relay(b), RelayDict(b)} : /\ S!merge1(Relay(a), src, o) = Relay(b)
                                                 /\ S!merge2(Relay(a), src, o) = Relay(b)
                                                 /\ S!merge4(Relay(a), src, o) = Relay(b)
<1> DEFINE f == [ChatAccess |-> S!Leaf(a)]
           h == [ChatAccess |-> S!Leaf(b)]
<1>1. DOMAIN f = {"ChatAccess"} /\ DOMAIN h = {"ChatAccess"} /\ IsMap(h) /\ h["ChatAccess"] = S!Leaf(b)
  BY DEF IsMap
<1>2. o.overwrite = TRUE
  BY Options
<1>3. Relay(a) = S!Struct(f) /\ Relay(b) = S!Struct(h) /\ RelayDict(b) = S!Dict(S!Nil, h)
  BY DEF Relay, RelayDict
<1> HIDE DEF f, h
<1>4. /\ h["ChatAccess"] = S!merge0(f["ChatAccess"], h["ChatAccess"], o)
      /\ h["ChatAccess"] = S!merge1(f["ChatAccess"], h["ChatAccess"], o)
      /\ h["ChatAccess"] = S!merge3(f["ChatAccess"], h["ChatAccess"], o)
  BY <1>1, <1>2, MergeLeaf
<1>5. ASSUME NEW src, Overwrites(src, h, o)
      PROVE  /\ S!merge1(S!Struct(f), src, o) = S!Struct(h)
             /\ S!merge2(S!Struct(f), src, o) = S!Struct(h)
             /\ S!merge4(S!Struct(f), src, o) = S!Struct(h)
  <2>1. Keeps(f, src, h, o, h)
    BY <1>1, <1>5 DEF Keeps
  <2> QED BY <1>1, <1>4, <2>1, MergeStructs1, MergeStructs2, MergeStructs4
<1>6. Overwrites(S!Struct(h), h, o) /\ Overwrites(S!Dict(S!Nil, h), h, o)
  BY <1>2, Structures, Dicts DEF Overwrites
<1> QED BY <1>3, <1>5, <1>6

LEMMA FromsOf ==
  ASSUME NEW f
  PROVE  /\ DOMAIN Froms(f) = DOMAIN f /\ IsMap(Froms(f))
         /\ \A k \in DOMAIN f : Froms(f)[k] = Relay(f[k])
         /\ DOMAIN FromDicts(f) = DOMAIN f /\ IsMap(FromDicts(f))
         /\ \A k \in DOMAIN f : FromDicts(f)[k] = RelayDict(f[k])
BY DEF Froms, FromDicts, IsMap

LEMMA FromsMerged ==
  ASSUME NEW f, NEW w, IsMap(w), NEW e, NEW h \in {Froms(w), FromDicts(w)}, NEW o \in {S!Overwrite, S!Replace}
  PROVE  S!merge2(S!Dict(Relay(0), Froms(f)), S!Dict(e, h), o) = S!Dict(Relay(0), Froms(Became(f, w, o)))
<1> DEFINE b == Became(f, w, o)
           g == Froms(f)
           r == Froms(b)
<1>1. /\ DOMAIN g = DOMAIN f /\ DOMAIN h = DOMAIN w /\ DOMAIN r = DOMAIN b /\ IsMap(r)
      /\ \A k \in DOMAIN f : g[k] = Relay(f[k])
      /\ \A k \in DOMAIN w : h[k] \in {Relay(w[k]), RelayDict(w[k])}
      /\ \A k \in DOMAIN b : r[k] = Relay(b[k])
  BY FromsOf
<1>2. o.overwrite = TRUE
  BY Options
<1>3. /\ DOMAIN b = MergedKeys(f, w, o)
      /\ \A k \in DOMAIN b \ DOMAIN w : b[k] = f[k]
      /\ \A k \in DOMAIN w : b[k] = w[k]
  BY <1>2, BecameOf
<1> HIDE DEF b, g, r
<1>4. DOMAIN r = MergedKeys(g, h, o) /\ MergedKeys(f, w, o) = MergedKeys(g, h, o)
  BY <1>1, <1>3 DEF MergedKeys
<1>5. \A k \in DOMAIN r \ DOMAIN h : r[k] = g[k]
  BY <1>1, <1>3 DEF MergedKeys
<1>6. Extends(g, h, o, r)
  BY <1>1, <1>4, <1>5 DEF Extends
<1>7. ASSUME NEW k \in DOMAIN h
      PROVE  r[k] = S!merge1(Old(Relay(0), g, k), h[k], o)
  <2>1. r[k] = Relay(w[k]) /\ h[k] \in {Relay(w[k]), RelayDict(w[k])}
    BY <1>1, <1>3, <1>7 DEF MergedKeys
  <2>2. PICK a : Old(Relay(0), g, k) = Relay(a)
    BY <1>1 DEF Old
  <2> QED BY <2>1, <2>2, RelayMerged
<1> QED BY <1>6, <1>7, MergeMaps2 DEF b, g, r

(* The relays to a gateway, and what is kept of them.                      *)
Ends == {"Default", "From"}
ToKids(E, d, from) == [k \in E |-> IF k = "Default" THEN d ELSE from]
To(t, f) == RelayTo(Relay(t), Froms(f))
ToDict(E, t, f) == S!Dict(S!Nil, ToKids(E, RelayDict(t), S!Dict(S!Nil, FromDicts(f))))

LEMMA ToKidsOf ==
  ASSUME NEW E \in SUBSET Ends, NEW d, NEW from
  PROVE  /\ IsMap(ToKids(E, d, from)) /\ DOMAIN ToKids(E, d, from) = E
         /\ "Default" \in E => ToKids(E, d, from)["Default"] = d
         /\ "From" \in E => ToKids(E, d, from)["From"] = from
BY DEF ToKids, Ends, IsMap

LEMMA ToIs ==
  ASSUME NEW t, NEW f
  PROVE  To(t, f) = S!Struct(ToKids(Ends, Relay(t), S!Dict(Relay(0), Froms(f))))
<1>1. [Default |-> Relay(t), From |-> S!Dict(Relay(0), Froms(f))] = ToKids(Ends, Relay(t), S!Dict(Relay(0), Froms(f)))
  BY DEF ToKids, Ends
<1> QED BY <1>1 DEF To, RelayTo

(* Relays to a gateway that get another default, others from gateways, or  *)
(* both.                                                                   *)
Replaces(E, a, t, b, f, w, u) ==
  /\ E \in SUBSET Ends
  /\ b = IF "Default" \in E THEN t ELSE a
  /\ u = IF "From" \in E THEN w ELSE f

LEMMA ToMerges ==
  ASSUME NEW a, NEW f, NEW t, NEW w, NEW o \in {S!Overwrite, S!Replace},
         NEW E, NEW b, NEW u, Replaces(E, a, t, b, f, w, u), NEW y \in {Relay(t), RelayDict(t)},
         NEW z, S!merge2(S!Dict(Relay(0), Froms(f)), z, o) = S!Dict(Relay(0), Froms(w)),
         NEW src, Overwrites(src, ToKids(E, y, z), o)
  PROVE  S!merge3(To(a, f), src, o) = To(b, u)
<1> DEFINE p == S!Dict(Relay(0), Froms(f))
           g == ToKids(Ends, Relay(a), p)
           h == ToKids(E, y, z)
           r == ToKids(Ends, Relay(b), S!Dict(Relay(0), Froms(u)))
<1>1. /\ DOMAIN g = Ends /\ g["Default"] = Relay(a) /\ g["From"] = p
      /\ DOMAIN h = E
      /\ "Default" \in E => h["Default"] = y
      /\ "From" \in E => h["From"] = z
      /\ DOMAIN r = Ends /\ IsMap(r)
      /\ r["Default"] = Relay(b)
      /\ r["From"] = S!Dict(Relay(0), Froms(u))
  BY ToKidsOf DEF Ends, Replaces
<1>2. To(a, f) = S!Struct(g) /\ To(b, u) = S!Struct(r)
  BY ToIs
<1>3. S!merge2(Relay(a), y, o) = Relay(t)
  BY RelayMerged
<1>4. "From" \notin E => S!Dict(Relay(0), Froms(u)) = p
  BY DEF Replaces
<1>5. "From" \in E => S!Dict(Relay(0), Froms(u)) = S!merge2(p, z, o)
  BY DEF Replaces
<1> HIDE DEF r, g, p
<1>6. Keeps(g, src, h, o, r)
  <2> HIDE DEF h
  <2> QED BY <1>1, <1>4 DEF Keeps, Ends, Replaces, h
<1> HIDE DEF h
<1>7. \A k \in DOMAIN g \cap DOMAIN h : r[k] = S!merge2(g[k], h[k], o)
  BY <1>1, <1>3, <1>5 DEF Ends, Replaces
<1>8. S!merge3(S!Struct(g), src, o) = S!Struct(r)
  BY <1>6, <1>7, MergeStructs3
<1> QED BY <1>2, <1>8

LEMMA ToSet ==
  ASSUME NEW a, NEW f, NEW t, NEW w, IsMap(w), NEW o \in {S!Overwrite, S!Replace}, NEW u, u = Became(f, w, o)
  PROVE  S!merge3(To(a, f), To(t, w), o) = To(t, u)
<1> DEFINE z == S!Dict(Relay(0), Froms(w))
           y == Relay(t)
           src == To(t, w)
<1>1. S!merge2(S!Dict(Relay(0), Froms(f)), z, o) = S!Dict(Relay(0), Froms(u))
  BY FromsMerged
<1>2. Overwrites(src, ToKids(Ends, y, z), o)
  BY Options, ToIs, Structures DEF Overwrites
<1>3. Replaces(Ends, a, t, t, f, u, u) /\ y \in {Relay(t), RelayDict(t)}
  BY DEF Ends, Replaces
<1> HIDE DEF z, y, src
<1>4. S!merge3(To(a, f), src, o) = To(t, u)
  BY <1>1, <1>2, <1>3, ToMerges
<1> QED BY <1>4 DEF src

(* Nothing is left of the users or relays that are replaced.               *)
Fresh(f, o) == o.delete \/ f = <<>>

LEMMA BecameNew ==
  ASSUME NEW f, NEW w, IsMap(w), NEW o \in {S!Overwrite, S!Replace}, Fresh(f, o)
  PROVE  Became(f, w, o) = w
<1>1. o.overwrite = TRUE /\ (o.delete => o = S!Replace) /\ (~o.delete => o = S!Overwrite)
  BY Options
<1>2. CASE o.delete
  BY <1>1, <1>2 DEF Became, S!Fill, S!Overwrite, S!Replace
<1>3. CASE ~o.delete
  BY <1>1, <1>3, OverlaidNone DEF Became, Fresh, S!Fill, S!Overwrite, S!Replace
<1> QED BY <1>2, <1>3

LEMMA ToReplaced ==
  ASSUME NEW a, NEW f, NEW t, NEW w, IsMap(w), NEW o \in {S!Overwrite, S!Replace}, Fresh(f, o)
  PROVE  S!merge3(To(a, f), To(t, w), o) = To(t, w)
<1>1. w = Became(f, w, o)
  BY BecameNew
<1>2. CASE o = S!Overwrite
  BY <1>1, <1>2, ToSet
<1>3. CASE o = S!Replace
  BY <1>1, <1>3, ToSet
<1> QED BY <1>2, <1>3

LEMMA ToOverlaid ==
  ASSUME NEW a, NEW f, NEW t, NEW w, IsMap(w), NEW o, o = S!Overwrite,
         NEW E, NEW b, NEW u, Replaces(E, a, t, b, f, Overlaid(f, w), u)
  PROVE  S!merge3(To(a, f), ToDict(E, t, w), o) = To(b, u)
<1> DEFINE x == Overlaid(f, w)
           z == S!Dict(S!Nil, FromDicts(w))
           y == RelayDict(t)
           src == ToDict(E, t, w)
<1>1. o \in {S!Overwrite, S!Replace} /\ Became(f, w, o) = x
  BY Options DEF Became, S!Fill, S!Overwrite
<1>2. S!merge2(S!Dict(Relay(0), Froms(f)), z, o) = S!Dict(Relay(0), Froms(x))
  BY <1>1, FromsMerged
<1>3. Overwrites(src, ToKids(E, y, z), o)
  BY Dicts DEF Overwrites, ToDict
<1>4. y \in {Relay(t), RelayDict(t)}
  OBVIOUS
<1>5. Replaces(E, a, t, b, f, x, u)
  OBVIOUS
<1> HIDE DEF x, z, y, src
<1>6. S!merge3(To(a, f), src, o) = To(b, u)
  BY <1>1, <1>2, <1>3, <1>4, <1>5, ToMerges
<1> QED BY <1>6 DEF src

(* All relays: their defaults, and those to g.                             *)
Rooms == {"Default", "DefaultSelf", "To"}
RoomKids(d, s, to) == [k \in Rooms |-> IF k = "Default" THEN d ELSE IF k = "DefaultSelf" THEN s ELSE to]
Matrix(d, s, to) == Relays(Relay(d), Relay(s), to)
MatrixDict(d, s, to) == S!Dict(S!Nil, RoomKids(RelayDict(d), RelayDict(s), S!Dict(S!Nil, to)))
NoTo == To(0, <<>>)

LEMMA NoToIs ==
  RelayTo(Relay(0), <<>>) = NoTo
<1>1. Froms(<<>>) = <<>>
  BY DEF Froms
<1> QED BY <1>1 DEF NoTo, To

LEMMA RoomKidsOf ==
  ASSUME NEW d, NEW s, NEW to
  PROVE  /\ IsMap(RoomKids(d, s, to)) /\ DOMAIN RoomKids(d, s, to) = Rooms
         /\ RoomKids(d, s, to)["Default"] = d
         /\ RoomKids(d, s, to)["DefaultSelf"] = s
         /\ RoomKids(d, s, to)["To"] = to
BY DEF RoomKids, Rooms, IsMap

LEMMA MatrixIs ==
  ASSUME NEW d, NEW s, NEW to
  PROVE  Matrix(d, s, to) = S!Struct(RoomKids(Relay(d), Relay(s), S!Dict(NoTo, to)))
<1>1. [Default |-> Relay(d), DefaultSelf |-> Relay(s), To |-> S!Dict(NoTo, to)] =
        RoomKids(Relay(d), Relay(s), S!Dict(NoTo, to))
  BY DEF RoomKids, Rooms
<1> QED BY <1>1, NoToIs DEF Matrix, Relays

IsRelay(p, v) == p \in {Relay(v), RelayDict(v)}

LEMMA MatrixMerged ==
  ASSUME NEW d, NEW s, NEW to, NEW x, NEW p, IsRelay(p, x), NEW y, NEW q, IsRelay(q, y),
         NEW z, NEW n, NEW o \in {S!Overwrite, S!Replace}, S!merge4(S!Dict(NoTo, to), z, o) = S!Dict(NoTo, n),
         NEW src, Overwrites(src, RoomKids(p, q, z), o)
  PROVE  S!merge5(Matrix(d, s, to), src, o) = Matrix(x, y, n)
<1> DEFINE f == RoomKids(Relay(d), Relay(s), S!Dict(NoTo, to))
           h == RoomKids(p, q, z)
           r == RoomKids(Relay(x), Relay(y), S!Dict(NoTo, n))
<1>1. /\ DOMAIN f = Rooms /\ f["Default"] = Relay(d) /\ f["DefaultSelf"] = Relay(s) /\ f["To"] = S!Dict(NoTo, to)
      /\ DOMAIN h = Rooms /\ h["Default"] = p /\ h["DefaultSelf"] = q /\ h["To"] = z
      /\ IsMap(r) /\ DOMAIN r = Rooms
      /\ r["Default"] = Relay(x) /\ r["DefaultSelf"] = Relay(y) /\ r["To"] = S!Dict(NoTo, n)
  BY RoomKidsOf
<1>2. S!merge4(Relay(d), p, o) = Relay(x) /\ S!merge4(Relay(s), q, o) = Relay(y)
  BY RelayMerged DEF IsRelay
<1>3. Matrix(d, s, to) = S!Struct(f) /\ Matrix(x, y, n) = S!Struct(r)
  BY MatrixIs
<1> HIDE DEF f, r
<1>4. Keeps(f, src, h, o, r)
  <2> HIDE DEF h
  <2> QED BY <1>1 DEF Keeps, h
<1> HIDE DEF h
<1>5. \A k \in DOMAIN f \cap DOMAIN h : r[k] = S!merge4(f[k], h[k], o)
  BY <1>1, <1>2 DEF Rooms
<1>6. S!merge5(S!Struct(f), src, o) = S!Struct(r)
  BY <1>4, <1>5, MergeStructs5
<1> QED BY <1>3, <1>6

LEMMA MatrixSet ==
  ASSUME NEW d, NEW s, NEW to, NEW x, NEW y, NEW n, NEW o \in {S!Overwrite, S!Replace},
         S!merge4(S!Dict(NoTo, to), S!Dict(NoTo, n), o) = S!Dict(NoTo, n),
         Overwrites(Matrix(x, y, n), RoomKids(Relay(x), Relay(y), S!Dict(NoTo, n)), o)
  PROVE  S!merge5(Matrix(d, s, to), Matrix(x, y, n), o) = Matrix(x, y, n)
<1> DEFINE p == Relay(x)
           q == Relay(y)
           z == S!Dict(NoTo, n)
           m == Matrix(x, y, n)
<1>1. IsRelay(p, x) /\ IsRelay(q, y)
  BY DEF IsRelay
<1>2. S!merge4(S!Dict(NoTo, to), z, o) = S!Dict(NoTo, n) /\ Overwrites(m, RoomKids(p, q, z), o)
  OBVIOUS
<1> HIDE DEF p, q, z, m
<1>3. S!merge5(Matrix(d, s, to), m, o) = Matrix(x, y, n)
  BY <1>1, <1>2, MatrixMerged
<1> QED BY <1>3 DEF m

(* The relays to g are merged into those there are, or into none.          *)
LEMMA OneToMerged ==
  ASSUME NEW to, IsMap(to), DOMAIN to \in SUBSET {"g"}, NEW e, NEW x, NEW o
  PROVE  S!merge4(S!Dict(NoTo, to), S!Dict(e, One(x)), o) =
           S!Dict(NoTo, One(S!merge3(Old(NoTo, to, "g"), x, o)))
<1> DEFINE n == One(S!merge3(Old(NoTo, to, "g"), x, o))
<1>1. /\ DOMAIN n = {"g"} /\ IsMap(n) /\ n["g"] = S!merge3(Old(NoTo, to, "g"), x, o)
      /\ DOMAIN One(x) = {"g"} /\ One(x)["g"] = x
  BY OneIs
<1> HIDE DEF n
<1>2. Extends(to, One(x), o, n)
  BY <1>1 DEF Extends, MergedKeys
<1>3. \A k \in DOMAIN One(x) : n[k] = S!merge3(Old(NoTo, to, k), One(x)[k], o)
  BY <1>1
<1>4. S!merge4(S!Dict(NoTo, to), S!Dict(e, One(x)), o) = S!Dict(NoTo, n)
  BY <1>2, <1>3, MergeMaps4
<1> QED BY <1>4 DEF n

LEMMA NoToMerged ==
  ASSUME NEW to, NEW e, NEW o, o.delete \/ DOMAIN to = {}
  PROVE  S!merge4(S!Dict(NoTo, to), S!Dict(e, <<>>), o) = S!Dict(NoTo, <<>>)
<1> DEFINE none == <<>>
<1>1. IsMap(none) /\ DOMAIN none = {}
  BY NewConfigIs
<1> HIDE DEF none
<1>2. Extends(to, none, o, none)
  BY <1>1 DEF Extends, MergedKeys
<1>3. S!merge4(S!Dict(NoTo, to), S!Dict(e, none), o) = S!Dict(NoTo, none)
  BY <1>1, <1>2, MergeMaps4
<1> QED BY <1>3 DEF none

(* Relays replace relays, or are copied to a configuration without any.    *)
LEMMA MatrixGiven ==
  ASSUME NEW x, NEW y, NEW n, NEW o \in {S!Overwrite, S!Replace}
  PROVE  Overwrites(Matrix(x, y, n), RoomKids(Relay(x), Relay(y), S!Dict(NoTo, n)), o)
BY Options, MatrixIs, Structures DEF Overwrites

LEMMA MatrixEmptied ==
  ASSUME NEW d, NEW s, NEW to, NEW x, NEW y, NEW o \in {S!Overwrite, S!Replace}, Fresh(to, o)
  PROVE  S!merge5(Matrix(d, s, to), Matrix(x, y, <<>>), o) = Matrix(x, y, <<>>)
<1> DEFINE none == <<>>
<1>1. DOMAIN none = {}
  BY NewConfigIs
<1>2. S!merge4(S!Dict(NoTo, to), S!Dict(NoTo, none), o) = S!Dict(NoTo, none)
  BY <1>1, NoToMerged DEF Fresh
<1> HIDE DEF none
<1>3. Overwrites(Matrix(x, y, none), RoomKids(Relay(x), Relay(y), S!Dict(NoTo, none)), o)
  BY MatrixGiven
<1>4. S!merge5(Matrix(d, s, to), Matrix(x, y, none), o) = Matrix(x, y, none)
  BY <1>2, <1>3, MatrixSet
<1> QED BY <1>4 DEF none

LEMMA MatrixReplaced ==
  ASSUME NEW d, NEW s, NEW to, IsMap(to), DOMAIN to \in SUBSET {"g"}, NEW a, NEW f, Old(NoTo, to, "g") = To(a, f),
         NEW x, NEW y, NEW t, NEW w, IsMap(w), NEW o \in {S!Overwrite, S!Replace}, Fresh(f, o)
  PROVE  S!merge5(Matrix(d, s, to), Matrix(x, y, One(To(t, w))), o) = Matrix(x, y, One(To(t, w)))
<1> DEFINE n == One(To(t, w))
<1>1. S!merge3(To(a, f), To(t, w), o) = To(t, w)
  <2>1. CASE o = S!Overwrite
    BY <2>1, ToReplaced
  <2>2. CASE o = S!Replace
    BY <2>2, ToReplaced
  <2> QED BY <2>1, <2>2
<1>2. S!merge4(S!Dict(NoTo, to), S!Dict(NoTo, n), o) = S!Dict(NoTo, n)
  BY <1>1, OneToMerged
<1> HIDE DEF n
<1>3. Overwrites(Matrix(x, y, n), RoomKids(Relay(x), Relay(y), S!Dict(NoTo, n)), o)
  BY MatrixGiven
<1>4. S!merge5(Matrix(d, s, to), Matrix(x, y, n), o) = Matrix(x, y, n)
  BY <1>2, <1>3, MatrixSet
<1> QED BY <1>4 DEF n

LEMMA CopiedIs ==
  ASSUME NEW d, NEW s
  PROVE  /\ CopiedRelays(Matrix(d, s, <<>>)) = Matrix(d, s, <<>>)
         /\ \A t, f : IsMap(f) => CopiedRelays(Matrix(d, s, One(To(t, f)))) = Matrix(d, s, One(To(t, f)))
<1> DEFINE none == <<>>
           o == S!Overwrite
<1>1. NoRelays = Matrix(0, 0, none)
  BY DEF NoRelays, Matrix
<1>2. /\ IsMap(none) /\ DOMAIN none \in SUBSET {"g"} /\ Old(NoTo, none, "g") = To(0, none)
      /\ Fresh(none, o) /\ o \in {S!Overwrite, S!Replace}
  BY NewConfigIs DEF Old, NoTo, Fresh
<1>3. S!merge5(Matrix(0, 0, none), Matrix(d, s, none), o) = Matrix(d, s, none)
  BY <1>2, MatrixEmptied
<1> HIDE DEF none
<1>4. ASSUME NEW t, NEW f, IsMap(f)
      PROVE  S!merge5(Matrix(0, 0, none), Matrix(d, s, One(To(t, f))), o) = Matrix(d, s, One(To(t, f)))
  BY <1>2, <1>4, MatrixReplaced
<1> QED BY <1>1, <1>3, <1>4 DEF CopiedRelays, none

(* The map of relays                                                       *)

LEMMA MapRelay ==
  ASSUME NEW v
  PROVE  S!Map1(Relay(v)) = RelayDict(v) /\ S!Map2(Relay(v)) = RelayDict(v) /\ S!Map4(Relay(v)) = RelayDict(v)
<1> DEFINE f == [ChatAccess |-> S!Leaf(v)]
<1>1. DOMAIN f = {"ChatAccess"} /\ f["ChatAccess"] = S!Leaf(v) /\ IsMap(f)
  BY DEF IsMap
<1>2. Relay(v) = S!Struct(f) /\ RelayDict(v) = S!Dict(S!Nil, f)
  BY DEF Relay, RelayDict
<1> HIDE DEF f
<1>3. Inside(S!Struct(f), f, f)
  BY <1>1 DEF Inside
<1>4. \A k \in DOMAIN f : f[k] = S!Map0(f[k]) /\ f[k] = S!Map1(f[k]) /\ f[k] = S!Map3(f[k])
  BY <1>1, MapLeaf
<1> QED BY <1>2, <1>3, <1>4, MapNode1, MapNode2, MapNode4

LEMMA MapFroms ==
  ASSUME NEW f
  PROVE  S!Map2(S!Dict(Relay(0), Froms(f))) = S!Dict(S!Nil, FromDicts(f))
<1>1. Inside(S!Dict(Relay(0), Froms(f)), Froms(f), FromDicts(f))
  BY FromsOf DEF Inside
<1>2. \A k \in DOMAIN Froms(f) : FromDicts(f)[k] = S!Map1(Froms(f)[k])
  BY FromsOf, MapRelay
<1> QED BY <1>1, <1>2, MapNode2

LEMMA MapTo ==
  ASSUME NEW t, NEW f
  PROVE  S!Map3(To(t, f)) = ToDict(Ends, t, f)
<1> DEFINE g == ToKids(Ends, Relay(t), S!Dict(Relay(0), Froms(f)))
           r == ToKids(Ends, RelayDict(t), S!Dict(S!Nil, FromDicts(f)))
<1>1. /\ IsMap(r) /\ DOMAIN r = Ends /\ DOMAIN g = Ends
      /\ g["Default"] = Relay(t) /\ g["From"] = S!Dict(Relay(0), Froms(f))
      /\ r["Default"] = RelayDict(t) /\ r["From"] = S!Dict(S!Nil, FromDicts(f))
  BY ToKidsOf DEF Ends
<1>2. To(t, f) = S!Struct(g) /\ ToDict(Ends, t, f) = S!Dict(S!Nil, r)
  BY ToIs DEF ToDict
<1> HIDE DEF g, r
<1>3. Inside(S!Struct(g), g, r)
  BY <1>1 DEF Inside
<1>4. \A k \in DOMAIN g : r[k] = S!Map2(g[k])
  BY <1>1, MapRelay, MapFroms DEF Ends
<1> QED BY <1>2, <1>3, <1>4, MapNode3

LEMMA MapMatrix ==
  ASSUME NEW d, NEW s, NEW to, NEW n, S!Map4(S!Dict(NoTo, to)) = S!Dict(S!Nil, n)
  PROVE  S!Map5(Matrix(d, s, to)) = MatrixDict(d, s, n)
<1> DEFINE g == RoomKids(Relay(d), Relay(s), S!Dict(NoTo, to))
           r == RoomKids(RelayDict(d), RelayDict(s), S!Dict(S!Nil, n))
<1>1. /\ IsMap(r) /\ DOMAIN r = Rooms /\ DOMAIN g = Rooms
      /\ g["Default"] = Relay(d) /\ g["DefaultSelf"] = Relay(s) /\ g["To"] = S!Dict(NoTo, to)
      /\ r["Default"] = RelayDict(d) /\ r["DefaultSelf"] = RelayDict(s) /\ r["To"] = S!Dict(S!Nil, n)
  BY RoomKidsOf
<1>2. Matrix(d, s, to) = S!Struct(g) /\ MatrixDict(d, s, n) = S!Dict(S!Nil, r)
  BY MatrixIs DEF MatrixDict
<1> HIDE DEF g, r
<1>3. Inside(S!Struct(g), g, r)
  BY <1>1 DEF Inside
<1>4. \A k \in DOMAIN g : r[k] = S!Map4(g[k])
  BY <1>1, MapRelay DEF Rooms
<1> QED BY <1>2, <1>3, <1>4, MapNode5

LEMMA MapsOfMatrix ==
  ASSUME NEW d, NEW s
  PROVE  /\ S!Map5(Matrix(d, s, <<>>)) = MatrixDict(d, s, <<>>)
         /\ \A t, f : S!Map5(Matrix(d, s, One(To(t, f)))) = MatrixDict(d, s, One(ToDict(Ends, t, f)))
<1>1. S!Map5(Matrix(d, s, <<>>)) = MatrixDict(d, s, <<>>)
  <2> DEFINE none == <<>>
  <2>1. IsMap(none) /\ DOMAIN none = {}
    BY NewConfigIs
  <2> HIDE DEF none
  <2>2. Inside(S!Dict(NoTo, none), none, none)
    BY <2>1 DEF Inside
  <2>3. S!Map4(S!Dict(NoTo, none)) = S!Dict(S!Nil, none)
    BY <2>1, <2>2, MapNode4
  <2>4. S!Map5(Matrix(d, s, none)) = MatrixDict(d, s, none)
    BY <2>3, MapMatrix
  <2> QED BY <2>4 DEF none
<1>2. ASSUME NEW t, NEW f
      PROVE  S!Map5(Matrix(d, s, One(To(t, f)))) = MatrixDict(d, s, One(ToDict(Ends, t, f)))
  <2> DEFINE g == One(To(t, f))
             r == One(ToDict(Ends, t, f))
  <2>1. DOMAIN g = {"g"} /\ g["g"] = To(t, f) /\ IsMap(r) /\ DOMAIN r = {"g"} /\ r["g"] = ToDict(Ends, t, f)
    BY OneIs
  <2> HIDE DEF g, r
  <2>2. Inside(S!Dict(NoTo, g), g, r)
    BY <2>1 DEF Inside
  <2>3. \A k \in DOMAIN g : r[k] = S!Map3(g[k])
    BY <2>1, MapTo
  <2>4. S!Map4(S!Dict(NoTo, g)) = S!Dict(S!Nil, r)
    BY <2>2, <2>3, MapNode4
  <2>5. S!Map5(Matrix(d, s, g)) = MatrixDict(d, s, r)
    BY <2>4, MapMatrix
  <2> QED BY <2>5 DEF g, r
<1> QED BY <1>1, <1>2

(* What the map keeps: the relays that differ from the default they would  *)
(* get, the default of the relays to g if it differs from that of all.     *)
Distinct(f, s, t) == Restrict(f, {k \in DOMAIN f : f[k] # IF k = "g" THEN s ELSE t})
KeptEnds(d, t, w) == {k \in Ends : IF k = "Default" THEN t # d ELSE DOMAIN w # {}}
KeptTo(d, s, t, f) ==
  IF KeptEnds(d, t, Distinct(f, s, t)) = {} THEN <<>>
  ELSE One(ToDict(KeptEnds(d, t, Distinct(f, s, t)), t, Distinct(f, s, t)))

LEMMA RelaysEqual ==
  ASSUME NEW v, NEW w
  PROVE  /\ RelayDict(v) = RelayDict(w) <=> v = w
         /\ Relay(v) = Relay(w) <=> v = w
BY Dicts, Structures, Leaves DEF RelayDict, Relay

LEMMA DistinctOf ==
  ASSUME NEW f, NEW s, NEW t
  PROVE  /\ IsMap(Distinct(f, s, t))
         /\ DOMAIN Distinct(f, s, t) = {k \in DOMAIN f : f[k] # IF k = "g" THEN s ELSE t}
         /\ \A k \in DOMAIN Distinct(f, s, t) : Distinct(f, s, t)[k] = f[k]
BY DEF Distinct, IsMap, Restrict

LEMMA MatrixKids ==
  ASSUME NEW d, NEW s, NEW to
  PROVE  /\ MatrixDict(d, s, to).kids.Default = RelayDict(d)
         /\ MatrixDict(d, s, to).kids.DefaultSelf = RelayDict(s)
         /\ MatrixDict(d, s, to).kids.To = S!Dict(S!Nil, to)
         /\ MatrixDict(d, s, to).kids.To.kids = to
         /\ \A x : Put(MatrixDict(d, s, to), "To", S!Dict(S!Nil, x)) = MatrixDict(d, s, x)
<1> DEFINE f == RoomKids(RelayDict(d), RelayDict(s), S!Dict(S!Nil, to))
<1>1. f["Default"] = RelayDict(d) /\ f["DefaultSelf"] = RelayDict(s) /\ f["To"] = S!Dict(S!Nil, to)
  BY RoomKidsOf
<1>2. MatrixDict(d, s, to) = S!Dict(S!Nil, f) /\ MatrixDict(d, s, to).kids = f
  BY Dicts DEF MatrixDict
<1>3. ASSUME NEW x
      PROVE  Put(MatrixDict(d, s, to), "To", S!Dict(S!Nil, x)) = MatrixDict(d, s, x)
  <2> DEFINE y == S!Dict(S!Nil, x)
  <2>1. [f EXCEPT !["To"] = y] = RoomKids(RelayDict(d), RelayDict(s), y)
    BY DEF RoomKids, Rooms
  <2> HIDE DEF f, y
  <2>2. Put(S!Dict(S!Nil, f), "To", y) = S!Dict(S!Nil, [f EXCEPT !["To"] = y])
    BY PutOf
  <2> QED BY <1>2, <2>1, <2>2 DEF MatrixDict, y
<1> HIDE DEF f
<1>4. S!Dict(S!Nil, to).kids = to
  BY Dicts
<1> QED BY <1>1, <1>2, <1>3, <1>4

LEMMA ReducedIs ==
  ASSUME NEW d, NEW s, NEW to, NEW t, NEW f,
         NEW w, w = Distinct(f, s, t)
  PROVE  Reduced(MatrixDict(d, s, to), "g", ToDict(Ends, t, f)) = ToDict(KeptEnds(d, t, w), t, w)
<1> DEFINE r == MatrixDict(d, s, to)
           m == ToDict(Ends, t, f)
           g == FromDicts(f)
           h == FromDicts(w)
           kids == ToKids(Ends, RelayDict(t), S!Dict(S!Nil, g))
           from == S!Dict(S!Nil, h)
           left == ToKids(Ends, RelayDict(t), from)
           same == {k \in DOMAIN g : g[k] = IF k = "g" THEN RelayDict(s) ELSE RelayDict(t)}
           gone == {x \in {"Default"} : RelayDict(t) = RelayDict(d)} \cup {x \in {"From"} : S!empty(from)}
<1>1. r.kids.Default = RelayDict(d) /\ r.kids.DefaultSelf = RelayDict(s)
  BY MatrixKids
<1>2. /\ m = S!Dict(S!Nil, kids) /\ m.kids = kids
      /\ kids["Default"] = RelayDict(t) /\ kids["From"] = S!Dict(S!Nil, g)
      /\ S!Dict(S!Nil, g).kids = g
  BY Dicts, ToKidsOf DEF ToDict, Ends
<1>3. S!Without(S!Dict(S!Nil, g), same) = from
  <2>1. Restrict(g, DOMAIN g \ same) = h
    <3>1. DOMAIN g = DOMAIN f /\ \A k \in DOMAIN f : g[k] = RelayDict(f[k])
      BY FromsOf
    <3>2. DOMAIN h = DOMAIN w /\ IsMap(h) /\ \A k \in DOMAIN w : h[k] = RelayDict(w[k])
      BY FromsOf
    <3>3. /\ DOMAIN w = {k \in DOMAIN f : f[k] # IF k = "g" THEN s ELSE t}
          /\ \A k \in DOMAIN w : w[k] = f[k]
      BY DEF Distinct, Restrict
    <3>4. \A k \in DOMAIN g : k \in same <=> f[k] = IF k = "g" THEN s ELSE t
      <4> HIDE DEF g
      <4>1. \A k \in DOMAIN f : (RelayDict(f[k]) = RelayDict(s) <=> f[k] = s)
                              /\ (RelayDict(f[k]) = RelayDict(t) <=> f[k] = t)
        BY RelaysEqual
      <4> QED BY <3>1, <4>1
    <3> HIDE DEF g, h, same
    <3>5. DOMAIN g \ same = DOMAIN w
      BY <3>1, <3>3, <3>4
    <3>6. \A k \in DOMAIN w : g[k] = h[k]
      BY <3>1, <3>2, <3>3
    <3> QED BY <3>2, <3>5, <3>6 DEF IsMap, Restrict
  <2> QED BY <2>1, WithoutOf
<1>4. Put(m, "From", from) = S!Dict(S!Nil, left)
  <2>1. [kids EXCEPT !["From"] = from] = left
    BY DEF ToKids, Ends
  <2> HIDE DEF kids, from, left
  <2> QED BY <1>2, <2>1, PutOf
<1>5. S!Without(S!Dict(S!Nil, left), gone) = ToDict(KeptEnds(d, t, w), t, w)
  <2>1. Ends \ gone = KeptEnds(d, t, w)
    <3>1. S!empty(from) <=> DOMAIN w = {}
      BY Dicts, FromsOf
    <3>2. RelayDict(t) = RelayDict(d) <=> t = d
      BY RelaysEqual
    <3> HIDE DEF from
    <3>3. \A x \in Ends : x \in gone <=> IF x = "Default" THEN t = d ELSE DOMAIN w = {}
      BY <3>1, <3>2 DEF Ends
    <3> HIDE DEF gone
    <3> QED BY <3>3 DEF KeptEnds
  <2>2. DOMAIN left = Ends
    BY ToKidsOf
  <2>3. Restrict(left, KeptEnds(d, t, w)) = ToKids(KeptEnds(d, t, w), RelayDict(t), from)
    <3> HIDE DEF from
    <3> QED BY <2>2 DEF Restrict, ToKids, KeptEnds
  <2>4. S!Without(S!Dict(S!Nil, left), gone) = S!Dict(S!Nil, Restrict(left, DOMAIN left \ gone))
    BY WithoutOf
  <2> HIDE DEF left, gone
  <2> QED BY <2>1, <2>2, <2>3, <2>4 DEF ToDict
<1>6. same = {k \in DOMAIN g : g[k] = IF k = "g" THEN r.kids.DefaultSelf ELSE kids["Default"]}
  BY <1>1, <1>2
<1> HIDE DEF r, m, g, h, kids, from, left
<1>7. Reduced(r, "g", m) =
        S!Without(Put(m, "From", S!Without(S!Dict(S!Nil, g), same)),
          {x \in {"Default"} : RelayDict(t) = RelayDict(d)}
            \cup {x \in {"From"} : S!empty(S!Without(S!Dict(S!Nil, g), same))})
  BY <1>1, <1>2 DEF Reduced
<1>8. Reduced(r, "g", m) = S!Without(S!Dict(S!Nil, left), gone)
  BY <1>3, <1>4, <1>7
<1> QED BY <1>5, <1>8 DEF r, m

LEMMA RelayMapIs ==
  ASSUME NEW d, NEW s, NEW t, NEW f
  PROVE  RelayMap(MatrixDict(d, s, One(ToDict(Ends, t, f)))) = MatrixDict(d, s, KeptTo(d, s, t, f))
<1> DEFINE x == ToDict(Ends, t, f)
           r == MatrixDict(d, s, One(x))
           w == Distinct(f, s, t)
           E == KeptEnds(d, t, w)
           y == ToDict(E, t, w)
           to == One(y)
<1>1. r.kids.To.kids = One(x) /\ \A n : Put(r, "To", S!Dict(S!Nil, n)) = MatrixDict(d, s, n)
  BY MatrixKids
<1>2. Reduced(r, "g", x) = y
  BY ReducedIs
<1>3. y.kids # <<>> <=> E # {}
  <2>1. y.kids = ToKids(E, RelayDict(t), S!Dict(S!Nil, FromDicts(w)))
    BY Dicts DEF ToDict
  <2>2. E \in SUBSET Ends
    BY DEF KeptEnds
  <2>3. DOMAIN y.kids = E /\ IsMap(y.kids)
    BY <2>1, <2>2, ToKidsOf
  <2>4. IsMap(<<>>) /\ DOMAIN <<>> = {}
    BY NewConfigIs
  <2> HIDE DEF y, E
  <2> QED BY <2>3, <2>4 DEF IsMap
<1> HIDE DEF r, x, y, E
<1>4. [k \in DOMAIN r.kids.To.kids |-> Reduced(r, k, r.kids.To.kids[k])] = to
  BY <1>1, <1>2 DEF One
<1>5. RelayMap(r) = Put(r, "To", S!Dict(S!Nil, Restrict(to, {k \in DOMAIN to : to[k].kids # <<>>})))
  BY <1>4 DEF RelayMap
<1>6. Restrict(to, {k \in DOMAIN to : to[k].kids # <<>>}) = KeptTo(d, s, t, f)
  <2>1. DOMAIN to = {"g"} /\ to["g"] = y /\ IsMap(to)
    BY OneIs
  <2>2. CASE E = {}
    <3>1. {k \in DOMAIN to : to[k].kids # <<>>} = {}
      BY <1>3, <2>1, <2>2
    <3> DEFINE none == <<>>
    <3>2. IsMap(none) /\ DOMAIN none = {}
      BY NewConfigIs
    <3> HIDE DEF none
    <3>3. Restrict(to, {}) = none
      BY <3>2 DEF Restrict, IsMap
    <3> QED BY <2>2, <3>1, <3>3 DEF KeptTo, none, E
  <2>3. CASE E # {}
    <3>1. {k \in DOMAIN to : to[k].kids # <<>>} = {"g"}
      BY <1>3, <2>1, <2>3
    <3> HIDE DEF to
    <3>2. Restrict(to, {"g"}) = to
      BY <2>1 DEF Restrict, IsMap
    <3> QED BY <2>3, <3>1, <3>2 DEF KeptTo, E, to, y
  <2> QED BY <2>2, <2>3
<1> QED BY <1>1, <1>5, <1>6 DEF r, x

LEMMA RelayMapNone ==
  ASSUME NEW d, NEW s
  PROVE  RelayMap(MatrixDict(d, s, <<>>)) = MatrixDict(d, s, <<>>)
<1> DEFINE none == <<>>
           r == MatrixDict(d, s, none)
<1>1. r.kids.To.kids = none /\ \A n : Put(r, "To", S!Dict(S!Nil, n)) = MatrixDict(d, s, n)
  BY MatrixKids
<1>2. IsMap(none) /\ DOMAIN none = {}
  BY NewConfigIs
<1> HIDE DEF r, none
<1> DEFINE to == [k \in DOMAIN r.kids.To.kids |-> Reduced(r, k, r.kids.To.kids[k])]
<1>3. to = none
  BY <1>1, <1>2 DEF IsMap
<1>4. RelayMap(r) = Put(r, "To", S!Dict(S!Nil, Restrict(to, {k \in DOMAIN to : to[k].kids # <<>>})))
  BY DEF RelayMap
<1> HIDE DEF to
<1>5. Restrict(to, {k \in DOMAIN to : to[k].kids # <<>>}) = none
  BY <1>2, <1>3 DEF IsMap, Restrict
<1> QED BY <1>1, <1>4, <1>5 DEF r, none

LEMMA MapOfRelaysIs ==
  ASSUME NEW d, NEW s
  PROVE  /\ MapOfRelays(Matrix(d, s, <<>>)) = MatrixDict(d, s, <<>>)
         /\ \A t, f : MapOfRelays(Matrix(d, s, One(To(t, f)))) = MatrixDict(d, s, KeptTo(d, s, t, f))
<1>1. MapOfRelays(Matrix(d, s, <<>>)) = MatrixDict(d, s, <<>>)
  BY MapsOfMatrix, RelayMapNone DEF MapOfRelays
<1>2. ASSUME NEW t, NEW f
      PROVE  MapOfRelays(Matrix(d, s, One(To(t, f)))) = MatrixDict(d, s, KeptTo(d, s, t, f))
  <2>1. S!Map5(Matrix(d, s, One(To(t, f)))) = MatrixDict(d, s, One(ToDict(Ends, t, f)))
    BY MapsOfMatrix
  <2> QED BY <2>1, RelayMapIs DEF MapOfRelays
<1> QED BY <1>1, <1>2

LEMMA MatrixDictIsMap ==
  ASSUME NEW d, NEW s, NEW n
  PROVE  MatrixDict(d, s, n).type = "map"
BY Dicts DEF MatrixDict

(* The relays that are left once those that equal their default are not in *)
(* the map, and the default of the relays to g is not if it is that of all.*)
Rest(d, s, t, f) ==
  IF KeptEnds(d, t, Distinct(f, s, t)) = {} THEN <<>> ELSE One(To(Own(t, d), Distinct(f, s, t)))

LEMMA KeptMerged ==
  ASSUME NEW d, NEW s, NEW t, NEW f
  PROVE  S!merge4(S!Dict(NoTo, <<>>), S!Dict(S!Nil, KeptTo(d, s, t, f)), S!Overwrite) = S!Dict(NoTo, Rest(d, s, t, f))
<1> DEFINE none == <<>>
           w == Distinct(f, s, t)
           E == KeptEnds(d, t, w)
           b == Own(t, d)
           o == S!Overwrite
           x == ToDict(E, t, w)
<1>1. /\ IsMap(none) /\ DOMAIN none = {} /\ Old(NoTo, none, "g") = To(0, none)
      /\ IsMap(w) /\ Overlaid(none, w) = w
  <2>1. IsMap(w)
    BY DistinctOf
  <2>2. IsMap(none) /\ DOMAIN none = {}
    BY NewConfigIs
  <2> HIDE DEF w
  <2>3. Overlaid(none, w) = w
    BY <2>1, OverlaidNone
  <2> HIDE DEF none
  <2> QED BY <2>1, <2>2, <2>3 DEF Old, NoTo, none
<1>2. DOMAIN none \in SUBSET {"g"}
  BY NewConfigIs
<1>3. CASE E = {}
  <2> HIDE DEF none, o
  <2>1. S!merge4(S!Dict(NoTo, none), S!Dict(S!Nil, none), o) = S!Dict(NoTo, none)
    BY <1>1, NoToMerged DEF none
  <2> QED BY <1>3, <2>1 DEF KeptTo, Rest, none, o
<1>4. CASE E # {}
  <2>1. Replaces(E, 0, t, b, none, w, w)
    <3>1. "From" \notin E => DOMAIN w = {}
      BY DEF KeptEnds, Ends
    <3>2. "From" \notin E => w = none
      <4> HIDE DEF w, none, E
      <4> QED BY <1>1, <3>1 DEF IsMap
    <3>3. b = IF "Default" \in E THEN t ELSE 0
      BY DEF KeptEnds, Ends, Own
    <3>4. E \in SUBSET Ends
      BY DEF KeptEnds
    <3> HIDE DEF w, none, E, b
    <3> QED BY <3>2, <3>3, <3>4 DEF Replaces
  <2> HIDE DEF none, w, E, b, o
  <2>2. S!merge3(To(0, none), x, o) = To(b, w)
    <3>1. Replaces(E, 0, t, b, none, Overlaid(none, w), w)
      BY <1>1, <2>1
    <3> QED BY <1>1, <3>1, ToOverlaid DEF o
  <2> HIDE DEF x
  <2>3. S!merge4(S!Dict(NoTo, none), S!Dict(S!Nil, One(x)), o) =
          S!Dict(NoTo, One(S!merge3(Old(NoTo, none, "g"), x, o)))
    BY <1>1, <1>2, OneToMerged
  <2>4. S!merge4(S!Dict(NoTo, none), S!Dict(S!Nil, One(x)), o) = S!Dict(NoTo, One(To(b, w)))
    BY <1>1, <2>2, <2>3
  <2> QED BY <1>4, <2>4 DEF KeptTo, Rest, none, o, x, w, E, b
<1> QED BY <1>3, <1>4

LEMMA RebuiltIs ==
  ASSUME NEW d, NEW s
  PROVE  /\ Rebuilt(Matrix(d, s, <<>>)) = Matrix(d, s, <<>>)
         /\ \A t, f : Rebuilt(Matrix(d, s, One(To(t, f)))) = Matrix(d, s, Rest(d, s, t, f))
<1> DEFINE none == <<>>
           p == RelayDict(d)
           q == RelayDict(s)
           o == S!Overwrite
<1>1. NoRelays = Matrix(0, 0, none)
  BY DEF NoRelays, Matrix
<1>2. IsRelay(p, d) /\ IsRelay(q, s)
  BY DEF IsRelay
<1>3. ASSUME NEW m, NEW n, S!merge4(S!Dict(NoTo, none), S!Dict(S!Nil, m), o) = S!Dict(NoTo, n)
      PROVE  S!merge5(NoRelays, MatrixDict(d, s, m), o) = Matrix(d, s, n)
  <2> DEFINE z == S!Dict(S!Nil, m)
             src == MatrixDict(d, s, m)
  <2>1. Overwrites(src, RoomKids(p, q, z), o)
    BY Dicts DEF Overwrites, MatrixDict
  <2>2. S!merge4(S!Dict(NoTo, none), z, o) = S!Dict(NoTo, n)
    BY <1>3
  <2> HIDE DEF z, src, none, p, q
  <2>3. S!merge5(Matrix(0, 0, none), src, o) = Matrix(d, s, n)
    BY <1>2, <2>1, <2>2, MatrixMerged
  <2> QED BY <1>1, <2>3 DEF src
<1>4. DOMAIN none = {} /\ S!merge4(S!Dict(NoTo, none), S!Dict(S!Nil, none), o) = S!Dict(NoTo, none)
  BY NewConfigIs, NoToMerged
<1>5. Rebuilt(Matrix(d, s, none)) = Matrix(d, s, none)
  <2>1. S!merge5(NoRelays, MatrixDict(d, s, none), o) = Matrix(d, s, none)
    <3> HIDE DEF none, o
    <3> QED BY <1>3, <1>4
  <2> QED BY <2>1, MapOfRelaysIs DEF Rebuilt, MapOfRelays
<1>6. ASSUME NEW t, NEW f
      PROVE  Rebuilt(Matrix(d, s, One(To(t, f)))) = Matrix(d, s, Rest(d, s, t, f))
  <2> DEFINE m == KeptTo(d, s, t, f)
             n == Rest(d, s, t, f)
  <2>1. S!merge4(S!Dict(NoTo, none), S!Dict(S!Nil, m), o) = S!Dict(NoTo, n)
    BY KeptMerged
  <2>2. RelayMap(S!Map5(Matrix(d, s, One(To(t, f))))) = MatrixDict(d, s, m)
    BY MapOfRelaysIs DEF MapOfRelays
  <2> HIDE DEF m, n, none
  <2>3. S!merge5(NoRelays, MatrixDict(d, s, m), o) = Matrix(d, s, n)
    BY <1>3, <2>1
  <2> QED BY <2>2, <2>3 DEF Rebuilt, n, o
<1> QED BY <1>5, <1>6

(* The relay a gateway gets, found and assigned                            *)

LEMMA InFroms ==
  ASSUME NEW f, NEW k
  PROVE  /\ S!Kid(S!Dict(Relay(0), Froms(f)), k) = IF k \in DOMAIN f THEN Relay(f[k]) ELSE S!Nil
         /\ \A v : S!With(S!Dict(Relay(0), Froms(f)), k, Relay(v)) = S!Dict(Relay(0), Froms(Plus(f, k, v)))
<1>1. DOMAIN Froms(f) = DOMAIN f /\ \A j \in DOMAIN f : Froms(f)[j] = Relay(f[j])
  BY FromsOf
<1>2. ASSUME NEW v
      PROVE  Froms(Plus(f, k, v)) = Plus(Froms(f), k, Relay(v))
  BY <1>1 DEF Plus, Froms
<1> QED BY <1>1, <1>2, KidWith

LEMMA InTo ==
  ASSUME NEW t, NEW f
  PROVE  /\ S!Kid(To(t, f), "From") = S!Dict(Relay(0), Froms(f))
         /\ \A w : S!With(To(t, f), "From", S!Dict(Relay(0), Froms(w))) = To(t, w)
         /\ To(t, f).kids.Default = Relay(t)
         /\ To(t, f).kids.From.kids = Froms(f)
<1> DEFINE g(w) == ToKids(Ends, Relay(t), S!Dict(Relay(0), Froms(w)))
<1>1. \A w : /\ To(t, w) = S!Struct(g(w)) /\ DOMAIN g(w) = Ends
             /\ g(w)["Default"] = Relay(t) /\ g(w)["From"] = S!Dict(Relay(0), Froms(w))
  BY ToIs, ToKidsOf DEF Ends
<1>2. "Default" \in Ends /\ "From" \in Ends
  BY DEF Ends
<1>3. \A w : Plus(g(f), "From", S!Dict(Relay(0), Froms(w))) = g(w)
  BY DEF Plus, ToKids, Ends
<1> HIDE DEF g
<1>4. S!Struct(g(f)).kids = g(f) /\ S!Dict(Relay(0), Froms(f)).kids = Froms(f)
  BY Structures, Dicts
<1> QED BY <1>1, <1>2, <1>3, <1>4, KidWith

LEMMA InMatrix ==
  ASSUME NEW d, NEW s, NEW to
  PROVE  /\ S!Kid(Matrix(d, s, to), "To") = S!Dict(NoTo, to)
         /\ \A x : S!With(Matrix(d, s, to), "To", S!Dict(NoTo, x)) = Matrix(d, s, x)
         /\ Matrix(d, s, to).kids.Default = Relay(d)
         /\ Matrix(d, s, to).kids.DefaultSelf = Relay(s)
         /\ Matrix(d, s, to).kids.To.kids = to
<1> DEFINE g(x) == RoomKids(Relay(d), Relay(s), S!Dict(NoTo, x))
<1>1. \A x : /\ Matrix(d, s, x) = S!Struct(g(x)) /\ DOMAIN g(x) = Rooms
             /\ g(x)["Default"] = Relay(d) /\ g(x)["DefaultSelf"] = Relay(s) /\ g(x)["To"] = S!Dict(NoTo, x)
  BY MatrixIs, RoomKidsOf
<1>2. "To" \in Rooms
  BY DEF Rooms
<1>3. \A x : Plus(g(to), "To", S!Dict(NoTo, x)) = g(x)
  BY DEF Plus, RoomKids, Rooms
<1> HIDE DEF g
<1>4. S!Struct(g(to)).kids = g(to) /\ S!Dict(NoTo, to).kids = to
  BY Structures, Dicts
<1> QED BY <1>1, <1>2, <1>3, <1>4, KidWith

LEMMA InChained ==
  ASSUME NEW t, NEW bt, NEW ba, NEW bu, NEW gt, NEW ga, NEW gu, NEW r
  PROVE  /\ S!Kid(Chained(t, bt, ba, bu, gt, ga, gu, r), "Relay") = r
         /\ \A q : S!With(Chained(t, bt, ba, bu, gt, ga, gu, r), "Relay", q) = Chained(t, bt, ba, bu, gt, ga, gu, q)
         /\ Chained(t, bt, ba, bu, gt, ga, gu, r).kids.Relay = r
BY InTree, ParamsOfTree DEF Chained

(* The relay from a gateway to g, when those to g are To(t, f).            *)
Heard(s, t, f, from) == IF from \in DOMAIN f THEN f[from] ELSE IF from = "g" THEN s ELSE t

LEMMA ToAssigned ==
  ASSUME NEW t, NEW bt, NEW ba, NEW bu, NEW gt, NEW ga, NEW gu, NEW d, NEW s, NEW to, IsMap(to), DOMAIN to \in SUBSET {"g"},
         NEW z, NEW c, c = Chained(t, bt, ba, bu, gt, ga, gu, Matrix(d, s, to))
  PROVE  S!Assign(c, <<"Relay", "To", "g">>, z) = Chained(t, bt, ba, bu, gt, ga, gu, Matrix(d, s, One(z)))
<1> DEFINE m == Matrix(d, s, to)
           x == S!Dict(NoTo, to)
           New(q) == Chained(t, bt, ba, bu, gt, ga, gu, q)
<1>1. S!Kid(c, "Relay") = m /\ \A q : S!With(c, "Relay", q) = New(q)
  BY InChained
<1>2. S!Kid(m, "To") = x /\ \A n : S!With(m, "To", S!Dict(NoTo, n)) = Matrix(d, s, n)
  BY InMatrix
<1>3. S!With(x, "g", z) = S!Dict(NoTo, One(z))
  <2>1. Plus(to, "g", z) = One(z)
    BY DEF Plus, One
  <2> QED BY <2>1, KidWith
<1>4. S!Assign(c, <<"Relay", "To", "g">>, z) =
        S!With(c, "Relay", S!With(S!Kid(c, "Relay"), "To", S!With(S!Kid(S!Kid(c, "Relay"), "To"), "g", z)))
  BY Assign3
<1> HIDE DEF m, x, New
<1> QED BY <1>1, <1>2, <1>3, <1>4 DEF New

(* The values on the way to the relays from gateways to g.                 *)
LEMMA WayToFroms ==
  ASSUME NEW t, NEW bt, NEW ba, NEW bu, NEW gt, NEW ga, NEW gu, NEW d, NEW s, NEW a, NEW f,
         NEW c, c = Chained(t, bt, ba, bu, gt, ga, gu, Matrix(d, s, One(To(a, f))))
  PROVE  /\ S!Kid(S!Kid(S!Kid(S!Kid(c, "Relay"), "To"), "g"), "From") = S!Dict(Relay(0), Froms(f))
         /\ \A w : S!With(c, "Relay", S!With(S!Kid(c, "Relay"), "To", S!With(S!Kid(S!Kid(c, "Relay"), "To"), "g",
                     S!With(S!Kid(S!Kid(S!Kid(c, "Relay"), "To"), "g"), "From", S!Dict(Relay(0), Froms(w)))))) =
                     Chained(t, bt, ba, bu, gt, ga, gu, Matrix(d, s, One(To(a, w))))
<1> DEFINE z == To(a, f)
           m == Matrix(d, s, One(z))
           x == S!Dict(NoTo, One(z))
           y == S!Dict(Relay(0), Froms(f))
           New(q) == Chained(t, bt, ba, bu, gt, ga, gu, q)
<1>1. S!Kid(c, "Relay") = m /\ \A q : S!With(c, "Relay", q) = New(q)
  BY InChained
<1>2. S!Kid(m, "To") = x /\ \A n : S!With(m, "To", S!Dict(NoTo, n)) = Matrix(d, s, n)
  BY InMatrix
<1>3. S!Kid(x, "g") = z /\ \A n : S!With(x, "g", n) = S!Dict(NoTo, One(n))
  <2> HIDE DEF z
  <2> QED BY InOne
<1>4. S!Kid(z, "From") = y /\ \A w : S!With(z, "From", S!Dict(Relay(0), Froms(w))) = To(a, w)
  BY InTo
<1> HIDE DEF m, x, y, z, New
<1>5. S!Kid(S!Kid(S!Kid(S!Kid(c, "Relay"), "To"), "g"), "From") = y
  BY <1>1, <1>2, <1>3, <1>4
<1>6. \A w : S!With(c, "Relay", S!With(S!Kid(c, "Relay"), "To", S!With(S!Kid(S!Kid(c, "Relay"), "To"), "g",
            S!With(S!Kid(S!Kid(S!Kid(c, "Relay"), "To"), "g"), "From", S!Dict(Relay(0), Froms(w)))))) =
              New(Matrix(d, s, One(To(a, w))))
  BY <1>1, <1>2, <1>3, <1>4
<1> QED BY <1>5, <1>6 DEF y, New

LEMMA FromAssigned ==
  ASSUME NEW t, NEW bt, NEW ba, NEW bu, NEW gt, NEW ga, NEW gu, NEW d, NEW s, NEW a, NEW f, NEW from, NEW v,
         NEW c, c = Chained(t, bt, ba, bu, gt, ga, gu, Matrix(d, s, One(To(a, f))))
  PROVE  S!Assign(c, <<"Relay", "To", "g", "From", from>>, Relay(v)) =
           Chained(t, bt, ba, bu, gt, ga, gu, Matrix(d, s, One(To(a, Plus(f, from, v)))))
<1> DEFINE y == S!Dict(Relay(0), Froms(f))
           k == S!Kid(S!Kid(S!Kid(S!Kid(c, "Relay"), "To"), "g"), "From")
           Up(q) == S!With(c, "Relay", S!With(S!Kid(c, "Relay"), "To", S!With(S!Kid(S!Kid(c, "Relay"), "To"), "g",
                      S!With(S!Kid(S!Kid(S!Kid(c, "Relay"), "To"), "g"), "From", q))))
           New(w) == Chained(t, bt, ba, bu, gt, ga, gu, Matrix(d, s, One(To(a, w))))
<1>1. k = y /\ \A w : Up(S!Dict(Relay(0), Froms(w))) = New(w)
  BY WayToFroms
<1>2. S!With(y, from, Relay(v)) = S!Dict(Relay(0), Froms(Plus(f, from, v)))
  BY InFroms
<1>3. S!Assign(c, <<"Relay", "To", "g", "From", from>>, Relay(v)) = Up(S!With(k, from, Relay(v)))
  BY Assign5
<1> HIDE DEF k, y, Up, New
<1> QED BY <1>1, <1>2, <1>3 DEF New

LEMMA FromFound ==
  ASSUME NEW t, NEW bt, NEW ba, NEW bu, NEW gt, NEW ga, NEW gu, NEW d, NEW s, NEW a, NEW f, NEW from,
         NEW c, c = Chained(t, bt, ba, bu, gt, ga, gu, Matrix(d, s, One(To(a, f))))
  PROVE  S!Find(c, <<"Relay", "To", "g", "From", from>>) = IF from \in DOMAIN f THEN Relay(f[from]) ELSE S!Nil
<1>1. S!Kid(S!Kid(S!Kid(S!Kid(c, "Relay"), "To"), "g"), "From") = S!Dict(Relay(0), Froms(f))
  BY WayToFroms
<1>2. S!Find(c, <<"Relay", "To", "g", "From", from>>) =
        S!Kid(S!Kid(S!Kid(S!Kid(S!Kid(c, "Relay"), "To"), "g"), "From"), from)
  BY Find5
<1> QED BY <1>1, <1>2, InFroms

LEMMA GetRelayIs ==
  ASSUME NEW t, NEW bt, NEW ba, NEW bu, NEW gt, NEW ga, NEW gu, NEW d, NEW s, NEW to, IsMap(to), DOMAIN to \in SUBSET {"g"},
         NEW a, NEW f, Old(To(d, <<>>), to, "g") = To(a, f), NEW from
  PROVE  GetRelay(Chained(t, bt, ba, bu, gt, ga, gu, Matrix(d, s, to)), "g", from) =
           Chained(t, bt, ba, bu, gt, ga, gu, Matrix(d, s, One(To(a, Plus(f, from, Heard(s, a, f, from))))))
<1> DEFINE c == Chained(t, bt, ba, bu, gt, ga, gu, Matrix(d, s, to))
           r == c.kids.Relay.kids
           z == To(a, f)
           v == Heard(s, a, f, from)
           c1 == Chained(t, bt, ba, bu, gt, ga, gu, Matrix(d, s, One(z)))
<1>1. r.Default = Relay(d) /\ r.DefaultSelf = Relay(s) /\ r.To.kids = to
  BY InChained, InMatrix
<1>2. (IF "g" \in DOMAIN r.To.kids THEN r.To.kids["g"] ELSE RelayTo(r.Default, <<>>)) = z
  <2>1. RelayTo(Relay(d), <<>>) = To(d, <<>>)
    <3>1. Froms(<<>>) = <<>>
      BY DEF Froms
    <3> QED BY <3>1 DEF To
  <2> HIDE DEF r, z
  <2> QED BY <1>1, <2>1 DEF Old, z
<1>3. (IF from \in DOMAIN z.kids.From.kids THEN z.kids.From.kids[from]
       ELSE IF "g" = from THEN r.DefaultSelf ELSE z.kids.Default) = Relay(v)
  <2>1. z.kids.From.kids = Froms(f) /\ z.kids.Default = Relay(a)
    BY InTo
  <2>2. DOMAIN Froms(f) = DOMAIN f /\ \A k \in DOMAIN f : Froms(f)[k] = Relay(f[k])
    BY FromsOf
  <2> HIDE DEF r, z
  <2> QED BY <1>1, <2>1, <2>2 DEF Heard
<1>4. S!Assign(c, <<"Relay", "To", "g">>, z) = c1
  <2> HIDE DEF z
  <2> QED BY ToAssigned
<1>5. S!Assign(c1, <<"Relay", "To", "g", "From", from>>, Relay(v)) =
        Chained(t, bt, ba, bu, gt, ga, gu, Matrix(d, s, One(To(a, Plus(f, from, v)))))
  <2> HIDE DEF v, c1
  <2>1. c1 = Chained(t, bt, ba, bu, gt, ga, gu, Matrix(d, s, One(To(a, f))))
    BY DEF c1
  <2> QED BY <2>1, FromAssigned
<1> HIDE DEF c, r, z, v, c1
<1>6. GetRelay(c, "g", from) =
        S!Assign(S!Assign(c, <<"Relay", "To", "g">>, z), <<"Relay", "To", "g", "From", from>>, Relay(v))
  BY <1>2, <1>3 DEF GetRelay, r
<1> QED BY <1>4, <1>5, <1>6 DEF c, v

(* The relays a running program has to g.                                  *)
Full(s, a, f) == Plus(Plus(f, "g", Heard(s, a, f, "g")), "h", Heard(s, a, f, "h"))

LEMMA FullOf ==
  ASSUME NEW s, NEW a, NEW f
  PROVE  /\ IsMap(Full(s, a, f)) /\ DOMAIN Full(s, a, f) = DOMAIN f \cup Gateway
         /\ \A k \in DOMAIN f : Full(s, a, f)[k] = f[k]
         /\ DOMAIN Plus(f, "g", Heard(s, a, f, "g")) = DOMAIN f \cup {"g"}
         /\ Heard(s, a, Plus(f, "g", Heard(s, a, f, "g")), "h") = Heard(s, a, f, "h")
BY DEF Full, Plus, Gateway, IsMap, Heard

LEMMA FullHeard ==
  ASSUME NEW s, NEW a, NEW f, NEW from \in Gateway
  PROVE  from \in DOMAIN Full(s, a, f) /\ Full(s, a, f)[from] = Heard(s, a, f, from)
BY DEF Full, Plus, Gateway, Heard

LEMMA RunningIs ==
  ASSUME NEW t, NEW bt, NEW ba, NEW bu, NEW gt, NEW ga, NEW gu, NEW d, NEW s, NEW to, IsMap(to), DOMAIN to \in SUBSET {"g"},
         NEW a, NEW f, Old(To(d, <<>>), to, "g") = To(a, f)
  PROVE  Running(Chained(t, bt, ba, bu, gt, ga, gu, Matrix(d, s, to))) =
           Chained(t, bt, ba, bu, gt, ga, gu, Matrix(d, s, One(To(a, Full(s, a, f)))))
<1> DEFINE f1 == Plus(f, "g", Heard(s, a, f, "g"))
           one == One(To(a, f1))
           c1 == Chained(t, bt, ba, bu, gt, ga, gu, Matrix(d, s, one))
<1>1. GetRelay(Chained(t, bt, ba, bu, gt, ga, gu, Matrix(d, s, to)), "g", "g") = c1
  BY GetRelayIs
<1>2. IsMap(one) /\ DOMAIN one \in SUBSET {"g"} /\ Old(To(d, <<>>), one, "g") = To(a, f1)
  BY OneIs DEF Old
<1>3. Plus(f1, "h", Heard(s, a, f1, "h")) = Full(s, a, f)
  BY FullOf DEF Full
<1> HIDE DEF f1, one
<1>4. GetRelay(c1, "g", "h") =
        Chained(t, bt, ba, bu, gt, ga, gu, Matrix(d, s, One(To(a, Plus(f1, "h", Heard(s, a, f1, "h"))))))
  BY <1>2, GetRelayIs
<1> HIDE DEF c1
<1> QED BY <1>1, <1>3, <1>4 DEF Running

LEMMA RelayOfIs ==
  ASSUME NEW t, NEW bt, NEW ba, NEW bu, NEW gt, NEW ga, NEW gu, NEW d, NEW s, NEW to, IsMap(to), DOMAIN to \in SUBSET {"g"},
         NEW a, NEW f, Old(To(d, <<>>), to, "g") = To(a, f), NEW from \in Gateway
  PROVE  RelayOf(Chained(t, bt, ba, bu, gt, ga, gu, Matrix(d, s, to)), from) = Relay(Heard(s, a, f, from))
<1> DEFINE w == Full(s, a, f)
           one == One(To(a, w))
           c == Chained(t, bt, ba, bu, gt, ga, gu, Matrix(d, s, one))
<1>1. Running(Chained(t, bt, ba, bu, gt, ga, gu, Matrix(d, s, to))) = c
  BY RunningIs
<1>3. from \in DOMAIN w /\ w[from] = Heard(s, a, f, from)
  BY FullHeard
<1> HIDE DEF w
<1>5. S!Find(c, <<"Relay", "To", "g", "From", from>>) = IF from \in DOMAIN w THEN Relay(w[from]) ELSE S!Nil
  BY FromFound
<1> HIDE DEF c
<1> QED BY <1>1, <1>3, <1>5 DEF RelayOf

-----------------------------------------------------------------------------
(* Relays are kept *)

(* The relays to g of a configuration: To(a, f), made from the default d   *)
(* where there are none.                                                   *)
Given(to, d, a, f) ==
  \/ to = <<>> /\ a = d /\ f = <<>>
  \/ to = One(To(a, f)) /\ IsMap(f) /\ DOMAIN f \subseteq Gateway

LEMMA GivenIs ==
  ASSUME NEW to, NEW d, NEW a, NEW f, Given(to, d, a, f)
  PROVE  /\ IsMap(to) /\ DOMAIN to \in SUBSET {"g"}
         /\ Old(To(d, <<>>), to, "g") = To(a, f)
         /\ IsMap(f) /\ DOMAIN f \subseteq Gateway
         /\ \A s : CopiedRelays(Matrix(d, s, to)) = Matrix(d, s, to)
<1> DEFINE none == <<>>
<1>1. IsMap(none) /\ DOMAIN none = {} /\ DOMAIN none \in SUBSET {"g"}
  BY NewConfigIs
<1>2. CASE to = none /\ a = d /\ f = none
  <2>1. Old(To(d, none), none, "g") = To(d, none)
    <3> HIDE DEF none
    <3> QED BY <1>1 DEF Old
  <2>2. \A s : CopiedRelays(Matrix(d, s, none)) = Matrix(d, s, none)
    BY CopiedIs
  <2> HIDE DEF none
  <2>3. /\ IsMap(to) /\ DOMAIN to \in SUBSET {"g"}
        /\ Old(To(d, none), to, "g") = To(a, f)
        /\ IsMap(f) /\ DOMAIN f \subseteq Gateway
        /\ \A s : CopiedRelays(Matrix(d, s, to)) = Matrix(d, s, to)
    BY <1>1, <1>2, <2>1, <2>2
  <2> QED BY <2>3 DEF none
<1>3. CASE to = One(To(a, f)) /\ IsMap(f) /\ DOMAIN f \subseteq Gateway
  <2> DEFINE x == To(a, f)
  <2>1. \A s : CopiedRelays(Matrix(d, s, to)) = Matrix(d, s, to)
    BY <1>3, CopiedIs
  <2> HIDE DEF x
  <2>2. IsMap(to) /\ DOMAIN to = {"g"} /\ to["g"] = x
    BY <1>3, OneIs DEF x
  <2> QED BY <1>3, <2>1, <2>2 DEF Old, x
<1> QED BY <1>2, <1>3 DEF Given

LEMMA DistinctFull ==
  ASSUME NEW d, NEW s, NEW a, NEW f, DOMAIN f \subseteq Gateway
  PROVE  /\ Distinct(Full(s, a, f), s, a) = Distinct(f, s, a)
         /\ Rest(d, s, a, Full(s, a, f)) = Rest(d, s, a, f)
<1> DEFINE w == Full(s, a, f)
           E == {k \in DOMAIN f : f[k] # IF k = "g" THEN s ELSE a}
<1>1. DOMAIN w = DOMAIN f \cup Gateway
  BY DEF Full, Plus, Gateway
<1>2. \A k \in Gateway : w[k] = Heard(s, a, f, k)
  BY FullHeard
<1> HIDE DEF w
<1>3. {k \in DOMAIN w : w[k] # IF k = "g" THEN s ELSE a} = E
  BY <1>1, <1>2 DEF Heard
<1>4. \A k \in E : w[k] = f[k]
  BY <1>2 DEF Heard
<1>5. E \subseteq DOMAIN f /\ E \subseteq DOMAIN w
  BY <1>1
<1>6. Distinct(w, s, a) = Distinct(f, s, a)
  <2>1. Distinct(w, s, a) = Restrict(w, E) /\ Distinct(f, s, a) = Restrict(f, E)
    BY <1>3 DEF Distinct
  <2> HIDE DEF E
  <2> QED BY <1>4, <1>5, <2>1 DEF Restrict
<1> QED BY <1>6 DEF w, Rest

(* A program that has run with no changes yet has the relays it was given, *)
(* all of them.                                                            *)
LEMMA StartedIs ==
  ASSUME NEW d, NEW s, NEW to, NEW a, NEW f, Given(to, d, a, f)
  PROVE  Running(TreeLoad(Bare(1, 2, <<>>, Matrix(d, s, to)), S!Dict(S!Nil, <<>>))) =
           Bare(1, 2, <<>>, Matrix(d, s, One(To(a, Full(s, a, f)))))
<1> DEFINE none == <<>>
           r == Matrix(d, s, to)
           c == Bare(1, 2, none, r)
           m == S!Dict(S!Nil, none)
<1>1. IsMap(none) /\ DOMAIN none = {}
  BY NewConfigIs
<1>2. CopiedRelays(r) = r
  BY GivenIs
<1> HIDE DEF none, r
<1>3. Copy(c) = c
  BY <1>1, <1>2, CopyIs DEF Bare, none
<1>4. S!merge(c, m, S!Overwrite) = c
  <2> DEFINE gs == One(Section(0, 2, none))
             A == TreeKids(Parts, Dflt(0), BNet(Section(0, 1, none), gs), r)
  <2>1. c = S!Struct(A)
    BY TreeIs DEF Bare, Chained, none
  <2>2. IsMap(A) /\ DOMAIN A = Parts
    BY TreeKidsOf
  <2>3. Overwrites(m, none, S!Overwrite)
    BY <1>1, Dicts DEF Overwrites
  <2> HIDE DEF A, m
  <2>4. Keeps(A, m, none, S!Overwrite, A)
    BY <1>1, <2>2, <2>3 DEF Keeps
  <2>5. \A k \in DOMAIN A \cap DOMAIN none : A[k] = S!merge5(A[k], none[k], S!Overwrite)
    BY <1>1
  <2> HIDE DEF c
  <2> QED BY <2>1, <2>4, <2>5, MergeStructs
<1>5. TreeMergeDefaults(c) = c
  <2>1. Or(2, 1) = 2
    BY DEF Or
  <2> QED BY <1>1, <2>1, BareDefaults
<1>6. TreeLoad(c, m) = c
  <2> HIDE DEF c, m
  <2> QED BY <1>3, <1>4, <1>5 DEF TreeLoad
<1>7. Running(c) = Bare(1, 2, none, Matrix(d, s, One(To(a, Full(s, a, f)))))
  <2>1. IsMap(to) /\ DOMAIN to \in SUBSET {"g"} /\ Old(To(d, <<>>), to, "g") = To(a, f)
    BY GivenIs
  <2> QED BY <2>1, RunningIs DEF Bare, r
<1> QED BY <1>6, <1>7 DEF c, m, r, none

LEMMA LeafIsNot ==
  ASSUME NEW v
  PROVE  S!Leaf(v) # S!Nil
BY DEF S!Leaf, S!Nil

LEMMA SetIs ==
  ASSUME NEW c, NEW n, FromMap(TreeMap(c)) = n, NEW path, S!Known(n, path), NEW v, NEW m, S!Assign(n, path, S!Leaf(v)) = m
  PROVE  TreeSet(c, path, v) = Replaced(c, m)
BY DEF TreeSet

(* Setting AccessTalk of the gateway.                                      *)
LEMMA TalkSet ==
  ASSUME NEW t, NEW bt, NEW ba, NEW bu, IsMap(bu), NEW gt, NEW ga, NEW gu, IsMap(gu), NEW r, NEW v
  PROVE  TreeSet(Chained(t, bt, ba, bu, gt, ga, gu, r), <<"BNet", "Gateways", "g", "AccessTalk">>, v) =
           Chained(t, Or(Own(bt, t), t), ba, bu, Or(Own(gt, bt), Or(Own(bt, t), t)), Or(v, ba),
                   Filled(Minus(gu, bu), bu), S!merge5(r, Rebuilt(r), S!Replace))
<1> DEFINE c == Chained(t, bt, ba, bu, gt, ga, gu, r)
           p == <<"BNet", "Gateways", "g", "AccessTalk">>
           u == Minus(gu, bu)
           q == Rebuilt(r)
           n == Chained(t, Own(bt, t), ba, bu, Own(gt, bt), Own(ga, ba), u, q)
           m == Chained(t, Own(bt, t), ba, bu, Own(gt, bt), v, u, q)
<1>1. FromMap(TreeMap(c)) = n
  BY FromMapIs
<1>2. S!Find(n, p) = S!Leaf(Own(ga, ba))
  BY FoundIs
<1>3. S!Known(n, p)
  <2> HIDE DEF n, p
  <2> QED BY <1>2, LeafIsNot DEF S!Known
<1>4. S!Assign(n, p, S!Leaf(v)) = m
  BY AssignedIs
<1>5. IsMap(u)
  BY MinusOf
<1>6. Replaced(c, m) =
        Chained(t, Or(Own(bt, t), t), ba, bu, Or(Own(gt, bt), Or(Own(bt, t), t)), Or(v, ba),
                Filled(u, bu), S!merge5(r, q, S!Replace))
  <2> HIDE DEF u, q
  <2> QED BY <1>5, ReplacedIs
<1> HIDE DEF c, n, m, p
<1>7. TreeSet(c, p, v) = Replaced(c, m)
  BY <1>1, <1>3, <1>4, SetIs
<1> QED BY <1>6, <1>7 DEF c, p, u, q

LEMMA AfterSet ==
  ASSUME NEW d, NEW s, NEW to, NEW a, NEW f, Given(to, d, a, f)
  PROVE  TreeSet(Running(TreeLoad(Bare(1, 2, <<>>, Matrix(d, s, to)), S!Dict(S!Nil, <<>>))), Path.field, 1) =
           Bare(1, 1, <<>>, Matrix(d, s, Rest(d, s, a, f)))
<1> DEFINE none == <<>>
           w == Full(s, a, f)
           r == Matrix(d, s, One(To(a, w)))
           n == Rest(d, s, a, w)
           q == Matrix(d, s, n)
<1>1. IsMap(none) /\ Minus(none, none) = none /\ Filled(none, none) = none
  BY NoUsers
<1>2. Rebuilt(r) = q
  BY RebuiltIs
<1>3. S!merge5(r, q, S!Replace) = q
  <2> DEFINE to1 == One(To(a, w))
             o == S!Replace
  <2>1. IsMap(to1) /\ DOMAIN to1 \in SUBSET {"g"} /\ Old(NoTo, to1, "g") = To(a, w)
    <3> DEFINE x == To(a, w)
    <3> HIDE DEF x
    <3> QED BY OneIs DEF Old
  <2>2. Fresh(to1, o) /\ Fresh(w, o)
    BY Options DEF Fresh
  <2> HIDE DEF to1, w
  <2>3. S!merge5(Matrix(d, s, to1), Matrix(d, s, <<>>), S!Replace) = Matrix(d, s, <<>>)
    BY <2>2, MatrixEmptied
  <2>4. CASE n = <<>>
    BY <2>3, <2>4 DEF to1
  <2>5. CASE n # <<>>
    <3> DEFINE b == Own(a, d)
               w1 == Distinct(w, s, a)
    <3>1. n = One(To(b, w1)) /\ IsMap(w1)
      BY <2>5, DistinctOf DEF Rest
    <3> HIDE DEF b, w1, n
    <3>2. S!merge5(Matrix(d, s, to1), Matrix(d, s, One(To(b, w1))), S!Replace) = Matrix(d, s, One(To(b, w1)))
      BY <2>1, <2>2, <3>1, MatrixReplaced
    <3> QED BY <3>1, <3>2 DEF to1
  <2> QED BY <2>4, <2>5
<1>4. Own(0, 0) = 0 /\ Or(0, 0) = 0 /\ Or(1, 1) = 1
  BY DEF Own, Or
<1>5. Path.field = <<"BNet", "Gateways", "g", "AccessTalk">>
  BY DEF Path
<1>6. n = Rest(d, s, a, f)
  BY GivenIs, DistinctFull
<1> HIDE DEF none, w, r, n, q
<1>7. TreeSet(Chained(0, 0, 1, none, 0, 2, none, r), <<"BNet", "Gateways", "g", "AccessTalk">>, 1) =
        Chained(0, Or(Own(0, 0), 0), 1, none, Or(Own(0, 0), Or(Own(0, 0), 0)), Or(1, 1),
                Filled(Minus(none, none), none), S!merge5(r, Rebuilt(r), S!Replace))
  BY <1>1, TalkSet
<1>8. TreeSet(Bare(1, 2, none, r), Path.field, 1) = Bare(1, 1, none, q)
  BY <1>1, <1>2, <1>3, <1>4, <1>5, <1>7 DEF Bare, none
<1>9. Running(TreeLoad(Bare(1, 2, none, Matrix(d, s, to)), S!Dict(S!Nil, none))) = Bare(1, 2, none, r)
  BY StartedIs DEF none, r, w
<1> QED BY <1>6, <1>8, <1>9 DEF none, q

LEMMA DistinctTwice ==
  ASSUME NEW f, NEW s, NEW a
  PROVE  Distinct(Distinct(f, s, a), s, a) = Distinct(f, s, a)
<1> DEFINE w == Distinct(f, s, a)
           x == Distinct(w, s, a)
<1>1. DOMAIN w = {k \in DOMAIN f : f[k] # IF k = "g" THEN s ELSE a} /\ \A k \in DOMAIN w : w[k] = f[k]
  BY DEF Distinct, Restrict
<1>2. DOMAIN x = {k \in DOMAIN w : w[k] # IF k = "g" THEN s ELSE a} /\ \A k \in DOMAIN x : x[k] = w[k]
  BY DEF Distinct, Restrict
<1>3. IsMap(w) /\ IsMap(x)
  BY DistinctOf
<1> HIDE DEF w, x
<1>4. DOMAIN x = DOMAIN w
  BY <1>1, <1>2
<1>5. x = w
  BY <1>2, <1>3, <1>4 DEF IsMap
<1> QED BY <1>5 DEF x, w

(* The relays of a configuration that repeats no default, or has no relays *)
(* that differ from the one they would get.                                *)
Plain(d, s, a, f) == a # d \/ DOMAIN Distinct(f, s, a) = {}

LEMMA NothingKept ==
  ASSUME NEW d, NEW s, NEW a, NEW f
  PROVE  KeptEnds(d, a, Distinct(f, s, a)) = {} <=> a = d /\ DOMAIN Distinct(f, s, a) = {}
BY DEF KeptEnds, Ends

(* Left out of the map, they are what they were.                           *)
LEMMA RestHeard ==
  ASSUME NEW d, NEW s, NEW a, NEW f, Plain(d, s, a, f), NEW x, NEW b, NEW u, NEW from \in Gateway
  PROVE  RelayOf(Bare(x, b, u, Matrix(d, s, Rest(d, s, a, f))), from) = Relay(Heard(s, a, f, from))
<1> DEFINE w == Distinct(f, s, a)
           none == <<>>
<1>1. DOMAIN w = {k \in DOMAIN f : f[k] # IF k = "g" THEN s ELSE a} /\ \A k \in DOMAIN w : w[k] = f[k]
  BY DEF Distinct, Restrict
<1>2. IsMap(none) /\ DOMAIN none = {} /\ DOMAIN none \in SUBSET {"g"}
  BY NewConfigIs
<1>3. CASE KeptEnds(d, a, w) = {}
  <2>1. a = d /\ DOMAIN w = {}
    BY <1>3, NothingKept
  <2>2. Rest(d, s, a, f) = none
    BY <1>3 DEF Rest
  <2> HIDE DEF none, w
  <2>3. Old(To(d, none), none, "g") = To(d, none)
    BY <1>2 DEF Old
  <2>4. Heard(s, d, none, from) = Heard(s, a, f, from)
    BY <1>1, <1>2, <2>1 DEF Heard
  <2>5. RelayOf(Bare(x, b, u, Matrix(d, s, none)), from) = Relay(Heard(s, d, none, from))
    BY <1>2, <2>3, RelayOfIs DEF Bare, none
  <2> QED BY <2>2, <2>4, <2>5
<1>4. CASE KeptEnds(d, a, w) # {}
  <2>1. a # d
    BY <1>4, NothingKept DEF Plain
  <2> DEFINE one == One(To(a, w))
             y == To(a, w)
  <2>2. Rest(d, s, a, f) = one
    BY <1>4, <2>1 DEF Rest, Own
  <2>3. IsMap(one) /\ DOMAIN one \in SUBSET {"g"} /\ Old(To(d, none), one, "g") = To(a, w)
    <3> HIDE DEF y
    <3>1. IsMap(One(y)) /\ DOMAIN One(y) = {"g"} /\ One(y)["g"] = y
      BY OneIs
    <3>2. one = One(y)
      BY DEF y
    <3> HIDE DEF one
    <3> QED BY <3>1, <3>2 DEF Old, y
  <2> HIDE DEF none, w, one
  <2>4. Heard(s, a, w, from) = Heard(s, a, f, from)
    BY <1>1 DEF Heard
  <2>5. RelayOf(Bare(x, b, u, Matrix(d, s, one)), from) = Relay(Heard(s, a, w, from))
    BY <2>3, RelayOfIs DEF Bare, none
  <2> QED BY <2>2, <2>4, <2>5
<1> QED BY <1>3, <1>4

LEMMA RestSaved ==
  ASSUME NEW d, NEW s, NEW to, NEW a, NEW f, Given(to, d, a, f), Plain(d, s, a, f)
  PROVE  MapOfRelays(Matrix(d, s, Rest(d, s, a, f))) = MapOfRelays(Matrix(d, s, to))
<1> DEFINE w == Distinct(f, s, a)
           none == <<>>
<1>1. DOMAIN w = {k \in DOMAIN f : f[k] # IF k = "g" THEN s ELSE a}
  BY DEF Distinct, Restrict
<1>2. MapOfRelays(Matrix(d, s, none)) = MatrixDict(d, s, none)
  BY MapOfRelaysIs
<1>3. CASE KeptEnds(d, a, w) = {}
  <2>1. Rest(d, s, a, f) = none /\ KeptTo(d, s, a, f) = none
    BY <1>3 DEF Rest, KeptTo
  <2>2. CASE to = none
    BY <2>1, <2>2
  <2>3. CASE to = One(To(a, f))
    <3>1. MapOfRelays(Matrix(d, s, to)) = MatrixDict(d, s, KeptTo(d, s, a, f))
      BY <2>3, MapOfRelaysIs
    <3> QED BY <1>2, <2>1, <3>1
  <2> QED BY <2>2, <2>3 DEF Given
<1>4. CASE KeptEnds(d, a, w) # {}
  <2>1. a # d
    BY <1>4, NothingKept DEF Plain
  <2>2. to = One(To(a, f))
    BY <2>1 DEF Given
  <2>3. Rest(d, s, a, f) = One(To(a, w))
    BY <1>4, <2>1 DEF Rest, Own
  <2>4. KeptTo(d, s, a, w) = KeptTo(d, s, a, f)
    BY DistinctTwice DEF KeptTo
  <2>5. MapOfRelays(Matrix(d, s, One(To(a, f)))) = MatrixDict(d, s, KeptTo(d, s, a, f))
    BY MapOfRelaysIs
  <2> HIDE DEF w
  <2>6. MapOfRelays(Matrix(d, s, One(To(a, w)))) = MatrixDict(d, s, KeptTo(d, s, a, w))
    BY MapOfRelaysIs
  <2> QED BY <2>2, <2>3, <2>4, <2>5, <2>6
<1> QED BY <1>3, <1>4

LEMMA KeptIfPlain ==
  ASSUME NEW d, NEW s, NEW to, NEW a, NEW f, Given(to, d, a, f), Plain(d, s, a, f)
  PROVE  KeepsRelays(Bare(1, 2, <<>>, Matrix(d, s, to)))
<1> DEFINE none == <<>>
           r == Matrix(d, s, to)
           q == Matrix(d, s, Rest(d, s, a, f))
           c == Bare(1, 2, none, r)
           n == Bare(1, 1, none, q)
<1>1. TreeSet(Running(TreeLoad(c, S!Dict(S!Nil, none))), Path.field, 1) = n
  BY AfterSet
<1>2. ASSUME NEW from \in Gateway
      PROVE  RelayOf(c, from) = Relay(Heard(s, a, f, from)) /\ RelayOf(n, from) = Relay(Heard(s, a, f, from))
  <2>1. IsMap(to) /\ DOMAIN to \in SUBSET {"g"} /\ Old(To(d, <<>>), to, "g") = To(a, f)
    BY GivenIs
  <2>2. RelayOf(c, from) = Relay(Heard(s, a, f, from))
    BY <2>1, RelayOfIs DEF Bare
  <2>3. RelayOf(n, from) = Relay(Heard(s, a, f, from))
    BY RestHeard
  <2> QED BY <2>2, <2>3
<1>3. \E x, u : TreeLoad(c, TreeSave(c, n)) = Bare(1, x, u, r)
  <2>1. MapOfRelays(q) = MapOfRelays(r)
    BY RestSaved
  <2>2. CopiedRelays(r) = r
    BY GivenIs
  <2>3. Reloaded(r, q) = r
    <3> HIDE DEF r, q
    <3> QED BY <2>1, <2>2 DEF Reloaded
  <2>4. MapOfRelays(q).type = "map"
    <3>1. \E m : MapOfRelays(r) = MatrixDict(d, s, m)
      BY MapOfRelaysIs DEF Given
    <3> HIDE DEF r, q
    <3> QED BY <2>1, <3>1, MatrixDictIsMap
  <2>5. IsMap(none)
    BY NewConfigIs
  <2> HIDE DEF none, r, q
  <2>6. TreeLoad(Bare(1, 2, none, r), TreeSave(Bare(1, 2, none, r), Bare(1, 1, none, q))) =
          Bare(1, Or(IF NewTalk(1, 1, 1, Or(2, 1)) THEN 1 ELSE 2, 1),
               IF NewUsers(none, none) THEN Overlaid(none, Minus(none, none)) ELSE none, Reloaded(r, q))
    BY <2>4, <2>5, LoadedIs
  <2> QED BY <2>3, <2>6
<1>4. ASSUME NEW from \in Gateway
      PROVE  RelayOf(TreeLoad(c, TreeSave(c, n)), from) = Relay(Heard(s, a, f, from))
  <2>1. PICK x, u : TreeLoad(c, TreeSave(c, n)) = Bare(1, x, u, r)
    BY <1>3
  <2>2. IsMap(to) /\ DOMAIN to \in SUBSET {"g"} /\ Old(To(d, <<>>), to, "g") = To(a, f)
    BY GivenIs
  <2>3. RelayOf(Bare(1, x, u, r), from) = Relay(Heard(s, a, f, from))
    BY <2>2, RelayOfIs DEF Bare
  <2> QED BY <2>1, <2>3
<1> HIDE DEF r, q, c, n
<1> QED BY <1>1, <1>2, <1>4 DEF KeepsRelays, c, none, r

LEMMA NotHollow ==
  ASSUME NEW d, NEW s, NEW to, NEW a, NEW f, Given(to, d, a, f), NEW x, NEW b,
         ~Hollow(Bare(x, b, <<>>, Matrix(d, s, to)))
  PROVE  Plain(d, s, a, f)
<1> DEFINE none == <<>>
           w == Distinct(f, s, a)
           E == KeptEnds(d, a, w)
           r == Matrix(d, s, to)
           c == Bare(x, b, none, r)
<1>1. CASE to = none /\ a = d /\ f = none
  <2>1. DOMAIN w = {}
    <3>1. DOMAIN none = {}
      BY NewConfigIs
    <3> HIDE DEF none
    <3> QED BY <1>1, <3>1 DEF Distinct, Restrict
  <2> QED BY <2>1 DEF Plain
<1>2. CASE to = One(To(a, f))
  <2> SUFFICES ASSUME a = d, DOMAIN w # {} PROVE FALSE
    BY DEF Plain
  <2> DEFINE y == ToDict(E, a, w)
  <2>1. E # {} /\ "Default" \notin E /\ E \in SUBSET Ends
    BY DEF KeptEnds, Ends
  <2>2. MapOfRelays(r) = MatrixDict(d, s, One(y))
    <3>1. MapOfRelays(r) = MatrixDict(d, s, KeptTo(d, s, a, f))
      BY <1>2, MapOfRelaysIs
    <3> QED BY <2>1, <3>1 DEF KeptTo
  <2>3. DOMAIN y.kids = E
    BY <2>1, Dicts, ToKidsOf DEF ToDict
  <2>4. MapOfRelays(r).kids.To.kids = One(y)
    BY <2>2, MatrixKids
  <2>5. S!Map(c).kids.Relay = S!Map5(r)
    <3>1. S!Map(c) = TreeDict(Parts, DfltMap(0), S!Map5(BNet(Section(0, x, none), One(Section(0, b, none)))), S!Map5(r))
      BY MapTree DEF Bare, Chained
    <3> HIDE DEF r
    <3> QED BY <3>1, Dicts, TreeKidsOf DEF TreeDict, Parts
  <2>6. RelayMap(S!Map(c).kids.Relay).kids.To.kids = One(y)
    BY <2>4, <2>5 DEF MapOfRelays
  <2> HIDE DEF y, E, w, r, c
  <2>7. "g" \in DOMAIN One(y) /\ One(y)["g"] = y
    BY OneIs
  <2>8. Hollow(c)
    BY <2>1, <2>3, <2>6, <2>7 DEF Hollow
  <2> QED BY <2>8 DEF c, r, none
<1> QED BY <1>1, <1>2 DEF Given

LEMMA RelayTreesAre ==
  ASSUME NEW x \in RelayTrees
  PROVE  \E d, s, to, a, f : Given(to, d, a, f) /\ x = Bare(1, 2, <<>>, Matrix(d, s, to))
<1> DEFINE none == <<>>
           Each == UNION {[F -> AnyRelay] : F \in SUBSET Gateway}
<1>1. PICK dd \in AnyRelay, ss \in AnyRelay, to \in AnyTo :
        x = Tree(0, Section(0, 1, <<>>), [g |-> Section(0, 2, <<>>)], Relays(dd, ss, to))
  BY DEF RelayTrees
<1>2. PICK d \in Value : dd = Relay(d)
  BY DEF AnyRelay
<1>3. PICK s \in Value : ss = Relay(s)
  BY DEF AnyRelay
<1>4. x = Bare(1, 2, <<>>, Matrix(d, s, to))
  <2> DEFINE sec == Section(0, 2, none)
  <2>1. [g |-> sec] = One(sec)
    <3> HIDE DEF sec
    <3> QED BY OneIs
  <2> QED BY <1>1, <1>2, <1>3, <2>1 DEF Bare, Chained, Matrix
<1>5. \E a, f : Given(to, d, a, f)
  <2>1. CASE to = <<>>
    BY <2>1 DEF Given
  <2>2. CASE to \in {[g |-> RelayTo(t, f)] : t \in AnyRelay, f \in Each}
    <3>1. PICK t \in AnyRelay, h \in Each : to = [g |-> RelayTo(t, h)]
      BY <2>2
    <3>2. PICK a \in Value : t = Relay(a)
      BY DEF AnyRelay
    <3>3. PICK F \in SUBSET Gateway : h \in [F -> AnyRelay]
      OBVIOUS
    <3> DEFINE f == [k \in F |-> CHOOSE v \in Value : h[k] = Relay(v)]
    <3>4. IsMap(f) /\ DOMAIN f = F
      BY DEF IsMap
    <3>5. \A k \in F : h[k] = Relay(f[k])
      BY <3>3 DEF AnyRelay
    <3> HIDE DEF f
    <3>6. h = Froms(f)
      BY <3>3, <3>4, <3>5 DEF Froms
    <3>7. to = One(To(a, f))
      <4> DEFINE y == To(a, f)
      <4>1. to = [g |-> y]
        BY <3>1, <3>2, <3>6 DEF To
      <4> HIDE DEF y
      <4> QED BY <4>1, OneIs DEF y
    <3> QED BY <3>3, <3>4, <3>7 DEF Given
  <2> QED BY <1>1, <2>1, <2>2 DEF AnyTo
<1> QED BY <1>4, <1>5

(* Whatever relays config.toml has, they are the same after another        *)
(* setting has changed and after a restart, unless a section repeats the   *)
(* default of all relays.                                                  *)
THEOREM RelaysStay == RelaysKept
<1> SUFFICES ASSUME NEW x \in RelayTrees, ~Hollow(x) PROVE KeepsRelays(x)
  BY DEF RelaysKept
<1>1. PICK d, s, to, a, f : Given(to, d, a, f) /\ x = Bare(1, 2, <<>>, Matrix(d, s, to))
  BY RelayTreesAre
<1>2. Plain(d, s, a, f)
  BY <1>1, NotHollow
<1> QED BY <1>1, <1>2, KeptIfPlain

(* So they are whenever the program starts.                                *)
THEOREM RelaysKeptAlways == Spec => []RelaysKept
<1>1. RelaysKept
  BY RelaysStay
<1> QED BY <1>1, PTL

-----------------------------------------------------------------------------
(* Settings with no relays but the default *)

Quiet == Matrix(1, 0, <<>>)

LEMMA QuietIs ==
  /\ Relays(Relay(1), Relay(0), <<>>) = Quiet
  /\ Rebuilt(Quiet) = Quiet
  /\ CopiedRelays(Quiet) = Quiet
  /\ S!merge5(Quiet, Quiet, S!Replace) = Quiet
  /\ MapOfRelays(Quiet) = MatrixDict(1, 0, <<>>)
  /\ Reloaded(Quiet, Quiet) = Quiet
<1>1. Rebuilt(Quiet) = Quiet
  BY RebuiltIs DEF Quiet
<1>2. CopiedRelays(Quiet) = Quiet
  BY CopiedIs DEF Quiet
<1>3. S!merge5(Quiet, Quiet, S!Replace) = Quiet
  <2> DEFINE none == <<>>
             o == S!Replace
  <2>1. Fresh(none, o)
    BY Options DEF Fresh
  <2> HIDE DEF none
  <2>2. S!merge5(Matrix(1, 0, none), Matrix(1, 0, <<>>), S!Replace) = Matrix(1, 0, <<>>)
    BY <2>1, MatrixEmptied
  <2> QED BY <2>2 DEF Quiet, none
<1>4. MapOfRelays(Quiet) = MatrixDict(1, 0, <<>>)
  BY MapOfRelaysIs DEF Quiet
<1>5. Reloaded(Quiet, Quiet) = Quiet
  BY <1>2 DEF Reloaded
<1> QED BY <1>1, <1>2, <1>3, <1>4, <1>5 DEF Quiet, Matrix

LEMMA UserIs ==
  ASSUME NEW v
  PROVE  /\ IsMap(User(v))
         /\ v = Absent => User(v) = <<>> /\ DOMAIN User(v) = {}
         /\ v # Absent => DOMAIN User(v) = {"x"} /\ User(v)["x"] = v
         /\ Entry(User(v)) = IF v = Absent THEN S!Nil ELSE S!Leaf(v)
<1> DEFINE none == <<>>
<1>1. CASE v = Absent
  <2>1. IsMap(none) /\ DOMAIN none = {}
    BY NewConfigIs
  <2>2. User(v) = none
    BY <1>1 DEF User
  <2> HIDE DEF none
  <2>3. IsMap(User(v)) /\ DOMAIN User(v) = {} /\ User(v) = none
    BY <2>1, <2>2
  <2> QED BY <1>1, <2>3 DEF Entry, none
<1>2. CASE v # Absent
  <2>1. User(v) = [x |-> v]
    BY <1>2 DEF User
  <2>2. DOMAIN [x |-> v] = {"x"} /\ [x |-> v]["x"] = v /\ IsMap([x |-> v])
    BY DEF IsMap
  <2> QED BY <1>2, <2>1, <2>2 DEF Entry
<1> QED BY <1>1, <1>2

(* Operations on a map with at most the user x, by that entry.             *)
LEMMA UserFrom ==
  ASSUME NEW f, IsMap(f), NEW v, DOMAIN f = IF v = Absent THEN {} ELSE {"x"}, v # Absent => f["x"] = v
  PROVE  f = User(v)
<1>1. IsMap(User(v)) /\ DOMAIN User(v) = DOMAIN f
  BY UserIs
<1>2. \A k \in DOMAIN f : User(v)[k] = f[k]
  BY UserIs
<1> DEFINE u == User(v)
<1> HIDE DEF u
<1> QED BY <1>1, <1>2 DEF IsMap

LEMMA UserMinus ==
  ASSUME NEW v, NEW w
  PROVE  Minus(User(v), User(w)) = User(IF v = w THEN Absent ELSE v)
<1> DEFINE f == Minus(User(v), User(w))
<1>1. IsMap(f) /\ DOMAIN f = DOMAIN User(v) \ Shared(User(v), User(w)) /\ \A k \in DOMAIN f : f[k] = User(v)[k]
  BY MinusOf
<1>2. Shared(User(v), User(w)) = IF v = w /\ v # Absent THEN {"x"} ELSE {}
  <2> DEFINE a == User(v)
             b == User(w)
  <2>1. v = Absent => DOMAIN a = {}
    BY UserIs
  <2>2. v # Absent => DOMAIN a = {"x"} /\ a["x"] = v
    BY UserIs
  <2>3. w = Absent => DOMAIN b = {}
    BY UserIs
  <2>4. w # Absent => DOMAIN b = {"x"} /\ b["x"] = w
    BY UserIs
  <2> HIDE DEF a, b
  <2>5. Shared(a, b) = IF v = w /\ v # Absent THEN {"x"} ELSE {}
    BY <2>1, <2>2, <2>3, <2>4 DEF Shared
  <2> QED BY <2>5 DEF a, b
<1> DEFINE z == IF v = w THEN Absent ELSE v
<1>3. DOMAIN f = IF z = Absent THEN {} ELSE {"x"}
  BY <1>1, <1>2, UserIs
<1>4. z # Absent => f["x"] = z
  BY <1>1, <1>3, UserIs
<1> HIDE DEF f, z
<1>5. f = User(z)
  BY <1>1, <1>3, <1>4, UserFrom
<1> QED BY <1>5 DEF f, z

LEMMA UserOps ==
  ASSUME NEW v, NEW w
  PROVE  /\ Filled(User(v), User(w)) = User(IF w # Absent /\ v \in {Absent, 0} THEN w ELSE v)
         /\ Overlaid(User(v), User(w)) = User(IF w = Absent THEN v ELSE w)
         /\ w # Absent => Plus(User(v), "x", w) = User(w)
         /\ Restrict(User(v), DOMAIN User(v) \ {"x"}) = User(Absent)
<1> DEFINE a == User(v)
           b == User(w)
<1>1. v = Absent => DOMAIN a = {}
  BY UserIs
<1>2. v # Absent => DOMAIN a = {"x"} /\ a["x"] = v
  BY UserIs
<1>3. w = Absent => DOMAIN b = {}
  BY UserIs
<1>4. w # Absent => DOMAIN b = {"x"} /\ b["x"] = w
  BY UserIs
<1>5. Absent # 0
  BY ValueAssumption
<1> HIDE DEF a, b
<1>6. Filled(a, b) = User(IF w # Absent /\ v \in {Absent, 0} THEN w ELSE v)
  <2> DEFINE f == Filled(a, b)
             z == IF w # Absent /\ v \in {Absent, 0} THEN w ELSE v
  <2>1. IsMap(f) /\ DOMAIN f = DOMAIN a \cup DOMAIN b
    BY DEF Filled, IsMap
  <2>2. \A k \in DOMAIN f : f[k] = IF k \in DOMAIN b /\ (k \in DOMAIN a => a[k] = 0) THEN b[k] ELSE a[k]
    BY DEF Filled
  <2> HIDE DEF f
  <2>3. DOMAIN f = IF z = Absent THEN {} ELSE {"x"}
    BY <1>1, <1>2, <1>3, <1>4, <2>1
  <2>4. z # Absent => f["x"] = z
    BY <1>1, <1>2, <1>3, <1>4, <1>5, <2>1, <2>2
  <2> HIDE DEF z
  <2>5. f = User(z)
    BY <2>1, <2>3, <2>4, UserFrom
  <2> QED BY <2>5 DEF f, z
<1>7. Overlaid(a, b) = User(IF w = Absent THEN v ELSE w)
  <2> DEFINE f == Overlaid(a, b)
             z == IF w = Absent THEN v ELSE w
  <2>1. IsMap(f) /\ DOMAIN f = DOMAIN a \cup DOMAIN b
    BY DEF Overlaid, IsMap
  <2>2. \A k \in DOMAIN f : f[k] = IF k \in DOMAIN b THEN b[k] ELSE a[k]
    BY DEF Overlaid
  <2> HIDE DEF f
  <2>3. DOMAIN f = IF z = Absent THEN {} ELSE {"x"}
    BY <1>1, <1>2, <1>3, <1>4, <2>1
  <2>4. z # Absent => f["x"] = z
    BY <1>1, <1>2, <1>3, <1>4, <2>1, <2>2
  <2> HIDE DEF z
  <2>5. f = User(z)
    BY <2>1, <2>3, <2>4, UserFrom
  <2> QED BY <2>5 DEF f, z
<1>8. ASSUME w # Absent PROVE Plus(a, "x", w) = User(w)
  <2> DEFINE f == Plus(a, "x", w)
  <2>1. IsMap(f) /\ DOMAIN f = DOMAIN a \cup {"x"} /\ f["x"] = w
    BY DEF Plus, IsMap
  <2> HIDE DEF f
  <2>2. DOMAIN f = {"x"}
    BY <1>1, <1>2, <2>1
  <2>3. f = User(w)
    BY <1>8, <2>1, <2>2, UserFrom
  <2> QED BY <2>3 DEF f
<1>9. Restrict(a, DOMAIN a \ {"x"}) = User(Absent)
  <2> DEFINE f == Restrict(a, DOMAIN a \ {"x"})
  <2>1. IsMap(f) /\ DOMAIN f = DOMAIN a \ {"x"}
    BY DEF Restrict, IsMap
  <2> HIDE DEF f
  <2>2. DOMAIN f = {}
    BY <1>1, <1>2, <2>1
  <2>3. f = User(Absent)
    BY <2>1, <2>2, UserFrom
  <2> QED BY <2>3 DEF f
<1> QED BY <1>6, <1>7, <1>8, <1>9 DEF a, b

(* The settings of a tree, and what the conversions make of them.          *)
Row(t, bt, ba, bu, gt, ga, gu) == Chained(t, bt, ba, User(bu), gt, ga, User(gu), Quiet)
Took(u, dflt) == IF dflt # Absent /\ u \in {Absent, 0} THEN dflt ELSE u
Left(u, dflt) == IF u = dflt THEN Absent ELSE u
Filling(t, bt, ba, bu, gt, ga, gu) == Row(t, Or(bt, t), ba, bu, Or(gt, Or(bt, t)), Or(ga, ba), Took(gu, bu))

LEMMA RowDefaults ==
  ASSUME NEW t, NEW bt, NEW ba, NEW bu, NEW gt, NEW ga, NEW gu
  PROVE  TreeMergeDefaults(Row(t, bt, ba, bu, gt, ga, gu)) = Filling(t, bt, ba, bu, gt, ga, gu)
<1> DEFINE u == User(gu)
           w == User(bu)
<1>1. IsMap(u) /\ IsMap(w)
  BY UserIs
<1>2. Filled(u, w) = User(Took(gu, bu))
  BY UserOps DEF Took
<1> HIDE DEF u, w
<1>3. TreeMergeDefaults(Chained(t, bt, ba, w, gt, ga, u, Quiet)) =
        Chained(t, Or(bt, t), ba, w, Or(gt, Or(bt, t)), Or(ga, ba), Filled(u, w), Quiet)
  BY <1>1, MergeDefaultsIs
<1> QED BY <1>2, <1>3 DEF Row, Filling, u, w

LEMMA RowFromMap ==
  ASSUME NEW t, NEW bt, NEW ba, NEW bu, NEW gt, NEW ga, NEW gu
  PROVE  FromMap(TreeMap(Row(t, bt, ba, bu, gt, ga, gu))) =
           Row(t, Own(bt, t), ba, bu, Own(gt, bt), Own(ga, ba), Left(gu, bu))
<1> DEFINE u == User(gu)
           w == User(bu)
           r == Quiet
<1>1. IsMap(u) /\ IsMap(w)
  BY UserIs
<1>2. Minus(u, w) = User(Left(gu, bu))
  BY UserMinus DEF Left
<1>3. Rebuilt(r) = r
  BY QuietIs
<1> HIDE DEF u, w, r
<1>4. FromMap(TreeMap(Chained(t, bt, ba, w, gt, ga, u, r))) =
        Chained(t, Own(bt, t), ba, w, Own(gt, bt), Own(ga, ba), Minus(u, w), Rebuilt(r))
  BY <1>1, FromMapIs
<1> QED BY <1>2, <1>3, <1>4 DEF Row, u, w, r

LEMMA RowReplaced ==
  ASSUME NEW c, NEW t, NEW bt, NEW ba, NEW bu, NEW gt, NEW ga, NEW gu, c = Row(t, bt, ba, bu, gt, ga, gu),
         NEW x, NEW xt, NEW xa, NEW xu, NEW yt, NEW ya, NEW yu
  PROVE  Replaced(c, Row(x, xt, xa, xu, yt, ya, yu)) = Filling(x, xt, xa, xu, yt, ya, yu)
<1> DEFINE u == User(gu)
           w == User(bu)
           r == Quiet
           p == User(yu)
           q == User(xu)
<1>1. IsMap(p) /\ IsMap(q)
  BY UserIs
<1>2. Filled(p, q) = User(Took(yu, xu))
  BY UserOps DEF Took
<1>3. S!merge5(r, r, S!Replace) = r
  BY QuietIs
<1> HIDE DEF u, w, r, p, q
<1>4. Replaced(Chained(t, bt, ba, w, gt, ga, u, r), Chained(x, xt, xa, q, yt, ya, p, r)) =
        Chained(x, Or(xt, x), xa, q, Or(yt, Or(xt, x)), Or(ya, xa), Filled(p, q), S!merge5(r, r, S!Replace))
  BY <1>1, ReplacedIs
<1> QED BY <1>2, <1>3, <1>4 DEF Row, Filling, u, w, r, p, q

LEMMA RowFound ==
  ASSUME NEW t, NEW bt, NEW ba, NEW bu, NEW gt, NEW ga, NEW gu, NEW c, c = Row(t, bt, ba, bu, gt, ga, gu)
  PROVE  /\ S!Find(c, <<"Default", "Trigger">>) = S!Leaf(t)
         /\ S!Find(c, <<"BNet", "Default", "Trigger">>) = S!Leaf(bt)
         /\ S!Find(c, <<"BNet", "Default", "AccessTalk">>) = S!Leaf(ba)
         /\ S!Find(c, <<"BNet", "Default", "AccessUser", "x">>) = IF bu = Absent THEN S!Nil ELSE S!Leaf(bu)
         /\ S!Find(c, <<"BNet", "Gateways", "g", "Trigger">>) = S!Leaf(gt)
         /\ S!Find(c, <<"BNet", "Gateways", "g", "AccessTalk">>) = S!Leaf(ga)
         /\ S!Find(c, <<"BNet", "Gateways", "g", "AccessUser", "x">>) = IF gu = Absent THEN S!Nil ELSE S!Leaf(gu)
         /\ S!Find(c, <<"BNet", "Default">>).type = "struct"
         /\ S!Find(c, <<"BNet", "Gateways", "g">>).type = "struct"
         /\ S!Find(c, <<"BNet", "Default", "AccessUser">>).type = "map"
         /\ S!Find(c, <<"BNet", "Gateways", "g", "AccessUser">>) = Levels(User(gu))
         /\ Levels(User(gu)).type = "map"
<1> DEFINE u == User(gu)
           w == User(bu)
           r == Quiet
<1>1. Entry(u) = IF gu = Absent THEN S!Nil ELSE S!Leaf(gu)
  BY UserIs
<1>2. Entry(w) = IF bu = Absent THEN S!Nil ELSE S!Leaf(bu)
  BY UserIs
<1> HIDE DEF u, w, r
<1>3. c = Chained(t, bt, ba, w, gt, ga, u, r)
  BY DEF Row, u, w, r
<1>4. /\ S!Find(c, <<"Default", "Trigger">>) = S!Leaf(t)
      /\ S!Find(c, <<"BNet", "Default">>) = Section(bt, ba, w)
      /\ S!Find(c, <<"BNet", "Default", "Trigger">>) = S!Leaf(bt)
      /\ S!Find(c, <<"BNet", "Default", "AccessTalk">>) = S!Leaf(ba)
      /\ S!Find(c, <<"BNet", "Default", "AccessUser">>) = Levels(w)
      /\ S!Find(c, <<"BNet", "Default", "AccessUser", "x">>) = Entry(w)
      /\ S!Find(c, <<"BNet", "Gateways", "g">>) = Section(gt, ga, u)
      /\ S!Find(c, <<"BNet", "Gateways", "g", "Trigger">>) = S!Leaf(gt)
      /\ S!Find(c, <<"BNet", "Gateways", "g", "AccessTalk">>) = S!Leaf(ga)
      /\ S!Find(c, <<"BNet", "Gateways", "g", "AccessUser">>) = Levels(u)
      /\ S!Find(c, <<"BNet", "Gateways", "g", "AccessUser", "x">>) = Entry(u)
  BY <1>3, FoundIs
<1>5. \A a, b, v : Section(a, b, v).type = "struct"
  BY Structures DEF Section
<1>6. \A v : Levels(v).type = "map"
  BY Dicts DEF Levels
<1> QED BY <1>1, <1>2, <1>4, <1>5, <1>6 DEF u

LEMMA RowAssigned ==
  ASSUME NEW t, NEW bt, NEW ba, NEW bu, NEW gt, NEW ga, NEW gu, NEW c, c = Row(t, bt, ba, bu, gt, ga, gu), NEW v
  PROVE  /\ S!Assign(c, <<"Default", "Trigger">>, S!Leaf(v)) = Row(v, bt, ba, bu, gt, ga, gu)
         /\ S!Assign(c, <<"BNet", "Default", "Trigger">>, S!Leaf(v)) = Row(t, v, ba, bu, gt, ga, gu)
         /\ S!Assign(c, <<"BNet", "Default", "AccessTalk">>, S!Leaf(v)) = Row(t, bt, v, bu, gt, ga, gu)
         /\ v # Absent => S!Assign(c, <<"BNet", "Default", "AccessUser", "x">>, S!Leaf(v)) =
                            Row(t, bt, ba, v, gt, ga, gu)
         /\ S!Assign(c, <<"BNet", "Gateways", "g", "Trigger">>, S!Leaf(v)) = Row(t, bt, ba, bu, v, ga, gu)
         /\ S!Assign(c, <<"BNet", "Gateways", "g", "AccessTalk">>, S!Leaf(v)) = Row(t, bt, ba, bu, gt, v, gu)
         /\ v # Absent => S!Assign(c, <<"BNet", "Gateways", "g", "AccessUser", "x">>, S!Leaf(v)) =
                            Row(t, bt, ba, bu, gt, ga, v)
<1> DEFINE u == User(gu)
           w == User(bu)
           r == Quiet
           y == User(v)
<1>1. v # Absent => Plus(u, "x", v) = y
  BY UserOps
<1>2. v # Absent => Plus(w, "x", v) = y
  BY UserOps
<1> HIDE DEF u, w, r, y
<1>3. c = Chained(t, bt, ba, w, gt, ga, u, r)
  BY DEF Row, u, w, r
<1>4. /\ S!Assign(c, <<"Default", "Trigger">>, S!Leaf(v)) = Chained(v, bt, ba, w, gt, ga, u, r)
      /\ S!Assign(c, <<"BNet", "Default", "Trigger">>, S!Leaf(v)) = Chained(t, v, ba, w, gt, ga, u, r)
      /\ S!Assign(c, <<"BNet", "Default", "AccessTalk">>, S!Leaf(v)) = Chained(t, bt, v, w, gt, ga, u, r)
      /\ S!Assign(c, <<"BNet", "Default", "AccessUser", "x">>, S!Leaf(v)) =
           Chained(t, bt, ba, Plus(w, "x", v), gt, ga, u, r)
      /\ S!Assign(c, <<"BNet", "Gateways", "g", "Trigger">>, S!Leaf(v)) = Chained(t, bt, ba, w, v, ga, u, r)
      /\ S!Assign(c, <<"BNet", "Gateways", "g", "AccessTalk">>, S!Leaf(v)) = Chained(t, bt, ba, w, gt, v, u, r)
      /\ S!Assign(c, <<"BNet", "Gateways", "g", "AccessUser", "x">>, S!Leaf(v)) =
           Chained(t, bt, ba, w, gt, ga, Plus(u, "x", v), r)
  BY <1>3, AssignedIs
<1> QED BY <1>1, <1>2, <1>4 DEF Row, u, w, r, y

LEMMA RowKnown ==
  ASSUME NEW t, NEW bt, NEW ba, NEW bu, NEW gt, NEW ga, NEW gu, NEW n, n = Row(t, bt, ba, bu, gt, ga, gu)
  PROVE  /\ S!Known(n, <<"Default", "Trigger">>)
         /\ S!Known(n, <<"BNet", "Default", "Trigger">>)
         /\ S!Known(n, <<"BNet", "Default", "AccessTalk">>)
         /\ S!Known(n, <<"BNet", "Default", "AccessUser", "x">>)
         /\ S!Known(n, <<"BNet", "Gateways", "g", "Trigger">>)
         /\ S!Known(n, <<"BNet", "Gateways", "g", "AccessTalk">>)
         /\ S!Known(n, <<"BNet", "Gateways", "g", "AccessUser", "x">>)
<1>1. /\ S!Find(n, <<"Default", "Trigger">>) = S!Leaf(t)
      /\ S!Find(n, <<"BNet", "Default", "Trigger">>) = S!Leaf(bt)
      /\ S!Find(n, <<"BNet", "Default", "AccessTalk">>) = S!Leaf(ba)
      /\ S!Find(n, <<"BNet", "Gateways", "g", "Trigger">>) = S!Leaf(gt)
      /\ S!Find(n, <<"BNet", "Gateways", "g", "AccessTalk">>) = S!Leaf(ga)
      /\ S!Find(n, <<"BNet", "Default", "AccessUser">>).type = "map"
      /\ S!Find(n, <<"BNet", "Gateways", "g", "AccessUser">>) = Levels(User(gu))
      /\ Levels(User(gu)).type = "map"
  BY RowFound
<1>2. S!Front(<<"BNet", "Default", "AccessUser", "x">>) = <<"BNet", "Default", "AccessUser">>
  BY Front4
<1>3. S!Front(<<"BNet", "Gateways", "g", "AccessUser", "x">>) = <<"BNet", "Gateways", "g", "AccessUser">>
  BY Front5
<1>4. S!Known(n, <<"Default", "Trigger">>)
  BY <1>1, LeafIsNot DEF S!Known
<1>5. S!Known(n, <<"BNet", "Default", "Trigger">>)
  BY <1>1, LeafIsNot DEF S!Known
<1>6. S!Known(n, <<"BNet", "Default", "AccessTalk">>)
  BY <1>1, LeafIsNot DEF S!Known
<1>7. S!Known(n, <<"BNet", "Default", "AccessUser", "x">>)
  BY <1>1, <1>2 DEF S!Known
<1>8. S!Known(n, <<"BNet", "Gateways", "g", "Trigger">>)
  BY <1>1, LeafIsNot DEF S!Known
<1>9. S!Known(n, <<"BNet", "Gateways", "g", "AccessTalk">>)
  BY <1>1, LeafIsNot DEF S!Known
<1>10. S!Known(n, <<"BNet", "Gateways", "g", "AccessUser", "x">>)
  BY <1>1, <1>3 DEF S!Known
<1> QED BY <1>4, <1>5, <1>6, <1>7, <1>8, <1>9, <1>10

(* Setting each of the settings: what the others have of their own, and    *)
(* then the defaults.                                                      *)
LEMMA RowSet ==
  ASSUME NEW t, NEW bt, NEW ba, NEW bu, NEW gt, NEW ga, NEW gu, NEW c, c = Row(t, bt, ba, bu, gt, ga, gu), NEW v,
         NEW obt, obt = Own(bt, t), NEW ogt, ogt = Own(gt, bt), NEW oga, oga = Own(ga, ba), NEW ogu, ogu = Left(gu, bu)
  PROVE  /\ TreeSet(c, <<"Default", "Trigger">>, v) = Filling(v, obt, ba, bu, ogt, oga, ogu)
         /\ TreeSet(c, <<"BNet", "Default", "Trigger">>, v) = Filling(t, v, ba, bu, ogt, oga, ogu)
         /\ TreeSet(c, <<"BNet", "Default", "AccessTalk">>, v) = Filling(t, obt, v, bu, ogt, oga, ogu)
         /\ v # Absent => TreeSet(c, <<"BNet", "Default", "AccessUser", "x">>, v) =
                            Filling(t, obt, ba, v, ogt, oga, ogu)
         /\ TreeSet(c, <<"BNet", "Gateways", "g", "Trigger">>, v) = Filling(t, obt, ba, bu, v, oga, ogu)
         /\ TreeSet(c, <<"BNet", "Gateways", "g", "AccessTalk">>, v) = Filling(t, obt, ba, bu, ogt, v, ogu)
         /\ v # Absent => TreeSet(c, <<"BNet", "Gateways", "g", "AccessUser", "x">>, v) =
                            Filling(t, obt, ba, bu, ogt, oga, v)
<1> DEFINE n == Row(t, obt, ba, bu, ogt, oga, ogu)
<1>1. FromMap(TreeMap(c)) = n
  BY RowFromMap
<1>2. \A p, m : S!Known(n, p) /\ S!Assign(n, p, S!Leaf(v)) = m => TreeSet(c, p, v) = Replaced(c, m)
  <2> HIDE DEF n
  <2> QED BY <1>1, SetIs
<1>3. \A x, xt, xa, xu, yt, ya, yu :
        Replaced(c, Row(x, xt, xa, xu, yt, ya, yu)) = Filling(x, xt, xa, xu, yt, ya, yu)
  BY RowReplaced
<1>4. /\ S!Known(n, <<"Default", "Trigger">>)
      /\ S!Known(n, <<"BNet", "Default", "Trigger">>)
      /\ S!Known(n, <<"BNet", "Default", "AccessTalk">>)
      /\ S!Known(n, <<"BNet", "Default", "AccessUser", "x">>)
      /\ S!Known(n, <<"BNet", "Gateways", "g", "Trigger">>)
      /\ S!Known(n, <<"BNet", "Gateways", "g", "AccessTalk">>)
      /\ S!Known(n, <<"BNet", "Gateways", "g", "AccessUser", "x">>)
  BY RowKnown
<1>5. /\ S!Assign(n, <<"Default", "Trigger">>, S!Leaf(v)) = Row(v, obt, ba, bu, ogt, oga, ogu)
      /\ S!Assign(n, <<"BNet", "Default", "Trigger">>, S!Leaf(v)) = Row(t, v, ba, bu, ogt, oga, ogu)
      /\ S!Assign(n, <<"BNet", "Default", "AccessTalk">>, S!Leaf(v)) = Row(t, obt, v, bu, ogt, oga, ogu)
      /\ v # Absent => S!Assign(n, <<"BNet", "Default", "AccessUser", "x">>, S!Leaf(v)) =
                         Row(t, obt, ba, v, ogt, oga, ogu)
      /\ S!Assign(n, <<"BNet", "Gateways", "g", "Trigger">>, S!Leaf(v)) = Row(t, obt, ba, bu, v, oga, ogu)
      /\ S!Assign(n, <<"BNet", "Gateways", "g", "AccessTalk">>, S!Leaf(v)) = Row(t, obt, ba, bu, ogt, v, ogu)
      /\ v # Absent => S!Assign(n, <<"BNet", "Gateways", "g", "AccessUser", "x">>, S!Leaf(v)) =
                         Row(t, obt, ba, bu, ogt, oga, v)
  BY RowAssigned
<1> HIDE DEF n
<1>6. TreeSet(c, <<"Default", "Trigger">>, v) = Filling(v, obt, ba, bu, ogt, oga, ogu)
  BY <1>2, <1>3, <1>4, <1>5
<1>7. TreeSet(c, <<"BNet", "Default", "Trigger">>, v) = Filling(t, v, ba, bu, ogt, oga, ogu)
  BY <1>2, <1>3, <1>4, <1>5
<1>8. TreeSet(c, <<"BNet", "Default", "AccessTalk">>, v) = Filling(t, obt, v, bu, ogt, oga, ogu)
  BY <1>2, <1>3, <1>4, <1>5
<1>9. v # Absent => TreeSet(c, <<"BNet", "Default", "AccessUser", "x">>, v) =
                      Filling(t, obt, ba, v, ogt, oga, ogu)
  BY <1>2, <1>3, <1>4, <1>5
<1>10. TreeSet(c, <<"BNet", "Gateways", "g", "Trigger">>, v) = Filling(t, obt, ba, bu, v, oga, ogu)
  BY <1>2, <1>3, <1>4, <1>5
<1>11. TreeSet(c, <<"BNet", "Gateways", "g", "AccessTalk">>, v) = Filling(t, obt, ba, bu, ogt, v, ogu)
  BY <1>2, <1>3, <1>4, <1>5
<1>12. v # Absent => TreeSet(c, <<"BNet", "Gateways", "g", "AccessUser", "x">>, v) =
                       Filling(t, obt, ba, bu, ogt, oga, v)
  BY <1>2, <1>3, <1>4, <1>5
<1> QED BY <1>6, <1>7, <1>8, <1>9, <1>10, <1>11, <1>12

LEMMA UnsetNothing ==
  ASSUME NEW c, NEW n, FromMap(TreeMap(c)) = n, NEW path, S!Find(n, path) = S!Nil
  PROVE  TreeUnset(c, path) = c
BY DEF TreeUnset

LEMMA UnsetField ==
  ASSUME NEW c, NEW n, FromMap(TreeMap(c)) = n, NEW path, NEW v, S!Find(n, path) = S!Leaf(v),
         S!Find(n, S!Front(path)).type = "struct"
  PROVE  TreeUnset(c, path) = Replaced(c, S!Assign(n, path, S!Leaf(0)))
<1>1. S!Zero(S!Leaf(v)) = S!Leaf(0)
  BY DEF S!Zero, S!Leaf
<1>2. S!Leaf(v) # S!Nil
  BY LeafIsNot
<1>3. S!Unset(n, path) = S!Assign(n, path, S!Leaf(0))
  BY <1>1 DEF S!Unset
<1> QED BY <1>2, <1>3 DEF TreeUnset

LEMMA UnsetEntry ==
  ASSUME NEW c, NEW n, FromMap(TreeMap(c)) = n, NEW path, S!Find(n, path) # S!Nil,
         NEW w, S!Find(n, S!Front(path)) = w, w.type = "map"
  PROVE  TreeUnset(c, path) = Replaced(c, S!Assign(n, S!Front(path), S!Without(w, {S!Last(path)})))
<1>1. S!Unset(n, path) = S!Assign(n, S!Front(path), S!Without(w, {S!Last(path)}))
  BY DEF S!Unset
<1> QED BY <1>1 DEF TreeUnset

LEMMA RowUnset ==
  ASSUME NEW t, NEW bt, NEW ba, NEW bu, NEW gt, NEW ga, NEW gu, NEW c, c = Row(t, bt, ba, bu, gt, ga, gu),
         NEW obt, obt = Own(bt, t), NEW ogt, ogt = Own(gt, bt), NEW oga, oga = Own(ga, ba), NEW ogu, ogu = Left(gu, bu)
  PROVE  /\ TreeUnset(c, <<"BNet", "Default", "AccessTalk">>) = Filling(t, obt, 0, bu, ogt, oga, ogu)
         /\ TreeUnset(c, <<"BNet", "Gateways", "g", "AccessTalk">>) = Filling(t, obt, ba, bu, ogt, 0, ogu)
         /\ TreeUnset(c, <<"BNet", "Gateways", "g", "AccessUser", "x">>) =
              IF ogu = Absent THEN c ELSE Filling(t, obt, ba, bu, ogt, oga, Absent)
<1> DEFINE n == Row(t, obt, ba, bu, ogt, oga, ogu)
<1>1. FromMap(TreeMap(c)) = n
  BY RowFromMap
<1>2. /\ S!Find(n, <<"BNet", "Default", "AccessTalk">>) = S!Leaf(ba)
      /\ S!Find(n, <<"BNet", "Gateways", "g", "AccessTalk">>) = S!Leaf(oga)
      /\ S!Find(n, <<"BNet", "Gateways", "g", "AccessUser", "x">>) = IF ogu = Absent THEN S!Nil ELSE S!Leaf(ogu)
      /\ S!Find(n, <<"BNet", "Default">>).type = "struct"
      /\ S!Find(n, <<"BNet", "Gateways", "g">>).type = "struct"
      /\ S!Find(n, <<"BNet", "Gateways", "g", "AccessUser">>) = Levels(User(ogu))
      /\ Levels(User(ogu)).type = "map"
  BY RowFound
<1>3. /\ S!Front(<<"BNet", "Default", "AccessTalk">>) = <<"BNet", "Default">>
      /\ S!Front(<<"BNet", "Gateways", "g", "AccessTalk">>) = <<"BNet", "Gateways", "g">>
      /\ S!Front(<<"BNet", "Gateways", "g", "AccessUser", "x">>) = <<"BNet", "Gateways", "g", "AccessUser">>
      /\ S!Last(<<"BNet", "Gateways", "g", "AccessUser", "x">>) = "x"
  BY Front3, Front4, Front5
<1>4. /\ S!Assign(n, <<"BNet", "Default", "AccessTalk">>, S!Leaf(0)) = Row(t, obt, 0, bu, ogt, oga, ogu)
      /\ S!Assign(n, <<"BNet", "Gateways", "g", "AccessTalk">>, S!Leaf(0)) = Row(t, obt, ba, bu, ogt, 0, ogu)
  BY RowAssigned
<1>5. S!Assign(n, <<"BNet", "Gateways", "g", "AccessUser">>, S!Without(Levels(User(ogu)), {"x"})) =
        Row(t, obt, ba, bu, ogt, oga, Absent)
  <2> DEFINE u == User(ogu)
             w == User(bu)
             y == User(Absent)
             r == Quiet
  <2>1. Restrict(u, DOMAIN u \ {"x"}) = y
    BY UserOps
  <2> HIDE DEF u, w, y, r
  <2>2. S!Without(Levels(u), {"x"}) = Levels(y)
    BY <2>1, InLevels
  <2>3. n = Chained(t, obt, ba, w, ogt, oga, u, r)
    BY DEF Row, u, w, r
  <2>4. S!Assign(n, <<"BNet", "Gateways", "g", "AccessUser">>, Levels(y)) = Chained(t, obt, ba, w, ogt, oga, y, r)
    BY <2>3, UsersAssigned
  <2> QED BY <2>2, <2>4 DEF Row, u, w, y, r
<1>6. \A x, xt, xa, xu, yt, ya, yu :
        Replaced(c, Row(x, xt, xa, xu, yt, ya, yu)) = Filling(x, xt, xa, xu, yt, ya, yu)
  BY RowReplaced
<1> HIDE DEF n
<1>7. TreeUnset(c, <<"BNet", "Default", "AccessTalk">>) = Filling(t, obt, 0, bu, ogt, oga, ogu)
  <2> DEFINE p == <<"BNet", "Default", "AccessTalk">>
             q == <<"BNet", "Default">>
  <2>1. S!Find(n, p) = S!Leaf(ba) /\ S!Front(p) = q /\ S!Find(n, q).type = "struct"
    BY <1>2, <1>3
  <2>2. Replaced(c, S!Assign(n, p, S!Leaf(0))) = Filling(t, obt, 0, bu, ogt, oga, ogu)
    BY <1>4, <1>6
  <2> HIDE DEF p, q
  <2>3. TreeUnset(c, p) = Replaced(c, S!Assign(n, p, S!Leaf(0)))
    BY <1>1, <2>1, UnsetField
  <2> QED BY <2>2, <2>3 DEF p
<1>8. TreeUnset(c, <<"BNet", "Gateways", "g", "AccessTalk">>) = Filling(t, obt, ba, bu, ogt, 0, ogu)
  <2> DEFINE p == <<"BNet", "Gateways", "g", "AccessTalk">>
             q == <<"BNet", "Gateways", "g">>
  <2>1. S!Find(n, p) = S!Leaf(oga) /\ S!Front(p) = q /\ S!Find(n, q).type = "struct"
    BY <1>2, <1>3
  <2>2. Replaced(c, S!Assign(n, p, S!Leaf(0))) = Filling(t, obt, ba, bu, ogt, 0, ogu)
    BY <1>4, <1>6
  <2> HIDE DEF p, q
  <2>3. TreeUnset(c, p) = Replaced(c, S!Assign(n, p, S!Leaf(0)))
    BY <1>1, <2>1, UnsetField
  <2> QED BY <2>2, <2>3 DEF p
<1>9. TreeUnset(c, <<"BNet", "Gateways", "g", "AccessUser", "x">>) =
        IF ogu = Absent THEN c ELSE Filling(t, obt, ba, bu, ogt, oga, Absent)
  <2>1. CASE ogu = Absent
    BY <2>1, <1>1, <1>2, UnsetNothing
  <2>2. CASE ogu # Absent
    <3> DEFINE w == Levels(User(ogu))
    <3>1. S!Find(n, <<"BNet", "Gateways", "g", "AccessUser", "x">>) # S!Nil
      BY <2>2, <1>2, LeafIsNot
    <3>2. S!Find(n, <<"BNet", "Gateways", "g", "AccessUser">>) = w /\ w.type = "map"
      BY <1>2
    <3>3. S!Assign(n, <<"BNet", "Gateways", "g", "AccessUser">>, S!Without(w, {"x"})) =
            Row(t, obt, ba, bu, ogt, oga, Absent)
      BY <1>5
    <3> HIDE DEF w
    <3>4. TreeUnset(c, <<"BNet", "Gateways", "g", "AccessUser", "x">>) =
            Replaced(c, S!Assign(n, <<"BNet", "Gateways", "g", "AccessUser">>, S!Without(w, {"x"})))
      BY <1>1, <1>3, <3>1, <3>2, UnsetEntry
    <3> QED BY <2>2, <3>3, <3>4, <1>6
  <2> QED BY <2>1, <2>2
<1> QED BY <1>7, <1>8, <1>9

-----------------------------------------------------------------------------
(* The conversions of ConfigPersist and those of the tree                  *)

LEMMA NestIs ==
  ASSUME NEW c
  PROVE  Nest(c) = Row(0, 0, c.dflt, Absent, 0, c.field, c.user)
<1> DEFINE none == <<>>
           s == Section(0, c.field, User(c.user))
<1>1. User(Absent) = none
  BY UserIs
<1>2. [g |-> s] = One(s)
  <2> HIDE DEF s
  <2> QED BY OneIs
<1>3. Relays(Relay(1), Relay(0), none) = Quiet
  BY QuietIs
<1> QED BY <1>1, <1>2, <1>3 DEF Nest, Row, Chained

LEMMA FillingBare ==
  ASSUME NEW a, NEW b, NEW u
  PROVE  Filling(0, 0, a, Absent, 0, b, u) = Row(0, 0, a, Absent, 0, Or(b, a), u)
<1>1. Or(0, 0) = 0 /\ Took(u, Absent) = u
  BY DEF Or, Took
<1> QED BY <1>1 DEF Filling

LEMMA DefaultsAgree ==
  ASSUME NEW c \in Config
  PROVE  TreeMergeDefaults(Nest(c)) = Nest(MergeDefaults(c))
<1> DEFINE a == c.dflt
           b == c.field
           u == c.user
           m == MergeDefaults(c)
<1>1. m.dflt = a /\ m.user = u /\ m.field = Or(b, a)
  BY MergeDefaultsSettings DEF Or
<1>2. Nest(m) = Row(0, 0, m.dflt, Absent, 0, m.field, m.user)
  BY NestIs
<1>3. Nest(c) = Row(0, 0, a, Absent, 0, b, u)
  BY NestIs
<1> HIDE DEF a, b, u, m
<1>4. TreeMergeDefaults(Row(0, 0, a, Absent, 0, b, u)) = Filling(0, 0, a, Absent, 0, b, u)
  BY RowDefaults
<1> QED BY <1>1, <1>2, <1>3, <1>4, FillingBare DEF m

LEMMA SetFields ==
  ASSUME NEW c \in Config, NEW k \in Key, NEW v, v \in Value \/ v = Zero[k],
         NEW s, s = Set(c, k, v)
  PROVE  /\ s.dflt = IF k = "dflt" THEN v ELSE c.dflt
         /\ s.user = IF k = "user" THEN v ELSE c.user
         /\ s.field = Or(IF k = "field" THEN v ELSE Own(c.field, c.dflt), IF k = "dflt" THEN v ELSE c.dflt)
<1> DEFINE o == Override(Zero, Map(c))
           e == [o EXCEPT ![k] = v]
<1>1. Zero \in Config
  BY ValueAssumption DEF Zero, Config
<1>2. /\ o = [j \in Key |-> o[j]]
      /\ \A j \in Key : o[j] = IF j \in DOMAIN Map(c) THEN Map(c)[j] ELSE Zero[j]
  BY <1>1, OverrideKeys
<1>3. /\ "dflt" \in DOMAIN Map(c)
      /\ "field" \in DOMAIN Map(c) <=> c.field # c.dflt
      /\ "user" \in DOMAIN Map(c) <=> c.user # Absent
      /\ \A j \in DOMAIN Map(c) : Map(c)[j] = c[j]
  BY MapKeys
<1>4. {"dflt", "field", "user"} = Key
  BY DEF Key
<1>5. /\ c["dflt"] \in Value /\ c["field"] \in Value /\ c["user"] \in Value \cup {Absent}
      /\ Zero["dflt"] = 0 /\ Zero["field"] = 0 /\ Zero["user"] = Absent /\ 0 \in Value
  BY ConfigFun, ValueAssumption DEF Zero
<1> HIDE DEF o
<1>6. /\ o["dflt"] = c.dflt
      /\ o["user"] = c.user
      /\ o["field"] = Own(c.field, c.dflt)
  BY <1>2, <1>3, <1>4, <1>5 DEF Own
<1>7. /\ e = [j \in Key |-> e[j]]
      /\ \A j \in Key : e[j] = IF j = k THEN v ELSE o[j]
  BY <1>2
<1> HIDE DEF e
<1>8. /\ e["dflt"] = IF k = "dflt" THEN v ELSE c.dflt
      /\ e["user"] = IF k = "user" THEN v ELSE c.user
      /\ e["field"] = IF k = "field" THEN v ELSE Own(c.field, c.dflt)
  BY <1>4, <1>6, <1>7
<1>9. e["dflt"] \in Value /\ e["field"] \in Value /\ e["user"] \in Value \cup {Absent}
  BY <1>4, <1>5, <1>8 DEF Own
<1>10. e \in Config
  BY <1>7, <1>9, FunConfig
<1>11. s = MergeDefaults(e)
  BY DEF Set, e, o
<1>12. s.dflt = e.dflt /\ s.user = e.user /\ s.field = Or(e.field, e.dflt)
  BY <1>10, <1>11, MergeDefaultsSettings DEF Or
<1> QED BY <1>8, <1>12

LEMMA PathIs ==
  /\ Path["dflt"] = <<"BNet", "Default", "AccessTalk">>
  /\ Path["field"] = <<"BNet", "Gateways", "g", "AccessTalk">>
  /\ Path["user"] = <<"BNet", "Gateways", "g", "AccessUser", "x">>
BY DEF Path

LEMMA SetsAgree ==
  ASSUME NEW c \in Config, NEW k \in Key, NEW v \in Value
  PROVE  TreeSet(Nest(c), Path[k], v) = Nest(Set(c, k, v))
<1> DEFINE a == c.dflt
           b == c.field
           u == c.user
           s == Set(c, k, v)
           n == Nest(c)
           o == Own(b, a)
<1>1. n = Row(0, 0, a, Absent, 0, b, u)
  BY NestIs
<1>2. Nest(s) = Row(0, 0, s.dflt, Absent, 0, s.field, s.user)
  BY NestIs
<1>3. /\ s.dflt = IF k = "dflt" THEN v ELSE a
      /\ s.user = IF k = "user" THEN v ELSE u
      /\ s.field = Or(IF k = "field" THEN v ELSE o, IF k = "dflt" THEN v ELSE a)
  BY SetFields
<1>4. v # Absent
  BY ValueAssumption
<1>5. 0 = Own(0, 0) /\ u = Left(u, Absent)
  BY DEF Own, Left
<1>6. o = Own(b, a)
  OBVIOUS
<1>7. k \in {"dflt", "field", "user"}
  BY DEF Key
<1> HIDE DEF a, b, u, s, n, o
<1>8. /\ TreeSet(n, <<"BNet", "Default", "AccessTalk">>, v) = Filling(0, 0, v, Absent, 0, o, u)
      /\ TreeSet(n, <<"BNet", "Gateways", "g", "AccessTalk">>, v) = Filling(0, 0, a, Absent, 0, v, u)
      /\ TreeSet(n, <<"BNet", "Gateways", "g", "AccessUser", "x">>, v) = Filling(0, 0, a, Absent, 0, o, v)
  BY <1>1, <1>4, <1>5, <1>6, RowSet
<1>9. TreeSet(n, Path[k], v) = Nest(s)
  <2>1. CASE k = "dflt"
    BY <2>1, <1>2, <1>3, <1>8, PathIs, FillingBare
  <2>2. CASE k = "field"
    BY <2>2, <1>2, <1>3, <1>8, PathIs, FillingBare
  <2>3. CASE k = "user"
    BY <2>3, <1>2, <1>3, <1>8, PathIs, FillingBare
  <2> QED BY <1>7, <2>1, <2>2, <2>3
<1> QED BY <1>9 DEF n, s

LEMMA UnsetsAgree ==
  ASSUME NEW c \in Settings, NEW k \in Key
  PROVE  TreeUnset(Nest(c), Path[k]) = Nest(Unset(c, k))
<1> DEFINE a == c.dflt
           b == c.field
           u == c.user
           v == Zero[k]
           s == Set(c, k, v)
           n == Nest(c)
           o == Own(b, a)
<1>1. n = Row(0, 0, a, Absent, 0, b, u)
  BY NestIs
<1>2. Nest(s) = Row(0, 0, s.dflt, Absent, 0, s.field, s.user)
  BY NestIs
<1>3. /\ s.dflt = IF k = "dflt" THEN v ELSE a
      /\ s.user = IF k = "user" THEN v ELSE u
      /\ s.field = Or(IF k = "field" THEN v ELSE o, IF k = "dflt" THEN v ELSE a)
  BY SetFields DEF Settings
<1>4. v = IF k = "user" THEN Absent ELSE 0
  BY DEF Key, Zero
<1>5. 0 = Own(0, 0) /\ u = Left(u, Absent)
  BY DEF Own, Left
<1>6. o = Own(b, a) /\ Or(o, a) = b
  BY DEF Own, Or, Settings
<1>7. k \in {"dflt", "field", "user"}
  BY DEF Key
<1>8. Unset(c, k) = s
  BY DEF Unset
<1> HIDE DEF a, b, u, v, s, n, o
<1>9. /\ TreeUnset(n, <<"BNet", "Default", "AccessTalk">>) = Filling(0, 0, 0, Absent, 0, o, u)
      /\ TreeUnset(n, <<"BNet", "Gateways", "g", "AccessTalk">>) = Filling(0, 0, a, Absent, 0, 0, u)
      /\ TreeUnset(n, <<"BNet", "Gateways", "g", "AccessUser", "x">>) =
           IF u = Absent THEN n ELSE Filling(0, 0, a, Absent, 0, o, Absent)
  BY <1>1, <1>5, <1>6, RowUnset
<1>10. TreeUnset(n, Path[k]) = Nest(s)
  <2>1. CASE k = "dflt"
    BY <2>1, <1>2, <1>3, <1>4, <1>9, PathIs, FillingBare
  <2>2. CASE k = "field"
    BY <2>2, <1>2, <1>3, <1>4, <1>9, PathIs, FillingBare
  <2>3. CASE k = "user"
    <3>1. Nest(s) = Row(0, 0, a, Absent, 0, b, Absent)
      BY <2>3, <1>2, <1>3, <1>4, <1>6
    <3>2. CASE u = Absent
      BY <3>1, <3>2, <2>3, <1>1, <1>9, PathIs
    <3>3. CASE u # Absent
      BY <3>1, <3>3, <2>3, <1>6, <1>9, PathIs, FillingBare
    <3> QED BY <3>2, <3>3
  <2> QED BY <1>7, <2>1, <2>2, <2>3
<1> QED BY <1>8, <1>10 DEF n

LEMMA NilHasNone ==
  ASSUME NEW k
  PROVE  S!Kid(S!Nil, k) = S!Nil
<1>1. S!Nil.type = "nil"
  BY DEF S!Nil
<1>2. S!Keys(S!Nil) = {}
  BY <1>1 DEF S!Keys
<1> QED BY <1>2 DEF S!Kid

LEMMA SectionMapKids ==
  ASSUME NEW G \in SUBSET Fields, NEW y, NEW b, NEW u
  PROVE  /\ S!Kid(SectionMap(G, y, b, u), "AccessTalk") = IF "AccessTalk" \in G THEN S!Leaf(b) ELSE S!Nil
         /\ S!Kid(SectionMap(G, y, b, u), "AccessUser") = IF "AccessUser" \in G THEN Users(S!Nil, u) ELSE S!Nil
<1> DEFINE us == Users(S!Nil, u)
           f == SectionKids(G, y, b, us)
           g == SectionMap(G, y, b, u)
<1>1. g = S!Dict(S!Nil, f)
  BY DEF SectionMap
<1> HIDE DEF us
<1>2. DOMAIN f = G /\ ("AccessTalk" \in G => f["AccessTalk"] = S!Leaf(b)) /\ ("AccessUser" \in G => f["AccessUser"] = us)
  BY SectionKidsOf
<1> HIDE DEF g, f
<1>3. \A k : S!Kid(g, k) = IF k \in DOMAIN f THEN f[k] ELSE S!Nil
  BY <1>1, KidWith
<1> QED BY <1>2, <1>3 DEF g, us

(* What a map of settings, some of them left out, has on the paths.        *)
LEMMA HeldIs ==
  ASSUME NEW E \in SUBSET Parts, NEW F \in SUBSET Halves, NEW D \in SUBSET Fields, NEW G \in SUBSET Fields,
         NEW t, NEW x, NEW a, NEW w, NEW y, NEW b, NEW u, NEW q,
         NEW m, m = TreeDict(E, t, BNetDict(F, SectionMap(D, x, a, w), SectionMap(G, y, b, u)), q)
  PROVE  /\ S!Find(m, Path["dflt"]) = IF Talks(E, F, D) THEN S!Leaf(a) ELSE S!Nil
         /\ S!Find(m, Path["field"]) = IF Gates(E, F, G, "AccessTalk") THEN S!Leaf(b) ELSE S!Nil
         /\ S!Find(m, Path["user"]) = IF Gates(E, F, G, "AccessUser") THEN Entry(u) ELSE S!Nil
<1> DEFINE d == SectionMap(D, x, a, w)
           g == SectionMap(G, y, b, u)
           h == BNetDict(F, d, g)
           us == Users(S!Nil, u)
<1>1. S!Kid(m, "BNet") = IF "BNet" \in E THEN h ELSE S!Nil
  <2> HIDE DEF h
  <2>1. m = S!Dict(S!Nil, TreeKids(E, t, h, q))
    BY DEF TreeDict, h
  <2>2. S!Kid(m, "BNet") = IF "BNet" \in DOMAIN TreeKids(E, t, h, q) THEN TreeKids(E, t, h, q)["BNet"] ELSE S!Nil
    BY <2>1, KidWith
  <2> QED BY <2>2, TreeKidsOf
<1>2. /\ S!Kid(h, "Default") = IF "Default" \in F THEN d ELSE S!Nil
      /\ S!Kid(h, "Gateways") = IF "Gateways" \in F THEN S!Dict(S!Nil, One(g)) ELSE S!Nil
  <2> HIDE DEF d, g
  <2> DEFINE gs == S!Dict(S!Nil, One(g))
  <2> HIDE DEF gs
  <2>1. h = S!Dict(S!Nil, BNetKids(F, d, gs))
    BY DEF BNetDict, gs
  <2> HIDE DEF h
  <2>2. \A k : S!Kid(h, k) = IF k \in DOMAIN BNetKids(F, d, gs) THEN BNetKids(F, d, gs)[k] ELSE S!Nil
    BY <2>1, KidWith
  <2>3. /\ DOMAIN BNetKids(F, d, gs) = F
        /\ "Default" \in F => BNetKids(F, d, gs)["Default"] = d
        /\ "Gateways" \in F => BNetKids(F, d, gs)["Gateways"] = gs
    BY BNetKidsOf
  <2> QED BY <2>2, <2>3 DEF gs
<1>3. S!Kid(S!Dict(S!Nil, One(g)), "g") = g
  <2> HIDE DEF g
  <2> QED BY InOne
<1>4. S!Kid(d, "AccessTalk") = IF "AccessTalk" \in D THEN S!Leaf(a) ELSE S!Nil
  BY SectionMapKids
<1>5. /\ S!Kid(g, "AccessTalk") = IF "AccessTalk" \in G THEN S!Leaf(b) ELSE S!Nil
      /\ S!Kid(g, "AccessUser") = IF "AccessUser" \in G THEN us ELSE S!Nil
  BY SectionMapKids
<1>6. S!Kid(us, "x") = Entry(u)
  <2> DEFINE f == Entries(u)
  <2>1. us = S!Dict(S!Nil, f)
    BY DEF Users
  <2>2. DOMAIN f = DOMAIN u /\ \A k \in DOMAIN u : f[k] = S!Leaf(u[k])
    BY EntriesOf
  <2> HIDE DEF us, f
  <2>3. S!Kid(us, "x") = IF "x" \in DOMAIN f THEN f["x"] ELSE S!Nil
    BY <2>1, KidWith
  <2> QED BY <2>2, <2>3 DEF Entry
<1> HIDE DEF d, g, h, us
<1>7. S!Find(m, <<"BNet", "Default", "AccessTalk">>) = S!Kid(S!Kid(S!Kid(m, "BNet"), "Default"), "AccessTalk")
  BY Find3
<1>8. S!Find(m, <<"BNet", "Gateways", "g", "AccessTalk">>) =
        S!Kid(S!Kid(S!Kid(S!Kid(m, "BNet"), "Gateways"), "g"), "AccessTalk")
  BY Find4
<1>9. S!Find(m, <<"BNet", "Gateways", "g", "AccessUser", "x">>) =
        S!Kid(S!Kid(S!Kid(S!Kid(S!Kid(m, "BNet"), "Gateways"), "g"), "AccessUser"), "x")
  BY Find5
<1>10. \A k : S!Kid(S!Nil, k) = S!Nil
  BY NilHasNone
<1>11. S!Find(m, Path["dflt"]) = IF Talks(E, F, D) THEN S!Leaf(a) ELSE S!Nil
  BY <1>1, <1>2, <1>4, <1>7, <1>10, PathIs DEF Talks
<1>12. S!Find(m, Path["field"]) = IF Gates(E, F, G, "AccessTalk") THEN S!Leaf(b) ELSE S!Nil
  BY <1>1, <1>2, <1>3, <1>5, <1>8, <1>10, PathIs DEF Gates
<1>13. S!Find(m, Path["user"]) = IF Gates(E, F, G, "AccessUser") THEN Entry(u) ELSE S!Nil
  BY <1>1, <1>2, <1>3, <1>5, <1>6, <1>9, <1>10, PathIs DEF Gates
<1> QED BY <1>11, <1>12, <1>13

(* A map of ConfigPersist and a map of the tree have the same settings.    *)
Alikes(m, n) ==
  \A k \in Key : S!Find(n, Path[k]) = IF k \in DOMAIN m /\ m[k] # Absent THEN S!Leaf(m[k]) ELSE S!Nil

LEMMA NestBare ==
  ASSUME NEW c
  PROVE  Nest(c) = Bare(c.dflt, c.field, User(c.user), Quiet)
<1> DEFINE none == <<>>
<1>1. User(Absent) = none
  BY UserIs
<1> HIDE DEF none
<1>2. Nest(c) = Row(0, 0, c.dflt, Absent, 0, c.field, c.user)
  BY NestIs
<1> QED BY <1>1, <1>2 DEF Row, Bare, none

LEMMA MapsAgree ==
  ASSUME NEW c \in Config
  PROVE  Alikes(Map(c), TreeMap(Nest(c)))
<1> DEFINE a == c.dflt
           b == c.field
           u == User(c.user)
           G == GateFields(0, a, <<>>, 0, b, u)
           D == {"AccessTalk", "AccessUser"}
           m == TreeMap(Nest(c))
           p == Map(c)
<1>1. IsMap(u)
  BY UserIs
<1>2. m = TreeDict(Parts, DfltMap(0), BNetDict(Halves, SectionMap(D, 0, a, <<>>), SectionMap(G, 0, b, u)), MapOfRelays(Quiet))
  <2> HIDE DEF a, b, u
  <2>1. TreeMap(Bare(a, b, u, Quiet)) =
          TreeDict(Parts, DfltMap(0), BNetDict(Halves, SectionMap(D, 0, a, <<>>), SectionMap(G, 0, b, u)), MapOfRelays(Quiet))
    BY <1>1, BareMap
  <2> QED BY <2>1, NestBare DEF a, b, u
<1>3. "AccessTalk" \in G <=> b # a
  BY DEF GateFields, Alike, Fields
<1>4. "AccessUser" \in G <=> c.user # Absent
  <2>1. User(c.user) = <<>> <=> c.user = Absent
    <3> DEFINE none == <<>>
    <3>1. DOMAIN none = {}
      BY NewConfigIs
    <3> HIDE DEF none
    <3>2. User(c.user) = none <=> c.user = Absent
      BY <3>1, UserIs DEF none
    <3> QED BY <3>2 DEF none
  <2> QED BY <2>1 DEF GateFields, Alike, Fields
<1>5. G \in SUBSET Fields /\ D \in SUBSET Fields
  BY DEF GateFields, Fields
<1>6. Entry(u) = IF c.user = Absent THEN S!Nil ELSE S!Leaf(c.user)
  BY UserIs
<1>7. /\ "dflt" \in DOMAIN p
      /\ "field" \in DOMAIN p <=> b # a
      /\ "user" \in DOMAIN p <=> c.user # Absent
      /\ \A k \in DOMAIN p : p[k] = c[k]
  BY MapKeys
<1>8. a \in Value /\ b \in Value /\ Absent \notin Value
  BY ValueAssumption DEF Config
<1>9. Talks(Parts, Halves, D) /\ Gates(Parts, Halves, G, "AccessTalk") = ("AccessTalk" \in G)
      /\ Gates(Parts, Halves, G, "AccessUser") = ("AccessUser" \in G)
  BY DEF Talks, Gates, Parts, Halves
<1>10. c["dflt"] = a /\ c["field"] = b
  OBVIOUS
<1> HIDE DEF a, b, u, G, D, m, p
<1>11. /\ S!Find(m, Path["dflt"]) = IF Talks(Parts, Halves, D) THEN S!Leaf(a) ELSE S!Nil
       /\ S!Find(m, Path["field"]) = IF Gates(Parts, Halves, G, "AccessTalk") THEN S!Leaf(b) ELSE S!Nil
       /\ S!Find(m, Path["user"]) = IF Gates(Parts, Halves, G, "AccessUser") THEN Entry(u) ELSE S!Nil
  BY <1>2, <1>5, HeldIs
<1>12. S!Find(m, Path["dflt"]) = IF "dflt" \in DOMAIN p /\ p["dflt"] # Absent THEN S!Leaf(p["dflt"]) ELSE S!Nil
  BY <1>7, <1>8, <1>9, <1>10, <1>11
<1>13. S!Find(m, Path["field"]) = IF "field" \in DOMAIN p /\ p["field"] # Absent THEN S!Leaf(p["field"]) ELSE S!Nil
  BY <1>3, <1>7, <1>8, <1>9, <1>10, <1>11
<1>14. S!Find(m, Path["user"]) = IF "user" \in DOMAIN p /\ p["user"] # Absent THEN S!Leaf(p["user"]) ELSE S!Nil
  BY <1>4, <1>6, <1>7, <1>9, <1>11
<1> QED BY <1>12, <1>13, <1>14 DEF Alikes, Key, m, p

LEMMA UsersSaved ==
  ASSUME NEW u, NEW v
  PROVE  NewUsers(User(u), User(v)) <=> u # Absent /\ u # v
<1> DEFINE none == <<>>
<1>1. DOMAIN none = {}
  BY NewConfigIs
<1> HIDE DEF none
<1>2. User(u) = none <=> u = Absent
  BY <1>1, UserIs DEF none
<1>3. User(u) = User(v) <=> u = v
  <2>1. u = v => User(u) = User(v)
    OBVIOUS
  <2>2. ASSUME User(u) = User(v) PROVE u = v
    <3> DEFINE a == User(u)
               b == User(v)
    <3>1. /\ u = Absent => DOMAIN a = {}
          /\ u # Absent => DOMAIN a = {"x"} /\ a["x"] = u
      BY UserIs
    <3>2. /\ v = Absent => DOMAIN b = {}
          /\ v # Absent => DOMAIN b = {"x"} /\ b["x"] = v
      BY UserIs
    <3>3. a = b
      BY <2>2
    <3> HIDE DEF a, b
    <3> QED BY <3>1, <3>2, <3>3
  <2> QED BY <2>1, <2>2
<1> QED BY <1>2, <1>3 DEF NewUsers, none

LEMMA QuietMap ==
  MapOfRelays(Quiet).type = "map"
BY QuietIs, MatrixDictIsMap

LEMMA SavesAgree ==
  ASSUME NEW d \in Config, NEW c \in Config
  PROVE  Alikes(Difference(d, c), TreeSave(Nest(d), Nest(c)))
<1> DEFINE a == c.dflt
           b == c.field
           v == c.user
           a2 == d.dflt
           b2 == d.field
           v2 == d.user
           u == User(v)
           u2 == User(v2)
           r == Quiet
           m == TreeSave(Nest(d), Nest(c))
           p == Difference(d, c)
<1>1. IsMap(u) /\ IsMap(u2)
  BY UserIs
<1>2. m = TreeSave(Bare(a2, b2, u2, r), Bare(a, b, u, r))
  BY NestBare
<1>3. MapOfRelays(r).type = "map"
  BY QuietMap
<1>4. /\ "dflt" \in DOMAIN p <=> a # a2
      /\ "user" \in DOMAIN p <=> v # Absent /\ v # v2
      /\ "field" \in DOMAIN p <=> b # a /\ (b2 \notin {0, a2} => b # b2)
      /\ \A k \in DOMAIN p : p[k] = c[k]
  BY DifferenceKeys
<1>5. NewTalk(a, b, a2, Or(b2, a2)) <=> b # a /\ (b2 \notin {0, a2} => b # b2)
  BY DEF NewTalk, Or
<1>6. NewUsers(u, u2) <=> v # Absent /\ v # v2
  BY UsersSaved
<1>7. a \in Value /\ b \in Value /\ Absent \notin Value
  BY ValueAssumption DEF Config
<1>8. Minus(u, u2) = User(IF v = v2 THEN Absent ELSE v)
  BY UserMinus
<1>9. c["dflt"] = a /\ c["field"] = b /\ c["user"] = v
  OBVIOUS
<1>10. v # Absent /\ v # v2 => Entry(Minus(u, u2)) = S!Leaf(v)
  BY <1>8, UserIs
<1> HIDE DEF a, b, v, a2, b2, v2, u, u2, r, m, p
<1> DEFINE w == Minus(u, u2)
           q == S!DeleteEqual4(MapOfRelays(r), MapOfRelays(CopiedRelays(r)))
<1>11. PICK E, F, D, G :
         /\ Holds(TreeSave(Bare(a2, b2, u2, r), Bare(a, b, u, r)), E, F, D, G, a, b, w, q)
         /\ Talks(E, F, D) <=> a # a2
         /\ Gates(E, F, G, "AccessTalk") <=> NewTalk(a, b, a2, Or(b2, a2))
         /\ Gates(E, F, G, "AccessUser") <=> NewUsers(u, u2)
  <2>1. \E E, F, D, G :
           /\ Holds(TreeSave(Bare(a2, b2, u2, r), Bare(a, b, u, r)), E, F, D, G, a, b, Minus(u, u2),
                    S!DeleteEqual4(MapOfRelays(r), MapOfRelays(CopiedRelays(r))))
           /\ Talks(E, F, D) <=> a # a2
           /\ Gates(E, F, G, "AccessTalk") <=> NewTalk(a, b, a2, Or(b2, a2))
           /\ Gates(E, F, G, "AccessUser") <=> NewUsers(u, u2)
           /\ "Relay" \in E <=> MapOfRelays(r) # MapOfRelays(CopiedRelays(r))
    BY <1>1, <1>3, SavedIs
  <2> QED BY <2>1
<1> HIDE DEF w, q
<1>12. /\ m = TreeDict(E, DfltMap(0), BNetDict(F, SectionMap(D, 0, a, <<>>), SectionMap(G, 0, b, w)), q)
       /\ E \in SUBSET Parts /\ F \in SUBSET Halves /\ D \in SUBSET Fields /\ G \in SUBSET Fields
  BY <1>2, <1>11 DEF Holds
<1>13. /\ S!Find(m, Path["dflt"]) = IF Talks(E, F, D) THEN S!Leaf(a) ELSE S!Nil
       /\ S!Find(m, Path["field"]) = IF Gates(E, F, G, "AccessTalk") THEN S!Leaf(b) ELSE S!Nil
       /\ S!Find(m, Path["user"]) = IF Gates(E, F, G, "AccessUser") THEN Entry(w) ELSE S!Nil
  BY <1>12, HeldIs
<1>14. S!Find(m, Path["dflt"]) = IF "dflt" \in DOMAIN p /\ p["dflt"] # Absent THEN S!Leaf(p["dflt"]) ELSE S!Nil
  BY <1>4, <1>7, <1>9, <1>11, <1>13
<1>15. S!Find(m, Path["field"]) = IF "field" \in DOMAIN p /\ p["field"] # Absent THEN S!Leaf(p["field"]) ELSE S!Nil
  BY <1>4, <1>5, <1>7, <1>9, <1>11, <1>13
<1>16. S!Find(m, Path["user"]) = IF "user" \in DOMAIN p /\ p["user"] # Absent THEN S!Leaf(p["user"]) ELSE S!Nil
  BY <1>4, <1>6, <1>9, <1>10, <1>11, <1>13 DEF w
<1> QED BY <1>14, <1>15, <1>16 DEF Alikes, Key, m, p

LEMMA LoadsAgree ==
  ASSUME NEW d \in Config, NEW c \in Config
  PROVE  TreeLoad(Nest(d), TreeSave(Nest(d), Nest(c))) = Nest(Loaded(d, Difference(d, c)))
<1> DEFINE a == c.dflt
           b == c.field
           v == c.user
           a2 == d.dflt
           b2 == d.field
           v2 == d.user
           u == User(v)
           u2 == User(v2)
           r == Quiet
           p == Difference(d, c)
           o == Override(d, p)
           l == MergeDefaults(o)
           talk == IF NewTalk(a, b, a2, Or(b2, a2)) THEN b ELSE b2
           user == IF v # Absent /\ v # v2 THEN v ELSE v2
<1>1. IsMap(u) /\ IsMap(u2)
  BY UserIs
<1>2. TreeLoad(Nest(d), TreeSave(Nest(d), Nest(c))) =
        TreeLoad(Bare(a2, b2, u2, r), TreeSave(Bare(a2, b2, u2, r), Bare(a, b, u, r)))
  BY NestBare
<1>3. MapOfRelays(r).type = "map" /\ Reloaded(r, r) = r
  BY QuietMap, QuietIs
<1>4. /\ "dflt" \in DOMAIN p <=> a # a2
      /\ "user" \in DOMAIN p <=> v # Absent /\ v # v2
      /\ "field" \in DOMAIN p <=> b # a /\ (b2 \notin {0, a2} => b # b2)
      /\ \A k \in DOMAIN p : p[k] = c[k]
  BY DifferenceKeys
<1>5. NewTalk(a, b, a2, Or(b2, a2)) <=> b # a /\ (b2 \notin {0, a2} => b # b2)
  BY DEF NewTalk, Or
<1>6. NewUsers(u, u2) <=> v # Absent /\ v # v2
  BY UsersSaved
<1>7. /\ c["dflt"] = a /\ c["field"] = b /\ c["user"] = v /\ d["dflt"] = a2 /\ d["field"] = b2 /\ d["user"] = v2
      /\ a \in Value /\ b \in Value /\ v \in Value \cup {Absent}
      /\ a2 \in Value /\ b2 \in Value /\ v2 \in Value \cup {Absent}
  BY DEF Config
<1>8. /\ o = [k \in Key |-> o[k]]
      /\ \A k \in Key : o[k] = IF k \in DOMAIN p THEN p[k] ELSE d[k]
  BY OverrideKeys
<1>9. (IF NewUsers(u, u2) THEN Overlaid(u2, Minus(u, u2)) ELSE u2) = User(user)
  <2>1. CASE v # Absent /\ v # v2
    <3>1. Minus(u, u2) = u
      BY <2>1, UserMinus
    <3>2. Overlaid(u2, u) = u
      BY <2>1, UserOps
    <3> QED BY <1>6, <2>1, <3>1, <3>2
  <2>2. CASE ~(v # Absent /\ v # v2)
    BY <1>6, <2>2
  <2> QED BY <2>1, <2>2
<1> HIDE DEF a, b, v, a2, b2, v2, u, u2, r, p, o
<1>10. o["dflt"] = a /\ o["field"] = talk /\ o["user"] = user
  BY <1>4, <1>5, <1>7, <1>8 DEF Key
<1>11. o \in Config
  BY <1>7, <1>8, <1>10, FunConfig
<1> HIDE DEF talk, user
<1>12. l.dflt = a /\ l.user = user /\ l.field = Or(talk, a)
  BY <1>10, <1>11, MergeDefaultsSettings DEF Or
<1>13. Nest(l) = Bare(l.dflt, l.field, User(l.user), Quiet)
  BY NestBare
<1> HIDE DEF l
<1>14. TreeLoad(Bare(a2, b2, u2, r), TreeSave(Bare(a2, b2, u2, r), Bare(a, b, u, r))) =
         Bare(a, Or(IF NewTalk(a, b, a2, Or(b2, a2)) THEN b ELSE b2, a),
              IF NewUsers(u, u2) THEN Overlaid(u2, Minus(u, u2)) ELSE u2, Reloaded(r, r))
  BY <1>1, <1>3, LoadedIs
<1>15. TreeLoad(Nest(d), TreeSave(Nest(d), Nest(c))) = Nest(l)
  BY <1>2, <1>3, <1>9, <1>12, <1>13, <1>14 DEF talk, r
<1> QED BY <1>15 DEF l, o, p, Loaded

(* The conversions of ConfigPersist are those of the code on the settings  *)
(* that stand for all there: merging, mapping, saving, loading, setting    *)
(* and removing give the same through structs and maps.                    *)
THEOREM ConversionsAreTheCodes == ConversionsAgree
<1> DEFINE Merged == {MergeDefaults(c) : c \in Config}
           Same(m, n) == \A k \in Key :
             S!Find(n, Path[k]) = IF k \in DOMAIN m /\ m[k] # Absent THEN S!Leaf(m[k]) ELSE S!Nil
<1>1. \A c \in Merged : c \in Settings /\ c \in Config
  BY MergeDefaultsSettings DEF Settings
<1>2. \A m, n : Alikes(m, n) => Same(m, n)
  BY DEF Alikes
<1> HIDE DEF Merged, Same
<1>3. \A c \in Config : TreeMergeDefaults(Nest(c)) = Nest(MergeDefaults(c))
  BY DefaultsAgree
<1>4. \A c \in Merged : Same(Map(c), TreeMap(Nest(c)))
  BY <1>1, <1>2, MapsAgree
<1>5. ASSUME NEW c \in Merged, NEW k \in Key
      PROVE  /\ Running(TreeUnset(Nest(c), Path[k])) = Running(Nest(Unset(c, k)))
             /\ \A v \in Value : Running(TreeSet(Nest(c), Path[k], v)) = Running(Nest(Set(c, k, v)))
  BY <1>1, <1>5, UnsetsAgree, SetsAgree
<1>6. ASSUME NEW d \in Config, NEW c \in Merged
      PROVE  /\ Same(Difference(d, c), TreeSave(Nest(d), Nest(c)))
             /\ TreeLoad(Nest(d), TreeSave(Nest(d), Nest(c))) = Nest(Loaded(d, Difference(d, c)))
  BY <1>1, <1>2, <1>6, SavesAgree, LoadsAgree
<1> QED BY <1>3, <1>4, <1>5, <1>6 DEF ConversionsAgree, Merged, Same

(* So the steps of ConfigPersist do to its three values what the commands, *)
(* the loading and the saving of the program do to the tree.               *)
THEOREM ConversionsAlwaysAgree == Spec => []ConversionsAgree
<1>1. ConversionsAgree
  BY ConversionsAreTheCodes
<1> QED BY <1>1, PTL

-----------------------------------------------------------------------------
(* What each setting should be                                             *)

Links == {"Default", "BNet", "g", "all", "one"}

LEMMA ChainIs ==
  /\ DOMAIN Chain = Links
  /\ Chain["Default"] = <<"Default", "Trigger">>
  /\ Chain["BNet"] = <<"BNet", "Default", "Trigger">>
  /\ Chain["g"] = <<"BNet", "Gateways", "g", "Trigger">>
  /\ Chain["all"] = <<"BNet", "Default", "AccessUser", "x">>
  /\ Chain["one"] = <<"BNet", "Gateways", "g", "AccessUser", "x">>
BY DEF Chain, Links

LEMMA FallbackIs ==
  /\ DOMAIN Fallback = {"BNet", "g", "one"}
  /\ Fallback["BNet"] = "Default" /\ Fallback["g"] = "BNet" /\ Fallback["one"] = "all"
BY DEF Fallback

(* A setting that falls back to another when that one becomes x.           *)
OwnOf(c, k, v, j) == IF j = k THEN v ELSE S!Find(c, Chain[j])
Falls(c, k, v, j, x) ==
  IF (j # k /\ S!Find(c, Chain[j]) = S!Find(c, Chain[Fallback[j]])) \/ (S!empty(OwnOf(c, k, v, j)) /\ x # S!Nil)
    THEN x ELSE OwnOf(c, k, v, j)
ExpectedOf(c, k, v, new) ==
  [j \in DOMAIN Chain |-> IF j \in DOMAIN Fallback THEN Falls(c, k, v, j, new[Fallback[j]]) ELSE OwnOf(c, k, v, j)]

LEMMA ExpectedIs ==
  ASSUME NEW c, NEW k, NEW v
  PROVE  Expected(c, k, v) = ExpectedOf(c, k, v, Expected(c, k, v))
<1> DEFINE own(j) == OwnOf(c, k, v, j)
           b == Falls(c, k, v, "BNet", own("Default"))
           w == [j \in Links |->
                   IF j = "Default" THEN own("Default")
                   ELSE IF j = "BNet" THEN b
                   ELSE IF j = "g" THEN Falls(c, k, v, "g", b)
                   ELSE IF j = "all" THEN own("all")
                   ELSE Falls(c, k, v, "one", own("all"))]
<1>1. w = ExpectedOf(c, k, v, w)
  <2>1. /\ w["Default"] = own("Default") /\ w["BNet"] = b /\ w["g"] = Falls(c, k, v, "g", b)
        /\ w["all"] = own("all") /\ w["one"] = Falls(c, k, v, "one", own("all"))
        /\ w = [j \in Links |-> w[j]]
    BY DEF Links
  <2>2. \A j \in Links : w[j] = IF j \in DOMAIN Fallback THEN Falls(c, k, v, j, w[Fallback[j]]) ELSE own(j)
    <3> HIDE DEF w, own, b
    <3>1. w["Default"] = own("Default") /\ w["all"] = own("all")
      BY <2>1
    <3>2. w["BNet"] = Falls(c, k, v, "BNet", w[Fallback["BNet"]])
      BY <2>1, FallbackIs DEF b
    <3>3. w["g"] = Falls(c, k, v, "g", w[Fallback["g"]])
      BY <2>1, FallbackIs
    <3>4. w["one"] = Falls(c, k, v, "one", w[Fallback["one"]])
      BY <2>1, FallbackIs
    <3> QED BY <3>1, <3>2, <3>3, <3>4, FallbackIs DEF Links
  <2> HIDE DEF w
  <2> QED BY <2>1, <2>2, ChainIs DEF ExpectedOf
<1> DEFINE e == CHOOSE f : f = ExpectedOf(c, k, v, f)
<1>2. Expected(c, k, v) = e
  BY DEF Expected, ExpectedOf, Falls, OwnOf
<1>3. e = ExpectedOf(c, k, v, e)
  <2> HIDE DEF w
  <2> QED BY <1>1
<1> QED BY <1>2, <1>3

LEMMA ExpectedLinks ==
  ASSUME NEW c, NEW k, NEW v, NEW e, e = Expected(c, k, v)
  PROVE  /\ e["Default"] = OwnOf(c, k, v, "Default")
         /\ e["BNet"] = Falls(c, k, v, "BNet", e["Default"])
         /\ e["g"] = Falls(c, k, v, "g", e["BNet"])
         /\ e["all"] = OwnOf(c, k, v, "all")
         /\ e["one"] = Falls(c, k, v, "one", e["all"])
<1>1. e = ExpectedOf(c, k, v, e)
  BY ExpectedIs
<1>2. \A j \in Links : e[j] = IF j \in DOMAIN Fallback THEN Falls(c, k, v, j, e[Fallback[j]]) ELSE OwnOf(c, k, v, j)
  BY <1>1, ChainIs DEF ExpectedOf
<1> QED BY <1>2, FallbackIs DEF Links

(* An entry of a map that may be missing.                                  *)
Known(v) == IF v = Absent THEN S!Nil ELSE S!Leaf(v)

LEMMA KnownIs ==
  ASSUME NEW v, NEW w
  PROVE  /\ Known(v) = Known(w) <=> v = w
         /\ Known(v) = S!Nil <=> v = Absent
         /\ S!empty(Known(v)) <=> v \in {Absent, 0}
<1>1. S!empty(S!Nil)
  BY DEF S!empty, S!Nil
<1>2. /\ S!empty(S!Leaf(v)) <=> v = 0
      /\ S!Leaf(v) = S!Leaf(w) <=> v = w
  BY Leaves
<1>3. S!Leaf(v) # S!Nil /\ S!Leaf(w) # S!Nil
  BY LeafIsNot
<1>4. Absent # 0
  BY ValueAssumption
<1> QED BY <1>1, <1>2, <1>3, <1>4 DEF Known

(* What follows another setting, or has no value, is what that becomes.    *)
LEMMA LeafFalls ==
  ASSUME NEW c, NEW k, NEW v, NEW j, S!Find(c, Chain[j]) = S!Leaf(v),
         NEW p, S!Find(c, Chain[Fallback[j]]) = S!Leaf(p), NEW x, NEW z
  PROVE  Falls(c, k, S!Leaf(x), j, S!Leaf(z)) = S!Leaf(Or(IF j = k THEN x ELSE Own(v, p), z))
<1>1. S!Leaf(z) # S!Nil
  BY LeafIsNot
<1>2. S!empty(S!Leaf(x)) <=> x = 0
  BY Leaves
<1>3. /\ S!empty(S!Leaf(v)) <=> v = 0
      /\ S!Leaf(v) = S!Leaf(p) <=> v = p
  BY Leaves
<1>4. CASE j = k
  BY <1>1, <1>2, <1>4 DEF Falls, OwnOf, Or
<1>5. CASE j # k
  BY <1>1, <1>3, <1>5 DEF Falls, OwnOf, Or, Own
<1> QED BY <1>4, <1>5

LEMMA EntryFalls ==
  ASSUME NEW c, NEW k, NEW v, NEW j, S!Find(c, Chain[j]) = Known(v),
         NEW p, S!Find(c, Chain[Fallback[j]]) = Known(p), NEW x, NEW z
  PROVE  Falls(c, k, Known(x), j, Known(z)) = Known(Took(IF j = k THEN x ELSE Left(v, p), z))
<1>1. Known(z) = S!Nil <=> z = Absent
  BY KnownIs
<1>2. S!empty(Known(x)) <=> x \in {Absent, 0}
  BY KnownIs
<1>3. /\ S!empty(Known(v)) <=> v \in {Absent, 0}
      /\ Known(v) = Known(p) <=> v = p
  BY KnownIs
<1>4. CASE j = k
  BY <1>1, <1>2, <1>4 DEF Falls, OwnOf, Took
<1>5. CASE j # k
  <2>1. CASE v = p
    BY <1>1, <1>3, <1>5, <2>1 DEF Falls, OwnOf, Took, Left
  <2>2. CASE v # p
    BY <1>1, <1>3, <1>5, <2>2 DEF Falls, OwnOf, Took, Left
  <2> QED BY <2>1, <2>2
<1> QED BY <1>4, <1>5

LEMMA RowChain ==
  ASSUME NEW t, NEW bt, NEW ba, NEW bu, NEW gt, NEW ga, NEW gu, NEW c, c = Row(t, bt, ba, bu, gt, ga, gu)
  PROVE  /\ S!Find(c, Chain["Default"]) = S!Leaf(t)
         /\ S!Find(c, Chain["BNet"]) = S!Leaf(bt)
         /\ S!Find(c, Chain["g"]) = S!Leaf(gt)
         /\ S!Find(c, Chain["all"]) = Known(bu)
         /\ S!Find(c, Chain["one"]) = Known(gu)
<1>1. /\ S!Find(c, <<"Default", "Trigger">>) = S!Leaf(t)
      /\ S!Find(c, <<"BNet", "Default", "Trigger">>) = S!Leaf(bt)
      /\ S!Find(c, <<"BNet", "Gateways", "g", "Trigger">>) = S!Leaf(gt)
      /\ S!Find(c, <<"BNet", "Default", "AccessUser", "x">>) = IF bu = Absent THEN S!Nil ELSE S!Leaf(bu)
      /\ S!Find(c, <<"BNet", "Gateways", "g", "AccessUser", "x">>) = IF gu = Absent THEN S!Nil ELSE S!Leaf(gu)
  BY RowFound
<1> QED BY <1>1, ChainIs DEF Known

(* The settings of a row once k is v.                                      *)
LEMMA ChainExpected ==
  ASSUME NEW t, NEW bt, NEW ba, NEW bu, NEW gt, NEW ga, NEW gu, NEW c, c = Row(t, bt, ba, bu, gt, ga, gu),
         NEW k \in Links, NEW v, v # Absent,
         NEW t1, t1 = IF k = "Default" THEN v ELSE t,
         NEW b1, b1 = Or(IF k = "BNet" THEN v ELSE Own(bt, t), t1),
         NEW g1, g1 = Or(IF k = "g" THEN v ELSE Own(gt, bt), b1),
         NEW a1, a1 = IF k = "all" THEN v ELSE bu,
         NEW u1, u1 = Took(IF k = "one" THEN v ELSE Left(gu, bu), a1),
         NEW e, e = Expected(c, k, S!Leaf(v))
  PROVE  /\ e["Default"] = S!Leaf(t1)
         /\ e["BNet"] = S!Leaf(b1)
         /\ e["g"] = S!Leaf(g1)
         /\ e["all"] = Known(a1)
         /\ e["one"] = Known(u1)
<1> DEFINE x == S!Leaf(v)
<1>1. /\ S!Find(c, Chain["Default"]) = S!Leaf(t)
      /\ S!Find(c, Chain["BNet"]) = S!Leaf(bt)
      /\ S!Find(c, Chain["g"]) = S!Leaf(gt)
      /\ S!Find(c, Chain["all"]) = Known(bu)
      /\ S!Find(c, Chain["one"]) = Known(gu)
  BY RowChain
<1>2. x = Known(v)
  BY DEF Known
<1>3. /\ e["Default"] = OwnOf(c, k, x, "Default")
      /\ e["BNet"] = Falls(c, k, x, "BNet", e["Default"])
      /\ e["g"] = Falls(c, k, x, "g", e["BNet"])
      /\ e["all"] = OwnOf(c, k, x, "all")
      /\ e["one"] = Falls(c, k, x, "one", e["all"])
  BY ExpectedLinks
<1>4. e["Default"] = S!Leaf(t1)
  BY <1>1, <1>3 DEF OwnOf
<1>5. e["all"] = Known(a1)
  BY <1>1, <1>2, <1>3 DEF OwnOf
<1>6. \A z : Falls(c, k, x, "BNet", S!Leaf(z)) = S!Leaf(Or(IF "BNet" = k THEN v ELSE Own(bt, t), z))
  BY <1>1, FallbackIs, LeafFalls
<1>7. \A z : Falls(c, k, x, "g", S!Leaf(z)) = S!Leaf(Or(IF "g" = k THEN v ELSE Own(gt, bt), z))
  BY <1>1, FallbackIs, LeafFalls
<1>8. \A z : Falls(c, k, Known(v), "one", Known(z)) = Known(Took(IF "one" = k THEN v ELSE Left(gu, bu), z))
  BY <1>1, FallbackIs, EntryFalls
<1> HIDE DEF x
<1>9. e["BNet"] = S!Leaf(b1)
  BY <1>3, <1>4, <1>6
<1>10. e["g"] = S!Leaf(g1)
  BY <1>3, <1>7, <1>9
<1>11. e["one"] = Known(u1)
  BY <1>2, <1>3, <1>5, <1>8
<1> QED BY <1>4, <1>5, <1>9, <1>10, <1>11

(* That is what setting k comes to.                                        *)
LEMMA ChainSet ==
  ASSUME NEW t, NEW bt, NEW ba, NEW bu, NEW gt, NEW ga, NEW gu, NEW c, c = Row(t, bt, ba, bu, gt, ga, gu),
         NEW k \in Links, NEW v, v # Absent, NEW j \in Links
  PROVE  S!Find(TreeSet(c, Chain[k], v), Chain[j]) = Expected(c, k, S!Leaf(v))[j]
<1> DEFINE obt == Own(bt, t)
           ogt == Own(gt, bt)
           oga == Own(ga, ba)
           ogu == Left(gu, bu)
           t1 == IF k = "Default" THEN v ELSE t
           b1 == Or(IF k = "BNet" THEN v ELSE obt, t1)
           g1 == Or(IF k = "g" THEN v ELSE ogt, b1)
           a1 == IF k = "all" THEN v ELSE bu
           u1 == Took(IF k = "one" THEN v ELSE ogu, a1)
           ga1 == Or(oga, ba)
           e == Expected(c, k, S!Leaf(v))
           n == TreeSet(c, Chain[k], v)
<1>1. /\ e["Default"] = S!Leaf(t1)
      /\ e["BNet"] = S!Leaf(b1)
      /\ e["g"] = S!Leaf(g1)
      /\ e["all"] = Known(a1)
      /\ e["one"] = Known(u1)
  BY ChainExpected
<1>2. n = Row(t1, b1, ba, a1, g1, ga1, u1)
  <2> DEFINE F(x, xt, xu, yt, yu) == Row(x, Or(xt, x), ba, xu, Or(yt, Or(xt, x)), ga1, Took(yu, xu))
  <2> HIDE DEF obt, ogt, oga, ogu
  <2>1. /\ TreeSet(c, <<"Default", "Trigger">>, v) = Filling(v, obt, ba, bu, ogt, oga, ogu)
        /\ TreeSet(c, <<"BNet", "Default", "Trigger">>, v) = Filling(t, v, ba, bu, ogt, oga, ogu)
        /\ TreeSet(c, <<"BNet", "Default", "AccessUser", "x">>, v) = Filling(t, obt, ba, v, ogt, oga, ogu)
        /\ TreeSet(c, <<"BNet", "Gateways", "g", "Trigger">>, v) = Filling(t, obt, ba, bu, v, oga, ogu)
        /\ TreeSet(c, <<"BNet", "Gateways", "g", "AccessUser", "x">>, v) = Filling(t, obt, ba, bu, ogt, oga, v)
    BY RowSet DEF obt, ogt, oga, ogu
  <2>2. CASE k = "Default"
    BY <2>1, <2>2, ChainIs DEF Filling
  <2>3. CASE k = "BNet"
    BY <2>1, <2>3, ChainIs DEF Filling
  <2>4. CASE k = "g"
    BY <2>1, <2>4, ChainIs DEF Filling
  <2>5. CASE k = "all"
    BY <2>1, <2>5, ChainIs DEF Filling
  <2>6. CASE k = "one"
    BY <2>1, <2>6, ChainIs DEF Filling
  <2> QED BY <2>2, <2>3, <2>4, <2>5, <2>6 DEF Links
<1> HIDE DEF t1, b1, g1, a1, u1, ga1, e, n
<1>3. /\ S!Find(n, Chain["Default"]) = S!Leaf(t1)
      /\ S!Find(n, Chain["BNet"]) = S!Leaf(b1)
      /\ S!Find(n, Chain["g"]) = S!Leaf(g1)
      /\ S!Find(n, Chain["all"]) = Known(a1)
      /\ S!Find(n, Chain["one"]) = Known(u1)
  BY <1>2, RowChain
<1>4. S!Find(n, Chain[j]) = e[j]
  BY <1>1, <1>3 DEF Links
<1> QED BY <1>4 DEF n, e

LEMMA ChainTreesAre ==
  ASSUME NEW d \in ChainTrees
  PROVE  \E t, bt, a, gt, u : d = Row(t, bt, 1, a, gt, 1, u)
<1> DEFINE User2 == Value \cup {Absent}
<1>1. PICK t \in Value \X Value \X Value, a \in User2, u \in User2 :
        d = Tree(t[1], Section(t[2], 1, User(a)), [g |-> Section(t[3], 1, User(u))], Relays(Relay(1), Relay(0), <<>>))
  BY DEF ChainTrees
<1> DEFINE s == Section(t[3], 1, User(u))
<1>2. [g |-> s] = One(s)
  <2> HIDE DEF s
  <2> QED BY OneIs
<1>3. Relays(Relay(1), Relay(0), <<>>) = Quiet
  BY QuietIs
<1>4. d = Row(t[1], t[2], 1, a, t[3], 1, u)
  BY <1>1, <1>2, <1>3 DEF Row, Chained
<1> QED BY <1>4

(* Setting one key changes that key, and what fell back to it follows;     *)
(* every other setting is as it was, for any values.                       *)
THEOREM SetKeepsOthers == OthersKept
<1> SUFFICES ASSUME NEW d \in ChainTrees, NEW k \in DOMAIN Chain, NEW v \in Value, NEW j \in DOMAIN Chain
             PROVE  S!Find(TreeSet(TreeMergeDefaults(d), Chain[k], v), Chain[j]) =
                      Expected(TreeMergeDefaults(d), k, S!Leaf(v))[j]
  BY DEF OthersKept
<1>1. PICK t, bt, a, gt, u : d = Row(t, bt, 1, a, gt, 1, u)
  BY ChainTreesAre
<1>2. TreeMergeDefaults(d) = Filling(t, bt, 1, a, gt, 1, u)
  BY <1>1, RowDefaults
<1>3. \E x, xt, xa, xu, yt, ya, yu : TreeMergeDefaults(d) = Row(x, xt, xa, xu, yt, ya, yu)
  BY <1>2 DEF Filling
<1>4. k \in Links /\ j \in Links
  BY ChainIs
<1>5. v # Absent
  BY ValueAssumption
<1> DEFINE c == TreeMergeDefaults(d)
<1> HIDE DEF c
<1>6. S!Find(TreeSet(c, Chain[k], v), Chain[j]) = Expected(c, k, S!Leaf(v))[j]
  <2>1. PICK x, xt, xa, xu, yt, ya, yu : c = Row(x, xt, xa, xu, yt, ya, yu)
    BY <1>3 DEF c
  <2> QED BY <1>4, <1>5, <2>1, ChainSet
<1> QED BY <1>6 DEF c

(* So a command that sets one key never changes what it is not about.      *)
THEOREM OthersAlwaysKept == Spec => []OthersKept
<1>1. OthersKept
  BY SetKeepsOthers
<1> QED BY <1>1, PTL

=============================================================================
