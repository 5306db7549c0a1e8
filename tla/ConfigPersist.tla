--------------------------- MODULE ConfigPersist ---------------------------
(***************************************************************************)
(* The configuration at run time and its copy on disk (config.go,          *)
(* structs.go, main.go).                                                   *)
(*                                                                         *)
(* def is what config.toml says, conf what the program runs with: def,     *)
(* overridden by config.persist.toml, with unset fields taken from the     *)
(* section of defaults.  Commands change conf; a goroutine writes what     *)
(* differs from def to the file every three minutes and when the program   *)
(* ends.  It skips the write if the hash of the difference is Config.Hash, *)
(* the one it wrote last.  That is a field of the configuration like any   *)
(* other: a command that changes a setting copies it, and puts it back.    *)
(*                                                                         *)
(* Three settings stand for all: dflt is a field of a section of defaults  *)
(* (BNet.Default.AccessTalk), field is the same field of a gateway, and    *)
(* user is an entry of a map (AccessUser[x]).  0 is the zero value, which  *)
(* MergeDefaults takes for "not set"; a map has an entry or not.           *)
(***************************************************************************)
EXTENDS Naturals, FiniteSets, Functions

CONSTANTS Value,       \* values of a setting, 0 the zero value
          Absent,      \* no such entry
          Defs,        \* the contents of config.toml to try
          Command,     \* goroutines that execute commands
          Removals,    \* whether commands remove settings
          MaxChanges,  \* bound: changes commands make
          MaxFails,    \* bound: times the file cannot be created
          MaxCrashes   \* bound: times the program is killed

Config == [dflt : Value, field : Value, user : Value \cup {Absent}]

ASSUME ValueAssumption == Value \subseteq Nat /\ 0 \in Value /\ Absent \notin Value
ASSUME DefsAssumption == Defs \subseteq Config
ASSUME BoundAssumption == Removals \in BOOLEAN /\ {MaxChanges, MaxFails, MaxCrashes} \subseteq Nat

Key == {"dflt", "field", "user"}

-----------------------------------------------------------------------------
(* Conversions *)

(* The gateway takes over the default of a field it does not set.          *)
MergeDefaults(c) == IF c.field = 0 THEN [c EXCEPT !.field = c.dflt] ELSE c

(* Map leaves out what equals its default.                                 *)
Map(c) == Restrict(c, {"dflt"} \cup (IF c.field # c.dflt THEN {"field"} ELSE {})
                               \cup (IF c.user # Absent THEN {"user"} ELSE {}))

(* A structure filled from a map; what the map lacks has its zero value.   *)
Override(c, m) == [k \in Key |-> IF k \in DOMAIN m THEN m[k] ELSE c[k]]
Zero == [dflt |-> 0, field |-> 0, user |-> Absent]

(* Mutant: a setting that config.toml has too is never written.            *)
DeleteEqual_ByName(m, n) == Restrict(m, DOMAIN m \ DOMAIN n)
DeleteEqual(m, n) == Restrict(m, {k \in DOMAIN m : k \in DOMAIN n => m[k] # n[k]})

(* What Save writes, what Load makes of it, and what Set and Unset do.     *)
Difference(d, c) == DeleteEqual(Map(c), Map(MergeDefaults(d)))
Loaded(d, m) == MergeDefaults(Override(d, m))
Set(c, k, v) == MergeDefaults([Override(Zero, Map(c)) EXCEPT ![k] = v])
Unset(c, k) == Set(c, k, Zero[k])

-----------------------------------------------------------------------------

VARIABLES
  def,      \* config.toml
  conf,     \* the configuration in use
  asked,    \* history: what conf would be had every change been atomic
  pending,  \* pending[c]: the configuration, with its hash, that command c is about to
            \* install, or Absent
  changes,
  main,     \* "up", "quitting" once the context is cancelled, "down"
  saver,    \* the saving goroutine: "wait", "create", "write", "ended"
  snap,     \* the configuration Save looked at last
  hash,     \* Config.Hash: the difference it stands for, or Absent
  file,     \* config.persist.toml: its settings and its hash
  stored,   \* history: what the last completed write stored, or Absent
  reverted, \* history: a command has put back an older hash since the last write
  misled,   \* history: the last Save wrote nothing because of such a hash
  fails,
  crashes

commandVars == <<conf, asked, pending, changes>>
hashVars == <<hash, reverted>>
fileVars == <<saver, snap, file, stored, misled, fails>>
saverVars == <<hashVars, fileVars>>
vars == <<def, conf, asked, pending, changes, main, saver, snap, hash, file, stored,
          reverted, misled, fails, crashes>>

EmptyFile == [map |-> <<>>, hash |-> Absent]

(* A first run: there is no file.                                          *)
Init ==
  /\ def \in Defs
  /\ conf = Loaded(def, <<>>)
  /\ asked = conf
  /\ pending = [c \in Command |-> Absent]
  /\ changes = 0
  /\ main = "up"
  /\ saver = "wait"
  /\ snap = conf
  /\ hash = Absent
  /\ file = EmptyFile
  /\ stored = Absent
  /\ reverted = FALSE
  /\ misled = FALSE
  /\ fails = 0
  /\ crashes = 0

(* The .settings command: Set and Unset work on a copy, hash included...   *)
Copied(c) == [conf |-> c, hash |-> hash]

Change(c, k, v) ==
  /\ main # "down"
  /\ changes < MaxChanges
  /\ pending[c] = Absent
  /\ changes' = changes + 1
  /\ asked' = Set(asked, k, v)
  /\ pending' = [pending EXCEPT ![c] = Copied(Set(conf, k, v))]
  /\ UNCHANGED <<def, conf, main, saverVars, crashes>>

Remove(c, k) ==
  /\ Removals
  /\ main # "down"
  /\ changes < MaxChanges
  /\ pending[c] = Absent
  /\ changes' = changes + 1
  /\ asked' = Unset(asked, k)
  /\ pending' = [pending EXCEPT ![c] = Copied(Unset(conf, k))]
  /\ UNCHANGED <<def, conf, main, saverVars, crashes>>

(* ... which they copy back.                                               *)
Install(c) ==
  /\ main # "down"
  /\ pending[c] # Absent
  /\ conf' = pending[c].conf
  /\ hash' = pending[c].hash
  /\ reverted' = (reverted \/ hash' # hash)
  /\ pending' = [pending EXCEPT ![c] = Absent]
  /\ UNCHANGED <<def, asked, changes, main, fileVars, crashes>>

(* The .set command changes the map itself; level 0 removes the entry.     *)
(* main answers the ConfigUpdate it fires by merging the defaults.         *)
SetUserAccess(v) ==
  /\ main # "down"
  /\ changes < MaxChanges
  /\ v # 0 \/ Removals
  /\ changes' = changes + 1
  /\ LET entry == IF v = 0 THEN Absent ELSE v
     IN  /\ conf' = MergeDefaults([conf EXCEPT !.user = entry])
         /\ asked' = MergeDefaults([asked EXCEPT !.user = entry])
  /\ UNCHANGED <<def, pending, main, saverVars, crashes>>

-----------------------------------------------------------------------------

(* Mutant: the goroutine saves once.                                       *)
AfterSave_Once == "ended"

(* After a Save the goroutine looks whether the program is ending.         *)
AfterSave == IF main = "up" THEN "wait" ELSE "ended"

(* Save, up to the creation of the file.                                   *)
Save ==
  /\ main # "down" /\ saver = "wait"
  /\ snap' = conf
  /\ hash' = Difference(def, conf)
  /\ IF hash = hash'
       THEN saver' = AfterSave /\ misled' = reverted /\ UNCHANGED reverted
       ELSE saver' = "create" /\ misled' = FALSE /\ reverted' = FALSE
  /\ UNCHANGED <<def, commandVars, main, file, stored, fails, crashes>>

(* os.Create empties the file.                                             *)
Create ==
  /\ main # "down" /\ saver = "create"
  /\ file' = EmptyFile
  /\ saver' = "write"
  /\ UNCHANGED <<def, commandVars, main, snap, hashVars, stored, misled, fails, crashes>>

CreateFails ==
  /\ main # "down" /\ saver = "create"
  /\ fails < MaxFails
  /\ fails' = fails + 1
  /\ saver' = AfterSave
  /\ UNCHANGED <<def, commandVars, main, snap, hashVars, file, stored, misled, crashes>>

(* What Save looked at is encoded, with its hash, whatever commands have   *)
(* done meanwhile.  Mutant: the hash is not written.                       *)
Encoded_NoHash(m) == [map |-> m, hash |-> Absent]
Encoded(m) == [map |-> m, hash |-> m]

Write ==
  /\ main # "down" /\ saver = "write"
  /\ stored' = Difference(def, snap)
  /\ file' = Encoded(stored')
  /\ saver' = AfterSave
  /\ UNCHANGED <<def, commandVars, main, snap, hashVars, misled, fails, crashes>>

-----------------------------------------------------------------------------

(* The .quit and .restart commands, or a signal.                           *)
Quit ==
  /\ main = "up"
  /\ main' = "quitting"
  /\ UNCHANGED <<def, commandVars, saverVars, crashes>>

(* The gateways have stopped, and so has the saving goroutine.             *)
Exit ==
  /\ main = "quitting" /\ saver = "ended"
  /\ main' = "down"
  /\ UNCHANGED <<def, commandVars, saverVars, crashes>>

Crash ==
  /\ main # "down"
  /\ crashes < MaxCrashes
  /\ crashes' = crashes + 1
  /\ main' = "down"
  /\ UNCHANGED <<def, commandVars, saverVars>>

(* The next run, or a restart.                                             *)
Start ==
  /\ main = "down"
  /\ main' = "up"
  /\ conf' = Loaded(def, file.map)
  /\ hash' = file.hash
  /\ reverted' = FALSE /\ misled' = FALSE
  /\ asked' = conf'
  /\ snap' = conf'
  /\ pending' = [c \in Command |-> Absent]
  /\ saver' = "wait"
  /\ UNCHANGED <<def, changes, file, stored, fails, crashes>>

Next ==
  \/ \E c \in Command, k \in Key, v \in Value : Change(c, k, v)
  \/ \E c \in Command, k \in Key : Remove(c, k)
  \/ \E c \in Command : Install(c)
  \/ \E v \in Value : SetUserAccess(v)
  \/ Save \/ Create \/ CreateFails \/ Write
  \/ Quit \/ Exit \/ Crash \/ Start

Spec == Init /\ [][Next]_vars

(* The goroutines run; the program may end at any time, or go on.          *)
FairSpec ==
  /\ Spec
  /\ WF_vars(Save) /\ WF_vars(Create \/ CreateFails) /\ WF_vars(Write)
  /\ \A c \in Command : WF_vars(Install(c))
  /\ WF_vars(Exit) /\ WF_vars(Start)

-----------------------------------------------------------------------------

Maps == UNION {[D -> Value] : D \in SUBSET Key}

TypeOK ==
  /\ {def, conf, asked, snap} \subseteq Config
  /\ pending \in [Command -> [conf : Config, hash : Maps \cup {Absent}] \cup {Absent}]
  /\ changes \in 0..MaxChanges
  /\ main \in {"up", "quitting", "down"}
  /\ saver \in {"wait", "create", "write", "ended"}
  /\ {hash, file.hash, stored} \subseteq Maps \cup {Absent} /\ file.map \in Maps
  /\ {reverted, misled} \subseteq BOOLEAN
  /\ fails \in 0..MaxFails /\ crashes \in 0..MaxCrashes

(* The configurations that can be told from def by what they have: an      *)
(* entry of config.toml is not removed, and a field that config.toml sets  *)
(* has not come to equal its default.                                      *)
Restorable(d, c) ==
  /\ c.user = Absent => d.user = Absent
  /\ c.field = c.dflt => d.field \in {0, c.field}

Saved == saver \in {"wait", "ended"} /\ stored # Absent /\ fails = 0 /\ crashes = 0

(* A completed save stores the configuration it looked at, whatever        *)
(* changed while it was writing, or the file has it already: the next run  *)
(* starts with it.  The exception is a save that is misled by a hash that  *)
(* a command put back.                                                     *)
SaveRestores == Saved /\ ~misled /\ Restorable(def, snap) => Loaded(def, file.map) = snap

(* The hash that decides whether to write is that of the file, unless a    *)
(* command that began before a save has put back an older one since.       *)
HashOfFile ==
  saver \in {"wait", "ended"} /\ fails = 0 /\ main # "down" /\ ~reverted => hash = file.hash

(* "Change access level for [username] to [level]": a change lasts until    *)
(* the same setting is changed again, whatever else is set meanwhile.      *)
ConfIsAsked == (\A c \in Command : pending[c] = Absent) => conf = asked

(* "persists all runtime changes": when nothing changes any more, the file *)
(* comes to have what the program runs with.                               *)
ChangesAreWritten ==
  <>[](main = "up") => <>[](Restorable(def, conf) => Loaded(def, file.map) = conf)

(* The same, if no save failed and none is misled for good: a program that *)
(* stays up writes all changes in the end, those that come during a save   *)
(* or before a crash too.                                                  *)
ChangesReachFile == [](fails = 0) /\ <>[]~misled => ChangesAreWritten

(* "These changes are saved on disk and will be loaded in future runs":    *)
(* the same, whatever was changed.                                         *)
AllChangesSaved == Saved => Loaded(def, file.map) = snap

(* "config.persist.toml persists all runtime changes": when the program    *)
(* ends as it should, the file has the configuration it ended with.        *)
QuitKeepsChanges ==
  [][Exit /\ fails = 0 /\ Restorable(def, conf) => Loaded(def, file.map) = conf]_vars

(* Changes that were saved on disk are loaded in future runs, even if the  *)
(* program was killed.                                                     *)
CrashKeepsSaved == [][Start /\ stored # Absent => file.map = stored]_vars

=============================================================================
