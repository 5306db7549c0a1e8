-------------------------- MODULE MCConfigPersist --------------------------
(***************************************************************************)
(* Contents of config.toml for TLC: one that sets nothing but the default, *)
(* one that sets everything, and one whose gateway repeats the default.    *)
(***************************************************************************)
EXTENDS ConfigTree

MCDefs == {[dflt |-> 1, field |-> 0, user |-> Absent],
           [dflt |-> 1, field |-> 2, user |-> 2],
           [dflt |-> 1, field |-> 1, user |-> Absent]}

(* A config.toml with a setting to remove.                                 *)
MCEntry == {[dflt |-> 1, field |-> 2, user |-> 2]}

(* A config.toml that no change of a value makes look removed.             *)
MCBare == {[dflt |-> 1, field |-> 0, user |-> Absent]}

=============================================================================
