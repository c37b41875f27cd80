--------------------------- MODULE MCSettingsStore ---------------------------
(***************************************************************************)
(* Finite instances of SettingsStore: an isolate of the new build, or one  *)
(* of each of two builds, over no document or one that either has stored.  *)
(***************************************************************************)
EXTENDS SettingsStore, TLC

CONSTANTS old, new, i1, i2, e1

MCUpgraded == i1 :> new
MCRollout == (i1 :> new) @@ (i2 :> old)

MCEdited == [dns |-> PresetDNS, host |-> PresetDNS, list |-> {e1}, version |-> old]

MCStarts == {None, MCEdited, [MCEdited EXCEPT !.version = new]}
MCStored == MCStarts \ {None}

Symmetry == Permutations(Requests)

=============================================================================
