--------------------------- MODULE SettingsStore ---------------------------
(***************************************************************************)
(* What core/config.py promises about the settings, without its files:     *)
(* there are the settings in memory and the settings a start of ProtBot    *)
(* would find, "either the old one or the new one, never half of each"     *)
(* (config.py:139-148).  A save carries all of the memory over at once; a  *)
(* start brings back what was saved.                                       *)
(***************************************************************************)
CONSTANTS Keys,     \* the names of the settings
          Values,   \* what a setting can be
          Default   \* DEFAULT_CONFIG

Settings == [Keys -> Values]

VARIABLES mem,     \* the settings in memory
          stored   \* the settings the next start finds

Init == mem = Default /\ stored = Default

\* One setting is changed; nothing is saved yet.
Change ==
  /\ \E k \in Keys, v \in Values : mem' = [mem EXCEPT ![k] = v]
  /\ UNCHANGED stored

Save ==
  /\ stored' = mem
  /\ UNCHANGED mem

Reload ==
  /\ mem' = stored
  /\ UNCHANGED stored

Next == Change \/ Save \/ Reload

Spec == Init /\ [][Next]_<<mem, stored>>

=============================================================================
