---------------------------- MODULE ConfigStore ----------------------------
(***************************************************************************)
(* The settings file of the desktop (core/config.py): config.json, the     *)
(* backup kept beside it, and a save that writes a temporary file, moves   *)
(* config.json to the backup and the temporary file into its place.        *)
(*                                                                         *)
(* set() holds the lock until its save has ended, so one save runs at a    *)
(* time and nothing is read or set during it.  Each file operation can     *)
(* fail, and the process can die between any two.  A file that does not    *)
(* parse is as good as none: _read_file() makes no difference.             *)
(***************************************************************************)
CONSTANTS Keys,      \* the names of the settings
          Values,    \* what a setting can be
          Default,   \* DEFAULT_CONFIG
          Missing    \* there is no such file

Settings == [Keys -> Values]

ASSUME ConfigAssumption ==
  /\ Default \in Settings
  /\ Missing \notin Settings

VARIABLES
  mem,    \* _data
  live,   \* config.json
  bak,    \* config.json.bak
  pc,     \* "down", "up", or the next step of a save
  saved   \* what the last save() returned

cvars == <<mem, live, bak, pc, saved>>

Files == Settings \cup {Missing}

-----------------------------------------------------------------------------

\* _read_file() returns the settings of the file.
Readable(file) == file \in Settings

\* Fault: the backup is not tried.
LiveOnly == IF Readable(live) THEN live ELSE Default

\* What _load() makes of the two files.
Loaded ==
  IF Readable(live) THEN live ELSE IF Readable(bak) THEN bak ELSE Default

Init ==
  /\ mem = Default
  /\ live = Missing /\ bak = Missing
  /\ pc = "down" /\ saved = TRUE

-----------------------------------------------------------------------------
(* A start, a change, and the save that ends both *)

\* _load(), up to its save().
Load ==
  /\ pc = "down"
  /\ mem' = Loaded
  /\ pc' = "write"
  /\ UNCHANGED <<live, bak, saved>>

\* set(), up to its save().
Set(k, v) ==
  /\ pc = "up"
  /\ mem' = [mem EXCEPT ![k] = v]
  /\ pc' = "write"
  /\ UNCHANGED <<live, bak, saved>>

\* Fault: json.dump straight over the live file, which is no file of settings
\* until it is whole.
WriteInPlace ==
  /\ pc = "write"
  /\ live' = Missing
  /\ pc' = "keep"
  /\ UNCHANGED <<mem, bak, saved>>

\* The temporary file is written and flushed; nobody reads it under its name.
WriteTemp ==
  /\ pc = "write"
  /\ pc' = "keep"
  /\ UNCHANGED <<mem, live, bak, saved>>

\* config.json, if there is one, becomes the backup; a failure to do so is ignored.
KeepLast ==
  /\ pc = "keep"
  /\ \/ /\ live # Missing
        /\ bak' = live /\ live' = Missing
     \/ UNCHANGED <<live, bak>>
  /\ pc' = "place"
  /\ UNCHANGED <<mem, saved>>

\* The temporary file becomes config.json.
Place ==
  /\ pc = "place"
  /\ live' = mem
  /\ pc' = "up" /\ saved' = TRUE
  /\ UNCHANGED <<mem, bak>>

\* Fault: the failure is reported as a success.
FailsUnnoticed ==
  /\ pc \in {"write", "place"}
  /\ pc' = "up" /\ saved' = TRUE
  /\ UNCHANGED <<mem, live, bak>>

\* save() gives up: it removes the temporary file and returns False.
SaveFails ==
  /\ pc \in {"write", "place"}
  /\ pc' = "up" /\ saved' = FALSE
  /\ UNCHANGED <<mem, live, bak>>

SaveStep == WriteTemp \/ KeepLast \/ Place \/ SaveFails

-----------------------------------------------------------------------------
(* The world *)

\* ProtBot ends, or is ended, at any moment; its memory is gone for good.
Crash ==
  /\ pc # "down"
  /\ pc' = "down"
  /\ UNCHANGED <<mem, live, bak, saved>>

Next ==
  \/ Load \/ SaveStep \/ Crash
  \/ \E k \in Keys, v \in Values : Set(k, v)

Spec == Init /\ [][Next]_cvars

-----------------------------------------------------------------------------
(* Properties *)

\* Every variable stays in its type (config.py:64-74).
TypeOK ==
  /\ mem \in Settings
  /\ live \in Files /\ bak \in Files
  /\ pc \in {"down", "write", "keep", "place", "up"}
  /\ saved \in BOOLEAN

\* save() returns False "if the write failed, so a caller can tell" (config.py:147):
\* when the last one did not, the next start finds everything that was set.
SavedIsStored ==
  pc = "up" /\ saved => Loaded = mem

\* What the files hold is what a start would make of them.
Store == INSTANCE SettingsStore WITH stored <- Loaded

\* "The config is either the old one or the new one, never half of each"
\* (config.py:139-145), whichever step of a save the process dies in and whichever
\* file operation fails.
OldOrNew == Store!Spec

=============================================================================
