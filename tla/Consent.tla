------------------------------- MODULE Consent -------------------------------
(***************************************************************************)
(* The consent gate (core/consent.py) over the settings file: a start of   *)
(* ProtBot that asks, or does not, before anything is recorded             *)
(* (main.py:106-125), and the withdrawal on the Settings tab.              *)
(*                                                                         *)
(* Consent is three settings, written by three calls of set(), each with a *)
(* save of its own; the user interface makes them one after the other, and *)
(* the process can die between any two.  A setting is TRUE here when it    *)
(* says "accepted": the current version, the flag, a time of acceptance.   *)
(***************************************************************************)
EXTENDS ConfigStore, Naturals, Sequences

VARIABLES
  stage,      \* where the UI thread is: "off", "starting", "recording consent",
              \* "declining", "running", "withdrawing", "withdrawn"
  todo,       \* the calls of set() its operation has still to make
  recording,  \* the monitor is running
  agreed      \* history: the user has accepted, and no withdrawal since is on disk

ui == <<stage, todo, recording, agreed>>
vars == <<cvars, ui>>

ConsentKeys == <<"consent_version", "consent_accepted", "consent_at">>

\* What a caller must have defined as settings, and what they can say.
ASSUME ConsentAssumption ==
  /\ \A i \in 1..Len(ConsentKeys) : ConsentKeys[i] \in Keys
  /\ Values = BOOLEAN
  /\ Default["consent_version"] = FALSE

\* Fault: the version is written last.
RecordLate(accepted) ==
  [i \in 1..Len(ConsentKeys) |-> <<ConsentKeys[(i % Len(ConsentKeys)) + 1], accepted>>]

\* record_consent(accepted), and with FALSE revoke_consent().
Record(accepted) ==
  [i \in 1..Len(ConsentKeys) |-> <<ConsentKeys[i], accepted>>]

\* Fault: the gate looks at nothing.
NoGate(settings) == TRUE

\* has_consented()
HasConsented(settings) == settings["consent_version"]

ConsentInit ==
  /\ Init
  /\ stage = "off" /\ todo = <<>>
  /\ recording = FALSE /\ agreed = FALSE

-----------------------------------------------------------------------------

\* The UI thread is between two calls.
Free == pc = "up" /\ todo = <<>>

StartUp ==
  /\ stage = "off"
  /\ Load
  /\ stage' = "starting"
  /\ UNCHANGED <<todo, recording, agreed>>

\* Consent was found: the monitor starts.
PassGate ==
  /\ stage = "starting" /\ Free
  /\ HasConsented(mem)
  /\ stage' = "running" /\ recording' = TRUE
  /\ UNCHANGED <<cvars, todo, agreed>>

\* show_consent_dialog(), closed by its button.
Accept ==
  /\ stage = "starting" /\ Free
  /\ ~HasConsented(mem)
  /\ todo' = Record(TRUE)
  /\ stage' = "recording consent" /\ agreed' = TRUE
  /\ UNCHANGED <<cvars, recording>>

\* Declined, or the dialog's window closed.
Decline ==
  /\ stage = "starting" /\ Free
  /\ ~HasConsented(mem)
  /\ todo' = Record(FALSE)
  /\ stage' = "declining"
  /\ UNCHANGED <<cvars, recording, agreed>>

Accepted ==
  /\ stage = "recording consent" /\ Free
  /\ stage' = "running" /\ recording' = TRUE
  /\ UNCHANGED <<cvars, todo, agreed>>

\* sys.exit(0)
Declined ==
  /\ stage = "declining" /\ Free
  /\ Crash
  /\ stage' = "off"
  /\ UNCHANGED <<todo, recording, agreed>>

\* _withdraw_consent(); the button works again and again.
Withdraw ==
  /\ stage \in {"running", "withdrawn"} /\ Free
  /\ todo' = Record(FALSE)
  /\ stage' = "withdrawing"
  /\ UNCHANGED <<cvars, recording, agreed>>

\* The monitor is stopped and the user told that recording has stopped.
Withdrawn ==
  /\ stage = "withdrawing" /\ Free
  /\ recording' = FALSE
  /\ agreed' = (agreed /\ ~saved)
  /\ stage' = "withdrawn"
  /\ UNCHANGED <<cvars, todo>>

\* Any other setting is changed, by any thread.
ChangeSetting(k, v) ==
  /\ k \notin {ConsentKeys[i] : i \in 1..Len(ConsentKeys)}
  /\ stage # "off"
  /\ Set(k, v)
  /\ UNCHANGED ui

\* Fault: the last call is taken for the one that was made.
CallSetOutOfTurn ==
  /\ todo # <<>>
  /\ Set(todo[1][1], todo[1][2])
  /\ todo' = SubSeq(todo, 1, Len(todo) - 1)
  /\ UNCHANGED <<stage, recording, agreed>>

\* The operation makes its next call.
CallSet ==
  /\ todo # <<>>
  /\ Set(todo[1][1], todo[1][2])
  /\ todo' = Tail(todo)
  /\ UNCHANGED <<stage, recording, agreed>>

\* The process ends at any moment.
Die ==
  /\ Crash
  /\ stage' = "off" /\ todo' = <<>> /\ recording' = FALSE
  /\ UNCHANGED agreed

File ==
  /\ SaveStep
  /\ UNCHANGED ui

ConsentNext ==
  \/ StartUp \/ PassGate \/ Accept \/ Decline \/ Accepted \/ Declined
  \/ Withdraw \/ Withdrawn \/ CallSet \/ Die \/ File
  \/ \E k \in Keys, v \in Values : ChangeSetting(k, v)

ConsentSpec == ConsentInit /\ [][ConsentNext]_vars

-----------------------------------------------------------------------------
(* Properties *)

\* Every variable stays in its type; what is left to do is the end of one operation.
ConsentTypeOK ==
  /\ TypeOK
  /\ stage \in {"off", "starting", "recording consent", "declining", "running",
                "withdrawing", "withdrawn"}
  /\ \E a \in BOOLEAN, n \in 1..Len(ConsentKeys) + 1 :
       todo = SubSeq(Record(a), n, Len(ConsentKeys))
  /\ recording \in BOOLEAN /\ agreed \in BOOLEAN

\* "Nothing may be recorded until the user has seen the policy and agreed"
\* (main.py:107-108), through crashes and failing saves; nor after a withdrawal
\* that was saved, until the next agreement.
NothingRecordedUnasked ==
  recording => agreed

\* Consent is read from one of the three settings, and it is the first to be
\* withdrawn (consent.py:54-58): a withdrawal that a crash cuts short, once it has
\* reached the disk at all, is a withdrawal.
CutShortIsWithdrawn ==
  stage = "withdrawing" /\ Len(todo) < Len(ConsentKeys) /\ pc = "up" /\ saved =>
    ~HasConsented(Loaded)

\* "ProtBot will ask again the next time it starts", the user is told
\* (settings_page.py:535-540).
AsksAgain ==
  stage = "withdrawn" /\ pc # "down" => ~HasConsented(Loaded)

-----------------------------------------------------------------------------
(* The inductive invariant behind them (ConfigStoreProofs) *)

\* What an operation has still to set; nobody else has anything to set.
TodoOK ==
  /\ todo \in Seq(Keys \X BOOLEAN) /\ Len(todo) <= 3
  /\ stage \in {"declining", "withdrawing"} =>
       \A i \in 1..Len(todo) : todo[i][2] = FALSE
  /\ stage \notin {"declining", "withdrawing", "recording consent"} => todo = <<>>
  /\ stage = "withdrawing" =>
       IF Len(todo) = 3 THEN todo[1][1] = "consent_version" ELSE ~HasConsented(mem)

\* Without an agreement there is no sign of one, in memory or on disk.
NoSignOfConsent ==
  /\ ~HasConsented(Loaded)
  /\ pc # "down" => ~HasConsented(mem)
  /\ stage \notin {"recording consent", "running"}

ConsentInv ==
  /\ stage \in {"off", "starting", "recording consent", "declining", "running",
                "withdrawing", "withdrawn"}
  /\ recording \in BOOLEAN /\ agreed \in BOOLEAN
  /\ recording => stage \in {"running", "withdrawing"}
  /\ stage = "off" <=> pc = "down"
  /\ TodoOK
  /\ ~agreed => NoSignOfConsent /\ ~recording

=============================================================================
