------------------------- MODULE ConfigStoreProofs -------------------------
(***************************************************************************)
(* For any settings and any values: whatever step of a save the process    *)
(* dies in and whichever file operation fails, the next start finds the    *)
(* old settings or the new ones, and the new ones if save() said so.       *)
(***************************************************************************)
EXTENDS Consent, SequenceTheorems, TLAPS

\* A file that is not there is not read.
LEMMA MissingIsUnreadable == ASSUME ConfigAssumption PROVE ~Readable(Missing)
BY DEF ConfigAssumption, Readable

LEMMA LoadedIsSettings == ASSUME ConfigAssumption PROVE Loaded \in Settings
BY DEF ConfigAssumption, Loaded, Readable

LEMMA InitTyped == ASSUME ConfigAssumption, Init PROVE TypeOK
BY DEF ConfigAssumption, Init, TypeOK, Files

LEMMA StepTyped ==
  ASSUME ConfigAssumption, TypeOK, [Next]_cvars PROVE TypeOK'
<1>1. CASE Load
  BY <1>1, LoadedIsSettings DEF Load, TypeOK
<1>2. CASE SaveStep
  BY <1>2 DEF SaveStep, WriteTemp, KeepLast, Place, SaveFails, TypeOK, Files
<1>3. CASE Crash
  BY <1>3 DEF Crash, TypeOK
<1>4. ASSUME NEW k \in Keys, NEW v \in Values, Set(k, v) PROVE TypeOK'
  BY <1>4 DEF Set, TypeOK, Settings
<1>5. CASE UNCHANGED cvars
  BY <1>5 DEF cvars, TypeOK
<1>6. QED BY <1>1, <1>2, <1>3, <1>4, <1>5 DEF Next

LEMMA StepSaved ==
  ASSUME TypeOK, SavedIsStored, [Next]_cvars PROVE SavedIsStored'
<1> SUFFICES ASSUME pc' = "up", saved' PROVE Loaded' = mem'
  BY DEF SavedIsStored
<1>1. CASE Place
  BY <1>1 DEF Place, Loaded, Readable, TypeOK
<1>2. CASE UNCHANGED cvars
  BY <1>2 DEF cvars, SavedIsStored, Loaded, Readable
<1>3. ~Load /\ ~WriteTemp /\ ~KeepLast /\ ~SaveFails /\ ~Crash
  BY DEF Load, WriteTemp, KeepLast, SaveFails, Crash
<1>4. ASSUME NEW k \in Keys, NEW v \in Values PROVE ~Set(k, v)
  BY DEF Set
<1>5. QED BY <1>1, <1>2, <1>3, <1>4 DEF Next, SaveStep

\* Every variable stays in its type, and when save() has returned True the next
\* start finds all that was set (config.py:64-74, :147).
THEOREM SavedIsFound == Spec => [](TypeOK /\ SavedIsStored)
<1>1. Init => TypeOK /\ SavedIsStored
  BY ConfigAssumption, InitTyped DEF Init, SavedIsStored
<1>2. TypeOK /\ SavedIsStored /\ [Next]_cvars => TypeOK' /\ SavedIsStored'
  BY ConfigAssumption, StepTyped, StepSaved
<1>3. QED BY <1>1, <1>2, PTL DEF Spec

\* The two files together behave as one that is replaced at once: every step of
\* the detailed store is a step of the abstract one or none of its business
\* (config.py:139-178).
THEOREM StoreIsAtomic == Spec => OldOrNew
<1>1. Init => Store!Init
  BY ConfigAssumption, MissingIsUnreadable DEF Init, Store!Init, Loaded
<1>2. TypeOK /\ [Next]_cvars => [Store!Next]_<<mem, Loaded>>
  <2> SUFFICES ASSUME TypeOK, [Next]_cvars
               PROVE  Store!Next \/ UNCHANGED <<mem, Loaded>>
    OBVIOUS
  <2>1. CASE Load
    <3>1. mem' = Loaded /\ Loaded' = Loaded
      BY <2>1 DEF Load, Loaded, Readable
    <3>2. QED BY <3>1 DEF Store!Next, Store!Reload
  <2>2. ASSUME NEW k \in Keys, NEW v \in Values, Set(k, v)
        PROVE  Store!Next
    <3>1. mem' = [mem EXCEPT ![k] = v] /\ Loaded' = Loaded
      BY <2>2 DEF Set, Loaded, Readable
    <3>2. QED BY <3>1 DEF Store!Next, Store!Change
  <2>3. CASE KeepLast
    BY <2>3, MissingIsUnreadable, ConfigAssumption
       DEF KeepLast, Loaded, Readable, TypeOK, Files
  <2>4. CASE Place
    <3>1. Loaded' = mem /\ mem' = mem
      BY <2>4 DEF Place, Loaded, Readable, TypeOK
    <3>2. QED BY <3>1 DEF Store!Next, Store!Save
  <2>5. CASE WriteTemp \/ SaveFails \/ Crash \/ UNCHANGED cvars
    BY <2>5 DEF WriteTemp, SaveFails, Crash, cvars, Loaded, Readable
  <2>6. QED BY <2>1, <2>2, <2>3, <2>4, <2>5 DEF Next, SaveStep
<1>3. QED BY <1>1, <1>2, SavedIsFound, PTL DEF Spec, OldOrNew, Store!Spec

-----------------------------------------------------------------------------
(* The consent gate *)

LEMMA RecordedValues ==
  ASSUME ConsentAssumption, NEW a \in BOOLEAN
  PROVE  /\ Record(a) \in Seq(Keys \X BOOLEAN) /\ Len(Record(a)) = 3
         /\ Record(a)[1][1] = "consent_version"
         /\ \A i \in 1..3 : Record(a)[i][2] = a
<1>1. Len(ConsentKeys) = 3 /\ ConsentKeys[1] = "consent_version"
  BY DEF ConsentKeys
<1>2. \A i \in 1..3 : ConsentKeys[i] \in Keys
  BY <1>1 DEF ConsentAssumption
<1>3. Record(a) = [i \in 1..3 |-> <<ConsentKeys[i], a>>]
  BY <1>1 DEF Record
<1>4. [i \in 1..3 |-> <<ConsentKeys[i], a>>] \in Seq(Keys \X BOOLEAN)
  BY <1>2
<1>5. QED BY <1>1, <1>3, <1>4

LEMMA VersionIsASetting ==
  ASSUME ConsentAssumption PROVE "consent_version" \in Keys
<1>1. Len(ConsentKeys) = 3 /\ ConsentKeys[1] = "consent_version"
  BY DEF ConsentKeys
<1>2. QED BY <1>1 DEF ConsentAssumption

LEMMA TailOfSeq ==
  ASSUME NEW S, NEW q \in Seq(S), q # <<>>
  PROVE  /\ q[1] \in S /\ Tail(q) \in Seq(S) /\ Len(Tail(q)) = Len(q) - 1
         /\ Len(q) \in Nat \ {0}
         /\ \A i \in 1..Len(Tail(q)) : Tail(q)[i] = q[i + 1]
OBVIOUS

LEMMA NoCallsLeft == ASSUME NEW S PROVE <<>> \in Seq(S) /\ Len(<<>>) = 0
OBVIOUS

\* The call at the head of the list is one of set()'s.
LEMMA NextCall ==
  ASSUME TodoOK, todo # <<>>
  PROVE  /\ todo[1][1] \in Keys /\ todo[1][2] \in BOOLEAN
         /\ Len(todo) \in 1..3 /\ Len(Tail(todo)) <= 3 /\ Len(Tail(todo)) # 3
         /\ Tail(todo) \in Seq(Keys \X BOOLEAN) /\ Len(Tail(todo)) = Len(todo) - 1
         /\ \A i \in 1..Len(Tail(todo)) : Tail(todo)[i] = todo[i + 1]
<1>1. todo \in Seq(Keys \X BOOLEAN) /\ Len(todo) <= 3
  BY DEF TodoOK
<1>2. /\ todo[1] \in Keys \X BOOLEAN
      /\ Tail(todo) \in Seq(Keys \X BOOLEAN) /\ Len(Tail(todo)) = Len(todo) - 1
      /\ Len(todo) \in Nat \ {0}
      /\ \A i \in 1..Len(Tail(todo)) : Tail(todo)[i] = todo[i + 1]
  BY <1>1, TailOfSeq
<1>3. todo[1][1] \in Keys /\ todo[1][2] \in BOOLEAN
  BY <1>2
<1>4. ASSUME NEW n \in Nat \ {0}, NEW m, n <= 3, m = n - 1
      PROVE  n \in 1..3 /\ m <= 3 /\ m # 3
  BY <1>4
<1>5. Len(todo) \in 1..3 /\ Len(Tail(todo)) <= 3 /\ Len(Tail(todo)) # 3
  BY <1>1, <1>2, <1>4, Zenon
<1>6. QED BY <1>2, <1>3, <1>5

\* A step of the file keeps or replaces what the next start finds.
LEMMA FileStep ==
  ASSUME ConfigAssumption, TypeOK, SaveStep
  PROVE  /\ mem' = mem /\ pc # "down" /\ pc' # "down"
         /\ Loaded' = Loaded \/ Loaded' = mem
<1>1. CASE KeepLast
  BY <1>1, MissingIsUnreadable DEF KeepLast, Loaded, Readable, TypeOK, Files
<1>2. CASE Place
  BY <1>2 DEF Place, Loaded, Readable, TypeOK
<1>3. CASE WriteTemp \/ SaveFails
  BY <1>3 DEF WriteTemp, SaveFails, Loaded, Readable
<1>4. QED BY <1>1, <1>2, <1>3 DEF SaveStep, WriteTemp, KeepLast, Place, SaveFails

LEMMA ConsentInitially ==
  ASSUME ConfigAssumption, ConsentAssumption, ConsentInit PROVE ConsentInv
<1>1. Loaded = Default
  BY MissingIsUnreadable DEF ConsentInit, Init, Loaded
<1>2. todo \in Seq(Keys \X BOOLEAN) /\ Len(todo) = 0
  BY NoCallsLeft DEF ConsentInit
<1>3. TodoOK
  BY <1>2 DEF ConsentInit, TodoOK
<1>4. ~HasConsented(Loaded)
  BY <1>1 DEF ConsentAssumption, HasConsented
<1>5. QED BY <1>3, <1>4 DEF ConsentInit, Init, ConsentInv, NoSignOfConsent

\* Every step of the gate leaves the invariant true.
LEMMA ConsentStep ==
  ASSUME ConfigAssumption, ConsentAssumption, TypeOK, SavedIsStored, ConsentInv,
         [ConsentNext]_vars
  PROVE  ConsentInv'
<1> USE DEF HasConsented
<1>1. CASE StartUp
  <2>1. mem' = Loaded /\ Loaded' = Loaded /\ pc' = "write"
    BY <1>1 DEF StartUp, Load, Loaded, Readable
  <2>2. QED BY <1>1, <2>1 DEF StartUp, ConsentInv, TodoOK, NoSignOfConsent
<1>2. CASE PassGate
  <2>1. Loaded' = Loaded
    BY <1>2 DEF PassGate, cvars, Loaded, Readable
  <2>2. agreed
    BY <1>2 DEF PassGate, Free, ConsentInv, NoSignOfConsent
  <2>3. QED BY <1>2, <2>1, <2>2 DEF PassGate, cvars, Free, ConsentInv, TodoOK
<1>3. CASE Accept
  <2>1. todo' = Record(TRUE) /\ agreed' /\ stage' = "recording consent"
    BY <1>3 DEF Accept
  <2>2. TodoOK'
    <3>1. todo' \in Seq(Keys \X BOOLEAN) /\ Len(todo') = 3
      BY <2>1, RecordedValues, Zenon
    <3>2. Len(todo') <= 3
      BY <3>1
    <3>3. /\ stage' \notin {"declining", "withdrawing"} /\ stage' # "withdrawing"
          /\ stage' \in {"declining", "withdrawing", "recording consent"}
      BY <2>1
    <3>4. QED BY <3>1, <3>2, <3>3, Zenon DEF TodoOK
  <2>3. ~recording
    BY <1>3 DEF Accept, ConsentInv
  <2>4. QED BY <1>3, <2>1, <2>2, <2>3 DEF Accept, cvars, Free, ConsentInv
<1>4. CASE Decline
  <2>1. TodoOK'
    <3>1. /\ todo' \in Seq(Keys \X BOOLEAN) /\ Len(todo') = 3
          /\ todo'[1][1] = "consent_version"
          /\ \A i \in 1..3 : todo'[i][2] = FALSE
      BY <1>4, RecordedValues, Zenon DEF Decline
    <3>2. stage' = "declining"
      BY <1>4 DEF Decline
    <3>3. QED BY <3>1, <3>2 DEF TodoOK
  <2>2. Loaded' = Loaded
    BY <1>4 DEF Decline, cvars, Loaded, Readable
  <2>3. QED BY <1>4, <2>1, <2>2 DEF Decline, cvars, Free, ConsentInv, NoSignOfConsent
<1>5. CASE Accepted
  <2>1. agreed
    BY <1>5 DEF Accepted, ConsentInv, NoSignOfConsent
  <2>2. QED BY <1>5, <2>1 DEF Accepted, cvars, Free, ConsentInv, TodoOK
<1>6. CASE Declined \/ Die
  <2>1. Loaded' = Loaded /\ pc' = "down" /\ stage' = "off" /\ todo' = <<>>
    BY <1>6 DEF Declined, Die, Crash, Free, Loaded, Readable
  <2>2. recording' = FALSE /\ agreed' = agreed
    BY <1>6 DEF Declined, Die, ConsentInv
  <2>3. TodoOK'
    <3>1. todo' \in Seq(Keys \X BOOLEAN) /\ Len(todo') = 0
      BY <2>1
    <3>2. QED BY <2>1, <3>1 DEF TodoOK
  <2>4. QED BY <2>1, <2>2, <2>3 DEF ConsentInv, NoSignOfConsent
<1>7. CASE Withdraw
  <2>1. TodoOK'
    <3>1. /\ todo' \in Seq(Keys \X BOOLEAN) /\ Len(todo') = 3
          /\ todo'[1][1] = "consent_version"
          /\ \A i \in 1..3 : todo'[i][2] = FALSE
      BY <1>7, RecordedValues, Zenon DEF Withdraw
    <3>2. stage' = "withdrawing"
      BY <1>7 DEF Withdraw
    <3>3. QED BY <3>1, <3>2 DEF TodoOK
  <2>2. Loaded' = Loaded
    BY <1>7 DEF Withdraw, cvars, Loaded, Readable
  <2>3. QED BY <1>7, <2>1, <2>2 DEF Withdraw, cvars, Free, ConsentInv, NoSignOfConsent
<1>8. CASE Withdrawn
  <2>1. Loaded' = Loaded /\ ~HasConsented(mem) /\ UNCHANGED <<mem, pc, saved>>
    BY <1>8 DEF Withdrawn, Free, cvars, Loaded, Readable, ConsentInv, TodoOK
  <2>2. ~agreed' => ~HasConsented(Loaded)
    BY <1>8, <2>1 DEF Withdrawn, Free, SavedIsStored, ConsentInv, NoSignOfConsent
  <2>3. QED BY <1>8, <2>1, <2>2 DEF Withdrawn, Free, ConsentInv, TodoOK, NoSignOfConsent
<1>9. CASE CallSet
  <2>1. /\ mem' = [mem EXCEPT ![todo[1][1]] = todo[1][2]]
        /\ pc = "up" /\ pc' = "write" /\ Loaded' = Loaded
    BY <1>9 DEF CallSet, Set, Loaded, Readable
  <2>2. /\ todo[1][1] \in Keys /\ todo[1][2] \in BOOLEAN /\ todo # <<>>
        /\ Len(todo) \in 1..3 /\ Len(Tail(todo)) = Len(todo) - 1
        /\ Tail(todo) \in Seq(Keys \X BOOLEAN)
        /\ \A i \in 1..Len(Tail(todo)) : Tail(todo)[i] = todo[i + 1]
    BY <1>9, NextCall DEF CallSet, ConsentInv
  <2>3. stage \in {"declining", "withdrawing", "recording consent"} /\ stage' = stage
    BY <1>9 DEF CallSet, ConsentInv, TodoOK
  <2>4. stage \in {"declining", "withdrawing"} => todo[1][2] = FALSE
    <3>1. stage \in {"declining", "withdrawing"} =>
            \A i \in 1..Len(todo) : todo[i][2] = FALSE
      BY Zenon DEF ConsentInv, TodoOK
    <3>2. 1 \in 1..Len(todo)
      BY <2>2
    <3>3. QED BY <3>1, <3>2, Zenon
  <2>5. stage \in {"declining", "withdrawing"} /\ ~HasConsented(mem) => ~HasConsented(mem')
    BY <2>1, <2>2, <2>4, VersionIsASetting DEF TypeOK, Settings
  <2>6. stage = "withdrawing" => ~HasConsented(mem')
    <3>1. CASE stage = "withdrawing" /\ Len(todo) = 3
      BY <2>1, <2>4, <3>1, VersionIsASetting DEF TypeOK, Settings, ConsentInv, TodoOK
    <3>2. QED BY <2>5, <3>1 DEF ConsentInv, TodoOK
  <2>7. TodoOK'
    <3>1. todo' = Tail(todo)
      BY <1>9 DEF CallSet
    <3>2. ASSUME stage \in {"declining", "withdrawing"}, NEW i \in 1..Len(Tail(todo))
          PROVE  Tail(todo)[i][2] = FALSE
      <4>1. i + 1 \in 1..Len(todo) /\ Tail(todo)[i] = todo[i + 1]
        BY <2>2
      <4>2. \A j \in 1..Len(todo) : todo[j][2] = FALSE
        BY <3>2, Zenon DEF ConsentInv, TodoOK
      <4>3. QED BY <4>1, <4>2, Zenon
    <3>3. Len(Tail(todo)) <= 3 /\ Len(Tail(todo)) # 3
      BY <1>9, NextCall, Zenon DEF CallSet, ConsentInv
    <3>4. stage \in {"declining", "withdrawing"} =>
            \A i \in 1..Len(Tail(todo)) : Tail(todo)[i][2] = FALSE
      BY <3>2, Zenon
    <3>5. QED BY <2>2, <2>3, <2>6, <3>1, <3>3, <3>4, Zenon DEF TodoOK
  <2>8. QED BY <1>9, <2>1, <2>3, <2>5, <2>7 DEF CallSet, ConsentInv, NoSignOfConsent
<1>10. CASE File
  <2>1. UNCHANGED ui /\ SaveStep
    BY <1>10 DEF File
  <2>2. mem' = mem /\ pc # "down" /\ pc' # "down" /\ (Loaded' = Loaded \/ Loaded' = mem)
    BY <2>1, FileStep
  <2>3. QED BY <2>1, <2>2 DEF ui, ConsentInv, TodoOK, NoSignOfConsent
<1>11. ASSUME NEW k \in Keys, NEW v \in Values, ChangeSetting(k, v) PROVE ConsentInv'
  <2>1. k # "consent_version"
    <3>1. Len(ConsentKeys) = 3 /\ ConsentKeys[1] = "consent_version"
      BY DEF ConsentKeys
    <3>2. QED BY <1>11, <3>1 DEF ChangeSetting
  <2>2. /\ mem'["consent_version"] = mem["consent_version"] /\ Loaded' = Loaded
        /\ pc = "up" /\ pc' = "write" /\ UNCHANGED ui
    BY <1>11, <2>1, VersionIsASetting
       DEF ChangeSetting, Set, Loaded, Readable, TypeOK, Settings
  <2>3. QED BY <2>2 DEF ui, ConsentInv, TodoOK, NoSignOfConsent
<1>12. CASE UNCHANGED vars
  <2>1. Loaded' = Loaded /\ UNCHANGED <<mem, pc, stage, todo, recording, agreed>>
    BY <1>12 DEF vars, cvars, ui, Loaded, Readable
  <2>2. QED BY <2>1 DEF ConsentInv, TodoOK, NoSignOfConsent
<1>13. QED BY <1>1, <1>2, <1>3, <1>4, <1>5, <1>6, <1>7, <1>8, <1>9, <1>10, <1>11, <1>12
           DEF ConsentNext

\* The consent gate uses the store as any other caller does, so that all that is
\* true of it is true here (consent.py:47-58).
LEMMA ConsentUsesStore ==
  ASSUME ConsentAssumption, ConsentInv, [ConsentNext]_vars PROVE [Next]_cvars
<1>1. CASE StartUp
  BY <1>1 DEF StartUp, Next
<1>2. CASE Declined \/ Die
  BY <1>2 DEF Declined, Die, Next
<1>3. CASE File
  BY <1>3 DEF File, Next
<1>4. CASE PassGate \/ Accept \/ Decline \/ Accepted \/ Withdraw \/ Withdrawn
  BY <1>4 DEF PassGate, Accept, Decline, Accepted, Withdraw, Withdrawn
<1>5. ASSUME NEW k \in Keys, NEW v \in Values, ChangeSetting(k, v) PROVE Next
  BY <1>5 DEF ChangeSetting, Next
<1>6. CASE CallSet
  <2>1. todo[1][1] \in Keys /\ todo[1][2] \in Values
    BY <1>6, NextCall DEF CallSet, ConsentInv, ConsentAssumption
  <2>2. QED BY <1>6, <2>1 DEF CallSet, Next
<1>7. CASE UNCHANGED vars
  BY <1>7 DEF vars
<1>8. QED BY <1>1, <1>2, <1>3, <1>4, <1>5, <1>6, <1>7 DEF ConsentNext

\* Both invariants at once: each step needs the other's.
LEMMA ConsentInvariance == ConsentSpec => [](TypeOK /\ SavedIsStored /\ ConsentInv)
<1>1. ConsentInit => TypeOK /\ SavedIsStored /\ ConsentInv
  BY ConfigAssumption, ConsentAssumption, ConsentInitially, InitTyped
     DEF ConsentInit, Init, SavedIsStored
<1>2. TypeOK /\ SavedIsStored /\ ConsentInv /\ [ConsentNext]_vars
        => TypeOK' /\ SavedIsStored' /\ ConsentInv'
  BY ConfigAssumption, ConsentAssumption, ConsentStep, ConsentUsesStore, StepTyped,
     StepSaved
<1>3. QED BY <1>1, <1>2, PTL DEF ConsentSpec

\* What is left of an operation after its next call is again the end of it.
LEMMA RestOfRecord ==
  ASSUME ConsentAssumption, NEW a \in BOOLEAN, NEW n \in 1..Len(ConsentKeys) + 1,
         SubSeq(Record(a), n, Len(ConsentKeys)) # <<>>
  PROVE  /\ n + 1 \in 1..Len(ConsentKeys) + 1
         /\ Tail(SubSeq(Record(a), n, Len(ConsentKeys)))
              = SubSeq(Record(a), n + 1, Len(ConsentKeys))
<1>1. Len(ConsentKeys) = 3
  BY DEF ConsentKeys
<1>2. Record(a) \in Seq(Keys \X BOOLEAN) /\ Len(Record(a)) = 3
  BY RecordedValues
<1>3. n \in 1..4
  BY <1>1
<1>4. CASE n = 4
  BY <1>1, <1>2, <1>4, SubSeqEmpty
<1>5. CASE n \in 1..3
  BY <1>1, <1>2, <1>5, HeadTailOfSubSeq
<1>6. QED BY <1>3, <1>4, <1>5

LEMMA WholeRecord ==
  ASSUME ConsentAssumption, NEW a \in BOOLEAN
  PROVE  /\ Record(a) = SubSeq(Record(a), 1, Len(ConsentKeys))
         /\ SubSeq(Record(a), Len(ConsentKeys) + 1, Len(ConsentKeys)) = <<>>
         /\ Len(ConsentKeys) = 3
<1>1. Len(ConsentKeys) = 3
  BY DEF ConsentKeys
<1>2. Record(a) \in Seq(Keys \X BOOLEAN) /\ Len(Record(a)) = 3
  BY RecordedValues
<1>3. QED BY <1>1, <1>2, SubSeqFull, SubSeqEmpty

\* Every variable stays in its type; what an operation has still to set is the end
\* of record_consent()'s three calls, in their order (consent.py:47-58).
THEOREM ConsentTypes == ConsentSpec => []ConsentTypeOK
<1> DEFINE Rest == \E a \in BOOLEAN, n \in 1..Len(ConsentKeys) + 1 :
                     todo = SubSeq(Record(a), n, Len(ConsentKeys))
<1>1. ASSUME ConsentAssumption, todo = <<>> PROVE Rest
  <2>1. todo = SubSeq(Record(TRUE), Len(ConsentKeys) + 1, Len(ConsentKeys))
        /\ Len(ConsentKeys) = 3
    BY <1>1, WholeRecord
  <2>2. Len(ConsentKeys) + 1 \in 1..Len(ConsentKeys) + 1
    BY <2>1
  <2>3. QED BY <2>1, <2>2
<1>2. ASSUME ConsentAssumption, Rest, [ConsentNext]_vars PROVE Rest'
  <2>1. CASE UNCHANGED todo
    BY <1>2, <2>1 DEF ConsentKeys, Record
  <2>2. CASE Accept \/ Decline \/ Withdraw
    <3>1. PICK a \in BOOLEAN : todo' = Record(a)
      BY <2>2 DEF Accept, Decline, Withdraw
    <3>2. todo' = SubSeq(Record(a), 1, Len(ConsentKeys)) /\ Len(ConsentKeys) = 3
      BY <1>2, <3>1, WholeRecord
    <3>3. 1 \in 1..Len(ConsentKeys) + 1
      BY <3>2
    <3>4. QED BY <3>2, <3>3
  <2>3. CASE CallSet
    <3>1. PICK a \in BOOLEAN, n \in 1..Len(ConsentKeys) + 1 :
            todo = SubSeq(Record(a), n, Len(ConsentKeys))
      BY <1>2
    <3>2. todo' = Tail(todo) /\ todo # <<>>
      BY <2>3 DEF CallSet
    <3>3. n + 1 \in 1..Len(ConsentKeys) + 1
          /\ todo' = SubSeq(Record(a), n + 1, Len(ConsentKeys))
      BY <1>2, <3>1, <3>2, RestOfRecord
    <3>4. QED BY <3>3
  <2>4. CASE Die
    <3>1. todo' = SubSeq(Record(TRUE), Len(ConsentKeys) + 1, Len(ConsentKeys))
          /\ Len(ConsentKeys) = 3
      BY <1>2, <2>4, WholeRecord DEF Die
    <3>2. Len(ConsentKeys) + 1 \in 1..Len(ConsentKeys) + 1
      BY <3>1
    <3>3. QED BY <3>1, <3>2
  <2>5. CASE StartUp \/ PassGate \/ Accepted \/ Declined \/ Withdrawn \/ File
             \/ UNCHANGED vars
    BY <2>1, <2>5 DEF StartUp, PassGate, Accepted, Declined, Withdrawn, File, ui, vars
  <2>6. ASSUME NEW k \in Keys, NEW v \in Values, ChangeSetting(k, v) PROVE Rest'
    BY <2>1, <2>6 DEF ChangeSetting, ui
  <2>7. QED BY <1>2, <2>2, <2>3, <2>4, <2>5, <2>6 DEF ConsentNext
<1>3. ConsentSpec => []Rest
  <2>1. ConsentInit => Rest
    BY ConsentAssumption, <1>1 DEF ConsentInit
  <2>2. Rest /\ [ConsentNext]_vars => Rest'
    BY ConsentAssumption, <1>2
  <2>3. QED BY <2>1, <2>2, PTL DEF ConsentSpec
<1>4. TypeOK /\ ConsentInv /\ Rest => ConsentTypeOK
  BY DEF ConsentInv, ConsentTypeOK
<1>5. QED BY <1>3, <1>4, ConsentInvariance, PTL

\* Nothing is recorded before the user has agreed, nor after a withdrawal that was
\* saved, whatever crashes and failing saves lie between (main.py:106-125).
THEOREM NeverRecordedUnasked == ConsentSpec => []NothingRecordedUnasked
<1>1. ConsentInv => NothingRecordedUnasked
  BY DEF ConsentInv, NothingRecordedUnasked
<1>2. QED BY <1>1, ConsentInvariance, PTL

\* A withdrawal that a crash cuts short is found by the next start, if any of its
\* saves has succeeded last (consent.py:54-58).
THEOREM CutShortHolds == ConsentSpec => []CutShortIsWithdrawn
<1>1. SavedIsStored /\ ConsentInv => CutShortIsWithdrawn
  <2>1. Len(ConsentKeys) = 3
    BY DEF ConsentKeys
  <2>2. QED BY <2>1 DEF SavedIsStored, ConsentInv, TodoOK, CutShortIsWithdrawn
<1>2. QED BY <1>1, ConsentInvariance, PTL

=============================================================================
