---------------------------- MODULE DeviceLinking ----------------------------
(***************************************************************************)
(* The Devices tab (ui/devices_page.py) and core/linking.py: registering   *)
(* this PC with the server, showing a link code for another device to      *)
(* scan, joining with a code, and the list of the group's devices.         *)
(*                                                                         *)
(* Every request runs on a thread of its own, writes its setting there and *)
(* hands the rest to the UI thread.  A request may fail or come late.      *)
(* Only link codes are timed: "age" is what the server counts since it     *)
(* issued a code, "shown" what this PC's clock says since it was put on    *)
(* screen, and one second of the source is a fraction of a tick here.      *)
(*                                                                         *)
(* The server is modelled from the client: each registration gets an       *)
(* identity of its own, a code is good for Lifetime, two devices that are  *)
(* linked have their groups put together, and nothing here ever takes a    *)
(* device out of a group.  To the server, an identity that this PC had     *)
(* before is a device like the others.  A server URL is set.               *)
(***************************************************************************)
EXTENDS Naturals, FiniteSets, Sequences

CONSTANTS Devices,     \* the other devices
          NoCode,      \* no link code is on screen
          Display,     \* LINK_DISPLAY_SECONDS
          Lifetime,    \* how long the server remembers a code
          Delay,       \* the longest an issued code takes to the screen
          MaxDevices,  \* the plan's number of devices
          MaxIds,      \* bound: registrations
          MaxAsked     \* bound: codes, asked for or shown, and requests about groups at once

ASSUME LinkingAssumption ==
  /\ Display \in Nat \ {0} /\ Delay \in Nat
  /\ Lifetime \in Nat /\ Display + Delay <= Lifetime
  /\ MaxDevices \in Nat /\ MaxIds \in Nat \ {0} /\ MaxAsked \in Nat
  /\ Devices \cap (1..MaxIds) = {}

Ids == 1..MaxIds
Members == Devices \cup Ids

VARIABLES
  (* registration *)
  deviceId,     \* config["device_id"], 0 if there is none
  registering,  \* _registering
  watchdog,     \* the 12-second timer of the last registration is running
  threads,      \* how many registrations wait for their answer
  ended,        \* the calls of _reg_done and _reg_error that the UI thread has queued
  issued,       \* the server: identities given out
  gaveUp,       \* history: a watchdog fired
  (* the page *)
  drawn,        \* what _populate() drew: the form, a Link button in use, the list
  redraw,       \* a call of _populate() is due
  (* link codes *)
  asking,       \* identities for which a code was asked, until the server answers
  coming,       \* codes issued and not yet on screen
  code,         \* the code on screen, and whether its countdown runs
  (* the group *)
  group,        \* the server: the group that each member is in
  joining,      \* joins on their way, there or back
  fetching,     \* fetches of the group on their way
  linked        \* config["linked_devices"]

registration == <<deviceId, registering, watchdog, threads, ended, issued, gaveUp>>
page == <<drawn, redraw>>
codes == <<asking, coming, code>>
members == <<group, joining, fetching, linked>>
vars == <<registration, page, codes, members>>

\* The bound, where a request is made.
Free ==
  Cardinality(asking) + Cardinality(coming) + (IF code = NoCode THEN 0 ELSE 1)
    + Cardinality(joining) + Cardinality(fetching) < MaxAsked

-----------------------------------------------------------------------------
(* The page *)

AtLimit(devices) == Cardinality(devices) + 1 >= MaxDevices

\* _populate(), over the settings as they are.
Draw(id, devices) ==
  [form |-> id = 0, link |-> id # 0 /\ ~AtLimit(devices), list |-> devices]

Init ==
  /\ deviceId = 0 /\ registering = FALSE /\ watchdog = FALSE
  /\ threads = 0 /\ ended = <<>> /\ issued = 0 /\ gaveUp = FALSE
  /\ drawn = Draw(0, {}) /\ redraw = FALSE
  /\ asking = {} /\ coming = {} /\ code = NoCode
  /\ group = [m \in Members |-> {m}]
  /\ joining = {} /\ fetching = {} /\ linked = {}

Populate ==
  /\ redraw
  /\ drawn' = Draw(deviceId, linked)
  /\ redraw' = FALSE
  /\ UNCHANGED <<registration, codes, members>>

-----------------------------------------------------------------------------
(* Registering this device *)

\* Fault: a registration does not wait for the one before.
Register_Unguarded ==
  /\ drawn.form
  /\ issued + threads < MaxIds /\ Len(ended) + threads < MaxIds
  /\ registering' = TRUE /\ watchdog' = TRUE
  /\ threads' = threads + 1
  /\ UNCHANGED <<deviceId, ended, issued, gaveUp, page, codes, members>>

\* _register_device(): the button, or Enter in the form's field.
Register ==
  /\ drawn.form
  /\ ~registering
  /\ issued + threads < MaxIds /\ Len(ended) + threads < MaxIds
  /\ registering' = TRUE /\ watchdog' = TRUE
  /\ threads' = threads + 1
  /\ UNCHANGED <<deviceId, ended, issued, gaveUp, page, codes, members>>

\* A thread has its answer: it stores the identity, or has only an error to report.
Registered ==
  /\ threads > 0
  /\ threads' = threads - 1
  /\ \/ /\ issued' = issued + 1 /\ deviceId' = issued + 1
        /\ ended' = Append(ended, "done")
     \/ /\ ended' = Append(ended, "error")
        /\ UNCHANGED <<issued, deviceId>>
  /\ UNCHANGED <<registering, watchdog, gaveUp, page, codes, members>>

\* Fault: the page is left to the next opening of the tab.
RegDone_KeepsPage ==
  /\ ended # <<>> /\ Head(ended) = "done"
  /\ ended' = Tail(ended)
  /\ registering' = FALSE /\ watchdog' = FALSE
  /\ UNCHANGED <<deviceId, threads, issued, gaveUp, page, codes, members>>

\* _reg_done(): "Registered!", and the page is drawn anew 600 ms later.
RegDone ==
  /\ ended # <<>> /\ Head(ended) = "done"
  /\ ended' = Tail(ended)
  /\ registering' = FALSE /\ watchdog' = FALSE
  /\ redraw' = TRUE
  /\ UNCHANGED <<deviceId, threads, issued, gaveUp, drawn, codes, members>>

\* Fault: only the timer is undone.
RegError_KeepsFlag ==
  /\ ended # <<>> /\ Head(ended) = "error"
  /\ ended' = Tail(ended)
  /\ watchdog' = FALSE
  /\ UNCHANGED <<deviceId, registering, threads, issued, gaveUp, page, codes, members>>

\* _reg_error(), of whichever registration: it ends the last one's guard and timer.
RegError ==
  /\ ended # <<>> /\ Head(ended) = "error"
  /\ ended' = Tail(ended)
  /\ registering' = FALSE /\ watchdog' = FALSE
  /\ UNCHANGED <<deviceId, threads, issued, gaveUp, page, codes, members>>

\* Twelve seconds without an answer: the button is usable again.
Watchdog ==
  /\ watchdog
  /\ registering' = FALSE /\ watchdog' = FALSE
  /\ gaveUp' = TRUE
  /\ UNCHANGED <<deviceId, threads, ended, issued, page, codes, members>>

-----------------------------------------------------------------------------
(* Showing a link code *)

\* The server still knows a code.
Remembered(c) == c.age <= Lifetime

Clamp(n) == IF n > Display THEN Display ELSE n

\* Fault: the countdown does not stop at zero.
SecondsLeft_Late(shown) == Clamp(Display + 1 - shown)

\* seconds_remaining(): the clock may have been set back, to before the code.
SecondsLeft(shown) == IF shown >= Display THEN 0 ELSE Clamp(Display - shown)

\* _generate_link_key(), up to the request.
AskForCode ==
  /\ drawn.link /\ deviceId # 0
  /\ deviceId \notin asking /\ Free
  /\ asking' = asking \cup {deviceId}
  /\ UNCHANGED <<registration, page, coming, code, members>>

\* The answer is passed on as it is, with a code that can be used or with none; or there
\* is only an error to show.
AnswerAsked(id) ==
  /\ id \in asking
  /\ asking' = asking \ {id}
  /\ \/ \E usable \in BOOLEAN :
          coming' = coming \cup {[id |-> id, age |-> 0, usable |-> usable]}
     \/ UNCHANGED coming
  /\ UNCHANGED <<registration, page, code, members>>

\* Fault: a code without the time it was issued.
OnScreen_Untimed(c) ==
  [id |-> c.id, age |-> c.age, counting |-> TRUE, setBack |-> FALSE]

\* LinkSession(): issued now, by this PC's clock.
OnScreen(c) ==
  [id |-> c.id, age |-> c.age, shown |-> 0, counting |-> TRUE, setBack |-> FALSE]

\* _show_link_key(): the countdown of the code on screen is stopped; then the new
\* code takes its place, unless it is not one.
ShowCode(c) ==
  /\ c \in coming
  /\ coming' = coming \ {c}
  /\ \/ /\ c.usable
        /\ code' = OnScreen(c)
     \/ /\ ~c.usable /\ code # NoCode
        /\ code' = [code EXCEPT !.counting = FALSE]
     \/ /\ ~c.usable /\ code = NoCode
        /\ UNCHANGED code
  /\ UNCHANGED <<registration, page, asking, members>>

\* _tick_link_countdown() finds no seconds left.
Expired == code # NoCode /\ code.counting /\ SecondsLeft(code.shown) = 0

CloseExpired ==
  /\ Expired
  /\ code' = NoCode
  /\ UNCHANGED <<registration, page, asking, coming, members>>

\* The user closes the window.
CloseCode ==
  /\ code # NoCode
  /\ code' = NoCode
  /\ UNCHANGED <<registration, page, asking, coming, members>>

\* Time passes for the server and here alike; the countdown keeps up with it, and an
\* issued code does not take longer than Delay.
Older(age) == IF age > Lifetime THEN age ELSE age + 1

Tick ==
  /\ ~Expired
  /\ \A c \in coming : c.age < Delay
  /\ code # NoCode \/ coming # {}
  /\ coming' = {[c EXCEPT !.age = @ + 1] : c \in coming}
  /\ code' = IF code = NoCode THEN code
             ELSE [code EXCEPT !.age = Older(@), !.shown = Older(@)]
  /\ UNCHANGED <<registration, page, asking, members>>

\* The clock of this PC is set, on or back, while a code is on screen.
SetClock ==
  /\ code # NoCode
  /\ \/ /\ code.shown <= Lifetime
        /\ code' = [code EXCEPT !.shown = @ + 1]
     \/ /\ code.shown > 0
        /\ code' = [code EXCEPT !.shown = @ - 1, !.setBack = TRUE]
  /\ UNCHANGED <<registration, page, asking, coming, members>>

-----------------------------------------------------------------------------
(* The group *)

\* The server puts the groups of two members together.
Merged(m, n) ==
  LET both == group[m] \cup group[n]
  IN  [x \in Members |-> IF x \in both THEN both ELSE group[x]]

\* Another device scans the code on screen; nothing here notices.
Scan(d) ==
  /\ code # NoCode /\ Remembered(code)
  /\ group' = Merged(code.id, d)
  /\ UNCHANGED <<registration, page, codes, joining, fetching, linked>>

\* _show_join_dialog(): the identity is the one the dialog was opened with, which may
\* have been replaced since.
Join(id, d) ==
  /\ ~drawn.form /\ id \in 1..deviceId
  /\ Free
  /\ joining' = joining \cup {[id |-> id, with |-> d, answered |-> FALSE]}
  /\ UNCHANGED <<registration, page, codes, group, fetching, linked>>

\* The server has the code and links the two, or refuses it, or never sees it; any
\* answer that is not an error counts as "Linked!", whatever it says.
JoinAnswered(j) ==
  /\ j \in joining /\ ~j.answered
  /\ group' \in {group, Merged(j.id, j.with)}
  /\ \/ joining' = (joining \ {j}) \cup {[j EXCEPT !.answered = TRUE]}
     \/ joining' = joining \ {j}
  /\ UNCHANGED <<registration, page, codes, fetching, linked>>

\* A fetch of the group of the identity that is set now.  It has a number of its own,
\* as several of them may be on their way and overtake one another.
Fetch ==
  \E n \in 1..MaxAsked :
    /\ \A f \in fetching : f.n # n
    /\ fetching' = fetching \cup
         {[n |-> n, id |-> deviceId, answered |-> FALSE, found |-> {}]}

\* _refresh_group_devices(): a device without an identity has nothing to fetch.
Refresh ==
  \/ /\ deviceId = 0
     /\ drawn' = Draw(deviceId, linked)
     /\ UNCHANGED fetching
  \/ /\ deviceId # 0
     /\ Fetch
     /\ UNCHANGED drawn

\* _join_done()
JoinDone(j) ==
  /\ j \in joining /\ j.answered
  /\ joining' = joining \ {j}
  /\ Refresh
  /\ UNCHANGED <<registration, redraw, codes, group, linked>>

\* The tab is opened.
OpenTab ==
  /\ Free
  /\ Refresh
  /\ UNCHANGED <<registration, redraw, codes, group, joining, linked>>

\* The server's answer to a fetch leaves, on its way to be late.
AnswerFetch(f) ==
  /\ f \in fetching /\ ~f.answered
  /\ fetching' = (fetching \ {f}) \cup {[f EXCEPT !.answered = TRUE, !.found = group[f.id]]}
  /\ UNCHANGED <<registration, page, codes, group, joining, linked>>

\* The members that the server does not mark isOwn: it knows this PC by one identity.
Others(id, found) == found \ {id}

\* The fetch is over: with the list, or without.
Fetched(f) ==
  /\ f \in fetching
  /\ fetching' = fetching \ {f}
  /\ linked' = IF f.answered THEN Others(f.id, f.found) ELSE linked
  /\ redraw' = TRUE
  /\ UNCHANGED <<registration, drawn, codes, group, joining>>

\* _remove_device(): the device leaves the list here; the server is not told.
RemoveDevice(m) ==
  /\ m \in drawn.list
  /\ linked' = linked \ {m}
  /\ drawn' = Draw(deviceId, linked \ {m}) /\ UNCHANGED redraw
  /\ UNCHANGED <<registration, codes, group, joining, fetching>>

-----------------------------------------------------------------------------

Registration == Register \/ Registered \/ RegDone \/ RegError \/ Watchdog

LinkCode ==
  \/ AskForCode \/ CloseExpired \/ CloseCode \/ Tick \/ SetClock
  \/ \E id \in asking : AnswerAsked(id)
  \/ \E c \in coming : ShowCode(c)
  \/ \E d \in Devices : Scan(d)

Group ==
  \/ OpenTab
  \/ \E id \in Ids, d \in Devices : Join(id, d)
  \/ \E j \in joining : JoinAnswered(j) \/ JoinDone(j)
  \/ \E m \in drawn.list : RemoveDevice(m)
  \/ \E f \in fetching : AnswerFetch(f) \/ Fetched(f)

Next == Populate \/ Registration \/ LinkCode \/ Group

\* Tk runs the timers and callbacks it was given.
Fairness == WF_vars(Populate) /\ WF_vars(Watchdog) /\ WF_vars(CloseExpired)

Spec == Init /\ [][Next]_vars
FairSpec == Spec /\ Fairness

-----------------------------------------------------------------------------
(* Properties *)

Codes == [id : Ids, age : 0..Delay, usable : BOOLEAN]
Shown == [id : Ids, age : 0..(Lifetime + 1), shown : 0..(Lifetime + 1),
          counting : BOOLEAN, setBack : BOOLEAN]
Joins == [id : Ids, with : Devices, answered : BOOLEAN]
Queries == [n : 1..MaxAsked, id : Ids, answered : BOOLEAN, found : SUBSET Members]

\* Every variable stays in its type (devices_page.py:107-111, linking.py:189-203).
TypeOK ==
  /\ deviceId \in 0..MaxIds /\ issued \in 0..MaxIds /\ threads \in 0..MaxIds
  /\ registering \in BOOLEAN /\ watchdog \in BOOLEAN /\ gaveUp \in BOOLEAN
  /\ ended \in Seq({"done", "error"})
  /\ drawn \in [form : BOOLEAN, link : BOOLEAN, list : SUBSET Members]
  /\ redraw \in BOOLEAN
  /\ asking \subseteq Ids /\ coming \subseteq Codes
  /\ code \in Shown \cup {NoCode}
  /\ group \in [Members -> SUBSET Members]
  /\ joining \subseteq Joins /\ fetching \subseteq Queries
  /\ linked \subseteq Members

\* "Prevent double-fire" (devices_page.py:431): as long as no watchdog has given a
\* registration up, two are never on their way at once.
OneAtATime ==
  ~gaveUp => threads <= 1

\* "The code stops being offered before it stops working" (linking.py:67-69): a code
\* whose countdown runs, on a clock that is not set back, is one the server remembers,
\* however late it came and whatever was shown before it.
OfferedCodeWorks ==
  code # NoCode => (code.counting /\ ~code.setBack => Remembered(code))

\* The identity and the list are written by threads behind the page's back, and "repopulate
\* UI" (devices_page.py:710) is left to a callback: a page that does not show what is set
\* is drawn again, by a call that is due or by the end of the registration.
PageKeepsUp ==
  drawn # Draw(deviceId, linked) => redraw \/ (\E k \in 1..Len(ended) : ended[k] = "done")

\* The watchdog's purpose (devices_page.py:451-457): the form is never locked for good,
\* whatever late answers of earlier registrations do to the guard and the timer.
FormUnlocks == registering ~> ~registering

\* "The window closing is the point.  A code left on screen after the server has
\* forgotten it is worse than no code" (devices_page.py:629-631).
DeadCodeIsClosed ==
  code # NoCode => (~code.setBack => Remembered(code))

\* "It's your identity across all devices" (devices_page.py:214): a device whose
\* registrations were all answered has one.
OneIdentity ==
  ~gaveUp => issued <= 1

\* "Fetch group member list from server, update config" (devices_page.py:710): nothing
\* takes a device out of a group, so that only the user takes one off the list.
ListOnlyGrows ==
  [][linked \subseteq linked' \/ \E m \in linked : RemoveDevice(m)]_vars

=============================================================================
