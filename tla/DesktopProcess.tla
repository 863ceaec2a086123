--------------------------- MODULE DesktopProcess ---------------------------
(***************************************************************************)
(* The desktop process (main.py) from its start to its end: the Tk thread, *)
(* the worker threads it starts and has to stop, and the icon in the       *)
(* notification area with the thread that owns it (core/tray.py).          *)
(*                                                                         *)
(* A worker that has something to show calls root.after(), which waits for *)
(* the Tk thread to be back in its main loop; the Tk thread, quitting,     *)
(* waits for the workers.  Every call of the shutdown can fail.            *)
(***************************************************************************)
EXTENDS Naturals, Sequences, FiniteSets

MonitorThreads == {"monitor", "killer"}
SyncThreads == {"sync"}
Workers == MonitorThreads \cup SyncThreads

\* do_quit(), and what follows mainloop().
QuitCalls == <<"stop monitor", "stop sync", "close database", "destroy window">>
CleanupCalls == <<"stop monitor", "close database">>
CleanupWithTray_NoTray == <<"stop monitor", "close database">>  \* Fault: stop() is forgotten.
CleanupWithTray == <<"stop monitor", "close database", "stop tray">>

\* The step of run() at which the icon's thread is.
TraySteps == {"unavailable", "ready", "entering", "adding", "pumping", "over"}

VARIABLES
  phase,    \* "ended", "gate" (consent dialog), "running", "cleanup"
  todo,     \* the calls the Tk thread has still to make; <<>> in the main loop
  joining,  \* the workers it waits for, in order
  window,   \* "none", "shown", "hidden", "destroyed"
  db,       \* the connection: "closed" or "open"
  quit,     \* the end was asked for, and root.destroy() has not failed since
  at,       \* each worker: "none", "idle", "working", "calling", "ended"
  stop,     \* the workers whose stop event is set
  waived,   \* history: workers that were not stopped, or not waited for to the end
  tray,     \* a step of TraySteps
  started,  \* tray_started
  icon,     \* the shell shows the icon
  added,    \* _added
  left,     \* history: the icon could not be removed, or stop() came before _added
  stopping, \* _stopping
  click     \* what the icon's thread wants of the Tk thread: "nothing", "show", "quit"

shutdown == <<phase, todo, joining, window, db, quit, waived>>
workers == <<at, stop>>
notifyArea == <<tray, started, icon, added, left, stopping, click>>
process == <<shutdown, workers, notifyArea>>

NoIcon == tray' = "unavailable" /\ started' = FALSE /\ icon' = FALSE
          /\ added' = FALSE /\ left' = FALSE /\ stopping' = FALSE /\ click' = "nothing"

ProcessInit ==
  /\ phase = "ended" /\ todo = <<>> /\ joining = <<>> /\ window = "none"
  /\ db = "closed" /\ quit = FALSE /\ waived = {}
  /\ at = [w \in Workers |-> "none"] /\ stop = {}
  /\ tray = "unavailable" /\ started = FALSE /\ icon = FALSE
  /\ added = FALSE /\ left = FALSE /\ stopping = FALSE /\ click = "nothing"

\* The Tk thread is in mainloop(), between two callbacks.
InLoop == phase = "running" /\ todo = <<>> /\ joining = <<>> /\ window # "destroyed"

\* Fault: the workers are no daemons.
Exit_KeepsWorkers ==
  /\ phase' = "ended" /\ todo' = <<>> /\ joining' = <<>> /\ window' = "none"
  /\ db' = "closed" /\ quit' = FALSE /\ waived' = {}
  /\ UNCHANGED <<workers, notifyArea>>

\* The process is gone, with the threads it had; the icon is the shell's.
Exit ==
  /\ phase' = "ended" /\ todo' = <<>> /\ joining' = <<>> /\ window' = "none"
  /\ db' = "closed" /\ quit' = FALSE /\ waived' = {}
  /\ at' = [w \in Workers |-> "none"] /\ stop' = {}
  /\ tray' = "unavailable" /\ started' = FALSE /\ added' = FALSE
  /\ stopping' = FALSE /\ click' = "nothing"
  /\ UNCHANGED <<icon, left>>

-----------------------------------------------------------------------------
(* The start *)

OpenDatabase ==
  /\ phase = "ended"
  /\ phase' = "gate" /\ db' = "open"
  /\ NoIcon
  /\ UNCHANGED <<todo, joining, window, quit, waived, workers>>

\* Consent is declined: sys.exit(0).
Decline ==
  /\ phase = "gate"
  /\ Exit

\* Consent is there, or given: the workers start, then the window; the icon can be
\* made, or not.
Enter ==
  /\ phase = "gate"
  /\ phase' = "running" /\ window' = "shown"
  /\ at' = [w \in Workers |-> "idle"] /\ stop' = {}
  /\ tray' \in {"unavailable", "ready"}
  /\ UNCHANGED <<todo, joining, db, quit, waived, started, icon, added, left,
                 stopping, click>>

-----------------------------------------------------------------------------
(* The Tk thread *)

\* Fault: the database is closed before its users are stopped.
DoQuit_DatabaseFirst ==
  /\ todo' = <<"close database", "stop monitor", "stop sync", "destroy window">>
  /\ quit' = TRUE

\* do_quit()
DoQuit ==
  /\ todo' = QuitCalls
  /\ quit' = TRUE

\* The Quit button; _on_quit().
PressQuit ==
  /\ InLoop /\ window = "shown"
  /\ DoQuit
  /\ UNCHANGED <<phase, joining, window, db, waived, workers, notifyArea>>

\* _withdraw_consent() stops the monitor in the same way.
WithdrawConsent ==
  /\ InLoop /\ window = "shown"
  /\ todo' = <<"stop monitor">>
  /\ UNCHANGED <<phase, joining, window, db, quit, waived, workers, notifyArea>>

\* on_close(): the window is hidden, and the icon's thread started the first time.
CloseWindow ==
  /\ InLoop /\ window = "shown"
  /\ window' = "hidden"
  /\ IF ~started /\ tray # "unavailable"
       THEN started' = TRUE /\ tray' = "entering"
       ELSE UNCHANGED <<started, tray>>
  /\ UNCHANGED <<phase, todo, joining, db, quit, waived, workers, icon, added,
                 left, stopping, click>>

\* The window is destroyed from outside, "OS-level close": nobody stops the sync.
DestroyedOutside ==
  /\ InLoop
  /\ window' = "destroyed" /\ waived' = waived \cup {"sync"} /\ quit' = TRUE
  /\ UNCHANGED <<phase, todo, joining, db, workers, notifyArea>>

\* What the icon's thread asked for reaches the Tk thread.
TakeClick ==
  /\ InLoop /\ click # "nothing"
  /\ click' = "nothing"
  /\ \/ /\ click = "show"
        /\ window' = "shown"
        /\ UNCHANGED <<todo, quit>>
     \/ /\ click = "quit"
        /\ DoQuit
        /\ UNCHANGED window
  /\ UNCHANGED <<phase, joining, db, waived, workers, tray, started, icon, added,
                 left, stopping>>

\* root.after() of a worker: the toast for an application that was closed.
TakeCall(w) ==
  /\ InLoop /\ at[w] = "calling"
  /\ at' = [at EXCEPT ![w] = "working"]
  /\ UNCHANGED <<shutdown, stop, notifyArea>>

Step(call) == joining = <<>> /\ todo # <<>> /\ todo[1] = call

\* Monitor.stop()
StopMonitor ==
  /\ Step("stop monitor")
  /\ todo' = Tail(todo) /\ joining' = <<"monitor", "killer">>
  /\ stop' = stop \cup MonitorThreads
  /\ UNCHANGED <<phase, window, db, quit, waived, at, notifyArea>>

\* SyncClient.stop()
StopSync ==
  /\ Step("stop sync")
  /\ todo' = Tail(todo) /\ joining' = <<"sync">>
  /\ stop' = stop \cup {"sync"}
  /\ UNCHANGED <<phase, window, db, quit, waived, at, notifyArea>>

\* join(timeout) returns: the thread has ended, or the time is up.
Joined ==
  /\ joining # <<>>
  /\ joining' = Tail(joining)
  /\ waived' = IF at[joining[1]] \in {"none", "ended"}
                 THEN waived ELSE waived \cup {joining[1]}
  /\ UNCHANGED <<phase, todo, window, db, quit, workers, notifyArea>>

CloseDatabase ==
  /\ Step("close database")
  /\ todo' = Tail(todo) /\ db' = "closed"
  /\ UNCHANGED <<phase, joining, window, quit, waived, workers, notifyArea>>

DestroyWindow ==
  /\ Step("destroy window")
  /\ todo' = Tail(todo) /\ window' = "destroyed"
  /\ UNCHANGED <<phase, joining, db, quit, waived, workers, notifyArea>>

\* _remove_icon(), which does not look at what Shell_NotifyIcon answers.
RemoveIcon ==
  /\ icon' \in {icon, icon /\ ~added}
  /\ added' = FALSE

\* stop() of the icon; it finds nothing to remove before the thread has set _added.
StopTray ==
  /\ Step("stop tray")
  /\ todo' = Tail(todo) /\ stopping' = TRUE
  /\ RemoveIcon
  /\ left' = (left \/ icon' \/ tray \in {"entering", "adding"})
  /\ UNCHANGED <<phase, joining, window, db, quit, waived, workers, tray, started, click>>

\* Fault: what is left of the shutdown goes with the call that raises.
CallFails_Strands ==
  /\ joining = <<>> /\ todo # <<>>
  /\ todo' = <<>>
  /\ waived' = waived \cup Workers
  /\ UNCHANGED <<phase, joining, window, db, quit, workers, notifyArea>>

\* A call raises; it is logged, and the next one is made.
CallFails ==
  /\ joining = <<>> /\ todo # <<>>
  /\ todo' = Tail(todo)
  /\ waived' = waived \cup (CASE todo[1] = "stop monitor" -> MonitorThreads
                              [] todo[1] = "stop sync" -> {"sync"}
                              [] OTHER -> {})
  /\ quit' = (quit /\ todo[1] # "destroy window")
  /\ left' = (left \/ todo[1] = "stop tray")
  /\ UNCHANGED <<phase, joining, window, db, workers, tray, started, icon, added,
                 stopping, click>>

\* mainloop() returns.
LeaveLoop ==
  /\ phase = "running" /\ window = "destroyed" /\ todo = <<>> /\ joining = <<>>
  /\ phase' = "cleanup"
  /\ todo' = IF tray = "unavailable" THEN CleanupCalls ELSE CleanupWithTray
  /\ UNCHANGED <<joining, window, db, quit, waived, workers, notifyArea>>

\* main() returns; the other threads are daemons.
ReturnFromMain ==
  /\ phase = "cleanup" /\ todo = <<>> /\ joining = <<>>
  /\ Exit

-----------------------------------------------------------------------------
(* A worker *)

Work(w) ==
  /\ at[w] = "idle" /\ w \notin stop
  /\ at' = [at EXCEPT ![w] = "working"]
  /\ UNCHANGED <<shutdown, stop, notifyArea>>

\* The monitor's threads report what they closed, in the midst of their work.
Call(w) ==
  /\ w \in MonitorThreads
  /\ at[w] = "working" /\ window # "destroyed"
  /\ at' = [at EXCEPT ![w] = "calling"]
  /\ UNCHANGED <<shutdown, stop, notifyArea>>

Rest(w) ==
  /\ at[w] = "working"
  /\ at' = [at EXCEPT ![w] = "idle"]
  /\ UNCHANGED <<shutdown, stop, notifyArea>>

EndWorker(w) ==
  /\ at[w] = "idle" /\ w \in stop
  /\ at' = [at EXCEPT ![w] = "ended"]
  /\ UNCHANGED <<shutdown, stop, notifyArea>>

-----------------------------------------------------------------------------
(* The icon's thread *)

\* Shell_NotifyIcon adds the icon; _added is set after it.
AddIcon ==
  /\ tray = "entering"
  /\ tray' = "adding" /\ icon' = TRUE
  /\ UNCHANGED <<shutdown, workers, started, added, left, stopping, click>>

\* The window or the icon cannot be made: OSError ends the thread.
AddFails ==
  /\ tray = "entering"
  /\ tray' = "over"
  /\ UNCHANGED <<shutdown, workers, started, icon, added, left, stopping, click>>

BeginPumping ==
  /\ tray = "adding"
  /\ added' = TRUE /\ tray' = "pumping"
  /\ UNCHANGED <<shutdown, workers, started, icon, left, stopping, click>>

\* stop(), WM_QUIT or an error of GetMessage: the loop ends, then _remove_icon().
EndPumping ==
  /\ tray = "pumping" /\ click = "nothing"
  /\ tray' = "over"
  /\ RemoveIcon
  /\ left' = icon'
  /\ UNCHANGED <<shutdown, workers, started, stopping, click>>

\* A click on the icon, or a choice in its menu.
Click(wish) ==
  /\ tray = "pumping" /\ click = "nothing" /\ icon /\ ~stopping
  /\ click' = wish
  /\ UNCHANGED <<shutdown, workers, tray, started, icon, added, left, stopping>>

-----------------------------------------------------------------------------

Shutdown ==
  \/ StopMonitor \/ StopSync \/ Joined \/ CloseDatabase \/ DestroyWindow
  \/ StopTray \/ CallFails \/ LeaveLoop \/ ReturnFromMain

User ==
  \/ OpenDatabase \/ Decline \/ Enter
  \/ PressQuit \/ WithdrawConsent \/ CloseWindow \/ DestroyedOutside
  \/ Click("show") \/ Click("quit")

Worker(w) == TakeCall(w) \/ Work(w) \/ Call(w) \/ Rest(w) \/ EndWorker(w)

Icon == AddIcon \/ AddFails \/ BeginPumping \/ EndPumping

ProcessNext == TakeClick \/ Shutdown \/ User \/ Icon \/ \E w \in Workers : Worker(w)

\* The Tk thread goes on with what it does and takes its events in turn, whatever
\* else the user gives it to do; a time-out comes about; work ends.
Fairness ==
  /\ WF_process(Shutdown)
  /\ SF_process(TakeClick)
  /\ \A w \in Workers : SF_process(TakeCall(w)) /\ WF_process(Rest(w)) /\ WF_process(EndWorker(w))

FairSpec == ProcessInit /\ [][ProcessNext]_process /\ Fairness

-----------------------------------------------------------------------------
(* Properties *)

\* What can be left of the calls of do_quit(), of the cleanup and of a withdrawal.
LeftToDo ==
  {<<>>, <<"stop monitor">>,
   QuitCalls, <<"stop sync", "close database", "destroy window">>,
   <<"close database", "destroy window">>, <<"destroy window">>,
   CleanupWithTray, <<"close database", "stop tray">>, <<"stop tray">>,
   CleanupCalls, <<"close database">>}

\* ... and of the joins of a stop().
LeftToJoin == {<<>>, <<"monitor", "killer">>, <<"killer">>, <<"sync">>}

\* Every variable stays in its type; a worker runs only in a process.
ProcessTypeOK ==
  /\ phase \in {"ended", "gate", "running", "cleanup"}
  /\ todo \in LeftToDo
  /\ joining \in LeftToJoin
  /\ window \in {"none", "shown", "hidden", "destroyed"}
  /\ db \in {"open", "closed"} /\ quit \in BOOLEAN
  /\ at \in [Workers -> {"none", "idle", "working", "calling", "ended"}]
  /\ stop \subseteq Workers /\ waived \subseteq Workers
  /\ tray \in TraySteps /\ started \in BOOLEAN /\ icon \in BOOLEAN
  /\ added \in BOOLEAN /\ left \in BOOLEAN /\ stopping \in BOOLEAN
  /\ click \in {"nothing", "show", "quit"}
  /\ phase \in {"ended", "gate"} <=> \A w \in Workers : at[w] = "none"

\* do_quit() stops the workers, and waits for them, before it closes the database
\* (main.py:146-148): no worker is at work on a closed connection, except one that
\* could not be stopped, that outlasted its join() or, where the window was
\* destroyed from outside, the sync.
ClosedAfterUse ==
  phase # "ended" /\ db = "closed" =>
    \A w \in Workers : at[w] \in {"working", "calling"} => w \in waived

\* Every way out of main() stops the icon (main.py:211-221), and stop() and the loop
\* both remove it (tray.py:246-271): an icon without its thread, or without the
\* process, is one that Shell_NotifyIcon would not remove, or whose stop() failed or
\* came while the thread was still adding it (tray.py:234-236).
IconIsOwned ==
  icon => left \/ (phase # "ended" /\ (added \/ tray = "adding"))

\* "One failing must not strand the others and leave the process alive"
\* (main.py:144-145): once the end is asked for it comes, although the workers may
\* be waiting for the Tk thread that waits for them, and whatever else fails; only
\* a root.destroy() that fails leaves the window open.
QuitEnds ==
  quit ~> ~quit

=============================================================================
