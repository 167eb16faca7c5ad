----------------------------- MODULE DesktopShell -----------------------------
(***************************************************************************)
(* The desktop shell (electron/main.js): the main process starts the       *)
(* gateway as a child, waits until something answers on its port, opens a  *)
(* window on it and keeps a tray icon.  Closing the window hides it; Quit  *)
(* ends the child first, with SIGTERM and, after five seconds, SIGKILL.    *)
(*                                                                         *)
(* Every handler of main.js runs to its end before the next; what is       *)
(* interleaved are the events: of the child, of the probing requests and   *)
(* their timers, of dialogs, windows, tray, and of the operating system.   *)
(* In development mode no child is started and another port is probed.     *)
(***************************************************************************)
EXTENDS Naturals, FiniteSets

CONSTANTS
  MaxRetries,   \* maxRetries of checkServerAvailability
  Nothing       \* no window; no exit code; no dialog

ASSUME RetriesAssumption == MaxRetries \in Nat \ {0}

VARIABLES
  dev,          \* NODE_ENV is development
  mac,          \* the platform is darwin, which sends `activate'
  occupied,     \* something else answers on the probed port
  phase,        \* app.whenReady: launched, starting, ready, failed (failedLate
                \* if the tray was there by then); exited
  server,       \* the child: none, spawned, listening, dead
  code,         \* the exit code of a `close' event that is due
  serverProcess,\* the variable serverProcess holds the child
  quitOnClose,  \* before-quit has added its own `close' listener
  killTimer,    \* the five-second timer of before-quit is running
  attempts,     \* currentAttempt
  waiting,      \* timers that will call tryConnect
  inFlight,     \* requests of tryConnect without an outcome
  crashDialog,  \* the dialog of a crash: open, then confirm after "view log"
  failDialog,   \* the dialog of a failed start
  isQuitting,   \* app.isQuitting
  windows,      \* windows that exist
  visible,      \* windows that are shown
  mainWindow,   \* the variable mainWindow
  early         \* history: `activate' opened a window before the start ended

env == <<dev, mac, occupied>>

child == <<server, code, serverProcess>>

quit == <<quitOnClose, killTimer>>

probe == <<attempts, waiting, inFlight>>

dialogs == <<crashDialog, failDialog>>

gui == <<windows, visible, mainWindow>>

shellVars == <<env, phase, child, quit, probe, dialogs, isQuitting, gui, early>>

\* At most two windows exist at a time: the one `activate' opens early and the
\* one the end of the start, or the tray, opens next to it.
WindowIds == {1, 2}

ASSUME NothingAssumption == Nothing \notin WindowIds

Codes == {"zero", "signal", "error"}

ShellInit ==
  /\ dev \in BOOLEAN /\ mac \in BOOLEAN /\ occupied \in BOOLEAN
  /\ phase = "launched"
  /\ server = "none" /\ code = Nothing /\ serverProcess = FALSE
  /\ quitOnClose = FALSE /\ killTimer = FALSE
  /\ attempts = 0 /\ waiting = 0 /\ inFlight = 0
  /\ crashDialog = Nothing /\ failDialog = Nothing
  /\ isQuitting = FALSE
  /\ windows = {} /\ visible = {} /\ mainWindow = Nothing
  /\ early = FALSE

Running == phase # "exited"

-----------------------------------------------------------------------------
(* Pieces the handlers share *)

createWindow ==
  \E w \in WindowIds \ windows :
    /\ windows' = windows \cup {w}
    /\ visible' = visible \cup {w}
    /\ mainWindow' = w

\* app.exit: nothing is asked, every window goes.
Exit ==
  /\ phase' = "exited"
  /\ windows' = {} /\ visible' = {} /\ mainWindow' = Nothing

\* A slip: nobody forgets a window that was closed.
CloseOfKeepsMain(w) ==
  IF isQuitting
  THEN windows' = windows \ {w} /\ visible' = visible \ {w} /\ UNCHANGED mainWindow
  ELSE visible' = visible \ {mainWindow} /\ UNCHANGED <<windows, mainWindow>>

\* The `close' and `closed' handlers of any window speak of mainWindow.
CloseOf(w) ==
  IF isQuitting
  THEN /\ windows' = windows \ {w}
       /\ visible' = visible \ {w}
       /\ mainWindow' = Nothing
  ELSE /\ visible' = visible \ {mainWindow}
       /\ UNCHANGED <<windows, mainWindow>>

\* A slip: before-quit relies on the `close' event alone.
QuitWithoutTimer ==
  IF serverProcess
  THEN quitOnClose' = TRUE /\ UNCHANGED <<killTimer, phase, gui>>
  ELSE Exit /\ UNCHANGED quit

\* app.quit: before-quit takes over while serverProcess is set; otherwise
\* Electron closes the windows, and one that stays calls the quit off.
Quit ==
  IF serverProcess
  THEN /\ quitOnClose' = TRUE
       /\ killTimer' = TRUE
       /\ UNCHANGED <<phase, gui>>
  ELSE /\ IF isQuitting' \/ windows = {}
          THEN Exit
          ELSE /\ visible' = visible \ {mainWindow}
               /\ UNCHANGED <<phase, windows, mainWindow>>
       /\ UNCHANGED quit

\* The promise of startServer settles once; later outcomes change nothing.
\* Either of createTray and createWindow may throw, which fails the start.
Resolve ==
  IF phase = "starting"
  THEN \/ /\ phase' = "ready"
          /\ createWindow
          /\ UNCHANGED failDialog
       \/ /\ phase' \in {"failed", "failedLate"}
          /\ failDialog' = "open"
          /\ UNCHANGED gui
  ELSE UNCHANGED <<phase, gui, failDialog>>

\* A slip: the failure is logged and nothing else.
RejectIgnored == UNCHANGED <<phase, failDialog, gui>>

Reject ==
  /\ IF phase = "starting"
     THEN phase' = "failed" /\ failDialog' = "open"
     ELSE UNCHANGED <<phase, failDialog>>
  /\ UNCHANGED gui

-----------------------------------------------------------------------------
(* Start *)

startServer ==
  /\ phase = "launched"
  /\ phase' = "starting"
  /\ IF dev THEN UNCHANGED <<server, serverProcess>>
            ELSE server' = "spawned" /\ serverProcess' = TRUE
  /\ attempts' = 1 /\ inFlight' = 1
  /\ UNCHANGED <<env, code, quit, waiting, dialogs, isQuitting, gui, early>>

\* A timer of checkServerAvailability.
tryConnect ==
  /\ Running /\ waiting > 0
  /\ waiting' = waiting - 1
  /\ attempts' = attempts + 1
  /\ inFlight' = inFlight + 1
  /\ UNCHANGED <<env, phase, child, quit, dialogs, isQuitting, gui, early>>

\* Whoever listens on the port has answered, with any status.
ProbeAnswered ==
  /\ Running /\ inFlight > 0
  /\ occupied \/ server = "listening"
  /\ inFlight' = inFlight - 1
  /\ Resolve
  /\ UNCHANGED <<env, child, quit, attempts, waiting, crashDialog, isQuitting, early>>

\* A slip: one probe more than maxRetries is scheduled.
RescheduledPastLimit(n) ==
  /\ inFlight' = inFlight - 1
  /\ IF attempts > MaxRetries
     THEN Reject /\ UNCHANGED waiting
     ELSE waiting' = waiting + n /\ UNCHANGED <<phase, failDialog, gui>>
  /\ UNCHANGED <<env, child, quit, attempts, crashDialog, isQuitting, early>>

\* The timers a failed request leaves behind.
Rescheduled(n) ==
  /\ inFlight' = inFlight - 1
  /\ IF attempts >= MaxRetries
     THEN Reject /\ UNCHANGED waiting
     ELSE waiting' = waiting + n /\ UNCHANGED <<phase, failDialog, gui>>
  /\ UNCHANGED <<env, child, quit, attempts, crashDialog, isQuitting, early>>

ProbeError ==
  /\ Running /\ inFlight > 0
  /\ Rescheduled(1)

\* A request that times out is destroyed, which raises `error' as well: both
\* handlers set a timer.
ProbeTimeout ==
  /\ Running /\ inFlight > 0
  /\ Rescheduled(2)

-----------------------------------------------------------------------------
(* The child *)

\* The binary cannot be started: `error', and `close' with a negative code.
SpawnError ==
  /\ Running /\ server = "spawned" /\ phase = "starting"
  /\ server' = "dead" /\ code' = "error"
  /\ Reject
  /\ UNCHANGED <<env, serverProcess, quit, probe, crashDialog, isQuitting, early>>

ServerListens ==
  /\ server = "spawned" /\ ~occupied
  /\ server' = "listening"
  /\ UNCHANGED <<env, phase, code, serverProcess, quit, probe, dialogs, isQuitting, gui, early>>

\* It exits, crashes, or is ended by a signal, asked for or not.
ServerDies(c) ==
  /\ Running /\ server \in {"spawned", "listening"}
  /\ server' = "dead" /\ code' = c
  /\ UNCHANGED <<env, phase, serverProcess, quit, probe, dialogs, isQuitting, gui, early>>

\* The `close' event: the listener of startServer shows the crash, or closes
\* the window after code 0 or a signal; then the one of before-quit exits.
ServerClose ==
  /\ Running /\ code # Nothing
  /\ code' = Nothing
  /\ crashDialog' = IF code = "error" THEN "open" ELSE crashDialog
  /\ IF quitOnClose
     THEN serverProcess' = FALSE /\ Exit
     ELSE /\ IF code # "error" /\ mainWindow # Nothing THEN CloseOf(mainWindow)
                                                    ELSE UNCHANGED gui
          /\ UNCHANGED <<serverProcess, phase>>
  /\ UNCHANGED <<env, server, quit, probe, failDialog, isQuitting, early>>

-----------------------------------------------------------------------------
(* Dialogs, windows, tray *)

\* "View log" writes and opens the log, then asks once more.
ViewLog(dialog) == dialog = "open" /\ dialog' = "confirm"

CrashViewLog ==
  /\ Running /\ ViewLog(crashDialog)
  /\ UNCHANGED <<env, phase, child, quit, probe, failDialog, isQuitting, gui, early>>

CrashExit ==
  /\ Running /\ crashDialog # Nothing
  /\ crashDialog' = Nothing
  /\ isQuitting' = TRUE
  /\ Quit
  /\ UNCHANGED <<env, child, probe, failDialog, early>>

FailViewLog ==
  /\ Running /\ ViewLog(failDialog)
  /\ UNCHANGED <<env, phase, child, quit, probe, crashDialog, isQuitting, gui, early>>

\* A failed start quits without setting isQuitting.
FailExit ==
  /\ Running /\ failDialog # Nothing
  /\ failDialog' = Nothing
  /\ UNCHANGED isQuitting
  /\ Quit
  /\ UNCHANGED <<env, child, probe, crashDialog, early>>

CloseWindow(w) ==
  /\ w \in visible
  /\ CloseOf(w)
  /\ UNCHANGED <<env, phase, child, quit, probe, dialogs, isQuitting, early>>

HasTray == phase \in {"ready", "failedLate"}

\* A slip: a hidden window counts as none.
TrayShowAnew(toggle) ==
  /\ HasTray
  /\ mainWindow \notin visible
  /\ createWindow
  /\ UNCHANGED <<env, phase, child, quit, probe, dialogs, isQuitting, early>>

\* "Show New API", and a click on the icon, which also hides.
TrayShow(toggle) ==
  /\ HasTray
  /\ IF mainWindow = Nothing
     THEN createWindow
     ELSE /\ visible' = IF toggle /\ mainWindow \in visible
                        THEN visible \ {mainWindow}
                        ELSE visible \cup {mainWindow}
          /\ UNCHANGED <<windows, mainWindow>>
  /\ UNCHANGED <<env, phase, child, quit, probe, dialogs, isQuitting, early>>

TrayQuit ==
  /\ HasTray
  /\ isQuitting' = TRUE
  /\ Quit
  /\ UNCHANGED <<env, child, probe, dialogs, early>>

\* The application menu, the dock or the end of the session.
SystemQuit ==
  /\ Running
  /\ UNCHANGED isQuitting
  /\ Quit
  /\ UNCHANGED <<env, child, probe, dialogs, early>>

\* A click in the dock makes a window when there is none, in any phase.
Activate ==
  /\ mac /\ Running /\ phase # "launched"
  /\ windows = {}
  /\ createWindow
  /\ early' = (early \/ phase = "starting")
  /\ UNCHANGED <<env, phase, child, quit, probe, dialogs, isQuitting>>

\* A slip: the application goes without ending the child.
KillTimerOnlyExits ==
  /\ Running /\ killTimer
  /\ Exit
  /\ UNCHANGED <<env, child, quit, probe, dialogs, isQuitting, early>>

\* The child has had five seconds.
KillTimer ==
  /\ Running /\ killTimer
  /\ server' = IF serverProcess THEN "dead" ELSE server
  /\ Exit
  /\ UNCHANGED <<env, code, serverProcess, quit, probe, dialogs, isQuitting, early>>

-----------------------------------------------------------------------------
Done == phase = "exited" /\ UNCHANGED shellVars

ShellNext ==
  \/ startServer \/ tryConnect \/ ProbeAnswered \/ ProbeError \/ ProbeTimeout
  \/ SpawnError \/ ServerListens \/ \E c \in Codes : ServerDies(c)
  \/ ServerClose
  \/ CrashViewLog \/ CrashExit \/ FailViewLog \/ FailExit
  \/ \E w \in WindowIds : CloseWindow(w)
  \/ \E toggle \in BOOLEAN : TrayShow(toggle)
  \/ TrayQuit \/ SystemQuit \/ Activate
  \/ KillTimer
  \/ Done

ShellSpec == ShellInit /\ [][ShellNext]_shellVars

\* Timers fire, every probe has an outcome within its timeout, events are
\* delivered.  Nothing is assumed of the child or of the user.
FairShellSpec ==
  /\ ShellSpec
  /\ WF_shellVars(startServer)
  /\ WF_shellVars(tryConnect)
  /\ WF_shellVars(ProbeAnswered \/ ProbeError \/ ProbeTimeout)
  /\ WF_shellVars(ServerClose)
  /\ WF_shellVars(KillTimer)

-----------------------------------------------------------------------------
(* Properties *)

\* Type correctness of the shell's state.
ShellTypeOK ==
  /\ phase \in {"launched", "starting", "ready", "failed", "failedLate", "exited"}
  /\ server \in {"none", "spawned", "listening", "dead"}
  /\ code \in Codes \cup {Nothing}
  /\ {serverProcess, quitOnClose, killTimer, isQuitting, early} \subseteq BOOLEAN
  /\ {attempts, waiting, inFlight} \subseteq Nat
  /\ {crashDialog, failDialog} \subseteq {Nothing, "open", "confirm"}
  /\ windows \subseteq WindowIds /\ visible \subseteq windows
  /\ mainWindow \in windows \cup {Nothing}

\* Whichever way the application ends (a quit at any moment, a failed start,
\* a crash of the child, a child that ignores SIGTERM), it leaves no child
\* behind that would keep the port and the database.
NoOrphan == phase = "exited" => server \in {"none", "dead"}

\* Each probe that times out sets two timers, so that more than maxRetries
\* probes are made, but fewer than twice as many, also after the promise has
\* settled; no probe is lost either: while the start is undecided one is due.
ProbesBounded ==
  /\ attempts < 2 * MaxRetries
  /\ phase = "starting" => waiting + inFlight > 0

\* Unless a window was opened while the gateway was starting, there is at
\* most one, the handlers that speak of mainWindow speak of it, and the tray
\* never opens a second.
OneWindow == ~early => windows \subseteq {mainWindow}

\* A start ends: with a window, a dialog, or the end of the application.
StartEnds == (phase = "starting") ~> (phase # "starting")

\* A quit that was asked for through the tray or a crash, and every quit that
\* reached the child, ends the application, however the child behaves, and
\* even when it was dead before and sends no `close' any more.
QuitEnds == (isQuitting \/ killTimer) ~> (phase = "exited")

=============================================================================
