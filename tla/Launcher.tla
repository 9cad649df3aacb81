------------------------------- MODULE Launcher -------------------------------
(***************************************************************************)
(* launch_reader.py: several copies of the desktop launcher on one machine    *)
(* and the one TCP port they share.  A launcher reuses the reader server that *)
(* answers on the port or runs one in a thread of its own, shows the page in  *)
(* a window, and stops the server it owns when the window is gone.  Timeouts  *)
(* are choices: a wait may end at any moment at which its deadline may pass.  *)
(***************************************************************************)
EXTENDS Naturals

CONSTANTS
  Launchers,
  Modes,     \* display modes: a subset of AllModes
  Faults,    \* what else happens: a subset of {"other", "kill"}
  None, Other

AllModes == {"server", "browser", "chrome-app", "webview", "webview-forced"}

ASSUME LauncherAssumption ==
  /\ None # Other
  /\ {None, Other} \cap Launchers = {}
  /\ Modes \subseteq AllModes
  /\ Faults \subseteq {"other", "kill"}

VARIABLES
  pc,          \* pc[l]: the next step of l's main thread
  mode,        \* mode[l]: display_mode(args)
  session,     \* session[l]: ServerSession, "none", "external" or "owned"
  should_exit, \* should_exit[l]: set on l's server by ServerSession.stop
  thread,      \* thread[l]: the server thread, "none", "starting", "serving" or "dead"
  listener,    \* who listens on the port: a launcher, Other or None
  answered_by, \* history: whose health document l last took for the reader's
  window,      \* window[l]: "none", "open" or "closed"
  process,     \* process[l]: the Chromium process l started, "none", "running", "exited"
  host,        \* host[l]: the launcher whose Chromium process shows l's window, or None
  slept,       \* sleeps of wait_for_chrome_app's first loop, 2 for more
  graced       \* history: it has granted the grace period

server_vars  == <<session, should_exit, thread, listener>>
display_vars == <<window, process, host>>
wait_vars    == <<slept, graced>>
vars == <<pc, mode, server_vars, answered_by, display_vars, wait_vars>>

Goto(l, step) == pc' = [pc EXCEPT ![l] = step]

Init ==
  /\ pc          = [l \in Launchers |-> "off"]
  /\ mode        \in [Launchers -> Modes]
  /\ session     = [l \in Launchers |-> "none"]
  /\ should_exit = [l \in Launchers |-> FALSE]
  /\ thread      = [l \in Launchers |-> "none"]
  /\ listener    \in {None} \cup (IF "other" \in Faults THEN {Other} ELSE {})
  /\ answered_by = [l \in Launchers |-> None]
  /\ window      = [l \in Launchers |-> "none"]
  /\ process     = [l \in Launchers |-> "none"]
  /\ host        = [l \in Launchers |-> None]
  /\ slept       = [l \in Launchers |-> 0]
  /\ graced      = [l \in Launchers |-> FALSE]
-----------------------------------------------------------------------------
(* main, as far as the session: inspect the port, reuse or start a server. *)

Launch(l) ==
  /\ pc[l] = "off"
  /\ Goto(l, "probe")
  /\ UNCHANGED <<mode, server_vars, answered_by, display_vars, wait_vars>>

\* port_is_open: connect_ex.
ProbePort(l) ==
  /\ pc[l] = "probe"
  /\ Goto(l, IF listener = None THEN "start" ELSE "identify")
  /\ UNCHANGED <<mode, server_vars, answered_by, display_vars, wait_vars>>

\* is_reader_health(read_health(url)) holds now; it says nothing of which reader answers.
AnswersAtAll == listener # None
ReaderAnswers == listener \in Launchers

\* inspect_existing_server; an answer later than a second is no answer.
Identify(l) ==
  /\ pc[l] = "identify"
  /\ \/ /\ ReaderAnswers
        /\ session' = [session EXCEPT ![l] = "external"]
        /\ answered_by' = [answered_by EXCEPT ![l] = listener]
        /\ Goto(l, "display")
     \/ /\ Goto(l, "box")
        /\ UNCHANGED <<session, answered_by>>
  /\ UNCHANGED <<mode, should_exit, thread, listener, display_vars, wait_vars>>

\* start_owned_server: server_factory, thread.start().
StartServer(l) ==
  /\ pc[l] = "start"
  /\ session' = [session EXCEPT ![l] = "owned"]
  /\ thread'  = [thread EXCEPT ![l] = "starting"]
  /\ Goto(l, "await")
  /\ UNCHANGED <<mode, should_exit, listener, answered_by, display_vars, wait_vars>>

Ready(l) ==
  /\ ReaderAnswers
  /\ answered_by' = [answered_by EXCEPT ![l] = listener]
  /\ Goto(l, "display")
  /\ UNCHANGED should_exit

\* wait_for_reader_health: poll until the deadline, then once more; start_owned_server
\* stops the session when it gave up.
WaitForEver(l) == pc[l] = "await" /\ UNCHANGED <<pc, should_exit, answered_by>>
GiveUp(l) ==
  /\ IF pc[l] = "await"
     THEN Goto(l, "last_check") /\ UNCHANGED should_exit
     ELSE Goto(l, "box") /\ should_exit' = [should_exit EXCEPT ![l] = TRUE]
  /\ UNCHANGED answered_by

AwaitHealth(l) ==
  /\ pc[l] \in {"await", "last_check"}
  /\ Ready(l) \/ GiveUp(l)
  /\ UNCHANGED <<mode, session, thread, listener, display_vars, wait_vars>>
-----------------------------------------------------------------------------
(* The server thread: uvicorn binds the port or its thread ends. *)

TakesThePort(l) ==
  \/ /\ listener = None
     /\ listener' = l
     /\ thread' = [thread EXCEPT ![l] = "serving"]
  \/ /\ listener # None
     /\ thread' = [thread EXCEPT ![l] = "dead"]
     /\ UNCHANGED listener

Bind(l) ==
  /\ thread[l] = "starting"
  /\ TakesThePort(l)
  /\ UNCHANGED <<pc, mode, session, should_exit, answered_by, display_vars, wait_vars>>

Unserve(l) ==
  /\ thread'   = [thread EXCEPT ![l] = IF @ = "none" THEN "none" ELSE "dead"]
  /\ listener' = IF listener = l THEN None ELSE listener

\* uvicorn notices should_exit.
ServerEnds(l) ==
  /\ thread[l] = "serving"
  /\ should_exit[l]
  /\ Unserve(l)
  /\ UNCHANGED <<pc, mode, session, should_exit, answered_by, display_vars, wait_vars>>
-----------------------------------------------------------------------------
(* The display modes. *)

Opens(l, step) ==
  /\ window' = [window EXCEPT ![l] = "open"]
  /\ Goto(l, step)

\* launch_chrome_app, or no Chromium is found or starts.
LaunchChrome(l) ==
  \/ /\ Opens(l, "watch")
     /\ process' = [process EXCEPT ![l] = "running"]
     /\ host'    = [host EXCEPT ![l] = l]
  \/ /\ Goto(l, "box")
     /\ UNCHANGED display_vars

Display(l) ==
  /\ pc[l] = "display"
  /\ \/ /\ mode[l] = "server"
        /\ Goto(l, "wait_server")
        /\ UNCHANGED display_vars
     \/ /\ mode[l] = "browser"
        /\ \/ Opens(l, "wait_server")
           \/ Goto(l, "box") /\ UNCHANGED window
        /\ UNCHANGED <<process, host>>
     \/ /\ mode[l] = "chrome-app"
        /\ LaunchChrome(l)
     \/ /\ mode[l] \in {"webview", "webview-forced"}
        /\ \/ Opens(l, "native")
           \/ /\ Goto(l, IF mode[l] = "webview" THEN "fallback" ELSE "box")
              /\ UNCHANGED window
        /\ UNCHANGED <<process, host>>
  /\ UNCHANGED <<mode, server_vars, answered_by, wait_vars>>

\* WebView2 did not start: Chromium app mode instead.
Fallback(l) ==
  /\ pc[l] = "fallback"
  /\ LaunchChrome(l)
  /\ UNCHANGED <<mode, server_vars, answered_by, wait_vars>>

\* wait_for_server: at once for an external session, else until the thread ends or Ctrl+C.
WaitServer(l) ==
  /\ pc[l] = "wait_server"
  /\ session[l] = "external" \/ thread[l] = "dead"
  /\ Goto(l, "stop")
  /\ UNCHANGED <<mode, server_vars, answered_by, display_vars, wait_vars>>

Interrupt(l) ==
  /\ pc[l] = "wait_server"
  /\ session[l] = "owned"
  /\ Goto(l, "stop")
  /\ UNCHANGED <<mode, server_vars, answered_by, display_vars, wait_vars>>

\* wait_for_chrome_app: after one sleep the time since the start is no longer below
\* poll_interval, so the grace period is for a process that was gone at the first poll.
NeverRunning(l) == FALSE
StillRunning(l) == process[l] = "running"
AfterASleep(l) == slept[l] = 1
AtFirstPoll(l) == slept[l] = 0

Watch(l) ==
  /\ pc[l] = "watch"
  /\ \/ /\ StillRunning(l)
        /\ slept' = [slept EXCEPT ![l] = IF @ < 2 THEN @ + 1 ELSE 2]
        /\ UNCHANGED <<pc, graced>>
     \/ /\ ~StillRunning(l) /\ AtFirstPoll(l)
        /\ graced' = [graced EXCEPT ![l] = TRUE]
        /\ Goto(l, "grace")
        /\ UNCHANGED slept
     \/ /\ ~StillRunning(l) /\ ~AtFirstPoll(l)
        /\ Goto(l, "stop")
        /\ UNCHANGED wait_vars
  /\ UNCHANGED <<mode, server_vars, answered_by, display_vars>>

EndGrace(l) ==
  /\ pc[l] = "grace"
  /\ Goto(l, "stop")
  /\ UNCHANGED <<mode, server_vars, answered_by, display_vars, wait_vars>>

\* webview.start returns once the window is closed; its closed event calls session.stop too.
NativeReturns(l) ==
  /\ pc[l] = "native"
  /\ window[l] = "closed"
  /\ Goto(l, "stop")
  /\ UNCHANGED <<mode, server_vars, answered_by, display_vars, wait_vars>>

\* show_error returns; every such path then stops the session.
Dismiss(l) ==
  /\ pc[l] = "box"
  /\ Goto(l, "stop")
  /\ UNCHANGED <<mode, server_vars, answered_by, display_vars, wait_vars>>
-----------------------------------------------------------------------------
(* The way out: ServerSession.stop, which waits for the thread 0.2 s at most, os._exit. *)

Stop(l) ==
  /\ pc[l] = "stop"
  /\ should_exit' = [should_exit EXCEPT ![l] = session[l] = "owned"]
  /\ Goto(l, "exit")
  /\ UNCHANGED <<mode, session, thread, listener, answered_by, display_vars, wait_vars>>

\* os._exit ends the server thread whatever it does; a plain return would wait for it.
JoinsTheServer(l) == thread[l] \in {"none", "dead"}
MayExit(l) == TRUE

Exit(l) ==
  /\ pc[l] = "exit"
  /\ MayExit(l)
  /\ Goto(l, "gone")
  /\ Unserve(l)
  /\ UNCHANGED <<mode, session, should_exit, answered_by, display_vars, wait_vars>>
-----------------------------------------------------------------------------
(* Staff, Chromium and the rest of the machine. *)

CloseWindow(l) ==
  /\ window[l] = "open"
  /\ window' = [window EXCEPT ![l] = "closed"]
  /\ UNCHANGED <<pc, mode, server_vars, answered_by, process, host, wait_vars>>

\* Chromium hands the window to a running process of the same profile, when it starts: while
\* the launcher is in its first sleep at the latest.
Delegate(l, k) ==
  /\ window[l] = "open"
  /\ host[l] = l /\ process[l] = "running"
  /\ \A j \in Launchers \ {l} : host[j] # l
  /\ k # l /\ process[k] = "running"
  /\ pc[l] = "watch" /\ slept[l] <= 1
  /\ process' = [process EXCEPT ![l] = "exited"]
  /\ host'    = [host EXCEPT ![l] = k]
  /\ UNCHANGED <<pc, mode, server_vars, answered_by, window, wait_vars>>

\* A Chromium process ends with the last window it shows.
ChromeEnds(l) ==
  /\ process[l] = "running"
  /\ \A k \in Launchers : host[k] = l => window[k] = "closed"
  /\ process' = [process EXCEPT ![l] = "exited"]
  /\ UNCHANGED <<pc, mode, server_vars, answered_by, window, host, wait_vars>>

OtherProgram ==
  /\ "other" \in Faults
  /\ \/ listener = None  /\ listener' = Other
     \/ listener = Other /\ listener' = None
  /\ UNCHANGED <<pc, mode, session, should_exit, thread, answered_by, display_vars, wait_vars>>

\* The launcher's process is killed; a native window goes with it.
Kill(l) ==
  /\ "kill" \in Faults
  /\ pc[l] \notin {"off", "gone"}
  /\ Goto(l, "gone")
  /\ Unserve(l)
  /\ window' = IF pc[l] = "native" THEN [window EXCEPT ![l] = "closed"] ELSE window
  /\ UNCHANGED <<mode, session, should_exit, answered_by, process, host, wait_vars>>

MainThread(l) ==
  \/ ProbePort(l) \/ Identify(l) \/ StartServer(l) \/ AwaitHealth(l) \/ Display(l)
  \/ Fallback(l) \/ WaitServer(l) \/ Watch(l) \/ EndGrace(l) \/ NativeReturns(l)
  \/ Stop(l) \/ Exit(l)

Next ==
  \/ \E l \in Launchers :
       \/ Launch(l) \/ MainThread(l) \/ Bind(l) \/ ServerEnds(l) \/ Interrupt(l)
       \/ Dismiss(l) \/ CloseWindow(l) \/ ChromeEnds(l) \/ Kill(l)
       \/ \E k \in Launchers : Delegate(l, k)
  \/ OtherProgram

Spec == Init /\ [][Next]_vars

(* Main threads and server start-up are scheduled; a Chromium process without a window  *)
(* ends.  A server need not obey should_exit, and nobody has to launch, dismiss a box or *)
(* close a window.                                                                       *)
Fairness == \A l \in Launchers :
  WF_vars(MainThread(l)) /\ WF_vars(Bind(l)) /\ WF_vars(ChromeEnds(l))

FairSpec == Spec /\ Fairness
-----------------------------------------------------------------------------
Starting == {"probe", "identify", "start", "await", "last_check", "display", "fallback"}
Alive    == Starting \cup {"wait_server", "watch", "grace", "native", "box", "stop", "exit"}

\* The state's types; a launcher listens exactly when its server thread serves.
TypeOK ==
  /\ pc \in [Launchers -> Alive \cup {"off", "gone"}]
  /\ mode \in [Launchers -> Modes]
  /\ session \in [Launchers -> {"none", "external", "owned"}]
  /\ should_exit \in [Launchers -> BOOLEAN]
  /\ thread \in [Launchers -> {"none", "starting", "serving", "dead"}]
  /\ listener \in Launchers \cup {None, Other}
  /\ answered_by \in [Launchers -> Launchers \cup {None, Other}]
  /\ window \in [Launchers -> {"none", "open", "closed"}]
  /\ process \in [Launchers -> {"none", "running", "exited"}]
  /\ host \in [Launchers -> Launchers \cup {None}]
  /\ slept \in [Launchers -> 0 .. 2]
  /\ graced \in [Launchers -> BOOLEAN]
  /\ \A l \in Launchers : listener = l <=> thread[l] = "serving"

\* A window opens, and "server ready" is printed, only after a reader identified itself on the
\* port, whoever takes and frees it meanwhile (inspect_existing_server "never trusting TCP
\* reachability alone").
OpensOnlyOnReader ==
  \A l \in Launchers :
    window[l] # "none" \/ pc[l] \in {"wait_server", "native", "watch", "grace"}
      => answered_by[l] \in Launchers

\* A server whose launcher lives serves its own window until that window is closed, whatever
\* other launchers start, reuse, close or delegate to its Chromium process.
OwnWindowStaysServed ==
  \A l \in Launchers :
    /\ window[l] = "open"
    /\ host[l] = l \/ pc[l] = "native"
    /\ answered_by[l] = l /\ pc[l] \in Alive
    => listener = l

\* Start-up ends, in a window, a wait or a message box, while the port changes hands.
StartupEnds == \A l \in Launchers : pc[l] \in Starting ~> pc[l] \notin Starting

\* Once the window is closed and no other window lives in its Chromium process, the launcher's
\* process ends and its port is free, even if the server ignores should_exit
\* (start_owned_server "the desktop process cannot remain hung after its only window").
ClosedWindowEndsProcess ==
  \A l \in Launchers :
    window[l] = "closed" /\ pc[l] \in {"native", "watch"}
      ~> \/ pc[l] = "gone" /\ listener # l
         \/ \E k \in Launchers \ {l} : host[k] = l /\ window[k] = "open"

\* A window that Chromium hands over at once is served while the launcher watches, and is cut
\* off only after the grace period, whatever other launchers do (docs/building.md:106-109: the
\* launcher "keeps its server alive for a short bounded grace period rather than stopping").
DelegatedWindowGetsGrace ==
  \A l \in Launchers :
    window[l] = "open" /\ host[l] \notin {None, l} /\ slept[l] = 0 =>
      \/ pc[l] \in {"watch", "grace"} /\ (answered_by[l] = l => listener = l)
      \/ graced[l]
      \/ pc[l] = "gone"
=============================================================================
