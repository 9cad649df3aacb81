---------------------------- MODULE LauncherProofs ----------------------------
(***************************************************************************)
(* For every set of launchers: a window opens only after a reader identified  *)
(* itself, and a live launcher's server serves its own window until that is    *)
(* closed.  The second is inductive with three facts about the waits: the       *)
(* server is asked to exit only on the way out, its identified answer keeps it   *)
(* on the port until then, and the wait for Chromium ends only after the         *)
(* process, which outlives the window it shows.  No launcher goes back to an      *)
(* earlier stage, and one that is gone holds no port.                             *)
(***************************************************************************)
EXTENDS Launcher, TLAPS

Session == {"display", "fallback", "wait_server", "native", "watch", "grace"}
WayOut  == {"box", "stop", "exit", "gone"}

Fresh(l) == pc[l] \in {"off", "probe", "identify", "start"} => thread[l] = "none"
Met(l) == pc[l] \in Session \/ window[l] # "none" => answered_by[l] \in Launchers
Asked(l) == should_exit[l] => pc[l] \in WayOut
Serves(l) == answered_by[l] = l /\ pc[l] \in Session => listener = l
Shown(l) ==
  host[l] = l =>
    /\ pc[l] \in {"watch", "grace", "stop", "exit", "gone"}
    /\ process[l] # "none"
    /\ process[l] = "exited" => window[l] = "closed"
Waited(l) == host[l] = l /\ pc[l] \in {"grace", "stop", "exit"} => process[l] = "exited"

Handed(l) ==
  host[l] # None =>
    /\ pc[l] \in {"watch", "grace", "stop", "exit", "gone"}
    /\ pc[l] = "grace" => graced[l]
    /\ pc[l] \in {"stop", "exit"} /\ slept[l] = 0 => graced[l]

IInv ==
  /\ TypeOK
  /\ \A l \in Launchers :
       Fresh(l) /\ Met(l) /\ Asked(l) /\ Serves(l) /\ Shown(l) /\ Waited(l) /\ Handed(l)

\* No launcher is None or Other.
LEMMA Distinct == \A l \in Launchers : l # None /\ l # Other
  BY LauncherAssumption

\* The initial states satisfy the strengthened invariant.
LEMMA InitOK == Init => IInv
  BY Distinct, LauncherAssumption
     DEF Init, IInv, TypeOK, Fresh, Met, Asked, Serves, Shown, Waited, Handed, Alive, Starting, Session, WayOut

\* Ending a server thread frees the port only if that thread listened on it.
LEMMA UnserveOK ==
  ASSUME TypeOK, NEW l \in Launchers, Unserve(l)
  PROVE  /\ thread' \in [Launchers -> {"none", "starting", "serving", "dead"}]
         /\ listener' \in Launchers \cup {None, Other}
         /\ \A k \in Launchers : listener' = k <=> thread'[k] = "serving"
         /\ \A k \in Launchers \ {l} : listener = k <=> listener' = k
         /\ \A k \in Launchers : thread[k] = "none" => thread'[k] = "none"
  BY Distinct DEF TypeOK, Unserve

USE DEF IInv, Fresh, Met, Asked, Serves, Shown, Waited, Handed, Alive, Starting, Session, WayOut,
        Goto, server_vars, display_vars, wait_vars

\* A main thread's steps keep the invariant.
LEMMA MainThreadOK ==
  ASSUME IInv, NEW l \in Launchers, MainThread(l)
  PROVE  IInv'
<1>1. CASE ProbePort(l)
  BY <1>1, Distinct DEF ProbePort, TypeOK
<1>2. CASE Identify(l)
  BY <1>2, Distinct DEF Identify, ReaderAnswers, TypeOK
<1>3. CASE StartServer(l)
  BY <1>3, Distinct DEF StartServer, TypeOK
<1>4. CASE AwaitHealth(l)
  <2>1. CASE Ready(l)
    BY <1>4, <2>1, Distinct DEF AwaitHealth, Ready, ReaderAnswers, TypeOK
  <2>2. CASE GiveUp(l) /\ pc[l] = "await"
    BY <1>4, <2>2, Distinct DEF AwaitHealth, GiveUp, TypeOK
  <2>3. CASE GiveUp(l) /\ pc[l] = "last_check"
    <3>1. TypeOK'
      BY <1>4, <2>3, Distinct DEF AwaitHealth, GiveUp, TypeOK
    <3>2. \A k \in Launchers : Fresh(k)' /\ Met(k)'
      BY <1>4, <2>3, Distinct DEF AwaitHealth, GiveUp, TypeOK
    <3>3. \A k \in Launchers : Asked(k)'
      BY <1>4, <2>3, Distinct DEF AwaitHealth, GiveUp, TypeOK
    <3>4. \A k \in Launchers : Serves(k)'
      BY <1>4, <2>3, Distinct DEF AwaitHealth, GiveUp, TypeOK
    <3>5. \A k \in Launchers : Shown(k)' /\ Waited(k)' /\ Handed(k)'
      BY <1>4, <2>3, Distinct DEF AwaitHealth, GiveUp, TypeOK
    <3> QED
      BY <3>1, <3>2, <3>3, <3>4, <3>5
  <2> QED
    BY <1>4, <2>1, <2>2, <2>3 DEF AwaitHealth
<1>5. CASE Display(l)
  BY <1>5, Distinct DEF Display, Opens, LaunchChrome, TypeOK
<1>6. CASE Fallback(l)
  BY <1>6, Distinct DEF Fallback, Opens, LaunchChrome, TypeOK
<1>7. CASE WaitServer(l)
  BY <1>7, Distinct DEF WaitServer, TypeOK
<1>8. CASE Watch(l)
  <2>1. CASE StillRunning(l)
    BY <1>8, <2>1, Distinct DEF Watch, StillRunning, TypeOK
  <2>2. CASE ~StillRunning(l) /\ AtFirstPoll(l)
    <3>1. /\ pc[l] = "watch" /\ process[l] # "running"
          /\ pc' = [pc EXCEPT ![l] = "grace"] /\ graced' = [graced EXCEPT ![l] = TRUE]
          /\ UNCHANGED <<mode, session, should_exit, thread, listener, answered_by, slept>>
          /\ UNCHANGED <<window, process, host>>
      BY <1>8, <2>2 DEF Watch, StillRunning
    <3>2. TypeOK'
      BY <3>1, Distinct DEF TypeOK
    <3>3. \A k \in Launchers : Fresh(k)' /\ Met(k)' /\ Asked(k)' /\ Serves(k)'
      BY <3>1, Distinct DEF TypeOK
    <3>4. \A k \in Launchers : Shown(k)' /\ Waited(k)' /\ Handed(k)'
      BY <3>1, Distinct DEF TypeOK
    <3> QED
      BY <3>2, <3>3, <3>4
  <2>3. CASE ~StillRunning(l) /\ ~AtFirstPoll(l)
    <3>1. TypeOK'
      BY <1>8, <2>3, Distinct DEF Watch, StillRunning, AtFirstPoll, TypeOK
    <3>2. \A k \in Launchers : Fresh(k)' /\ Met(k)' /\ Asked(k)' /\ Serves(k)'
      BY <1>8, <2>3, Distinct DEF Watch, StillRunning, AtFirstPoll, TypeOK
    <3>3. \A k \in Launchers : Shown(k)'
      BY <1>8, <2>3, Distinct DEF Watch, StillRunning, AtFirstPoll, TypeOK
    <3>4. \A k \in Launchers : Waited(k)' /\ Handed(k)'
      BY <1>8, <2>3, Distinct DEF Watch, StillRunning, AtFirstPoll, TypeOK
    <3> QED
      BY <3>1, <3>2, <3>3, <3>4
  <2> QED
    BY <2>1, <2>2, <2>3
<1>9. CASE EndGrace(l)
  BY <1>9, Distinct DEF EndGrace, TypeOK
<1>10. CASE NativeReturns(l)
  BY <1>10, Distinct DEF NativeReturns, TypeOK
<1>11. CASE Stop(l)
  BY <1>11, Distinct DEF Stop, TypeOK
<1>12. CASE Exit(l)
  BY <1>12, Distinct, UnserveOK DEF Exit, MayExit, TypeOK
<1> QED
  BY <1>1, <1>2, <1>3, <1>4, <1>5, <1>6, <1>7, <1>8, <1>9, <1>10, <1>11, <1>12 DEF MainThread

\* So do the server threads, staff, Chromium, a killed launcher and the other program.
LEMMA OthersOK ==
  ASSUME IInv, NEW l \in Launchers,
         \/ Launch(l) \/ Bind(l) \/ ServerEnds(l) \/ Interrupt(l) \/ Dismiss(l)
         \/ CloseWindow(l) \/ ChromeEnds(l) \/ Kill(l)
         \/ \E k \in Launchers : Delegate(l, k)
         \/ OtherProgram
  PROVE  IInv'
<1>1. CASE Launch(l)
  BY <1>1, Distinct DEF Launch, TypeOK
<1>2. CASE Bind(l)
  BY <1>2, Distinct DEF Bind, TakesThePort, TypeOK
<1>3. CASE ServerEnds(l)
  BY <1>3, Distinct, UnserveOK DEF ServerEnds, TypeOK
<1>4. CASE Interrupt(l)
  BY <1>4, Distinct DEF Interrupt, TypeOK
<1>5. CASE Dismiss(l)
  BY <1>5, Distinct DEF Dismiss, TypeOK
<1>6. CASE CloseWindow(l)
  BY <1>6, Distinct DEF CloseWindow, TypeOK
<1>7. CASE ChromeEnds(l)
  BY <1>7, Distinct DEF ChromeEnds, TypeOK
<1>8. CASE Kill(l)
  BY <1>8, Distinct, UnserveOK DEF Kill, TypeOK
<1>9. CASE \E k \in Launchers : Delegate(l, k)
  BY <1>9, Distinct DEF Delegate, TypeOK
<1>10. CASE OtherProgram
  BY <1>10, Distinct DEF OtherProgram, TypeOK
<1> QED
  BY <1>1, <1>2, <1>3, <1>4, <1>5, <1>6, <1>7, <1>8, <1>9, <1>10

\* Every step, stuttering included, keeps the invariant.
LEMMA StepOK == IInv /\ [Next]_vars => IInv'
<1> SUFFICES ASSUME IInv, [Next]_vars PROVE IInv'
  OBVIOUS
<1>1. CASE UNCHANGED vars
  BY <1>1 DEF vars, TypeOK
<1>2. CASE \E l \in Launchers : MainThread(l)
  BY <1>2, MainThreadOK
<1>3. CASE OtherProgram
  BY <1>3, Distinct DEF OtherProgram, TypeOK
<1>4. CASE Next /\ ~OtherProgram /\ ~(\E l \in Launchers : MainThread(l))
  BY <1>4, OthersOK DEF Next
<1> QED
  BY <1>1, <1>2, <1>3, <1>4

\* The strengthened invariant holds throughout.
THEOREM Inductive == Spec => []IInv
  BY InitOK, StepOK, PTL DEF Spec

\* Type correctness, and a launcher listens exactly when its server thread serves.
THEOREM TypeCorrect == Spec => []TypeOK
  BY Inductive, PTL

\* Windows open only after a reader identified itself.
THEOREM IdentityBeforeWindow == Spec => []OpensOnlyOnReader
<1>1. IInv => OpensOnlyOnReader
  BY DEF OpensOnlyOnReader
<1> QED
  BY <1>1, Inductive, PTL

\* A live launcher's server serves its own window until the window is closed.
THEOREM WindowKeepsItsServer == Spec => []OwnWindowStaysServed
<1>1. IInv => OwnWindowStaysServed
  BY DEF OwnWindowStaysServed, TypeOK
<1> QED
  BY <1>1, Inductive, PTL

\* A window handed over at once is not cut off without its grace period.
THEOREM HandedOverWindowGetsGrace == Spec => []DelegatedWindowGetsGrace
<1>1. IInv => DelegatedWindowGetsGrace
  BY DEF DelegatedWindowGetsGrace, TypeOK
<1> QED
  BY <1>1, Inductive, PTL
-----------------------------------------------------------------------------
(* What makes start-up and the way out end: main threads only move on, a window that is closed
   stays closed, and a process that is gone leaves the port and never takes it again. *)

\* The most stages a main thread still passes.
StagesLeft(step) ==
  CASE step = "off"        -> 12 [] step = "probe"                 -> 11
    [] step = "identify"   -> 10 [] step = "start"                 -> 10
    [] step = "await"      -> 9  [] step = "last_check"            -> 8
    [] step = "display"    -> 7  [] step = "fallback"              -> 6
    [] step \in {"wait_server", "native", "watch"} -> 5
    [] step = "grace"      -> 4  [] step = "box"                   -> 3
    [] step = "stop"       -> 2  [] step = "exit"                  -> 1
    [] OTHER               -> 0

LEMMA Stages ==
  /\ StagesLeft("off") = 12 /\ StagesLeft("probe") = 11 /\ StagesLeft("identify") = 10
  /\ StagesLeft("start") = 10 /\ StagesLeft("await") = 9 /\ StagesLeft("last_check") = 8
  /\ StagesLeft("display") = 7 /\ StagesLeft("fallback") = 6 /\ StagesLeft("wait_server") = 5
  /\ StagesLeft("native") = 5 /\ StagesLeft("watch") = 5 /\ StagesLeft("grace") = 4
  /\ StagesLeft("box") = 3 /\ StagesLeft("stop") = 2 /\ StagesLeft("exit") = 1
  /\ StagesLeft("gone") = 0
  BY DEF StagesLeft

HIDE DEF Goto, IInv, Fresh, Met, Asked, Serves, Shown, Waited, Handed, Session, WayOut

MovesOn(l) == pc'[l] = pc[l] \/ StagesLeft(pc'[l]) < StagesLeft(pc[l])
Unopened(l) == pc[l] \in Starting \cup {"off"} => window[l] = "none" /\ process[l] = "none"
Left(l) == pc[l] = "gone" => thread[l] \in {"none", "dead"}
Ending == \A l \in Launchers : Unopened(l) /\ Left(l)

StaysClosed(l) == window[l] = "closed" => window'[l] = "closed"
StaysOver(l) == process[l] = "exited" => process'[l] = "exited"

\* A launcher, and no other, goes to a later stage.
Moves(l) ==
  /\ StagesLeft(pc'[l]) < StagesLeft(pc[l])
  /\ \A k \in Launchers : k # l => pc'[k] = pc[k]

LEMMA Goes ==
  ASSUME TypeOK, NEW l \in Launchers, NEW step, Goto(l, step)
  PROVE  pc'[l] = step /\ \A k \in Launchers : k # l => pc'[k] = pc[k]
  BY DEF Goto, TypeOK

\* A main thread's step is one to a later stage, or the next poll of a wait.
LEMMA MainThreadMovesOn ==
  ASSUME TypeOK, NEW l \in Launchers, MainThread(l)
  PROVE  UNCHANGED pc \/ Moves(l)
<1>1. CASE ProbePort(l)
  BY <1>1, Goes, Stages DEF ProbePort, Moves
<1>2. CASE Identify(l)
  BY <1>2, Goes, Stages DEF Identify, Moves
<1>3. CASE StartServer(l)
  BY <1>3, Goes, Stages DEF StartServer, Moves
<1>4. CASE AwaitHealth(l)
  BY <1>4, Goes, Stages DEF AwaitHealth, Ready, GiveUp, Moves
<1>5. CASE Display(l)
  BY <1>5, Goes, Stages DEF Display, Opens, LaunchChrome, Moves
<1>6. CASE Fallback(l)
  BY <1>6, Goes, Stages DEF Fallback, Opens, LaunchChrome, Moves
<1>7. CASE WaitServer(l)
  BY <1>7, Goes, Stages DEF WaitServer, Moves
<1>8. CASE Watch(l)
  BY <1>8, Goes, Stages DEF Watch, Moves
<1>9. CASE EndGrace(l) \/ NativeReturns(l)
  BY <1>9, Goes, Stages DEF EndGrace, NativeReturns, Moves
<1>10. CASE Stop(l) \/ Exit(l)
  BY <1>10, Goes, Stages DEF Stop, Exit, Moves
<1> QED
  BY <1>1, <1>2, <1>3, <1>4, <1>5, <1>6, <1>7, <1>8, <1>9, <1>10 DEF MainThread

\* So is every other step, a kill among them, and of one launcher only.
LEMMA StepMovesOn ==
  ASSUME TypeOK, [Next]_vars
  PROVE  \A l \in Launchers : MovesOn(l)
<1>1. ASSUME NEW l \in Launchers, Moves(l)
      PROVE  \A k \in Launchers : MovesOn(k)
  BY <1>1 DEF Moves, MovesOn
<1>2. ASSUME NEW l \in Launchers, MainThread(l)
      PROVE  UNCHANGED pc \/ Moves(l)
  BY <1>2, MainThreadMovesOn
<1>3. ASSUME NEW l \in Launchers, Launch(l) \/ Interrupt(l) \/ Dismiss(l) \/ Kill(l)
      PROVE  Moves(l)
  <2>1. CASE Launch(l)
    BY <2>1, Goes, Stages DEF Launch, Moves
  <2>2. CASE Interrupt(l)
    BY <2>2, Goes, Stages DEF Interrupt, Moves
  <2>3. CASE Dismiss(l)
    BY <2>3, Goes, Stages DEF Dismiss, Moves
  <2>4. CASE Kill(l)
    <3>1. pc[l] \in Alive
      BY <2>4 DEF Kill, TypeOK
    <3>2. StagesLeft(pc[l]) > 0
      BY <3>1, Stages
    <3> QED
      BY <2>4, <3>2, Goes, Stages DEF Kill, Moves
  <2> QED
    BY <1>3, <2>1, <2>2, <2>3, <2>4
<1>4. ASSUME NEW l \in Launchers,
             \/ Bind(l) \/ ServerEnds(l) \/ CloseWindow(l) \/ ChromeEnds(l)
             \/ \E k \in Launchers : Delegate(l, k)
      PROVE  UNCHANGED pc
  BY <1>4 DEF Bind, ServerEnds, CloseWindow, ChromeEnds, Delegate
<1>5. OtherProgram \/ UNCHANGED vars => UNCHANGED pc
  BY DEF OtherProgram, vars
<1>6. UNCHANGED pc \/ \E l \in Launchers : Moves(l)
  BY <1>2, <1>3, <1>4, <1>5 DEF Next
<1> QED
  BY <1>1, <1>6 DEF MovesOn

\* A closed window, an ended process and a process that left stay as they are, whoever steps.
GoesOn ==
  /\ \A k \in Launchers : Unopened(k)' /\ Left(k)'
  /\ \A k \in Launchers : StaysClosed(k) /\ StaysOver(k)

LEMMA MainThreadGoesOn ==
  ASSUME TypeOK, Ending, NEW l \in Launchers, MainThread(l)
  PROVE  GoesOn
<1> USE DEF TypeOK, Ending, Unopened, Left, StaysClosed, StaysOver, GoesOn
<1>1. CASE ProbePort(l)
  BY <1>1, Goes DEF ProbePort
<1>2. CASE Identify(l)
  BY <1>2, Goes DEF Identify
<1>3. CASE StartServer(l)
  BY <1>3, Goes DEF StartServer
<1>4. CASE AwaitHealth(l)
  BY <1>4, Goes DEF AwaitHealth, Ready, GiveUp
<1>5. CASE Display(l)
  BY <1>5, Goes DEF Display, Opens, LaunchChrome
<1>6. CASE Fallback(l)
  BY <1>6, Goes DEF Fallback, Opens, LaunchChrome
<1>7. CASE WaitServer(l)
  BY <1>7, Goes DEF WaitServer
<1>8. CASE Watch(l)
  BY <1>8, Goes DEF Watch
<1>9. CASE EndGrace(l)
  BY <1>9, Goes DEF EndGrace
<1>10. CASE NativeReturns(l)
  BY <1>10, Goes DEF NativeReturns
<1>11. CASE Stop(l)
  BY <1>11, Goes DEF Stop
<1>12. CASE Exit(l)
  BY <1>12, Goes DEF Exit, Unserve
<1> QED
  BY <1>1, <1>2, <1>3, <1>4, <1>5, <1>6, <1>7, <1>8, <1>9, <1>10, <1>11, <1>12 DEF MainThread

LEMMA OthersGoOn ==
  ASSUME TypeOK, Ending, NEW l \in Launchers,
         \/ Launch(l) \/ Bind(l) \/ ServerEnds(l) \/ Interrupt(l) \/ Dismiss(l)
         \/ CloseWindow(l) \/ ChromeEnds(l) \/ Kill(l)
         \/ \E k \in Launchers : Delegate(l, k)
  PROVE  GoesOn
<1> USE DEF TypeOK, Ending, Unopened, Left, StaysClosed, StaysOver, GoesOn
<1>1. CASE Launch(l)
  BY <1>1, Goes DEF Launch
<1>2. CASE Bind(l)
  BY <1>2, Goes DEF Bind, TakesThePort
<1>3. CASE ServerEnds(l)
  BY <1>3, Goes DEF ServerEnds, Unserve
<1>4. CASE Interrupt(l)
  BY <1>4, Goes DEF Interrupt
<1>5. CASE Dismiss(l)
  BY <1>5, Goes DEF Dismiss
<1>6. CASE CloseWindow(l)
  BY <1>6, Goes DEF CloseWindow
<1>7. CASE ChromeEnds(l)
  BY <1>7, Goes DEF ChromeEnds
<1>8. CASE Kill(l)
  BY <1>8, Goes DEF Kill, Unserve
<1>9. CASE \E k \in Launchers : Delegate(l, k)
  BY <1>9 DEF Delegate
<1> QED
  BY <1>1, <1>2, <1>3, <1>4, <1>5, <1>6, <1>7, <1>8, <1>9

LEMMA EndingStep ==
  ASSUME TypeOK, Ending, [Next]_vars
  PROVE  Ending' /\ \A l \in Launchers : StaysClosed(l) /\ StaysOver(l)
<1>1. CASE OtherProgram \/ UNCHANGED vars
  BY <1>1 DEF OtherProgram, vars, Ending, Unopened, Left, StaysClosed, StaysOver
<1>2. CASE \E l \in Launchers : MainThread(l)
  BY <1>2, MainThreadGoesOn DEF GoesOn, Ending
<1>3. CASE Next /\ ~OtherProgram /\ ~(\E l \in Launchers : MainThread(l))
  BY <1>3, OthersGoOn DEF Next, GoesOn, Ending
<1> QED
  BY <1>1, <1>2, <1>3

LEMMA EndingInvariant == Spec => [](TypeOK /\ Ending)
<1>1. Init => Ending
  BY DEF Init, Ending, Unopened, Left
<1>2. TypeOK /\ Ending /\ [Next]_vars => Ending'
  BY EndingStep
<1> QED
  BY <1>1, <1>2, TypeCorrect, PTL DEF Spec

\* No launcher goes back: whatever the port, Chromium, staff and other launchers do, its main
\* thread passes each stage once (six of them at most during start-up), and a window that was closed
\* and a Chromium process that ended stay so.  The safety half of StartupEnds and
\* ClosedWindowEndsProcess.
THEOREM LaunchersOnlyMoveOn ==
  Spec => [][\A l \in Launchers : MovesOn(l) /\ StaysClosed(l) /\ StaysOver(l)]_vars
<1>1. TypeOK /\ Ending /\ [Next]_vars =>
        [\A l \in Launchers : MovesOn(l) /\ StaysClosed(l) /\ StaysOver(l)]_vars
  BY StepMovesOn, EndingStep
<1> QED
  BY <1>1, EndingInvariant, PTL DEF Spec

\* A launcher whose process is gone listens no more, even if its server never obeyed should_exit
\* (launch_reader.py:531-533, os._exit), and it never listens again.
THEOREM GoneFreesThePort == Spec => [](\A l \in Launchers : pc[l] = "gone" => listener # l)
<1>1. TypeOK /\ Ending => \A l \in Launchers : pc[l] = "gone" => listener # l
  BY DEF TypeOK, Ending, Left
<1> QED
  BY <1>1, EndingInvariant, PTL
=============================================================================
