----------------------------- MODULE SecondWindow -----------------------------
(***************************************************************************)
(* The second window (app_monitor.go, internal/monitorlink/link.go): a     *)
(* process of its own that the application launches, feeds over a pipe,    *)
(* follows to its exit, and ends by closing that pipe.  A launch has a     *)
(* number, monGen, and by it a Host, a child and a goroutine that follows  *)
(* it (runMonitor).  What travels is only counted.                         *)
(***************************************************************************)
EXTENDS Naturals, FiniteSetsExt

CONSTANTS
  Pressers,     \* goroutines that call RestartMonitor, RefreshMonitorPicture or load the page
  Shutdown,     \* the one that shuts the application down
  WinBudgets,   \* bounds: how often somebody acts, something goes wrong, an
                \* event is relayed, and whether the application may be shut down
  RelaunchMax,  \* monitorRelaunchMax
  QueueDepth,   \* sendQueue
  PipeRoom      \* frames the child's stdin holds before a write blocks

\* Enough for the window that is opened, for each call and for each crash.
MaxLaunches == Max({1 + b.presses + b.troubles : b \in WinBudgets})
Launches == 1..MaxLaunches

\* Start's own Kill, when the child is not ready in time, acts as the launch does.
Follower(g) == <<"run", g>>
Actors == Pressers \cup {Shutdown} \cup {Follower(g) : g \in Launches}

ASSUME WindowAssumption ==
  /\ Shutdown \notin Pressers /\ RelaunchMax \in Nat
  /\ \A g \in Launches : Follower(g) \notin Pressers \cup {Shutdown}
  /\ WinBudgets # {} /\ IsFiniteSet(WinBudgets)
  /\ WinBudgets \subseteq [presses : Nat, troubles : Nat, sends : Nat, quits : BOOLEAN]
  /\ QueueDepth \in Nat \ {0} /\ PipeRoom \in Nat \ {0}

VARIABLES
  gen,         \* monGen, and mon: the Host of that launch, none before the first
  process,     \* monProcess
  stopping,    \* monStopping
  kvs,         \* monKVS: none (0), or whose child reported it
  relaunches,  \* monRelaunches, those within monitorRelaunchWindow
  ending,     \* closing, then rootJoined, then the application is gone
  run,         \* where runMonitor of each launch is
  host,        \* the Host of each launch
  child,       \* its process
  act,         \* who is in Stop or Kill of which Host, and where
  left         \* of the budget

winVars == <<gen, process, stopping, kvs, relaunches, ending, run, host, child, act, left>>

NewHost == [told |-> FALSE,      \* ctx is cancelled: the writer is to end
            marked |-> FALSE,    \* closed: somebody is closing stdin, or has
            stdin |-> "none", writer |-> "none", out |-> 0, piped |-> 0,
            ready |-> FALSE, done |-> FALSE, once |-> "free"]
NoChild == [is |-> "none", code |-> "none", said |-> FALSE]
Idle == [at |-> "idle", on |-> 0]

Alive(g)  == child[g].is \in {"booting", "up", "frozen", "leaving"}
Exited(g) == host[g].done

WinTypeOK ==
  /\ gen \in 0..MaxLaunches /\ kvs \in 0..MaxLaunches
  /\ process \in {"starting", "running", "closed", "failed"}
  /\ stopping \in BOOLEAN /\ relaunches \in 0..RelaunchMax
  /\ ending \in {"no", "closing", "joined", "gone"}
  /\ run \in [Launches -> {"none", "made", "never", "starting", "waiting", "killing", "failed",
                           "up", "following", "asleep", "over"}]
  /\ host \in [Launches -> [told : BOOLEAN, marked : BOOLEAN, stdin : {"none", "open", "closed"},
                            writer : {"none", "idle", "writing", "done"}, out : 0..QueueDepth,
                            piped : 0..PipeRoom, ready : BOOLEAN, done : BOOLEAN,
                            once : {"free", "held", "done"}]]
  /\ child \in [Launches -> [is : {"none", "booting", "up", "frozen", "leaving", "gone"},
                             code : {"none", "clean", "crash", "killed"}, said : BOOLEAN]]
  /\ act \in [Actors -> [at : {"idle", "begin", "once", "writer", "grace", "kill", "killWriter",
                               "killReap", "reap", "launch", "over"},
                         on : 0..MaxLaunches]]
  /\ left \in [presses : Nat, troubles : Nat, sends : Nat, quits : BOOLEAN]

WinInit ==
  /\ gen = 0 /\ process = "closed" /\ stopping = FALSE /\ kvs = 0 /\ relaunches = 0
  /\ ending = "no" /\ left \in WinBudgets
  /\ run = [g \in Launches |-> "none"]
  /\ host = [g \in Launches |-> NewHost]
  /\ child = [g \in Launches |-> NoChild]
  /\ act = [a \in Actors |-> Idle]

Here == ending # "gone"
-----------------------------------------------------------------------------
(* Launching.                                                              *)

\* Mutant: whether there is a window already is not asked.
LaunchMonitorUnchecked ==
  IF ending # "no" THEN UNCHANGED <<gen, process, stopping, kvs>>
  ELSE /\ gen' = gen + 1
       /\ process' = "starting" /\ stopping' = FALSE /\ kvs' = 0

\* What launchMonitor does under monMu; its callers say the rest.
LaunchMonitor ==
  IF ending # "no" \/ (gen # 0 /\ ~Exited(gen))
  THEN UNCHANGED <<gen, process, stopping, kvs>>
  ELSE /\ gen' = gen + 1
       /\ process' = "starting" /\ stopping' = FALSE /\ kvs' = 0

\* The goroutine of the launch is to be started next.
Made == IF gen' = gen THEN run ELSE [run EXCEPT ![gen'] = "made"]

\* rootGo refuses once the shutdown waits for its goroutines; then the Host that was
\* installed is never started.
GoRun(g) ==
  /\ Here /\ run[g] = "made"
  /\ run' = [run EXCEPT ![g] = IF ending = "joined" THEN "never" ELSE "starting"]
  /\ UNCHANGED <<gen, process, stopping, kvs, relaunches, ending, host, child, act, left>>

\* The page loads, or a refresh finds no window.
OpenMonitor(c) ==
  /\ Here /\ act[c].at = "idle" /\ left.presses > 0 /\ ending = "no"
  /\ left' = [left EXCEPT !.presses = @ - 1]
  /\ LaunchMonitor /\ run' = Made
  /\ UNCHANGED <<relaunches, ending, host, child, act>>

DomReady ==
  /\ Here /\ gen = 0
  /\ LaunchMonitor /\ run' = Made
  /\ UNCHANGED <<relaunches, ending, host, child, act, left>>

RestartMonitor(c) ==
  /\ Here /\ act[c].at = "idle" /\ left.presses > 0 /\ ending = "no"
  /\ left' = [left EXCEPT !.presses = @ - 1]
  /\ stopping' = TRUE
  /\ act' = [act EXCEPT ![c] = IF gen # 0 /\ ~Exited(gen) THEN [at |-> "once", on |-> gen]
                               ELSE [at |-> "launch", on |-> gen]]
  /\ UNCHANGED <<gen, process, kvs, relaunches, ending, run, host, child>>

RestartLaunches(c) ==
  /\ Here /\ act[c].at = "launch"
  /\ act' = [act EXCEPT ![c] = Idle]
  /\ LaunchMonitor /\ run' = Made
  /\ UNCHANGED <<relaunches, ending, host, child, left>>

\* Of Start: the command is built, its pipes, the process; or one of them fails and
\* the Host is finished without.
StartFails(g) ==
  /\ Here /\ run[g] = "starting" /\ left.troubles > 0
  /\ left' = [left EXCEPT !.troubles = @ - 1]
  /\ run' = [run EXCEPT ![g] = "failed"]
  /\ host' = [host EXCEPT ![g].told = TRUE, ![g].writer = "done", ![g].done = TRUE]
  /\ UNCHANGED <<gen, process, stopping, kvs, relaunches, ending, child, act>>

StartSpawns(g) ==
  /\ Here /\ run[g] = "starting"
  /\ run' = [run EXCEPT ![g] = "waiting"]
  /\ host' = [host EXCEPT ![g].stdin = "open", ![g].writer = "idle"]
  /\ child' = [child EXCEPT ![g].is = "booting"]
  /\ UNCHANGED <<gen, process, stopping, kvs, relaunches, ending, act, left>>

\* The three cases of Start's select; the last is Kill.
StartReturns(g) ==
  /\ Here /\ run[g] = "waiting"
  /\ \/ host[g].ready /\ run' = [run EXCEPT ![g] = "up"] /\ UNCHANGED act
     \/ host[g].done /\ run' = [run EXCEPT ![g] = "failed"] /\ UNCHANGED act
     \/ /\ child[g].is \in {"booting", "frozen"}     \* ReadyTimeout
        /\ run' = [run EXCEPT ![g] = "killing"]
        /\ act' = [act EXCEPT ![Follower(g)] = [at |-> "kill", on |-> g]]
  /\ UNCHANGED <<gen, process, stopping, kvs, relaunches, ending, host, child, left>>
-----------------------------------------------------------------------------
(* Following a process to its end.                                         *)

\* A launch that has been superseded leaves the shared state alone.
RunFails(g) ==
  /\ Here /\ run[g] = "failed"
  /\ run' = [run EXCEPT ![g] = "over"]
  /\ process' = IF gen = g THEN "failed" ELSE process
  /\ UNCHANGED <<gen, stopping, kvs, relaunches, ending, host, child, act, left>>

RunIsUp(g) ==
  /\ Here /\ run[g] = "up"
  /\ run' = [run EXCEPT ![g] = "following"]
  /\ process' = IF gen = g THEN "running" ELSE process
  /\ UNCHANGED <<gen, stopping, kvs, relaunches, ending, host, child, act, left>>

\* Whoever closed the window is respected, a crash is answered by another launch, up
\* to the budget.
RunEnds(g) ==
  /\ Here /\ run[g] = "following" /\ Exited(g)
  /\ IF gen # g THEN run' = [run EXCEPT ![g] = "over"] /\ UNCHANGED <<process, kvs, relaunches>>
     ELSE /\ kvs' = 0
          /\ \/ /\ stopping \/ ending # "no" \/ child[g].code = "clean"
                /\ process' = "closed" /\ run' = [run EXCEPT ![g] = "over"]
                /\ UNCHANGED relaunches
             \/ /\ ~stopping /\ ending = "no" /\ child[g].code # "clean"
                /\ IF relaunches < RelaunchMax
                   THEN /\ relaunches' = relaunches + 1 /\ process' = "starting"
                        /\ run' = [run EXCEPT ![g] = "asleep"]
                   ELSE /\ process' = "failed" /\ run' = [run EXCEPT ![g] = "over"]
                        /\ UNCHANGED relaunches
  /\ UNCHANGED <<gen, stopping, ending, host, child, act, left>>

\* monitorRelaunchDelay has passed; who launched in between is not looked at.
RunRelaunches(g) ==
  /\ Here /\ run[g] = "asleep"
  /\ LaunchMonitor
  /\ run' = [Made EXCEPT ![g] = "over"]
  /\ UNCHANGED <<relaunches, ending, host, child, act, left>>

RelaunchWindowPasses ==
  /\ Here /\ relaunches # 0 /\ relaunches' = 0
  /\ UNCHANGED <<gen, process, stopping, kvs, ending, run, host, child, act, left>>

\* monitorEvent, called by the reader of any Host.
ReaderHears(g) ==
  /\ Here /\ child[g].said
  /\ child' = [child EXCEPT ![g].said = FALSE]
  /\ kvs' = g
  /\ UNCHANGED <<gen, process, stopping, relaunches, ending, run, host, act, left>>

\* The end of the child's output: the writer is told, the process reaped.
ReaderEnds(g) ==
  /\ Here /\ child[g].is = "gone" /\ ~child[g].said /\ ~host[g].done
  /\ host' = [host EXCEPT ![g].told = TRUE, ![g].done = TRUE]
  /\ UNCHANGED <<gen, process, stopping, kvs, relaunches, ending, run, child, act, left>>
-----------------------------------------------------------------------------
(* The pipe.                                                               *)

hostVarsOnly == <<gen, process, stopping, kvs, relaunches, ending, run, child, act, left>>

\* teeEvents: the pump hands every event to the Host there is; the oldest makes room.
MonitorSend ==
  /\ Here /\ gen # 0 /\ ~Exited(gen) /\ left.sends > 0
  /\ host' = [host EXCEPT ![gen].out = Min({@ + 1, QueueDepth})]
  /\ left' = [left EXCEPT !.sends = @ - 1]
  /\ UNCHANGED <<gen, process, stopping, kvs, relaunches, ending, run, child, act>>

WriterTakes(g) ==
  /\ Here /\ host[g].writer = "idle" /\ host[g].out > 0
  /\ host' = [host EXCEPT ![g].writer = "writing", ![g].out = @ - 1]
  /\ UNCHANGED hostVarsOnly

\* A write blocks for as long as the child does not read and the pipe is full.
WriterWrites(g) ==
  /\ Here /\ host[g].writer = "writing"
  /\ \/ /\ Alive(g) /\ host[g].piped < PipeRoom
        /\ host' = [host EXCEPT ![g].writer = "idle", ![g].piped = @ + 1]
     \/ ~Alive(g) /\ host' = [host EXCEPT ![g].writer = "done"]
  /\ UNCHANGED hostVarsOnly

WriterStops(g) ==
  /\ Here /\ host[g].writer = "idle" /\ host[g].told
  /\ host' = [host EXCEPT ![g].writer = "done"]
  /\ UNCHANGED hostVarsOnly
-----------------------------------------------------------------------------
(* Stop and Kill.                                                          *)

At(a, where) == Here /\ act[a].at = where
Goes(a, where) == act' = [act EXCEPT ![a].at = where]
restOfStop == <<gen, process, stopping, kvs, relaunches, ending, left>>

\* closeStdin up to its wait for the writer: its first caller closes stdin.  A caller
\* who finds none yet has marked it as closed all the same.
ClosesFirst(g) == host[g].stdin = "open" /\ ~host[g].marked

\* Mutant: the writer is not told to end.
CloseStdinQuietly(g) == [host EXCEPT ![g].marked = TRUE]

CloseStdin(g) == [host EXCEPT ![g].marked = TRUE, ![g].told = @ \/ ClosesFirst(g)]

\* Without a process yet there is nothing to kill.
KillProcess(g) ==
  IF Alive(g) THEN [child EXCEPT ![g].is = "gone", ![g].code = "killed"] ELSE child

\* stopOnce: the first does it, the others wait for the process to be reaped.
StopEnters(a) ==
  /\ At(a, "once")
  /\ LET g == act[a].on IN
     \/ /\ host[g].once = "free"
        /\ host' = [CloseStdin(g) EXCEPT ![g].once = "held"]
        /\ Goes(a, IF ClosesFirst(g) THEN "writer" ELSE "grace")
     \/ host[g].once = "done" /\ Goes(a, "reap") /\ UNCHANGED host
  /\ UNCHANGED <<restOfStop, run, child>>

\* The writer finishes its frame before stdin is closed; Kill then kills.
WriterIsDone(a) ==
  /\ Here /\ act[a].at \in {"writer", "killWriter"}
  /\ LET g == act[a].on IN
     /\ host[g].writer = "done"
     /\ host' = [host EXCEPT ![g].stdin = "closed"]
     /\ \/ act[a].at = "writer" /\ Goes(a, "grace") /\ UNCHANGED child
        \/ act[a].at = "killWriter" /\ Goes(a, "killReap") /\ child' = KillProcess(g)
  /\ UNCHANGED <<restOfStop, run>>

\* The child has gone within the StopBudget, or is to be killed.
GraceEnds(a) ==
  /\ At(a, "grace")
  /\ LET g == act[a].on IN
     \/ Exited(g) /\ host' = [host EXCEPT ![g].once = "done"] /\ Goes(a, "reap")
     \/ ~Exited(g) /\ Goes(a, "kill") /\ UNCHANGED host
  /\ UNCHANGED <<restOfStop, run, child>>

Kill(a) ==
  /\ At(a, "kill")
  /\ LET g == act[a].on IN
     /\ host' = CloseStdin(g)
     /\ \/ ClosesFirst(g) /\ Goes(a, "killWriter") /\ UNCHANGED child
        \/ ~ClosesFirst(g) /\ Goes(a, "killReap") /\ child' = KillProcess(g)
  /\ UNCHANGED <<restOfStop, run>>

\* <-h.done at the end of Kill, and of Stop.
KillReturns(a) ==
  /\ At(a, "killReap") /\ Exited(act[a].on)
  /\ IF a \in Pressers \cup {Shutdown}
     THEN /\ host' = [host EXCEPT ![act[a].on].once = "done"]
          /\ Goes(a, "reap") /\ UNCHANGED run
     ELSE /\ run' = [run EXCEPT ![act[a].on] = "failed"]
          /\ act' = [act EXCEPT ![a] = Idle] /\ UNCHANGED host
  /\ UNCHANGED <<restOfStop, child>>

StopReturns(a) ==
  /\ At(a, "reap") /\ Exited(act[a].on)
  /\ Goes(a, IF a = Shutdown THEN "over" ELSE "launch")
  /\ UNCHANGED <<restOfStop, run, host, child>>
-----------------------------------------------------------------------------
(* The shutdown of the application, of which the window is one step.       *)

ShutdownBegins ==
  /\ ending = "no" /\ gen # 0 /\ left.quits
  /\ ending' = "closing"
  /\ act' = [act EXCEPT ![Shutdown] = [at |-> "begin", on |-> 0]]
  /\ UNCHANGED <<gen, process, stopping, kvs, relaunches, run, host, child, left>>

StopMonitorForTeardown ==
  /\ At(Shutdown, "begin")
  /\ stopping' = TRUE
  /\ act' = [act EXCEPT ![Shutdown] = [at |-> "once", on |-> gen]]
  /\ UNCHANGED <<gen, process, kvs, relaunches, ending, run, host, child, left>>

\* The step is done, or has overrun monitorStopBudget and goes on beside what follows.
ShutdownGoesOn ==
  /\ ending = "closing" /\ act[Shutdown].at # "begin"
  /\ ending' = "joined"
  /\ UNCHANGED <<gen, process, stopping, kvs, relaunches, run, host, child, act, left>>

\* The process ends with every goroutine in it, and its end of each pipe.
ApplicationEnds ==
  /\ ending = "joined"
  /\ ending' = "gone"
  /\ host' = [g \in Launches |-> [host[g] EXCEPT !.stdin = IF @ = "open" THEN "closed" ELSE @]]
  /\ UNCHANGED <<gen, process, stopping, kvs, relaunches, run, child, act, left>>
-----------------------------------------------------------------------------
(* The child.                                                              *)

childOnly == <<gen, process, stopping, kvs, relaunches, ending, run, act>>

ChildIsReady(g) ==
  /\ child[g].is = "booting"
  /\ child' = [child EXCEPT ![g].is = "up"]
  /\ host' = [host EXCEPT ![g].ready = TRUE]
  /\ UNCHANGED <<childOnly, left>>

\* ReportMonitorState.
ChildReports(g) ==
  /\ child[g].is = "up" /\ Here /\ ~child[g].said /\ left.sends > 0
  /\ left' = [left EXCEPT !.sends = @ - 1]
  /\ child' = [child EXCEPT ![g].said = TRUE]
  /\ UNCHANGED <<childOnly, host>>

ChildReads(g) ==
  /\ child[g].is \in {"booting", "up", "leaving"} /\ host[g].piped > 0
  /\ host' = [host EXCEPT ![g].piped = @ - 1]
  /\ UNCHANGED <<childOnly, child, left>>

\* The link has closed, or the operator closes the window; its teardown is bounded.
ChildIsToLeave(g) ==
  /\ child[g].is \in {"booting", "up"}
  /\ \/ host[g].stdin = "closed" /\ host[g].piped = 0 /\ UNCHANGED left
     \/ /\ child[g].is = "up" /\ left.presses > 0
        /\ left' = [left EXCEPT !.presses = @ - 1]
  /\ child' = [child EXCEPT ![g].is = "leaving"]
  /\ UNCHANGED <<childOnly, host>>

ChildLeaves(g) ==
  /\ child[g].is = "leaving"
  /\ child' = [child EXCEPT ![g].is = "gone", ![g].code = "clean"]
  /\ UNCHANGED <<childOnly, host, left>>

ChildCrashes(g) ==
  /\ Alive(g) /\ Here /\ left.troubles > 0
  /\ left' = [left EXCEPT !.troubles = @ - 1]
  /\ child' = [child EXCEPT ![g].is = "gone", ![g].code = "crash"]
  /\ UNCHANGED <<childOnly, host>>

\* It goes on running, and does nothing more, not even read.
ChildFreezes(g) ==
  /\ child[g].is \in {"booting", "up"} /\ Here /\ left.troubles > 0
  /\ left' = [left EXCEPT !.troubles = @ - 1]
  /\ child' = [child EXCEPT ![g].is = "frozen"]
  /\ UNCHANGED <<childOnly, host>>
-----------------------------------------------------------------------------
WinNext ==
  \/ DomReady \/ RelaunchWindowPasses \/ MonitorSend
  \/ ShutdownBegins \/ StopMonitorForTeardown \/ ShutdownGoesOn \/ ApplicationEnds
  \/ \E c \in Pressers : OpenMonitor(c) \/ RestartMonitor(c) \/ RestartLaunches(c)
  \/ \E a \in Actors : \/ StopEnters(a) \/ WriterIsDone(a) \/ GraceEnds(a)
                       \/ Kill(a) \/ KillReturns(a) \/ StopReturns(a)
  \/ \E g \in Launches :
       \/ GoRun(g) \/ StartFails(g) \/ StartSpawns(g) \/ StartReturns(g)
       \/ RunFails(g) \/ RunIsUp(g) \/ RunEnds(g) \/ RunRelaunches(g)
       \/ ReaderHears(g) \/ ReaderEnds(g)
       \/ WriterTakes(g) \/ WriterWrites(g) \/ WriterStops(g)
       \/ ChildIsReady(g) \/ ChildReports(g) \/ ChildReads(g) \/ ChildIsToLeave(g)
       \/ ChildLeaves(g) \/ ChildCrashes(g) \/ ChildFreezes(g)

\* What goes on by itself: goroutines are scheduled, timers expire, a process that was
\* told to leave leaves.  Nobody has to press, to close the window, or to crash.  Each
\* of these steps uses something up, so that no run of them is endless.
GoesOn ==
  \/ StopMonitorForTeardown \/ ShutdownGoesOn \/ ApplicationEnds
  \/ \E c \in Pressers : RestartLaunches(c)
  \/ \E a \in Actors : \/ StopEnters(a) \/ WriterIsDone(a) \/ GraceEnds(a)
                       \/ Kill(a) \/ KillReturns(a) \/ StopReturns(a)
  \/ \E g \in Launches :
       \/ GoRun(g) \/ StartSpawns(g) \/ StartReturns(g) \/ RunFails(g)
       \/ RunIsUp(g) \/ RunEnds(g) \/ RunRelaunches(g)
       \/ ReaderHears(g) \/ ReaderEnds(g)
       \/ WriterTakes(g) \/ WriterWrites(g) \/ WriterStops(g)
       \/ ChildReads(g) \/ ChildLeaves(g)
       \/ host[g].stdin = "closed" /\ ChildIsToLeave(g)

WinSpec == WinInit /\ [][WinNext]_winVars
-----------------------------------------------------------------------------
(* Properties.                                                             *)

\* There is one window at most, and it is the one of the last launch: neither a
\* restart, nor a relaunch after a crash, nor a page that loads twice opens a second
\* beside it (launchMonitor; app_monitor.go:7-11).  A window that is there is not
\* called closed or failed, and what its picture's connection is said to be doing was
\* said by that window and not by one before (monitorEvent does not ask who speaks).
OneWindow ==
  /\ \A g \in Launches : Alive(g) => g = gen /\ process \notin {"closed", "failed"}
  /\ process = "running" => run[gen] = "following"
  /\ kvs \in {0, gen}

Stopping(a) == act[a].at \in {"once", "writer", "grace", "kill", "killWriter", "killReap", "reap"}

\* Nobody will close the pipe: it was marked as closed before there was one.
Unclosable(g) ==
  /\ host[g].marked /\ host[g].stdin \in {"none", "open"}
  /\ \A a \in Actors : act[a].at \in {"writer", "killWriter"} => act[a].on # g

\* Excused are a child that no longer reads, a Host stopped before its process was
\* there, and one that a shutdown left unstarted.
Excused(g) == child[g].is = "frozen" \/ Unclosable(g) \/ run[g] = "never"

\* Whoever stops a window gets it stopped (Host.Stop), whatever is queued for it, and
\* the application leaves none behind (monitorlink, "The lifeline"): while a Stop is
\* under way, or a child outlives the application, something goes on by itself.
WindowGoes ==
  \/ \E a \in Pressers \cup {Shutdown} : Here /\ Stopping(a) /\ ~Excused(act[a].on)
  \/ ~Here /\ \E g \in Launches : Alive(g) /\ child[g].is # "frozen"
  => ENABLED GoesOn
=============================================================================
