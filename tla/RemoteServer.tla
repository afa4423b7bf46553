------------------------------ MODULE RemoteServer ------------------------------
(***************************************************************************)
(* app_remote.go: the remote listener across settings changes and the       *)
(* shutdown.  Each start of it is a generation: a server that binds its     *)
(* ports on a goroutine of its own, is published in a.remote once it has,   *)
(* and is watched until its context ends.  A restart and the shutdown take  *)
(* the generation before them down, whether it is published or still        *)
(* binding.                                                                 *)
(***************************************************************************)
EXTENDS Naturals, FiniteSets

CONSTANTS
  Callers,   \* goroutines that start the listener: startup and SetRemoteListener
  MaxGens    \* bound: generations started

ASSUME ServerAssumption ==
  /\ MaxGens \in Nat
  /\ {"nobody", "teardown"} \cap Callers = {}

Gens == 1 .. MaxGens
Owners == Callers \cup {"teardown"}

VARIABLES
  remClosing,  \* a.closing
  remoteMu,    \* who holds it: an owner, or 0 .. MaxGens for a generation's goroutine
  remote,      \* a.remote, 0 when nil
  runGen,      \* the generation whose cancel is a.remoteRunCancel, 0 when nil
  cancelled,   \* generations whose context is cancelled
  gen,         \* each generation's goroutine, counted by remoteWG
  listening,   \* generations whose listeners are bound
  caller       \* each owner: where it stands and the server it closes

srvVars == <<remClosing, remoteMu, remote, runGen, cancelled, gen, listening, caller>>

SrvTypeOK ==
  /\ remClosing \in BOOLEAN
  /\ remoteMu \in {"nobody"} \cup Owners
  /\ remote \in 0 .. MaxGens /\ runGen \in 0 .. MaxGens
  /\ cancelled \subseteq Gens /\ listening \subseteq Gens
  /\ gen \in [Gens -> {"none", "binding", "bound", "closing", "watching", "ended"}]
  /\ caller \in [Owners -> [at : {"idle", "close", "build", "drop", "join", "returned"},
                            old : 0 .. MaxGens]]

SrvInit ==
  /\ remClosing = FALSE /\ remoteMu = "nobody" /\ remote = 0 /\ runGen = 0
  /\ cancelled = {} /\ listening = {}
  /\ gen = [g \in Gens |-> "none"]
  /\ caller = [o \in Owners |-> [at |-> "idle", old |-> 0]]

At(o, label) == caller' = [caller EXCEPT ![o].at = label]

-----------------------------------------------------------------------------
(* startRemote, with remoteMu held from end to end.                         *)

\* The generation before it is cancelled and taken out of a.remote.
StartRemote(o) ==
  /\ caller[o].at = "idle" /\ remoteMu = "nobody"
  /\ remoteMu' = o
  /\ cancelled' = cancelled \cup ({runGen} \ {0})
  /\ runGen' = 0
  /\ caller' = [caller EXCEPT ![o] = [at |-> "close", old |-> remote]]
  /\ remote' = 0
  /\ UNCHANGED <<remClosing, gen, listening>>

\* closeRemoteServer: Server.Close shuts the listeners, within its budget.
CloseOld(o) ==
  /\ caller[o].at = "close"
  /\ listening' = listening \ {caller[o].old}
  /\ At(o, "build")
  /\ UNCHANGED <<remClosing, remoteMu, remote, runGen, cancelled, gen>>

\* A new generation, unless the window is closing or the settings cannot be read.
Build(o) ==
  /\ caller[o].at = "build"
  /\ remoteMu' = "nobody"
  /\ \/ UNCHANGED <<gen, runGen>>
     \/ /\ ~remClosing
        /\ \E g \in Gens :
             /\ gen[g] = "none" /\ \A h \in Gens : h < g => gen[h] # "none"
             /\ gen' = [gen EXCEPT ![g] = "binding"]
             /\ runGen' = g
  /\ At(o, "idle")
  /\ UNCHANGED <<remClosing, remote, cancelled, listening>>

-----------------------------------------------------------------------------
(* A generation's goroutine.                                                *)

\* Server.Start: both listeners, or neither.
Bind(g) ==
  /\ gen[g] = "binding"
  /\ \/ gen' = [gen EXCEPT ![g] = "bound"] /\ listening' = listening \cup {g}
     \/ gen' = [gen EXCEPT ![g] = "ended"] /\ UNCHANGED listening
  /\ UNCHANGED <<remClosing, remoteMu, remote, runGen, cancelled, caller>>

\* Mutant: the server is published whatever has become of its context.
PublishAnyway(g) ==
  /\ gen[g] = "bound" /\ remoteMu = "nobody"
  /\ remote' = g /\ gen' = [gen EXCEPT ![g] = "watching"]
  /\ UNCHANGED <<remClosing, remoteMu, runGen, cancelled, listening, caller>>
\* Published under remoteMu, unless it has been superseded while it was binding.
Publish(g) ==
  /\ gen[g] = "bound" /\ remoteMu = "nobody"
  /\ IF g \in cancelled
     THEN gen' = [gen EXCEPT ![g] = "closing"] /\ UNCHANGED remote
     ELSE gen' = [gen EXCEPT ![g] = "watching"] /\ remote' = g
  /\ UNCHANGED <<remClosing, remoteMu, runGen, cancelled, listening, caller>>

CloseOwn(g) ==
  /\ gen[g] = "closing"
  /\ listening' = listening \ {g}
  /\ gen' = [gen EXCEPT ![g] = "ended"]
  /\ UNCHANGED <<remClosing, remoteMu, remote, runGen, cancelled, caller>>

WatchEnds(g) ==
  /\ gen[g] = "watching" /\ g \in cancelled
  /\ gen' = [gen EXCEPT ![g] = "ended"]
  /\ UNCHANGED <<remClosing, remoteMu, remote, runGen, cancelled, listening, caller>>

-----------------------------------------------------------------------------
(* The shutdown.                                                            *)

RaiseClosing ==
  /\ ~remClosing /\ remClosing' = TRUE
  /\ UNCHANGED <<remoteMu, remote, runGen, cancelled, gen, listening, caller>>

\* Mutant: remoteMu is held for as long as the shutdown waits.
StopRemoteHolding ==
  /\ remClosing /\ caller["teardown"].at = "idle" /\ remoteMu = "nobody"
  /\ remoteMu' = "teardown"
  /\ cancelled' = cancelled \cup ({runGen} \ {0})
  /\ runGen' = 0
  /\ caller' = [caller EXCEPT !["teardown"] = [at |-> "drop", old |-> remote]]
  /\ remote' = 0
  /\ UNCHANGED <<remClosing, gen, listening>>
\* stopRemote lets go of remoteMu before it closes.
StopRemote ==
  /\ remClosing /\ caller["teardown"].at = "idle" /\ remoteMu = "nobody"
  /\ cancelled' = cancelled \cup ({runGen} \ {0})
  /\ runGen' = 0
  /\ caller' = [caller EXCEPT !["teardown"] = [at |-> "drop", old |-> remote]]
  /\ remote' = 0
  /\ UNCHANGED <<remClosing, remoteMu, gen, listening>>

StopCloses ==
  /\ caller["teardown"].at = "drop"
  /\ listening' = listening \ {caller["teardown"].old}
  /\ At("teardown", "join")
  /\ UNCHANGED <<remClosing, remoteMu, remote, runGen, cancelled, gen>>

\* remoteWG.Wait
StopJoins ==
  /\ caller["teardown"].at = "join"
  /\ \A g \in Gens : gen[g] \in {"none", "ended"}
  /\ At("teardown", "returned")
  /\ UNCHANGED <<remClosing, remoteMu, remote, runGen, cancelled, gen, listening>>

-----------------------------------------------------------------------------
GenStep(g) == Bind(g) \/ Publish(g) \/ CloseOwn(g) \/ WatchEnds(g)
StopStep == StopRemote \/ StopCloses \/ StopJoins

SrvNext ==
  \/ \E o \in Callers : StartRemote(o) \/ CloseOld(o) \/ Build(o)
  \/ \E g \in Gens : GenStep(g)
  \/ RaiseClosing \/ StopStep

\* Start returns, Close has a budget, and every goroutine that can run does.
SrvFairness ==
  /\ WF_srvVars(\E o \in Callers : CloseOld(o) \/ Build(o))
  /\ WF_srvVars(\E g \in Gens : Bind(g) \/ CloseOwn(g) \/ WatchEnds(g))
  /\ SF_srvVars(StopRemote \/ \E g \in Gens : Publish(g))
  /\ WF_srvVars(StopCloses \/ StopJoins)

SrvSpec == SrvInit /\ [][SrvNext]_srvVars /\ SrvFairness

-----------------------------------------------------------------------------
\* A listener that is bound is in somebody's hands: it is a.remote, its own
\* goroutine has yet to publish or to close it, or whoever took it out closes it.
\* Once the shutdown's stop of it has returned none is bound, none can be, and no
\* goroutine of any generation runs.
NoOrphanListener ==
  /\ \A g \in listening :
       \/ remote = g
       \/ gen[g] \in {"bound", "closing"}
       \/ \E o \in Owners : caller[o].at \in {"close", "drop"} /\ caller[o].old = g
  /\ caller["teardown"].at = "returned" =>
       listening = {} /\ remote = 0 /\ \A g \in Gens : gen[g] \in {"none", "ended"}

\* The shutdown's stop of the listener returns, though it joins goroutines that
\* need remoteMu and a restart may be holding it.
StopReturns == remClosing ~> caller["teardown"].at = "returned"
=============================================================================
