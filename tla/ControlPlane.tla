----------------------------- MODULE ControlPlane -----------------------------
(***************************************************************************)
(* app.go's control plane, one generation of it at a time under ctlMu: the  *)
(* sign-in loop, the client with its token refresh (internal/m2lx/client.go), *)
(* the status watcher's forwarder, and the search for a status key that a   *)
(* Start begins in it.                                                     *)
(*                                                                         *)
(* SaveConfig, SetSecret and ApplyPreset replace the generation, each on a  *)
(* goroutine of its own; what they read and when they lock is kept.  What   *)
(* the watcher does is StatusWatcher.                                      *)
(***************************************************************************)
EXTENDS Naturals, FiniteSets

CONSTANTS
  Editors,     \* goroutines that save, store a password, apply a preset
  Configs,     \* the configurations there are: records of host and key
  MaxPlanes,   \* bound: generations, one for the launch and one for each edit
  MaxSearches, \* bound: searches
  CtlBudgets   \* bounds: calls of an editor, searches, refreshes of a token
Blank == "blank"
ASSUME ControlAssumption ==
  /\ Configs \subseteq [host : STRING, key : STRING] /\ Configs # {}
  /\ {MaxPlanes, MaxSearches} \subseteq Nat
  /\ CtlBudgets \subseteq [edits : 0 .. MaxPlanes - 1, searches : 0 .. MaxSearches, renewals : Nat]
  /\ {"launch", "exit", "free"} \cap Editors = {}

Planes == 1 .. MaxPlanes
NoPlane == 0
Searches == 1 .. MaxSearches
Restarters == Editors \cup {"launch", "exit"}   \* startup, and the shutdown's step
NoConf == [host |-> Blank, key |-> Blank]

VARIABLES
  ctlConf,     \* a.cfg
  password,    \* is the switcher's password stored?
  ctlMu,       \* who is inside it
  restart,     \* of each restarter: where it stands, and the configuration it read
  ctlLeft,        \* what is left of the bounds
  ctlClosing,  \* a.closing
  plane,       \* the generation the App's fields are of
  planes,      \* generations so far
  madeFrom,    \* the configuration each was made from
  cancelled,   \* those whose context is cancelled
  closedClients,  \* those whose client is closed
  signIn,      \* signInLoop
  heldToken,   \* clients that hold a token
  refresh,     \* refreshLoop: "none", "starting", "waiting", "renewing", "ended"
  watching,    \* generations whose statuses are being forwarded
  discovering, \* the flag
  search,      \* each search: where it stands, the generation it is in
  searches,    \* how many so far
  candidates,  \* the search the published suggestions are of
  starting,    \* a Start has found no key configured
  excused      \* a configuration was published behind a restart that had read its
               \*   own, or by a preset that then failed

editVars   == <<ctlConf, password, restart, excused>>
planeVars  == <<ctlMu, ctlClosing, plane, planes, madeFrom, cancelled>>
clientVars == <<closedClients, signIn, heldToken, refresh>>
searchVars == <<discovering, search, searches, candidates, starting>>
controlVars    == <<editVars, planeVars, clientVars, watching, searchVars, ctlLeft>>

CtlTypeOK ==
  /\ ctlConf \in Configs /\ password \in BOOLEAN
  /\ ctlMu \in Restarters \cup {"free"}
  /\ restart \in [Restarters -> [at : {"idle", "read", "lock", "close", "join", "build"},
                                 conf : Configs \cup {NoConf}]]
  /\ ctlLeft \in [edits : Nat, searches : Nat, renewals : Nat]
  /\ {ctlClosing, excused} \subseteq BOOLEAN
  /\ plane \in Planes \cup {NoPlane} /\ planes \in 0 .. MaxPlanes
  /\ madeFrom \in [Planes -> Configs \cup {NoConf}]
  /\ cancelled \subseteq Planes /\ closedClients \subseteq Planes
  /\ signIn \in [Planes -> {"none", "password", "attempt", "start", "backoff", "in", "gaveUp",
                            "over"}]
  /\ heldToken \subseteq Planes
  /\ refresh \in [Planes -> {"none", "starting", "waiting", "renewing", "ended"}]
  /\ watching \subseteq Planes /\ discovering \in BOOLEAN
  /\ search \in [Searches -> [at : {"none", "reset", "watch", "leave", "gone"},
                              in : Planes \cup {NoPlane}]]
  /\ searches \in 0 .. MaxSearches /\ candidates \in Searches \cup {0}
  /\ starting \in BOOLEAN

CtlInit ==
  /\ ctlConf \in Configs /\ password \in BOOLEAN
  /\ ctlMu = "free"
  /\ restart = [r \in Restarters |->
                  [at |-> IF r = "launch" THEN "read" ELSE "idle", conf |-> NoConf]]
  /\ ctlLeft \in CtlBudgets /\ ctlClosing = FALSE /\ excused = FALSE
  /\ plane = NoPlane /\ planes = 0
  /\ madeFrom = [g \in Planes |-> NoConf] /\ cancelled = {} /\ closedClients = {}
  /\ signIn = [g \in Planes |-> "none"] /\ heldToken = {}
  /\ refresh = [g \in Planes |-> "none"]
  /\ watching = {} /\ discovering = FALSE
  /\ search = [d \in Searches |-> [at |-> "none", in |-> NoPlane]]
  /\ searches = 0 /\ candidates = 0 /\ starting = FALSE

-----------------------------------------------------------------------------
(* What makes a call replace the generation.                               *)

To(r, label) == restart' = [restart EXCEPT ![r] = [@ EXCEPT !.at = label]]
Pending(r) == restart[r].at = "lock"

Spend(what) == ctlLeft[what] > 0 /\ ctlLeft' = [ctlLeft EXCEPT ![what] = @ - 1]
Edit(r) == r \in Editors /\ restart[r].at = "idle" /\ Spend("edits")
\* One that has already read is now behind.
Publish(c) ==
  /\ ctlConf' = c
  /\ excused' = (excused \/ (c # ctlConf /\ \E r \in Restarters : Pending(r)))

\* Mutant: the key is not looked at.
ControlPlaneChangedHost(previous, next) == previous.host # next.host
ControlPlaneChanged(previous, next) == previous # next

SaveConfig(r, c) ==
  /\ Edit(r)
  /\ Publish(c)
  /\ IF ControlPlaneChanged(ctlConf, c) THEN To(r, "read") ELSE UNCHANGED restart
  /\ UNCHANGED <<password, planeVars, clientVars, watching, searchVars>>

\* A preset restarts it whether or not the coordinates are other ones.
ApplyPresetTo(r, c) ==
  /\ Edit(r)
  /\ Publish(c)
  /\ To(r, "read")
  /\ UNCHANGED <<password, planeVars, clientVars, watching, searchVars>>

\* The preset is not recorded as the active one: it stays half applied.
PresetHalfApplied(r, c) ==
  /\ Edit(r)
  /\ ctlConf' = c
  /\ excused' = TRUE
  /\ UNCHANGED <<password, restart, planeVars, clientVars, watching, searchVars>>

SetSecret(r) ==
  /\ Edit(r)
  /\ password' = TRUE
  /\ To(r, "read")
  /\ UNCHANGED <<ctlConf, excused, planeVars, clientVars, watching, searchVars>>

-----------------------------------------------------------------------------
(* startControlPlane and stopControlPlaneLocked.                           *)

\* The configuration is read before ctlMu is asked for.
ReadConfig(r) ==
  /\ restart[r].at = "read"
  /\ restart' = [restart EXCEPT ![r] = [at |-> "lock", conf |-> ctlConf]]
  /\ UNCHANGED <<ctlConf, password, excused, planeVars, clientVars, watching, searchVars, ctlLeft>>

LockControl(r) ==
  /\ restart[r].at = "lock" /\ ctlMu = "free"
  /\ ctlMu' = r
  /\ IF plane = NoPlane THEN To(r, "build") /\ UNCHANGED cancelled
     ELSE To(r, "close") /\ cancelled' = cancelled \cup {plane}
  /\ UNCHANGED <<ctlConf, password, excused, ctlClosing, plane, planes, madeFrom, clientVars,
                 watching, searchVars, ctlLeft>>

RefreshOver(g) == refresh[g] \in {"none", "ended"}

\* client.Close: cancelled, and the refresh loop joined if it has been begun.
CloseClient(r) ==
  /\ restart[r].at = "close"
  /\ \/ /\ plane \notin closedClients
        /\ closedClients' = closedClients \cup {plane} /\ UNCHANGED restart
     \/ plane \in closedClients /\ RefreshOver(plane) /\ To(r, "join") /\ UNCHANGED closedClients
  /\ UNCHANGED <<ctlConf, password, excused, planeVars, signIn, heldToken, refresh,
                 watching, searchVars, ctlLeft>>

Joinable(g) ==
  /\ signIn[g] \in {"in", "gaveUp", "over"}
  /\ g \notin watching
  /\ \A d \in Searches : search[d].in = g => search[d].at \in {"none", "gone"}

JoinPlane(r) ==
  /\ restart[r].at = "join" /\ Joinable(plane)
  /\ plane' = NoPlane
  /\ To(r, "build")
  /\ UNCHANGED <<ctlConf, password, excused, ctlMu, ctlClosing, planes, madeFrom, cancelled,
                 clientVars, watching, searchVars, ctlLeft>>

\* Nothing is built on the way out, nor without a host to sign in to.
BuildPlane(r) ==
  /\ restart[r].at = "build"
  /\ LET c == restart[r].conf IN
       IF r = "exit" \/ ctlClosing \/ c.host = Blank
         THEN UNCHANGED <<plane, planes, madeFrom, signIn, watching>>
         ELSE /\ planes' = planes + 1 /\ plane' = planes'
              /\ madeFrom' = [madeFrom EXCEPT ![planes'] = c]
              /\ signIn' = [signIn EXCEPT ![planes'] = "password"]
              /\ watching' = IF c.key # Blank THEN watching \cup {planes'} ELSE watching
  /\ ctlMu' = "free"
  /\ restart' = [restart EXCEPT ![r] = [at |-> "idle", conf |-> NoConf]]
  /\ UNCHANGED <<ctlConf, password, excused, ctlClosing, cancelled, closedClients, heldToken,
                 refresh, searchVars, ctlLeft>>

\* The shutdown, which has the control plane stopped by a step of its own.
CtlTeardown ==
  /\ ~ctlClosing
  /\ ctlClosing' = TRUE
  /\ To("exit", "lock")
  /\ UNCHANGED <<ctlConf, password, excused, ctlMu, plane, planes, madeFrom, cancelled,
                 clientVars, watching, searchVars, ctlLeft>>

-----------------------------------------------------------------------------
(* signInLoop and the client.                                              *)

Signing(g, from, to) == signIn[g] = from /\ signIn' = [signIn EXCEPT ![g] = to]
ClientOnly == UNCHANGED <<editVars, planeVars, closedClients, watching, searchVars>>

\* A password that is not there, or cannot be read, ends the loop.
ReadPassword(g) ==
  /\ Signing(g, "password", IF password THEN "attempt" ELSE "gaveUp")
  /\ UNCHANGED <<heldToken, refresh, ctlLeft>> /\ ClientOnly

\* The answer is used even if the context was cancelled behind it.
SignInAnswers(g) ==
  /\ \/ Signing(g, "attempt", "start") /\ heldToken' = heldToken \cup {g}
     \/ /\ Signing(g, "attempt", IF g \in cancelled THEN "over" ELSE "backoff")
        /\ UNCHANGED heldToken
  /\ UNCHANGED <<refresh, ctlLeft>> /\ ClientOnly

\* Once per client; a Close that came before it finds the loop's end by itself.
StartRefresh(g) ==
  /\ Signing(g, "start", "in")
  /\ refresh' = [refresh EXCEPT ![g] = "starting"]
  /\ UNCHANGED <<heldToken, ctlLeft>> /\ ClientOnly

SignInSleeps(g) ==
  /\ Signing(g, "backoff", IF g \in cancelled THEN "over" ELSE "attempt")
  /\ UNCHANGED <<heldToken, refresh, ctlLeft>> /\ ClientOnly

\* The timer is set when the loop starts; it is hours away from a Close that
\* came before it.
RefreshSelects(g) ==
  /\ \/ /\ refresh[g] = "starting"
        /\ refresh' = [refresh EXCEPT ![g] = IF g \in closedClients THEN "ended" ELSE "waiting"]
        /\ UNCHANGED ctlLeft
     \/ /\ refresh[g] = "waiting" /\ g \in closedClients
        /\ refresh' = [refresh EXCEPT ![g] = "ended"]
        /\ UNCHANGED ctlLeft
     \/ /\ refresh[g] = "waiting" /\ Spend("renewals")
        /\ refresh' = [refresh EXCEPT ![g] = "renewing"]
  /\ UNCHANGED <<signIn, heldToken>> /\ ClientOnly

\* Refresh and its fallback: with neither, the token is let go of; and without
\* a token there is nothing to renew.
RefreshAnswers(g) ==
  /\ refresh[g] = "renewing"
  /\ refresh' = [refresh EXCEPT ![g] = "waiting"]
  /\ \E tokens \in {heldToken, heldToken \ {g}} : heldToken' = tokens
  /\ UNCHANGED <<signIn, ctlLeft>> /\ ClientOnly

\* forwardStatus ranges over a channel that the cancelled watcher closes.
ForwardEnds(g) ==
  /\ g \in watching \cap cancelled
  /\ watching' = watching \ {g}
  /\ UNCHANGED <<editVars, planeVars, clientVars, searchVars, ctlLeft>>

-----------------------------------------------------------------------------
(* The search for a status key.                                            *)

SearchOnly == UNCHANGED <<editVars, planeVars, clientVars, watching>>

PressStart ==
  /\ ~starting /\ Spend("searches")
  /\ ctlConf.key = Blank
  /\ starting' = TRUE
  /\ UNCHANGED <<discovering, search, searches, candidates>> /\ SearchOnly

SearchPossible == plane # NoPlane /\ ~ctlClosing /\ ~discovering

\* maybeDiscoverStatusKey, once it has ctlMu.
MaybeDiscover ==
  /\ starting /\ ctlMu = "free"
  /\ starting' = FALSE
  /\ IF SearchPossible
       THEN /\ discovering' = TRUE
            /\ searches' = searches + 1
            /\ search' = [search EXCEPT ![searches'] = [at |-> "reset", in |-> plane]]
       ELSE UNCHANGED <<discovering, search, searches>>
  /\ UNCHANGED <<candidates, ctlLeft>> /\ SearchOnly

SearchResets(d) ==
  /\ search[d].at = "reset"
  /\ search' = [search EXCEPT ![d].at = "watch"]
  /\ candidates' = 0
  /\ UNCHANGED <<discovering, searches, starting, ctlLeft>> /\ SearchOnly

SearchFinds(d) ==
  /\ search[d].at = "watch"
  /\ candidates' = d
  /\ UNCHANGED <<discovering, search, searches, starting, ctlLeft>> /\ SearchOnly

\* Its window is over, the Start it belongs to has failed, or its generation is
\* being replaced.
SearchEnds(d) ==
  /\ search[d].at = "watch"
  /\ search' = [search EXCEPT ![d].at = "leave"]
  /\ UNCHANGED <<discovering, searches, candidates, starting, ctlLeft>> /\ SearchOnly

\* The deferred calls: the flag first, then the wait group.
SearchLeaves(d) ==
  /\ search[d].at = "leave"
  /\ search' = [search EXCEPT ![d].at = "gone"]
  /\ discovering' = FALSE
  /\ UNCHANGED <<searches, candidates, starting, ctlLeft>> /\ SearchOnly

-----------------------------------------------------------------------------

CtlNext ==
  \/ \E r \in Editors :
       \/ SetSecret(r)
       \/ \E c \in Configs : SaveConfig(r, c) \/ ApplyPresetTo(r, c) \/ PresetHalfApplied(r, c)
  \/ \E r \in Restarters :
       ReadConfig(r) \/ LockControl(r) \/ CloseClient(r) \/ JoinPlane(r) \/ BuildPlane(r)
  \/ CtlTeardown
  \/ \E g \in Planes :
       \/ ReadPassword(g) \/ SignInAnswers(g) \/ StartRefresh(g) \/ SignInSleeps(g)
       \/ RefreshSelects(g) \/ RefreshAnswers(g) \/ ForwardEnds(g)
  \/ PressStart \/ MaybeDiscover
  \/ \E d \in Searches : SearchResets(d) \/ SearchFinds(d) \/ SearchEnds(d) \/ SearchLeaves(d)

CtlSpec == CtlInit /\ [][CtlNext]_controlVars

-----------------------------------------------------------------------------
(* Properties.                                                             *)

Settled == \A r \in Restarters : restart[r].at = "idle"

Speaking(g) ==
  \/ signIn[g] \in {"attempt", "backoff"} \/ refresh[g] \in {"waiting", "renewing"}
  \/ g \in watching \/ \E d \in Searches : search[d].in = g /\ search[d].at = "watch"

\* Only one generation speaks to a switcher: whatever one that is being replaced,
\* or shut down, has under way is over before its successor exists, also a token
\* that comes after the close; and at most one search publishes suggestions.
OneControlPlane ==
  /\ \A g \in Planes : Speaking(g) => g = plane
  /\ \A d \in Searches : search[d].at = "watch" => candidates \in {0, d}
  /\ Cardinality({d \in Searches : search[d].at \in {"reset", "watch"}}) <= 1

\* When every call has returned, the generation that runs is of the configuration
\* that is shown, and has not given up for want of a password that is stored;
\* unless a save overtook a restart that had read already, or a preset failed
\* half-way.
PlaneIsCurrent ==
  Settled /\ ~ctlClosing =>
    /\ ~excused => IF ctlConf.host = Blank THEN plane = NoPlane
                   ELSE plane # NoPlane /\ madeFrom[plane] = ctlConf
    /\ plane # NoPlane /\ password => signIn[plane] # "gaveUp"

\* Through saves, presets, renewals and searches, one generation speaks, and in the
\* end it is the configuration's.
ControlPlaneIsRight == OneControlPlane /\ PlaneIsCurrent

=============================================================================
