----------------------------- MODULE SetupProofs -----------------------------
(***************************************************************************)
(* Theorems about what is set up before a show: the routing of the channels *)
(* (ChannelMap), and the configuration with its presets (Presets).         *)
(***************************************************************************)
EXTENDS MCSetup, SequenceTheorems, FiniteSetTheorems, WellFoundedInduction, NaturalsInduction, TLAPS

-----------------------------------------------------------------------------
(* The routing of the channels.                                            *)

AnyMap == Maps \cup {<<>>}
Matrices == {NoMatrix} \cup {MixMatrix(m, w) : m \in AnyMap, w \in Nat}
CaptureState == [device : Devices, map : AnyMap, stopped : BOOLEAN, width : Nat, stage : Stages,
                 say : GridState, stale : BOOLEAN, matrix : Matrices]
CallState == [at : CallPlaces, cap : Nat, say : GridState, stale : BOOLEAN]

RouteTypes ==
  /\ captures \in Seq(CaptureState) /\ cap \in Nat
  /\ rebuild \in {"idle", "stopped", "forgotten", "down", "built"}
  /\ cache \in GridState /\ grid \in [Pages -> GridState] /\ routing \in [Pages -> CallState]
  /\ chanLeft \in [calls : Nat, captures : Nat] /\ crossed \in BOOLEAN

\* What the element of a capture does is what a routing asks for.
PadOf(g) == Pad[captures[g].device]
Routes(g, m) == captures[g].matrix # NoMatrix => captures[g].matrix = MixMatrix(m, PadOf(g))
OfThePad(g) ==
  captures[g].matrix # NoMatrix =>
    \E m \in AnyMap : Fits(m, PadOf(g)) /\ captures[g].matrix = MixMatrix(m, PadOf(g))

\* One capture plays, the last that was built: the open one, or the one to be adopted.
CaptureInv ==
  /\ cap \in {0, Len(captures)}
  /\ rebuild \in {"forgotten", "down", "built"} => cap = 0
  /\ rebuild = "stopped" => cap # 0 /\ captures[cap].stopped
  /\ rebuild = "idle" /\ cap # 0 => ~captures[cap].stopped
  /\ rebuild = "built" => Len(captures) # 0 /\ ~captures[Len(captures)].stopped
                          /\ Routes(Len(captures), captures[Len(captures)].map)
  /\ \A g \in DOMAIN captures :
       /\ captures[g].width \in {0, PadOf(g)}
       /\ captures[g].stage = "none" <=> captures[g].width = 0
       /\ ~captures[g].stopped => g = Len(captures) /\ (cap = g \/ rebuild = "built")
       /\ captures[g].stopped => captures[g].stale
       /\ OfThePad(g)

\* A call that may write a matrix is on the open capture, or on one that refuses it; and
\* one call at a time is between its write and its event.
Applying(p) == routing[p].at = "record" \/ (routing[p].at = "send" /\ routing[p].cap # 0)
ApplyInv ==
  /\ \A p \in Pages :
       /\ routing[p].cap \in 0 .. Len(captures)
       /\ routing[p].at \in {"set", "record"} =>
            /\ routing[p].cap # 0
            /\ captures[routing[p].cap].stopped \/ (routing[p].cap = cap /\ ~routing[p].stale)
  /\ \A p, q \in Pages : Applying(p) /\ Applying(q) => p = q

\* Who is not late, and has looked at what is open, knows what is open.
OnTheOpenOne(p) == routing[p].at \in {"set", "read", "note", "answer"} \/ Applying(p)
KeyOf(c) == IF c = 0 THEN "" ELSE captures[c].device
CallKnows(p) ==
  LET r == routing[p] IN
  /\ OnTheOpenOne(p) => r.cap = cap /\ rebuild \in {"idle", "built"}
  /\ r.at \in {"set", "record", "read", "note"} => r.say.key = KeyOf(cap)
  /\ r.at = "send" /\ r.cap # 0 => r.say.key = KeyOf(cap)
  /\ r.at = "record" => Routes(cap, r.say.map)
  /\ r.at = "note" => r.say.width = IF cap = 0 THEN 0 ELSE captures[cap].width
  /\ r.at = "answer" => r.say = cache
  /\ r.at = "send" => /\ r.say.map = cache.map /\ r.say.width = cache.width
                      /\ r.cap = 0 => r.say = cache
WidthKnows(g) == captures[g].stage = "stamped" => g = cap /\ rebuild = "idle" /\ captures[g].say = cache

\* What the record, and what a page, is to hold.
RecordIsRight ==
  /\ captures[cap].stage \in {"stamped", "published"} =>
       cache.key = captures[cap].device /\ cache.width = captures[cap].width
  /\ (\A p \in Pages : routing[p].at = "record" => routing[p].cap # cap) => Routes(cap, cache.map)
GridsAreRight ==
  captures[cap].stage = "published" /\ (\A p \in Pages : Applying(p) => routing[p].cap # cap) =>
    \A q \in Pages : /\ grid[q].key = captures[cap].device /\ grid[q].width = captures[cap].width
                     /\ Routes(cap, grid[q].map)
KnownInv ==
  /\ \A p \in Pages : ~routing[p].stale => CallKnows(p)
  /\ \A g \in DOMAIN captures : ~captures[g].stale => WidthKnows(g)
  /\ cap = 0 => cache = Nothing
  /\ cap = 0 /\ rebuild # "forgotten" => \A q \in Pages : grid[q] = Nothing
  /\ rebuild = "built" => captures[Len(captures)].stage \notin {"stamped", "published"}
  /\ cap # 0 /\ rebuild = "idle" => RecordIsRight /\ GridsAreRight

RouteInv == RouteTypes /\ CaptureInv /\ ApplyInv /\ (~crossed => KnownInv)

-----------------------------------------------------------------------------

\* Whoever routes, loads a page or asks beside whom, over captures that are stopped and
\* built anew and a width that comes when it will: when nothing is on its way, every page
\* shows the open capture's device, width and routing, unless calls crossed; and no
\* matrix is ever of another width than the pad, or of a gain beyond the limit
\* (SetChannelMap, GetChannelMap, inputChannelsForwarder, rebuildCapture).
THEOREM RoutingIsAlwaysShown == ChanSpec => [](ChanTypeOK /\ RoutingIsShown)
<1> DEFINE Idx == 1 .. Len(captures)
           SameCaptures == /\ captures' \in Seq(CaptureState) /\ Len(captures') = Len(captures)
                           /\ \A g \in Idx : /\ captures'[g].device = captures[g].device
                                             /\ captures'[g].map = captures[g].map
                                             /\ captures'[g].stopped = captures[g].stopped
                                             /\ captures'[g].width = captures[g].width
                                             /\ captures'[g].matrix = captures[g].matrix
                                             /\ captures[g].stale => captures'[g].stale
<1>T. RouteTypes => /\ DOMAIN captures = Idx /\ Len(captures) \in Nat
                    /\ \A g \in Idx : captures[g] \in CaptureState
                    /\ \A p \in Pages : routing[p] \in CallState
  BY DEF RouteTypes
<1>S. ASSUME NEW s \in Seq(CaptureState), NEW t, t = [g \in DOMAIN s |-> t[g]],
             \A g \in DOMAIN s : t[g] \in CaptureState
      PROVE  t \in Seq(CaptureState) /\ Len(t) = Len(s)
  <2>1. DOMAIN s = 1 .. Len(s) /\ Len(s) \in Nat
    OBVIOUS
  <2>2. t \in [1 .. Len(s) -> CaptureState]
    BY <1>S, <2>1
  <2>3. QED
    BY <2>1, <2>2
<1>Late. RouteTypes =>
           /\ LateWidths \in Seq(CaptureState) /\ Len(LateWidths) = Len(captures)
           /\ \A g \in Idx :
                LateWidths[g] = IF captures[g].stage = "stamped" THEN [captures[g] EXCEPT !.stale = TRUE]
                                ELSE captures[g]
  <2> SUFFICES ASSUME RouteTypes PROVE
           /\ LateWidths \in Seq(CaptureState) /\ Len(LateWidths) = Len(captures)
           /\ \A g \in Idx :
                LateWidths[g] = IF captures[g].stage = "stamped" THEN [captures[g] EXCEPT !.stale = TRUE]
                                ELSE captures[g]
    OBVIOUS
  <2>1. \A g \in Idx :
                LateWidths[g] = IF captures[g].stage = "stamped" THEN [captures[g] EXCEPT !.stale = TRUE]
                                ELSE captures[g]
    BY <1>T DEF LateWidths, Outdated
  <2>2. \A g \in DOMAIN captures : LateWidths[g] \in CaptureState
    BY <1>T, <2>1 DEF CaptureState
  <2>3. LateWidths = [g \in DOMAIN captures |-> LateWidths[g]]
    BY DEF LateWidths
  <2>4. QED
    BY <1>S, <2>1, <2>2, <2>3 DEF RouteTypes
<1>Pages. RouteTypes =>
            /\ Forgets \in [Pages -> CallState] /\ AllLate \in [Pages -> CallState]
            /\ \A p \in Pages :
                 /\ Forgets[p] = IF routing[p].at = "idle" THEN Resting ELSE [routing[p] EXCEPT !.stale = TRUE]
                 /\ AllLate[p] = IF routing[p].at \in {"send", "note", "answer"}
                                 THEN [routing[p] EXCEPT !.stale = TRUE] ELSE routing[p]
  <2>1. Resting \in CallState /\ Nothing \in GridState
    BY DEF Resting, CallState, Nothing, GridState, CallPlaces
  <2>2. QED
    BY <1>T, <2>1 DEF Forgets, AllLate, Late, Outdated, CallState
<1>1. ChanInit => RouteInv
  <2> SUFFICES ASSUME ChanInit PROVE RouteInv
    OBVIOUS
  <2>1. Resting \in CallState /\ Nothing \in GridState
    BY DEF Resting, CallState, Nothing, GridState, CallPlaces
  <2>2. RouteTypes
    <3>1. captures \in Seq(CaptureState)
      BY EmptySeq DEF ChanInit
    <3>2. chanLeft \in [calls : Nat, captures : Nat]
      BY ChannelMapAssumption DEF ChanInit
    <3>3. QED
      BY <2>1, <3>1, <3>2 DEF ChanInit, RouteTypes
  <2>3. CaptureInv /\ ApplyInv
    BY <2>2 DEF ChanInit, CaptureInv, ApplyInv, Applying, Resting
  <2>4. KnownInv
    BY <2>2 DEF ChanInit, KnownInv, CallKnows, Resting, OnTheOpenOne, Applying, WidthKnows
  <2>5. QED
    BY <2>2, <2>3, <2>4 DEF RouteInv

<1>2. RouteInv /\ [ChanNext]_chanVars => RouteInv'
  <2> SUFFICES ASSUME RouteInv, [ChanNext]_chanVars PROVE RouteInv'
    OBVIOUS
  <2>T. RouteTypes /\ CaptureInv /\ ApplyInv /\ (~crossed => KnownInv)
    BY DEF RouteInv
  <2>I. /\ DOMAIN captures = Idx /\ Len(captures) \in Nat
        /\ \A g \in Idx : captures[g] \in CaptureState
        /\ \A p \in Pages : routing[p] \in CallState
    BY <1>T, <2>T
  <2>K. /\ cap \in 0 .. Len(captures) /\ (cap # 0 => cap \in Idx)
        /\ KeyOf(cap) \in Devices \cup {""}
    <3>0. cap \in Nat /\ (cap = 0 \/ cap = Len(captures))
      BY <2>T DEF CaptureInv, RouteTypes
    <3>1. Len(captures) \in Nat
      BY <2>I
    <3>2. cap \in 0 .. Len(captures) /\ (cap # 0 => cap \in Idx)
      BY <3>0, <3>1
    <3>3. KeyOf(cap) \in Devices \cup {""}
      BY <2>I, <3>2 DEF KeyOf, CaptureState
    <3>4. QED
      BY <3>2, <3>3
  <2>A. ASSUME NEW p \in Pages, Asks(p)
        PROVE  routing[p].at = "idle" /\ ~Applying(p) /\ chanLeft' \in [calls : Nat, captures : Nat]
    BY <2>A, <2>T DEF Asks, Applying, RouteTypes
  <2>R. ASSUME NEW a \in CallPlaces, NEW c \in Nat, NEW s \in GridState, NEW b \in BOOLEAN
        PROVE  [at |-> a, cap |-> c, say |-> s, stale |-> b] \in CallState
    BY DEF CallState
  \* A call that neither records nor is told anything, of which only its own place changes.
  <2>Own. ASSUME NEW p \in Pages, NEW r \in CallState, CallGoes(p, r),
                 UNCHANGED <<captures, rebuild, cap, cache, grid, crossed>>,
                 chanLeft' \in [calls : Nat, captures : Nat],
                 r.at \notin {"record"}, ~(r.at = "send" /\ r.cap # 0),
                 r.cap \in 0 .. Len(captures),
                 r.at = "set" => /\ r.cap # 0
                                 /\ captures[r.cap].stopped \/ (r.cap = cap /\ ~r.stale),
                 ~crossed /\ ~r.stale => CallKnows(p)',
                 \* who was between a write and its event is not this one
                 ~ Applying(p)
          PROVE  RouteInv'
    <3>0. /\ routing' \in [Pages -> CallState] /\ routing'[p] = r
          /\ \A q \in Pages \ {p} : routing'[q] = routing[q]
      BY <2>Own, <2>T DEF CallGoes, RouteTypes
    <3>1. RouteTypes'
      BY <2>Own, <2>T, <3>0 DEF RouteTypes
    <3>2. CaptureInv'
      BY <2>Own, <2>T DEF CaptureInv, PadOf, Routes, OfThePad
    <3>3. \A q \in Pages : Applying(q)' <=> Applying(q)
      BY <2>Own, <3>0 DEF Applying
    <3>4. ApplyInv'
      BY <2>Own, <2>T, <3>0, <3>3 DEF ApplyInv
    <3>5. ASSUME ~crossed PROVE KnownInv'
      <4>0. /\ captures' = captures /\ rebuild' = rebuild /\ cap' = cap /\ cache' = cache
            /\ \A q \in Pages \ {p} : routing'[q] = routing[q]
        BY <2>Own, <3>0
      <4>1. ASSUME NEW q \in Pages \ {p} PROVE CallKnows(q)' <=> CallKnows(q)
        <5>1. routing'[q] = routing[q]
          BY <4>0
        <5>2. QED
          BY <4>0, <5>1 DEF CallKnows, OnTheOpenOne, Applying, KeyOf, Routes, PadOf
      <4>2. \A g \in Idx : WidthKnows(g)' <=> WidthKnows(g)
        BY <2>Own DEF WidthKnows
      <4>3. \A q \in Pages : (routing'[q].at = "record" => routing'[q].cap # cap)
                             <=> (routing[q].at = "record" => routing[q].cap # cap)
        BY <2>Own, <3>0 DEF Applying
      <4>4. /\ RecordIsRight' <=> RecordIsRight
            /\ GridsAreRight' <=> GridsAreRight
        <5>1. RecordIsRight' <=> RecordIsRight
          BY <2>Own, <4>3 DEF RecordIsRight, Routes, PadOf
        <5>2. \A q \in Pages : (Applying(q) => routing[q].cap # cap)
                                <=> (Applying(q)' => routing'[q].cap # cap')
          BY <2>Own, <3>0, <3>3
        <5>3. GridsAreRight' <=> GridsAreRight
          BY <2>Own, <5>2 DEF GridsAreRight, Routes, PadOf
        <5>4. QED
          BY <5>1, <5>3
      <4>5. \A q \in Pages : ~routing'[q].stale => CallKnows(q)'
        BY <2>Own, <2>T, <3>5, <3>0, <4>1 DEF KnownInv
      <4>6. QED
        BY <2>Own, <2>I, <2>T, <3>5, <4>2, <4>4, <4>5 DEF KnownInv
    <3>6. QED
      BY <2>Own, <3>1, <3>2, <3>4, <3>5 DEF RouteInv
  <2>1. ASSUME NEW p \in Pages, SetChannelMap(p) PROVE RouteInv'
    <3>1. PICK m \in AnyMap : cap # 0 /\ Open(p, "set", m)
      BY <2>1 DEF SetChannelMap, AnyMap
    <3> DEFINE r == [at |-> "set", cap |-> cap, stale |-> FALSE,
                     say |-> [map |-> m, width |-> 0, key |-> IF cap = 0 THEN "" ELSE captures[cap].device]]
    <3>2. r \in CallState
      <4>1. r.say \in GridState
        BY <2>K DEF GridState, AnyMap, KeyOf
      <4>2. QED
        BY <2>T, <2>R, <4>1 DEF RouteTypes, CallPlaces
    <3>3. ~crossed => CallKnows(p)'
      BY <2>T, <3>1, <3>2 DEF Open, CallGoes, CallKnows, KeyOf, RouteTypes, OnTheOpenOne
    <3>4. QED
      <4>1. Asks(p) /\ rebuild = "idle" /\ CallGoes(p, r)
            /\ UNCHANGED <<captures, rebuild, cap, cache, grid, crossed>>
        BY <3>1 DEF Open
      <4>2. ~Applying(p) /\ chanLeft' \in [calls : Nat, captures : Nat]
        BY <2>A, <4>1
      <4>3. r.cap \in 0 .. Len(captures) /\ r.cap # 0 /\ r.cap = cap /\ ~r.stale /\ r.at = "set"
        BY <2>I, <2>K, <3>1
      <4>4. QED
        BY <2>Own, <3>2, <3>3, <4>1, <4>2, <4>3
  <2>2. ASSUME NEW p \in Pages, GetChannelMap(p) PROVE RouteInv'
    <3> DEFINE r == [at |-> "read", cap |-> cap, stale |-> FALSE,
                     say |-> [map |-> <<>>, width |-> 0, key |-> IF cap = 0 THEN "" ELSE captures[cap].device]]
    <3>2. r \in CallState
      <4>1. r.say \in GridState
        BY <2>K DEF GridState, AnyMap, KeyOf
      <4>2. QED
        BY <2>T, <2>R, <4>1 DEF RouteTypes, CallPlaces
    <3>3. ~crossed => CallKnows(p)'
      BY <2>T, <2>2, <3>2 DEF GetChannelMap, Open, CallGoes, CallKnows, KeyOf, RouteTypes, OnTheOpenOne
    <3>4. QED
      <4>1. Asks(p) /\ rebuild = "idle" /\ CallGoes(p, r)
            /\ UNCHANGED <<captures, rebuild, cap, cache, grid, crossed>>
        BY <2>2 DEF GetChannelMap, Open
      <4>2. ~Applying(p) /\ chanLeft' \in [calls : Nat, captures : Nat]
        BY <2>A, <4>1
      <4>3. r.cap \in 0 .. Len(captures) /\ r.at = "read"
        BY <2>I, <2>K
      <4>4. QED
        BY <2>Own, <3>2, <3>3, <4>1, <4>2, <4>3
  <2>3. ASSUME NEW p \in Pages, ReplayMap(p) PROVE RouteInv'
    <3> DEFINE r == [at |-> "send", cap |-> 0, say |-> cache, stale |-> FALSE]
    <3>2. r \in CallState
      BY <2>T DEF RouteTypes, CallState, CallPlaces
    <3>3. ~crossed => CallKnows(p)'
      BY <2>T, <2>3, <3>2 DEF ReplayMap, CallGoes, CallKnows, RouteTypes, OnTheOpenOne, Applying
    <3>4. QED
      BY <2>Own, <2>T, <2>3, <3>2, <3>3 DEF ReplayMap, Asks, Applying, RouteTypes, CaptureInv
  <2>4. ASSUME NEW p \in Pages, ReadWidth(p) PROVE RouteInv'
    <3> DEFINE g == routing[p].cap
               r == [routing[p] EXCEPT !.at = "note",
                       !.say.width = IF g = 0 THEN 0 ELSE negotiatedInputChannels(g)]
    <3>1. g \in 0 .. Len(captures)
      BY <2>T DEF ApplyInv
    <3>2. r \in CallState
      <4>1. (IF g = 0 THEN 0 ELSE negotiatedInputChannels(g)) \in Nat
        BY <2>I, <3>1 DEF CaptureState, negotiatedInputChannels
      <4>2. QED
        BY <2>I, <4>1 DEF CallState, CallPlaces, GridState
    <3>3. ASSUME ~crossed, ~r.stale PROVE CallKnows(p)'
      <4>1. CallKnows(p) /\ g = cap /\ rebuild \in {"idle", "built"}
        BY <2>T, <2>I, <2>4, <3>3 DEF KnownInv, ReadWidth, CallKnows, OnTheOpenOne, CallState
      <4>2. cap # 0 => negotiatedInputChannels(g) = captures[cap].width
        BY <2>T, <4>1 DEF CaptureInv, negotiatedInputChannels
      <4>3. routing'[p] = r /\ r.cap = cap /\ r.at = "note" /\ r.say.key = routing[p].say.key
            /\ r.say.width = IF cap = 0 THEN 0 ELSE captures[cap].width
        BY <2>T, <2>I, <2>4, <4>1, <4>2 DEF ReadWidth, CallGoes, RouteTypes, CallState, GridState
      <4>4. QED
        BY <2>4, <4>1, <4>3 DEF ReadWidth, CallKnows, KeyOf, OnTheOpenOne
    <3>4. QED
      BY <2>Own, <2>T, <2>I, <2>4, <3>1, <3>2, <3>3 DEF ReadWidth, Applying, RouteTypes, CallState
  <2>Frame. ASSUME SameCaptures, cap' = cap
            PROVE  /\ \A g \in Idx : /\ PadOf(g)' = PadOf(g) /\ OfThePad(g)' = OfThePad(g)
                                     /\ \A m : Routes(g, m)' = Routes(g, m)
                   /\ KeyOf(cap)' = KeyOf(cap) /\ DOMAIN captures' = Idx
    <3>1. \A g \in Idx : PadOf(g)' = PadOf(g) /\ captures'[g].matrix = captures[g].matrix
      BY <2>Frame DEF PadOf
    <3>2. \A g \in Idx : OfThePad(g)' = OfThePad(g)
      BY <3>1 DEF OfThePad
    <3>3. \A g \in Idx : \A m : Routes(g, m)' = Routes(g, m)
      BY <3>1 DEF Routes
    <3>4. KeyOf(cap)' = KeyOf(cap)
      BY <2>Frame, <2>K DEF KeyOf
    <3>5. DOMAIN captures' = 1 .. Len(captures')
      BY <2>Frame
    <3>6. QED
      BY <2>Frame, <3>1, <3>2, <3>3, <3>4, <3>5
  <2>Same. ASSUME SameCaptures, cap' = cap, rebuild' = rebuild,
                  \A g \in Idx : captures'[g].stage = "none" <=> captures[g].stage = "none"
           PROVE  CaptureInv'
    <3>1. \A g \in DOMAIN captures' : /\ captures'[g].width \in {0, PadOf(g)'}
                                      /\ captures'[g].stage = "none" <=> captures'[g].width = 0
                                      /\ ~captures'[g].stopped => g = Len(captures) /\ (cap = g \/ rebuild = "built")
                                      /\ captures'[g].stopped => captures'[g].stale
                                      /\ OfThePad(g)'
      BY <2>Same, <2>Frame, <2>T, <2>I DEF CaptureInv
    <3>2. ASSUME rebuild = "built"
          PROVE  Len(captures') # 0 /\ ~captures'[Len(captures')].stopped
                 /\ Routes(Len(captures), captures[Len(captures)].map)'
      <4>1. Len(captures) # 0 /\ ~captures[Len(captures)].stopped
            /\ Routes(Len(captures), captures[Len(captures)].map)
        BY <2>T, <3>2 DEF CaptureInv
      <4>2. Len(captures) \in Idx
        BY <2>I, <4>1
      <4>3. captures'[Len(captures)].matrix = captures[Len(captures)].matrix
            /\ captures'[Len(captures)].map = captures[Len(captures)].map
            /\ PadOf(Len(captures))' = PadOf(Len(captures)) /\ Len(captures') = Len(captures)
        BY <2>Same, <2>Frame, <4>2
      <4>4. QED
        BY <2>Same, <4>1, <4>2, <4>3 DEF Routes, PadOf
    <3>3. cap # 0 => captures'[cap].stopped = captures[cap].stopped
      BY <2>Same, <2>K
    <3>4. QED
      BY <2>Same, <2>T, <3>1, <3>2, <3>3 DEF CaptureInv
  \* Calls that stand where they were, but for one.
  <2>Apply. ASSUME SameCaptures, cap' = cap, NEW p \in Pages,
                   \A q \in Pages : routing'[q].cap = routing[q].cap \/ (q = p /\ routing'[q].cap = 0),
                   \A q \in Pages \ {p} : routing'[q].at = routing[q].at,
                   \A q \in Pages : routing'[q].at \in {"set", "record"} =>
                       routing'[q] = routing[q],
                   Applying(p)' => Applying(p) \/ \A q \in Pages : ~Applying(q)
            PROVE  ApplyInv'
    <3>1. \A q \in Pages : routing'[q].cap \in 0 .. Len(captures')
      BY <2>Apply, <2>I, <2>T DEF ApplyInv
    <3>2. \A q \in Pages : routing[q].at \in {"set", "record"} => routing[q].cap \in Idx
      BY <2>I, <2>T DEF ApplyInv
    <3>3. \A q \in Pages : routing'[q].at \in {"set", "record"} =>
            /\ routing'[q].cap # 0
            /\ captures'[routing'[q].cap].stopped \/ (routing'[q].cap = cap' /\ ~routing'[q].stale)
      BY <2>Apply, <2>T, <3>2 DEF ApplyInv
    <3>4. \A q \in Pages \ {p} : Applying(q)' => Applying(q)
      BY <2>Apply DEF Applying
    <3>5. \A q, s \in Pages : Applying(q)' /\ Applying(s)' => q = s
      BY <2>Apply, <2>T, <3>4 DEF ApplyInv
    <3>6. QED
      BY <3>1, <3>3, <3>5 DEF ApplyInv
  \* A call that has not read the record knows what it knew.
  <2>Early. ASSUME SameCaptures, cap' = cap, rebuild' = rebuild, NEW q \in Pages,
                   routing'[q] = routing[q], routing[q].at \in {"idle", "set", "record", "read"},
                   CallKnows(q)
            PROVE  CallKnows(q)'
    <3>1. KeyOf(cap)' = KeyOf(cap) /\ (Applying(q)' <=> Applying(q))
          /\ (OnTheOpenOne(q)' <=> OnTheOpenOne(q))
      BY <2>Early, <2>Frame DEF Applying, OnTheOpenOne
    <3>2. ASSUME routing[q].at = "record" PROVE Routes(cap, routing[q].say.map)'
      <4>1. cap \in Idx
        BY <2>T, <2>K, <2>Early, <3>2 DEF CallKnows, OnTheOpenOne, Applying, ApplyInv
      <4>2. PadOf(cap)' = PadOf(cap) /\ captures'[cap].matrix = captures[cap].matrix
        BY <2>Early, <2>Frame, <4>1
      <4>3. QED
        BY <2>Early, <3>2, <4>2 DEF CallKnows, Routes, PadOf
    <3>3. QED
      BY <2>Early, <3>1, <3>2 DEF CallKnows
  <2>Idle. Resting \in CallState /\ Nothing \in GridState /\ Resting.at = "idle" /\ Resting.cap = 0
           /\ Resting.stale = FALSE
    <3>1. Nothing \in GridState
      BY DEF Nothing, GridState
    <3>2. QED
      BY <2>R, <3>1 DEF Resting, CallPlaces
  \* What is only told, or answered: the pages change, and one call comes to rest.
  <2>Told. ASSUME NEW p \in Pages, CallGoes(p, Resting), Acted(routing[p].stale),
                  UNCHANGED <<captures, rebuild, cap, cache, chanLeft>>,
                  routing[p].at \in {"send", "answer"},
                  grid' \in [Pages -> GridState],
                  \A q \in Pages : grid'[q] = routing[p].say \/ (grid'[q] = grid[q] /\ ~Applying(p))
           PROVE  RouteInv'
    <3>0. /\ routing' \in [Pages -> CallState] /\ routing'[p] = Resting
          /\ \A q \in Pages \ {p} : routing'[q] = routing[q]
          /\ captures' = captures /\ cap' = cap /\ cache' = cache /\ rebuild' = rebuild
          /\ crossed' = (crossed \/ routing[p].stale)
      BY <2>Told, <2>Idle, <2>T DEF CallGoes, RouteTypes, Acted
    <3>S. SameCaptures
      BY <3>0, <2>T DEF RouteTypes
    <3>1. RouteTypes'
      BY <2>Told, <2>T, <2>I, <3>0 DEF RouteTypes, CallState
    <3>2. CaptureInv'
      BY <2>Same, <3>0, <3>S
    <3>3. ApplyInv'
      BY <2>Apply, <2>Idle, <3>0, <3>S DEF Applying
    <3>4. ASSUME ~crossed' PROVE KnownInv'
      <4>0. KnownInv /\ CallKnows(p) /\ ~routing[p].stale
        BY <2>T, <3>0, <3>4 DEF KnownInv
      <4>1. ASSUME NEW q \in Pages, ~routing'[q].stale PROVE CallKnows(q)'
        <5>1. CASE q = p
          BY <2>Idle, <3>0, <5>1 DEF CallKnows, OnTheOpenOne, Applying
        <5>2. CASE q # p
          <6>1. routing'[q] = routing[q] /\ CallKnows(q)
            BY <3>0, <4>0, <4>1, <5>2 DEF KnownInv
          <6>2. QED
            BY <3>0, <6>1 DEF CallKnows, OnTheOpenOne, Applying, KeyOf, Routes, PadOf
        <5>3. QED
          BY <5>1, <5>2
      <4>2. \A g \in DOMAIN captures' : ~captures'[g].stale => WidthKnows(g)'
        BY <3>0, <4>0 DEF KnownInv, WidthKnows
      <4>3. cap = 0 => routing[p].say = cache \/ (routing[p].at = "send" /\ routing[p].cap # 0)
        BY <2>Told, <4>0 DEF CallKnows
      <4>4. routing[p].at = "send" /\ routing[p].cap # 0 => routing[p].cap = cap
        BY <4>0 DEF CallKnows, OnTheOpenOne, Applying
      <4>5. cap' = 0 /\ rebuild' # "forgotten" => \A q \in Pages : grid'[q] = Nothing
        BY <2>Told, <3>0, <4>0, <4>3, <4>4 DEF KnownInv
      <4>6. ASSUME cap # 0, rebuild = "idle" PROVE RecordIsRight' /\ GridsAreRight'
        <5>1. RecordIsRight /\ GridsAreRight
          BY <4>0, <4>6 DEF KnownInv
        <5>2. \A q \in Pages : (routing'[q].at = "record" => routing'[q].cap # cap)
                                <=> (routing[q].at = "record" => routing[q].cap # cap)
          BY <2>Told, <2>Idle, <3>0
        <5>3. RecordIsRight'
          BY <3>0, <5>1, <5>2 DEF RecordIsRight, Routes, PadOf
        <5>4. ASSUME captures[cap].stage = "published", NEW q \in Pages,
                     \A v \in Pages : Applying(v)' => routing'[v].cap # cap
              PROVE  /\ grid'[q].key = captures[cap].device /\ grid'[q].width = captures[cap].width
                     /\ Routes(cap, grid'[q].map)
          <6>1. \A v \in Pages \ {p} : Applying(v) => routing[v].cap # cap
            BY <3>0, <5>4 DEF Applying
          <6>2. CASE grid'[q] = grid[q] /\ ~Applying(p)
            BY <5>1, <5>4, <6>1, <6>2 DEF GridsAreRight
          <6>3. CASE grid'[q] = routing[p].say
            <7>1. /\ routing[p].say.map = cache.map /\ routing[p].say.width = cache.width
                  /\ routing[p].say.key = captures[cap].device \/ routing[p].say = cache
              BY <2>Told, <4>0, <4>6 DEF CallKnows, KeyOf
            <7>2. \A v \in Pages : routing[v].at = "record" => routing[v].cap # cap
              BY <2>Told, <6>1 DEF Applying
            <7>3. QED
              BY <5>1, <5>4, <6>3, <7>1, <7>2 DEF RecordIsRight
          <6>4. QED
            BY <2>Told, <6>2, <6>3
        <5>5. GridsAreRight'
          BY <3>0, <5>4 DEF GridsAreRight, Routes, PadOf
        <5>6. QED
          BY <5>3, <5>5
      <4>7. QED
        BY <3>0, <4>0, <4>1, <4>2, <4>5, <4>6 DEF KnownInv
    <3>5. QED
      BY <3>1, <3>2, <3>3, <3>4 DEF RouteInv
  <2>5. ASSUME NEW p \in Pages, SendMap(p) PROVE RouteInv'
    <3>1. grid' \in [Pages -> GridState] /\ \A q \in Pages : grid'[q] = routing[p].say
      BY <2>5, <2>I DEF SendMap, CallState
    <3>2. QED
      BY <2>5, <3>1, <2>Told DEF SendMap
  <2>6. ASSUME NEW p \in Pages, Answer(p) PROVE RouteInv'
    <3>1. grid' \in [Pages -> GridState]
          /\ \A q \in Pages : grid'[q] = routing[p].say \/ grid'[q] = grid[q]
      BY <2>6, <2>I, <2>T DEF Answer, CallState, RouteTypes
    <3>2. ~Applying(p)
      BY <2>6 DEF Answer, Applying
    <3>3. QED
      BY <2>6, <3>1, <3>2, <2>Told DEF Answer
  <2>7. ASSUME NEW p \in Pages, WriteMatrix(p) PROVE RouteInv'
    <3>a. routing[p].at = "set" /\ ~Applying(p) /\ NobodyApplies
      BY <2>7 DEF WriteMatrix, Applying
    <3>b. PICK g : g = routing[p].cap
      OBVIOUS
    <3>c. PICK m : m = routing[p].say.map
      OBVIOUS
    <3>d. PICK w : w = negotiatedInputChannels(g)
      OBVIOUS
    <3>e. g \in Nat /\ m \in AnyMap
      BY <2>I, <3>b, <3>c DEF CallState, GridState, AnyMap
    <3>f. /\ g \in 0 .. Len(captures) /\ g # 0
          /\ captures[g].stopped \/ (g = cap /\ ~routing[p].stale)
      BY <2>T, <3>a, <3>b DEF ApplyInv
    <3>1. routing[p].at = "set" /\ ~Applying(p) /\ g \in Idx /\ m \in AnyMap
          /\ (captures[g].stopped \/ (g = cap /\ ~routing[p].stale))
      <4>1. Len(captures) \in Nat
        BY <2>I
      <4>2. QED
        BY <3>a, <3>e, <3>f, <4>1
    <3>g. IF Fits(m, w)
          THEN /\ captures' = [captures EXCEPT ![g].matrix = MixMatrix(m, w)]
               /\ CallGoes(p, [routing[p] EXCEPT !.at = "record"])
          ELSE CallGoes(p, Resting) /\ UNCHANGED captures
      BY <2>7, <3>b, <3>c, <3>d DEF WriteMatrix
    <3>2. CASE ~Fits(m, w)
      BY <3>g, <2>7, <2>T, <2>Own, <2>Idle, <3>1, <3>2 DEF WriteMatrix, CallKnows, OnTheOpenOne, Applying, CallGoes, RouteTypes
    <3>3. CASE Fits(m, w)
      <4>1. ~captures[g].stopped /\ w = captures[g].width /\ w # 0
        BY <3>3, <3>1, <3>d, <2>I DEF Fits, negotiatedInputChannels, CaptureState
      <4>2. g = cap /\ ~routing[p].stale /\ w = PadOf(g) /\ g = Len(captures) /\ w \in Nat
        BY <3>1, <4>1, <2>T, <2>I DEF CaptureInv, CaptureState
      <4>3. /\ captures' = [captures EXCEPT ![g].matrix = MixMatrix(m, w)]
            /\ CallGoes(p, [routing[p] EXCEPT !.at = "record"])
            /\ UNCHANGED <<rebuild, cap, cache, grid, chanLeft, crossed>>
        BY <2>7, <3>3, <3>g DEF WriteMatrix
      <4>4. /\ routing' \in [Pages -> CallState] /\ routing'[p] = [routing[p] EXCEPT !.at = "record"]
            /\ \A q \in Pages \ {p} : routing'[q] = routing[q]
        BY <4>3, <2>T, <2>I DEF CallGoes, RouteTypes, CallState, CallPlaces
      <4>5. /\ captures' \in Seq(CaptureState) /\ Len(captures') = Len(captures)
            /\ \A h \in Idx : captures'[h] = IF h = g THEN [captures[g] EXCEPT !.matrix = MixMatrix(m, w)] ELSE captures[h]
        <5>1. MixMatrix(m, w) \in Matrices
          BY <3>1, <4>2 DEF Matrices
        <5>2. [captures[g] EXCEPT !.matrix = MixMatrix(m, w)] \in CaptureState
          BY <2>I, <3>1, <5>1 DEF CaptureState
        <5>3. captures' = [h \in DOMAIN captures |-> captures'[h]]
          BY <4>3
        <5>4. \A h \in DOMAIN captures : captures'[h] = IF h = g THEN [captures[g] EXCEPT !.matrix = MixMatrix(m, w)] ELSE captures[h]
          BY <4>3
        <5>5. \A h \in DOMAIN captures : captures'[h] \in CaptureState
          BY <5>2, <5>4, <2>I
        <5>6. captures' \in Seq(CaptureState) /\ Len(captures') = Len(captures)
          BY <5>3, <5>5, <1>S, <2>T DEF RouteTypes
        <5>7. QED
          BY <5>4, <5>6, <2>I
      <4>6. RouteTypes'
        BY <2>T, <4>3, <4>4, <4>5 DEF RouteTypes
      <4>7. /\ \A h \in Idx : /\ captures'[h].device = captures[h].device /\ captures'[h].map = captures[h].map
                              /\ captures'[h].stopped = captures[h].stopped /\ captures'[h].stale = captures[h].stale
                              /\ captures'[h].width = captures[h].width /\ captures'[h].stage = captures[h].stage
                              /\ captures'[h].say = captures[h].say /\ PadOf(h)' = PadOf(h)
                              /\ h # g => captures'[h].matrix = captures[h].matrix
            /\ captures'[g].matrix = MixMatrix(m, w) /\ DOMAIN captures' = Idx
        BY <4>5, <3>1, <2>I DEF CaptureState, PadOf
      <4>8. OfThePad(g)' /\ \A h \in Idx \ {g} : OfThePad(h) => OfThePad(h)'
        <5>1. OfThePad(g)'
          BY <3>1, <3>3, <4>2, <4>7 DEF OfThePad
        <5>2. \A h \in Idx \ {g} : OfThePad(h) => OfThePad(h)'
          BY <4>7 DEF OfThePad
        <5>3. QED
          BY <5>1, <5>2
      <4>9. rebuild # "built" /\ cap # 0 /\ g \in Nat
        BY <2>T, <2>I, <3>1, <4>2 DEF CaptureInv
      <4>10. CaptureInv'
        <5>1. \A h \in Idx : /\ captures'[h].width \in {0, PadOf(h)'}
                             /\ captures'[h].stage = "none" <=> captures'[h].width = 0
                             /\ ~captures'[h].stopped => h = Len(captures) /\ (cap = h \/ rebuild = "built")
                             /\ captures'[h].stopped => captures'[h].stale
                             /\ OfThePad(h)'
          <6>1. \A h \in Idx : /\ captures[h].width \in {0, PadOf(h)}
                               /\ captures[h].stage = "none" <=> captures[h].width = 0
                               /\ ~captures[h].stopped => h = Len(captures) /\ (cap = h \/ rebuild = "built")
                               /\ captures[h].stopped => captures[h].stale
                               /\ OfThePad(h)
            BY <2>T, <2>I DEF CaptureInv
          <6>2. \A h \in Idx : OfThePad(h)'
            BY <4>8, <6>1
          <6>3. QED
            BY <4>7, <6>1, <6>2
        <5>2. cap # 0 => captures'[cap].stopped = captures[cap].stopped
          BY <4>7, <2>K
        <5>3. QED
          BY <2>T, <4>3, <4>5, <4>7, <4>9, <5>1, <5>2 DEF CaptureInv
      <4>11. \A q \in Pages : ~Applying(q)
        BY <3>a DEF NobodyApplies, Applying
      <4>12. ApplyInv'
        <5>1. \A q \in Pages : routing'[q].cap = routing[q].cap /\ routing'[q].stale = routing[q].stale
          BY <4>4, <2>I DEF CallState
        <5>2. \A q \in Pages : routing'[q].at \in {"set", "record"} => routing[q].at \in {"set", "record"}
          BY <4>4, <3>1
        <5>3. \A q \in Pages : routing[q].at \in {"set", "record"} => routing[q].cap \in Idx
          BY <2>I, <2>T DEF ApplyInv
        <5>4. \A q \in Pages \ {p} : ~Applying(q)'
          BY <4>4, <4>11 DEF Applying
        <5>5. QED
          BY <2>T, <2>I, <4>3, <4>5, <4>7, <5>1, <5>2, <5>3, <5>4 DEF ApplyInv
      <4>13. ASSUME ~crossed PROVE KnownInv'
        <5>0. KnownInv /\ CallKnows(p)
          BY <2>T, <4>2, <4>13 DEF KnownInv
        <5>1. cap = g /\ cap' = cap /\ rebuild' = rebuild /\ cache' = cache /\ grid' = grid /\ KeyOf(cap)' = KeyOf(cap)
          BY <4>2, <4>3, <4>7, <3>1 DEF KeyOf
        <5>2. Routes(cap, m)'
          BY <3>1, <4>2, <4>7, <5>1 DEF Routes, PadOf
        <5>3. ASSUME NEW q \in Pages, ~routing'[q].stale PROVE CallKnows(q)'
          <6>1. CASE q = p
            <7>1. routing'[p].cap = cap /\ routing'[p].at = "record" /\ routing'[p].say = routing[p].say
                  /\ rebuild \in {"idle", "built"} /\ routing[p].say.key = KeyOf(cap)
              BY <2>I, <3>1, <3>b, <4>2, <4>4, <5>0 DEF CallKnows, OnTheOpenOne, CallState
            <7>2. QED
              BY <3>c, <5>1, <5>2, <6>1, <7>1 DEF CallKnows
          <6>2. CASE q # p
            <7>1. routing'[q] = routing[q] /\ CallKnows(q) /\ routing[q].at # "record" /\ ~Applying(q)
              BY <4>4, <4>11, <5>0, <5>3, <6>2 DEF KnownInv, Applying
            <7>2. OnTheOpenOne(q)' <=> OnTheOpenOne(q)
              BY <7>1 DEF OnTheOpenOne, Applying
            <7>3. captures'[cap].width = captures[cap].width
              BY <3>1, <4>7, <5>1
            <7>4. QED
              BY <5>1, <7>1, <7>2, <7>3 DEF CallKnows
          <6>3. QED
            BY <6>1, <6>2
        <5>4. \A h \in DOMAIN captures' : ~captures'[h].stale => WidthKnows(h)'
          BY <4>7, <5>0, <5>1, <2>I DEF KnownInv, WidthKnows
        <5>5. Applying(p)' /\ routing'[p].at = "record" /\ routing'[p].cap = cap
          BY <3>b, <4>2, <4>4, <2>I DEF Applying, CallState
        <5>6. rebuild = "idle" => RecordIsRight' /\ GridsAreRight'
          <6>1. ASSUME rebuild = "idle" PROVE captures'[cap].stage \in {"stamped", "published"} =>
                    cache'.key = captures'[cap].device /\ cache'.width = captures'[cap].width
            BY <3>1, <4>7, <4>9, <5>0, <5>1, <6>1 DEF KnownInv, RecordIsRight
          <6>2. QED
            BY <5>1, <5>5, <6>1 DEF RecordIsRight, GridsAreRight
        <5>7. QED
          BY <4>9, <5>1, <5>3, <5>4, <5>6 DEF KnownInv
      <4>14. QED
        BY <4>3, <4>6, <4>10, <4>12, <4>13 DEF RouteInv
    <3>4. QED
      BY <3>2, <3>3
  \* The record is written anew by one call: whoever is about to say the old one is late.
  <2>Rec. ASSUME NEW p \in Pages, NEW r \in CallState, GoesRecording(p, r), Acted(routing[p].stale),
                 captures' = LateWidths, UNCHANGED <<rebuild, cap, grid, chanLeft>>,
                 cache' \in GridState, routing[p].at \in {"record", "note"},
                 r.cap = routing[p].cap, r.stale = routing[p].stale, r.at \in {"send", "answer"},
                 r.at = "send" <=> routing[p].at = "record",
                 ~crossed /\ ~routing[p].stale =>
                   /\ CallKnows(p)'
                   /\ cap = 0 => cache' = Nothing
                   /\ cap # 0 /\ captures[cap].stage \in {"stamped", "published"} =>
                        cache'.key = captures[cap].device /\ cache'.width = captures[cap].width
                   /\ cap # 0 => \/ routing[p].at = "record" /\ Routes(cap, cache'.map)
                                 \/ routing[p].at = "note" /\ cache'.map = cache.map
          PROVE  RouteInv'
    <3>0. /\ routing' \in [Pages -> CallState] /\ routing'[p] = r
          /\ \A q \in Pages \ {p} : routing'[q] = IF routing[q].at \in {"send", "note", "answer"}
                                                  THEN [routing[q] EXCEPT !.stale = TRUE] ELSE routing[q]
          /\ cap' = cap /\ rebuild' = rebuild /\ grid' = grid /\ crossed' = (crossed \/ routing[p].stale)
      BY <2>Rec, <1>Pages, <2>T DEF GoesRecording, Acted
    <3>1. /\ captures' \in Seq(CaptureState) /\ Len(captures') = Len(captures)
          /\ \A g \in Idx : captures'[g] = IF captures[g].stage = "stamped" THEN [captures[g] EXCEPT !.stale = TRUE]
                                           ELSE captures[g]
      BY <2>Rec, <1>Late, <2>T
    <3>2. \A g \in Idx : /\ captures'[g].device = captures[g].device /\ captures'[g].map = captures[g].map
                         /\ captures'[g].stopped = captures[g].stopped /\ captures'[g].width = captures[g].width
                         /\ captures'[g].matrix = captures[g].matrix /\ captures'[g].stage = captures[g].stage
                         /\ captures[g].stale => captures'[g].stale
                         /\ captures[g].stage = "stamped" => captures'[g].stale
      BY <3>1, <2>I DEF CaptureState
    <3>S. SameCaptures
      BY <3>1, <3>2
    <3>3. RouteTypes'
      BY <2>Rec, <2>T, <3>0, <3>1 DEF RouteTypes, Acted
    <3>4. CaptureInv'
      BY <2>Same, <3>0, <3>2, <3>S
    <3>5. \A q \in Pages \ {p} : /\ routing'[q].at = routing[q].at /\ routing'[q].cap = routing[q].cap
                                 /\ routing'[q].at \in {"set", "record"} => routing'[q] = routing[q]
      BY <3>0, <2>I DEF CallState
    <3>6. ApplyInv'
      <4>1. Applying(p)' => Applying(p)
        BY <2>Rec, <3>0 DEF Applying
      <4>2. \A q \in Pages : routing'[q].cap = routing[q].cap
        BY <2>Rec, <3>0, <3>5
      <4>3. \A q \in Pages : routing'[q].at \in {"set", "record"} => routing'[q] = routing[q]
        BY <2>Rec, <3>0, <3>5
      <4>4. QED
        BY <2>Apply, <3>0, <3>5, <3>S, <4>1, <4>2, <4>3
    <3>7. ASSUME ~crossed' PROVE KnownInv'
      <4>0. KnownInv /\ CallKnows(p) /\ ~routing[p].stale /\ ~crossed
        BY <2>T, <3>0, <3>7 DEF KnownInv
      <4>1. ASSUME NEW q \in Pages, ~routing'[q].stale PROVE CallKnows(q)'
        <5>1. CASE q = p
          BY <2>Rec, <4>0, <5>1
        <5>2. CASE q # p
          <6>1. routing'[q] = routing[q] /\ routing[q].at \in {"idle", "set", "record", "read"}
            BY <2>I, <3>0, <4>1, <5>2 DEF CallState, CallPlaces
          <6>2. CallKnows(q)
            BY <4>0, <4>1, <6>1 DEF KnownInv
          <6>3. QED
            BY <2>Early, <3>0, <3>S, <6>1, <6>2
        <5>3. QED
          BY <5>1, <5>2
      <4>2. ASSUME NEW g \in DOMAIN captures', ~captures'[g].stale PROVE WidthKnows(g)'
        <5>1. g \in Idx
          BY <2>Frame, <3>0, <3>S
        <5>2. captures'[g].stage # "stamped"
          BY <3>2, <4>2, <5>1
        <5>3. QED
          BY <5>2 DEF WidthKnows
      <4>3. cap' = 0 /\ rebuild' # "forgotten" => \A q \in Pages : grid'[q] = Nothing
        BY <3>0, <4>0 DEF KnownInv
      <4>4. rebuild' = "built" => captures'[Len(captures')].stage \notin {"stamped", "published"}
        <5>1. rebuild = "built" => Len(captures) \in Idx
          BY <2>I, <2>T DEF CaptureInv
        <5>2. QED
          BY <3>0, <3>1, <3>2, <4>0, <5>1 DEF KnownInv
      <4>5. ASSUME cap # 0, rebuild = "idle" PROVE RecordIsRight' /\ GridsAreRight'
        <5>0. cap \in Idx /\ RecordIsRight /\ GridsAreRight
          BY <2>K, <4>0, <4>5 DEF KnownInv
        <5>1. captures'[cap].stage = captures[cap].stage /\ captures'[cap].device = captures[cap].device
              /\ captures'[cap].width = captures[cap].width
          BY <3>2, <5>0
        <5>2. PadOf(cap)' = PadOf(cap) /\ captures'[cap].matrix = captures[cap].matrix
          BY <2>Frame, <3>0, <3>2, <3>S, <5>0
        <5>3. captures'[cap].stage \in {"stamped", "published"} =>
                cache'.key = captures'[cap].device /\ cache'.width = captures'[cap].width
          BY <2>Rec, <4>0, <4>5, <5>1
        <5>4. CASE routing[p].at = "record"
          <6>1. Routes(cap, cache'.map)
            BY <2>Rec, <4>0, <4>5, <5>4
          <6>2. Routes(cap, cache.map)'
            BY <3>0, <5>2, <6>1 DEF Routes, PadOf
          <6>3. routing'[p].at = "send" /\ routing'[p].cap = cap
            BY <2>Rec, <3>0, <4>0, <4>5, <5>4 DEF CallKnows, OnTheOpenOne, Applying
          <6>4. QED
            BY <3>0, <4>5, <5>3, <6>2, <6>3 DEF RecordIsRight, GridsAreRight, Applying
        <5>5. CASE routing[p].at = "note"
          <6>1. \A q \in Pages : (routing'[q].at = "record" => routing'[q].cap # cap)
                                 <=> (routing[q].at = "record" => routing[q].cap # cap)
            BY <2>Rec, <3>0, <3>5, <5>5
          <6>2. cache'.map = cache.map
            BY <2>Rec, <4>0, <4>5, <5>5
          <6>3. RecordIsRight'
            BY <3>0, <5>0, <5>2, <5>3, <6>1, <6>2 DEF RecordIsRight, Routes, PadOf
          <6>4. \A q \in Pages : Applying(q)' <=> Applying(q)
            BY <2>Rec, <3>0, <3>5, <5>5 DEF Applying
          <6>5. \A q \in Pages : routing'[q].cap = routing[q].cap
            BY <2>Rec, <3>0, <3>5
          <6>6. GridsAreRight'
            BY <3>0, <5>0, <5>1, <5>2, <6>4, <6>5 DEF GridsAreRight, Routes, PadOf
          <6>7. QED
            BY <6>3, <6>6
        <5>6. QED
          BY <2>Rec, <5>4, <5>5
      <4>6. QED
        BY <2>Rec, <3>0, <4>0, <4>1, <4>2, <4>3, <4>4, <4>5 DEF KnownInv
    <3>8. QED
      BY <3>3, <3>4, <3>6, <3>7 DEF RouteInv
  <2>8. ASSUME NEW p \in Pages, RecordMap(p) PROVE RouteInv'
    <3> DEFINE r == [routing[p] EXCEPT !.at = "send", !.say.width = cache.width]
    <3>1. r \in CallState /\ cache' \in GridState
      BY <2>8, <2>I, <2>T DEF RecordMap, RouteTypes, CallState, CallPlaces, GridState
    <3>2. /\ r.cap = routing[p].cap /\ r.stale = routing[p].stale /\ r.at = "send"
          /\ r.say.map = routing[p].say.map /\ r.say.width = cache.width /\ r.say.key = routing[p].say.key
      BY <2>I, <2>T DEF CallState, GridState, RouteTypes
    <3>3. /\ cache'.map = routing[p].say.map /\ cache'.width = cache.width /\ cache'.key = cache.key
      BY <2>8, <2>T DEF RecordMap, RouteTypes, GridState
    <3>4. ASSUME ~crossed, ~routing[p].stale
          PROVE  /\ CallKnows(p)'
                 /\ cap = 0 => cache' = Nothing
                 /\ cap # 0 /\ captures[cap].stage \in {"stamped", "published"} =>
                      cache'.key = captures[cap].device /\ cache'.width = captures[cap].width
                 /\ cap # 0 => Routes(cap, cache'.map)
      <4>1. KnownInv /\ CallKnows(p) /\ routing[p].at = "record"
        BY <2>8, <2>T, <3>4 DEF KnownInv, RecordMap
      <4>2. /\ routing[p].cap = cap /\ cap # 0 /\ rebuild \in {"idle", "built"}
            /\ routing[p].say.key = KeyOf(cap) /\ Routes(cap, routing[p].say.map)
        BY <2>T, <4>1 DEF CallKnows, OnTheOpenOne, Applying, ApplyInv
      <4>3. rebuild = "idle"
        BY <2>T, <4>2 DEF CaptureInv
      <4>4. routing'[p] = r
        BY <2>8, <1>Pages, <2>T DEF RecordMap, GoesRecording
      <4>5. KeyOf(cap)' = KeyOf(cap)
        <5>1. /\ LateWidths \in Seq(CaptureState) /\ Len(LateWidths) = Len(captures)
              /\ \A g \in Idx : LateWidths[g].device = captures[g].device
          BY <1>Late, <2>T, <2>I DEF CaptureState
        <5>2. QED
          BY <2>8, <2>K, <5>1 DEF RecordMap, KeyOf
      <4>6. CallKnows(p)'
        BY <2>8, <3>2, <3>3, <4>2, <4>3, <4>4, <4>5 DEF RecordMap, CallKnows
      <4>7. RecordIsRight
        BY <4>1, <4>2, <4>3 DEF KnownInv
      <4>8. QED
        BY <3>3, <4>2, <4>6, <4>7 DEF RecordIsRight
    <3>5. QED
      BY <2>8, <2>Rec, <3>1, <3>2, <3>4 DEF RecordMap
  <2>9. ASSUME NEW p \in Pages, NoteWidth(p) PROVE RouteInv'
    <3> DEFINE r == [routing[p] EXCEPT !.at = "answer", !.say.map = cache.map]
    <3>1. r \in CallState /\ cache' \in GridState
      BY <2>9, <2>I, <2>T DEF NoteWidth, RouteTypes, CallState, CallPlaces, GridState
    <3>2. /\ r.cap = routing[p].cap /\ r.stale = routing[p].stale /\ r.at = "answer" /\ r.say = cache'
      BY <2>9, <2>I, <2>T DEF NoteWidth, CallState, GridState, RouteTypes
    <3>3. /\ cache'.map = cache.map /\ cache'.width = routing[p].say.width /\ cache'.key = routing[p].say.key
      BY <2>9, <2>I, <2>T DEF NoteWidth, RouteTypes, CallState, GridState
    <3>4. ASSUME ~crossed, ~routing[p].stale
          PROVE  /\ CallKnows(p)'
                 /\ cap = 0 => cache' = Nothing
                 /\ cap # 0 /\ captures[cap].stage \in {"stamped", "published"} =>
                      cache'.key = captures[cap].device /\ cache'.width = captures[cap].width
      <4>1. KnownInv /\ CallKnows(p) /\ routing[p].at = "note"
        BY <2>9, <2>T, <3>4 DEF KnownInv, NoteWidth
      <4>2. /\ routing[p].cap = cap /\ rebuild \in {"idle", "built"}
            /\ routing[p].say.key = KeyOf(cap)
            /\ routing[p].say.width = IF cap = 0 THEN 0 ELSE captures[cap].width
        BY <4>1 DEF CallKnows, OnTheOpenOne
      <4>3. routing'[p] = r
        BY <2>9, <1>Pages, <2>T DEF NoteWidth, GoesRecording
      <4>4. CallKnows(p)'
        BY <2>9, <3>2, <4>2, <4>3 DEF NoteWidth, CallKnows
      <4>5. cap = 0 => cache' = Nothing
        <5>1. cap = 0 => cache.map = <<>> /\ routing[p].say.width = 0 /\ routing[p].say.key = ""
          <6>1. cap = 0 => cache = Nothing
            BY <4>1 DEF KnownInv
          <6>2. Nothing.map = <<>>
            BY DEF Nothing
          <6>3. cap = 0 => routing[p].say.width = 0 /\ routing[p].say.key = ""
            BY <4>2 DEF KeyOf
          <6>4. QED
            BY <6>1, <6>2, <6>3
        <5>2. QED
          BY <3>1, <3>3, <5>1 DEF GridState, Nothing
      <4>6. QED
        BY <3>3, <4>2, <4>4, <4>5 DEF KeyOf
    <3>5. QED
      BY <2>9, <2>Rec, <3>1, <3>2, <3>3, <3>4 DEF NoteWidth
  \* A capture's width is on its way: of one capture the stage changes, and who was about
  \* to say something else may be late.
  <2>10. ASSUME NEW g \in DOMAIN captures, PadNegotiates(g) PROVE RouteInv'
    <3> DEFINE w == Pad[captures[g].device]
    <3>1. /\ g = Len(captures) /\ ~captures[g].stopped /\ captures[g].width = 0 /\ g \in Idx
          /\ captures' = [captures EXCEPT ![g] = [captures[g] EXCEPT !.width = Pad[captures[g].device], !.stage = "queued"]]
          /\ routing' = [q \in Pages |-> IF routing[q].at = "note" THEN [routing[q] EXCEPT !.stale = TRUE] ELSE routing[q]]
          /\ UNCHANGED <<rebuild, cap, cache, grid, chanLeft, crossed>>
      BY <2>10, <2>I DEF PadNegotiates, Outdated
    <3>2. Pad[captures[g].device] \in Nat \ {0}
      BY <2>I, <3>1, ChannelMapAssumption DEF CaptureState
    <3>3. /\ captures' \in Seq(CaptureState) /\ Len(captures') = Len(captures) /\ DOMAIN captures' = Idx
          /\ \A h \in Idx : captures'[h] = IF h = g THEN [captures[g] EXCEPT !.width = Pad[captures[g].device], !.stage = "queued"]
                                           ELSE captures[h]
      <4>1. \A h \in DOMAIN captures :
              captures'[h] = IF h = g THEN [captures[g] EXCEPT !.width = Pad[captures[g].device], !.stage = "queued"]
                             ELSE captures[h]
        BY <3>1
      <4>2. captures' = [h \in DOMAIN captures |-> captures'[h]]
        BY <3>1
      <4>3. \A h \in DOMAIN captures : captures'[h] \in CaptureState
        <5>1. captures[g] \in CaptureState /\ "queued" \in Stages
          BY <2>I, <3>1 DEF Stages
        <5>2. [captures[g] EXCEPT !.width = Pad[captures[g].device], !.stage = "queued"] \in CaptureState
          BY <3>2, <5>1 DEF CaptureState
        <5>3. QED
          BY <2>I, <4>1, <5>2
      <4>4. QED
        BY <1>S, <2>T, <2>I, <4>1, <4>2, <4>3 DEF RouteTypes
    <3>4. \A h \in Idx : /\ captures'[h].device = captures[h].device /\ captures'[h].map = captures[h].map
                         /\ captures'[h].stopped = captures[h].stopped /\ captures'[h].stale = captures[h].stale
                         /\ captures'[h].say = captures[h].say /\ captures'[h].matrix = captures[h].matrix
                         /\ h # g => captures'[h].width = captures[h].width /\ captures'[h].stage = captures[h].stage
                         /\ PadOf(h)' = PadOf(h) /\ (OfThePad(h)' <=> OfThePad(h))
      <4> SUFFICES ASSUME NEW h \in Idx
                   PROVE /\ captures'[h].device = captures[h].device /\ captures'[h].map = captures[h].map
                         /\ captures'[h].stopped = captures[h].stopped /\ captures'[h].stale = captures[h].stale
                         /\ captures'[h].say = captures[h].say /\ captures'[h].matrix = captures[h].matrix
                         /\ h # g => captures'[h].width = captures[h].width /\ captures'[h].stage = captures[h].stage
                         /\ PadOf(h)' = PadOf(h) /\ (OfThePad(h)' <=> OfThePad(h))
        OBVIOUS
      <4>1. /\ captures'[h].device = captures[h].device /\ captures'[h].map = captures[h].map
            /\ captures'[h].stopped = captures[h].stopped /\ captures'[h].stale = captures[h].stale
            /\ captures'[h].say = captures[h].say /\ captures'[h].matrix = captures[h].matrix
            /\ h # g => captures'[h].width = captures[h].width /\ captures'[h].stage = captures[h].stage
        <5>1. captures[h] \in CaptureState
          BY <2>I
        <5>2. CASE h = g
          BY <3>3, <5>1, <5>2 DEF CaptureState
        <5>3. CASE h # g
          BY <3>3, <5>3
        <5>4. QED
          BY <5>2, <5>3
      <4>2. PadOf(h)' = PadOf(h)
        BY <4>1 DEF PadOf
      <4>3. OfThePad(h)' <=> OfThePad(h)
        BY <4>1, <4>2 DEF OfThePad
      <4>4. QED
        BY <4>1, <4>2, <4>3
    <3>5. captures'[g].width = PadOf(g) /\ captures'[g].stage = "queued" /\ PadOf(g) # 0
      BY <2>I, <3>1, <3>2, <3>3 DEF CaptureState, PadOf
    <3>6. /\ routing' \in [Pages -> CallState]
          /\ \A q \in Pages : /\ routing'[q].at = routing[q].at /\ routing'[q].cap = routing[q].cap
                              /\ routing'[q].say = routing[q].say
                              /\ routing[q].at # "note" => routing'[q] = routing[q]
                              /\ routing[q].at = "note" => routing'[q].stale
      BY <2>I, <3>1 DEF CallState
    <3>7. RouteTypes'
      BY <2>T, <3>1, <3>3, <3>6 DEF RouteTypes
    <3>8. CaptureInv'
      <4>1. \A h \in Idx : /\ captures[h].width \in {0, PadOf(h)}
                           /\ captures[h].stage = "none" <=> captures[h].width = 0
                           /\ ~captures[h].stopped => h = Len(captures) /\ (cap = h \/ rebuild = "built")
                           /\ captures[h].stopped => captures[h].stale
                           /\ OfThePad(h)
        BY <2>T, <2>I DEF CaptureInv
      <4>2. \A h \in Idx : /\ captures'[h].width \in {0, PadOf(h)'}
                           /\ captures'[h].stage = "none" <=> captures'[h].width = 0
                           /\ ~captures'[h].stopped => h = Len(captures) /\ (cap = h \/ rebuild = "built")
                           /\ captures'[h].stopped => captures'[h].stale
                           /\ OfThePad(h)'
        BY <3>4, <3>5, <4>1
      <4>3. cap # 0 => captures'[cap].stopped = captures[cap].stopped
        BY <2>K, <3>4
      <4>4. rebuild = "built" => Len(captures') # 0 /\ ~captures'[Len(captures')].stopped
                                 /\ Routes(Len(captures), captures[Len(captures)].map)'
        BY <2>T, <3>1, <3>3, <3>4 DEF CaptureInv, Routes, PadOf
      <4>5. QED
        BY <2>T, <3>1, <3>3, <4>2, <4>3, <4>4 DEF CaptureInv
    <3>9. ApplyInv'
      <4>1. \A q \in Pages : Applying(q)' <=> Applying(q)
        BY <3>6 DEF Applying
      <4>2. \A q \in Pages : routing[q].at \in {"set", "record"} => routing[q].cap \in Idx
        BY <2>T, <2>I DEF ApplyInv
      <4>3. QED
        BY <2>T, <2>I, <3>1, <3>3, <3>4, <3>6, <4>1, <4>2 DEF ApplyInv
    <3>10. ASSUME ~crossed PROVE KnownInv'
      <4>0. KnownInv
        BY <2>T, <3>10
      <4>1. KeyOf(cap)' = KeyOf(cap) /\ cap' = cap /\ rebuild' = rebuild /\ cache' = cache
        BY <2>K, <3>1, <3>4 DEF KeyOf
      <4>2. ASSUME NEW q \in Pages, ~routing'[q].stale PROVE CallKnows(q)'
        <5>1. routing'[q] = routing[q] /\ routing[q].at # "note" /\ CallKnows(q)
          BY <3>6, <4>0, <4>2 DEF KnownInv
        <5>2. (OnTheOpenOne(q)' <=> OnTheOpenOne(q))
          BY <5>1 DEF OnTheOpenOne, Applying
        <5>3. routing[q].at = "record" => Routes(cap, routing[q].say.map)'
          <6>1. routing[q].at = "record" => cap \in Idx /\ Routes(cap, routing[q].say.map)
            BY <2>T, <2>K, <5>1 DEF CallKnows, OnTheOpenOne, Applying, ApplyInv
          <6>2. QED
            BY <3>4, <4>1, <5>1, <6>1 DEF Routes, PadOf
        <5>4. QED
          BY <4>1, <5>1, <5>2, <5>3 DEF CallKnows
      <4>3. \A h \in DOMAIN captures' : ~captures'[h].stale => WidthKnows(h)'
        BY <2>I, <3>3, <3>4, <3>5, <4>0, <4>1 DEF KnownInv, WidthKnows
      <4>4. rebuild = "built" => captures'[Len(captures')].stage \notin {"stamped", "published"}
        BY <3>1, <3>3, <3>5
      <4>5. cap # 0 => cap = g /\ captures'[cap].stage = "queued"
        BY <2>T, <3>1, <3>5 DEF CaptureInv
      <4>6. ASSUME cap # 0, rebuild = "idle" PROVE RecordIsRight' /\ GridsAreRight'
        <5>1. RecordIsRight
          BY <4>0, <4>6 DEF KnownInv
        <5>2. \A q \in Pages : (routing'[q].at = "record" => routing'[q].cap # cap)
                                <=> (routing[q].at = "record" => routing[q].cap # cap)
          BY <3>6
        <5>3. Routes(cap, cache.map)' <=> Routes(cap, cache.map)
          BY <3>4, <4>1, <2>K, <4>6 DEF Routes, PadOf
        <5>4. QED
          BY <4>1, <4>5, <4>6, <5>1, <5>2, <5>3 DEF RecordIsRight, GridsAreRight
      <4>7. QED
        BY <3>1, <4>0, <4>1, <4>2, <4>3, <4>4, <4>6 DEF KnownInv
    <3>11. QED
      BY <3>1, <3>7, <3>8, <3>9, <3>10 DEF RouteInv
  \* Of one capture only where its width stands on its way changes.
  <2>Way. ASSUME NEW g \in DOMAIN captures, NEW c \in CaptureState,
                 captures' \in Seq(CaptureState), Len(captures') = Len(captures), captures'[g] = c,
                 \A h \in Idx : h # g => captures'[h] = LateWidths[h] \/ captures'[h] = captures[h],
                 c.device = captures[g].device, c.map = captures[g].map, c.stopped = captures[g].stopped,
                 c.width = captures[g].width, c.matrix = captures[g].matrix, c.stale = captures[g].stale,
                 c.stage # "none", captures[g].stage # "none"
          PROVE  /\ SameCaptures
                 /\ \A h \in Idx : captures'[h].stage = "none" <=> captures[h].stage = "none"
                 /\ \A h \in Idx : h # g => /\ captures'[h].stage = captures[h].stage
                                            /\ captures'[h].say = captures[h].say
    <3>1. \A h \in Idx : LateWidths[h] = IF captures[h].stage = "stamped" THEN [captures[h] EXCEPT !.stale = TRUE]
                                         ELSE captures[h]
      BY <1>Late, <2>T
    <3>2. \A h \in Idx : h # g => /\ captures'[h].device = captures[h].device
                                  /\ captures'[h].map = captures[h].map
                                  /\ captures'[h].stopped = captures[h].stopped
                                  /\ captures'[h].width = captures[h].width
                                  /\ captures'[h].matrix = captures[h].matrix
                                  /\ captures'[h].stage = captures[h].stage
                                  /\ captures'[h].say = captures[h].say
                                  /\ captures[h].stale => captures'[h].stale
      <4> SUFFICES ASSUME NEW h \in Idx, h # g
                   PROVE  /\ captures'[h].device = captures[h].device
                          /\ captures'[h].map = captures[h].map
                          /\ captures'[h].stopped = captures[h].stopped
                          /\ captures'[h].width = captures[h].width
                          /\ captures'[h].matrix = captures[h].matrix
                          /\ captures'[h].stage = captures[h].stage
                          /\ captures'[h].say = captures[h].say
                          /\ captures[h].stale => captures'[h].stale
        OBVIOUS
      <4>1. captures'[h] = captures[h] \/ captures'[h] = [captures[h] EXCEPT !.stale = TRUE]
        BY <2>Way, <3>1
      <4>2. captures[h] \in CaptureState
        BY <2>I
      <4>3. QED
        BY <4>1, <4>2 DEF CaptureState
    <3>3. QED
      BY <2>Way, <2>I, <3>2
  <2>11. ASSUME NEW g \in DOMAIN captures, TakeWidth(g) PROVE RouteInv'
    <3>1. PICK s \in {"taken", "published"} :
             /\ captures' = [captures EXCEPT ![g] = [captures[g] EXCEPT !.stage = s]]
             /\ s = "published" => captures[g].stopped
      BY <2>11 DEF TakeWidth
    <3>2. /\ captures[g].stage = "queued" /\ g \in Idx
          /\ UNCHANGED <<rebuild, cap, cache, grid, routing, chanLeft, crossed>>
      BY <2>11, <2>I DEF TakeWidth
    <3>3. [captures[g] EXCEPT !.stage = s] \in CaptureState /\ s # "none" /\ s # "stamped"
      BY <2>I, <3>1, <3>2 DEF CaptureState, Stages
    <3>4. /\ captures' \in Seq(CaptureState) /\ Len(captures') = Len(captures)
          /\ captures'[g] = [captures[g] EXCEPT !.stage = s]
          /\ \A h \in Idx : h # g => captures'[h] = captures[h]
      <4>1. captures' = [h \in DOMAIN captures |-> captures'[h]]
        BY <3>1
      <4>2. \A h \in DOMAIN captures : captures'[h] = IF h = g THEN [captures[g] EXCEPT !.stage = s] ELSE captures[h]
        BY <3>1
      <4>3. QED
        BY <1>S, <2>T, <2>I, <3>3, <4>1, <4>2 DEF RouteTypes
    <3> DEFINE c == [captures[g] EXCEPT !.stage = s]
    <3>5. /\ c.device = captures[g].device /\ c.map = captures[g].map /\ c.stopped = captures[g].stopped
          /\ c.width = captures[g].width /\ c.matrix = captures[g].matrix /\ c.stale = captures[g].stale
          /\ c.stage = s
      BY <2>I, <3>2 DEF CaptureState
    <3>6. /\ SameCaptures
          /\ \A h \in Idx : captures'[h].stage = "none" <=> captures[h].stage = "none"
      BY <2>Way, <3>2, <3>3, <3>4, <3>5
    <3>7. RouteTypes'
      BY <2>T, <3>2, <3>4 DEF RouteTypes
    <3>8. CaptureInv'
      BY <2>Same, <3>2, <3>6
    <3>9. ApplyInv'
      <4>1. \A q \in Pages : routing[q].at \in {"set", "record"} => routing[q].cap \in Idx
        BY <2>T, <2>I DEF ApplyInv
      <4>2. QED
        BY <2>T, <3>2, <3>6, <4>1 DEF ApplyInv, Applying
    <3>10. ASSUME ~crossed PROVE KnownInv'
      <4>0. KnownInv
        BY <2>T, <3>10
      <4>1. KeyOf(cap)' = KeyOf(cap) /\ DOMAIN captures' = Idx /\ \A h \in Idx : \A m : Routes(h, m)' = Routes(h, m)
        BY <2>Frame, <3>2, <3>6
      <4>2. ASSUME NEW q \in Pages, ~routing'[q].stale PROVE CallKnows(q)'
        <5>1. routing'[q] = routing[q] /\ CallKnows(q)
          BY <3>2, <4>0, <4>2 DEF KnownInv
        <5>2. (OnTheOpenOne(q)' <=> OnTheOpenOne(q)) /\ (Applying(q)' <=> Applying(q))
          BY <5>1 DEF OnTheOpenOne, Applying
        <5>3. routing[q].at = "record" => Routes(cap, routing[q].say.map)'
          <6>1. routing[q].at = "record" => cap \in Idx /\ Routes(cap, routing[q].say.map)
            BY <2>T, <2>K, <5>1 DEF CallKnows, OnTheOpenOne, Applying, ApplyInv
          <6>2. cap \in Idx => PadOf(cap)' = PadOf(cap) /\ captures'[cap].matrix = captures[cap].matrix
            BY <2>Frame, <3>2, <3>6
          <6>3. QED
            BY <3>2, <5>1, <6>1, <6>2 DEF Routes, PadOf
        <5>4. cap # 0 => captures'[cap].width = captures[cap].width
          BY <2>K, <3>6
        <5>5. QED
          BY <3>2, <4>1, <5>1, <5>2, <5>3, <5>4 DEF CallKnows
      <4>3. ASSUME NEW h \in DOMAIN captures', ~captures'[h].stale PROVE WidthKnows(h)'
        <5>1. CASE h = g
          BY <3>3, <3>4, <3>5, <5>1 DEF WidthKnows
        <5>2. CASE h # g
          <6>1. captures'[h] = captures[h] /\ WidthKnows(h)
            BY <2>I, <3>4, <4>0, <4>1, <4>3, <5>2 DEF KnownInv
          <6>2. QED
            BY <3>2, <6>1 DEF WidthKnows
        <5>3. QED
          BY <5>1, <5>2
      <4>4. rebuild = "built" => captures'[Len(captures')].stage \notin {"stamped", "published"}
        <5>1. rebuild = "built" => Len(captures) \in Idx /\ ~captures[Len(captures)].stopped
          BY <2>I, <2>T DEF CaptureInv
        <5>2. QED
          BY <3>1, <3>3, <3>4, <3>5, <4>0, <5>1 DEF KnownInv
      <4>5. ASSUME cap # 0, rebuild = "idle" PROVE RecordIsRight' /\ GridsAreRight'
        <5>0. cap \in Idx /\ RecordIsRight /\ GridsAreRight /\ ~captures[cap].stopped
          BY <2>K, <2>T, <4>0, <4>5 DEF KnownInv, CaptureInv
        <5>1. /\ captures'[cap].stage \in {"stamped", "published"} => captures'[cap].stage = captures[cap].stage
              /\ captures'[cap].device = captures[cap].device /\ captures'[cap].width = captures[cap].width
          BY <3>1, <3>4, <3>5, <3>6, <5>0
        <5>2. PadOf(cap)' = PadOf(cap) /\ captures'[cap].matrix = captures[cap].matrix
          BY <2>Frame, <3>2, <3>6, <5>0
        <5>3. RecordIsRight'
          BY <3>2, <5>0, <5>1, <5>2 DEF RecordIsRight, Routes, PadOf
        <5>4. GridsAreRight'
          BY <3>2, <5>0, <5>1, <5>2 DEF GridsAreRight, Routes, PadOf, Applying
        <5>5. QED
          BY <5>3, <5>4
      <4>6. QED
        BY <3>2, <4>0, <4>2, <4>3, <4>4, <4>5 DEF KnownInv
    <3>11. QED
      BY <3>2, <3>7, <3>8, <3>9, <3>10 DEF RouteInv
  <2>12. ASSUME NEW g \in DOMAIN captures, StampWidth(g) PROVE RouteInv'
    <3>a. PICK said : said = [map |-> cache.map, width |-> captures[g].width, key |-> captures[g].device]
      OBVIOUS
    <3>b. PICK c : c = [captures[g] EXCEPT !.stage = "stamped", !.say = said]
      OBVIOUS
    <3>1. /\ captures[g].stage = "taken" /\ g \in Idx /\ captures[g] \in CaptureState
          /\ cache' = said /\ routing' = AllLate
          /\ captures' = [LateWidths EXCEPT ![g].stage = "stamped", ![g].say = said]
          /\ crossed' = (crossed \/ captures[g].stale \/ cap # g)
          /\ UNCHANGED <<rebuild, cap, grid, chanLeft>>
      BY <2>12, <2>I, <3>a DEF StampWidth, Acted
    <3>2. /\ said \in GridState /\ said.map = cache.map /\ said.width = captures[g].width
          /\ said.key = captures[g].device
      BY <2>T, <3>1, <3>a DEF GridState, CaptureState, RouteTypes
    <3>3. /\ c \in CaptureState /\ c.device = captures[g].device /\ c.map = captures[g].map
          /\ c.stopped = captures[g].stopped /\ c.width = captures[g].width /\ c.matrix = captures[g].matrix
          /\ c.stale = captures[g].stale /\ c.stage = "stamped" /\ c.say = said
      BY <3>1, <3>2, <3>b DEF CaptureState, Stages
    <3>4. /\ LateWidths \in Seq(CaptureState) /\ Len(LateWidths) = Len(captures) /\ DOMAIN LateWidths = Idx
          /\ LateWidths[g] = captures[g]
          /\ \A h \in Idx : LateWidths[h] = IF captures[h].stage = "stamped" THEN [captures[h] EXCEPT !.stale = TRUE]
                                            ELSE captures[h]
      <4>1. /\ LateWidths \in Seq(CaptureState) /\ Len(LateWidths) = Len(captures)
            /\ \A h \in Idx : LateWidths[h] = IF captures[h].stage = "stamped" THEN [captures[h] EXCEPT !.stale = TRUE]
                                              ELSE captures[h]
        BY <1>Late, <2>T
      <4>2. DOMAIN LateWidths = 1 .. Len(LateWidths)
        BY <4>1
      <4>3. QED
        BY <3>1, <4>1, <4>2
    <3>5. /\ captures' \in Seq(CaptureState) /\ Len(captures') = Len(captures) /\ captures'[g] = c
          /\ \A h \in Idx : h # g => captures'[h] = LateWidths[h]
      <4>1. \A h \in DOMAIN LateWidths : captures'[h] = IF h = g THEN c ELSE LateWidths[h]
        BY <3>1, <3>4, <3>b
      <4>2. captures' = [h \in DOMAIN LateWidths |-> captures'[h]]
        BY <3>1
      <4>3. \A h \in DOMAIN LateWidths : captures'[h] \in CaptureState
        BY <3>3, <3>4, <4>1
      <4>4. captures' \in Seq(CaptureState) /\ Len(captures') = Len(LateWidths)
        <5>1. LateWidths \in Seq(CaptureState)
          BY <3>4
        <5>2. QED
          BY ONLY <1>S, <5>1, <4>2, <4>3
      <4>5. DOMAIN LateWidths = Idx /\ g \in Idx /\ Len(LateWidths) = Len(captures)
        BY <3>1, <3>4
      <4>6. QED
        BY ONLY <4>1, <4>4, <4>5
    <3>6. /\ SameCaptures
          /\ \A h \in Idx : captures'[h].stage = "none" <=> captures[h].stage = "none"
          /\ \A h \in Idx : h # g => captures'[h].stage = captures[h].stage
      BY <2>Way, <3>1, <3>3, <3>5
    <3>7. /\ routing' \in [Pages -> CallState]
          /\ \A q \in Pages : /\ routing'[q].at = routing[q].at /\ routing'[q].cap = routing[q].cap
                              /\ routing[q].at \in {"send", "note", "answer"} => routing'[q].stale
                              /\ routing[q].at \notin {"send", "note", "answer"} => routing'[q] = routing[q]
      BY <1>Pages, <2>T, <2>I, <3>1 DEF CallState
    <3>8. RouteTypes'
      BY <2>T, <3>1, <3>2, <3>5, <3>7 DEF RouteTypes
    <3>9. CaptureInv'
      BY <2>Same, <3>1, <3>6
    <3>10. ApplyInv'
      <4>1. \A q \in Pages : Applying(q)' <=> Applying(q)
        BY <3>7 DEF Applying
      <4>2. \A q \in Pages : routing[q].at \in {"set", "record"} => routing[q].cap \in Idx
        BY <2>T, <2>I DEF ApplyInv
      <4>3. \A q \in Pages : routing'[q].at \in {"set", "record"} => routing'[q] = routing[q]
        BY <3>7
      <4>4. \A h \in Idx : captures'[h].stopped = captures[h].stopped
        BY <3>6
      <4>5. \A q \in Pages :
              /\ routing'[q].cap \in 0 .. Len(captures')
              /\ routing'[q].at \in {"set", "record"} =>
                   /\ routing'[q].cap # 0
                   /\ captures'[routing'[q].cap].stopped \/ (routing'[q].cap = cap' /\ ~routing'[q].stale)
        <5> SUFFICES ASSUME NEW q \in Pages PROVE
              /\ routing'[q].cap \in 0 .. Len(captures')
              /\ routing'[q].at \in {"set", "record"} =>
                   /\ routing'[q].cap # 0
                   /\ captures'[routing'[q].cap].stopped \/ (routing'[q].cap = cap' /\ ~routing'[q].stale)
          OBVIOUS
        <5>1. routing'[q].cap = routing[q].cap /\ Len(captures') = Len(captures) /\ cap' = cap
              /\ routing'[q].at = routing[q].at
          BY <3>1, <3>5, <3>7
        <5>2. routing[q].cap \in 0 .. Len(captures)
          BY <2>T DEF ApplyInv
        <5>3. ASSUME routing[q].at \in {"set", "record"}
              PROVE  /\ routing[q].cap # 0
                     /\ captures'[routing[q].cap].stopped \/ (routing[q].cap = cap /\ ~routing'[q].stale)
          <6>1. /\ routing[q].cap # 0 /\ routing[q].cap \in Idx
                /\ captures[routing[q].cap].stopped \/ (routing[q].cap = cap /\ ~routing[q].stale)
            BY <2>T, <4>2, <5>3 DEF ApplyInv
          <6>2. QED
            BY <4>3, <4>4, <5>1, <5>3, <6>1
        <5>4. QED
          BY <5>1, <5>2, <5>3
      <4>6. QED
        BY <2>T, <4>1, <4>5 DEF ApplyInv
    <3>11. ASSUME ~crossed' PROVE KnownInv'
      <4>0. KnownInv /\ ~captures[g].stale /\ cap = g /\ cap # 0
        <5>1. KnownInv /\ ~captures[g].stale /\ cap = g
          BY <2>T, <3>1, <3>11
        <5>2. g # 0
          <6>1. Len(captures) \in Nat /\ g \in 1 .. Len(captures)
            BY <2>I, <3>1
          <6>2. QED
            BY <6>1
        <5>3. QED
          BY <5>1, <5>2
      <4>1. ~captures[g].stopped /\ rebuild = "idle"
        BY <2>T, <2>I, <3>1, <4>0 DEF CaptureInv, RouteTypes
      <4>2. ASSUME NEW q \in Pages, ~routing'[q].stale PROVE CallKnows(q)'
        <5>1. routing'[q] = routing[q] /\ routing[q].at \in {"idle", "set", "record", "read"} /\ CallKnows(q)
          BY <2>I, <3>7, <4>0, <4>2 DEF KnownInv, CallState, CallPlaces
        <5>2. QED
          BY <2>Early, <3>1, <3>6, <5>1
      <4>3. ASSUME NEW h \in DOMAIN captures', ~captures'[h].stale PROVE WidthKnows(h)'
        <5>1. h \in Idx
          BY <2>Frame, <3>1, <3>6
        <5>2. CASE h = g
          BY <3>1, <3>3, <3>5, <4>0, <4>1, <5>2 DEF WidthKnows
        <5>3. CASE h # g
          <6>1. captures'[h] = LateWidths[h] /\ captures[h] \in CaptureState
            BY <2>I, <3>5, <5>1, <5>3
          <6>2. captures[h].stage # "stamped"
            BY <3>4, <4>3, <5>1, <6>1 DEF CaptureState
          <6>3. QED
            BY <3>6, <5>1, <5>3, <6>2 DEF WidthKnows
        <5>4. QED
          BY <5>2, <5>3
      <4>4. RecordIsRight' /\ GridsAreRight'
        <5>0. RecordIsRight /\ cap \in Idx
          BY <2>K, <4>0, <4>1 DEF KnownInv
        <5>1. captures'[cap].stage = "stamped" /\ captures'[cap].device = captures[cap].device
              /\ captures'[cap].width = captures[cap].width
          BY <3>3, <3>5, <4>0
        <5>2. PadOf(cap)' = PadOf(cap) /\ captures'[cap].matrix = captures[cap].matrix
          BY <2>Frame, <3>1, <3>6, <5>0
        <5>3. \A q \in Pages : (routing'[q].at = "record" => routing'[q].cap # cap)
                                <=> (routing[q].at = "record" => routing[q].cap # cap)
          BY <3>7
        <5>4. cache'.map = cache.map /\ cache'.key = captures'[cap].device /\ cache'.width = captures'[cap].width
          BY <3>1, <3>2, <4>0, <5>1
        <5>5. RecordIsRight'
          BY <3>1, <5>0, <5>2, <5>3, <5>4 DEF RecordIsRight, Routes, PadOf
        <5>6. GridsAreRight'
          BY <3>1, <5>1 DEF GridsAreRight
        <5>7. QED
          BY <5>5, <5>6
      <4>5. QED
        BY <3>1, <4>0, <4>1, <4>2, <4>3, <4>4 DEF KnownInv
    <3>12. QED
      BY <3>1, <3>8, <3>9, <3>10, <3>11 DEF RouteInv
  <2>13. ASSUME NEW g \in DOMAIN captures, PublishWidth(g) PROVE RouteInv'
    <3>b. PICK c : c = [captures[g] EXCEPT !.stage = "published", !.say = Nothing]
      OBVIOUS
    <3>1. /\ captures[g].stage = "stamped" /\ g \in Idx /\ captures[g] \in CaptureState
          /\ grid' = [q \in Pages |-> captures[g].say]
          /\ captures' = [captures EXCEPT ![g].stage = "published", ![g].say = Nothing]
          /\ crossed' = (crossed \/ captures[g].stale)
          /\ UNCHANGED <<rebuild, cap, cache, routing, chanLeft>>
      BY <2>13, <2>I DEF PublishWidth, Acted
    <3>3. /\ c \in CaptureState /\ c.device = captures[g].device /\ c.map = captures[g].map
          /\ c.stopped = captures[g].stopped /\ c.width = captures[g].width /\ c.matrix = captures[g].matrix
          /\ c.stale = captures[g].stale /\ c.stage = "published"
      BY <2>Idle, <3>1, <3>b DEF CaptureState, Stages
    <3>5. /\ captures' \in Seq(CaptureState) /\ Len(captures') = Len(captures) /\ captures'[g] = c
          /\ \A h \in Idx : h # g => captures'[h] = captures[h]
      <4>1. \A h \in DOMAIN captures : captures'[h] = IF h = g THEN c ELSE captures[h]
        BY <3>1, <3>b
      <4>2. captures' = [h \in DOMAIN captures |-> captures'[h]]
        BY <3>1
      <4>3. \A h \in DOMAIN captures : captures'[h] \in CaptureState
        BY <2>I, <3>3, <4>1
      <4>4. captures' \in Seq(CaptureState) /\ Len(captures') = Len(captures)
        <5>1. captures \in Seq(CaptureState)
          BY <2>T DEF RouteTypes
        <5>2. QED
          BY ONLY <1>S, <5>1, <4>2, <4>3
      <4>5. DOMAIN captures = Idx /\ g \in Idx
        BY <2>I, <3>1
      <4>6. QED
        BY ONLY <4>1, <4>4, <4>5
    <3>6. /\ SameCaptures
          /\ \A h \in Idx : captures'[h].stage = "none" <=> captures[h].stage = "none"
      BY <2>Way, <3>1, <3>3, <3>5
    <3>8. RouteTypes'
      BY <2>T, <3>1, <3>5 DEF RouteTypes, CaptureState
    <3>9. CaptureInv'
      BY <2>Same, <3>1, <3>6
    <3>10. ApplyInv'
      <4>1. \A q \in Pages : routing[q].at \in {"set", "record"} => routing[q].cap \in Idx
        BY <2>T, <2>I DEF ApplyInv
      <4>2. QED
        BY <2>T, <3>1, <3>6, <4>1 DEF ApplyInv, Applying
    <3>11. ASSUME ~crossed' PROVE KnownInv'
      <4>0. KnownInv /\ ~captures[g].stale /\ WidthKnows(g)
        BY <2>T, <3>1, <3>11 DEF KnownInv
      <4>1. cap = g /\ cap # 0 /\ rebuild = "idle" /\ captures[g].say = cache
        BY <2>I, <3>1, <4>0 DEF WidthKnows
      <4>2. ASSUME NEW q \in Pages, ~routing'[q].stale PROVE CallKnows(q)'
        <5>1. routing'[q] = routing[q] /\ CallKnows(q)
          BY <3>1, <4>0, <4>2 DEF KnownInv
        <5>2. (OnTheOpenOne(q)' <=> OnTheOpenOne(q)) /\ (Applying(q)' <=> Applying(q))
          BY <5>1 DEF OnTheOpenOne, Applying
        <5>3. /\ captures'[cap].width = captures[cap].width /\ captures'[cap].matrix = captures[cap].matrix
              /\ PadOf(cap)' = PadOf(cap) /\ KeyOf(cap)' = KeyOf(cap)
          BY <2>Frame, <3>1, <3>6, <4>1
        <5>4. routing[q].at = "record" => Routes(cap, routing[q].say.map)'
          BY <3>1, <5>1, <5>3 DEF CallKnows, Routes, PadOf
        <5>5. QED
          BY <3>1, <5>1, <5>2, <5>3, <5>4 DEF CallKnows
      <4>3. ASSUME NEW h \in DOMAIN captures', ~captures'[h].stale PROVE WidthKnows(h)'
        <5>1. h \in Idx
          BY <2>Frame, <3>1, <3>6
        <5>2. CASE h = g
          BY <3>3, <3>5, <5>2 DEF WidthKnows
        <5>3. CASE h # g
          <6>1. captures'[h] = captures[h] /\ WidthKnows(h)
            BY <2>I, <3>5, <4>0, <4>3, <5>1, <5>3 DEF KnownInv
          <6>2. QED
            BY <3>1, <6>1 DEF WidthKnows
        <5>4. QED
          BY <5>2, <5>3
      <4>4. RecordIsRight' /\ GridsAreRight'
        <5>0. RecordIsRight /\ cap \in Idx
          BY <3>1, <4>0, <4>1 DEF KnownInv
        <5>1. captures'[cap].device = captures[cap].device /\ captures'[cap].width = captures[cap].width
          BY <3>6, <5>0
        <5>2. PadOf(cap)' = PadOf(cap) /\ captures'[cap].matrix = captures[cap].matrix
          BY <2>Frame, <3>1, <3>6, <5>0
        <5>3. cache.key = captures[cap].device /\ cache.width = captures[cap].width
          BY <3>1, <4>1, <5>0 DEF RecordIsRight
        <5>4. RecordIsRight'
          BY <3>1, <5>0, <5>1, <5>2, <5>3 DEF RecordIsRight, Routes, PadOf
        <5>5. \A q \in Pages : grid'[q] = cache
          BY <3>1, <4>1
        <5>6. ASSUME \A q \in Pages : Applying(q)' => routing'[q].cap # cap
              PROVE  \A q \in Pages : routing[q].at = "record" => routing[q].cap # cap
          BY <3>1, <5>6 DEF Applying
        <5>7. GridsAreRight'
          BY <3>1, <5>0, <5>1, <5>2, <5>3, <5>5, <5>6 DEF GridsAreRight, RecordIsRight, Routes, PadOf
        <5>8. QED
          BY <5>4, <5>7
      <4>5. QED
        BY <3>1, <4>0, <4>1, <4>2, <4>3, <4>4 DEF KnownInv
    <3>12. QED
      BY <3>1, <3>8, <3>9, <3>10, <3>11 DEF RouteInv
  \* What CaptureInv and ApplyInv say of each capture, and of each call.
  <2>C. \A h \in Idx : /\ captures[h].width \in {0, PadOf(h)}
                       /\ captures[h].stage = "none" <=> captures[h].width = 0
                       /\ ~captures[h].stopped => h = Len(captures) /\ (cap = h \/ rebuild = "built")
                       /\ captures[h].stopped => captures[h].stale
                       /\ OfThePad(h)
    BY <2>T, <2>I DEF CaptureInv
  <2>L. \A q \in Pages : /\ routing[q].cap \in 0 .. Len(captures)
                         /\ routing[q].at \in {"set", "record"} =>
                              /\ routing[q].cap # 0 /\ routing[q].cap \in Idx
                              /\ captures[routing[q].cap].stopped \/ (routing[q].cap = cap /\ ~routing[q].stale)
    BY <2>T, <2>I DEF ApplyInv
  \* A rebuild step that leaves no capture playing but one that is to be adopted, and marks
  \* whoever is on the old one: what it has to keep of the calls.
  <2>Stop. ASSUME NEW n \in Nat, captures' \in Seq(CaptureState), Len(captures') = Len(captures) + n,
                  \A q \in Pages : \/ routing'[q] = routing[q] \/ routing'[q] = Resting
                                   \/ routing'[q] = [routing[q] EXCEPT !.stale = TRUE],
                  \A h \in Idx : captures'[h].stopped
           PROVE  ApplyInv'
    <3>1. ASSUME NEW q \in Pages
          PROVE  /\ routing'[q].cap \in 0 .. Len(captures')
                 /\ routing'[q].at \in {"set", "record"} =>
                      /\ routing'[q].cap # 0
                      /\ captures'[routing'[q].cap].stopped \/ (routing'[q].cap = cap' /\ ~routing'[q].stale)
                 /\ Applying(q)' => Applying(q)
      <4>1. /\ Len(captures) \in Nat /\ Len(captures') = Len(captures) + n
            /\ routing[q].cap \in 0 .. Len(captures)
        BY <2>I, <2>L, <2>Stop
      <4>2. routing'[q] = Resting \/ (routing'[q].cap = routing[q].cap /\ routing'[q].at = routing[q].at)
        BY <2>I, <2>Stop DEF CallState
      <4>3. routing'[q].cap = 0 \/ routing'[q].cap = routing[q].cap
        BY <2>Idle, <4>2
      <4>4. routing'[q].cap \in 0 .. Len(captures')
        BY <4>1, <4>3
      <4>5. ASSUME routing'[q].at \in {"set", "record"} PROVE routing'[q].cap # 0 /\ captures'[routing'[q].cap].stopped
        <5>1. routing'[q].cap = routing[q].cap /\ routing[q].at \in {"set", "record"}
          BY <2>Idle, <4>2, <4>5
        <5>2. QED
          BY <2>L, <2>Stop, <5>1
      <4>6. Applying(q)' => Applying(q)
        BY <2>Idle, <4>2 DEF Applying
      <4>7. QED
        BY <4>4, <4>5, <4>6
    <3>2. QED
      BY <2>T, <3>1 DEF ApplyInv
  <2>14. ASSUME StopOld PROVE RouteInv'
    <3>1. /\ rebuild = "idle" /\ cap # 0 /\ rebuild' = "stopped" /\ routing' = Forgets
          /\ UNCHANGED <<cap, cache, grid, chanLeft, crossed>>
      BY <2>14 DEF StopOld
    <3>a. PICK c : c = [captures[cap] EXCEPT !.stopped = TRUE, !.matrix = NoMatrix, !.stale = TRUE]
      OBVIOUS
    <3>b. cap \in Idx /\ captures[cap] \in CaptureState
      BY <2>I, <2>K, <3>1
    <3>2. /\ c \in CaptureState /\ c.device = captures[cap].device /\ c.width = captures[cap].width
          /\ c.stage = captures[cap].stage /\ c.stopped = TRUE /\ c.stale = TRUE /\ c.matrix = NoMatrix
      <4>1. PICK b \in BOOLEAN : b = TRUE
        OBVIOUS
      <4>2. PICK x \in Matrices : x = NoMatrix
        BY DEF Matrices
      <4>3. PICK y \in CaptureState : y = captures[cap]
        BY <3>b
      <4>4. c = [y EXCEPT !.stopped = b, !.matrix = x, !.stale = b]
        BY <3>a, <4>1, <4>2, <4>3
      <4>5. /\ c \in CaptureState /\ c.device = y.device /\ c.width = y.width
            /\ c.stage = y.stage /\ c.stopped = b /\ c.stale = b /\ c.matrix = x
        BY ONLY <4>4, y \in CaptureState, b \in BOOLEAN, x \in Matrices DEF CaptureState
      <4>6. QED
        BY <4>1, <4>2, <4>3, <4>5
    <3>3. /\ captures' = [h \in DOMAIN captures |-> captures'[h]]
          /\ \A h \in DOMAIN captures : captures'[h] = IF h = cap THEN c ELSE captures[h]
      BY <2>14, <3>a DEF StopOld, Outdated
    <3>4. captures' \in Seq(CaptureState) /\ Len(captures') = Len(captures)
      <4>1. captures \in Seq(CaptureState)
        BY <2>T DEF RouteTypes
      <4>2. \A h \in DOMAIN captures : captures'[h] \in CaptureState
        BY <2>I, <3>2, <3>3
      <4>3. QED
        BY ONLY <1>S, <3>3, <4>1, <4>2
    <3>5. DOMAIN captures' = Idx /\ \A h \in Idx : captures'[h] = IF h = cap THEN c ELSE captures[h]
      BY <2>I, <3>3
    <3>6. /\ routing' \in [Pages -> CallState]
          /\ \A q \in Pages : routing'[q] = IF routing[q].at = "idle" THEN Resting ELSE [routing[q] EXCEPT !.stale = TRUE]
      BY <1>Pages, <2>T, <3>1
    <3>7. RouteTypes'
      BY <2>T, <3>1, <3>4, <3>6 DEF RouteTypes
    <3>8. \A h \in Idx : captures'[h].stopped
      <4>1. \A h \in Idx : h # cap => captures[h].stopped
        BY <2>C, <2>T, <3>1 DEF CaptureInv
      <4>2. QED
        BY <3>2, <3>5, <4>1
    <3>9. CaptureInv'
      <4>1. ASSUME NEW h \in Idx
            PROVE  /\ captures'[h].width \in {0, PadOf(h)'}
                   /\ captures'[h].stage = "none" <=> captures'[h].width = 0
                   /\ captures'[h].stale /\ OfThePad(h)'
        <5>1. CASE h = cap
          BY <2>C, <3>2, <3>5, <5>1 DEF PadOf, OfThePad
        <5>2. CASE h # cap
          <6>1. captures'[h] = captures[h] /\ captures[h].stopped
            BY <3>5, <3>8, <5>2
          <6>2. QED
            BY <2>C, <6>1 DEF PadOf, OfThePad
        <5>3. QED
          BY <5>1, <5>2
      <4>2. cap' = cap /\ captures'[cap].stopped /\ cap # 0 /\ cap \in {0, Len(captures')}
        BY <2>T, <3>1, <3>4, <3>8, <3>b DEF CaptureInv
      <4>3. QED
        BY <3>1, <3>5, <3>8, <4>1, <4>2 DEF CaptureInv
    <3>10. ApplyInv'
      <4>1. Len(captures') = Len(captures) + 0
        BY <2>I, <3>4
      <4>2. QED
        BY <2>Stop, <3>4, <3>6, <3>8, <4>1
    <3>11. ASSUME ~crossed PROVE KnownInv'
      <4>0. KnownInv
        BY <2>T, <3>11
      <4>1. ASSUME NEW q \in Pages, ~routing'[q].stale PROVE CallKnows(q)'
        <5>1. routing'[q] = Resting
          BY <2>I, <3>6, <4>1 DEF CallState
        <5>2. QED
          BY <2>Idle, <5>1 DEF CallKnows, OnTheOpenOne, Applying
      <4>2. ASSUME NEW h \in DOMAIN captures', ~captures'[h].stale PROVE WidthKnows(h)'
        <5>1. h \in Idx /\ h # cap /\ captures'[h] = captures[h]
          BY <3>2, <3>5, <4>2
        <5>2. WidthKnows(h)
          BY <2>I, <4>0, <4>2, <5>1 DEF KnownInv
        <5>3. QED
          BY <5>1, <5>2 DEF WidthKnows
      <4>3. QED
        BY <3>1, <4>1, <4>2 DEF KnownInv
    <3>12. QED
      BY <3>1, <3>7, <3>9, <3>10, <3>11 DEF RouteInv
  <2>15. ASSUME ForgetChannelMap PROVE RouteInv'
    <3>1. /\ rebuild = "stopped" /\ rebuild' = "forgotten" /\ cap' = 0 /\ cache' = Nothing
          /\ captures' = LateWidths /\ routing' = AllLate
          /\ UNCHANGED <<grid, chanLeft, crossed>>
      BY <2>15 DEF ForgetChannelMap
    <3>2. /\ captures' \in Seq(CaptureState) /\ Len(captures') = Len(captures)
          /\ \A h \in Idx : captures'[h] = IF captures[h].stage = "stamped" THEN [captures[h] EXCEPT !.stale = TRUE]
                                           ELSE captures[h]
      BY <1>Late, <2>T, <3>1
    <3>3. DOMAIN captures' = Idx
      BY <3>2
    <3>4. /\ routing' \in [Pages -> CallState]
          /\ \A q \in Pages : routing'[q] = IF routing[q].at \in {"send", "note", "answer"}
                                            THEN [routing[q] EXCEPT !.stale = TRUE] ELSE routing[q]
      BY <1>Pages, <2>T, <3>1
    <3>5. RouteTypes'
      BY <2>T, <2>Idle, <3>1, <3>2, <3>4 DEF RouteTypes
    <3>6. \A h \in Idx : captures[h].stopped
      <4>1. captures[cap].stopped
        BY <2>T, <3>1 DEF CaptureInv
      <4>2. QED
        BY <2>C, <3>1, <4>1
    <3>7. \A h \in Idx : /\ captures'[h].device = captures[h].device /\ captures'[h].width = captures[h].width
                         /\ captures'[h].stage = captures[h].stage /\ captures'[h].stopped
                         /\ captures'[h].matrix = captures[h].matrix /\ captures'[h].stale
                         /\ PadOf(h)' = PadOf(h)
      BY <2>C, <2>I, <3>2, <3>6 DEF CaptureState, PadOf
    <3>8. CaptureInv'
      <4>1. \A h \in Idx : OfThePad(h)'
        BY <2>C, <3>7 DEF OfThePad
      <4>2. QED
        BY <2>C, <3>1, <3>3, <3>7, <4>1 DEF CaptureInv
    <3>9. ApplyInv'
      <4>1. Len(captures') = Len(captures) + 0
        BY <2>I, <3>2
      <4>2. QED
        BY <2>Stop, <3>2, <3>4, <3>7, <4>1
    <3>10. ASSUME ~crossed PROVE KnownInv'
      <4>1. ASSUME NEW q \in Pages, ~routing'[q].stale PROVE CallKnows(q)'
        <5>1. routing'[q] = routing[q] /\ ~routing[q].stale /\ routing[q].at \notin {"send", "note", "answer"}
          BY <2>I, <3>4, <4>1 DEF CallState
        <5>2. CallKnows(q)
          BY <2>T, <3>10, <5>1 DEF KnownInv
        <5>3. routing[q].at = "idle"
          BY <2>I, <3>1, <5>1, <5>2 DEF CallKnows, OnTheOpenOne, Applying, CallState, CallPlaces
        <5>4. QED
          BY <5>1, <5>3 DEF CallKnows, OnTheOpenOne, Applying
      <4>2. \A h \in DOMAIN captures' : captures'[h].stale
        BY <3>3, <3>7
      <4>3. QED
        BY <3>1, <4>1, <4>2 DEF KnownInv
    <3>11. QED
      BY <3>1, <3>5, <3>8, <3>9, <3>10 DEF RouteInv
  \* The rebuild goes on, and nothing that is open, or routed, changes.
  <2>Goes. ASSUME UNCHANGED <<captures, cap, cache, routing, chanLeft, crossed>>, grid' \in [Pages -> GridState],
                  cap = 0, rebuild \notin {"idle", "built"}, rebuild' \in {"down", "idle"},
                  ~crossed => \A q \in Pages : grid'[q] = Nothing
           PROVE  RouteInv'
    <3>1. RouteTypes'
      BY <2>Goes, <2>T DEF RouteTypes
    <3>2. CaptureInv'
      BY <2>Goes, <2>T DEF CaptureInv, PadOf, Routes, OfThePad
    <3>3. ApplyInv'
      BY <2>Goes, <2>T DEF ApplyInv, Applying
    <3>4. ASSUME ~crossed PROVE KnownInv'
      <4>1. ASSUME NEW q \in Pages, ~routing'[q].stale PROVE CallKnows(q)'
        <5>1. CallKnows(q) /\ routing'[q] = routing[q]
          BY <2>Goes, <2>T, <3>4, <4>1 DEF KnownInv
        <5>2. ~OnTheOpenOne(q)
          BY <2>Goes, <5>1 DEF CallKnows
        <5>3. QED
          BY <2>Goes, <5>1, <5>2 DEF CallKnows, OnTheOpenOne, Applying
      <4>2. \A h \in DOMAIN captures' : ~captures'[h].stale => WidthKnows(h)'
        BY <2>Goes, <2>T, <3>4 DEF KnownInv, WidthKnows
      <4>3. QED
        BY <2>Goes, <2>T, <3>4, <4>1, <4>2 DEF KnownInv
    <3>5. QED
      BY <2>Goes, <3>1, <3>2, <3>3, <3>4 DEF RouteInv
  <2>16. ASSUME TellForgotten PROVE RouteInv'
    <3>1. grid' \in [Pages -> GridState] /\ \A q \in Pages : grid'[q] = Nothing
      BY <2>16, <2>Idle DEF TellForgotten
    <3>2. QED
      BY <2>16, <2>T, <2>Goes, <3>1 DEF TellForgotten, CaptureInv
  <2>17. ASSUME BuildFailed PROVE RouteInv'
    <3>1. cap = 0 /\ rebuild = "down"
      BY <2>17, <2>T DEF BuildFailed, CaptureInv
    <3>2. ~crossed => \A q \in Pages : grid[q] = Nothing
      BY <2>T, <3>1 DEF KnownInv
    <3>3. QED
      BY <2>17, <2>T, <2>Goes, <3>1, <3>2 DEF BuildFailed, RouteTypes
  <2>18. ASSUME BuildCapture PROVE RouteInv'
    <3>a. PICK d \in Devices :
            /\ Told[d] # 0 => Told[d] = Pad[d] /\ Fits(Saved[d], Told[d])
            /\ captures' = Append(captures,
                 [device |-> d, map |-> Saved[d], stopped |-> FALSE, width |-> 0, stage |-> "none",
                  say |-> Nothing, stale |-> FALSE,
                  matrix |-> IF Told[d] = 0 THEN NoMatrix ELSE MixMatrix(Saved[d], Told[d])])
      BY <2>18 DEF BuildCapture
    <3>b. PICK c : c = [device |-> d, map |-> Saved[d], stopped |-> FALSE, width |-> 0, stage |-> "none",
                        say |-> Nothing, stale |-> FALSE,
                        matrix |-> IF Told[d] = 0 THEN NoMatrix ELSE MixMatrix(Saved[d], Told[d])]
      OBVIOUS
    <3>1. /\ rebuild = "down" \/ (rebuild = "idle" /\ cap = 0)
          /\ rebuild' = "built"
          /\ UNCHANGED <<cap, cache, grid, routing, crossed>>
      BY <2>18 DEF BuildCapture
    <3>2. cap = 0 /\ rebuild' = "built" /\ rebuild \in {"down", "idle"}
      BY <2>18, <2>T DEF BuildCapture, CaptureInv
    <3>3. chanLeft' \in [calls : Nat, captures : Nat]
      BY <2>18, <2>T DEF BuildCapture, RouteTypes
    <3>c. /\ Saved[d] \in AnyMap /\ Told[d] \in Nat /\ Pad[d] \in Nat /\ Pad[d] # 0
      BY ChannelMapAssumption DEF AnyMap
    <3>d. c.matrix \in Matrices
      BY <3>b, <3>c DEF Matrices
    <3>4. /\ c \in CaptureState /\ c.device = d /\ c.map = Saved[d] /\ c.stopped = FALSE /\ c.width = 0
          /\ c.stage = "none" /\ c.stale = FALSE
          /\ c.matrix = IF Told[d] = 0 THEN NoMatrix ELSE MixMatrix(Saved[d], Told[d])
      <4>1. "none" \in Stages
        BY DEF Stages
      <4>2. QED
        BY <2>Idle, <3>b, <3>c, <3>d, <4>1 DEF CaptureState
    <3>5. /\ captures' \in Seq(CaptureState) /\ Len(captures') = Len(captures) + 1
          /\ captures'[Len(captures) + 1] = c /\ \A h \in Idx : captures'[h] = captures[h]
      <4>1. captures' = Append(captures, c) /\ captures \in Seq(CaptureState)
        BY <2>T, <3>a, <3>b DEF RouteTypes
      <4>2. QED
        BY <3>4, <4>1
    <3>e. PICK n : n = Len(captures) + 1
      OBVIOUS
    <3>6. DOMAIN captures' = Idx \cup {n} /\ n \notin Idx /\ n # 0 /\ n = Len(captures') /\ captures'[n] = c
      <4>1. DOMAIN captures' = 1 .. Len(captures') /\ Len(captures) \in Nat
        BY <2>I, <3>5
      <4>2. QED
        BY <3>5, <3>e, <4>1
    <3>7. RouteTypes'
      BY <2>T, <3>1, <3>2, <3>3, <3>5 DEF RouteTypes
    <3>8. \A h \in Idx : captures'[h].stopped
      <4>1. \A h \in Idx : h # 0
        OBVIOUS
      <4>2. QED
        BY <2>C, <3>2, <3>5, <4>1
    <3>9. Routes(n, c.map)' /\ OfThePad(n)' /\ PadOf(n)' = Pad[d]
      <4>1. PadOf(n)' = Pad[d]
        BY <3>4, <3>6 DEF PadOf
      <4>2. Told[d] # 0 => Told[d] = Pad[d] /\ Fits(Saved[d], Pad[d]) /\ captures'[n].matrix = MixMatrix(Saved[d], Pad[d])
        BY <3>a, <3>4, <3>6
      <4>3. Told[d] = 0 => captures'[n].matrix = NoMatrix
        BY <3>4, <3>6
      <4>4. QED
        BY <3>4, <3>c, <4>1, <4>2, <4>3 DEF Routes, OfThePad
    <3>10. CaptureInv'
      <4>1. \A h \in Idx : /\ captures'[h].width \in {0, PadOf(h)'}
                           /\ captures'[h].stage = "none" <=> captures'[h].width = 0
                           /\ captures'[h].stopped => captures'[h].stale
                           /\ OfThePad(h)'
        BY <2>C, <3>5 DEF PadOf, OfThePad
      <4>2. ~captures'[n].stopped /\ captures'[n].width = 0 /\ captures'[n].stage = "none"
        BY <3>4, <3>6
      <4>3. Routes(Len(captures), captures[Len(captures)].map)'
        BY <3>4, <3>6, <3>9 DEF Routes, PadOf
      <4>4. cap' = 0 /\ rebuild' = "built"
        BY <3>1, <3>2
      <4>5. QED
        BY <3>6, <3>8, <3>9, <4>1, <4>2, <4>3, <4>4 DEF CaptureInv
    <3>11. ApplyInv'
      <4>1. \A q \in Pages : routing'[q] = routing[q]
        BY <3>1
      <4>2. QED
        BY <2>Stop, <3>5, <3>8, <4>1
    <3>12. ASSUME ~crossed PROVE KnownInv'
      <4>0. KnownInv
        BY <2>T, <3>12
      <4>1. ASSUME NEW q \in Pages, ~routing'[q].stale PROVE CallKnows(q)'
        <5>1. CallKnows(q) /\ routing'[q] = routing[q] /\ cap' = 0 /\ cap = 0 /\ cache' = cache
          BY <3>1, <3>2, <4>0, <4>1 DEF KnownInv
        <5>2. OnTheOpenOne(q)' <=> OnTheOpenOne(q)
          BY <5>1 DEF OnTheOpenOne, Applying
        <5>3. OnTheOpenOne(q) => routing[q].cap = 0
          BY <5>1 DEF CallKnows
        <5>4. routing[q].at # "record"
          BY <2>L, <5>3 DEF OnTheOpenOne, Applying
        <5>5. KeyOf(cap)' = KeyOf(cap)
          BY <5>1 DEF KeyOf
        <5>6. QED
          BY <3>2, <5>1, <5>2, <5>3, <5>4, <5>5 DEF CallKnows
      <4>2. ASSUME NEW h \in DOMAIN captures', ~captures'[h].stale PROVE WidthKnows(h)'
        <5>1. CASE h = n
          BY <3>4, <3>6, <5>1 DEF WidthKnows
        <5>2. CASE h \in Idx
          <6>1. captures'[h].stale
            BY <2>C, <3>5, <3>8, <5>2
          <6>2. QED
            BY <4>2, <6>1
        <5>3. QED
          BY <3>6, <5>1, <5>2
      <4>3. captures'[Len(captures')].stage \notin {"stamped", "published"}
        BY <3>4, <3>6
      <4>4. QED
        BY <3>1, <3>2, <4>0, <4>1, <4>2, <4>3 DEF KnownInv
    <3>13. QED
      BY <3>1, <3>7, <3>10, <3>11, <3>12 DEF RouteInv
  <2>19. ASSUME AdoptCapture PROVE RouteInv'
    <3>1. /\ rebuild = "built" /\ rebuild' = "idle" /\ cap' = Len(captures)
          /\ cache' = [Nothing EXCEPT !.map = captures[Len(captures)].map]
          /\ captures' = LateWidths /\ routing' = Forgets
          /\ UNCHANGED <<grid, chanLeft, crossed>>
      BY <2>19 DEF AdoptCapture
    <3>e. PICK n : n = Len(captures)
      OBVIOUS
    <3>2. /\ n \in Nat /\ n # 0 /\ n \in Idx /\ ~captures[n].stopped /\ cap = 0 /\ cap' = n
          /\ Routes(n, captures[n].map) /\ captures[n] \in CaptureState
      <4>1. Len(captures) \in Nat /\ Len(captures) # 0
        BY <2>I, <2>T, <3>1 DEF CaptureInv
      <4>2. n \in Idx
        BY <3>e, <4>1
      <4>3. QED
        BY <2>T, <2>I, <3>1, <3>e, <4>1, <4>2 DEF CaptureInv
    <3>3. /\ captures' \in Seq(CaptureState) /\ Len(captures') = Len(captures)
          /\ \A h \in Idx : captures'[h] = IF captures[h].stage = "stamped" THEN [captures[h] EXCEPT !.stale = TRUE]
                                           ELSE captures[h]
      BY <1>Late, <2>T, <3>1
    <3>4. DOMAIN captures' = Idx /\ Len(captures') = n
      BY <3>3, <3>e
    <3>5. \A h \in Idx : /\ captures'[h].device = captures[h].device /\ captures'[h].width = captures[h].width
                         /\ captures'[h].stage = captures[h].stage /\ captures'[h].stopped = captures[h].stopped
                         /\ captures'[h].matrix = captures[h].matrix /\ captures'[h].map = captures[h].map
                         /\ captures[h].stale => captures'[h].stale
                         /\ captures[h].stage = "stamped" => captures'[h].stale
                         /\ PadOf(h)' = PadOf(h)
      BY <2>I, <3>3 DEF CaptureState, PadOf
    <3>6. /\ routing' \in [Pages -> CallState]
          /\ \A q \in Pages : routing'[q] = IF routing[q].at = "idle" THEN Resting ELSE [routing[q] EXCEPT !.stale = TRUE]
      BY <1>Pages, <2>T, <3>1
    <3>7. cache' \in GridState /\ cache'.map = captures[n].map
      BY <2>Idle, <3>1, <3>2, <3>e DEF GridState, CaptureState, AnyMap, Nothing
    <3>8. RouteTypes'
      BY <2>T, <3>1, <3>2, <3>3, <3>6, <3>7 DEF RouteTypes
    <3>9. CaptureInv'
      <4>1. \A h \in Idx : /\ captures'[h].width \in {0, PadOf(h)'}
                           /\ captures'[h].stage = "none" <=> captures'[h].width = 0
                           /\ ~captures'[h].stopped => h = n
                           /\ captures'[h].stopped => captures'[h].stale
                           /\ OfThePad(h)'
        <5>1. \A h \in Idx : OfThePad(h)'
          BY <2>C, <3>5 DEF OfThePad
        <5>2. QED
          BY <2>C, <3>5, <3>e, <5>1
      <4>2. ~captures'[n].stopped
        BY <3>2, <3>5
      <4>3. QED
        BY <3>1, <3>2, <3>4, <4>1, <4>2 DEF CaptureInv
    <3>10. ApplyInv'
      <4>1. ASSUME NEW q \in Pages
            PROVE  /\ routing'[q].cap \in 0 .. Len(captures')
                   /\ routing'[q].at \in {"set", "record"} => routing'[q].cap # 0 /\ captures'[routing'[q].cap].stopped
                   /\ Applying(q)' => Applying(q)
        <5>1. routing'[q] = Resting \/ (routing'[q].cap = routing[q].cap /\ routing'[q].at = routing[q].at)
          BY <2>I, <3>6 DEF CallState
        <5>2. routing'[q].cap \in 0 .. Len(captures')
          <6>1. routing'[q].cap = 0 \/ routing'[q].cap = routing[q].cap
            BY <2>Idle, <5>1
          <6>2. 0 \in 0 .. n /\ routing[q].cap \in 0 .. n
            BY <2>L, <3>2, <3>e
          <6>3. QED
            BY <3>4, <6>1, <6>2
        <5>3. ASSUME routing'[q].at \in {"set", "record"} PROVE routing'[q].cap # 0 /\ captures'[routing'[q].cap].stopped
          <6>1. routing'[q].cap = routing[q].cap /\ routing[q].at \in {"set", "record"}
            BY <2>Idle, <5>1, <5>3
          <6>2. routing[q].cap # 0 /\ routing[q].cap \in Idx /\ captures[routing[q].cap].stopped
            BY <2>L, <3>2, <6>1
          <6>3. QED
            BY <3>5, <6>1, <6>2
        <5>4. Applying(q)' => Applying(q)
          BY <2>Idle, <5>1 DEF Applying
        <5>5. QED
          BY <5>2, <5>3, <5>4
      <4>2. QED
        BY <2>T, <4>1 DEF ApplyInv
    <3>11. ASSUME ~crossed PROVE KnownInv'
      <4>0. KnownInv /\ captures[n].stage \notin {"stamped", "published"}
        BY <2>T, <3>1, <3>e, <3>11 DEF KnownInv
      <4>1. ASSUME NEW q \in Pages, ~routing'[q].stale PROVE CallKnows(q)'
        <5>1. routing'[q] = Resting
          BY <2>I, <3>6, <4>1 DEF CallState
        <5>2. QED
          BY <2>Idle, <5>1 DEF CallKnows, OnTheOpenOne, Applying
      <4>2. ASSUME NEW h \in DOMAIN captures', ~captures'[h].stale PROVE WidthKnows(h)'
        <5>1. captures'[h].stage # "stamped"
          BY <3>4, <3>5, <4>2
        <5>2. QED
          BY <5>1 DEF WidthKnows
      <4>3. Routes(n, cache'.map)
        BY <3>2, <3>7
      <4>4. captures'[n].stage \notin {"stamped", "published"} /\ captures'[n].matrix = captures[n].matrix /\ PadOf(n)' = PadOf(n)
        BY <3>2, <3>5, <4>0
      <4>5. RecordIsRight' /\ GridsAreRight'
        BY <3>2, <4>3, <4>4 DEF RecordIsRight, GridsAreRight, Routes, PadOf
      <4>6. QED
        BY <3>1, <3>2, <4>1, <4>2, <4>5 DEF KnownInv
    <3>12. QED
      BY <3>1, <3>8, <3>9, <3>10, <3>11 DEF RouteInv
  <2>20. CASE UNCHANGED chanVars
    <3>1. /\ captures' = captures /\ rebuild' = rebuild /\ cap' = cap /\ cache' = cache /\ grid' = grid
          /\ routing' = routing /\ chanLeft' = chanLeft /\ crossed' = crossed
      BY <2>20 DEF chanVars
    <3>2. RouteTypes' /\ CaptureInv' /\ ApplyInv'
      BY <2>T, <3>1 DEF RouteTypes, CaptureInv, ApplyInv, PadOf, Routes, OfThePad, Applying
    <3>3. KnownInv' <=> KnownInv
      <4>1. \A q \in Pages : CallKnows(q)' <=> CallKnows(q)
        BY <3>1 DEF CallKnows, OnTheOpenOne, Applying, KeyOf, Routes, PadOf
      <4>2. (RecordIsRight' <=> RecordIsRight) /\ (GridsAreRight' <=> GridsAreRight)
        BY <3>1 DEF RecordIsRight, GridsAreRight, Applying, Routes, PadOf
      <4>3. QED
        BY <3>1, <4>1, <4>2 DEF KnownInv, WidthKnows
    <3>4. QED
      BY <2>T, <3>1, <3>2, <3>3 DEF RouteInv
  <2>21. QED
    BY <2>1, <2>2, <2>3, <2>4, <2>5, <2>6, <2>7, <2>8, <2>9, <2>10, <2>11, <2>12, <2>13, <2>14,
       <2>15, <2>16, <2>17, <2>18, <2>19, <2>20 DEF ChanNext
<1>3. RouteInv => ChanTypeOK /\ RoutingIsShown
  <2> SUFFICES ASSUME RouteInv PROVE ChanTypeOK /\ RoutingIsShown
    OBVIOUS
  <2>1. RouteTypes /\ CaptureInv /\ ApplyInv /\ (~crossed => KnownInv)
    BY DEF RouteInv
  <2>2. /\ DOMAIN captures = Idx /\ Len(captures) \in Nat
        /\ \A g \in Idx : captures[g] \in CaptureState
        /\ \A p \in Pages : routing[p] \in CallState
    BY <1>T, <2>1
  <2>3. cap \in 0 .. Len(captures) /\ (cap # 0 => cap \in Idx)
    <3>1. cap = 0 \/ cap = Len(captures)
      BY <2>1 DEF CaptureInv
    <3>2. QED
      BY <2>2, <3>1
  <2>4. ChanTypeOK
    BY <2>1, <2>2, <2>3 DEF ChanTypeOK, RouteTypes, CaptureState, CallState, AnyMap
  \* A matrix that was made of a routing that fits has the cells of the pad, and its gains.
  <2>5. ASSUME NEW m \in AnyMap, NEW w \in Nat, Fits(m, w)
        PROVE  /\ DOMAIN MixMatrix(m, w) = (0..1) \X (0..(w - 1))
               /\ \A cell \in DOMAIN MixMatrix(m, w) : MixMatrix(m, w)[cell] \in -1..1
    <3>1. PICK r : r = Resolved(m, w)
      OBVIOUS
    <3>2. \A i \in DOMAIN r : r[i].gain \in -1..1
      BY <2>5, <3>1 DEF Fits
    <3> DEFINE at(out, in) == {i \in DOMAIN r : r[i].output = out /\ r[i].input = in}
    <3>3. MixMatrix(m, w) = [cell \in (0..1) \X (0..(w - 1)) |->
             IF at(cell[1], cell[2]) = {} THEN 0 ELSE r[CHOOSE i \in at(cell[1], cell[2]) : TRUE].gain]
      BY <3>1 DEF MixMatrix
    <3>4. ASSUME NEW cell \in (0..1) \X (0..(w - 1)) PROVE MixMatrix(m, w)[cell] \in -1..1
      <4>1. PICK a : a = at(cell[1], cell[2])
        OBVIOUS
      <4>2. MixMatrix(m, w)[cell] = IF a = {} THEN 0 ELSE r[CHOOSE i \in a : TRUE].gain
        BY <3>3, <4>1
      <4>3. a # {} => (CHOOSE i \in a : TRUE) \in DOMAIN r
        <5>1. \A i \in a : i \in DOMAIN r
          BY <4>1
        <5>2. QED
          BY <5>1
      <4>4. 0 \in -1..1
        OBVIOUS
      <4>5. QED
        BY <3>2, <4>2, <4>3, <4>4
    <3>5. DOMAIN MixMatrix(m, w) = (0..1) \X (0..(w - 1))
      BY <3>3
    <3>6. QED
      BY <3>4, <3>5
  <2>6. MatrixFits
    <3> SUFFICES ASSUME NEW g \in Idx, captures[g].matrix # NoMatrix, captures[g].width # 0
                 PROVE  /\ DOMAIN captures[g].matrix = (0..1) \X (0..(captures[g].width - 1))
                        /\ \A cell \in DOMAIN captures[g].matrix : captures[g].matrix[cell] \in -1..1
      BY <2>2 DEF MatrixFits
    <3>1. captures[g].width = PadOf(g) /\ OfThePad(g) /\ captures[g].width \in Nat
      BY <2>1, <2>2 DEF CaptureInv, CaptureState
    <3>2. PICK m \in AnyMap : Fits(m, PadOf(g)) /\ captures[g].matrix = MixMatrix(m, PadOf(g))
      BY <3>1 DEF OfThePad
    <3>3. QED
      BY <2>5, <3>1, <3>2
  <2>7. ShownIsInForce
    <3> SUFFICES ASSUME AllSaid, ~crossed, NEW shown \in {cache} \cup {grid[p] : p \in Pages}
                 PROVE  IF cap = 0 THEN shown = Nothing
                        ELSE /\ shown.key = captures[cap].device /\ shown.width = captures[cap].width
                             /\ captures[cap].matrix # NoMatrix =>
                                  captures[cap].matrix = MixMatrix(shown.map, shown.width)
      BY DEF ShownIsInForce
    <3>1. KnownInv /\ rebuild = "idle" /\ (\A p \in Pages : routing[p].at = "idle")
          /\ (cap # 0 => captures[cap].stage = "published")
      BY <2>1 DEF AllSaid
    <3>2. CASE cap = 0
      BY <3>1, <3>2 DEF KnownInv
    <3>3. CASE cap # 0
      <4>1. cap \in Idx /\ RecordIsRight /\ GridsAreRight
        BY <2>3, <3>1, <3>3 DEF KnownInv
      <4>2. captures[cap].width = PadOf(cap)
        BY <2>1, <2>2, <3>1, <3>3, <4>1 DEF CaptureInv
      <4>3. shown.key = captures[cap].device /\ shown.width = captures[cap].width /\ Routes(cap, shown.map)
        BY <3>1, <3>3, <4>1 DEF RecordIsRight, GridsAreRight, Applying
      <4>4. QED
        BY <3>3, <4>2, <4>3 DEF Routes
    <3>4. QED
      BY <3>2, <3>3
  <2>8. QED
    BY <2>4, <2>6, <2>7 DEF RoutingIsShown
<1>4. QED
  BY <1>1, <1>2, <1>3, PTL DEF ChanSpec

-----------------------------------------------------------------------------
(* The configuration and the presets.                                      *)

\* What is of a call whatever the others do: what it is to write, to keep or to wipe.
IsWhole(c) ==
  /\ c.at \in {"write", "publish"} => IsOwn(c.conf)
  /\ c.at = "keep" => c.id \in Ids /\ \E p \in c.preset : c.preset = {p}
  /\ c.at \in {"remove", "wipe"} => c.id \in Ids /\ (c.wipes \/ c.at = "wipe" => c.rec.scope = c.id)
WholeInv ==
  /\ \A c \in disk : IsOwn(c) /\ disk = {c}
  /\ IsOwn(memory) /\ \A u \in Users : IsWhole(call[u])
  /\ ~up => mixed # "now" /\ ~sending /\ \A u \in Users : call[u] = AtRest

\* Unless calls crossed, one at a time has half changed what the others look at, and
\* they have not begun, or hold something stale; ...
OneAtATime ==
  \A u, v \in Users : HalfDone(u) /\ u # v =>
    call[v].at = "idle" \/ (call[v].stale /\ ~HalfDone(v))

\* ... who holds nothing stale writes the microphone that is in force, but for the desk, and
\* no preset under a session; and the file, the settings and the scope go together.
KnowsConfig(u, c) ==
  /\ c.at = "publish" => disk = {c.conf}
  /\ ~c.stale =>
       /\ c.at = "write" /\ (u # Desk \/ c.rec # NoRecord) =>
            c.conf.audioDeviceId = memory.audioDeviceId
       /\ c.at \in {"write", "publish"} /\ c.rec # NoRecord => ~sending
       /\ c.at = "publish" /\ c.rec = NoRecord => meant = c.conf.statusKey
       /\ c.at = "scope" => active = c.rec
KeptInv ==
  /\ OneAtATime /\ \A u \in Users : KnowsConfig(u, call[u])
  /\ up /\ NobodyAt("publish") =>
       memory = LoadConfig(disk) /\ (sending => memory.statusKey = meant)
  /\ up \/ mixed = "never" => LoadConfig(disk).audioDeviceId = heard
  /\ up /\ NobodyAt("scope") => scope = active.scope

\* Unless calls crossed, in this launch or before, the record names a preset and its scope,
\* a preset keeps its scope, and the active one is not deleted.
Held(rec) == rec.id \in DOMAIN files /\ files[rec.id].scope = rec.scope
KeepsItsScope(id, s) ==
  IF id \in DOMAIN files THEN s = files[id].scope ELSE s = id \/ (s = "" /\ DOMAIN files = {})
KnowsFiles(c) ==
  /\ c.at \in {"write", "publish"} /\ c.rec # NoRecord => Held(c.rec)
  /\ c.at = "record" => Held(c.rec)
  /\ c.at = "keep" => \E p \in c.preset : /\ KeepsItsScope(c.id, p.scope)
                                          /\ c.rec # NoRecord => c.rec = [id |-> c.id, scope |-> p.scope]
  /\ c.at \in {"remove", "wipe"} => active.id # c.id
FilesInv ==
  /\ OneEach(files) /\ Recorded(active, files)
  /\ \A u \in Users : ~call[u].stale => KnowsFiles(call[u])

PresetInv ==
  PresetsTypeOK /\ WholeInv /\ (mixed # "now" => KeptInv) /\ (mixed = "never" => FilesInv)

\* Nothing of another machine is ever in force; and unless calls crossed, what is shown is what
\* the next launch loads, with the microphone the desk chose, under a session what it runs with,
\* under the passwords of the preset recorded as active; no two presets come to share passwords,
\* and no password goes but when it is cleared, or with the preset whose it is
\* (saveConfigFrom, ApplyPreset, SavePreset, RenamePreset, DeletePreset, startup).
THEOREM PresetsStayConfined == PresetsSpec => [](PresetsTypeOK /\ PresetsAreConfined) /\ OnlyItsOwnPasswords
<1>C. ASSUME NEW c \in Config
      PROVE  /\ DOMAIN c = Tags /\ \A t \in Tags : c[t] \in Values[t]
             /\ c.statusKey \in Values["statusKey"] /\ c.audioDeviceId \in Values["audioDeviceId"]
             /\ \A t \in Tags : \A v \in Values[t] : [c EXCEPT ![t] = v] \in Config
  <2>1. c \in [Tags -> UNION {Values[t] : t \in Tags}] /\ \A t \in Tags : c[t] \in Values[t]
    BY DEF Config
  <2>2. "statusKey" \in Tags /\ "audioDeviceId" \in Tags
    BY DEF Tags, InstanceFields, MachineFields
  <2>3. ASSUME NEW t \in Tags, NEW v \in Values[t] PROVE [c EXCEPT ![t] = v] \in Config
    <3>1. v \in UNION {Values[s] : s \in Tags}
      OBVIOUS
    <3>2. [c EXCEPT ![t] = v] \in [Tags -> UNION {Values[s] : s \in Tags}]
      BY <2>1, <3>1
    <3>3. \A s \in Tags : [c EXCEPT ![t] = v][s] \in Values[s]
      BY <2>1
    <3>4. QED
      BY <3>2, <3>3 DEF Config
  <2>4. QED
    BY <2>1, <2>2, <2>3
<1>V. /\ Values["statusKey"] = {"", "cam4", "MIC 1", "own"}
      /\ Values["audioDeviceId"] = {"", "mic", Foreign}
      /\ Values["videoSource"] = {"slate", "none", Foreign}
      /\ Values["coughMuteMode"] = {"", "push"} /\ Values["eventId"] = {"", Foreign}
      /\ Tags = {"statusKey", "audioDeviceId", "videoSource", "coughMuteMode", "eventId"}
  BY DEF Values, Tags, InstanceFields, MachineFields, UIFields, DiscoveredFields
<1>F. ASSUME NEW D \in SUBSET Tags, NEW f, f = [t \in D |-> f[t]], \A t \in D : f[t] \in Values[t]
      PROVE  f \in Fields
  <2>1. \A t \in D : f[t] \in UNION {Values[s] : s \in Tags}
    BY <1>F
  <2>2. f \in [D -> UNION {Values[s] : s \in Tags}]
    BY <1>F, <2>1
  <2>3. f \in UNION {[E -> UNION {Values[t] : t \in Tags}] : E \in SUBSET Tags}
    BY <2>2
  <2>4. \A t \in DOMAIN f : f[t] \in Values[t]
    BY <1>F, <2>2
  <2>5. QED
    BY <2>3, <2>4 DEF Fields
<1>G. ASSUME NEW f \in Fields
      PROVE  DOMAIN f \subseteq Tags /\ (\A t \in DOMAIN f : f[t] \in Values[t]) /\ f = [t \in DOMAIN f |-> f[t]]
  <2>1. \A t \in DOMAIN f : f[t] \in Values[t]
    BY DEF Fields
  <2>2. PICK D \in SUBSET Tags : f \in [D -> UNION {Values[t] : t \in Tags}]
    BY DEF Fields
  <2>3. QED
    BY <2>1, <2>2
<1>D. Defaults \in Config /\ IsOwn(Defaults)
  <2>1. PICK d : d = Defaults
    OBVIOUS
  <2>2. DOMAIN d = Tags
    BY <2>1 DEF Defaults, Tags, InstanceFields, MachineFields, UIFields, DiscoveredFields
  <2>3. d = [t \in Tags |-> d[t]]
    BY <2>1, <2>2 DEF Defaults
  <2>4. d["statusKey"] = "" /\ d["audioDeviceId"] = "" /\ d["videoSource"] = "slate"
        /\ d["coughMuteMode"] = "push" /\ d["eventId"] = ""
    BY <2>1 DEF Defaults
  <2>5. \A t \in Tags : d[t] \in Values[t]
    BY <1>V, <2>4 DEF Tags, InstanceFields, MachineFields, UIFields, DiscoveredFields
  <2>6. d \in [Tags -> UNION {Values[t] : t \in Tags}]
    <3>1. \A t \in Tags : d[t] \in UNION {Values[s] : s \in Tags}
      BY <2>5
    <3>2. QED
      BY <2>3, <3>1
  <2>7. QED
    BY <2>1, <2>4, <2>5, <2>6 DEF Config, IsOwn, Foreign
<1>R. /\ AtRest \in Call /\ AtRest.at = "idle" /\ AtRest.stale = FALSE /\ AtRest.rec = NoRecord
      /\ IsWhole(AtRest)
      /\ \A u : KnowsConfig(u, AtRest) /\ KnowsConfig(u, AtRest)'
      /\ KnowsFiles(AtRest) /\ KnowsFiles(AtRest)'
  <2>1. NoRecord \in ActiveRecord
    BY DEF NoRecord, ActiveRecord, Scopes
  <2>2. \A b \in BOOLEAN : [at |-> "idle", conf |-> Defaults, id |-> "", preset |-> {}, rec |-> NoRecord,
                            wipes |-> b, stale |-> b] \in Call
    BY <1>D, <2>1 DEF Call, Steps
  <2>3. AtRest \in Call
    BY <2>2 DEF AtRest
  <2>4. AtRest.at = "idle" /\ AtRest.stale = FALSE /\ AtRest.rec = NoRecord
    BY DEF AtRest
  <2>5. QED
    BY <2>3, <2>4 DEF IsWhole, KnowsConfig, KnowsFiles
\* What is applied to a configuration, and what a preset is made of.
<1>A. ASSUME NEW c \in Config, NEW f \in Fields
      PROVE  /\ Apply(c, f) \in Config /\ Apply(c, f).audioDeviceId = c.audioDeviceId
             /\ IsOwn(c) => IsOwn(Apply(c, f))
  <2>1. PICK k : k = Filter(f)
    OBVIOUS
  <2>2. PICK a : a = Apply(c, f)
    OBVIOUS
  <2>3. a = [t \in Tags |-> IF t \in DOMAIN k THEN k[t] ELSE c[t]]
    BY <2>1, <2>2 DEF Apply
  <2>4. \A t \in DOMAIN k : /\ t \in Tags /\ k[t] = f[t] /\ f[t] \in Values[t]
                            /\ t = "statusKey" \/ (t = "videoSource" /\ f[t] = "none")
    BY <1>G, <2>1 DEF Filter, Only, travelsAsInstance, InstanceFields
  <2>5. \A t \in Tags : a[t] \in Values[t]
    BY <1>C, <2>3, <2>4
  <2>6. a \in [Tags -> UNION {Values[t] : t \in Tags}]
    <3>1. \A t \in Tags : a[t] \in UNION {Values[s] : s \in Tags}
      BY <2>5
    <3>2. a = [t \in Tags |-> a[t]]
      BY <2>3
    <3>3. QED
      BY <3>1, <3>2
  <2>7. /\ a["audioDeviceId"] = c["audioDeviceId"] /\ a["eventId"] = c["eventId"]
        /\ a["coughMuteMode"] = c["coughMuteMode"]
        /\ a["videoSource"] = c["videoSource"] \/ a["videoSource"] = "none"
    BY <1>V, <2>3, <2>4
  <2>8. QED
    BY <2>2, <2>5, <2>6, <2>7 DEF Config, IsOwn, Foreign
<1>B. /\ \A c \in Config : Extract(c) \in Fields
      /\ builtinFields \in Fields
      /\ \A f \in Fields : upgradeBuiltinFields(f) \in Fields
  <2>1. ASSUME NEW c \in Config PROVE Extract(c) \in Fields
    <3>1. PICK e : e = Extract(c)
      OBVIOUS
    <3>2. DOMAIN e \subseteq Tags /\ e = [t \in DOMAIN e |-> e[t]] /\ \A t \in DOMAIN e : e[t] = c[t]
      BY <1>C, <3>1 DEF Extract, Only
    <3>3. QED
      BY <1>C, <1>F, <3>1, <3>2
  <2>2. DOMAIN builtinFields = {"statusKey", "videoSource"}
        /\ builtinFields["statusKey"] = "MIC 1" /\ builtinFields["videoSource"] = "none"
    BY DEF builtinFields
  <2>3. \A t \in DOMAIN builtinFields : t \in Tags /\ builtinFields[t] \in Values[t]
    BY <1>V, <2>2
  <2>4. builtinFields \in Fields
    <3>1. PICK b : b = builtinFields
      OBVIOUS
    <3>2. b = [t \in DOMAIN b |-> b[t]]
      BY <3>1 DEF builtinFields
    <3>3. QED
      BY <1>F, <2>3, <3>1, <3>2
  <2>5. ASSUME NEW f \in Fields PROVE upgradeBuiltinFields(f) \in Fields
    <3>1. PICK g : g = upgradeBuiltinFields(f)
      OBVIOUS
    <3>2. g = [t \in DOMAIN f \cup DOMAIN builtinFields |->
                 IF t \in DOMAIN builtinFields /\ (t \in DOMAIN f => f[t] \in builtinPreviousValues[t])
                 THEN builtinFields[t] ELSE f[t]]
      BY <3>1 DEF upgradeBuiltinFields
    <3>3. DOMAIN g = DOMAIN f \cup DOMAIN builtinFields /\ g = [t \in DOMAIN g |-> g[t]]
      BY <3>2
    <3>4. \A t \in DOMAIN g : t \in Tags /\ g[t] \in Values[t]
      BY <1>G, <2>3, <3>2, <3>3
    <3>5. QED
      BY <1>F, <3>1, <3>3, <3>4
  <2>6. QED
    BY <2>1, <2>4, <2>5
<1>P. ASSUME NEW n \in Names, NEW s \in Scopes, NEW f \in Fields
      PROVE  [name |-> n, scope |-> s, fields |-> f] \in Preset
  BY DEF Preset
<1>O. ASSUME PresetsTypeOK, NEW id \in DOMAIN files
      PROVE  /\ id \in Ids /\ files[id] \in Preset /\ files[id].scope \in Scopes
             /\ Load(id) \in Preset /\ Load(id).scope = files[id].scope
             /\ Load(id).fields \in Fields /\ Load(id).name = files[id].name
  <2>1. id \in Ids /\ files[id] \in Preset
    BY <1>O DEF PresetsTypeOK
  <2>2. PICK p \in Preset : p = files[id]
    BY <2>1
  <2>3. p.name \in Names /\ p.scope \in Scopes /\ p.fields \in Fields
        /\ p = [name |-> p.name, scope |-> p.scope, fields |-> p.fields]
    BY DEF Preset
  <2>4. PICK g : g = Only(p.fields, Tags \ DiscoveredFields)
    OBVIOUS
  <2>5. /\ DOMAIN g \subseteq Tags /\ g = [t \in DOMAIN g |-> g[t]]
        /\ \A t \in DOMAIN g : g[t] \in Values[t]
    BY <1>G, <2>3, <2>4 DEF Only
  <2>6. g \in Fields
    BY <1>F, <2>5
  <2>7. Load(id) = [p EXCEPT !.fields = g]
    BY <2>2, <2>4 DEF Load
  <2>8. [p EXCEPT !.fields = g] = [name |-> p.name, scope |-> p.scope, fields |-> g]
    BY <2>3
  <2>9. QED
    BY <1>P, <2>1, <2>2, <2>3, <2>6, <2>7, <2>8
\* What is found on disk, or nothing, is a configuration.
<1>L. ASSUME \A c \in disk : c \in Config /\ IsOwn(c) /\ disk = {c}
      PROVE  /\ LoadConfig(disk) \in Config /\ IsOwn(LoadConfig(disk))
             /\ disk \subseteq {LoadConfig(disk)}
             /\ \A c : disk = {c} => LoadConfig(disk) = c
  <2>1. CASE disk = {}
    BY <1>D, <2>1 DEF LoadConfig
  <2>2. CASE disk # {}
    <3>1. PICK c \in disk : TRUE
      BY <2>2
    <3>2. disk = {c} /\ c \in Config /\ IsOwn(c)
      BY <1>L, <3>1
    <3>3. LoadConfig(disk) = c
      BY <3>2 DEF LoadConfig
    <3>4. QED
      BY <3>2, <3>3
  <2>3. QED
    BY <2>1, <2>2
<1>1. PresetsInit => PresetInv
  <2> SUFFICES ASSUME PresetsInit PROVE PresetInv
    OBVIOUS
  <2>1. PICK f \in Finds : disk = f.disk /\ files = f.files /\ unreadable = f.unreadable
                           /\ active = f.active /\ vault = f.vault
    BY DEF PresetsInit
  <2>2. /\ disk = {} \/ \E c \in Config : IsOwn(c) /\ disk = {c}
        /\ DOMAIN files \subseteq Ids /\ \A i \in DOMAIN files : files[i] \in Preset
        /\ unreadable \subseteq Ids \ DOMAIN files /\ vault \subseteq Scopes \X Keys
        /\ active \in ActiveRecord /\ Recorded(active, files) /\ OneEach(files)
    BY <2>1, FindsAssumption
  <2>3. \A c \in disk : c \in Config /\ IsOwn(c) /\ disk = {c}
    BY <2>2
  <2>4. /\ up = FALSE /\ memory = Defaults /\ scope = "" /\ sending = FALSE
        /\ call = [u \in Users |-> AtRest] /\ mixed = "never"
        /\ heard = LoadConfig(disk).audioDeviceId /\ meant = "" /\ budget \in PresetBudgets
    BY DEF PresetsInit
  <2>5. heard \in Values["audioDeviceId"]
    BY <1>C, <1>L, <2>3, <2>4
  <2>6. budget \in [calls : Nat, faults : Nat, crashes : Nat]
    BY <2>4, PresetsAssumption
  <2>7. PresetsTypeOK
    BY <1>D, <1>R, <1>V, <2>2, <2>3, <2>4, <2>5, <2>6 DEF PresetsTypeOK, Scopes
  <2>8. \A u \in Users : call[u] = AtRest
    BY <2>4
  <2>9. WholeInv
    BY <1>D, <1>R, <2>3, <2>4, <2>8 DEF WholeInv
  <2>10. KeptInv
    BY <1>R, <2>4, <2>8 DEF KeptInv, OneAtATime, HalfDone
  <2>11. FilesInv
    BY <1>R, <2>2, <2>8 DEF FilesInv
  <2>12. QED
    BY <2>7, <2>9, <2>10, <2>11 DEF PresetInv
<1>2. PresetInv /\ [PresetsNext]_presetVars => PresetInv'
  <2> SUFFICES ASSUME PresetInv, [PresetsNext]_presetVars PROVE PresetInv'
    OBVIOUS
  <2>T. /\ PresetsTypeOK /\ WholeInv /\ (mixed # "now" => KeptInv) /\ (mixed = "never" => FilesInv)
    BY DEF PresetInv
  <2>Y. /\ up \in BOOLEAN /\ sending \in BOOLEAN /\ mixed \in {"never", "now", "before"}
        /\ disk \subseteq Config /\ memory \in Config
        /\ DOMAIN files \subseteq Ids /\ (\A i \in DOMAIN files : files[i] \in Preset)
        /\ unreadable \subseteq Ids \ DOMAIN files
        /\ active \in ActiveRecord /\ scope \in Scopes /\ vault \subseteq Scopes \X Keys
        /\ call \in [Users -> Call]
        /\ heard \in Values["audioDeviceId"] /\ meant \in Values["statusKey"]
        /\ budget \in [calls : Nat, faults : Nat, crashes : Nat]
    BY <2>T DEF PresetsTypeOK
  <2>D. /\ LoadConfig(disk) \in Config /\ IsOwn(LoadConfig(disk)) /\ disk \subseteq {LoadConfig(disk)}
        /\ \A c : disk = {c} => LoadConfig(disk) = c
    <3>1. \A c \in disk : c \in Config /\ IsOwn(c) /\ disk = {c}
      BY <2>T, <2>Y DEF WholeInv
    <3>2. QED
      BY <1>L, <3>1
  <2>U. \A u \in Users : /\ call[u] \in Call /\ IsWhole(call[u])
                         /\ call[u].conf \in Config /\ call[u].rec \in ActiveRecord
                         /\ call[u].id \in Ids \cup {""} /\ call[u].preset \subseteq Preset
    BY <2>T, <2>Y DEF WholeInv, Call
  \* A call at another of its steps is that call.
  <2>S. ASSUME NEW u \in Users, NEW a \in Steps, NEW n, n = [call[u] EXCEPT !.at = a]
        PROVE  /\ n \in Call /\ n.at = a /\ n.conf = call[u].conf /\ n.id = call[u].id
               /\ n.preset = call[u].preset /\ n.rec = call[u].rec /\ n.wipes = call[u].wipes
               /\ n.stale = call[u].stale
    BY <2>U, <2>S DEF Call
  \* What it is for a call to act: the others are as they were, or stale, and none of them
  \* has half changed anything, unless this one held something stale.
  <2>A. ASSUME NEW u \in Users, NEW n \in Call, Acts(u, n), up' = up,
               call[u].at = "idle" => n = AtRest, IsWhole(n)
        PROVE  /\ up /\ call' \in [Users -> Call] /\ call'[u] = n /\ mixed' \in {"never", "now", "before"}
               /\ \A v \in Users : IsWhole(call'[v])
               /\ \A v \in Users \ {u} : /\ call'[v].at = call[v].at
                                         /\ call[v].at # "idle" => call'[v].conf = call[v].conf
                                         /\ ~call'[v].stale => call'[v] = AtRest
               /\ mixed' # "now" =>
                    /\ KeptInv /\ ~call[u].stale /\ OneAtATime' /\ mixed' = mixed
                    /\ \A v \in Users \ {u} : HalfDone(v) => call[u].at = "idle"
    <3>1. /\ up /\ mixed' = IF call[u].stale THEN "now" ELSE mixed
          /\ call' = [v \in Users |-> IF v = u THEN n ELSE IF call[v].at = "idle" THEN AtRest
                                      ELSE [call[v] EXCEPT !.stale = TRUE]]
      BY <2>A DEF Acts, Becomes
    <3>2. ASSUME NEW v \in Users \ {u}
          PROVE  /\ call'[v] \in Call /\ call'[v].at = call[v].at /\ IsWhole(call'[v])
                 /\ call'[v].conf = call[v].conf \/ call[v].at = "idle"
                 /\ call'[v] = AtRest \/ (call'[v].stale /\ call[v].at # "idle")
      <4>1. CASE call[v].at = "idle"
        BY <1>R, <3>1, <4>1
      <4>2. CASE call[v].at # "idle"
        <5>1. call'[v] = [call[v] EXCEPT !.stale = TRUE]
          BY <3>1, <4>2
        <5>2. PICK b \in BOOLEAN : b = TRUE
          OBVIOUS
        <5>3. PICK c \in Call : c = call[v]
          BY <2>U
        <5>4. [c EXCEPT !.stale = b] \in Call
          BY DEF Call
        <5>5. /\ [c EXCEPT !.stale = b].at = c.at /\ [c EXCEPT !.stale = b].conf = c.conf
              /\ [c EXCEPT !.stale = b].id = c.id /\ [c EXCEPT !.stale = b].preset = c.preset
              /\ [c EXCEPT !.stale = b].rec = c.rec /\ [c EXCEPT !.stale = b].wipes = c.wipes
              /\ [c EXCEPT !.stale = b].stale = b
          BY DEF Call
        <5>6. IsWhole(c) => IsWhole([c EXCEPT !.stale = b])
          BY <5>5 DEF IsWhole
        <5>7. QED
          BY <2>U, <4>2, <5>1, <5>2, <5>3, <5>4, <5>5, <5>6
      <4>3. QED
        BY <4>1, <4>2
    <3>3. call'[u] = n /\ call' \in [Users -> Call]
      BY <3>1, <3>2
    <3>4. ASSUME mixed' # "now"
          PROVE  /\ KeptInv /\ ~call[u].stale /\ OneAtATime' /\ mixed' = mixed
                 /\ \A v \in Users \ {u} : HalfDone(v) => call[u].at = "idle"
      <4>1. mixed # "now" /\ ~call[u].stale /\ KeptInv /\ OneAtATime /\ mixed' = mixed
        BY <2>T, <3>1, <3>4 DEF KeptInv
      <4>2. \A v \in Users \ {u} : HalfDone(v) => call[u].at = "idle"
        BY <4>1 DEF OneAtATime
      <4>3. \A v \in Users \ {u} : HalfDone(v)' <=> HalfDone(v)
        BY <3>2 DEF HalfDone
      <4>4. call[u].at = "idle" => call'[u].at = "idle" /\ ~HalfDone(u)'
        BY <1>R, <2>A, <3>3 DEF HalfDone
      <4>5. ASSUME NEW v \in Users, NEW w \in Users, HalfDone(v)', v # w
            PROVE  call'[w].at = "idle" \/ (call'[w].stale /\ ~HalfDone(w)')
        <5>1. CASE v = u
          <6>1. ~HalfDone(w)'
            BY <4>2, <4>3, <4>4, <4>5, <5>1
          <6>2. QED
            BY <1>R, <3>2, <4>5, <5>1, <6>1
        <5>2. CASE w = u
          BY <4>2, <4>3, <4>4, <4>5, <5>2
        <5>3. CASE v # u /\ w # u
          <6>1. call[w].at = "idle" \/ ~HalfDone(w)
            BY <4>1, <4>3, <4>5, <5>3 DEF OneAtATime
          <6>2. QED
            BY <1>R, <3>2, <4>3, <5>3, <6>1
        <5>4. QED
          BY <5>1, <5>2, <5>3
      <4>6. QED
        BY <4>1, <4>2, <4>5 DEF OneAtATime
    <3>5. QED
      BY <1>R, <2>A, <2>Y, <3>1, <3>2, <3>3, <3>4
  \* An act keeps the invariant if it does of its own call, of the files and of what is in force.
  <2>B. ASSUME NEW u \in Users, NEW n \in Call, Acts(u, n), up' = up,
               call[u].at = "idle" => n = AtRest, IsWhole(n),
               PresetsTypeOK', IsOwn(memory'), \A c \in disk' : IsOwn(c) /\ disk' = {c},
               disk' = disk \/ call[u].at # "idle",
               mixed' # "now" =>
                 /\ KnowsConfig(u, n)'
                 /\ (\A v \in Users : call'[v].at # "publish") =>
                      memory' = LoadConfig(disk') /\ (sending' => memory'.statusKey = meant')
                 /\ LoadConfig(disk').audioDeviceId = heard'
                 /\ (\A v \in Users : call'[v].at # "scope") => scope' = active'.scope,
               mixed' = "never" =>
                 /\ OneEach(files') /\ Recorded(active', files')
                 /\ ~n.stale => KnowsFiles(n)'
        PROVE  PresetInv'
    <3>1. /\ up /\ call' \in [Users -> Call] /\ call'[u] = n
          /\ \A v \in Users : IsWhole(call'[v])
          /\ \A v \in Users \ {u} : /\ call'[v].at = call[v].at
                                    /\ call[v].at # "idle" => call'[v].conf = call[v].conf
                                    /\ ~call'[v].stale => call'[v] = AtRest
          /\ mixed' # "now" =>
               /\ KeptInv /\ OneAtATime'
               /\ \A v \in Users \ {u} : HalfDone(v) => call[u].at = "idle"
      BY <2>A, <2>B
    <3>2. WholeInv'
      BY <2>B, <3>1 DEF WholeInv
    <3>3. ASSUME mixed' # "now" PROVE KeptInv'
      <4>1. ASSUME NEW v \in Users PROVE KnowsConfig(v, call[v])'
        <5>1. CASE v = u
          BY <2>B, <3>1, <3>3, <5>1 DEF KnowsConfig
        <5>2. CASE v # u
          <6>1. call'[v].at = "publish" => disk' = disk /\ disk = {call[v].conf}
            BY <2>B, <3>1, <3>3, <5>2 DEF HalfDone, KeptInv, KnowsConfig
          <6>2. call'[v].at = "publish" => disk' = {call'[v].conf}
            BY <3>1, <5>2, <6>1
          <6>3. ~call'[v].stale => call'[v] = AtRest
            BY <3>1, <5>2
          <6>4. QED
            BY <1>R, <6>2, <6>3 DEF KnowsConfig
        <5>3. QED
          BY <5>1, <5>2
      <4>2. QED
        BY <2>B, <3>1, <3>3, <4>1 DEF KeptInv, NobodyAt
    <3>4. ASSUME mixed' = "never" PROVE FilesInv'
      <4>1. ASSUME NEW v \in Users, ~call'[v].stale PROVE KnowsFiles(call[v])'
        <5>1. CASE v = u
          BY <2>B, <3>1, <3>4, <4>1, <5>1 DEF KnowsFiles, Held, KeepsItsScope
        <5>2. CASE v # u
          BY <1>R, <3>1, <4>1, <5>2 DEF KnowsFiles
        <5>3. QED
          BY <5>1, <5>2
      <4>2. QED
        BY <2>B, <3>4, <4>1 DEF FilesInv
    <3>5. QED
      BY <2>B, <3>2, <3>3, <3>4 DEF PresetInv
  \* A call that begins, or ends at a failed write: nothing else changes.
  <2>E. ASSUME NEW u \in Users, NEW n \in Call, call' = [call EXCEPT ![u] = n], up,
               UNCHANGED <<up, disk, memory, files, unreadable, active, scope, vault, sending, mixed, heard, meant>>,
               budget' \in [calls : Nat, faults : Nat, crashes : Nat], IsWhole(n),
               n.at \notin {"publish", "record", "scope", "wipe"}, call[u].at \notin {"publish", "scope"},
               (\E v \in Users \ {u} : HalfDone(v)) => n.stale \/ n.at = "idle",
               mixed # "now" => KnowsConfig(u, n),
               mixed = "never" /\ ~n.stale => KnowsFiles(n)
        PROVE  PresetInv'
    <3>1. /\ call' \in [Users -> Call] /\ call'[u] = n
          /\ \A v \in Users \ {u} : call'[v] = call[v]
          /\ up' = up /\ disk' = disk /\ memory' = memory /\ files' = files /\ unreadable' = unreadable
          /\ active' = active /\ scope' = scope /\ vault' = vault /\ sending' = sending
          /\ mixed' = mixed /\ heard' = heard /\ meant' = meant
      BY <2>E, <2>Y
    <3>2. PresetsTypeOK'
      BY <2>E, <2>Y, <3>1 DEF PresetsTypeOK
    <3>3. WholeInv'
      BY <2>E, <2>T, <3>1 DEF WholeInv
    <3>4. ASSUME mixed # "now" PROVE KeptInv'
      <4>0. KeptInv
        BY <2>T, <3>4
      <4>1. ~HalfDone(u)'
        BY <2>E, <3>1 DEF HalfDone
      <4>2. \A v \in Users \ {u} : HalfDone(v)' <=> HalfDone(v)
        BY <3>1 DEF HalfDone
      <4>3. ASSUME NEW v \in Users, NEW w \in Users, HalfDone(v)', v # w
            PROVE  call'[w].at = "idle" \/ (call'[w].stale /\ ~HalfDone(w)')
        <5>1. v # u /\ HalfDone(v)
          BY <4>1, <4>2, <4>3
        <5>2. CASE w = u
          BY <2>E, <3>1, <4>1, <5>1, <5>2
        <5>3. CASE w # u
          BY <3>1, <4>0, <4>2, <4>3, <5>1, <5>3 DEF KeptInv, OneAtATime
        <5>4. QED
          BY <5>2, <5>3
      <4>4. \A v \in Users : KnowsConfig(v, call[v])'
        <5>1. KnowsConfig(u, call[u])'
          BY <2>E, <3>1, <3>4 DEF KnowsConfig
        <5>2. ASSUME NEW v \in Users \ {u} PROVE KnowsConfig(v, call[v])'
          <6>1. call'[v] = call[v] /\ KnowsConfig(v, call[v])
            BY <3>1, <4>0 DEF KeptInv
          <6>2. QED
            BY <3>1, <6>1 DEF KnowsConfig
        <5>3. QED
          BY <5>1, <5>2
      <4>5. \A s \in {"publish", "scope"} : (\A v \in Users : call'[v].at # s) => \A v \in Users : call[v].at # s
        BY <2>E, <3>1
      <4>6. QED
        BY <2>E, <3>1, <4>0, <4>3, <4>4, <4>5 DEF KeptInv, OneAtATime, NobodyAt
    <3>5. ASSUME mixed = "never" PROVE FilesInv'
      <4>1. ASSUME NEW v \in Users, ~call'[v].stale PROVE KnowsFiles(call[v])'
        <5>1. CASE v = u
          BY <2>E, <3>1, <3>5, <4>1, <5>1 DEF KnowsFiles, Held, KeepsItsScope
        <5>2. CASE v # u
          <6>1. call'[v] = call[v] /\ KnowsFiles(call[v])
            BY <2>T, <3>1, <3>5, <4>1, <5>2 DEF FilesInv
          <6>2. QED
            BY <3>1, <6>1 DEF KnowsFiles, Held, KeepsItsScope
        <5>3. QED
          BY <5>1, <5>2
      <4>2. QED
        BY <2>T, <3>1, <3>5, <4>1 DEF FilesInv
    <3>6. QED
      BY <3>1, <3>2, <3>3, <3>4, <3>5 DEF PresetInv
  \* A call begins: it looks at what is there, unless another has half changed it.
  <2>G. ASSUME NEW u \in Users, NEW f \in Call, Begins(u, f), f.stale = FALSE,
               f.at \notin {"publish", "record", "scope", "wipe"}, IsWhole(f),
               mixed # "now" => KnowsConfig(u, f), mixed = "never" => KnowsFiles(f)
        PROVE  PresetInv'
    <3>1. /\ up /\ call[u].at = "idle"
          /\ call' = [call EXCEPT ![u] = [f EXCEPT !.stale = \E v \in Users : HalfDone(v)]]
          /\ UNCHANGED <<up, disk, memory, files, unreadable, active, scope, vault, sending, mixed, heard, meant>>
          /\ budget.calls > 0 /\ budget' = [budget EXCEPT !.calls = @ - 1]
      BY <2>G DEF Begins
    <3>2. PICK b \in BOOLEAN : b = (\E v \in Users : HalfDone(v))
      OBVIOUS
    <3>3. PICK n : n = [f EXCEPT !.stale = b]
      OBVIOUS
    <3>4. /\ n \in Call /\ n.at = f.at /\ n.conf = f.conf /\ n.id = f.id
          /\ n.preset = f.preset /\ n.rec = f.rec /\ n.wipes = f.wipes /\ n.stale = b
      BY <3>3 DEF Call
    <3>5. IsWhole(n)
      BY <2>G, <3>4 DEF IsWhole
    <3>6. mixed # "now" => KnowsConfig(u, n)
      BY <2>G, <3>4 DEF KnowsConfig
    <3>7. mixed = "never" /\ ~n.stale => KnowsFiles(n)
      BY <2>G, <3>4 DEF KnowsFiles
    <3>8. budget' \in [calls : Nat, faults : Nat, crashes : Nat]
      BY <2>Y, <3>1
    <3>9. call' = [call EXCEPT ![u] = n]
      BY <3>1, <3>2, <3>3
    <3>10. (\E v \in Users \ {u} : HalfDone(v)) => n.stale
      BY <3>2, <3>4
    <3>11. n.at \notin {"publish", "record", "scope", "wipe"} /\ call[u].at \notin {"publish", "scope"}
      BY <2>G, <3>1, <3>4
    <3>12. QED
      BY <2>E, <3>1, <3>4, <3>5, <3>6, <3>7, <3>8, <3>9, <3>10, <3>11
  <2>N. /\ NoRecord \in ActiveRecord /\ Defaults \in Config /\ {} \in SUBSET Preset /\ "" \in Ids \cup {""}
        /\ \A id \in Ids, s \in Scopes : [id |-> id, scope |-> s] \in ActiveRecord /\ [id |-> id, scope |-> s] # NoRecord
    <3>1. ASSUME NEW id \in Ids, NEW s \in Scopes
          PROVE  [id |-> id, scope |-> s] \in ActiveRecord /\ [id |-> id, scope |-> s] # NoRecord
      <4>1. id # ""
        BY PresetsAssumption
      <4>2. [id |-> id, scope |-> s].id = id /\ NoRecord.id = ""
        BY DEF NoRecord
      <4>3. QED
        BY <4>1, <4>2 DEF ActiveRecord
    <3>2. QED
      BY <1>D, <3>1 DEF NoRecord, ActiveRecord, Scopes
  <2>1. ASSUME NEW u \in Users, SaveConfigFrom(u) PROVE PresetInv'
    <3>1. PICK c \in Edits(u) : /\ u # Desk => ~refuseRemoteCaptureChange(c)
                                /\ Begins(u, [AtRest EXCEPT !.at = "write", !.conf = carryForwardUIOnlyFields(c)])
      BY <2>1 DEF SaveConfigFrom
    <3>2. PICK k : k = carryForwardUIOnlyFields(c)
      OBVIOUS
    <3>3. PICK t, v : /\ c = [memory EXCEPT ![t] = v]
                      /\ \/ t = "statusKey" /\ v = "own"
                         \/ t = "audioDeviceId" /\ v = "mic"
                         \/ t = "videoSource" /\ v = "none"
                         \/ t = "coughMuteMode" /\ v = ""
                         \/ u # Desk /\ t \in {"audioDeviceId", "videoSource"} /\ v = Foreign
      <4>1. PICK e \in {<<"statusKey", "own">>, <<"audioDeviceId", "mic">>, <<"videoSource", "none">>, <<"coughMuteMode", "">>}
                \cup IF u = Desk THEN {} ELSE {<<"audioDeviceId", Foreign>>, <<"videoSource", Foreign>>} :
              c = [memory EXCEPT ![e[1]] = e[2]]
        BY <3>1 DEF Edits
      <4>2. c = [memory EXCEPT ![e[1]] = e[2]]
        BY <4>1
      <4>3. \/ e[1] = "statusKey" /\ e[2] = "own"
            \/ e[1] = "audioDeviceId" /\ e[2] = "mic"
            \/ e[1] = "videoSource" /\ e[2] = "none"
            \/ e[1] = "coughMuteMode" /\ e[2] = ""
            \/ u # Desk /\ e[1] \in {"audioDeviceId", "videoSource"} /\ e[2] = Foreign
        <5>1. \/ e = <<"statusKey", "own">> \/ e = <<"audioDeviceId", "mic">>
              \/ e = <<"videoSource", "none">> \/ e = <<"coughMuteMode", "">>
              \/ u # Desk /\ (e = <<"audioDeviceId", Foreign>> \/ e = <<"videoSource", Foreign>>)
          BY <4>1
        <5>2. CASE e = <<"statusKey", "own">>
          BY <5>2
        <5>3. CASE e = <<"audioDeviceId", "mic">>
          BY <5>3
        <5>4. CASE e = <<"videoSource", "none">>
          BY <5>4
        <5>5. CASE e = <<"coughMuteMode", "">>
          BY <5>5
        <5>6. CASE u # Desk /\ e = <<"audioDeviceId", Foreign>>
          BY <5>6
        <5>7. CASE u # Desk /\ e = <<"videoSource", Foreign>>
          BY <5>7
        <5>8. QED
          BY <5>1, <5>2, <5>3, <5>4, <5>5, <5>6, <5>7
      <4>4. QED
        BY <4>2, <4>3
    <3>4. t \in Tags /\ v \in Values[t]
      BY <1>V, <3>3
    <3>5. c \in Config /\ DOMAIN memory = Tags /\ \A s \in Tags : c[s] = IF s = t THEN v ELSE memory[s]
      <4>1. memory \in [Tags -> UNION {Values[s] : s \in Tags}]
        BY <2>Y DEF Config
      <4>2. c \in Config
        BY <1>C, <2>Y, <3>3, <3>4
      <4>3. QED
        BY <3>3, <3>4, <4>1, <4>2
    <3>6. u # Desk => c["audioDeviceId"] = memory["audioDeviceId"] /\ c["videoSource"] = memory["videoSource"]
      BY <3>1 DEF refuseRemoteCaptureChange, MachineFields
    <3>7. IsOwn(memory)
      BY <2>T DEF WholeInv
    <3>8. c["audioDeviceId"] # Foreign /\ c["videoSource"] # Foreign /\ c["eventId"] # Foreign
      BY <1>V, <3>3, <3>5, <3>6, <3>7 DEF IsOwn, Foreign
    <3>9. k = [c EXCEPT !.coughMuteMode = IF c["coughMuteMode"] = "" THEN memory["coughMuteMode"] ELSE c["coughMuteMode"]]
      BY <3>2 DEF carryForwardUIOnlyFields
    <3>10. k \in Config
      <4>1. memory["coughMuteMode"] \in Values["coughMuteMode"] /\ c["coughMuteMode"] \in Values["coughMuteMode"]
        BY <1>C, <1>V, <2>Y, <3>5
      <4>2. QED
        BY <1>C, <1>V, <3>5, <3>9, <4>1
    <3>11. IsOwn(k) /\ k["audioDeviceId"] = c["audioDeviceId"]
      <4>1. DOMAIN c = Tags
        BY <1>C, <3>5
      <4>2. QED
        BY <1>V, <3>7, <3>8, <3>9, <4>1 DEF IsOwn
    <3>13. PICK f : f = [AtRest EXCEPT !.at = "write", !.conf = k]
      OBVIOUS
    <3>14. f \in Call /\ f.at = "write" /\ f.conf = k /\ f.rec = AtRest.rec /\ f.stale = AtRest.stale
      BY <1>R, <3>10, <3>13 DEF Call, Steps
    <3>16. f.at = "write" /\ f.conf = k /\ f.rec = NoRecord /\ f.stale = FALSE
      BY <1>R, <3>14
    <3>17. IsWhole(f) /\ KnowsConfig(u, f) /\ KnowsFiles(f)
      BY <3>6, <3>11, <3>16 DEF IsWhole, KnowsConfig, KnowsFiles
    <3>18. QED
      BY <2>G, <3>1, <3>2, <3>13, <3>14, <3>16, <3>17
  <2>2. ASSUME NEW u \in Users, ApplyNamedPreset(u) PROVE PresetInv'
    <3>1. PICK id \in DOMAIN files :
            /\ ~sending
            /\ Begins(u, [AtRest EXCEPT !.at = "write", !.conf = Apply(memory, Load(id).fields),
                                        !.rec = [id |-> id, scope |-> files[id].scope]])
      BY <2>2 DEF ApplyNamedPreset
    <3>2. PICK k : k = Apply(memory, Load(id).fields)
      OBVIOUS
    <3>3. PICK r : r = [id |-> id, scope |-> files[id].scope]
      OBVIOUS
    <3>4. id \in Ids /\ files[id].scope \in Scopes /\ Load(id).fields \in Fields
      BY <1>O, <2>T
    <3>5. k \in Config /\ k.audioDeviceId = memory.audioDeviceId /\ IsOwn(k)
      BY <1>A, <2>T, <2>Y, <3>2, <3>4 DEF WholeInv
    <3>6. r \in ActiveRecord /\ r # NoRecord /\ Held(r)
      BY <2>N, <3>3, <3>4 DEF Held
    <3>13. PICK f : f = [AtRest EXCEPT !.at = "write", !.conf = k, !.rec = r]
      OBVIOUS
    <3>14. f \in Call /\ f.at = "write" /\ f.conf = k /\ f.rec = r /\ f.stale = AtRest.stale
      BY <1>R, <3>5, <3>6, <3>13 DEF Call, Steps
    <3>16. f.at = "write" /\ f.conf = k /\ f.rec = r /\ f.stale = FALSE
      BY <1>R, <3>14
    <3>17. IsWhole(f) /\ KnowsConfig(u, f) /\ KnowsFiles(f)
      BY <3>1, <3>5, <3>6, <3>16 DEF IsWhole, KnowsConfig, KnowsFiles
    <3>18. QED
      BY <2>G, <3>1, <3>2, <3>3, <3>13, <3>14, <3>16, <3>17
  <2>3. ASSUME NEW u \in Users, SavePreset(u) PROVE PresetInv'
    <3>1. PICK n, id, kept :
            /\ n \in Names /\ id = IdOf[n]
            /\ kept = IF id \in DOMAIN files THEN files[id].scope
                      ELSE IF DOMAIN files = {} /\ active = NoRecord THEN "" ELSE id
            /\ Begins(u, [AtRest EXCEPT !.at = "keep", !.id = id, !.rec = [id |-> id, scope |-> kept],
                            !.preset = {[name |-> n, scope |-> kept, fields |-> Extract(memory)]}])
      BY <2>3 DEF SavePreset
    <3>2. PICK r : r = [id |-> id, scope |-> kept]
      OBVIOUS
    <3>3. PICK p : p = [name |-> n, scope |-> kept, fields |-> Extract(memory)]
      OBVIOUS
    <3>4. id \in Ids /\ kept \in Scopes /\ KeepsItsScope(id, kept)
      BY <1>O, <2>T, <3>1 DEF Ids, Scopes, KeepsItsScope
    <3>5. p \in Preset /\ p.scope = kept
      BY <1>B, <1>P, <2>Y, <3>1, <3>3, <3>4
    <3>6. r \in ActiveRecord
      BY <2>N, <3>2, <3>4
    <3>13. PICK f : f = [AtRest EXCEPT !.at = "keep", !.id = id, !.rec = r, !.preset = {p}]
      OBVIOUS
    <3>14. f \in Call /\ f.at = "keep" /\ f.id = id /\ f.preset = {p} /\ f.rec = r /\ f.stale = AtRest.stale
      BY <1>R, <3>4, <3>5, <3>6, <3>13 DEF Call, Steps
    <3>16. f.at = "keep" /\ f.id = id /\ f.preset = {p} /\ f.rec = r /\ f.stale = FALSE
      BY <1>R, <3>14
    <3>17. IsWhole(f) /\ KnowsConfig(u, f) /\ KnowsFiles(f)
      BY <3>2, <3>4, <3>5, <3>16 DEF IsWhole, KnowsConfig, KnowsFiles
    <3>18. QED
      BY <2>G, <3>1, <3>2, <3>3, <3>13, <3>14, <3>16, <3>17
  <2>4. ASSUME NEW u \in Users, RenamePreset(u) PROVE PresetInv'
    <3>1. PICK id \in DOMAIN files, n \in Names :
            Begins(u, [AtRest EXCEPT !.at = "keep", !.id = id, !.preset = {[Load(id) EXCEPT !.name = n]}])
      BY <2>4 DEF RenamePreset
    <3>3. PICK p : p = [Load(id) EXCEPT !.name = n]
      OBVIOUS
    <3>4. id \in Ids /\ Load(id) \in Preset /\ Load(id).scope = files[id].scope
      BY <1>O, <2>T
    <3>5. p \in Preset /\ p.scope = files[id].scope
      BY <3>3, <3>4 DEF Preset
    <3>6. KeepsItsScope(id, p.scope)
      BY <3>1, <3>5 DEF KeepsItsScope
    <3>13. PICK f : f = [AtRest EXCEPT !.at = "keep", !.id = id, !.preset = {p}]
      OBVIOUS
    <3>14. f \in Call /\ f.at = "keep" /\ f.id = id /\ f.preset = {p} /\ f.rec = AtRest.rec /\ f.stale = AtRest.stale
      BY <1>R, <3>4, <3>5, <3>13 DEF Call, Steps
    <3>16. f.at = "keep" /\ f.id = id /\ f.preset = {p} /\ f.rec = NoRecord /\ f.stale = FALSE
      BY <1>R, <3>14
    <3>17. IsWhole(f) /\ KnowsConfig(u, f) /\ KnowsFiles(f)
      BY <3>4, <3>6, <3>16 DEF IsWhole, KnowsConfig, KnowsFiles
    <3>18. QED
      BY <2>G, <3>1, <3>3, <3>13, <3>14, <3>16, <3>17
  <2>5. ASSUME NEW u \in Users, DeletePreset(u) PROVE PresetInv'
    <3>1. PICK id \in DOMAIN files, w \in BOOLEAN :
            /\ active.id # id
            /\ w => files[id].scope = id
            /\ Begins(u, [AtRest EXCEPT !.at = "remove", !.id = id, !.wipes = w,
                            !.rec = [id |-> id, scope |-> files[id].scope]])
      BY <2>5 DEF DeletePreset
    <3>3. PICK r : r = [id |-> id, scope |-> files[id].scope]
      OBVIOUS
    <3>4. id \in Ids /\ files[id].scope \in Scopes
      BY <1>O, <2>T
    <3>5. r \in ActiveRecord /\ r.scope = files[id].scope
      BY <2>N, <3>3, <3>4
    <3>13. PICK f : f = [AtRest EXCEPT !.at = "remove", !.id = id, !.wipes = w, !.rec = r]
      OBVIOUS
    <3>14. f \in Call /\ f.at = "remove" /\ f.id = id /\ f.wipes = w /\ f.rec = r /\ f.stale = AtRest.stale
      BY <1>R, <3>4, <3>5, <3>13 DEF Call, Steps
    <3>16. f.at = "remove" /\ f.id = id /\ f.wipes = w /\ f.rec = r /\ f.stale = FALSE
      BY <1>R, <3>14
    <3>17. IsWhole(f) /\ KnowsConfig(u, f) /\ KnowsFiles(f)
      BY <3>1, <3>4, <3>5, <3>16 DEF IsWhole, KnowsConfig, KnowsFiles
    <3>18. QED
      BY <2>G, <3>1, <3>3, <3>13, <3>14, <3>16, <3>17
  <2>6. ASSUME NEW u \in Users, Fails(u) \/ RemovesNothing(u) PROVE PresetInv'
    <3>1. /\ up /\ call[u].at \in {"write", "keep", "record", "remove"} /\ call' = [call EXCEPT ![u] = AtRest]
          /\ UNCHANGED <<up, disk, memory, files, unreadable, active, scope, vault, sending, mixed, heard, meant>>
          /\ (budget.faults > 0 /\ budget' = [budget EXCEPT !.faults = @ - 1]) \/ budget' = budget
      BY <2>6 DEF Fails, RemovesNothing
    <3>2. budget' \in [calls : Nat, faults : Nat, crashes : Nat]
      BY <2>Y, <3>1
    <3>3. QED
      BY <1>R, <2>E, <3>1, <3>2
  \* What a call that acts knows, if calls did not cross.
  <2>K. ASSUME NEW u \in Users, NEW n \in Call, Acts(u, n), up' = up,
               call[u].at = "idle" => n = AtRest, IsWhole(n), mixed' # "now"
        PROVE  /\ mixed' = mixed /\ ~call[u].stale /\ KnowsConfig(u, call[u])
               /\ LoadConfig(disk).audioDeviceId = heard
               /\ (\A v \in Users : call[v].at # "publish") =>
                    memory = LoadConfig(disk) /\ (sending => memory.statusKey = meant)
               /\ (\A v \in Users : call[v].at # "scope") => scope = active.scope
               /\ call[u].at # "idle" => \A v \in Users \ {u} : call[v].at \notin {"publish", "scope"}
               /\ call'[u] = n /\ \A v \in Users \ {u} : call'[v].at = call[v].at
               /\ mixed = "never" => OneEach(files) /\ Recorded(active, files) /\ KnowsFiles(call[u])
    <3>1. /\ up /\ call'[u] = n /\ \A v \in Users \ {u} : call'[v].at = call[v].at
          /\ KeptInv /\ ~call[u].stale /\ mixed' = mixed
          /\ \A v \in Users \ {u} : HalfDone(v) => call[u].at = "idle"
      BY <2>A, <2>K
    <3>2. mixed = "never" => OneEach(files) /\ Recorded(active, files) /\ KnowsFiles(call[u])
      BY <2>T, <3>1 DEF FilesInv
    <3>3. /\ KnowsConfig(u, call[u]) /\ LoadConfig(disk).audioDeviceId = heard
          /\ (\A v \in Users : call[v].at # "publish") =>
               memory = LoadConfig(disk) /\ (sending => memory.statusKey = meant)
          /\ (\A v \in Users : call[v].at # "scope") => scope = active.scope
      BY <3>1 DEF KeptInv, NobodyAt
    <3>4. call[u].at # "idle" => \A v \in Users \ {u} : call[v].at \notin {"publish", "scope"}
      BY <3>1 DEF HalfDone
    <3>5. QED
      BY <3>1, <3>2, <3>3, <3>4
  <2>7. ASSUME NEW u \in Users, Save(u) PROVE PresetInv'
    <3>1. PICK n : n = [call[u] EXCEPT !.at = "publish"]
      OBVIOUS
    <3>2. /\ call[u].at = "write" /\ disk' = {call[u].conf} /\ Acts(u, n)
          /\ IF call[u].rec = NoRecord
             THEN /\ meant' = call[u].conf.statusKey
                  /\ heard' = IF u = Desk THEN call[u].conf.audioDeviceId ELSE heard
             ELSE meant' = meant /\ heard' = heard
          /\ UNCHANGED <<up, memory, files, unreadable, active, scope, vault, sending, budget>>
      BY <2>7, <3>1 DEF Save
    <3>3. /\ n \in Call /\ n.at = "publish" /\ n.conf = call[u].conf
          /\ n.rec = call[u].rec /\ n.stale = call[u].stale
      BY <2>S, <3>1 DEF Steps
    <3>4. IsWhole(n) /\ IsOwn(n.conf) /\ n.conf \in Config
      BY <2>U, <3>2, <3>3 DEF IsWhole
    <3>5. meant' \in Values["statusKey"] /\ heard' \in Values["audioDeviceId"]
      BY <1>C, <2>Y, <3>2, <3>3, <3>4
    <3>6. LoadConfig(disk') = n.conf
      BY <3>2, <3>3 DEF LoadConfig
    <3>7. call' \in [Users -> Call] /\ mixed' \in {"never", "now", "before"}
      BY <2>A, <3>2, <3>3, <3>4
    <3>8. PresetsTypeOK'
      BY <2>Y, <3>2, <3>3, <3>4, <3>5, <3>7 DEF PresetsTypeOK
    <3>9. ASSUME mixed' # "now"
          PROVE  /\ KnowsConfig(u, n)'
                 /\ (\A v \in Users : call'[v].at # "publish") =>
                      memory' = LoadConfig(disk') /\ (sending' => memory'.statusKey = meant')
                 /\ LoadConfig(disk').audioDeviceId = heard'
                 /\ (\A v \in Users : call'[v].at # "scope") => scope' = active'.scope
      <4>1. /\ KnowsConfig(u, call[u]) /\ ~call[u].stale
            /\ LoadConfig(disk).audioDeviceId = heard
            /\ (\A v \in Users : call[v].at # "publish") => memory = LoadConfig(disk)
            /\ (\A v \in Users : call[v].at # "scope") => scope = active.scope
            /\ \A v \in Users \ {u} : call[v].at \notin {"publish", "scope"}
            /\ call'[u].at = "publish"
        BY <2>K, <3>2, <3>3, <3>4, <3>9
      <4>2. memory = LoadConfig(disk) /\ scope = active.scope
        BY <3>2, <4>1
      <4>3. n.rec # NoRecord => ~sending'
        BY <3>2, <3>3, <4>1 DEF KnowsConfig
      <4>4. KnowsConfig(u, n)'
        BY <3>2, <3>3, <4>3 DEF KnowsConfig
      <4>5. u # Desk \/ n.rec # NoRecord => n.conf.audioDeviceId = memory.audioDeviceId
        BY <3>2, <3>3, <4>1 DEF KnowsConfig
      <4>6. n.conf.audioDeviceId = heard'
        BY <3>2, <3>3, <4>1, <4>2, <4>5
      <4>7. QED
        BY <3>2, <3>6, <4>1, <4>2, <4>4, <4>6
    <3>10. ASSUME mixed' = "never"
           PROVE  OneEach(files') /\ Recorded(active', files') /\ KnowsFiles(n)'
      <4>1. OneEach(files) /\ Recorded(active, files) /\ KnowsFiles(call[u])
        BY <2>K, <3>2, <3>3, <3>4, <3>10
      <4>2. QED
        BY <3>2, <3>3, <4>1 DEF KnowsFiles, Held
    <3>11. QED
      BY <2>B, <2>T, <3>2, <3>3, <3>4, <3>8, <3>9, <3>10 DEF WholeInv
  \* The call that goes on to record which preset is active, or is done.
  <2>H. ASSUME NEW u \in Users, call[u].at # "idle",
               NEW n, n = IF call[u].rec = NoRecord THEN AtRest ELSE [call[u] EXCEPT !.at = "record"]
        PROVE  /\ n \in Call /\ n.at \in {"idle", "record"} /\ IsWhole(n)
               /\ \A v : KnowsConfig(v, n)'
               /\ n.at = "record" => n.rec = call[u].rec /\ n.rec # NoRecord
               /\ (n.at = "record" => Held(n.rec)') => KnowsFiles(n)'
    <3>1. CASE call[u].rec = NoRecord
      BY <1>R, <2>H, <3>1
    <3>2. CASE call[u].rec # NoRecord
      <4>1. n = [call[u] EXCEPT !.at = "record"]
        BY <2>H, <3>2
      <4>2. n \in Call /\ n.at = "record" /\ n.rec = call[u].rec
        BY <2>S, <4>1 DEF Steps
      <4>3. IsWhole(n) /\ (\A v : KnowsConfig(v, n)') /\ (Held(n.rec)' => KnowsFiles(n)')
        BY <4>2 DEF IsWhole, KnowsConfig, KnowsFiles
      <4>4. QED
        BY <3>2, <4>2, <4>3
    <3>3. QED
      BY <3>1, <3>2
  <2>8. ASSUME NEW u \in Users, PublishConfig(u) PROVE PresetInv'
    <3>1. PICK n : n = IF call[u].rec = NoRecord THEN AtRest ELSE [call[u] EXCEPT !.at = "record"]
      OBVIOUS
    <3>2. /\ call[u].at = "publish" /\ memory' = call[u].conf /\ Acts(u, n)
          /\ UNCHANGED <<up, disk, files, unreadable, active, scope, vault, sending, heard, meant, budget>>
      BY <2>8, <3>1 DEF PublishConfig
    <3>3. /\ n \in Call /\ n.at \in {"idle", "record"} /\ IsWhole(n) /\ KnowsConfig(u, n)'
          /\ n.at = "record" => n.rec = call[u].rec /\ n.rec # NoRecord
          /\ (n.at = "record" => Held(n.rec)') => KnowsFiles(n)'
      BY <2>H, <3>1, <3>2
    <3>4. memory' \in Config /\ IsOwn(memory')
      BY <2>U, <3>2 DEF IsWhole
    <3>7. call' \in [Users -> Call] /\ mixed' \in {"never", "now", "before"}
      BY <2>A, <3>2, <3>3
    <3>8. PresetsTypeOK'
      BY <2>Y, <3>2, <3>4, <3>7 DEF PresetsTypeOK
    <3>9. ASSUME mixed' # "now"
          PROVE  /\ memory' = LoadConfig(disk') /\ (sending' => memory'.statusKey = meant')
                 /\ LoadConfig(disk').audioDeviceId = heard'
                 /\ (\A v \in Users : call'[v].at # "scope") => scope' = active'.scope
      <4>1. /\ KnowsConfig(u, call[u]) /\ ~call[u].stale
            /\ LoadConfig(disk).audioDeviceId = heard
            /\ (\A v \in Users : call[v].at # "scope") => scope = active.scope
            /\ \A v \in Users \ {u} : call[v].at \notin {"publish", "scope"}
        BY <2>K, <3>2, <3>3, <3>9
      <4>2. scope = active.scope
        BY <3>2, <4>1
      <4>3. disk = {call[u].conf} /\ (sending => call[u].conf.statusKey = meant)
        BY <3>2, <4>1 DEF KnowsConfig
      <4>4. LoadConfig(disk) = call[u].conf
        BY <2>D, <4>3
      <4>5. QED
        BY <3>2, <4>1, <4>2, <4>3, <4>4
    <3>10. ASSUME mixed' = "never"
           PROVE  OneEach(files') /\ Recorded(active', files') /\ KnowsFiles(n)'
      <4>1. OneEach(files) /\ Recorded(active, files) /\ KnowsFiles(call[u])
        BY <2>K, <3>2, <3>3, <3>10
      <4>2. n.at = "record" => Held(n.rec)'
        BY <3>2, <3>3, <4>1 DEF KnowsFiles, Held
      <4>3. QED
        BY <3>2, <3>3, <4>1, <4>2
    <3>11. QED
      BY <2>B, <2>T, <3>2, <3>3, <3>4, <3>8, <3>9, <3>10 DEF WholeInv
  <2>9. ASSUME NEW u \in Users, Keep(u) PROVE PresetInv'
    <3>1. PICK n : n = IF call[u].rec = NoRecord THEN AtRest ELSE [call[u] EXCEPT !.at = "record"]
      OBVIOUS
    <3>2. PICK id : id = call[u].id
      OBVIOUS
    <3>3. PICK p : call[u].preset = {p}
      BY <2>U, <2>9 DEF Keep, IsWhole
    <3>4. /\ call[u].at = "keep" /\ Acts(u, n) /\ unreadable' = unreadable \ {id}
          /\ files' = [i \in DOMAIN files \cup {id} |-> IF i = id THEN p ELSE files[i]]
          /\ UNCHANGED <<up, disk, memory, active, scope, vault, sending, heard, meant, budget>>
      BY <2>9, <3>1, <3>2, <3>3 DEF Keep
    <3>5. /\ n \in Call /\ n.at \in {"idle", "record"} /\ IsWhole(n) /\ KnowsConfig(u, n)'
          /\ n.at = "record" => n.rec = call[u].rec /\ n.rec # NoRecord
          /\ (n.at = "record" => Held(n.rec)') => KnowsFiles(n)'
      BY <2>H, <3>1, <3>4
    <3>6. id \in Ids /\ p \in Preset
      BY <2>U, <3>2, <3>3, <3>4 DEF IsWhole
    <3>7. call' \in [Users -> Call] /\ mixed' \in {"never", "now", "before"}
      BY <2>A, <3>4, <3>5
    <3>8. PresetsTypeOK'
      <4>1. /\ DOMAIN files' = DOMAIN files \cup {id} /\ DOMAIN files' \subseteq Ids
            /\ \A i \in DOMAIN files' : files'[i] \in Preset
        BY <2>Y, <3>4, <3>6
      <4>2. unreadable' \subseteq Ids \ DOMAIN files'
        BY <2>Y, <3>4, <4>1
      <4>3. QED
        BY <2>Y, <3>4, <3>7, <4>1, <4>2 DEF PresetsTypeOK
    <3>9. ASSUME mixed' # "now"
          PROVE  /\ memory' = LoadConfig(disk') /\ (sending' => memory'.statusKey = meant')
                 /\ LoadConfig(disk').audioDeviceId = heard'
                 /\ (\A v \in Users : call'[v].at # "scope") => scope' = active'.scope
      <4>1. /\ LoadConfig(disk).audioDeviceId = heard
            /\ (\A v \in Users : call[v].at # "publish") =>
                 memory = LoadConfig(disk) /\ (sending => memory.statusKey = meant)
            /\ (\A v \in Users : call[v].at # "scope") => scope = active.scope
            /\ \A v \in Users \ {u} : call[v].at \notin {"publish", "scope"}
        BY <2>K, <3>4, <3>5, <3>9
      <4>2. scope = active.scope /\ memory = LoadConfig(disk) /\ (sending => memory.statusKey = meant)
        BY <3>4, <4>1
      <4>3. QED
        BY <3>4, <4>1, <4>2
    <3>10. ASSUME mixed' = "never"
           PROVE  OneEach(files') /\ Recorded(active', files') /\ KnowsFiles(n)'
      <4>1. OneEach(files) /\ Recorded(active, files) /\ KnowsFiles(call[u])
        BY <2>K, <3>4, <3>5, <3>10
      <4>2. KeepsItsScope(id, p.scope) /\ (call[u].rec # NoRecord => call[u].rec = [id |-> id, scope |-> p.scope])
        BY <3>2, <3>3, <3>4, <4>1 DEF KnowsFiles
      <4>3. /\ DOMAIN files' = DOMAIN files \cup {id} /\ files'[id] = p
            /\ \A i \in DOMAIN files : i # id => files'[i] = files[i]
            /\ id \in DOMAIN files => p.scope = files[id].scope
            /\ id \notin DOMAIN files => p.scope = id \/ DOMAIN files = {}
        BY <3>4, <4>2 DEF KeepsItsScope
      <4>4. Held(n.rec)' \/ n.at # "record"
        BY <3>5, <4>2, <4>3 DEF Held
      <4>5. Recorded(active', files')
        BY <3>4, <4>1, <4>3 DEF Recorded
      <4>6. ASSUME NEW i \in DOMAIN files', NEW j \in DOMAIN files', files'[i].scope = files'[j].scope,
                   files'[i].scope \in {"", i}, files'[j].scope \in {"", j}
            PROVE  i = j
        <5>1. CASE id \in DOMAIN files
          BY <4>1, <4>3, <4>6, <5>1 DEF OneEach
        <5>2. CASE id \notin DOMAIN files
          <6>1. CASE i # id /\ j # id
            BY <4>1, <4>3, <4>6, <6>1 DEF OneEach
          <6>2. CASE (i = id \/ j = id) /\ p.scope = id
            BY <3>6, <4>3, <4>6, <6>2, PresetsAssumption
          <6>3. CASE DOMAIN files = {}
            BY <4>3, <4>6, <6>3
          <6>4. QED
            BY <4>3, <5>2, <6>1, <6>2, <6>3
        <5>3. QED
          BY <5>1, <5>2
      <4>7. OneEach(files')
        BY <4>6 DEF OneEach
      <4>8. QED
        BY <3>5, <4>4, <4>5, <4>7
    <3>11. QED
      BY <2>B, <2>T, <3>4, <3>5, <3>8, <3>9, <3>10 DEF WholeInv
  <2>10. ASSUME NEW u \in Users, Record(u) PROVE PresetInv'
    <3>1. PICK n : n = [call[u] EXCEPT !.at = "scope"]
      OBVIOUS
    <3>2. /\ call[u].at = "record" /\ active' = call[u].rec /\ Acts(u, n)
          /\ UNCHANGED <<up, disk, memory, files, unreadable, scope, vault, sending, heard, meant, budget>>
      BY <2>10, <3>1 DEF Record
    <3>3. n \in Call /\ n.at = "scope" /\ n.rec = call[u].rec
      BY <2>S, <3>1 DEF Steps
    <3>4. IsWhole(n) /\ KnowsFiles(n)' /\ KnowsConfig(u, n)'
      BY <3>2, <3>3 DEF IsWhole, KnowsFiles, KnowsConfig
    <3>7. call' \in [Users -> Call] /\ call'[u] = n /\ mixed' \in {"never", "now", "before"}
      BY <2>A, <3>2, <3>3, <3>4
    <3>8. PresetsTypeOK'
      BY <2>U, <2>Y, <3>2, <3>7 DEF PresetsTypeOK
    <3>9. ASSUME mixed' # "now"
          PROVE  /\ memory' = LoadConfig(disk') /\ (sending' => memory'.statusKey = meant')
                 /\ LoadConfig(disk').audioDeviceId = heard'
      BY <2>K, <3>2, <3>3, <3>4, <3>9
    <3>10. ASSUME mixed' = "never"
           PROVE  OneEach(files') /\ Recorded(active', files')
      <4>1. OneEach(files) /\ KnowsFiles(call[u])
        BY <2>K, <3>2, <3>3, <3>4, <3>10
      <4>2. QED
        BY <3>2, <4>1 DEF KnowsFiles, Held, Recorded
    <3>11. QED
      BY <2>B, <2>T, <3>2, <3>3, <3>4, <3>7, <3>8, <3>9, <3>10 DEF WholeInv
  <2>11. ASSUME NEW u \in Users, SetCredentialScope(u) PROVE PresetInv'
    <3>2. /\ call[u].at = "scope" /\ scope' = call[u].rec.scope /\ Acts(u, AtRest)
          /\ UNCHANGED <<up, disk, memory, files, unreadable, active, vault, sending, heard, meant, budget>>
      BY <2>11 DEF SetCredentialScope
    <3>3. call' \in [Users -> Call] /\ mixed' \in {"never", "now", "before"}
      BY <1>R, <2>A, <3>2
    <3>4. scope' \in Scopes
      BY <2>U, <3>2 DEF ActiveRecord
    <3>8. PresetsTypeOK'
      BY <2>Y, <3>2, <3>3, <3>4 DEF PresetsTypeOK
    <3>9. ASSUME mixed' # "now"
          PROVE  /\ memory' = LoadConfig(disk') /\ (sending' => memory'.statusKey = meant')
                 /\ LoadConfig(disk').audioDeviceId = heard' /\ scope' = active'.scope
      <4>1. /\ KnowsConfig(u, call[u]) /\ ~call[u].stale
            /\ LoadConfig(disk).audioDeviceId = heard
            /\ (\A v \in Users : call[v].at # "publish") =>
                 memory = LoadConfig(disk) /\ (sending => memory.statusKey = meant)
            /\ \A v \in Users \ {u} : call[v].at \notin {"publish", "scope"}
        BY <1>R, <2>K, <3>2, <3>9
      <4>2. active = call[u].rec
        BY <3>2, <4>1 DEF KnowsConfig
      <4>3. QED
        BY <3>2, <4>1, <4>2
    <3>10. ASSUME mixed' = "never" PROVE OneEach(files') /\ Recorded(active', files')
      BY <1>R, <2>K, <3>2, <3>10
    <3>11. QED
      BY <1>R, <2>B, <2>T, <3>2, <3>8, <3>9, <3>10 DEF WholeInv
  <2>12. ASSUME NEW u \in Users, RemoveFile(u) PROVE PresetInv'
    <3>1. PICK n : n = IF call[u].wipes THEN [call[u] EXCEPT !.at = "wipe"] ELSE AtRest
      OBVIOUS
    <3>2. PICK id : id = call[u].id
      OBVIOUS
    <3>3. /\ call[u].at = "remove" /\ Acts(u, n)
          /\ files' = [i \in DOMAIN files \ {id} |-> files[i]]
          /\ UNCHANGED <<up, disk, memory, unreadable, active, scope, vault, sending, heard, meant, budget>>
      BY <2>12, <3>1, <3>2 DEF RemoveFile
    <3>4. /\ n \in Call /\ n.at \in {"idle", "wipe"} /\ IsWhole(n) /\ KnowsConfig(u, n)'
          /\ (active'.id # id => KnowsFiles(n)')
      <4>1. CASE call[u].wipes
        <5>1. n \in Call /\ n.at = "wipe" /\ n.id = id /\ n.rec = call[u].rec
          BY <2>S, <3>1, <3>2, <4>1 DEF Steps
        <5>2. IsWhole(n)
          BY <2>U, <3>2, <3>3, <4>1, <5>1 DEF IsWhole
        <5>3. QED
          BY <5>1, <5>2 DEF KnowsConfig, KnowsFiles
      <4>2. CASE ~call[u].wipes
        BY <1>R, <3>1, <4>2
      <4>3. QED
        BY <4>1, <4>2
    <3>7. call' \in [Users -> Call] /\ mixed' \in {"never", "now", "before"}
      BY <2>A, <3>3, <3>4
    <3>8. PresetsTypeOK'
      BY <2>Y, <3>3, <3>7 DEF PresetsTypeOK
    <3>9. ASSUME mixed' # "now"
          PROVE  /\ memory' = LoadConfig(disk') /\ (sending' => memory'.statusKey = meant')
                 /\ LoadConfig(disk').audioDeviceId = heard' /\ scope' = active'.scope
      BY <2>K, <3>3, <3>4, <3>9
    <3>10. ASSUME mixed' = "never"
           PROVE  OneEach(files') /\ Recorded(active', files') /\ KnowsFiles(n)'
      <4>1. OneEach(files) /\ Recorded(active, files) /\ KnowsFiles(call[u])
        BY <2>K, <3>3, <3>4, <3>10
      <4>2. active.id # id
        BY <3>2, <3>3, <4>1 DEF KnowsFiles
      <4>3. DOMAIN files' = DOMAIN files \ {id} /\ \A i \in DOMAIN files' : files'[i] = files[i]
        BY <3>3
      <4>4. OneEach(files')
        BY <4>1, <4>3 DEF OneEach
      <4>5. Recorded(active', files')
        BY <3>3, <4>1, <4>2, <4>3 DEF Recorded
      <4>6. QED
        BY <3>3, <3>4, <4>2, <4>4, <4>5
    <3>11. QED
      BY <2>B, <2>T, <3>3, <3>4, <3>8, <3>9, <3>10 DEF WholeInv
  \* A call that changes no more than passwords, or whether a session runs, and is done.
  <2>I. ASSUME NEW u \in Users, Acts(u, AtRest), call[u].at \in {"idle", "wipe"},
               UNCHANGED <<up, disk, memory, files, unreadable, active, scope, heard>>,
               vault' \subseteq Scopes \X Keys, sending' \in BOOLEAN, meant' \in Values["statusKey"],
               budget' \in [calls : Nat, faults : Nat, crashes : Nat],
               (sending' = sending /\ meant' = meant) \/ (sending' => meant' = memory.statusKey)
        PROVE  PresetInv'
    <3>1. /\ call' \in [Users -> Call] /\ mixed' \in {"never", "now", "before"}
          /\ \A v \in Users : call'[v].at \in {"publish", "scope"} <=> call[v].at \in {"publish", "scope"}
          /\ \A v \in Users : call[v].at \in {"publish", "scope"} => call'[v].at = call[v].at
      BY <1>R, <2>A, <2>I
    <3>8. PresetsTypeOK'
      BY <2>I, <2>Y, <3>1 DEF PresetsTypeOK
    <3>9. ASSUME mixed' # "now"
          PROVE  /\ (\A v \in Users : call'[v].at # "publish") =>
                      memory' = LoadConfig(disk') /\ (sending' => memory'.statusKey = meant')
                 /\ LoadConfig(disk').audioDeviceId = heard'
                 /\ (\A v \in Users : call'[v].at # "scope") => scope' = active'.scope
      <4>1. /\ LoadConfig(disk).audioDeviceId = heard
            /\ (\A v \in Users : call[v].at # "publish") =>
                 memory = LoadConfig(disk) /\ (sending => memory.statusKey = meant)
            /\ (\A v \in Users : call[v].at # "scope") => scope = active.scope
        BY <1>R, <2>I, <2>K, <3>9
      <4>2. QED
        BY <2>I, <3>1, <4>1
    <3>10. ASSUME mixed' = "never" PROVE OneEach(files') /\ Recorded(active', files')
      BY <1>R, <2>I, <2>K, <3>10
    <3>11. QED
      BY <1>R, <2>B, <2>I, <2>T, <3>8, <3>9, <3>10 DEF WholeInv
  <2>13. ASSUME NEW u \in Users, Wipe(u) PROVE PresetInv'
    <3>1. PICK failed \in SUBSET Keys :
            /\ Cardinality(failed) <= budget.faults
            /\ budget' = [budget EXCEPT !.faults = @ - Cardinality(failed)]
            /\ vault' = vault \ {ScopedKey(call[u].rec.scope, k) : k \in Keys \ failed}
      BY <2>13 DEF Wipe
    <3>2. Cardinality(failed) \in Nat
      BY FS_Subset, FS_CardinalityType, PresetsAssumption
    <3>3. budget' \in [calls : Nat, faults : Nat, crashes : Nat]
      BY <2>Y, <3>1, <3>2
    <3>4. /\ call[u].at = "wipe" /\ Acts(u, AtRest)
          /\ UNCHANGED <<up, disk, memory, files, unreadable, active, scope, sending, heard, meant>>
      BY <2>13 DEF Wipe
    <3>5. QED
      BY <2>I, <2>Y, <3>1, <3>3, <3>4
  <2>14. ASSUME NEW u \in Users, ChangeSecret(u) PROVE PresetInv'
    <3>1. PICK k \in Keys, given \in BOOLEAN :
            /\ call[u].at = "idle" /\ budget.calls > 0 /\ budget' = [budget EXCEPT !.calls = @ - 1]
            /\ vault' = scopedStore(k, given) /\ Acts(u, AtRest)
            /\ UNCHANGED <<up, disk, memory, files, unreadable, active, scope, sending, heard, meant>>
      BY <2>14 DEF ChangeSecret
    <3>2. vault' \subseteq Scopes \X Keys
      BY <2>Y, <3>1 DEF scopedStore, ScopedKey
    <3>3. budget' \in [calls : Nat, faults : Nat, crashes : Nat]
      BY <2>Y, <3>1
    <3>4. QED
      BY <2>I, <2>Y, <3>1, <3>2, <3>3
  <2>15. ASSUME NEW u \in Users, StartOrStop(u) PROVE PresetInv'
    <3>1. /\ call[u].at = "idle" /\ budget.calls > 0 /\ budget' = [budget EXCEPT !.calls = @ - 1]
          /\ sending' = ~sending /\ meant' = (IF sending THEN meant ELSE memory.statusKey)
          /\ Acts(u, AtRest)
          /\ UNCHANGED <<up, disk, memory, files, unreadable, active, scope, vault, heard>>
      BY <2>15 DEF StartOrStop
    <3>2. meant' \in Values["statusKey"]
      BY <1>C, <2>Y, <3>1
    <3>3. budget' \in [calls : Nat, faults : Nat, crashes : Nat]
      BY <2>Y, <3>1
    <3>4. QED
      BY <2>I, <2>Y, <3>1, <3>2, <3>3
  <2>16. CASE Crash
    <3>1. /\ up /\ budget.crashes > 0 /\ budget' = [budget EXCEPT !.crashes = @ - 1]
          /\ up' = FALSE /\ sending' = FALSE /\ call' = [v \in Users |-> AtRest]
          /\ mixed' = IF mixed = "now" THEN "before" ELSE mixed
          /\ UNCHANGED <<disk, memory, files, unreadable, active, scope, vault, heard, meant>>
      BY <2>16 DEF Crash
    <3>2. \A v \in Users : call'[v] = AtRest
      BY <3>1
    <3>3. budget' \in [calls : Nat, faults : Nat, crashes : Nat]
      BY <2>Y, <3>1
    <3>4. PresetsTypeOK'
      BY <1>R, <2>Y, <3>1, <3>3 DEF PresetsTypeOK
    <3>5. WholeInv'
      BY <1>R, <2>T, <3>1, <3>2 DEF WholeInv
    <3>6. mixed' = "never" => LoadConfig(disk').audioDeviceId = heard'
      BY <2>T, <3>1 DEF KeptInv
    <3>7. KeptInv'
      BY <1>R, <3>1, <3>2, <3>6 DEF KeptInv, OneAtATime, HalfDone
    <3>8. mixed' = "never" => FilesInv'
      BY <1>R, <2>T, <3>1, <3>2 DEF FilesInv
    <3>9. QED
      BY <3>4, <3>5, <3>7, <3>8 DEF PresetInv
  <2>17. CASE Startup
    <3>1. /\ ~up /\ up' = TRUE /\ memory' = LoadConfig(disk) /\ scope' = active.scope
          /\ heard' = IF mixed = "before" THEN memory'.audioDeviceId ELSE heard
          /\ UNCHANGED <<disk, unreadable, active, sending, call, mixed, meant>>
      BY <2>17 DEF Startup
    <3>2. PICK written \in BOOLEAN, kept \in BOOLEAN :
            LET failed == (IF written THEN 0 ELSE 1) + (IF kept THEN 0 ELSE 1) IN
            /\ failed <= budget.faults /\ budget' = [budget EXCEPT !.faults = @ - failed]
            /\ IF written /\ Builtin \notin unreadable THEN Seeded(files') ELSE UNCHANGED files
            /\ vault' = IF kept THEN vault \cup {ScopedKey(Builtin, "m2lx")} ELSE vault
      BY <2>17 DEF Startup
    <3>3. mixed # "now" /\ ~sending /\ \A v \in Users : call[v] = AtRest
      BY <2>T, <3>1 DEF WholeInv
    <3>4. budget' \in [calls : Nat, faults : Nat, crashes : Nat]
      <4>1. PICK m \in Nat : m <= budget.faults /\ budget' = [budget EXCEPT !.faults = @ - m]
        BY <3>2
      <4>2. QED
        BY <2>Y, <4>1
    <3>5. Builtin \in Ids /\ Builtin \in Scopes /\ Builtin # "" /\ "m2lx" \in Keys
      BY PresetsAssumption DEF Scopes
    <3>6. vault' \subseteq Scopes \X Keys
      <4>1. vault' = vault \cup {<<Builtin, "m2lx">>} \/ vault' = vault
        BY <3>2 DEF ScopedKey
      <4>2. <<Builtin, "m2lx">> \in Scopes \X Keys
        BY <3>5
      <4>3. QED
        BY <2>Y, <4>1, <4>2
    \* The built-in is new, with a scope of its own, or what was there, with its scope.
    <3>7. /\ \A i \in DOMAIN files' : files'[i] \in Preset
          /\ DOMAIN files' \subseteq Ids /\ unreadable \cap DOMAIN files' = {}
          /\ DOMAIN files \subseteq DOMAIN files' /\ \A i \in DOMAIN files : files'[i].scope = files[i].scope
          /\ \A i \in DOMAIN files' \ DOMAIN files : i = Builtin /\ files'[i].scope = Builtin
      <4>1. CASE UNCHANGED files
        BY <2>Y, <4>1
      <4>2. CASE Builtin \notin unreadable /\ Seeded(files') /\ Builtin \notin DOMAIN files
        <5>1. PICK n \in Names :
                files' = [i \in DOMAIN files \cup {Builtin} |->
                            IF i # Builtin THEN files[i]
                            ELSE [name |-> n, scope |-> Builtin, fields |-> builtinFields]]
          BY <4>2 DEF Seeded
        <5>2. PICK p : p = [name |-> n, scope |-> Builtin, fields |-> builtinFields]
          OBVIOUS
        <5>3. p \in Preset /\ p.scope = Builtin
          BY <1>B, <1>P, <3>5, <5>2
        <5>4. /\ DOMAIN files' = DOMAIN files \cup {Builtin} /\ files'[Builtin] = p
              /\ \A i \in DOMAIN files : files'[i] = files[i]
          BY <4>2, <5>1, <5>2
        <5>5. QED
          BY <2>Y, <3>5, <4>2, <5>3, <5>4
      <4>3. CASE Seeded(files') /\ Builtin \in DOMAIN files
        <5>1. files' = [files EXCEPT ![Builtin].fields = upgradeBuiltinFields(Load(Builtin).fields)]
          BY <4>3 DEF Seeded
        <5>2. PICK g \in Fields : g = upgradeBuiltinFields(Load(Builtin).fields)
          BY <1>B, <1>O, <2>T, <4>3
        <5>3. PICK p \in Preset : p = files[Builtin]
          BY <2>Y, <4>3
        <5>4. [p EXCEPT !.fields = g] \in Preset /\ [p EXCEPT !.fields = g].scope = p.scope
          BY DEF Preset
        <5>5. /\ DOMAIN files' = DOMAIN files /\ files'[Builtin] = [p EXCEPT !.fields = g]
              /\ \A i \in DOMAIN files : i # Builtin => files'[i] = files[i]
          BY <4>3, <5>1, <5>2, <5>3
        <5>6. QED
          BY <2>Y, <5>3, <5>4, <5>5
      <4>4. QED
        BY <3>2, <4>1, <4>2, <4>3
    <3>8. PresetsTypeOK'
      <4>1. memory' \in Config
        BY <2>D, <3>1
      <4>2. heard' \in Values["audioDeviceId"]
        BY <1>C, <2>Y, <3>1, <4>1
      <4>3. scope' \in Scopes
        BY <2>Y, <3>1 DEF ActiveRecord
      <4>4. unreadable' \subseteq Ids \ DOMAIN files'
        BY <2>Y, <3>1, <3>7
      <4>5. QED
        BY <2>Y, <3>1, <3>4, <3>6, <3>7, <4>1, <4>2, <4>3, <4>4 DEF PresetsTypeOK
    <3>9. WholeInv'
      BY <1>R, <2>D, <2>T, <3>1, <3>3 DEF WholeInv
    <3>10. LoadConfig(disk) = memory' /\ memory'.audioDeviceId = heard'
      BY <2>T, <2>Y, <3>1, <3>3 DEF KeptInv
    <3>11. KeptInv'
      BY <1>R, <3>1, <3>3, <3>10 DEF KeptInv, OneAtATime, HalfDone
    <3>12. ASSUME mixed' = "never" PROVE FilesInv'
      <4>1. OneEach(files) /\ Recorded(active, files)
        BY <2>T, <3>1, <3>12 DEF FilesInv
      <4>2. OneEach(files')
        BY <3>5, <3>7, <4>1 DEF OneEach
      <4>3. Recorded(active', files')
        BY <3>1, <3>7, <4>1 DEF Recorded
      <4>4. QED
        BY <1>R, <3>1, <3>3, <4>2, <4>3 DEF FilesInv
    <3>13. QED
      BY <3>8, <3>9, <3>11, <3>12 DEF PresetInv
  <2>18. CASE UNCHANGED presetVars
    <3>1. /\ up' = up /\ disk' = disk /\ memory' = memory /\ files' = files /\ unreadable' = unreadable
          /\ active' = active /\ scope' = scope /\ vault' = vault /\ sending' = sending /\ call' = call
          /\ mixed' = mixed /\ heard' = heard /\ meant' = meant /\ budget' = budget
      BY <2>18 DEF presetVars
    <3>2. PresetsTypeOK' /\ WholeInv'
      BY <2>T, <3>1 DEF PresetsTypeOK, WholeInv
    <3>3. KeptInv => KeptInv'
      BY <3>1 DEF KeptInv, OneAtATime, HalfDone, KnowsConfig, NobodyAt
    <3>4. FilesInv => FilesInv'
      BY <3>1 DEF FilesInv, KnowsFiles, Held, KeepsItsScope
    <3>5. QED
      BY <2>T, <3>1, <3>2, <3>3, <3>4 DEF PresetInv
  <2>19. CASE \E u \in Users :
       SaveConfigFrom(u) \/ ApplyNamedPreset(u) \/ Save(u) \/ PublishConfig(u) \/ SavePreset(u) \/ RenamePreset(u)
       \/ Keep(u) \/ Record(u) \/ SetCredentialScope(u) \/ DeletePreset(u) \/ RemoveFile(u)
       \/ RemovesNothing(u) \/ Wipe(u) \/ ChangeSecret(u) \/ StartOrStop(u) \/ Fails(u)
    BY <2>1, <2>2, <2>3, <2>4, <2>5, <2>6, <2>7, <2>8, <2>9, <2>10, <2>11, <2>12, <2>13, <2>14, <2>15, <2>19
  <2>20. QED
    BY <2>16, <2>17, <2>18, <2>19 DEF PresetsNext
<1>3. PresetInv => PresetsTypeOK /\ PresetsAreConfined
  <2> SUFFICES ASSUME PresetInv PROVE PresetsTypeOK /\ PresetsAreConfined
    OBVIOUS
  <2>1. PresetsTypeOK /\ NothingForeign
    BY DEF PresetInv, WholeInv, NothingForeign
  <2>2. ASSUME up, mixed # "now", NobodyAt("publish")
        PROVE  disk \subseteq {memory} /\ memory.audioDeviceId = heard /\ (sending => memory.statusKey = meant)
    <3>1. /\ memory = LoadConfig(disk) /\ (sending => memory.statusKey = meant)
          /\ LoadConfig(disk).audioDeviceId = heard
      BY <2>2 DEF PresetInv, KeptInv
    <3>2. \A c \in disk : c \in Config /\ IsOwn(c) /\ disk = {c}
      BY <2>1 DEF PresetInv, WholeInv, PresetsTypeOK
    <3>3. QED
      BY <1>L, <3>1, <3>2
  <2>3. ScopesAreRight
    BY DEF PresetInv, KeptInv, FilesInv, ScopesAreRight
  <2>4. QED
    BY <2>1, <2>2, <2>3 DEF PresetsAreConfined, ConfigIsKept
<1>4. ASSUME PresetInv, [PresetsNext]_presetVars, NEW s \in Scopes, NEW k \in Keys,
             ScopedKey(s, k) \in vault \ vault'
      PROVE  \/ s = scope /\ \A u \in Users : call'[u].at = call[u].at
             \/ /\ \E u \in Users : call[u].at = "wipe" /\ call[u].id = s
                /\ s = scope /\ mixed' = "never" => \E i \in DOMAIN files \ {s} : files[i].scope = s
  <2>1. PICK u \in Users : Wipe(u) \/ ChangeSecret(u)
    <3>1. vault' # vault
      BY <1>4
    <3>2. ~Startup
      BY <1>4 DEF Startup
    <3>3. ~UNCHANGED presetVars /\ ~Crash
      BY <3>1 DEF presetVars, Crash
    <3>4. ASSUME NEW u \in Users,
                 SaveConfigFrom(u) \/ ApplyNamedPreset(u) \/ Save(u) \/ PublishConfig(u)
                 \/ SavePreset(u) \/ RenamePreset(u) \/ DeletePreset(u)
          PROVE  FALSE
      BY <3>1, <3>4 DEF SaveConfigFrom, ApplyNamedPreset, Save, PublishConfig, SavePreset, RenamePreset,
                        DeletePreset, Begins
    <3>5. ASSUME NEW u \in Users,
                 Keep(u) \/ Record(u) \/ SetCredentialScope(u) \/ RemoveFile(u) \/ RemovesNothing(u)
                 \/ StartOrStop(u) \/ Fails(u)
          PROVE  FALSE
      BY <3>1, <3>5 DEF Keep, Record, SetCredentialScope, RemoveFile, RemovesNothing, StartOrStop, Fails
    <3>6. QED
      BY <1>4, <3>2, <3>3, <3>4, <3>5 DEF PresetsNext
  <2>2. CASE ChangeSecret(u)
    <3>1. /\ call[u].at = "idle" /\ Acts(u, AtRest)
          /\ \E l \in Keys : vault' = vault \cup {ScopedKey(scope, l)} \/ vault' = vault \ {ScopedKey(scope, l)}
      BY <2>2 DEF ChangeSecret, scopedStore
    <3>2. s = scope
      BY <1>4, <3>1 DEF ScopedKey
    <3>3. /\ call' = [v \in Users |-> IF v = u THEN AtRest ELSE IF call[v].at = "idle" THEN AtRest
                                      ELSE [call[v] EXCEPT !.stale = TRUE]]
          /\ call \in [Users -> Call]
      BY <1>4, <3>1 DEF Acts, Becomes, PresetInv, PresetsTypeOK
    <3>4. ASSUME NEW v \in Users PROVE call'[v].at = call[v].at
      <4>1. PICK c \in Call : c = call[v]
        BY <3>3
      <4>2. [c EXCEPT !.stale = TRUE].at = c.at
        BY DEF Call
      <4>3. QED
        BY <1>R, <3>1, <3>3, <4>1, <4>2
    <3>5. QED
      BY <3>2, <3>4
  <2>3. CASE Wipe(u)
    <3>1. /\ call[u].at = "wipe" /\ Acts(u, AtRest)
          /\ \E failed \in SUBSET Keys :
               vault' = vault \ {ScopedKey(call[u].rec.scope, l) : l \in Keys \ failed}
      BY <2>3 DEF Wipe
    <3>2. s = call[u].rec.scope
      BY <1>4, <3>1 DEF ScopedKey
    <3>3. call[u].id = s /\ s \in Ids /\ s # ""
      BY <1>4, <3>1, <3>2, PresetsAssumption DEF PresetInv, WholeInv, IsWhole
    <3>4. ASSUME s = scope, mixed' = "never" PROVE \E i \in DOMAIN files \ {s} : files[i].scope = s
      <4>1. up /\ ~call[u].stale /\ mixed = "never" /\ KeptInv /\ FilesInv
        BY <1>4, <3>1, <3>4 DEF Acts, PresetInv
      <4>2. NobodyAt("scope")
        BY <3>1, <4>1 DEF NobodyAt, KeptInv, OneAtATime, HalfDone
      <4>3. scope = active.scope /\ active.id # s /\ Recorded(active, files)
        BY <3>1, <3>3, <4>1, <4>2 DEF KeptInv, FilesInv, KnowsFiles
      <4>4. QED
        BY <3>3, <3>4, <4>3 DEF Recorded
    <3>5. QED
      BY <3>1, <3>3, <3>4
  <2>4. QED
    BY <2>1, <2>2, <2>3
<1>5. PresetInv /\ [PresetsNext]_presetVars =>
        [\A s \in Scopes, k \in Keys :
           ScopedKey(s, k) \in vault \ vault' =>
             \/ s = scope /\ \A u \in Users : call'[u].at = call[u].at
             \/ /\ \E u \in Users : call[u].at = "wipe" /\ call[u].id = s
                /\ s = scope /\ mixed' = "never" => \E i \in DOMAIN files \ {s} : files[i].scope = s]_presetVars
  BY <1>4
<1>6. QED
  BY <1>1, <1>2, <1>3, <1>5, PTL DEF PresetsSpec, OnlyItsOwnPasswords

-----------------------------------------------------------------------------
(* What the settings mean: the formats, by the arithmetic of the rates; and *)
(* what is dialled and opened, along the steps of a session.                *)

\* What is typed is read back as it is shown, and a switcher that states it is
\* conformed to just so; what is accepted is a format a capture can be conformed to.
LEMMA FormatsRoundTrip ==
  \A o \in Typed :
    LET t == ParseVideoFormat(o) IN
    t # NoTarget =>
      /\ ParseVideoFormat(Canonical(t)) = t
      /\ ~o.point \/ o.rate % 1000 # 0 => ConformTargetFromRate(o.w, o.h, o.rate) = t
      /\ t \in Target /\ IsTarget(t) /\ t.num <= maxFrameRate * t.den
<1>1. ASSUME NEW x \in Nat, NEW d \in Nat, d > 0
      PROVE  Rounded(x * d, d) = x
  <2>1. PICK c \in Nat : c = 2 * d
    BY SMT
  <2>2. PICK y \in Nat : y = x * d
    BY SMT
  <2>3. 2 * y + d = x * c + d
    BY <2>1, <2>2, SMT
  <2>4. (2 * y + d) \div c = x
    BY <1>1, <2>1, <2>3, SMT
  <2>5. QED
    BY <2>1, <2>2, <2>4, SMT DEF Rounded
\* Three decimals of an NTSC rate tell it from every other, and from a whole rate.
<1>2. ASSUME NEW n \in Int, 1 <= n, n <= 1001, NEW f, f = Rounded(n * 1000000, 1001)
      PROVE  /\ f \in Int /\ 1 <= f /\ f <= 1000000 /\ Nominal(f) = n /\ OffNtsc(f) <= 500
             /\ n <= 1000 => f % 1000 # 0
             /\ n = 1001 => f = 1000000
  <2>1. f = (2000000 * n + 1001) \div 2002
    BY <1>2, SMT DEF Rounded
  <2>2. f \in Int /\ 1001 * f <= 1000000 * n + 500 /\ 1001 * f >= 1000000 * n - 500
    BY <1>2, <2>1, SMT
  <2>3. Nominal(f) = n
    BY <1>2, <2>1, <2>2, SMT DEF Nominal, Rounded, NtscDen
  <2>4. OffNtsc(f) <= 500
    BY <1>2, <2>1, <2>2, <2>3, SMT DEF OffNtsc, Apart, NtscDen
  <2>5. n <= 1000 => f % 1000 # 0
    BY <1>2, <2>1, <2>2, SMT
  <2>6. QED
    BY <1>2, <2>2, <2>3, <2>4, <2>5, SMT
\* What is typed is a whole rate, or the NTSC rate that it rounds.
<1>3. ASSUME NEW f \in Nat, NEW p \in BOOLEAN, p \/ f % 1000 = 0, TypedRate(f, p) # NoRate
      PROVE  \/ /\ ~p /\ f % 1000 = 0 /\ Within(f \div 1000, maxFrameRate)
                /\ TypedRate(f, p) = [num |-> f \div 1000, den |-> 1]
             \/ /\ p /\ Within(f, maxFrameRate * 1000) /\ Within(Nominal(f), maxFrameRate)
                /\ OffNtsc(f) < Tolerance * NtscDen /\ TypedRate(f, p) = Ntsc(f)
  <2>1. CASE ~p
    BY <1>3, <2>1 DEF TypedRate
  <2>2. CASE p
    <3>1. /\ Within(f, maxFrameRate * 1000) /\ Within(Nominal(f), maxFrameRate)
          /\ OffNtsc(f) <= Tolerance * NtscDen /\ TypedRate(f, p) = Ntsc(f)
      BY <1>3, <2>2 DEF TypedRate
    <3>2. PICK n \in Int : n = Nominal(f)
      BY SMT DEF Nominal, Rounded, NtscDen
    <3>3. OffNtsc(f) = IF 1001 * f < 1000000 * n THEN 1000000 * n - 1001 * f ELSE 1001 * f - 1000000 * n
      BY <3>2, SMT DEF OffNtsc, Apart, NtscDen
    <3>4. 1 <= n /\ n <= 1000 /\ OffNtsc(f) <= 5005
      BY <3>1, <3>2, SMT DEF maxFrameRate, Within, Tolerance, NtscDen
    <3>5. OffNtsc(f) \in Int /\ OffNtsc(f) # 5005
      <4>1. ASSUME NEW a \in Int PROVE 1001 * a # 1000000 * n
        <5>1. ASSUME 1001 * a = 1000000 * n PROVE n % 1001 = 0
          BY <5>1, SMT
        <5>2. QED
          BY <3>4, <5>1, SMT
      <4>2. PICK a \in Int, b \in Int : a = f - 5 /\ b = f + 5
        BY SMT
      <4>3. 1001 * a # 1000000 * n /\ 1001 * b # 1000000 * n
        BY <4>1, SMT
      <4>4. QED
        BY <3>2, <3>3, <4>2, <4>3, SMT
    <3>6. OffNtsc(f) < Tolerance * NtscDen
      BY <3>4, <3>5, SMT DEF Tolerance, NtscDen
    <3>7. QED
      BY <2>2, <3>1, <3>6
  <2>3. QED
    BY <1>3, <2>1, <2>2
<1>4. SUFFICES ASSUME NEW o \in Typed, NEW t, t = ParseVideoFormat(o), t # NoTarget
               PROVE  /\ ParseVideoFormat(Canonical(t)) = t
                      /\ ~o.point \/ o.rate % 1000 # 0 => ConformTargetFromRate(o.w, o.h, o.rate) = t
                      /\ t \in Target /\ IsTarget(t) /\ t.num <= maxFrameRate * t.den
  OBVIOUS
<1>5. /\ o.w \in Nat /\ o.h \in Nat /\ o.rate \in Nat /\ o.point \in BOOLEAN
      /\ o.point \/ o.rate % 1000 = 0
  BY SMT DEF Typed
<1>6. PICK r : r = TypedRate(o.rate, o.point)
  OBVIOUS
<1>7. /\ o.scan = "p" /\ Within(o.w, maxDimension) /\ Within(o.h, maxDimension) /\ r # NoRate
      /\ t = [w |-> o.w, h |-> o.h, num |-> r.num, den |-> r.den]
  BY <1>4, <1>6, SMT DEF ParseVideoFormat, WithRate
<1>8. PICK c : c = Canonical(t)
  OBVIOUS
\* What is read back is of the raster it was, and of the rate, if that is so.
<1>9. /\ t.w = o.w /\ t.h = o.h /\ t.num = r.num /\ t.den = r.den
      /\ c.w = o.w /\ c.h = o.h /\ c.scan = "p" /\ c.rate = Rounded(r.num * 1000, r.den) /\ c.point = (r.den # 1)
  BY <1>7, <1>8, SMT DEF Canonical
<1>10. ASSUME TypedRate(c.rate, c.point) = r PROVE ParseVideoFormat(c) = t
  BY <1>7, <1>9, <1>10, SMT DEF ParseVideoFormat, WithRate
<1>11. ASSUME NEW f, f = o.rate, Within(f, maxFrameRate * 1000),
             r = (IF f % 1000 = 0 THEN [num |-> f \div 1000, den |-> 1] ELSE Ntsc(f)),
             f % 1000 # 0 => Nominal(f) >= 1 /\ OffNtsc(f) < Tolerance * NtscDen
       PROVE ConformTargetFromRate(o.w, o.h, o.rate) = t
  <2>1. o.w # 0 /\ o.h # 0
    BY <1>5, <1>7, SMT DEF Within
  <2>2. ConformTargetFromRate(o.w, o.h, f) = WithRate(o.w, o.h, r)
    BY <1>11, <2>1 DEF ConformTargetFromRate, DecimalRate
  <2>3. QED
    BY <1>7, <1>11, <2>2 DEF WithRate
<1>12. ASSUME r.num \in Nat, r.den \in Nat, r.num > 0, r.den > 0, r.num <= maxFrameRate * r.den
       PROVE  t \in Target /\ IsTarget(t) /\ t.num <= maxFrameRate * t.den
  <2>1. t.w > 0 /\ t.h > 0
    BY <1>7, <1>9 DEF Within
  <2>2. t \in Target
    BY <1>5, <1>7, <1>12 DEF Target
  <2>3. QED
    BY <1>9, <1>12, <2>1, <2>2 DEF IsTarget
<1>13. CASE ~o.point
  <2>1. PICK n \in Nat : 1 <= n /\ n <= 1000 /\ n = o.rate \div 1000 /\ o.rate = 1000 * n /\ r = [num |-> n, den |-> 1]
    <3>1. o.rate % 1000 = 0 /\ Within(o.rate \div 1000, maxFrameRate) /\ r = [num |-> o.rate \div 1000, den |-> 1]
      BY <1>3, <1>5, <1>6, <1>7, <1>13
    <3>2. PICK x \in Nat : x = o.rate
      BY <1>5
    <3>3. x \div 1000 \in Nat /\ 1 <= x \div 1000 /\ x \div 1000 <= 1000 /\ x = 1000 * (x \div 1000)
      BY <3>1, <3>2, SMT DEF Within, maxFrameRate
    <3>4. QED
      BY <3>1, <3>2, <3>3
  <2>2. Rounded(n * 1000, 1) = n * 1000
    BY SMT DEF Rounded
  <2>3. r.num = n /\ r.den = 1
    BY <2>1
  <2>4. c.rate = n * 1000 /\ ~c.point
    <3>1. c.rate = Rounded(n * 1000, 1) /\ c.point = (1 # 1)
      BY <1>9, <2>3
    <3>2. QED
      BY <2>2, <3>1
  <2>5. TypedRate(c.rate, c.point) = [num |-> n, den |-> 1]
    <3>1. PICK x \in Nat : x = c.rate
      BY <2>4, SMT
    <3>2. x \div 1000 = n
      BY <2>4, <3>1, SMT
    <3>3. Within(x \div 1000, maxFrameRate)
      BY <2>1, <3>2, SMT DEF Within, maxFrameRate
    <3>4. QED
      BY <2>4, <3>1, <3>2, <3>3 DEF TypedRate
  <2>6. ParseVideoFormat(c) = t
    BY <1>10, <2>1, <2>5
  <2>7. ConformTargetFromRate(o.w, o.h, o.rate) = t
    <3>1. PICK x \in Nat : x = o.rate
      BY <1>5
    <3>2. x % 1000 = 0 /\ x \div 1000 = n /\ Within(x, maxFrameRate * 1000)
      BY <2>1, <3>1, SMT DEF Within, maxFrameRate
    <3>3. Within(o.rate, maxFrameRate * 1000) /\ r = [num |-> o.rate \div 1000, den |-> 1] /\ o.rate % 1000 = 0
      <4>1. r = [num |-> o.rate \div 1000, den |-> 1]
        BY <2>1
      <4>2. QED
        BY <3>1, <3>2, <4>1
    <3>4. QED
      BY <1>11, <3>3
  <2>8. t \in Target /\ IsTarget(t) /\ t.num <= maxFrameRate * t.den
    BY <1>12, <2>1, <2>3, SMT DEF maxFrameRate
  <2>9. QED
    BY <1>8, <2>6, <2>7, <2>8
<1>14. CASE o.point
  <2>1. /\ Within(o.rate, maxFrameRate * 1000) /\ Within(Nominal(o.rate), maxFrameRate)
        /\ OffNtsc(o.rate) < Tolerance * NtscDen /\ r = Ntsc(o.rate)
    <3>1. TypedRate(o.rate, o.point) # NoRate
      BY <1>6, <1>7
    <3>2. \/ ~o.point
          \/ /\ Within(o.rate, maxFrameRate * 1000) /\ Within(Nominal(o.rate), maxFrameRate)
             /\ OffNtsc(o.rate) < Tolerance * NtscDen /\ TypedRate(o.rate, o.point) = Ntsc(o.rate)
      BY <1>3, <1>5, <3>1
    <3>3. QED
      BY <1>6, <1>14, <3>2
  <2>2. PICK n : n = Nominal(o.rate)
    OBVIOUS
  <2>3. n \in Nat /\ n >= 1 /\ n <= 1000
    <3>1. n \in Int
      BY <1>5, <2>2, SMT DEF Nominal, Rounded, NtscDen
    <3>2. QED
      BY <2>1, <2>2, <3>1, SMT DEF Within, maxFrameRate
  <2>4. r = [num |-> n * 1000, den |-> 1001] /\ r.num = n * 1000 /\ r.den = 1001
    BY <2>1, <2>2 DEF Ntsc, NtscDen
  <2>5. PICK f : f = Rounded(n * 1000000, 1001)
    OBVIOUS
  <2>6. f \in Int /\ 1 <= f /\ f <= 1000000 /\ Nominal(f) = n /\ OffNtsc(f) <= 500
    BY <1>2, <2>3, <2>5, SMT
  <2>7. c.rate = f /\ c.point
    <3>1. (n * 1000) * 1000 = n * 1000000
      BY <2>3, SMT
    <3>2. c.rate = f
      BY <1>9, <2>5, <2>4, <3>1
    <3>3. r.den # 1
      BY <2>4, SMT
    <3>4. QED
      BY <1>9, <3>2, <3>3
  <2>8. TypedRate(c.rate, c.point) = [num |-> n * 1000, den |-> 1001]
    <3>1. /\ Within(f, maxFrameRate * 1000) /\ Within(Nominal(f), maxFrameRate)
          /\ OffNtsc(f) <= Tolerance * NtscDen
      <4>1. PICK x \in Int : x = OffNtsc(f)
        BY <2>3, <2>6, SMT DEF OffNtsc, Apart, NtscDen
      <4>2. QED
        BY <2>3, <2>6, <4>1, SMT DEF maxFrameRate, Within, Tolerance, NtscDen
    <3>2. QED
      BY <2>6, <2>7, <3>1 DEF TypedRate, Ntsc, NtscDen
  <2>9. ParseVideoFormat(c) = t
    BY <1>10, <2>8, <2>4
  <2>10. o.rate % 1000 # 0 => ConformTargetFromRate(o.w, o.h, o.rate) = t
    <3>1. Nominal(o.rate) >= 1
      BY <2>2, <2>3
    <3>2. ASSUME o.rate % 1000 # 0
          PROVE  r = (IF o.rate % 1000 = 0 THEN [num |-> o.rate \div 1000, den |-> 1] ELSE Ntsc(o.rate))
      BY <2>1, <3>2
    <3>3. QED
      BY <1>11, <2>1, <3>1, <3>2
  <2>11. t \in Target /\ IsTarget(t) /\ t.num <= maxFrameRate * t.den
    BY <1>12, <2>4, <2>3, SMT DEF maxFrameRate
  <2>12. QED
    BY <1>8, <1>14, <2>9, <2>10, <2>11
<1>15. QED
  BY <1>5, <1>13, <1>14

\* What is shown of what a switcher states, whatever the rate, is read back as the
\* same rate, and the rate as a number of thousandths unless it is an NTSC one.
LEMMA StatedRoundTrip ==
  \A s \in [w : Nat, h : Nat, rate : Nat] :
    LET t    == Stated(s)
        seen == GetSwitcherFormat(s) IN
    t # NoTarget =>
      /\ SameConformTarget(ConformTargetFromRate(seen.w, seen.h, seen.rate), t)
      /\ t \in Target /\ IsTarget(t) /\ t.num <= maxFrameRate * t.den
\* A finite set of numbers has a greatest; so a rate and its thousand have a divisor.
<1>1. ASSUME NEW m \in Nat, NEW n \in Nat, n > 0
      PROVE  Gcd(m, n) \in Nat /\ Gcd(m, n) > 0 /\ m % Gcd(m, n) = 0 /\ n % Gcd(m, n) = 0
  <2>1. PICK S : S = {d \in 1 .. n : m % d = 0 /\ n % d = 0}
    OBVIOUS
  <2>2. 1 \in S
    BY <1>1, <2>1, SMT
  <2>3. PICK T : T = {n - d : d \in S}
    OBVIOUS
  <2>4. \A x \in S : x \in Nat /\ x > 0 /\ n - x \in Nat
    BY <2>1, SMT
  <2>5. T \subseteq Nat /\ n - 1 \in T
    BY <2>2, <2>3, <2>4
  <2>6. PICK x \in T : \A y \in T : ~(<<y, x>> \in OpToRel(<, Nat))
    BY <2>5, NatLessThanWellFounded, WFMin
  <2>7. \A y \in T : y \in Nat /\ x \in Nat /\ ~(y < x)
    BY <2>5, <2>6 DEF OpToRel
  <2>8. PICK g \in S : x = n - g
    BY <2>3
  <2>9. \A d \in S : g >= d
    BY <2>3, <2>4, <2>7, <2>8, SMT
  <2>10. Max(S) \in S
    BY <2>9 DEF Max
  <2>11. Gcd(m, n) \in S
    BY <2>1, <2>10 DEF Gcd
  <2>12. QED
    BY <2>1, <2>4, <2>11
\* What is shown is within a tenth of a thousandth, or to the thousandth.
<1>2. ASSUME NEW t \in Target, t.den > 0
      PROVE  /\ DisplayFrameRate(t) \in Nat
             /\ \/ DisplayFrameRate(t) = Rounded(t.num * 1000, t.den)
                \/ 10 * Apart(DisplayFrameRate(t) * t.den, t.num * 1000) < t.den
  <2>1. PICK n \in Nat, d \in Nat : n = t.num /\ d = t.den /\ d > 0
    BY <1>2 DEF Target
  <2>2. ASSUME NEW p \in 0 .. 3 PROVE Unit(p) \in {1000, 100, 10, 1}
    BY SMT DEF Unit
  <2>3. ASSUME NEW u \in {1000, 100, 10, 1} PROVE Rounded(n * 1000, d * u) * u \in Nat
    <3>1. PICK e \in Nat : e = d * u /\ e > 0
      BY <2>1, SMT
    <3>2. Rounded(n * 1000, e) \in Nat
      <4>1. PICK a \in Nat : a = 2 * (n * 1000) + e
        BY SMT
      <4>2. PICK b \in Nat : b = 2 * e /\ b > 0
        BY <3>1, SMT
      <4>3. a \div b \in Nat
        BY <4>2, SMT
      <4>4. QED
        BY <4>1, <4>2, <4>3 DEF Rounded
    <3>3. QED
      BY <3>1, <3>2, SMT
  <2>4. ASSUME NEW p \in 0 .. 3 PROVE WithPlaces(t, p) \in Nat
    BY <2>1, <2>2, <2>3 DEF WithPlaces
  <2>5. WithPlaces(t, 3) = Rounded(t.num * 1000, t.den)
    <3>1. Unit(3) = 1
      BY SMT DEF Unit
    <3>2. d * 1 = d
      BY SMT
    <3>3. Rounded(n * 1000, d * 1) * 1 \in Nat
      BY <2>3
    <3>4. Rounded(n * 1000, d) * 1 = Rounded(n * 1000, d)
      BY <2>1, SMT DEF Rounded
    <3>5. QED
      BY <2>1, <3>1, <3>2, <3>4 DEF WithPlaces
  <2>6. PICK close : close = {p \in 0..2 : 10 * Apart(WithPlaces(t, p) * t.den, t.num * 1000) < t.den}
    OBVIOUS
  <2>7. CASE close = {}
    <3>1. DisplayFrameRate(t) = WithPlaces(t, 3)
      BY <2>6, <2>7 DEF DisplayFrameRate
    <3>2. QED
      BY <2>4, <2>5, <3>1, SMT
  <2>8. CASE close # {}
    <3>1. Min(close) \in close
      <4>1. close \subseteq 0 .. 2
        BY <2>6
      <4>2. \E x \in close : \A y \in close : x <= y
        <5>1. CASE 0 \in close
          BY <4>1, <5>1, SMT
        <5>2. CASE 0 \notin close /\ 1 \in close
          BY <4>1, <5>2, SMT
        <5>3. CASE 0 \notin close /\ 1 \notin close
          <6>1. 0 .. 2 = {0, 1, 2}
            BY SMT
          <6>2. close = {2}
            BY <2>8, <4>1, <5>3, <6>1
          <6>3. QED
            BY <6>2, SMT
        <5>4. QED
          BY <5>1, <5>2, <5>3
      <4>3. QED
        BY <4>2 DEF Min
    <3>2. DisplayFrameRate(t) = WithPlaces(t, Min(close))
      BY <2>6, <2>8 DEF DisplayFrameRate
    <3>3. Min(close) \in 0 .. 3
      BY <2>6, <3>1, SMT
    <3>4. PICK m \in 0 .. 3 : m = Min(close)
      BY <3>3
    <3>5. WithPlaces(t, m) \in Nat /\ 10 * Apart(WithPlaces(t, m) * t.den, t.num * 1000) < t.den
      BY <2>4, <2>6, <3>1, <3>4
    <3>6. QED
      BY <3>2, <3>4, <3>5
  <2>9. QED
    BY <2>7, <2>8
\* A rate in thousandths is shown as it is.
<1>3. ASSUME NEW t \in Target, t.den > 0, NEW f \in Nat, t.num * 1000 = f * t.den
      PROVE  DisplayFrameRate(t) = f
  <2>1. PICK n \in Nat, d \in Nat : n = t.num /\ d = t.den /\ d > 0
    BY <1>3 DEF Target
  <2>2. PICK v \in Nat : v = DisplayFrameRate(t)
    BY <1>2, <1>3
  <2>3. CASE v = Rounded(n * 1000, d)
    <3>1. n * 1000 = f * d
      BY <1>3, <2>1
    <3>2. PICK c \in Nat : c = 2 * d
      BY SMT
    <3>3. PICK y \in Nat : y = f * d
      BY SMT
    <3>4. 2 * y + d = f * c + d
      BY <3>2, <3>3, SMT
    <3>5. d > 0
      BY <2>1
    <3>6. (2 * y + d) \div c = f
      <4>1. ASSUME NEW k \in Nat, k = f * c + d PROVE k \div c = f
        BY <3>2, <3>5, <4>1, SMT
      <4>2. PICK k \in Nat : k = 2 * y + d
        BY SMT
      <4>3. QED
        BY <3>4, <4>1, <4>2
    <3>7. Rounded(f * d, d) = f
      BY <3>2, <3>3, <3>6, SMT DEF Rounded
    <3>8. QED
      BY <2>2, <2>3, <3>1, <3>7
  <2>4. CASE 10 * Apart(v * d, f * d) < d
    <3>1. ASSUME NEW x \in Nat, x >= 1 PROVE x * d >= d
      BY <3>1, SMT
    <3>2. ASSUME v > f PROVE FALSE
      <4>1. PICK x \in Nat : x = v - f /\ x >= 1 /\ v = f + x
        BY <3>2, SMT
      <4>2. v * d = f * d + x * d /\ x * d >= d
        BY <3>1, <4>1, SMT
      <4>3. PICK a \in Nat, b \in Nat, e \in Nat : a = v * d /\ b = f * d /\ e = x * d
        BY SMT
      <4>4. QED
        BY <2>1, <2>4, <4>2, <4>3, SMT DEF Apart
    <3>3. ASSUME v < f PROVE FALSE
      <4>1. PICK x \in Nat : x = f - v /\ x >= 1 /\ f = v + x
        BY <3>3, SMT
      <4>2. f * d = v * d + x * d /\ x * d >= d
        BY <3>1, <4>1, SMT
      <4>3. PICK a \in Nat, b \in Nat, e \in Nat : a = v * d /\ b = f * d /\ e = x * d
        BY SMT
      <4>4. QED
        BY <2>1, <2>4, <4>2, <4>3, SMT DEF Apart
    <3>4. QED
      BY <2>2, <3>2, <3>3, SMT
  <2>5. QED
    BY <1>2, <1>3, <2>1, <2>2, <2>3, <2>4
\* An NTSC rate that is shown is read back as the rate; 1001000/1001 as 1000.
<1>4. ASSUME NEW n \in Int, 1 <= n, n <= 1001, NEW v \in Int, 1001 * v <= 1000000 * n + 500, 1001 * v >= 1000000 * n - 500
      PROVE  /\ Within(v, maxFrameRate * 1000) /\ Nominal(v) = n /\ OffNtsc(v) < Tolerance * NtscDen
             /\ v % 1000 = 0 => n = 1001 /\ v \div 1000 = 1000
  <2>1. Nominal(v) = n
    BY <1>4, SMT DEF Nominal, Rounded, NtscDen
  <2>2. OffNtsc(v) < Tolerance * NtscDen
    BY <1>4, <2>1, SMT DEF OffNtsc, Apart, NtscDen, Tolerance
  <2>3. Within(v, maxFrameRate * 1000)
    BY <1>4, SMT DEF Within, maxFrameRate
  <2>4. ASSUME v % 1000 = 0 PROVE n = 1001 /\ v \div 1000 = 1000
    <3>1. PICK k \in Int : k = v \div 1000 /\ v = 1000 * k
      BY <2>4, SMT
    <3>2. 1001 * k = 1000 * n
      BY <1>4, <3>1, SMT
    <3>3. n % 1001 = 0
      BY <3>2, SMT
    <3>4. n = 1001
      BY <1>4, <3>3, SMT
    <3>5. QED
      BY <3>1, <3>2, <3>4, SMT
  <2>5. QED
    BY <2>1, <2>2, <2>3, <2>4
<1>5. SUFFICES ASSUME NEW s \in [w : Nat, h : Nat, rate : Nat], NEW t, t = Stated(s), t # NoTarget,
                      NEW seen, seen = GetSwitcherFormat(s)
               PROVE  /\ SameConformTarget(ConformTargetFromRate(seen.w, seen.h, seen.rate), t)
                      /\ t \in Target /\ IsTarget(t) /\ t.num <= maxFrameRate * t.den
  OBVIOUS
<1>6. PICK f \in Nat, w \in Nat, h \in Nat : f = s.rate /\ w = s.w /\ h = s.h
  <2>1. s.rate \in Nat /\ s.w \in Nat /\ s.h \in Nat
    OBVIOUS
  <2>2. QED
    BY <2>1
<1>7. w # 0 /\ h # 0 /\ Within(f, maxFrameRate * 1000) /\ t = ConformTargetFromRate(w, h, f)
  BY <1>5, <1>6 DEF Stated, ConformTargetFromRate
<1>8. PICK r : r = DecimalRate(f)
  OBVIOUS
<1>9. t = [w |-> w, h |-> h, num |-> r.num, den |-> r.den]
  BY <1>7, <1>8 DEF ConformTargetFromRate, WithRate
<1>10. ASSUME r.num \in Nat, r.den \in Nat, r.num > 0, r.den > 0, r.num <= maxFrameRate * r.den
       PROVE  /\ t \in Target /\ IsTarget(t) /\ t.num <= maxFrameRate * t.den
              /\ seen.w = w /\ seen.h = h /\ seen.rate = DisplayFrameRate(t)
  <2>1. t.w = w /\ t.h = h /\ t.num = r.num /\ t.den = r.den
    BY <1>9
  <2>2. w > 0 /\ h > 0
    BY <1>7, SMT
  <2>3. t \in Target
    BY <1>9, <1>10 DEF Target
  <2>4. IsTarget(t)
    BY <1>10, <2>1, <2>2 DEF IsTarget
  <2>5. seen = [w |-> t.w, h |-> t.h, rate |-> DisplayFrameRate(t)]
    BY <1>5, <2>4 DEF GetSwitcherFormat, Shown
  <2>6. QED
    BY <1>10, <2>1, <2>3, <2>4, <2>5
<1>11. ASSUME NEW n \in Nat, NEW d \in Nat, r.num = n, r.den = d, d > 0, n * 1000 = f * d
       PROVE  /\ SameConformTarget(ConformTargetFromRate(seen.w, seen.h, seen.rate), t)
              /\ t \in Target /\ IsTarget(t) /\ t.num <= maxFrameRate * t.den
  <2>1. f >= 1 /\ f <= 1000000
    BY <1>7, SMT DEF Within, maxFrameRate
  <2>2. n > 0 /\ n <= 1000 * d
    <3>1. ASSUME NEW y \in Int, y = f * d PROVE y >= d /\ y <= 1000000 * d
      BY <1>11, <2>1, <3>1, SMT
    <3>2. PICK y \in Int : y = f * d
      BY SMT
    <3>3. QED
      BY <1>11, <3>1, <3>2, SMT
  <2>3. n <= maxFrameRate * d
    BY <2>2, SMT DEF maxFrameRate
  <2>4. /\ t \in Target /\ IsTarget(t) /\ t.num <= maxFrameRate * t.den
        /\ seen.w = w /\ seen.h = h /\ seen.rate = DisplayFrameRate(t)
    BY <1>10, <1>11, <2>2, <2>3
  <2>5. t.num = n /\ t.den = d
    BY <1>9, <1>11
  <2>6. DisplayFrameRate(t) = f
    BY <1>3, <1>11, <2>4, <2>5
  <2>7. ConformTargetFromRate(seen.w, seen.h, seen.rate) = t
    BY <1>7, <2>4, <2>6
  <2>8. QED
    BY <2>4, <2>7 DEF SameConformTarget
<1>12. CASE f % 1000 = 0
  <2>1. f \div 1000 \in Nat /\ (f \div 1000) * 1000 = f * 1
    BY <1>12, SMT
  <2>2. r.num = f \div 1000 /\ r.den = 1
    BY <1>8, <1>12 DEF DecimalRate
  <2>3. QED
    BY <1>11, <2>1, <2>2, SMT
<1>13. CASE f % 1000 # 0 /\ ~(Nominal(f) >= 1 /\ OffNtsc(f) < Tolerance * NtscDen)
  <2>1. PICK g \in Nat : g = Gcd(f, 1000) /\ g > 0 /\ f % g = 0 /\ 1000 % g = 0
    <3>1. PICK k \in Nat : k = 1000 /\ k > 0
      BY SMT
    <3>2. Gcd(f, k) \in Nat /\ Gcd(f, k) > 0 /\ f % Gcd(f, k) = 0 /\ k % Gcd(f, k) = 0
      BY <1>1, <3>1
    <3>3. QED
      BY <3>1, <3>2
  <2>2. PICK n \in Nat, d \in Nat : n = f \div g /\ d = 1000 \div g /\ n * g = f /\ d * g = 1000
    BY <2>1, SMT
  <2>3. d > 0
    BY <2>2, SMT
  <2>4. n * 1000 = f * d
    <3>1. n * (d * g) = (n * g) * d
      BY <2>1, SMT
    <3>2. QED
      BY <2>2, <3>1
  <2>5. r.num = n /\ r.den = d
    BY <1>8, <1>13, <2>1, <2>2 DEF DecimalRate
  <2>6. QED
    BY <1>11, <2>3, <2>4, <2>5
<1>14. CASE f % 1000 # 0 /\ Nominal(f) >= 1 /\ OffNtsc(f) < Tolerance * NtscDen
  <2>1. PICK n : n = Nominal(f)
    OBVIOUS
  <2>2. n \in Int /\ 1 <= n /\ n <= 1001
    <3>1. f >= 1 /\ f <= 1000000
      BY <1>7, SMT DEF Within, maxFrameRate
    <3>2. n \in Int /\ n <= 1001
      BY <2>1, <3>1, SMT DEF Nominal, Rounded, NtscDen
    <3>3. QED
      BY <1>14, <2>1, <3>2
  <2>3. r.num = n * 1000 /\ r.den = 1001
    BY <1>8, <1>14, <2>1 DEF DecimalRate, Ntsc, NtscDen
  <2>4. /\ t \in Target /\ IsTarget(t) /\ t.num <= maxFrameRate * t.den
        /\ seen.w = w /\ seen.h = h /\ seen.rate = DisplayFrameRate(t)
    BY <1>10, <2>2, <2>3, SMT DEF maxFrameRate
  <2>5. t.num = n * 1000 /\ t.den = 1001
    BY <1>9, <2>3
  <2>6. PICK v \in Nat : v = DisplayFrameRate(t) /\ (v = Rounded(t.num * 1000, t.den) \/ 10 * Apart(v * t.den, t.num * 1000) < t.den)
    BY <1>2, <2>4 DEF IsTarget
  <2>7. 1001 * v <= 1000000 * n + 500 /\ 1001 * v >= 1000000 * n - 500
    <3>1. CASE v = Rounded(n * 1000 * 1000, 1001)
      BY <2>2, <3>1, SMT DEF Rounded
    <3>2. CASE 10 * Apart(v * 1001, n * 1000 * 1000) < 1001
      BY <2>2, <3>2, SMT DEF Apart
    <3>3. QED
      BY <2>5, <2>6, <3>1, <3>2
  <2>8. /\ Within(v, maxFrameRate * 1000) /\ Nominal(v) = n /\ OffNtsc(v) < Tolerance * NtscDen
        /\ v % 1000 = 0 => n = 1001 /\ v \div 1000 = 1000
    BY <1>4, <2>2, <2>7, SMT
  <2>9. PICK u : u = ConformTargetFromRate(seen.w, seen.h, seen.rate)
    OBVIOUS
  <2>10. CASE v % 1000 # 0
    <3>1. u = WithRate(w, h, Ntsc(v))
      BY <1>7, <2>2, <2>4, <2>6, <2>8, <2>9, <2>10 DEF ConformTargetFromRate, DecimalRate
    <3>2. u = t
      BY <1>9, <2>3, <2>8, <3>1 DEF WithRate, Ntsc, NtscDen
    <3>3. QED
      BY <2>4, <2>9, <3>2 DEF SameConformTarget
  <2>11. CASE v % 1000 = 0
    <3>1. u = WithRate(w, h, [num |-> v \div 1000, den |-> 1])
      BY <1>7, <2>4, <2>6, <2>8, <2>9, <2>11 DEF ConformTargetFromRate, DecimalRate
    <3>2. u.w = t.w /\ u.h = t.h /\ u.num = 1000 /\ u.den = 1
      BY <1>9, <2>8, <2>11, <3>1 DEF WithRate
    <3>3. u.num * t.den = t.num * u.den
      BY <2>5, <2>8, <2>11, <3>2, SMT
    <3>4. QED
      BY <2>4, <2>9, <3>2, <3>3 DEF SameConformTarget
  <2>12. QED
    BY <2>10, <2>11
<1>15. QED
  BY <1>12, <1>13, <1>14

\* What a session that dials was made of, and what its picture is conformed to.
Dialled ==
  /\ feed = "none" \/ captured \in {"ok", "slate"}
  /\ feed \in {"none", "refused"} => sinks = <<>>
  /\ feed \in {"dialling", "ok", "failed"} =>
       /\ sinks = SenderOpts(conf)
       /\ conf.srtPort \in Ports /\ conf.keyLen \in {0, 16, 32}
       /\ conf.secondPort = 0 \/ (conf.secondPort \in Ports /\ conf.secondPort # conf.srtPort)
       /\ IsTarget(conformTo) /\ conformTo.num <= maxFrameRate * conformTo.den /\ built = Resolve(conformTo)
SettingsInv == SettingsTypeOK /\ Dialled /\ AcceptedCanBeDialled /\ PreflightIsRight

\* What START, a return and a picture accept can be dialled, what the pre-flight
\* lets through opens, the formats agree and the lamp judges what is sent: for every
\* configuration, machine and switcher (config.go, videoformat.go, app.go, capture_cgo.go).
THEOREM AcceptedIsAlwaysUsable == SettingsSpec => [](SettingsTypeOK /\ AcceptedIsUsable)
\* What a session and a capture are conformed to is a format.
<1>1. ASSUME NEW s \in [w : Nat, h : Nat, rate : Nat], NEW o \in Typed, NEW t, t = ConformFormat(s, o)
      PROVE  t \in Target /\ IsTarget(t) /\ t.num <= maxFrameRate * t.den
  <2>1. CASE Stated(s) # NoTarget
    BY <1>1, <2>1, StatedRoundTrip DEF ConformFormat
  <2>2. CASE Stated(s) = NoTarget /\ ParseVideoFormat(o) # NoTarget
    BY <1>1, <2>2, FormatsRoundTrip DEF ConformFormat
  <2>3. CASE Stated(s) = NoTarget /\ ParseVideoFormat(o) = NoTarget
    <3>1. t = FallbackConformTarget
      BY <1>1, <2>3 DEF ConformFormat
    <3>2. QED
      BY <3>1, SMT DEF FallbackConformTarget, Target, IsTarget, maxFrameRate
  <2>4. QED
    BY <2>1, <2>2, <2>3
<1>2. FallbackConformTarget \in Target /\ NoTarget \in Target
  BY SMT DEF FallbackConformTarget, Target, NoTarget
<1>3. ASSUME NEW t \in Target PROVE Resolve(t) \in Target
  BY <1>2 DEF Resolve
\* A save of the format leaves everything else of the configuration as it is.
<1>4. ASSUME NEW c \in Configuration, NEW o \in Typed, NEW d, d = [c EXCEPT !.override = o]
      PROVE  /\ d \in Configuration /\ d.audioDevice = c.audioDevice /\ d.card = c.card /\ d.latency = c.latency
             /\ d.srtPort = c.srtPort /\ d.secondPort = c.secondPort /\ d.keyLen = c.keyLen
             /\ SenderOpts(d) = SenderOpts(c) /\ EffectiveSRTHost(d) = EffectiveSRTHost(c)
             /\ ValidateReturn(d) = ValidateReturn(c) /\ UsesDeckLinkAudio(d) = UsesDeckLinkAudio(c)
  <2>1. /\ d \in Configuration
        /\ d.host = c.host /\ d.named = c.named /\ d.audioKind = c.audioKind /\ d.audioDevice = c.audioDevice
        /\ d.videoSource = c.videoSource /\ d.card = c.card /\ d.srtPort = c.srtPort
        /\ d.secondPort = c.secondPort /\ d.keyLen = c.keyLen /\ d.latency = c.latency
        /\ d.returnSource = c.returnSource /\ d.returnChannel = c.returnChannel
        /\ d.returnPort = c.returnPort /\ d.returnOverride = c.returnOverride /\ d.returnUrl = c.returnUrl
        /\ d.returnKeyLen = c.returnKeyLen /\ d.pictureLatency = c.pictureLatency
    BY <1>4 DEF Configuration
  <2>2. EffectiveSRTHost(d) = EffectiveSRTHost(c) /\ SenderOpts(d) = SenderOpts(c)
    BY <2>1 DEF EffectiveSRTHost, SenderOpts
  <2>3. UsesDeckLinkAudio(d) = UsesDeckLinkAudio(c)
    BY <2>1 DEF UsesDeckLinkAudio, EffectiveAudioSourceKind
  <2>4. /\ EffectiveReturnSource(d) = EffectiveReturnSource(c) /\ EffectiveReturnChannel(d) = EffectiveReturnChannel(c)
        /\ EffectiveSRTReturnPort(d) = EffectiveSRTReturnPort(c)
    BY <2>1 DEF EffectiveReturnSource, EffectiveReturnChannel, EffectiveSRTReturnPort, HasOverride
  <2>5. ValidateReturn(d) = ValidateReturn(c)
    BY <2>1, <2>2, <2>4 DEF ValidateReturn
  <2>6. QED
    BY <2>1, <2>2, <2>3, <2>5
\* The outputs differ in their port.
<1>5. SettingsTypeOK /\ Dialled => \A i, j \in DOMAIN sinks : sinks[i] = sinks[j] => i = j
  <2>1. SUFFICES ASSUME SettingsTypeOK, Dialled, NEW i \in DOMAIN sinks, NEW j \in DOMAIN sinks, sinks[i] = sinks[j]
                 PROVE  i = j
    OBVIOUS
  <2>2. CASE feed \in {"none", "refused"}
    BY <2>1, <2>2 DEF Dialled
  <2>3. CASE feed \in {"dialling", "ok", "failed"}
    <3>1. PICK a, b : a = [host |-> EffectiveSRTHost(conf), port |-> conf.srtPort]
                      /\ b = [host |-> EffectiveSRTHost(conf), port |-> conf.secondPort]
      OBVIOUS
    <3>2. \/ sinks = <<a>>
          \/ sinks = <<a, b>> /\ conf.srtPort # conf.secondPort
      BY <2>1, <2>3, <3>1 DEF Dialled, SenderOpts
    <3>3. a.port = conf.srtPort /\ b.port = conf.secondPort
      BY <3>1
    <3>4. CASE sinks = <<a>>
      BY <2>1, <3>4
    <3>5. CASE sinks = <<a, b>> /\ a # b
      BY <2>1, <3>5
    <3>6. QED
      BY <3>2, <3>3, <3>4, <3>5
  <2>4. feed \in {"none", "refused"} \cup {"dialling", "ok", "failed"}
    BY <2>1 DEF SettingsTypeOK, Outcomes
  <2>5. QED
    BY <2>2, <2>3, <2>4
<1>6. SettingsInit => SettingsInv
  <2>1. SUFFICES ASSUME SettingsInit PROVE SettingsInv
    OBVIOUS
  <2>2. PICK k \in Cases : conf = k.conf /\ machine = k.machine /\ dead = k.dead /\ stored = k.stored /\ stated = k.stated
    BY <2>1 DEF SettingsInit
  <2>3. /\ captured = "none" /\ hiccup = FALSE /\ plan = NoPlan /\ feed = "none" /\ sinks = <<>>
        /\ conformTo = NoTarget /\ built = NoTarget /\ returning = "none" /\ picture = "none"
    BY <2>1 DEF SettingsInit
  <2>4. NoPlan \in [video : DeviceIds, audio : DeviceIds]
    BY DEF NoPlan, DeviceIds
  <2>5. sinks \in Seq([host : HostNames, port : Int])
    BY <2>3, EmptySeq
  <2>6. SettingsTypeOK
    BY <1>2, <2>2, <2>3, <2>4, <2>5, SettingsAssumption DEF SettingsTypeOK, Outcomes
  <2>7. Dialled /\ AcceptedCanBeDialled /\ PreflightIsRight
    BY <2>3 DEF Dialled, AcceptedCanBeDialled, PreflightIsRight
  <2>8. QED
    BY <2>6, <2>7 DEF SettingsInv
\* The cards that a pre-flight lets through.
<1>7. ASSUME SettingsTypeOK, NEW list, list \in Listings
      PROVE  /\ CardFor(conf, list) \in DeviceIds
             /\ list # {} /\ CardFor(conf, list) # NoId => CardFor(conf, list) \in machine \cap Cards
             /\ conf.card # NoId /\ CardFor(conf, list) # NoId => CardFor(conf, list) = conf.card
  <2>1. conf.card \in DeviceIds
    BY <1>7 DEF SettingsTypeOK, Configuration
  <2>2. list # {} => list = machine
    BY <1>7 DEF Listings
  <2>3. CASE list = {}
    BY <2>1, <2>3 DEF CardFor
  <2>4. CASE list # {} /\ conf.card # NoId
    BY <2>1, <2>2, <2>4 DEF CardFor, DeviceIds
  <2>5. CASE list # {} /\ conf.card = NoId /\ Cardinality(list \cap Cards) = 1
    <3>1. PICK d : d = CHOOSE e \in list \cap Cards : TRUE
      OBVIOUS
    <3>2. CardFor(conf, list) = d
      BY <2>5, <3>1 DEF CardFor
    <3>3. list \cap Cards # {}
      BY <2>5, FS_EmptySet
    <3>4. d \in list \cap Cards
      BY <3>1, <3>3
    <3>5. QED
      BY <2>2, <2>5, <3>2, <3>4 DEF DeviceIds
  <2>6. CASE list # {} /\ conf.card = NoId /\ Cardinality(list \cap Cards) # 1
    BY <2>6 DEF CardFor, DeviceIds
  <2>7. QED
    BY <2>3, <2>4, <2>5, <2>6
<1>8. ASSUME SettingsInv, RebuildCapture PROVE SettingsInv'
  <2>1. /\ captured = "none"
        /\ UNCHANGED <<conf, machine, dead, stored, stated, feed, sinks, conformTo, returning, picture>>
        /\ built' = Resolve(FallbackConformTarget)
    BY <1>8 DEF RebuildCapture
  <2>2. feed = "none"
    BY <1>8, <2>1 DEF SettingsInv, Dialled
  <2>3. PICK mics \in Listings, cards \in Listings :
           LET p == Planned(conf, cards)
               slate == [p EXCEPT !.video = NoId] IN
           /\ hiccup' = ({} \in {mics, cards})
           /\ \/ PreflightRefuses(conf, mics, cards) /\ captured' = "refused" /\ plan' = plan
              \/ /\ ~PreflightRefuses(conf, mics, cards)
                 /\ \/ captured' = "ok" /\ plan' = p
                    \/ p.video # NoId /\ p.audio = NoId /\ captured' = "slate" /\ plan' = slate
                    \/ ~(Accepts(conf, p) /\ Opens(conf, p)) /\ captured' = "failed" /\ plan' = p
    BY <1>8 DEF RebuildCapture
  <2>4. PICK p, slate : p = Planned(conf, cards) /\ slate = [p EXCEPT !.video = NoId]
    OBVIOUS
  <2>5. /\ hiccup' = ({} \in {mics, cards})
        /\ \/ PreflightRefuses(conf, mics, cards) /\ captured' = "refused" /\ plan' = plan
           \/ /\ ~PreflightRefuses(conf, mics, cards)
              /\ \/ captured' = "ok" /\ plan' = p
                 \/ p.video # NoId /\ p.audio = NoId /\ captured' = "slate" /\ plan' = slate
                 \/ ~(Accepts(conf, p) /\ Opens(conf, p)) /\ captured' = "failed" /\ plan' = p
    BY <2>3, <2>4
  <2>6. /\ p.video = (IF UsesDeckLinkVideo(conf) THEN CardFor(conf, cards) ELSE NoId)
        /\ p.audio = (IF UsesDeckLinkAudio(conf) THEN CardFor(conf, cards) ELSE NoId)
        /\ p \in [video : DeviceIds, audio : DeviceIds]
        /\ slate \in [video : DeviceIds, audio : DeviceIds] /\ slate.audio = p.audio
    <3>1. CardFor(conf, cards) \in DeviceIds /\ NoId \in DeviceIds
      BY <1>7, <1>8 DEF SettingsInv, DeviceIds
    <3>2. QED
      BY <2>4, <3>1 DEF Planned
  <2>7. SettingsTypeOK'
    <3>1. hiccup' \in BOOLEAN
      BY <2>5
    <3>2. built' \in Target
      BY <1>2, <1>3, <2>1
    <3>3. plan' \in [video : DeviceIds, audio : DeviceIds] /\ captured' \in Outcomes \cup {"slate"}
      BY <1>8, <2>5, <2>6 DEF SettingsInv, SettingsTypeOK, Outcomes
    <3>4. QED
      BY <1>8, <2>1, <3>1, <3>2, <3>3 DEF SettingsInv, SettingsTypeOK
  <2>8. Dialled'
    BY <1>8, <2>1, <2>2 DEF SettingsInv, Dialled
  <2>9. AcceptedCanBeDialled'
    BY <1>8, <2>1, <2>2 DEF SettingsInv, AcceptedCanBeDialled
  \* What the pre-flight lets through is accepted, so that it is not opened for it is held.
  <2>10. ASSUME captured' = "failed", ~hiccup', conf.audioDevice \notin Cards
        PROVE  dead \cap {p.video, p.audio, NativeAudioDevice(conf)} # {}
    <3>1. /\ mics = machine /\ cards = machine /\ machine # {} /\ ~PreflightRefuses(conf, mics, cards)
          /\ ~(Accepts(conf, p) /\ Opens(conf, p)) /\ plan' = p
      BY <2>5, <2>10 DEF Listings
    <3>2. /\ UsesDeckLinkCard(conf) => CardFor(conf, cards) \in machine \cap Cards
          /\ ~UsesDeckLinkAudio(conf) => MicIsThere(conf, machine)
      BY <1>7, <1>8, <3>1 DEF SettingsInv, PreflightRefuses
    <3>3. NoId \notin Cards /\ NoId \notin Mics /\ Speaker \notin Cards
      BY SettingsAssumption
    <3>4. /\ p.video # NoId => p.video \in machine \cap Cards /\ p.video = CardFor(conf, cards)
          /\ p.audio # NoId => p.audio \in machine \cap Cards /\ p.audio = CardFor(conf, cards)
          /\ UsesDeckLinkAudio(conf) => p.audio # NoId
          /\ ~UsesDeckLinkAudio(conf) => p.audio = NoId
      BY <2>6, <3>2, <3>3 DEF UsesDeckLinkCard
    <3>5. /\ UsesDeckLinkAudio(conf) => NativeAudioDevice(conf) = NoId
          /\ ~UsesDeckLinkAudio(conf) =>
               /\ NativeAudioDevice(conf) = conf.audioDevice /\ conf.audioDevice \in machine \cap Mics
               /\ conf.audioDevice # NoId /\ conf.audioDevice # Speaker
      <4>1. machine \subseteq Mics \cup Cards
        BY <1>8 DEF SettingsInv, SettingsTypeOK
      <4>2. QED
        BY <2>10, <3>1, <3>2, <3>3, <4>1 DEF MicIsThere, NativeAudioDevice
    <3>6. Accepts(conf, p)
      BY <3>4, <3>5 DEF Accepts, AcceptsPicture, AcceptsCommentary
    <3>7. ~Opens(conf, p)
      BY <3>1, <3>6
    <3>8. QED
      BY <3>4, <3>5, <3>7 DEF Opens
  <2>11. ASSUME captured' \in {"ok", "slate"}, UsesDeckLinkAudio(conf) => conf.card # NoId
        PROVE  DeviceKey(conf, plan') = AudioDeviceKey(conf)
    <3>1. ~PreflightRefuses(conf, mics, cards) /\ plan'.audio = p.audio
      BY <2>5, <2>6, <2>11
    <3>2. CASE UsesDeckLinkAudio(conf)
      <4>1. CardFor(conf, cards) # NoId
        BY <3>1, <3>2 DEF PreflightRefuses, UsesDeckLinkCard
      <4>2. p.audio = conf.card
        BY <1>7, <1>8, <2>6, <2>11, <3>2, <4>1 DEF SettingsInv
      <4>3. QED
        BY <2>11, <3>1, <3>2, <4>2 DEF DeviceKey, AudioDeviceKey
    <3>3. CASE ~UsesDeckLinkAudio(conf)
      BY <2>6, <3>1, <3>3 DEF DeviceKey, AudioDeviceKey, NativeAudioDevice
    <3>4. QED
      BY <3>2, <3>3
  <2>12. captured' = "failed" => plan' = p
    BY <2>5
  <2>13. PreflightIsRight'
    BY <2>1, <2>10, <2>11, <2>12 DEF PreflightIsRight
  <2>14. QED
    BY <2>7, <2>8, <2>9, <2>13 DEF SettingsInv
<1>9. ASSUME SettingsInv, Start PROVE SettingsInv'
  <2>1. /\ feed = "none" /\ captured \in {"ok", "slate"}
        /\ UNCHANGED <<conf, machine, dead, stored, stated, captured, hiccup, plan, returning, picture>>
        /\ conformTo' = ConformFormat(stated, conf.override)
        /\ \/ Validate(conf) /\ feed' = "dialling" /\ sinks' = SenderOpts(conf) /\ built' = Resolve(conformTo')
           \/ feed' = "refused" /\ UNCHANGED <<sinks, built>>
    BY <1>9 DEF Start
  <2>2. SettingsTypeOK
    BY <1>9 DEF SettingsInv
  <2>3. conformTo' \in Target /\ IsTarget(conformTo') /\ conformTo'.num <= maxFrameRate * conformTo'.den
    <3>1. conf.override \in Typed /\ stated \in [w : Nat, h : Nat, rate : Nat]
      BY <2>2 DEF SettingsTypeOK, Configuration
    <3>2. QED
      BY <1>1, <2>1, <3>1
  <2>4. SenderOpts(conf) \in Seq([host : HostNames, port : Int])
    <3>1. EffectiveSRTHost(conf) \in HostNames /\ conf.srtPort \in Int /\ conf.secondPort \in Int
      BY <2>2 DEF SettingsTypeOK, Configuration, Written, EffectiveSRTHost
    <3>2. PICK a, b : a = [host |-> EffectiveSRTHost(conf), port |-> conf.srtPort]
                      /\ b = [host |-> EffectiveSRTHost(conf), port |-> conf.secondPort]
      OBVIOUS
    <3>3. a \in [host : HostNames, port : Int] /\ b \in [host : HostNames, port : Int]
      BY <3>1, <3>2
    <3>4. <<a>> \in Seq([host : HostNames, port : Int]) /\ <<a, b>> \in Seq([host : HostNames, port : Int])
      BY <3>3
    <3>5. SenderOpts(conf) = <<a>> \/ SenderOpts(conf) = <<a, b>>
      BY <3>2 DEF SenderOpts
    <3>6. QED
      BY <3>4, <3>5
  <2>5. SettingsTypeOK'
    <3>1. built' \in Target
      BY <1>3, <2>1, <2>2, <2>3 DEF SettingsTypeOK
    <3>2. sinks' \in Seq([host : HostNames, port : Int]) /\ feed' \in Outcomes \cup {"dialling"}
      BY <2>1, <2>2, <2>4 DEF SettingsTypeOK, Outcomes
    <3>3. QED
      BY <2>1, <2>2, <2>3, <3>1, <3>2 DEF SettingsTypeOK
  <2>6. Dialled'
    <3>1. sinks = <<>>
      BY <1>9, <2>1 DEF SettingsInv, Dialled
    <3>2. CASE Validate(conf) /\ feed' = "dialling" /\ sinks' = SenderOpts(conf) /\ built' = Resolve(conformTo')
      <4>1. /\ conf.srtPort \in Ports /\ conf.keyLen \in {0, 16, 32}
            /\ conf.secondPort = 0 \/ (conf.secondPort \in Ports /\ conf.secondPort # conf.srtPort)
        BY <3>2 DEF Validate
      <4>2. QED
        BY <2>1, <2>3, <3>2, <4>1 DEF Dialled
    <3>3. CASE feed' = "refused" /\ UNCHANGED <<sinks, built>>
      BY <2>1, <3>1, <3>3 DEF Dialled
    <3>4. QED
      BY <2>1, <3>2, <3>3
  <2>7. PreflightIsRight'
    BY <1>9, <2>1 DEF SettingsInv, PreflightIsRight
  <2>8. AcceptedCanBeDialled'
    <3>1. (\A i, j \in DOMAIN sinks : sinks[i] = sinks[j] => i = j)'
      BY <2>5, <2>6, <1>5, PTL
    <3>2. feed' # "failed"
      BY <2>1
    <3>3. QED
      BY <1>9, <2>1, <3>1, <3>2 DEF SettingsInv, AcceptedCanBeDialled
  <2>9. QED
    BY <2>5, <2>6, <2>7, <2>8 DEF SettingsInv
<1>10. ASSUME SettingsInv, DialSinks PROVE SettingsInv'
  <2>1. /\ feed = "dialling"
        /\ UNCHANGED <<conf, machine, dead, stored, stated, captured, hiccup, plan, sinks, conformTo, built,
                       returning, picture>>
        /\ feed' = IF \A i \in DOMAIN sinks : SinkIsUsable(sinks[i], conf) THEN "ok" ELSE "failed"
    BY <1>10 DEF DialSinks
  <2>2. SettingsTypeOK /\ Dialled /\ AcceptedCanBeDialled /\ PreflightIsRight
    BY <1>10 DEF SettingsInv
  <2>3. SettingsTypeOK' /\ Dialled' /\ PreflightIsRight'
    <3>1. feed' \in {"ok", "failed"}
      BY <2>1
    <3>2. SettingsTypeOK'
      BY <2>1, <2>2, <3>1 DEF SettingsTypeOK, Outcomes
    <3>3. Dialled'
      BY <2>1, <2>2, <3>1 DEF Dialled
    <3>4. PreflightIsRight'
      BY <2>1, <2>2 DEF PreflightIsRight
    <3>5. QED
      BY <3>2, <3>3, <3>4
  <2>4. ASSUME feed' = "failed" PROVE conf.latency < 0 \/ EffectiveSRTHost(conf) = ""
    <3>1. PICK i \in DOMAIN sinks : ~SinkIsUsable(sinks[i], conf)
      BY <2>1, <2>4
    <3>2. sinks = SenderOpts(conf) /\ conf.srtPort \in Ports /\ conf.keyLen \in {0, 16, 32}
          /\ (conf.secondPort = 0 \/ conf.secondPort \in Ports)
      BY <2>1, <2>2 DEF Dialled
    <3>3. PICK a, b : a = [host |-> EffectiveSRTHost(conf), port |-> conf.srtPort]
                      /\ b = [host |-> EffectiveSRTHost(conf), port |-> conf.secondPort]
      OBVIOUS
    <3>4. sinks = <<a>> \/ (sinks = <<a, b>> /\ conf.secondPort \in Ports)
      BY <3>2, <3>3 DEF SenderOpts
    <3>5. sinks[i] = a \/ (sinks[i] = b /\ conf.secondPort \in Ports)
      BY <3>1, <3>4
    <3>6. sinks[i].host = EffectiveSRTHost(conf) /\ sinks[i].port \in Ports
      BY <3>2, <3>3, <3>5
    <3>7. conf.latency \in Int
      BY <2>2 DEF SettingsTypeOK, Configuration
    <3>8. EffectiveSRTHost(conf) = "" \/ ~(conf.latency >= 0)
      BY <3>1, <3>2, <3>6 DEF SinkIsUsable
    <3>9. conf.latency >= 0 \/ conf.latency < 0
      BY <3>7, SMT
    <3>10. QED
      BY <3>8, <3>9, Zenon
  <2>5. AcceptedCanBeDialled'
    BY <2>1, <2>2, <2>4 DEF AcceptedCanBeDialled
  <2>6. QED
    BY <2>3, <2>5 DEF SettingsInv
<1>11. ASSUME SettingsInv, SaveOverride PROVE SettingsInv'
  <2>1. PICK o \in Overrides :
          /\ feed \in {"ok", "failed"} /\ conf' = [conf EXCEPT !.override = o]
          /\ UNCHANGED <<machine, dead, stored, stated, captured, hiccup, plan, feed, sinks, conformTo, built,
                         returning, picture>>
    BY <1>11 DEF SaveOverride
  <2>2. SettingsTypeOK /\ Dialled /\ AcceptedCanBeDialled /\ PreflightIsRight
    BY <1>11 DEF SettingsInv
  <2>3. conf \in Configuration /\ o \in Typed
    BY <2>2, SettingsAssumption DEF SettingsTypeOK
  <2>4. PICK d : d = conf'
    OBVIOUS
  <2>5. /\ d \in Configuration /\ d.audioDevice = conf.audioDevice /\ d.card = conf.card
        /\ d.latency = conf.latency /\ d.srtPort = conf.srtPort /\ d.secondPort = conf.secondPort
        /\ d.keyLen = conf.keyLen /\ SenderOpts(d) = SenderOpts(conf)
        /\ EffectiveSRTHost(d) = EffectiveSRTHost(conf) /\ ValidateReturn(d) = ValidateReturn(conf)
        /\ UsesDeckLinkAudio(d) = UsesDeckLinkAudio(conf)
    BY <1>4, <2>1, <2>3, <2>4
  <2>6. /\ NativeAudioDevice(d) = NativeAudioDevice(conf) /\ AudioDeviceKey(d) = AudioDeviceKey(conf)
        /\ DeviceKey(d, plan) = DeviceKey(conf, plan)
    BY <2>5 DEF NativeAudioDevice, AudioDeviceKey, DeviceKey
  <2>7. SettingsTypeOK'
    BY <2>1, <2>2, <2>4, <2>5 DEF SettingsTypeOK
  <2>8. Dialled'
    BY <2>1, <2>2, <2>4, <2>5 DEF Dialled
  <2>9. AcceptedCanBeDialled'
    BY <2>1, <2>2, <2>4, <2>5 DEF AcceptedCanBeDialled
  <2>10. PreflightIsRight'
    BY <2>1, <2>2, <2>4, <2>5, <2>6 DEF PreflightIsRight
  <2>11. QED
    BY <2>7, <2>8, <2>9, <2>10 DEF SettingsInv
\* A configuration that validates names a host for the return, and a port.
<1>12. ASSUME NEW c \in Configuration, ValidateReturn(c)
       PROVE  /\ EffectiveSRTReturnHost(c) # "" /\ EffectiveSRTReturnPort(c) \in Ports
              /\ EffectiveReturnChannel(c) \in {"stereo", "left", "right"} /\ c.returnKeyLen \in {0, 16, 32}
  <2>1. /\ EffectiveReturnChannel(c) \in {"stereo", "left", "right"} /\ c.returnKeyLen \in {0, 16, 32}
        /\ EffectiveSRTReturnPort(c) \in Ports /\ EffectiveSRTHost(c) # ""
    BY <1>12 DEF ValidateReturn
  <2>2. EffectiveSRTReturnHost(c) # ""
    BY <2>1, Zenon DEF EffectiveSRTReturnHost, HasOverride
  <2>3. QED
    BY <2>1, <2>2
<1>13. ASSUME SettingsInv, StartReturn PROVE SettingsInv'
  <2>1. /\ UNCHANGED <<conf, machine, dead, stored, stated, captured, hiccup, plan, feed, sinks, conformTo,
                       built, picture>>
        /\ \/ returning' \in {"refused", "ok"}
           \/ /\ returning' = "failed" /\ ValidateReturn(conf)
              /\ ~(/\ EffectiveSRTReturnHost(conf) # "" /\ EffectiveSRTReturnPort(conf) \in Ports
                   /\ conf.latency >= 0 /\ EffectiveReturnChannel(conf) \in {"stereo", "left", "right"}
                   /\ "srtreturn" \in stored => conf.returnKeyLen \in {0, 16, 32})
    BY <1>13, Zenon DEF StartReturn
  <2>2. SettingsTypeOK /\ Dialled /\ AcceptedCanBeDialled /\ PreflightIsRight
    BY <1>13 DEF SettingsInv
  <2>3. conf \in Configuration
    BY <2>2 DEF SettingsTypeOK
  <2>4. returning' = "failed" => conf.latency < 0
    <3>1. conf.latency \in Int
      BY <2>3 DEF Configuration
    <3>2. returning' = "failed" => ~(conf.latency >= 0)
      BY <1>12, <2>1, <2>3
    <3>3. QED
      BY <3>1, <3>2
  <2>5. SettingsTypeOK'
    BY <2>1, <2>2 DEF SettingsTypeOK, Outcomes
  <2>6. Dialled' /\ PreflightIsRight'
    BY <2>1, <2>2 DEF Dialled, PreflightIsRight
  <2>7. AcceptedCanBeDialled'
    BY <2>1, <2>2, <2>4 DEF AcceptedCanBeDialled
  <2>8. QED
    BY <2>5, <2>6, <2>7 DEF SettingsInv
<1>14. ASSUME SettingsInv, StartPicture PROVE SettingsInv'
  <2>1. /\ UNCHANGED <<conf, machine, dead, stored, stated, captured, hiccup, plan, feed, sinks, conformTo,
                       built, returning>>
        /\ \/ picture' \in {"refused", "ok"}
           \/ /\ picture' = "failed"
              /\ ~(/\ EffectiveSRTReturnHost(conf) # "" /\ EffectiveSRTReturnPort(conf) \in Ports
                   /\ EffectivePictureLatencyMs(conf) >= 0 /\ conf.returnKeyLen \in {0, 16, 24, 32})
    BY <1>14, Zenon DEF StartPicture
  <2>2. SettingsTypeOK /\ Dialled /\ AcceptedCanBeDialled /\ PreflightIsRight
    BY <1>14 DEF SettingsInv
  <2>3. conf \in Configuration
    BY <2>2 DEF SettingsTypeOK
  <2>4. picture' = "failed" => ~ValidateReturn(conf)
    <3>1. EffectivePictureLatencyMs(conf) >= 0
      <4>1. conf.pictureLatency \in Int
        BY <2>3 DEF Configuration
      <4>2. QED
        BY <4>1, SMT DEF EffectivePictureLatencyMs
    <3>2. QED
      BY <1>12, <2>1, <2>3, <3>1
  <2>5. SettingsTypeOK'
    BY <2>1, <2>2 DEF SettingsTypeOK, Outcomes
  <2>6. Dialled' /\ PreflightIsRight'
    BY <2>1, <2>2 DEF Dialled, PreflightIsRight
  <2>7. AcceptedCanBeDialled'
    BY <2>1, <2>2, <2>4 DEF AcceptedCanBeDialled
  <2>8. QED
    BY <2>5, <2>6, <2>7 DEF SettingsInv
<1>15. ASSUME SettingsInv, UNCHANGED settingsVars PROVE SettingsInv'
  BY <1>15 DEF SettingsInv, SettingsTypeOK, Dialled, AcceptedCanBeDialled, PreflightIsRight, settingsVars
<1>16. SettingsInv /\ [SettingsNext]_settingsVars => SettingsInv'
  BY <1>8, <1>9, <1>10, <1>11, <1>13, <1>14, <1>15 DEF SettingsNext
\* All of it is usable, for the formats agree in every state of a configuration's type.
<1>17. SettingsInv => SettingsTypeOK /\ AcceptedIsUsable
  <2>1. SUFFICES ASSUME SettingsInv PROVE FormatsAgree /\ LampJudgesWhatIsSent
    BY DEF SettingsInv, AcceptedIsUsable
  <2>2. conf.override \in Typed /\ stated \in [w : Nat, h : Nat, rate : Nat] /\ conformTo \in Target
    BY <2>1 DEF SettingsInv, SettingsTypeOK, Configuration
  <2>3. FormatsAgree
    BY <2>2, FormatsRoundTrip, StatedRoundTrip DEF FormatsAgree
  <2>4. LampJudgesWhatIsSent
    <3>1. SUFFICES ASSUME feed \in {"dialling", "ok", "failed"}, conformTo.w % 2 = 0, conformTo.h % 2 = 0,
                          conformTo.w <= maxDimension, conformTo.h <= maxDimension
                   PROVE  GetConformTarget(TRUE, conformTo, conf.override) = Shown(built)
      BY DEF LampJudgesWhatIsSent
    <3>2. IsTarget(conformTo) /\ conformTo.num <= maxFrameRate * conformTo.den /\ built = Resolve(conformTo)
      BY <2>1, <3>1 DEF SettingsInv, Dialled
    <3>3. Resolve(conformTo) = conformTo
      BY <3>1, <3>2 DEF Resolve
    <3>4. QED
      BY <3>2, <3>3 DEF GetConformTarget
  <2>5. QED
    BY <2>3, <2>4
<1>18. QED
  BY <1>6, <1>16, <1>17, PTL DEF SettingsSpec

-----------------------------------------------------------------------------
\* The three parts of the setting up together (Presets, Settings, ChannelMap): each
\* part's steps leave the others' state alone, so that each keeps its types.
THEOREM SetupIsSound == MCSpec => []TypesOK
<1> DEFINE PartIsOne == part \in {"presets", "settings", "routing"}
<1>1. MCInit => PresetsInit /\ SettingsInit /\ ChanInit
  BY DEF MCInit
<1>2. [MCNext]_allVars => [PresetsNext]_presetVars /\ [SettingsNext]_settingsVars /\ [ChanNext]_chanVars
  BY DEF MCNext, PresetsMove, SettingsMove, RoutingMoves, allVars
<1>3. MCInit => PartIsOne
  BY DEF MCInit
<1>4. PartIsOne /\ [MCNext]_allVars => PartIsOne'
  BY DEF MCNext, PresetsMove, SettingsMove, RoutingMoves, allVars
<1>5. MCSpec => PresetsSpec /\ SettingsSpec /\ ChanSpec
  BY <1>1, <1>2, PTL DEF MCSpec, PresetsSpec, SettingsSpec, ChanSpec
<1>6. PresetsTypeOK /\ SettingsTypeOK /\ ChanTypeOK /\ PartIsOne => TypesOK
  BY DEF TypesOK
<1>7. PresetsSpec => []PresetsTypeOK
  BY PresetsStayConfined, PTL
<1>8. SettingsSpec => []SettingsTypeOK
  BY AcceptedIsAlwaysUsable, PTL
<1>9. ChanSpec => []ChanTypeOK
  BY RoutingIsAlwaysShown, PTL
<1>10. MCSpec => []PartIsOne
  BY <1>3, <1>4, PTL DEF MCSpec
<1>11. QED
  BY <1>5, <1>6, <1>7, <1>8, <1>9, <1>10, PTL

=============================================================================
