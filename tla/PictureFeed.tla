----------------------------- MODULE PictureFeed -----------------------------
(***************************************************************************)
(* What happens to an access unit between the picture pipeline's queue and  *)
(* its parser: the catch-up (internal/gst/catchup.go), which throws units   *)
(* away when the decoder has fallen behind, and the re-injection of the     *)
(* parameter sets (h265reinject.go), on the same pad and after it.          *)
(*                                                                         *)
(* An access unit is its sequence of NAL units, each with the first byte of *)
(* its header; a parameter set also has the version it is of, a slice the   *)
(* version it is coded with.                                               *)
(***************************************************************************)
EXTENDS Naturals, Sequences, FiniteSetsExt

CONSTANTS
  FeedCodecs,    \* what the transport may carry
  HighWater,     \* catchUpHighWater
  LowWater,      \* catchUpLowWater
  Gop,           \* the distance of two keyframes
  QueueMax,      \* bound: access units waiting, the queue's own limit
  MaxSets,       \* bound: versions of the parameter sets
  DropCap        \* bound: where the count of an episode's drops stops
ASSUME FeedAssumption ==
  /\ FeedCodecs \subseteq {"h265", "h264"}
  /\ {HighWater, LowWater, Gop, QueueMax, MaxSets, DropCap} \subseteq Nat
  /\ LowWater < HighWater /\ HighWater < QueueMax /\ Gop > 0 /\ MaxSets > 0 /\ DropCap > QueueMax + Gop

VARIABLES
  carried,    \* what the transport carries
  gop,        \* pictures until the encoder's next keyframe
  sets,       \* the version of its parameter sets
  picq,       \* the access units that wait
  dropping, episodeDropped,   \* of catchUp
  cache,      \* the version of each set h265ParamCache holds, 0 for none
  parser,     \* the version of each set the parser holds
  behind,     \* how far behind the episode began, no less
  whole,      \* the decoder has every picture since a keyframe
  torn,       \* it was given one that refers to a picture it has not
  unresolved  \* the parser was given a slice whose sets it has not, though it
              \*   had been given them once

feedPathVars == <<carried, gop, sets, picq, dropping, episodeDropped, cache, parser, behind,
                  whole, torn, unresolved>>

SetKinds == {"vps", "sps", "pps"}
NoSets == [k \in SetKinds |-> 0]
Versions == [SetKinds -> 0 .. MaxSets]

-----------------------------------------------------------------------------
(* What an encoder sends: at a keyframe, its parameter sets and an IDR      *)
(* slice; a picture of two slices.                                         *)

\* The first byte of the header of each NAL unit: in H.265 the type is in bits 1
\* to 6, in H.264 in bits 0 to 4, below two bits of reference importance.
Headers ==
  [h265 |-> [vps |-> 64, sps |-> 66, pps |-> 68, idr |-> 40, p |-> 2, sei |-> 78],
   h264 |-> [vps |-> 0,  sps |-> 103, pps |-> 104, idr |-> 101, p |-> 65, sei |-> 6]]

Nal(kind, first, version) ==
  [hdr |-> Headers[carried][kind], kind |-> kind, first |-> first, version |-> version]
AccessUnit(key, version) ==
  LET sei == Nal("sei", FALSE, 0)
      sps == Nal("sps", FALSE, version)  pps == Nal("pps", FALSE, version)
      first(kind) == Nal(kind, TRUE, version)  second(kind) == Nal(kind, FALSE, version)
  IN IF ~key THEN <<sei, first("p"), second("p")>>
     ELSE IF carried = "h265" THEN <<Nal("vps", FALSE, version), sps, pps, sei, first("idr"), second("idr")>>
     ELSE <<sps, pps, sei, first("idr"), second("idr")>>
IsKey(au) == \E i \in DOMAIN au : au[i].kind = "idr"

FeedTypeOK ==
  /\ carried \in FeedCodecs /\ gop \in 0 .. Gop - 1 /\ sets \in 1 .. MaxSets
  /\ Len(picq) <= QueueMax
  /\ dropping \in BOOLEAN /\ episodeDropped \in 0 .. DropCap /\ behind \in 0 .. QueueMax
  /\ cache \in Versions /\ parser \in Versions
  /\ {whole, torn, unresolved} \subseteq BOOLEAN

FeedInit ==
  /\ carried \in FeedCodecs
  /\ gop \in 0 .. Gop - 1 /\ sets = 1
  /\ picq = <<>>
  /\ dropping = FALSE /\ episodeDropped = 0 /\ behind = 0
  /\ cache = NoSets /\ parser = NoSets
  /\ whole = FALSE /\ torn = FALSE /\ unresolved = FALSE

\* scanNALs
NalType(nal) == (nal.hdr \div 2) % 64

-----------------------------------------------------------------------------
(* catchup.go                                                              *)

\* Mutant: only the first of the two IDR types is known.
HasIRAPLow(au) == \E i \in DOMAIN au : NalType(au[i]) \in 16 .. 19
HasIRAP(au) == \E i \in DOMAIN au : NalType(au[i]) \in 16 .. 21

Resumes(backlog, au) == backlog <= LowWater /\ HasIRAP(au)

Began(backlog) == ~dropping /\ backlog >= HighWater

\* decide, with what is left in the queue after the unit: does it pass?
Decide(backlog, au) ==
  LET episode == dropping \/ Began(backlog)
      passes  == episode => Resumes(backlog, au)
  IN /\ dropping' = ~passes
     /\ episodeDropped' = LET before == IF Began(backlog) THEN 0 ELSE episodeDropped
                          IN IF passes \/ before = DropCap THEN before ELSE before + 1
     /\ behind' = IF Began(backlog) THEN backlog ELSE behind

-----------------------------------------------------------------------------
(* h265reinject.go                                                         *)

SetOf == [t \in {32, 33, 34} |-> CASE t = 32 -> "vps" [] t = 33 -> "sps" [] t = 34 -> "pps"]
HaveParams(c) == c.sps > 0 /\ c.pps > 0

\* The sets of a kind among the first n units.
SetsIn(au, n, kind) ==
  {i \in 1 .. n : NalType(au[i]) \in DOMAIN SetOf /\ SetOf[NalType(au[i])] = kind}

\* The cache, refreshed from the first n units.
Cached(c, au, n) ==
  [k \in SetKinds |-> IF SetsIn(au, n, k) = {} THEN c[k] ELSE au[Max(SetsIn(au, n, k))].version]

\* The new pictures, and those of them that no set precedes though there are some cached.
Starts(au) == {i \in DOMAIN au : NalType(au[i]) <= 31 /\ au[i].first}
insertAt(au) ==
  {i \in Starts(au) :
     /\ HaveParams(Cached(cache, au, i - 1))
     /\ \A k \in SetKinds : \A j \in SetsIn(au, i - 1, k) : \E s \in Starts(au) : j < s /\ s < i}

\* installParamReinject
Reinjects == carried = "h265"

-----------------------------------------------------------------------------
(* External: the parser keeps the sets that pass and needs them for a slice. *)

\* The sets of a kind that come ahead of unit i: its own, and those of the blocks, which
\* are of the cache c as the whole scan has left it.
Ahead(au, i, kind) == {j \in DOMAIN au : j < i /\ au[j].kind = kind}
Blocks(at, i, kind, c) == IF c[kind] = 0 THEN {} ELSE {j \in at : j <= i}

\* What the parser then holds: the last of them, a block coming before its unit.
Held(au, i, kind, at, c) ==
  LET own == Ahead(au, i, kind)  blocks == Blocks(at, i, kind, c) IN
  IF own \cup blocks = {} THEN parser[kind]
  ELSE IF Max(own \cup blocks) \in own THEN au[Max(own)].version ELSE c[kind]

Resolved(au, at, c) ==
  \A i \in DOMAIN au : au[i].kind \in {"idr", "p"} =>
    \A k \in {"sps", "pps"} : Held(au, i, k, at, c) = au[i].version

Armed == IF Reinjects THEN HaveParams(cache) ELSE parser # NoSets

Pass(au) ==
  LET c  == IF Reinjects THEN Cached(cache, au, Len(au)) ELSE cache
      at == IF Reinjects THEN insertAt(au) ELSE {}
  IN /\ cache' = c
     /\ parser' = [k \in SetKinds |-> Held(au, Len(au) + 1, k, at, c)]
     /\ unresolved' = (unresolved \/ (Armed /\ ~Resolved(au, at, c)))
     /\ torn' = (torn \/ (~whole /\ ~IsKey(au) /\ dropping))
     /\ whole' = (whole \/ IsKey(au))

-----------------------------------------------------------------------------

\* The encoder sends a picture, and new parameter sets at a keyframe only.  To
\* drop costs nothing: while units are dropped they leave as fast as they come.
Arrive ==
  /\ Len(picq) < QueueMax
  /\ dropping => picq = <<>>
  /\ IF gop = 0 THEN sets' \in sets .. MaxSets ELSE UNCHANGED sets
  /\ picq' = Append(picq, AccessUnit(gop = 0, sets'))
  /\ gop' = IF gop = 0 THEN Gop - 1 ELSE gop - 1
  /\ UNCHANGED <<carried, dropping, episodeDropped, cache, parser, behind, whole, torn, unresolved>>

\* A unit leaves the queue when the decoder has room for it: both probes.
Leave ==
  /\ picq # <<>>
  /\ picq' = Tail(picq)
  /\ Decide(Len(picq'), Head(picq))
  /\ IF dropping' THEN whole' = FALSE /\ UNCHANGED <<cache, parser, torn, unresolved>>
     ELSE Pass(Head(picq))
  /\ UNCHANGED <<carried, gop, sets>>

\* A discontinuity: the H.265 parser forgets what it held.
ParserForgets ==
  /\ carried = "h265" /\ parser # NoSets
  /\ parser' = NoSets
  /\ UNCHANGED <<carried, gop, sets, picq, dropping, episodeDropped, cache, behind, whole, torn,
                 unresolved>>

FeedNext == Arrive \/ Leave \/ ParserForgets

FeedSpec == FeedInit /\ [][FeedNext]_feedPathVars

-----------------------------------------------------------------------------
(* Properties.                                                             *)

\* A catch-up costs at most the backlog it began at and the distance to the next
\* keyframe, on the transport the parameter sets are re-injected on.
CatchUpCosts == carried = "h265" => episodeDropped <= behind + Gop

\* catchup.go promises it of any picture: there is always a next keyframe.
CatchUpCostsWhatever == episodeDropped <= behind + Gop

\* The decoder is given what it needs: after a catch-up it goes on at a picture
\* that refers to none it was not given, so that the picture jumps and does not
\* tear; and once the sets have passed, every slice reaches the parser behind
\* the sets that it is coded with, whatever the parser has lost, whatever has been
\* dropped and however often the encoder has changed them.
DecoderCanGoOn == ~torn /\ ~unresolved

\* A catch-up is worth what it costs: it drops no more than it says, and the decoder
\* can go on behind it.
CatchUpIsClean == CatchUpCosts /\ DecoderCanGoOn
=============================================================================
