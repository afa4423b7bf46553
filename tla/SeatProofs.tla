------------------------------ MODULE SeatProofs ------------------------------
(***************************************************************************)
(* What is proved of what the seats share: the commentary mute, the way of *)
(* an event to the pages, and the remote listener, for any number of seats, *)
(* presses, captures, kinds of event, callers and generations.             *)
(***************************************************************************)
EXTENDS MCSeats, FiniteSetTheorems, SequenceTheorems, TLAPS

-----------------------------------------------------------------------------
(* RemoteServer.                                                           *)

\* The lock is held by the one caller that restarts the listener; the shutdown's stop
\* of it comes after a.closing.
HeldInv ==
  /\ \A o \in Callers : /\ caller[o].at \in {"idle", "close", "build"}
                        /\ caller[o].at # "idle" <=> remoteMu = o
  /\ remoteMu \in Callers \cup {"nobody"}
  /\ caller["teardown"].at \in {"idle", "drop", "join", "returned"}
  /\ caller["teardown"].at # "idle" => remClosing

\* What is published is the generation that runs, and only that one may be published
\* yet; whoever restarts the listener has taken both out before.
PublishedInv ==
  /\ remote # 0 => remote = runGen
  /\ \A g \in Gens : gen[g] \in {"binding", "bound"} /\ g \notin cancelled => g = runGen
  /\ \A o \in Callers : caller[o].at # "idle" => runGen = 0

\* From the shutdown's stop on there is nothing to publish, and nothing that a restart
\* could have in its hands.
StoppedInv ==
  caller["teardown"].at # "idle" =>
    /\ runGen = 0
    /\ \A o \in Callers : caller[o].at = "close" => caller[o].old = 0

SrvInv == SrvTypeOK /\ HeldInv /\ PublishedInv /\ StoppedInv /\ NoOrphanListener

\* A bound listener always has somebody who will close it, and none survives the
\* shutdown (app_remote.go: startRemote, stopRemote), for any number of goroutines that
\* start one and of generations.
THEOREM NoListenerIsOrphaned == SrvSpec => [](SrvTypeOK /\ NoOrphanListener)
<1>1. "teardown" \notin Callers /\ "nobody" \notin Callers /\ 0 \notin Gens /\ Gens \subseteq Nat
  BY ServerAssumption DEF Gens
<1>2. SrvInit => SrvInv
  <2> SUFFICES ASSUME SrvInit PROVE SrvInv
    OBVIOUS
  <2>1. \A o \in Owners : caller[o].at = "idle" /\ caller[o].old = 0
    BY DEF SrvInit
  <2>2. SrvTypeOK
    <3>1. [at |-> "idle", old |-> 0] \in
            [at : {"idle", "close", "build", "drop", "join", "returned"}, old : 0 .. MaxGens]
      BY ServerAssumption
    <3>2. caller \in [Owners -> [at : {"idle", "close", "build", "drop", "join", "returned"},
                                old : 0 .. MaxGens]]
      BY <3>1 DEF SrvInit
    <3>3. gen \in [Gens -> {"none", "binding", "bound", "closing", "watching", "ended"}]
      BY DEF SrvInit
    <3>4. remClosing \in BOOLEAN
      BY Zenon DEF SrvInit
    <3>5. QED
      BY <3>2, <3>3, <3>4, ServerAssumption DEF SrvInit, SrvTypeOK
  <2>3. HeldInv /\ StoppedInv
    BY <1>1, <2>1, ServerAssumption DEF SrvInit, HeldInv, StoppedInv, Owners
  <2>4. PublishedInv /\ NoOrphanListener
    BY <1>1, <2>1 DEF SrvInit, PublishedInv, NoOrphanListener, Owners
  <2>5. QED
    BY <2>2, <2>3, <2>4 DEF SrvInv
<1>3. SrvInv /\ [SrvNext]_srvVars => SrvInv'
  <2> SUFFICES ASSUME SrvInv, [SrvNext]_srvVars PROVE SrvInv'
    OBVIOUS
  <2>1. ASSUME NEW o \in Callers, StartRemote(o) PROVE SrvInv'
    <3>1. SrvTypeOK'
      <4>1. cancelled' \subseteq Gens
        BY <2>1, <1>1 DEF StartRemote, SrvInv, SrvTypeOK, Gens
      <4>2. [at |-> "close", old |-> remote] \in
              [at : {"idle", "close", "build", "drop", "join", "returned"}, old : 0 .. MaxGens]
        BY DEF SrvInv, SrvTypeOK
      <4>3. caller' \in [Owners -> [at : {"idle", "close", "build", "drop", "join", "returned"},
                                     old : 0 .. MaxGens]]
        BY <2>1, <4>2 DEF StartRemote, SrvInv, SrvTypeOK, Owners
      <4>4. QED
        BY <2>1, <4>1, <4>3, ServerAssumption
           DEF StartRemote, SrvInv, SrvTypeOK, HeldInv, Owners
    <3>2. HeldInv'
      BY <2>1, <1>1 DEF StartRemote, SrvInv, SrvTypeOK, HeldInv, Owners
    <3>3. PublishedInv'
      BY <2>1, <1>1
         DEF StartRemote, SrvInv, SrvTypeOK, HeldInv, PublishedInv, StoppedInv, Owners
    <3>4. StoppedInv'
      BY <2>1, <1>1
         DEF StartRemote, SrvInv, SrvTypeOK, HeldInv, PublishedInv, StoppedInv, Owners
    <3>5. NoOrphanListener'
      BY <2>1, <1>1 DEF StartRemote, SrvInv, SrvTypeOK, HeldInv, PublishedInv, StoppedInv,
         NoOrphanListener, Owners
    <3>6. QED
      BY <3>1, <3>2, <3>3, <3>4, <3>5 DEF SrvInv
  <2>2. ASSUME NEW o \in Callers, CloseOld(o) PROVE SrvInv'
    <3>1. SrvTypeOK'
      BY <2>2, <1>1 DEF CloseOld, At, SrvInv, SrvTypeOK, Gens, Owners
    <3>2. HeldInv'
      BY <2>2, <1>1 DEF CloseOld, At, SrvInv, SrvTypeOK, HeldInv, Owners
    <3>3. PublishedInv'
      BY <2>2, <1>1
         DEF CloseOld, At, SrvInv, SrvTypeOK, HeldInv, PublishedInv, StoppedInv, Owners
    <3>4. StoppedInv'
      BY <2>2, <1>1
         DEF CloseOld, At, SrvInv, SrvTypeOK, HeldInv, PublishedInv, StoppedInv, Owners
    <3>5. NoOrphanListener'
      BY <2>2, <1>1 DEF CloseOld, At, SrvInv, SrvTypeOK, HeldInv, PublishedInv, StoppedInv,
         NoOrphanListener, Owners
    <3>6. QED
      BY <3>1, <3>2, <3>3, <3>4, <3>5 DEF SrvInv
  <2>3. ASSUME NEW o \in Callers, Build(o) PROVE SrvInv'
    <3>1. SrvTypeOK'
      BY <2>3, <1>1 DEF Build, At, SrvInv, SrvTypeOK, Gens, Owners
    <3>2. HeldInv'
      BY <2>3, <1>1 DEF Build, At, SrvInv, SrvTypeOK, HeldInv, Owners
    <3>3. PublishedInv'
      BY <2>3, <1>1 DEF Build, At, SrvInv, SrvTypeOK, HeldInv, PublishedInv, StoppedInv, Owners
    <3>4. StoppedInv'
      BY <2>3, <1>1 DEF Build, At, SrvInv, SrvTypeOK, HeldInv, PublishedInv, StoppedInv, Owners
    <3>5. NoOrphanListener'
      BY <2>3, <1>1 DEF Build, At, SrvInv, SrvTypeOK, HeldInv, PublishedInv, StoppedInv,
         NoOrphanListener, Owners
    <3>6. QED
      BY <3>1, <3>2, <3>3, <3>4, <3>5 DEF SrvInv
  <2>4. ASSUME NEW g \in Gens, Bind(g) PROVE SrvInv'
    <3>1. SrvTypeOK'
      BY <2>4, <1>1 DEF Bind, SrvInv, SrvTypeOK, Gens, Owners
    <3>2. HeldInv'
      BY <2>4, <1>1 DEF Bind, SrvInv, SrvTypeOK, HeldInv, Owners
    <3>3. PublishedInv'
      BY <2>4, <1>1 DEF Bind, SrvInv, SrvTypeOK, HeldInv, PublishedInv, StoppedInv, Owners
    <3>4. StoppedInv'
      BY <2>4, <1>1 DEF Bind, SrvInv, SrvTypeOK, HeldInv, PublishedInv, StoppedInv, Owners
    <3>5. NoOrphanListener'
      <4>1. /\ gen[g] = "binding" /\ gen' \in [Gens -> {"none", "binding", "bound", "closing", "watching", "ended"}]
            /\ \A h \in Gens : h # g => gen'[h] = gen[h]
            /\ UNCHANGED <<remote, caller>>
            /\ listening' = listening \/ (listening' = listening \cup {g} /\ gen'[g] = "bound")
        BY <2>4 DEF Bind, SrvInv, SrvTypeOK
      <4>2. ASSUME NEW h \in listening'
            PROVE  \/ remote' = h \/ gen'[h] \in {"bound", "closing"}
                   \/ \E o \in Owners : caller'[o].at \in {"close", "drop"} /\ caller'[o].old = h
        <5>1. CASE h = g /\ gen'[g] = "bound"
          BY <5>1
        <5>2. CASE h \in listening /\ gen'[h] = gen[h]
          BY <4>1, <5>2 DEF SrvInv, NoOrphanListener
        <5>3. CASE h \in listening /\ h = g
          BY <4>1, <5>3 DEF SrvInv, NoOrphanListener
        <5>4. QED
          BY <4>1, <5>1, <5>2, <5>3 DEF SrvInv, SrvTypeOK
      <4>3. caller["teardown"].at # "returned"
        BY <4>1 DEF SrvInv, NoOrphanListener
      <4>4. QED
        BY <4>1, <4>2, <4>3 DEF NoOrphanListener
    <3>6. QED
      BY <3>1, <3>2, <3>3, <3>4, <3>5 DEF SrvInv
  <2>5. ASSUME NEW g \in Gens, Publish(g) PROVE SrvInv'
    <3>1. SrvTypeOK'
      BY <2>5, <1>1 DEF Publish, SrvInv, SrvTypeOK, Gens, Owners
    <3>2. HeldInv'
      BY <2>5, <1>1 DEF Publish, SrvInv, SrvTypeOK, HeldInv, Owners
    <3>3. PublishedInv'
      BY <2>5, <1>1 DEF Publish, SrvInv, SrvTypeOK, HeldInv, PublishedInv, StoppedInv, Owners
    <3>4. StoppedInv'
      BY <2>5, <1>1 DEF Publish, SrvInv, SrvTypeOK, HeldInv, PublishedInv, StoppedInv, Owners
    <3>5. NoOrphanListener'
      BY <2>5, <1>1 DEF Publish, SrvInv, SrvTypeOK, HeldInv, PublishedInv, StoppedInv,
         NoOrphanListener, Owners
    <3>6. QED
      BY <3>1, <3>2, <3>3, <3>4, <3>5 DEF SrvInv
  <2>6. ASSUME NEW g \in Gens, CloseOwn(g) PROVE SrvInv'
    <3>1. SrvTypeOK'
      BY <2>6, <1>1 DEF CloseOwn, SrvInv, SrvTypeOK, Gens, Owners
    <3>2. HeldInv'
      BY <2>6, <1>1 DEF CloseOwn, SrvInv, SrvTypeOK, HeldInv, Owners
    <3>3. PublishedInv'
      BY <2>6, <1>1 DEF CloseOwn, SrvInv, SrvTypeOK, HeldInv, PublishedInv, StoppedInv, Owners
    <3>4. StoppedInv'
      BY <2>6, <1>1 DEF CloseOwn, SrvInv, SrvTypeOK, HeldInv, PublishedInv, StoppedInv, Owners
    <3>5. NoOrphanListener'
      BY <2>6, <1>1 DEF CloseOwn, SrvInv, SrvTypeOK, HeldInv, PublishedInv, StoppedInv,
         NoOrphanListener, Owners
    <3>6. QED
      BY <3>1, <3>2, <3>3, <3>4, <3>5 DEF SrvInv
  <2>7. ASSUME NEW g \in Gens, WatchEnds(g) PROVE SrvInv'
    <3>1. SrvTypeOK'
      BY <2>7, <1>1 DEF WatchEnds, SrvInv, SrvTypeOK, Gens, Owners
    <3>2. HeldInv'
      BY <2>7, <1>1 DEF WatchEnds, SrvInv, SrvTypeOK, HeldInv, Owners
    <3>3. PublishedInv'
      BY <2>7, <1>1 DEF WatchEnds, SrvInv, SrvTypeOK, HeldInv, PublishedInv, StoppedInv, Owners
    <3>4. StoppedInv'
      BY <2>7, <1>1 DEF WatchEnds, SrvInv, SrvTypeOK, HeldInv, PublishedInv, StoppedInv, Owners
    <3>5. NoOrphanListener'
      BY <2>7, <1>1 DEF WatchEnds, SrvInv, SrvTypeOK, HeldInv, PublishedInv, StoppedInv,
         NoOrphanListener, Owners
    <3>6. QED
      BY <3>1, <3>2, <3>3, <3>4, <3>5 DEF SrvInv
  <2>8. ASSUME RaiseClosing PROVE SrvInv'
    <3>1. SrvTypeOK'
      BY <2>8, <1>1 DEF RaiseClosing, SrvInv, SrvTypeOK, Gens, Owners
    <3>2. HeldInv'
      BY <2>8, <1>1 DEF RaiseClosing, SrvInv, SrvTypeOK, HeldInv, Owners
    <3>3. PublishedInv'
      BY <2>8, <1>1
         DEF RaiseClosing, SrvInv, SrvTypeOK, HeldInv, PublishedInv, StoppedInv, Owners
    <3>4. StoppedInv'
      BY <2>8, <1>1
         DEF RaiseClosing, SrvInv, SrvTypeOK, HeldInv, PublishedInv, StoppedInv, Owners
    <3>5. NoOrphanListener'
      BY <2>8, <1>1 DEF RaiseClosing, SrvInv, SrvTypeOK, HeldInv, PublishedInv, StoppedInv,
         NoOrphanListener, Owners
    <3>6. QED
      BY <3>1, <3>2, <3>3, <3>4, <3>5 DEF SrvInv
  <2>9. ASSUME StopRemote PROVE SrvInv'
    <3>1. SrvTypeOK'
      <4>1. cancelled' \subseteq Gens
        BY <2>9, <1>1 DEF StopRemote, SrvInv, SrvTypeOK, Gens
      <4>2. [at |-> "drop", old |-> remote] \in
              [at : {"idle", "close", "build", "drop", "join", "returned"}, old : 0 .. MaxGens]
        BY DEF SrvInv, SrvTypeOK
      <4>3. caller' \in [Owners -> [at : {"idle", "close", "build", "drop", "join", "returned"},
                                     old : 0 .. MaxGens]]
        BY <2>9, <4>2 DEF StopRemote, SrvInv, SrvTypeOK, Owners
      <4>4. QED
        BY <2>9, <4>1, <4>3, ServerAssumption DEF StopRemote, SrvInv, SrvTypeOK, HeldInv, Owners
    <3>2. HeldInv'
      BY <2>9, <1>1 DEF StopRemote, SrvInv, SrvTypeOK, HeldInv, Owners
    <3>3. PublishedInv'
      BY <2>9, <1>1 DEF StopRemote, SrvInv, SrvTypeOK, HeldInv, PublishedInv, StoppedInv, Owners
    <3>4. StoppedInv'
      BY <2>9, <1>1 DEF StopRemote, SrvInv, SrvTypeOK, HeldInv, PublishedInv, StoppedInv, Owners
    <3>5. NoOrphanListener'
      BY <2>9, <1>1 DEF StopRemote, SrvInv, SrvTypeOK, HeldInv, PublishedInv, StoppedInv,
         NoOrphanListener, Owners
    <3>6. QED
      BY <3>1, <3>2, <3>3, <3>4, <3>5 DEF SrvInv
  <2>10. ASSUME StopCloses PROVE SrvInv'
    <3>1. SrvTypeOK'
      BY <2>10, <1>1 DEF StopCloses, At, SrvInv, SrvTypeOK, Gens, Owners
    <3>2. HeldInv'
      BY <2>10, <1>1 DEF StopCloses, At, SrvInv, SrvTypeOK, HeldInv, Owners
    <3>3. PublishedInv'
      BY <2>10, <1>1 DEF StopCloses, At, SrvInv, SrvTypeOK, HeldInv, PublishedInv, StoppedInv,
         Owners
    <3>4. StoppedInv'
      BY <2>10, <1>1 DEF StopCloses, At, SrvInv, SrvTypeOK, HeldInv, PublishedInv, StoppedInv,
         Owners
    <3>5. NoOrphanListener'
      BY <2>10, <1>1 DEF StopCloses, At, SrvInv, SrvTypeOK, HeldInv, PublishedInv, StoppedInv,
         NoOrphanListener, Owners
    <3>6. QED
      BY <3>1, <3>2, <3>3, <3>4, <3>5 DEF SrvInv
  <2>11. ASSUME StopJoins PROVE SrvInv'
    <3>1. SrvTypeOK'
      BY <2>11, <1>1 DEF StopJoins, At, SrvInv, SrvTypeOK, Gens, Owners
    <3>2. HeldInv'
      BY <2>11, <1>1 DEF StopJoins, At, SrvInv, SrvTypeOK, HeldInv, Owners
    <3>3. PublishedInv'
      BY <2>11, <1>1 DEF StopJoins, At, SrvInv, SrvTypeOK, HeldInv, PublishedInv, StoppedInv,
         Owners
    <3>4. StoppedInv'
      BY <2>11, <1>1 DEF StopJoins, At, SrvInv, SrvTypeOK, HeldInv, PublishedInv, StoppedInv,
         Owners
    <3>5. NoOrphanListener'
      BY <2>11, <1>1 DEF StopJoins, At, SrvInv, SrvTypeOK, HeldInv, PublishedInv, StoppedInv,
         NoOrphanListener, Owners
    <3>6. QED
      BY <3>1, <3>2, <3>3, <3>4, <3>5 DEF SrvInv
  <2>12. ASSUME UNCHANGED srvVars PROVE SrvInv'
    <3>1. SrvTypeOK'
      BY <2>12, <1>1 DEF srvVars, SrvInv, SrvTypeOK, Gens, Owners
    <3>2. HeldInv'
      BY <2>12, <1>1 DEF srvVars, SrvInv, SrvTypeOK, HeldInv, Owners
    <3>3. PublishedInv'
      BY <2>12, <1>1 DEF srvVars, SrvInv, SrvTypeOK, HeldInv, PublishedInv, StoppedInv, Owners
    <3>4. StoppedInv'
      BY <2>12, <1>1 DEF srvVars, SrvInv, SrvTypeOK, HeldInv, PublishedInv, StoppedInv, Owners
    <3>5. NoOrphanListener'
      BY <2>12, <1>1 DEF srvVars, SrvInv, SrvTypeOK, HeldInv, PublishedInv, StoppedInv,
         NoOrphanListener, Owners
    <3>6. QED
      BY <3>1, <3>2, <3>3, <3>4, <3>5 DEF SrvInv
  <2>13. QED
    BY <2>1, <2>2, <2>3, <2>4, <2>5, <2>6, <2>7, <2>8, <2>9, <2>10, <2>11, <2>12 DEF SrvNext,
       GenStep, StopStep
<1>4. QED
  BY <1>2, <1>3, PTL DEF SrvSpec, SrvInv

-----------------------------------------------------------------------------
(* EventFeed.                                                              *)

\* A producer that is sending has a version to send, and so has the tee.
SendingInv ==
  /\ \A t \in Topics : sending[t] # "idle" => newest[t] # 0
  /\ teeing \in [at : {"idle", "try", "discard", "again"}, event : Event \cup {Nothing}]
  /\ teeing.at # "idle" => teeing.event \in Event

\* The seat's queue ends in the number given last, or is empty and the page has it;
\* room has been made before the second try.
Frames == [seq : Nat, event : Event]
NumberInv ==
  /\ eventsCh \in Seq(Frames) /\ \A k \in 1 .. Len(eventsCh) : eventsCh[k].seq <= seq
  /\ teeing.at \in {"idle", "try"} =>
       IF eventsCh = <<>> THEN lastSeq = seq ELSE eventsCh[Len(eventsCh)].seq = seq
  /\ teeing.at = "again" => Len(eventsCh) < SeatDepth

FeedInv == FeedTypeOK /\ SendingInv /\ NumberInv

\* However the queues overflow, a seat's page can tell that it has missed something
\* (session.go: enqueueEvent), for any kinds of event and depths of the queues.
THEOREM EveryGapIsSeen == FeedSpec => [](FeedTypeOK /\ GapIsSeen)
<1>1. FeedInit => FeedInv
  <2> SUFFICES ASSUME FeedInit PROVE FeedInv
    OBVIOUS
  <2>1. ch \in Seq(Event) /\ eventsCh \in Seq(Frames)
    BY DEF FeedInit
  <2>2. /\ teeing \in [at : {"idle", "try", "discard", "again"}, event : Event \cup {Nothing}]
        /\ teeing.at = "idle"
    BY DEF FeedInit
  <2>3. FeedTypeOK
    BY <2>1, <2>2, FeedAssumption DEF FeedInit, FeedTypeOK
  <2>4. SendingInv /\ NumberInv
    BY <2>1, <2>2 DEF FeedInit, SendingInv, NumberInv
  <2>5. QED
    BY <2>3, <2>4 DEF FeedInv
<1>2. \A e \in Event : e.topic \in Topics /\ e.version \in 0 .. MaxEvents
  BY DEF Event
<1>3. \A f \in Frames : f.seq \in Nat /\ f.event \in Event
  BY DEF Frames
<1>4. \A k \in Nat : /\ Frame(k).seq = k
                     /\ teeing.event \in Event => Frame(k) \in Frames
  BY DEF Frame, Frames
<1>5. ASSUME NEW s \in Seq(Frames), s # <<>>
       PROVE  /\ Tail(s) \in Seq(Frames) /\ Len(s) \in Nat \ {0} /\ Len(Tail(s)) = Len(s) - 1
              /\ \A k \in 1 .. Len(s) - 1 : Tail(s)[k] = s[k + 1]
              /\ Head(s) = s[1] /\ Head(s) \in Frames /\ (Len(s) = 1 <=> Tail(s) = <<>>)
  <2>1. /\ Tail(s) \in Seq(Frames) /\ Len(s) \in Nat \ {0} /\ Len(Tail(s)) = Len(s) - 1
        /\ \A k \in 1 .. Len(s) - 1 : Tail(s)[k] = s[k + 1]
    BY <1>5
  <2>2. Head(s) = s[1] /\ Head(s) \in Frames
    BY <1>5
  <2>3. Tail(s) = <<>> <=> Len(Tail(s)) = 0
    BY <2>1, EmptySeq
  <2>4. QED
    BY <2>1, <2>2, <2>3
<1>6. ASSUME NEW s \in Seq(Frames), NEW f \in Frames
       PROVE  /\ Append(s, f) \in Seq(Frames) /\ Len(s) \in Nat
              /\ Append(s, f) # <<>> /\ Len(Append(s, f)) = Len(s) + 1
              /\ \A k \in 1 .. Len(s) : Append(s, f)[k] = s[k]
              /\ Append(s, f)[Len(s) + 1] = f
  BY <1>6
<1>7. FeedInv /\ [FeedNext]_feedVars => FeedInv'
  <2> SUFFICES ASSUME FeedInv, [FeedNext]_feedVars PROVE FeedInv'
    OBVIOUS
  <2>1. \A t \in Topics : sending[t] # "idle" => EventOf(t) \in Event
    BY FeedAssumption DEF FeedInv, FeedTypeOK, SendingInv, EventOf, Event
  <2>rest. ASSUME eventsCh # <<>>
           PROVE  /\ Tail(eventsCh) \in Seq(Frames)
                  /\ \A k \in 1 .. Len(Tail(eventsCh)) : Tail(eventsCh)[k].seq <= seq
                  /\ IF Tail(eventsCh) = <<>> THEN Head(eventsCh) = eventsCh[Len(eventsCh)]
                     ELSE Tail(eventsCh)[Len(Tail(eventsCh))] = eventsCh[Len(eventsCh)]
    <3> DEFINE s == eventsCh
               u == Tail(eventsCh)
    <3>1. /\ s \in Seq(Frames) /\ s # <<>> /\ \A k \in 1 .. Len(s) : s[k].seq <= seq
      BY <2>rest DEF FeedInv, NumberInv
    <3>2. /\ u \in Seq(Frames) /\ Len(s) \in Nat \ {0} /\ Len(u) = Len(s) - 1
          /\ \A k \in 1 .. Len(s) - 1 : u[k] = s[k + 1]
          /\ Head(s) = s[1] /\ (Len(s) = 1 <=> u = <<>>)
      BY <3>1, <1>5
    <3> HIDE DEF s, u
    <3>3. \A k \in 1 .. Len(u) : u[k].seq <= seq
      BY <3>1, <3>2
    <3>4. IF u = <<>> THEN Head(s) = s[Len(s)] ELSE u[Len(u)] = s[Len(s)]
      BY <3>2
    <3>5. QED
      BY <3>2, <3>3, <3>4 DEF s, u
  <2>2. ASSUME NEW t \in Topics, Send(t) PROVE FeedInv'
    <3>1. FeedTypeOK'
      <4>1. newest' \in [Topics -> 0 .. MaxEvents]
        BY <2>2, <1>2, <1>3, <1>4, <2>1, FeedAssumption DEF Send, queueVars, FeedInv,
           FeedTypeOK, SendingInv, NumberInv
      <4>2. sending' \in [Topics -> {"idle", "try", "discard", "again"}]
        BY <2>2, <1>2, <1>3, <1>4, <2>1, FeedAssumption DEF Send, queueVars, FeedInv,
           FeedTypeOK, SendingInv, NumberInv
      <4>3. QED
        BY <2>2, <4>1, <4>2 DEF Send, queueVars, FeedInv, FeedTypeOK
    <3>2. SendingInv'
      <4>1. \A x \in Topics : sending'[x] # "idle" => newest'[x] # 0
        BY <2>2, <1>2, <1>3, <1>4, <2>1, FeedAssumption DEF Send, queueVars, FeedInv,
           FeedTypeOK, SendingInv, NumberInv
      <4>2. QED
        BY <2>2, <4>1 DEF Send, queueVars, FeedInv, SendingInv
    <3>3. NumberInv'
      <4>1. QED
        BY <2>2 DEF Send, queueVars, FeedInv, NumberInv
    <3>4. QED
      BY <3>1, <3>2, <3>3 DEF FeedInv
  <2>3. ASSUME NEW t \in Topics, Try(t) PROVE FeedInv'
    <3>1. FeedTypeOK'
      <4>1. sending' \in [Topics -> {"idle", "try", "discard", "again"}]
        BY <2>3, <1>2, <1>3, <1>4, <2>1, FeedAssumption DEF Try, queueVars, FeedInv, FeedTypeOK,
           SendingInv, NumberInv
      <4>2. ch' \in Seq(Event) /\ Len(ch') <= PumpDepth
        <5>1. CASE ch' = Append(ch, EventOf(t)) /\ Len(ch) < PumpDepth
          BY <2>3, <2>1, <5>1, FeedAssumption DEF Try, FeedInv, FeedTypeOK
        <5>2. CASE UNCHANGED ch
          BY <5>2 DEF FeedInv, FeedTypeOK
        <5>3. QED
          BY <2>3, <5>1, <5>2 DEF Try
      <4>3. QED
        BY <2>3, <4>1, <4>2 DEF Try, queueVars, FeedInv, FeedTypeOK
    <3>2. SendingInv'
      <4>1. \A x \in Topics : sending'[x] # "idle" => newest'[x] # 0
        BY <2>3, <1>2, <1>3, <1>4, <2>1, FeedAssumption DEF Try, queueVars, FeedInv, FeedTypeOK,
           SendingInv, NumberInv
      <4>2. QED
        BY <2>3, <4>1 DEF Try, queueVars, FeedInv, SendingInv
    <3>3. NumberInv'
      <4>1. QED
        BY <2>3 DEF Try, queueVars, FeedInv, NumberInv
    <3>4. QED
      BY <3>1, <3>2, <3>3 DEF FeedInv
  <2>4. ASSUME NEW t \in Topics, DiscardOldest(t) PROVE FeedInv'
    <3>1. FeedTypeOK'
      <4>1. sending' \in [Topics -> {"idle", "try", "discard", "again"}]
        BY <2>4, <1>2, <1>3, <1>4, <2>1, FeedAssumption DEF DiscardOldest, queueVars, FeedInv,
           FeedTypeOK, SendingInv, NumberInv
      <4>2. ch' \in Seq(Event) /\ Len(ch') <= PumpDepth
        BY <2>4, <1>2, <1>3, <1>4, <2>1, FeedAssumption DEF DiscardOldest, queueVars, FeedInv,
           FeedTypeOK, SendingInv, NumberInv
      <4>3. QED
        BY <2>4, <4>1, <4>2 DEF DiscardOldest, queueVars, FeedInv, FeedTypeOK
    <3>2. SendingInv'
      <4>1. \A x \in Topics : sending'[x] # "idle" => newest'[x] # 0
        BY <2>4, <1>2, <1>3, <1>4, <2>1, FeedAssumption DEF DiscardOldest, queueVars, FeedInv,
           FeedTypeOK, SendingInv, NumberInv
      <4>2. QED
        BY <2>4, <4>1 DEF DiscardOldest, queueVars, FeedInv, SendingInv
    <3>3. NumberInv'
      <4>1. QED
        BY <2>4 DEF DiscardOldest, queueVars, FeedInv, NumberInv
    <3>4. QED
      BY <3>1, <3>2, <3>3 DEF FeedInv
  <2>5. ASSUME NEW t \in Topics, TryAgain(t) PROVE FeedInv'
    <3>1. FeedTypeOK'
      <4>1. sending' \in [Topics -> {"idle", "try", "discard", "again"}]
        BY <2>5, <1>2, <1>3, <1>4, <2>1, FeedAssumption DEF TryAgain, queueVars, FeedInv,
           FeedTypeOK, SendingInv, NumberInv
      <4>2. ch' \in Seq(Event) /\ Len(ch') <= PumpDepth
        BY <2>5, <1>2, <1>3, <1>4, <2>1, FeedAssumption DEF TryAgain, queueVars, FeedInv,
           FeedTypeOK, SendingInv, NumberInv
      <4>3. QED
        BY <2>5, <4>1, <4>2 DEF TryAgain, queueVars, FeedInv, FeedTypeOK
    <3>2. SendingInv'
      <4>1. \A x \in Topics : sending'[x] # "idle" => newest'[x] # 0
        BY <2>5, <1>2, <1>3, <1>4, <2>1, FeedAssumption DEF TryAgain, queueVars, FeedInv,
           FeedTypeOK, SendingInv, NumberInv
      <4>2. QED
        BY <2>5, <4>1 DEF TryAgain, queueVars, FeedInv, SendingInv
    <3>3. NumberInv'
      <4>1. QED
        BY <2>5 DEF TryAgain, queueVars, FeedInv, NumberInv
    <3>4. QED
      BY <3>1, <3>2, <3>3 DEF FeedInv
  <2>6. ASSUME Emit PROVE FeedInv'
    <3>1. FeedTypeOK'
      <4>1. ch' \in Seq(Event) /\ Len(ch') <= PumpDepth
        BY <2>6, <1>2, <1>3, <1>4, <2>1, FeedAssumption DEF Emit, pumpVars, queueVars, FeedInv,
           FeedTypeOK, SendingInv, NumberInv
      <4>2. deskPage' \in [Topics -> 0 .. MaxEvents]
        BY <2>6, <1>2, <1>3, <1>4, <2>1, FeedAssumption DEF Emit, pumpVars, queueVars, FeedInv,
           FeedTypeOK, SendingInv, NumberInv
      <4>3. teeing'.at \in {"idle", "try", "discard", "again"}
        BY <2>6, <1>2, <1>3, <1>4, <2>1, FeedAssumption DEF Emit, pumpVars, queueVars, FeedInv,
           FeedTypeOK, SendingInv, NumberInv
      <4>4. QED
        BY <2>6, <4>1, <4>2, <4>3 DEF Emit, pumpVars, queueVars, FeedInv, FeedTypeOK
    <3>2. SendingInv'
      <4>1. teeing' \in [at : {"idle", "try", "discard", "again"}, event : Event \cup {Nothing}]
        BY <2>6, <1>2, <1>3, <1>4, <2>1, FeedAssumption DEF Emit, pumpVars, queueVars, FeedInv,
           FeedTypeOK, SendingInv, NumberInv
      <4>2. teeing'.at # "idle" => teeing'.event \in Event
        BY <2>6, <1>2, <1>3, <1>4, <2>1, FeedAssumption DEF Emit, pumpVars, queueVars, FeedInv,
           FeedTypeOK, SendingInv, NumberInv
      <4>3. QED
        BY <2>6, <4>1, <4>2 DEF Emit, pumpVars, queueVars, FeedInv, SendingInv
    <3>3. NumberInv'
      <4>1. teeing'.at \in {"idle", "try"} =>
             IF eventsCh' = <<>> THEN lastSeq' = seq' ELSE eventsCh'[Len(eventsCh')].seq = seq'
        BY <2>6, <1>2, <1>3, <1>4, <2>1, FeedAssumption DEF Emit, pumpVars, queueVars, FeedInv,
           FeedTypeOK, SendingInv, NumberInv
      <4>2. teeing'.at = "again" => Len(eventsCh') < SeatDepth
        BY <2>6, <1>2, <1>3, <1>4, <2>1, FeedAssumption DEF Emit, pumpVars, queueVars, FeedInv,
           FeedTypeOK, SendingInv, NumberInv
      <4>3. QED
        BY <2>6, <4>1, <4>2 DEF Emit, pumpVars, queueVars, FeedInv, NumberInv
    <3>4. QED
      BY <3>1, <3>2, <3>3 DEF FeedInv
  <2>7. ASSUME TeeTry PROVE FeedInv'
    <3>1. /\ seq \in Nat /\ seq' = seq + 1 /\ UNCHANGED lastSeq
          /\ Frame(seq + 1) \in Frames /\ Frame(seq + 1).seq = seq + 1
          /\ \/ /\ Len(eventsCh) < SeatDepth /\ eventsCh' = Append(eventsCh, Frame(seq + 1))
                /\ teeing' = [at |-> "idle", event |-> Nothing]
             \/ /\ ~(Len(eventsCh) < SeatDepth) /\ UNCHANGED eventsCh
                /\ teeing' = [teeing EXCEPT !.at = "discard"]
          /\ teeing.event \in Event
          /\ teeing \in [at : {"idle", "try", "discard", "again"}, event : Event \cup {Nothing}]
      <4>1. teeing.event \in Event /\ seq \in Nat
        BY <2>7 DEF TeeTry, FeedInv, FeedTypeOK, SendingInv
      <4>2. teeing \in [at : {"idle", "try", "discard", "again"}, event : Event \cup {Nothing}]
        BY DEF FeedInv, SendingInv
      <4>3. Frame(seq + 1) \in Frames /\ Frame(seq + 1).seq = seq + 1
        BY <4>1 DEF Frame, Frames
      <4>4. QED
        BY <2>7, <4>1, <4>2, <4>3 DEF TeeTry, TeeDone
    <3>2. FeedTypeOK'
      <4>1. teeing'.at \in {"idle", "try", "discard", "again"}
        <5>1. CASE Len(eventsCh) < SeatDepth /\ eventsCh' = Append(eventsCh, Frame(seq + 1))
                 /\ teeing' = [at |-> "idle", event |-> Nothing]
          BY <5>1, <3>1, <1>3, <1>5, <1>6, FeedAssumption DEF FeedInv, FeedTypeOK, NumberInv
        <5>2. CASE ~(Len(eventsCh) < SeatDepth) /\ UNCHANGED eventsCh
                 /\ teeing' = [teeing EXCEPT !.at = "discard"]
          BY <5>2, <3>1, <1>3, <1>5, <1>6, FeedAssumption DEF FeedInv, FeedTypeOK, NumberInv
        <5>3. QED
          BY <3>1, <5>1, <5>2
      <4>2. seq' \in Nat /\ lastSeq' \in 0 .. seq'
        BY <2>7, <1>2, <1>3, <1>4, <2>1, FeedAssumption DEF TeeTry, TeeDone, pumpVars, FeedInv,
           FeedTypeOK, SendingInv, NumberInv
      <4>3. Len(eventsCh') <= SeatDepth
        <5>1. CASE Len(eventsCh) < SeatDepth /\ eventsCh' = Append(eventsCh, Frame(seq + 1))
                 /\ teeing' = [at |-> "idle", event |-> Nothing]
          BY <5>1, <3>1, <1>3, <1>5, <1>6, FeedAssumption DEF FeedInv, FeedTypeOK, NumberInv
        <5>2. CASE ~(Len(eventsCh) < SeatDepth) /\ UNCHANGED eventsCh
                 /\ teeing' = [teeing EXCEPT !.at = "discard"]
          BY <5>2, <3>1, <1>3, <1>5, <1>6, FeedAssumption DEF FeedInv, FeedTypeOK, NumberInv
        <5>3. QED
          BY <3>1, <5>1, <5>2
      <4>4. QED
        BY <2>7, <4>1, <4>2, <4>3 DEF TeeTry, TeeDone, pumpVars, FeedInv, FeedTypeOK
    <3>3. SendingInv'
      <4>1. teeing' \in [at : {"idle", "try", "discard", "again"}, event : Event \cup {Nothing}]
        <5>1. CASE Len(eventsCh) < SeatDepth /\ eventsCh' = Append(eventsCh, Frame(seq + 1))
                 /\ teeing' = [at |-> "idle", event |-> Nothing]
          BY <5>1, <3>1, <1>3, <1>5, <1>6, FeedAssumption DEF FeedInv, FeedTypeOK, NumberInv
        <5>2. CASE ~(Len(eventsCh) < SeatDepth) /\ UNCHANGED eventsCh
                 /\ teeing' = [teeing EXCEPT !.at = "discard"]
          BY <5>2, <3>1, <1>3, <1>5, <1>6, FeedAssumption DEF FeedInv, FeedTypeOK, NumberInv
        <5>3. QED
          BY <3>1, <5>1, <5>2
      <4>2. teeing'.at # "idle" => teeing'.event \in Event
        <5>1. CASE Len(eventsCh) < SeatDepth /\ eventsCh' = Append(eventsCh, Frame(seq + 1))
                 /\ teeing' = [at |-> "idle", event |-> Nothing]
          BY <5>1, <3>1, <1>3, <1>5, <1>6, FeedAssumption DEF FeedInv, FeedTypeOK, NumberInv
        <5>2. CASE ~(Len(eventsCh) < SeatDepth) /\ UNCHANGED eventsCh
                 /\ teeing' = [teeing EXCEPT !.at = "discard"]
          BY <5>2, <3>1, <1>3, <1>5, <1>6, FeedAssumption DEF FeedInv, FeedTypeOK, NumberInv
        <5>3. QED
          BY <3>1, <5>1, <5>2
      <4>3. QED
        BY <2>7, <4>1, <4>2 DEF TeeTry, TeeDone, pumpVars, FeedInv, SendingInv
    <3>4. NumberInv'
      <4>1. eventsCh' \in Seq(Frames) /\ \A k \in 1 .. Len(eventsCh') : eventsCh'[k].seq <= seq'
        <5>1. CASE Len(eventsCh) < SeatDepth /\ eventsCh' = Append(eventsCh, Frame(seq + 1))
                 /\ teeing' = [at |-> "idle", event |-> Nothing]
          BY <5>1, <3>1, <1>3, <1>5, <1>6, FeedAssumption DEF FeedInv, FeedTypeOK, NumberInv
        <5>2. CASE ~(Len(eventsCh) < SeatDepth) /\ UNCHANGED eventsCh
                 /\ teeing' = [teeing EXCEPT !.at = "discard"]
          BY <5>2, <3>1, <1>3, <1>5, <1>6, FeedAssumption DEF FeedInv, FeedTypeOK, NumberInv
        <5>3. QED
          BY <3>1, <5>1, <5>2
      <4>2. teeing'.at \in {"idle", "try"} =>
             IF eventsCh' = <<>> THEN lastSeq' = seq' ELSE eventsCh'[Len(eventsCh')].seq = seq'
        <5>1. CASE Len(eventsCh) < SeatDepth /\ eventsCh' = Append(eventsCh, Frame(seq + 1))
                 /\ teeing' = [at |-> "idle", event |-> Nothing]
          BY <5>1, <3>1, <1>3, <1>5, <1>6, FeedAssumption DEF FeedInv, FeedTypeOK, NumberInv
        <5>2. CASE ~(Len(eventsCh) < SeatDepth) /\ UNCHANGED eventsCh
                 /\ teeing' = [teeing EXCEPT !.at = "discard"]
          BY <5>2, <3>1, <1>3, <1>5, <1>6, FeedAssumption DEF FeedInv, FeedTypeOK, NumberInv
        <5>3. QED
          BY <3>1, <5>1, <5>2
      <4>3. teeing'.at = "again" => Len(eventsCh') < SeatDepth
        <5>1. CASE Len(eventsCh) < SeatDepth /\ eventsCh' = Append(eventsCh, Frame(seq + 1))
                 /\ teeing' = [at |-> "idle", event |-> Nothing]
          BY <5>1, <3>1, <1>3, <1>5, <1>6, FeedAssumption DEF FeedInv, FeedTypeOK, NumberInv
        <5>2. CASE ~(Len(eventsCh) < SeatDepth) /\ UNCHANGED eventsCh
                 /\ teeing' = [teeing EXCEPT !.at = "discard"]
          BY <5>2, <3>1, <1>3, <1>5, <1>6, FeedAssumption DEF FeedInv, FeedTypeOK, NumberInv
        <5>3. QED
          BY <3>1, <5>1, <5>2
      <4>4. QED
        BY <2>7, <4>1, <4>2, <4>3 DEF TeeTry, TeeDone, pumpVars, FeedInv, NumberInv
    <3>5. QED
      BY <3>2, <3>3, <3>4 DEF FeedInv
  <2>8. ASSUME TeeDiscards PROVE FeedInv'
    <3>1. FeedTypeOK'
      <4>1. teeing'.at \in {"idle", "try", "discard", "again"}
        BY <2>8, <1>2, <1>3, <1>4, <2>1, FeedAssumption DEF TeeDiscards, pumpVars, FeedInv,
           FeedTypeOK, SendingInv, NumberInv
      <4>2. Len(eventsCh') <= SeatDepth
        BY <2>8, <1>2, <1>3, <1>4, <2>1, FeedAssumption DEF TeeDiscards, pumpVars, FeedInv,
           FeedTypeOK, SendingInv, NumberInv
      <4>3. QED
        BY <2>8, <4>1, <4>2 DEF TeeDiscards, pumpVars, FeedInv, FeedTypeOK
    <3>2. SendingInv'
      <4>1. teeing' \in [at : {"idle", "try", "discard", "again"}, event : Event \cup {Nothing}]
        BY <2>8, <1>2, <1>3, <1>4, <2>1, FeedAssumption DEF TeeDiscards, pumpVars, FeedInv,
           FeedTypeOK, SendingInv, NumberInv
      <4>2. teeing'.at # "idle" => teeing'.event \in Event
        BY <2>8, <1>2, <1>3, <1>4, <2>1, FeedAssumption DEF TeeDiscards, pumpVars, FeedInv,
           FeedTypeOK, SendingInv, NumberInv
      <4>3. QED
        BY <2>8, <4>1, <4>2 DEF TeeDiscards, pumpVars, FeedInv, SendingInv
    <3>3. NumberInv'
      <4>1. eventsCh' \in Seq(Frames) /\ \A k \in 1 .. Len(eventsCh') : eventsCh'[k].seq <= seq'
        <5>1. CASE eventsCh = <<>>
          BY <2>8, <5>1 DEF TeeDiscards, FeedInv, NumberInv
        <5>2. CASE eventsCh # <<>>
          BY <2>8, <5>2, <2>rest DEF TeeDiscards
        <5>3. QED
          BY <5>1, <5>2
      <4>2. teeing'.at \in {"idle", "try"} =>
             IF eventsCh' = <<>> THEN lastSeq' = seq' ELSE eventsCh'[Len(eventsCh')].seq = seq'
        BY <2>8, <1>2, <1>3, <1>4, <2>1, FeedAssumption DEF TeeDiscards, pumpVars, FeedInv,
           FeedTypeOK, SendingInv, NumberInv
      <4>3. teeing'.at = "again" => Len(eventsCh') < SeatDepth
        BY <2>8, <1>2, <1>3, <1>4, <2>1, FeedAssumption DEF TeeDiscards, pumpVars, FeedInv,
           FeedTypeOK, SendingInv, NumberInv
      <4>4. QED
        BY <2>8, <4>1, <4>2, <4>3 DEF TeeDiscards, pumpVars, FeedInv, NumberInv
    <3>4. QED
      BY <3>1, <3>2, <3>3 DEF FeedInv
  <2>9. ASSUME TeeAgain PROVE FeedInv'
    <3>1. /\ seq \in Nat /\ UNCHANGED <<seq, lastSeq>>
          /\ Frame(seq) \in Frames /\ Frame(seq).seq = seq
          /\ teeing' = [at |-> "idle", event |-> Nothing]
          /\ Len(eventsCh) < SeatDepth /\ eventsCh' = Append(eventsCh, Frame(seq))
      <4>1. teeing.event \in Event /\ seq \in Nat
        BY <2>9 DEF TeeAgain, FeedInv, FeedTypeOK, SendingInv
      <4>2. Frame(seq) \in Frames /\ Frame(seq).seq = seq
        BY <4>1 DEF Frame, Frames
      <4>3. QED
        BY <2>9, <4>1, <4>2 DEF TeeAgain, TeeDone, FeedInv, NumberInv
    <3>2. FeedTypeOK'
      <4>1. teeing'.at \in {"idle", "try", "discard", "again"}
        BY <3>1, <1>3, <1>5, <1>6, FeedAssumption DEF FeedInv, FeedTypeOK, NumberInv
      <4>2. Len(eventsCh') <= SeatDepth
        BY <3>1, <1>3, <1>5, <1>6, FeedAssumption DEF FeedInv, FeedTypeOK, NumberInv
      <4>3. QED
        BY <2>9, <4>1, <4>2 DEF TeeAgain, TeeDone, pumpVars, FeedInv, FeedTypeOK
    <3>3. SendingInv'
      <4>1. teeing' \in [at : {"idle", "try", "discard", "again"}, event : Event \cup {Nothing}]
        BY <3>1, <1>3, <1>5, <1>6, FeedAssumption DEF FeedInv, FeedTypeOK, NumberInv
      <4>2. teeing'.at # "idle" => teeing'.event \in Event
        BY <3>1, <1>3, <1>5, <1>6, FeedAssumption DEF FeedInv, FeedTypeOK, NumberInv
      <4>3. QED
        BY <2>9, <4>1, <4>2 DEF TeeAgain, TeeDone, pumpVars, FeedInv, SendingInv
    <3>4. NumberInv'
      <4>1. eventsCh' \in Seq(Frames) /\ \A k \in 1 .. Len(eventsCh') : eventsCh'[k].seq <= seq'
        BY <3>1, <1>3, <1>5, <1>6, FeedAssumption DEF FeedInv, FeedTypeOK, NumberInv
      <4>2. teeing'.at \in {"idle", "try"} =>
             IF eventsCh' = <<>> THEN lastSeq' = seq' ELSE eventsCh'[Len(eventsCh')].seq = seq'
        BY <3>1, <1>3, <1>5, <1>6, FeedAssumption DEF FeedInv, FeedTypeOK, NumberInv
      <4>3. teeing'.at = "again" => Len(eventsCh') < SeatDepth
        BY <3>1, <1>3, <1>5, <1>6, FeedAssumption DEF FeedInv, FeedTypeOK, NumberInv
      <4>4. QED
        BY <2>9, <4>1, <4>2, <4>3 DEF TeeAgain, TeeDone, pumpVars, FeedInv, NumberInv
    <3>5. QED
      BY <3>2, <3>3, <3>4 DEF FeedInv
  <2>10. ASSUME WriteFrame PROVE FeedInv'
    <3>1. FeedTypeOK'
      <4>1. seatPage' \in [Topics -> 0 .. MaxEvents]
        BY <2>10, <1>2, <1>3, <1>4, <2>1, FeedAssumption DEF WriteFrame, pumpVars, FeedInv,
           FeedTypeOK, SendingInv, NumberInv
      <4>2. seq' \in Nat /\ lastSeq' \in 0 .. seq'
        BY <2>10, <1>2, <1>3, <1>4, <2>1, FeedAssumption DEF WriteFrame, pumpVars, FeedInv,
           FeedTypeOK, SendingInv, NumberInv
      <4>3. Len(eventsCh') <= SeatDepth
        BY <2>10, <1>2, <1>3, <1>4, <2>1, FeedAssumption DEF WriteFrame, pumpVars, FeedInv,
           FeedTypeOK, SendingInv, NumberInv
      <4>4. QED
        BY <2>10, <4>1, <4>2, <4>3 DEF WriteFrame, pumpVars, FeedInv, FeedTypeOK
    <3>2. SendingInv'
      <4>1. QED
        BY <2>10 DEF WriteFrame, pumpVars, FeedInv, SendingInv
    <3>3. NumberInv'
      <4>1. eventsCh' \in Seq(Frames) /\ \A k \in 1 .. Len(eventsCh') : eventsCh'[k].seq <= seq'
        BY <2>10, <2>rest DEF WriteFrame
      <4>2. teeing'.at \in {"idle", "try"} =>
             IF eventsCh' = <<>> THEN lastSeq' = seq' ELSE eventsCh'[Len(eventsCh')].seq = seq'
        BY <2>10, <2>rest DEF WriteFrame, FeedInv, NumberInv
      <4>3. teeing'.at = "again" => Len(eventsCh') < SeatDepth
        BY <2>10, <1>2, <1>3, <1>4, <2>1, FeedAssumption DEF WriteFrame, pumpVars, FeedInv,
           FeedTypeOK, SendingInv, NumberInv
      <4>4. QED
        BY <2>10, <4>1, <4>2, <4>3 DEF WriteFrame, pumpVars, FeedInv, NumberInv
    <3>4. QED
      BY <3>1, <3>2, <3>3 DEF FeedInv
  <2>11. ASSUME UNCHANGED feedVars PROVE FeedInv'
    <3>1. FeedTypeOK'
      BY <2>11 DEF feedVars, pumpVars, queueVars, FeedTypeOK, SendingInv, NumberInv, FeedInv
    <3>2. SendingInv'
      BY <2>11 DEF feedVars, pumpVars, queueVars, FeedTypeOK, SendingInv, NumberInv, FeedInv
    <3>3. NumberInv'
      BY <2>11 DEF feedVars, pumpVars, queueVars, FeedTypeOK, SendingInv, NumberInv, FeedInv
    <3>4. QED
      BY <3>1, <3>2, <3>3 DEF FeedInv
  <2>12. QED
    BY <2>2, <2>3, <2>4, <2>5, <2>6, <2>7, <2>8, <2>9, <2>10, <2>11 DEF FeedNext
<1>8. FeedInv => FeedTypeOK /\ GapIsSeen
  BY DEF FeedInv, NumberInv, GapIsSeen
<1>9. QED
  BY <1>1, <1>7, <1>8, PTL DEF FeedSpec

-----------------------------------------------------------------------------
(* CommentaryMute.                                                         *)

\* Of the types, what the invariant needs.
CallTypes == [pc : {"none", "sent", "ready", "write", "record", "done"},
              seat : Keys, want : BOOLEAN, stamp : Nat, cap : 0 .. MaxCaps]
MuteTypes ==
  /\ cap \in 0 .. MaxCaps /\ elem \in [Caps -> BOOLEAN] /\ clock \in Nat
  /\ rec \in [muted : BOOLEAN, by : SUBSET Keys, seq : Nat, fresh : BOOLEAN] /\ sample \in BOOLEAN
  /\ req \in [MuteCalls -> CallTypes]

\* Stamps come off one clock; only a call of the poll has none, until it is resolved.
StampInv ==
  /\ \A i \in Made : req[i].stamp <= clock
  /\ \A i, j \in Made : i # j /\ req[i].stamp = req[j].stamp => req[i].stamp = 0
  /\ \A i \in Made : req[i].stamp = 0 => req[i].pc = "sent"
  /\ rec.fresh => \E i \in Made : req[i].stamp = rec.seq

\* One call at a time writes the element and the record.
ApplyInv == \A i \in MuteCalls : req[i].pc \in {"write", "record"} <=> applyMu = i

\* A capture that a call has met is the one that is open, or has been stopped; one that
\* is not published yet nobody has met.
CaptureInv ==
  /\ \A i \in Made : req[i].cap \in stopped \cup {cap, 0}
  /\ \A i \in Made : /\ req[i].pc = "sent" => req[i].cap = 0
                     /\ req[i].pc \in {"ready", "write", "record"} => req[i].cap # 0
  /\ cap # 0 => cap \notin stopped
  /\ rebuild # "idle" <=> capMu
  /\ rebuild \in {"forget", "build"} => cap = 0
  /\ rebuild = "publish" => cap # 0 /\ \A i \in Made : req[i].cap # cap

\* The last press of all, and the capture that it met is open.
Latest(i) ==
  /\ i \in Made /\ req[i].cap = cap /\ cap # 0
  /\ \A j \in Made : req[j].stamp <= req[i].stamp

\* Once it is written it is in force; once it is recorded, whoever is still under way
\* with an older stamp will be refused for it.
ForceInv ==
  \A i \in MuteCalls : Latest(i) =>
    /\ req[i].pc \in {"record", "done"} => elem[cap] = req[i].want
    /\ req[i].pc = "done" =>
         \A j \in InFlight : \/ req[j].stamp = 0
                             \/ /\ req[j].pc \in {"sent", "ready"}
                                /\ rec.fresh /\ req[j].stamp < rec.seq

MuteInv == MuteTypes /\ StampInv /\ ApplyInv /\ CaptureInv /\ ForceInv

PollTypes == [pc : {"none", "idle", "check", "wait", "ended"}, call : 0 .. MaxMuteCalls]

\* The other types; a rebuild that stops a capture has one to stop.
MuteRest ==
  /\ stopped \subseteq Caps /\ capMu \in BOOLEAN /\ session \in BOOLEAN
  /\ rebuild \in {"idle", "stop", "forget", "build", "publish"}
  /\ applyMu \in 0 .. MaxMuteCalls
  /\ seen \in {"none", "muted", "open"}
  /\ listener \in 0 .. MaxPolls /\ conn \subseteq Remote /\ came \subseteq Remote
  /\ last \in [Polls -> SUBSET Remote] /\ poll \in [Polls -> PollTypes]
  /\ rebuild = "stop" => cap # 0

\* The last press of all wins the microphone (app.go, "THE COUGH MUTE"), for any number
\* of seats, presses, calls and captures.
THEOREM TheLastPressWins == MuteSpec => [](MuteTypeOK /\ LastPressWins)
<1>1. MuteCalls \subseteq Nat \ {0} /\ Caps \subseteq Nat \ {0} /\ Desk \in Keys
  BY DEF MuteCalls, Caps, Keys
<1>2. NoCall \in CallTypes /\ NoCall.pc = "none" /\ NoCall.stamp = 0 /\ NoCall.cap = 0
  <2>1. \A b \in BOOLEAN : [pc |-> "none", seat |-> Desk, want |-> b, stamp |-> 0, cap |-> 0] \in CallTypes
    BY MuteAssumption, <1>1 DEF CallTypes
  <2>2. QED
    BY <2>1 DEF NoCall
<1>3. MuteInit => MuteInv
  <2> SUFFICES ASSUME MuteInit PROVE MuteInv
    OBVIOUS
  <2>1. /\ req \in [MuteCalls -> CallTypes] /\ \A i \in MuteCalls : req[i].pc = "none"
        /\ Made = {}
    BY <1>2 DEF MuteInit, Made
  <2>2. MuteTypes
    <3>1. \A b, f \in BOOLEAN : [muted |-> b, by |-> {}, seq |-> 0, fresh |-> f] \in
            [muted : BOOLEAN, by : SUBSET Keys, seq : Nat, fresh : BOOLEAN]
      OBVIOUS
    <3>2. NotMuted \in [muted : BOOLEAN, by : SUBSET Keys, seq : Nat, fresh : BOOLEAN]
      BY <3>1 DEF NotMuted
    <3>3. elem \in [Caps -> BOOLEAN] /\ sample \in BOOLEAN
      BY Zenon DEF MuteInit
    <3>4. QED
      BY <2>1, <3>2, <3>3, MuteAssumption DEF MuteInit, MuteTypes
  <2>3. StampInv
    BY <2>1, Zenon DEF MuteInit, StampInv, NotMuted
  <2>4. ApplyInv
    BY <2>1, <1>1 DEF MuteInit, ApplyInv
  <2>5. CaptureInv
    BY <2>1 DEF MuteInit, CaptureInv
  <2>6. ForceInv
    BY <2>1 DEF ForceInv, Latest
  <2>7. QED
    BY <2>2, <2>3, <2>4, <2>5, <2>6 DEF MuteInv
<1>4. MuteInv /\ [MuteNext]_muteVars => MuteInv'
  <2> SUFFICES ASSUME MuteInv, [MuteNext]_muteVars PROVE MuteInv'
    OBVIOUS
  <2>1. ASSUME NEW seat \in Keys, NEW want \in BOOLEAN, Press(seat, want) PROVE MuteInv'
    <3>1. PICK n \in MuteCalls : /\ n \notin Made /\ [pc |-> "sent", seat |-> seat, want |-> want, stamp |-> clock + 1, cap |-> 0] \in CallTypes
                                  /\ req' = [req EXCEPT ![n] = [pc |-> "sent", seat |-> seat, want |-> want, stamp |-> clock + 1, cap |-> 0]]
      <4>1. PICK n \in MuteCalls \ Made : req' = [req EXCEPT ![n] = [pc |-> "sent", seat |-> seat, want |-> want, stamp |-> clock + 1, cap |-> 0]]
        BY ZenonT(30), <2>1 DEF Press, NoCall
      <4>2. [pc |-> "sent", seat |-> seat, want |-> want, stamp |-> clock + 1, cap |-> 0] \in CallTypes
        BY <2>1, <1>1, MuteAssumption DEF CallTypes, MuteInv, MuteTypes
      <4>3. QED
        BY <4>1, <4>2
    <3>2. MuteTypes'
      BY <2>1, <3>1 DEF Press, recVars, capVars, MuteInv, MuteTypes
    <3>3. StampInv'
      BY <2>1, MuteAssumption, <1>1 DEF Press, NoCall, recVars, capVars, connVars, sessVars,
         MuteInv, MuteTypes, CallTypes, Made, InFlight, StampInv
    <3>4. ApplyInv'
      BY <2>1, MuteAssumption, <1>1 DEF Press, NoCall, recVars, capVars, connVars, sessVars,
         MuteInv, MuteTypes, CallTypes, Made, InFlight, ApplyInv, StampInv
    <3>5. CaptureInv'
      BY <2>1, MuteAssumption, <1>1 DEF Press, NoCall, recVars, capVars, connVars, sessVars,
         MuteInv, MuteTypes, CallTypes, Made, InFlight, CaptureInv, StampInv, ApplyInv
    <3>6. ForceInv'
      BY <2>1, MuteAssumption, <1>1 DEF Press, NoCall, recVars, capVars, connVars, sessVars,
         MuteInv, MuteTypes, CallTypes, Made, InFlight, CaptureInv, StampInv, ApplyInv,
         ForceInv, Latest, Caps
    <3>7. QED
      BY <3>2, <3>3, <3>4, <3>5, <3>6 DEF MuteInv
  <2>2. ASSUME NEW i \in MuteCalls, Resolve(i) PROVE MuteInv'
    <3>1. MuteTypes'
      <4>1. PICK p \in {"done", "ready"}, n \in Nat :
              req' = [req EXCEPT ![i].pc = p, ![i].cap = cap, ![i].stamp = n]
        <5>1. req[i].stamp \in Nat /\ clock + 1 \in Nat
          BY DEF MuteInv, MuteTypes, CallTypes
        <5>2. QED
          BY <2>2, <5>1 DEF Resolve
      <4>2. [req[i] EXCEPT !.pc = p, !.cap = cap, !.stamp = n] \in CallTypes
        BY DEF CallTypes, MuteInv, MuteTypes
      <4>3. req' = [req EXCEPT ![i] = [req[i] EXCEPT !.pc = p, !.cap = cap, !.stamp = n]]
        BY <4>1 DEF MuteInv, MuteTypes
      <4>4. req' \in [MuteCalls -> CallTypes]
        BY <4>2, <4>3 DEF MuteInv, MuteTypes
      <4>5. QED
        BY <2>2, <4>4 DEF Resolve, recVars, capVars, MuteInv, MuteTypes
    <3>2. StampInv'
      BY <2>2, MuteAssumption, <1>1 DEF Resolve, recVars, capVars, connVars, sessVars, MuteInv,
         MuteTypes, CallTypes, Made, InFlight, StampInv
    <3>3. ApplyInv'
      BY <2>2, MuteAssumption, <1>1 DEF Resolve, recVars, capVars, connVars, sessVars, MuteInv,
         MuteTypes, CallTypes, Made, InFlight, ApplyInv, StampInv
    <3>4. CaptureInv'
      BY <2>2, MuteAssumption, <1>1 DEF Resolve, recVars, capVars, connVars, sessVars, MuteInv,
         MuteTypes, CallTypes, Made, InFlight, CaptureInv, StampInv, ApplyInv
    <3>5. ForceInv'
      BY SMTT(30), <2>2, MuteAssumption, <1>1 DEF Resolve, recVars, capVars, connVars, sessVars, MuteInv,
         MuteTypes, CallTypes, Made, InFlight, CaptureInv, StampInv, ApplyInv, ForceInv, Latest,
         Caps
    <3>6. QED
      BY <3>1, <3>2, <3>3, <3>4, <3>5 DEF MuteInv
  <2>3. ASSUME NEW i \in MuteCalls, Enter(i) PROVE MuteInv'
    <3>1. MuteTypes'
      BY <2>3, MuteAssumption, <1>1 DEF Enter, Stale, recVars, capVars, connVars, sessVars,
         MuteInv, MuteTypes, CallTypes, Made, InFlight
    <3>2. StampInv'
      BY <2>3, MuteAssumption, <1>1 DEF Enter, Stale, recVars, capVars, connVars, sessVars,
         MuteInv, MuteTypes, CallTypes, Made, InFlight, StampInv
    <3>3. ApplyInv'
      BY SMTT(30), <2>3, MuteAssumption, <1>1 DEF Enter, Stale, recVars, capVars, connVars, sessVars,
         MuteInv, MuteTypes, CallTypes, Made, InFlight, ApplyInv, StampInv
    <3>4. CaptureInv'
      BY <2>3, MuteAssumption, <1>1 DEF Enter, Stale, recVars, capVars, connVars, sessVars,
         MuteInv, MuteTypes, CallTypes, Made, InFlight, CaptureInv, StampInv, ApplyInv
    <3>5. ForceInv'
      <4>1. \A j \in MuteCalls : /\ req'[j].stamp = req[j].stamp /\ req'[j].cap = req[j].cap
                                 /\ req'[j].want = req[j].want
                                 /\ j # i => req'[j] = req[j]
        BY <2>3 DEF Enter, MuteInv, MuteTypes, CallTypes
      <4>2. i \in Made /\ Made' = Made
        BY <2>3, <4>1 DEF Enter, Made, MuteInv, MuteTypes, CallTypes
      <4>3. \A k \in MuteCalls : Latest(k)' => Latest(k)
        BY <2>3, <4>1, <4>2 DEF Enter, Latest, capVars, Made
      <4> SUFFICES ASSUME NEW k \in MuteCalls, Latest(k)', Latest(k)
                     PROVE  /\ req'[k].pc \in {"record", "done"} => elem'[cap'] = req'[k].want
                            /\ req'[k].pc = "done" =>
                                 \A j \in InFlight' : \/ req'[j].stamp = 0
                                                      \/ /\ req'[j].pc \in {"sent", "ready"}
                                                         /\ rec'.fresh /\ req'[j].stamp < rec'.seq
        BY <4>3 DEF ForceInv
      <4>4. CASE Stale(i)
        <5>1. UNCHANGED <<elem, cap, rec>> /\ req'[i].pc = "done"
          BY <2>3, <4>4 DEF Enter, capVars, MuteInv, MuteTypes, CallTypes
        <5>2. k # i
          BY <4>4 DEF Stale, Latest, MuteInv, MuteTypes, CallTypes, StampInv, Made
        <5>3. InFlight' \subseteq InFlight
          BY <4>1, <5>1 DEF InFlight, MuteInv, MuteTypes, CallTypes, Made
        <5>4. req'[k] = req[k]
          BY <4>1, <5>2
        <5>5. \A j \in InFlight' : j \in InFlight /\ req'[j] = req[j]
          BY <4>1, <5>1, <5>3 DEF InFlight
        <5>6. QED
          BY <5>1, <5>4, <5>5 DEF MuteInv, ForceInv
      <4>5. CASE ~Stale(i)
        <5>1. UNCHANGED <<elem, cap, rec>> /\ req'[i].pc = "write" /\ req[i].pc = "ready"
          BY <2>3, <4>5 DEF Enter, capVars, MuteInv, MuteTypes, CallTypes
        <5>2. i \in InFlight /\ req[i].stamp # 0
          BY <4>2, <5>1 DEF InFlight, MuteInv, StampInv
        <5>3. req[k].pc # "done"
          BY <4>5, <5>2 DEF Stale, MuteInv, ForceInv
        <5>4. CASE k = i
          BY <5>1, <5>4
        <5>5. CASE k # i
          BY <4>1, <5>1, <5>3, <5>5 DEF MuteInv, ForceInv
        <5>6. QED
          BY <5>4, <5>5
      <4>6. QED
        BY <4>4, <4>5
    <3>6. QED
      BY <3>1, <3>2, <3>3, <3>4, <3>5 DEF MuteInv
  <2>4. ASSUME NEW i \in MuteCalls, Write(i) PROVE MuteInv'
    <3>1. MuteTypes'
      BY <2>4, MuteAssumption, <1>1 DEF Write, recVars, capVars, connVars, sessVars, MuteInv,
         MuteTypes, CallTypes, Made, InFlight
    <3>2. StampInv'
      BY <2>4, MuteAssumption, <1>1 DEF Write, recVars, capVars, connVars, sessVars, MuteInv,
         MuteTypes, CallTypes, Made, InFlight, StampInv
    <3>3. ApplyInv'
      BY <2>4, MuteAssumption, <1>1 DEF Write, recVars, capVars, connVars, sessVars, MuteInv,
         MuteTypes, CallTypes, Made, InFlight, ApplyInv, StampInv
    <3>4. CaptureInv'
      BY <2>4, MuteAssumption, <1>1 DEF Write, recVars, capVars, connVars, sessVars, MuteInv,
         MuteTypes, CallTypes, Made, InFlight, CaptureInv, StampInv, ApplyInv
    <3>5. ForceInv'
      <4>1. \A j \in MuteCalls : /\ req'[j].stamp = req[j].stamp /\ req'[j].cap = req[j].cap
                                 /\ req'[j].want = req[j].want
                                 /\ j # i => req'[j] = req[j]
        BY <2>4 DEF Write, MuteInv, MuteTypes, CallTypes
      <4>2. i \in Made /\ Made' = Made
        BY <2>4, <4>1 DEF Write, Made, MuteInv, MuteTypes, CallTypes
      <4>3. \A k \in MuteCalls : Latest(k)' => Latest(k)
        BY <2>4, <4>1, <4>2 DEF Write, Latest, capVars, Made
      <4> SUFFICES ASSUME NEW k \in MuteCalls, Latest(k)', Latest(k)
                     PROVE  /\ req'[k].pc \in {"record", "done"} => elem'[cap'] = req'[k].want
                            /\ req'[k].pc = "done" =>
                                 \A j \in InFlight' : \/ req'[j].stamp = 0
                                                      \/ /\ req'[j].pc \in {"sent", "ready"}
                                                         /\ rec'.fresh /\ req'[j].stamp < rec'.seq
        BY <4>3 DEF ForceInv
      <4>4. i \in InFlight /\ req[i].stamp # 0 /\ req[i].pc = "write" /\ rec' = rec /\ cap' = cap
        BY <2>4, <4>2 DEF Write, InFlight, MuteInv, StampInv
      <4>5. req[k].pc # "done"
        BY <4>4 DEF MuteInv, ForceInv
      <4>6. k # i => req[k].pc # "record"
        BY <4>4 DEF MuteInv, ApplyInv
      <4>7. CASE k = i
        <5>1. req[i].cap = cap /\ cap # 0 /\ cap \notin stopped
          BY <4>7 DEF Latest, MuteInv, CaptureInv
        <5>2. elem' = [elem EXCEPT ![cap] = req[i].want]
          BY <2>4, <5>1 DEF Write
        <5>3. cap \in Caps /\ elem \in [Caps -> BOOLEAN]
          BY <5>1 DEF MuteInv, MuteTypes, Caps
        <5>4. elem'[cap] = req[i].want
          BY <5>2, <5>3
        <5>5. req'[i].pc = "record"
          BY <2>4, <5>1 DEF Write, MuteInv, MuteTypes, CallTypes
        <5>6. QED
          BY <4>1, <4>4, <4>7, <5>4, <5>5
      <4>8. CASE k # i
        BY <4>1, <4>5, <4>6, <4>8
      <4>9. QED
        BY <4>7, <4>8
    <3>6. QED
      BY <3>1, <3>2, <3>3, <3>4, <3>5 DEF MuteInv
  <2>5. ASSUME NEW i \in MuteCalls, Record(i) PROVE MuteInv'
    <3>1. MuteTypes'
      <4>1. elem[req[i].cap] \in BOOLEAN
        BY <2>5, <1>1 DEF Record, Made, MuteInv, MuteTypes, CallTypes, CaptureInv, Caps
      <4>2. \A m, f \in BOOLEAN, b \in SUBSET Keys, n \in Nat :
              [muted |-> m, by |-> b, seq |-> n, fresh |-> f] \in [muted : BOOLEAN, by : SUBSET Keys, seq : Nat, fresh : BOOLEAN]
        OBVIOUS
      <4>3. PICK b \in SUBSET Keys :
              rec' = [muted |-> elem[req[i].cap], by |-> b, seq |-> req[i].stamp, fresh |-> TRUE]
        BY <2>5 DEF Record, MuteInv, MuteTypes, CallTypes
      <4>4. req[i].stamp \in Nat
        BY <2>5 DEF MuteInv, MuteTypes, CallTypes
      <4>5. rec' \in [muted : BOOLEAN, by : SUBSET Keys, seq : Nat, fresh : BOOLEAN]
        BY <4>1, <4>2, <4>3, <4>4
      <4>6. QED
        BY <2>5, <4>5 DEF Record, capVars, MuteInv, MuteTypes, CallTypes
    <3>2. StampInv'
      BY <2>5, MuteAssumption, <1>1 DEF Record, recVars, capVars, connVars, sessVars, MuteInv,
         MuteTypes, CallTypes, Made, InFlight, StampInv
    <3>3. ApplyInv'
      BY <2>5, MuteAssumption, <1>1 DEF Record, recVars, capVars, connVars, sessVars, MuteInv,
         MuteTypes, CallTypes, Made, InFlight, ApplyInv, StampInv
    <3>4. CaptureInv'
      BY <2>5, MuteAssumption, <1>1 DEF Record, recVars, capVars, connVars, sessVars, MuteInv,
         MuteTypes, CallTypes, Made, InFlight, CaptureInv, StampInv, ApplyInv
    <3>5. ForceInv'
      <4>1. \A j \in MuteCalls : /\ req'[j].stamp = req[j].stamp /\ req'[j].cap = req[j].cap
                                 /\ req'[j].want = req[j].want
                                 /\ j # i => req'[j] = req[j]
        BY <2>5 DEF Record, MuteInv, MuteTypes, CallTypes
      <4>2. i \in Made /\ Made' = Made
        BY <2>5, <4>1 DEF Record, Made, MuteInv, MuteTypes, CallTypes
      <4>3. \A k \in MuteCalls : Latest(k)' => Latest(k)
        BY <2>5, <4>1, <4>2 DEF Record, Latest, capVars, Made
      <4> SUFFICES ASSUME NEW k \in MuteCalls, Latest(k)', Latest(k)
                     PROVE  /\ req'[k].pc \in {"record", "done"} => elem'[cap'] = req'[k].want
                            /\ req'[k].pc = "done" =>
                                 \A j \in InFlight' : \/ req'[j].stamp = 0
                                                      \/ /\ req'[j].pc \in {"sent", "ready"}
                                                         /\ rec'.fresh /\ req'[j].stamp < rec'.seq
        BY <4>3 DEF ForceInv
      <4>4. /\ i \in InFlight /\ req[i].stamp # 0 /\ req[i].pc = "record" /\ req'[i].pc = "done"
            /\ UNCHANGED <<elem, cap>> /\ rec'.fresh /\ rec'.seq = req[i].stamp
        BY <2>5, <4>2 DEF Record, InFlight, capVars, MuteInv, StampInv, MuteTypes, CallTypes
      <4>5. req[k].pc # "done"
        BY <4>4 DEF MuteInv, ForceInv
      <4>6. \A j \in MuteCalls : j # i => req[j].pc \notin {"write", "record"}
        BY <4>4 DEF MuteInv, ApplyInv
      <4>7. CASE k = i
        <5>1. elem'[cap'] = req'[i].want
          BY <4>1, <4>4, <4>7 DEF MuteInv, ForceInv
        <5>2. ASSUME NEW j \in InFlight', req'[j].stamp # 0
              PROVE  req'[j].pc \in {"sent", "ready"} /\ req'[j].stamp < rec'.seq
          <6>1. j \in MuteCalls /\ j # i /\ j \in Made
            BY <4>1, <4>4, <5>2 DEF InFlight, Made
          <6>2. req[j].pc \in {"sent", "ready"}
            BY <4>1, <4>6, <5>2, <6>1 DEF InFlight, MuteInv, MuteTypes, CallTypes
          <6>3. req[j].stamp <= req[i].stamp /\ req[j].stamp # req[i].stamp
            BY <4>1, <4>2, <4>7, <5>2, <6>1 DEF Latest, MuteInv, StampInv
          <6>4. QED
            BY <4>1, <4>4, <6>1, <6>2, <6>3 DEF MuteInv, MuteTypes, CallTypes
        <5>3. QED
          BY <4>4, <4>7, <5>1, <5>2
      <4>8. CASE k # i
        BY <4>1, <4>5, <4>6, <4>8
      <4>9. QED
        BY <4>7, <4>8
    <3>6. QED
      BY <3>1, <3>2, <3>3, <3>4, <3>5 DEF MuteInv
  <2>6. ASSUME WindowEnds PROVE MuteInv'
    <3>1. MuteTypes'
      BY <2>6, MuteAssumption, <1>1 DEF WindowEnds, recVars, capVars, connVars, sessVars,
         MuteInv, MuteTypes, CallTypes, Made, InFlight
    <3>2. StampInv'
      BY <2>6, MuteAssumption, <1>1 DEF WindowEnds, recVars, capVars, connVars, sessVars,
         MuteInv, MuteTypes, CallTypes, Made, InFlight, StampInv
    <3>3. ApplyInv'
      BY <2>6, MuteAssumption, <1>1 DEF WindowEnds, recVars, capVars, connVars, sessVars,
         MuteInv, MuteTypes, CallTypes, Made, InFlight, ApplyInv, StampInv
    <3>4. CaptureInv'
      BY <2>6, MuteAssumption, <1>1 DEF WindowEnds, recVars, capVars, connVars, sessVars,
         MuteInv, MuteTypes, CallTypes, Made, InFlight, CaptureInv, StampInv, ApplyInv
    <3>5. ForceInv'
      <4>1. /\ UNCHANGED <<req, cap, elem>> /\ rec.fresh
            /\ \A j \in InFlight : req[j].stamp = 0 \/ req[j].stamp > rec.seq
        BY <2>6 DEF WindowEnds, capVars
      <4>2. \A j \in InFlight : req[j].stamp \in Nat
        BY DEF InFlight, MuteInv, MuteTypes, CallTypes
      <4>3. \A k \in MuteCalls : Latest(k)' <=> Latest(k)
        BY <4>1 DEF Latest, Made
      <4>4. InFlight' = InFlight
        BY <4>1 DEF InFlight
      <4>5. ASSUME NEW k \in MuteCalls, Latest(k), req[k].pc = "done", NEW j \in InFlight
            PROVE  req[j].stamp = 0
        <5>1. req[j].stamp = 0 \/ req[j].stamp < rec.seq
          BY <4>5 DEF MuteInv, ForceInv
        <5>2. QED
          BY <4>1, <4>2, <5>1 DEF MuteInv, MuteTypes
      <4>6. ASSUME NEW k \in MuteCalls, Latest(k)'
            PROVE  /\ req'[k].pc \in {"record", "done"} => elem'[cap'] = req'[k].want
                   /\ req'[k].pc = "done" => \A j \in InFlight' : req'[j].stamp = 0
        BY <4>1, <4>3, <4>4, <4>5, <4>6 DEF MuteInv, ForceInv
      <4>7. QED
        BY <4>6 DEF ForceInv
    <3>6. QED
      BY <3>1, <3>2, <3>3, <3>4, <3>5 DEF MuteInv
  <2>7. ASSUME RebuildStarts PROVE MuteInv'
    <3>1. MuteTypes'
      BY <2>7, MuteAssumption, <1>1 DEF RebuildStarts, recVars, capVars, connVars, sessVars,
         MuteInv, MuteTypes, CallTypes, Made, InFlight
    <3>2. StampInv'
      BY <2>7, MuteAssumption, <1>1 DEF RebuildStarts, recVars, capVars, connVars, sessVars,
         MuteInv, MuteTypes, CallTypes, Made, InFlight, StampInv
    <3>3. ApplyInv'
      BY <2>7, MuteAssumption, <1>1 DEF RebuildStarts, recVars, capVars, connVars, sessVars,
         MuteInv, MuteTypes, CallTypes, Made, InFlight, ApplyInv, StampInv
    <3>4. CaptureInv'
      BY <2>7, MuteAssumption, <1>1 DEF RebuildStarts, recVars, capVars, connVars, sessVars,
         MuteInv, MuteTypes, CallTypes, Made, InFlight, CaptureInv, StampInv, ApplyInv
    <3>5. ForceInv'
      BY <2>7, MuteAssumption, <1>1 DEF RebuildStarts, recVars, capVars, connVars, sessVars,
         MuteInv, MuteTypes, CallTypes, Made, InFlight, CaptureInv, StampInv, ApplyInv,
         ForceInv, Latest, Caps
    <3>6. QED
      BY <3>1, <3>2, <3>3, <3>4, <3>5 DEF MuteInv
  <2>8. ASSUME StopOld PROVE MuteInv'
    <3>1. MuteTypes'
      BY <2>8, MuteAssumption, <1>1 DEF StopOld, recVars, capVars, connVars, sessVars, MuteInv,
         MuteTypes, CallTypes, Made, InFlight
    <3>2. StampInv'
      BY <2>8, MuteAssumption, <1>1 DEF StopOld, recVars, capVars, connVars, sessVars, MuteInv,
         MuteTypes, CallTypes, Made, InFlight, StampInv
    <3>3. ApplyInv'
      BY <2>8, MuteAssumption, <1>1 DEF StopOld, recVars, capVars, connVars, sessVars, MuteInv,
         MuteTypes, CallTypes, Made, InFlight, ApplyInv, StampInv
    <3>4. CaptureInv'
      BY <2>8, MuteAssumption, <1>1 DEF StopOld, recVars, capVars, connVars, sessVars, MuteInv,
         MuteTypes, CallTypes, Made, InFlight, CaptureInv, StampInv, ApplyInv
    <3>5. ForceInv'
      BY <2>8, MuteAssumption, <1>1 DEF StopOld, recVars, capVars, connVars, sessVars, MuteInv,
         MuteTypes, CallTypes, Made, InFlight, CaptureInv, StampInv, ApplyInv, ForceInv, Latest,
         Caps
    <3>6. QED
      BY <3>1, <3>2, <3>3, <3>4, <3>5 DEF MuteInv
  <2>9. ASSUME forgetMute PROVE MuteInv'
    <3>1. MuteTypes'
      BY <2>9, MuteAssumption, <1>1 DEF forgetMute, NotMuted, recVars, capVars, connVars,
         sessVars, MuteInv, MuteTypes, CallTypes, Made, InFlight
    <3>2. StampInv'
      BY <2>9, MuteAssumption, <1>1 DEF forgetMute, NotMuted, recVars, capVars, connVars,
         sessVars, MuteInv, MuteTypes, CallTypes, Made, InFlight, StampInv
    <3>3. ApplyInv'
      BY <2>9, MuteAssumption, <1>1 DEF forgetMute, NotMuted, recVars, capVars, connVars,
         sessVars, MuteInv, MuteTypes, CallTypes, Made, InFlight, ApplyInv, StampInv
    <3>4. CaptureInv'
      BY <2>9, MuteAssumption, <1>1 DEF forgetMute, NotMuted, recVars, capVars, connVars,
         sessVars, MuteInv, MuteTypes, CallTypes, Made, InFlight, CaptureInv, StampInv, ApplyInv
    <3>5. ForceInv'
      BY <2>9, MuteAssumption, <1>1 DEF forgetMute, NotMuted, recVars, capVars, connVars,
         sessVars, MuteInv, MuteTypes, CallTypes, Made, InFlight, CaptureInv, StampInv,
         ApplyInv, ForceInv, Latest, Caps
    <3>6. QED
      BY <3>1, <3>2, <3>3, <3>4, <3>5 DEF MuteInv
  <2>10. ASSUME BuildNew PROVE MuteInv'
    <3>1. MuteTypes'
      <4>1. PICK c \in Caps \ stopped : cap' = c /\ elem' = [elem EXCEPT ![c] = sample]
        BY <2>10 DEF BuildNew
      <4>2. QED
        BY <2>10, <4>1, <1>1 DEF BuildNew, recVars, MuteInv, MuteTypes, Caps
    <3>2. StampInv'
      BY <2>10, MuteAssumption, <1>1 DEF BuildNew, recVars, capVars, connVars, sessVars,
         MuteInv, MuteTypes, CallTypes, Made, InFlight, StampInv
    <3>3. ApplyInv'
      BY <2>10, MuteAssumption, <1>1 DEF BuildNew, recVars, capVars, connVars, sessVars,
         MuteInv, MuteTypes, CallTypes, Made, InFlight, ApplyInv, StampInv
    <3>4. CaptureInv'
      BY <2>10, MuteAssumption, <1>1 DEF BuildNew, recVars, capVars, connVars, sessVars,
         MuteInv, MuteTypes, CallTypes, Made, InFlight, CaptureInv, StampInv, ApplyInv
    <3>5. ForceInv'
      BY <2>10, MuteAssumption, <1>1 DEF BuildNew, recVars, capVars, connVars, sessVars,
         MuteInv, MuteTypes, CallTypes, Made, InFlight, CaptureInv, StampInv, ApplyInv,
         ForceInv, Latest, Caps
    <3>6. QED
      BY <3>1, <3>2, <3>3, <3>4, <3>5 DEF MuteInv
  <2>11. ASSUME BuildFails PROVE MuteInv'
    <3>1. MuteTypes'
      BY <2>11, MuteAssumption, <1>1 DEF BuildFails, recVars, capVars, connVars, sessVars,
         MuteInv, MuteTypes, CallTypes, Made, InFlight
    <3>2. StampInv'
      BY <2>11, MuteAssumption, <1>1 DEF BuildFails, recVars, capVars, connVars, sessVars,
         MuteInv, MuteTypes, CallTypes, Made, InFlight, StampInv
    <3>3. ApplyInv'
      BY <2>11, MuteAssumption, <1>1 DEF BuildFails, recVars, capVars, connVars, sessVars,
         MuteInv, MuteTypes, CallTypes, Made, InFlight, ApplyInv, StampInv
    <3>4. CaptureInv'
      BY <2>11, MuteAssumption, <1>1 DEF BuildFails, recVars, capVars, connVars, sessVars,
         MuteInv, MuteTypes, CallTypes, Made, InFlight, CaptureInv, StampInv, ApplyInv
    <3>5. ForceInv'
      BY <2>11, MuteAssumption, <1>1 DEF BuildFails, recVars, capVars, connVars, sessVars,
         MuteInv, MuteTypes, CallTypes, Made, InFlight, CaptureInv, StampInv, ApplyInv,
         ForceInv, Latest, Caps
    <3>6. QED
      BY <3>1, <3>2, <3>3, <3>4, <3>5 DEF MuteInv
  <2>12. ASSUME publishMuteForCapture PROVE MuteInv'
    <3>1. MuteTypes'
      <4>1. elem[cap] \in BOOLEAN
        BY <2>12, <1>1 DEF publishMuteForCapture, MuteInv, MuteTypes, CaptureInv, Caps
      <4>2. \A m, f \in BOOLEAN : [muted |-> m, by |-> {}, seq |-> 0, fresh |-> f] \in [muted : BOOLEAN, by : SUBSET Keys, seq : Nat, fresh : BOOLEAN]
        OBVIOUS
      <4>3. rec' = [muted |-> elem[cap], by |-> {}, seq |-> 0, fresh |-> FALSE]
        BY <2>12 DEF publishMuteForCapture, NotMuted
      <4>4. rec' \in [muted : BOOLEAN, by : SUBSET Keys, seq : Nat, fresh : BOOLEAN]
        BY <4>1, <4>2, <4>3
      <4>5. QED
        BY <2>12, <4>4 DEF publishMuteForCapture, MuteInv, MuteTypes
    <3>2. StampInv'
      BY <2>12, MuteAssumption, <1>1 DEF publishMuteForCapture, NotMuted, recVars, capVars,
         connVars, sessVars, MuteInv, MuteTypes, CallTypes, Made, InFlight, StampInv
    <3>3. ApplyInv'
      BY <2>12, MuteAssumption, <1>1 DEF publishMuteForCapture, NotMuted, recVars, capVars,
         connVars, sessVars, MuteInv, MuteTypes, CallTypes, Made, InFlight, ApplyInv, StampInv
    <3>4. CaptureInv'
      BY <2>12, MuteAssumption, <1>1 DEF publishMuteForCapture, NotMuted, recVars, capVars,
         connVars, sessVars, MuteInv, MuteTypes, CallTypes, Made, InFlight, CaptureInv,
         StampInv, ApplyInv
    <3>5. ForceInv'
      BY <2>12, MuteAssumption, <1>1 DEF publishMuteForCapture, NotMuted, recVars, capVars,
         connVars, sessVars, MuteInv, MuteTypes, CallTypes, Made, InFlight, CaptureInv,
         StampInv, ApplyInv, ForceInv, Latest, Caps
    <3>6. QED
      BY <3>1, <3>2, <3>3, <3>4, <3>5 DEF MuteInv
  <2>13. ASSUME SessionChanges PROVE MuteInv'
    <3>1. MuteTypes'
      BY <2>13, MuteAssumption, <1>1 DEF SessionChanges, recVars, capVars, connVars, sessVars,
         MuteInv, MuteTypes, CallTypes, Made, InFlight
    <3>2. StampInv'
      BY <2>13, MuteAssumption, <1>1 DEF SessionChanges, recVars, capVars, connVars, sessVars,
         MuteInv, MuteTypes, CallTypes, Made, InFlight, StampInv
    <3>3. ApplyInv'
      BY <2>13, MuteAssumption, <1>1 DEF SessionChanges, recVars, capVars, connVars, sessVars,
         MuteInv, MuteTypes, CallTypes, Made, InFlight, ApplyInv, StampInv
    <3>4. CaptureInv'
      BY <2>13, MuteAssumption, <1>1 DEF SessionChanges, recVars, capVars, connVars, sessVars,
         MuteInv, MuteTypes, CallTypes, Made, InFlight, CaptureInv, StampInv, ApplyInv
    <3>5. ForceInv'
      BY <2>13, MuteAssumption, <1>1 DEF SessionChanges, recVars, capVars, connVars, sessVars,
         MuteInv, MuteTypes, CallTypes, Made, InFlight, CaptureInv, StampInv, ApplyInv,
         ForceInv, Latest, Caps
    <3>6. QED
      BY <3>1, <3>2, <3>3, <3>4, <3>5 DEF MuteInv
  <2>14. ASSUME ReconcileReads PROVE MuteInv'
    <3>1. MuteTypes'
      BY <2>14, MuteAssumption, <1>1 DEF ReconcileReads, recVars, capVars, connVars, sessVars,
         MuteInv, MuteTypes, CallTypes, Made, InFlight
    <3>2. StampInv'
      BY <2>14, MuteAssumption, <1>1 DEF ReconcileReads, recVars, capVars, connVars, sessVars,
         MuteInv, MuteTypes, CallTypes, Made, InFlight, StampInv
    <3>3. ApplyInv'
      BY <2>14, MuteAssumption, <1>1 DEF ReconcileReads, recVars, capVars, connVars, sessVars,
         MuteInv, MuteTypes, CallTypes, Made, InFlight, ApplyInv, StampInv
    <3>4. CaptureInv'
      BY <2>14, MuteAssumption, <1>1 DEF ReconcileReads, recVars, capVars, connVars, sessVars,
         MuteInv, MuteTypes, CallTypes, Made, InFlight, CaptureInv, StampInv, ApplyInv
    <3>5. ForceInv'
      BY <2>14, MuteAssumption, <1>1 DEF ReconcileReads, recVars, capVars, connVars, sessVars,
         MuteInv, MuteTypes, CallTypes, Made, InFlight, CaptureInv, StampInv, ApplyInv,
         ForceInv, Latest, Caps
    <3>6. QED
      BY <3>1, <3>2, <3>3, <3>4, <3>5 DEF MuteInv
  <2>15. ASSUME ReconcileRecords PROVE MuteInv'
    <3>1. MuteTypes'
      BY <2>15, MuteAssumption, <1>1 DEF ReconcileRecords, recVars, capVars, connVars, sessVars,
         MuteInv, MuteTypes, CallTypes, Made, InFlight
    <3>2. StampInv'
      BY <2>15, MuteAssumption, <1>1 DEF ReconcileRecords, recVars, capVars, connVars, sessVars,
         MuteInv, MuteTypes, CallTypes, Made, InFlight, StampInv
    <3>3. ApplyInv'
      BY <2>15, MuteAssumption, <1>1 DEF ReconcileRecords, recVars, capVars, connVars, sessVars,
         MuteInv, MuteTypes, CallTypes, Made, InFlight, ApplyInv, StampInv
    <3>4. CaptureInv'
      BY <2>15, MuteAssumption, <1>1 DEF ReconcileRecords, recVars, capVars, connVars, sessVars,
         MuteInv, MuteTypes, CallTypes, Made, InFlight, CaptureInv, StampInv, ApplyInv
    <3>5. ForceInv'
      BY <2>15, MuteAssumption, <1>1 DEF ReconcileRecords, recVars, capVars, connVars, sessVars,
         MuteInv, MuteTypes, CallTypes, Made, InFlight, CaptureInv, StampInv, ApplyInv,
         ForceInv, Latest, Caps
    <3>6. QED
      BY <3>1, <3>2, <3>3, <3>4, <3>5 DEF MuteInv
  <2>16. ASSUME UNCHANGED <<capVars, recVars, req, clock, sessVars>> PROVE MuteInv'
    <3>1. MuteTypes'
      BY <2>16 DEF recVars, capVars, sessVars, MuteInv, MuteTypes, CallTypes, Caps
    <3>2. StampInv'
      BY <2>16 DEF recVars, capVars, sessVars, MuteInv, MuteTypes, CallTypes, Made, StampInv
    <3>3. ApplyInv'
      BY <2>16 DEF recVars, capVars, sessVars, MuteInv, MuteTypes, CallTypes, ApplyInv
    <3>4. CaptureInv'
      BY <2>16 DEF recVars, capVars, sessVars, MuteInv, MuteTypes, CallTypes, Made, CaptureInv
    <3>5. ForceInv'
      BY <2>16 DEF recVars, capVars, sessVars, MuteInv, MuteTypes, CallTypes, Made, InFlight,
         ForceInv, Latest
    <3>6. QED
      BY <3>1, <3>2, <3>3, <3>4, <3>5 DEF MuteInv
  <2>17. ASSUME NEW w \in Polls, PollTick(w) \/ PollEnds(w) \/ PollReturns(w) PROVE MuteInv'
    BY <2>16, <2>17 DEF PollTick, PollEnds, PollReturns
  <2>18. ASSUME NEW w \in Polls, PollCheck(w) PROVE MuteInv'
    <3> DEFINE rel == [NoCall EXCEPT !.pc = "sent", !.seat = Desk]
    <3>1. UNCHANGED req \/ \E n \in MuteCalls : /\ n \notin Made /\ rel \in CallTypes
                                                /\ req' = [req EXCEPT ![n] = rel]
      <4>1. rel \in CallTypes
        BY <1>1, <1>2 DEF CallTypes
      <4>2. UNCHANGED req \/ \E n \in MuteCalls \ Made : req' = [req EXCEPT ![n] = rel]
        BY <2>18 DEF PollCheck
      <4>3. QED
        BY <4>1, <4>2
    <3>rel. rel.pc = "sent" /\ rel.stamp = 0 /\ rel.cap = 0
      BY <1>2 DEF CallTypes
    <3> HIDE DEF rel
    <3>2. MuteTypes'
      <4>1. CASE UNCHANGED req
        BY <2>18, <4>1 DEF PollCheck, recVars, capVars, MuteInv, MuteTypes
      <4>2. CASE ~UNCHANGED req
        <5>1. PICK n \in MuteCalls : /\ n \notin Made /\ rel \in CallTypes
                                     /\ req' = [req EXCEPT ![n] = rel]
          BY <3>1, <4>2
        <5>2. QED
          BY <2>18, <5>1, <3>rel DEF PollCheck, recVars, capVars, MuteInv, MuteTypes
      <4>3. QED
        BY <4>1, <4>2
    <3>3. StampInv'
      <4>1. CASE UNCHANGED req
        BY <2>18, <4>1 DEF PollCheck, recVars, capVars, MuteInv, MuteTypes, CallTypes, StampInv,
           Made
      <4>2. CASE ~UNCHANGED req
        <5>1. PICK n \in MuteCalls : /\ n \notin Made /\ rel \in CallTypes
                                     /\ req' = [req EXCEPT ![n] = rel]
          BY <3>1, <4>2
        <5>2. QED
          BY <2>18, <5>1, <3>rel DEF PollCheck, recVars, capVars, MuteInv, MuteTypes, CallTypes,
             StampInv, Made
      <4>3. QED
        BY <4>1, <4>2
    <3>4. ApplyInv'
      <4>1. CASE UNCHANGED req
        BY <2>18, <4>1 DEF PollCheck, recVars, capVars, MuteInv, MuteTypes, CallTypes, ApplyInv,
           Made
      <4>2. CASE ~UNCHANGED req
        <5>1. PICK n \in MuteCalls : /\ n \notin Made /\ rel \in CallTypes
                                     /\ req' = [req EXCEPT ![n] = rel]
          BY <3>1, <4>2
        <5>2. QED
          BY <2>18, <5>1, <3>rel DEF PollCheck, recVars, capVars, MuteInv, MuteTypes, CallTypes,
             ApplyInv, Made
      <4>3. QED
        BY <4>1, <4>2
    <3>5. CaptureInv'
      <4>1. CASE UNCHANGED req
        BY <2>18, <4>1 DEF PollCheck, recVars, capVars, MuteInv, MuteTypes, CallTypes,
           CaptureInv, Made
      <4>2. CASE ~UNCHANGED req
        <5>1. PICK n \in MuteCalls : /\ n \notin Made /\ rel \in CallTypes
                                     /\ req' = [req EXCEPT ![n] = rel]
          BY <3>1, <4>2
        <5>2. QED
          BY <2>18, <5>1, <3>rel DEF PollCheck, recVars, capVars, MuteInv, MuteTypes, CallTypes,
             CaptureInv, Made
      <4>3. QED
        BY <4>1, <4>2
    <3>6. ForceInv'
      <4>1. CASE UNCHANGED req
        BY <2>18, <4>1 DEF PollCheck, recVars, capVars, MuteInv, MuteTypes, CallTypes, ForceInv,
           StampInv, Latest, InFlight, Made
      <4>2. CASE ~UNCHANGED req
        <5>1. PICK n \in MuteCalls : /\ n \notin Made /\ rel \in CallTypes
                                     /\ req' = [req EXCEPT ![n] = rel]
          BY <3>1, <4>2
        <5>2. QED
          BY <2>18, <5>1, <3>rel DEF PollCheck, recVars, capVars, MuteInv, MuteTypes, CallTypes,
             ForceInv, StampInv, Latest, InFlight, Made
      <4>3. QED
        BY <4>1, <4>2
    <3>7. QED
      BY <3>2, <3>3, <3>4, <3>5, <3>6 DEF MuteInv
  <2>19. ASSUME \/ \E s \in Remote : Come(s) \/ Leave(s)
                \/ ListenerStops \/ ListenerStarts \/ UNCHANGED muteVars
         PROVE  MuteInv'
    BY <2>16, <2>19 DEF Come, Leave, ListenerStops, ListenerStarts, muteVars
  <2>20. QED
    BY <2>1, <2>2, <2>3, <2>4, <2>5, <2>6, <2>7, <2>8, <2>9, <2>10, <2>11, <2>12, <2>13, <2>14,
       <2>15, <2>17, <2>18, <2>19 DEF MuteNext, CallStep, RebuildStep, PollStep
<1>5. \A label \in {"none", "idle", "check", "ended"} : PollAt(label) \in PollTypes
  <2>1. 0 \in 0 .. MaxMuteCalls
    BY MuteAssumption
  <2>2. QED
    BY <2>1 DEF PollAt, PollTypes
<1>6. MuteInit => MuteRest
  <2> SUFFICES ASSUME MuteInit PROVE MuteRest
    OBVIOUS
  <2>1. 1 \in 0 .. MaxPolls /\ 0 \in 0 .. MaxMuteCalls
    BY MuteAssumption
  <2>2. last \in [Polls -> SUBSET Remote] /\ poll \in [Polls -> PollTypes]
    BY <1>5 DEF MuteInit
  <2>3. capMu \in BOOLEAN /\ session \in BOOLEAN
    BY Zenon DEF MuteInit
  <2>4. QED
    BY <2>1, <2>2, <2>3 DEF MuteInit, MuteRest
<1>7. ASSUME MuteInv, MuteInv', MuteRest, [MuteNext]_muteVars PROVE MuteRest'
  <2>1. ASSUME UNCHANGED <<stopped, capMu, session, rebuild, cap, seen, connVars>>,
               applyMu' \in 0 .. MaxMuteCalls
        PROVE  MuteRest'
    BY <1>7, <2>1 DEF connVars, MuteRest
  <2>2. CASE \E s \in Keys, want \in BOOLEAN : Press(s, want)
    BY <1>7, <2>1, <2>2 DEF Press, capVars, recVars, sessVars, connVars, MuteRest
  <2>3. ASSUME NEW i \in MuteCalls, CallStep(i) PROVE MuteRest'
    <3>1. UNCHANGED <<stopped, capMu, session, rebuild, cap, seen, connVars>>
      BY <2>3 DEF CallStep, Resolve, Enter, Write, Record, capVars, sessVars, connVars
    <3>2. applyMu' \in {applyMu, i, 0}
      BY <2>3 DEF CallStep, Resolve, Enter, Write, Record, recVars
    <3>3. {applyMu, i, 0} \subseteq 0 .. MaxMuteCalls
      BY <1>7, <2>3, MuteAssumption DEF MuteRest, MuteCalls
    <3>4. QED
      BY <2>1, <3>1, <3>2, <3>3
  <2>4. CASE WindowEnds
    BY <1>7, <2>1, <2>4 DEF WindowEnds, capVars, sessVars, connVars, MuteRest
  <2>5. CASE RebuildStarts \/ RebuildStep
    <3>1. /\ UNCHANGED <<session, seen, connVars, applyMu>>
          /\ rebuild' \in {"idle", "stop", "forget", "build", "publish"} /\ capMu' \in BOOLEAN
          /\ rebuild' = "stop" => cap' = cap /\ cap # 0
      BY <1>7, <2>5
         DEF RebuildStarts, RebuildStep, StopOld, forgetMute, BuildNew, BuildFails, publishMuteForCapture,
             recVars, sessVars, connVars, MuteRest
    <3>2. stopped' \subseteq Caps
      <4>1. cap \in 0 .. MaxCaps /\ MaxCaps \in Nat
        BY <1>7, MuteAssumption DEF MuteInv, MuteTypes
      <4>2. StopOld => cap \in Caps
        BY <1>7, <4>1 DEF StopOld, MuteRest, Caps
      <4>3. stopped' = stopped \/ StopOld
        BY <2>5 DEF RebuildStarts, RebuildStep, forgetMute, BuildNew, BuildFails, publishMuteForCapture
      <4>4. QED
        BY <1>7, <4>2, <4>3 DEF StopOld, MuteRest
    <3>3. QED
      BY <1>7, <3>1, <3>2 DEF connVars, MuteRest
  <2>6. CASE SessionChanges \/ ReconcileReads \/ ReconcileRecords
    <3>1. /\ UNCHANGED <<stopped, capMu, rebuild, cap, connVars, applyMu>>
          /\ session' \in BOOLEAN /\ seen' \in {"none", "muted", "open"}
      BY <1>7, <2>6
         DEF SessionChanges, ReconcileReads, ReconcileRecords, capVars, recVars, connVars, MuteRest
    <3>2. QED
      BY <1>7, <3>1 DEF connVars, MuteRest
  <2>7. ASSUME UNCHANGED <<stopped, capMu, session, rebuild, cap, seen, applyMu>>,
               listener' \in 0 .. MaxPolls, conn' \subseteq Remote, came' \subseteq Remote,
               last' \in [Polls -> SUBSET Remote], poll' \in [Polls -> PollTypes]
        PROVE  MuteRest'
    BY <1>7, <2>7 DEF MuteRest
  <2>8. CASE \E s \in Remote : Come(s) \/ Leave(s)
    BY <1>7, <2>7, <2>8 DEF Come, Leave, capVars, recVars, sessVars, MuteRest
  <2>9. CASE ListenerStops
    BY <1>7, <2>7, <2>9, MuteAssumption DEF ListenerStops, capVars, recVars, sessVars, MuteRest
  <2>10. CASE ListenerStarts
    <3>1. PICK w \in Polls : listener' = w /\ poll' = [poll EXCEPT ![w] = PollAt("idle")]
      BY <2>10 DEF ListenerStarts
    <3>2. poll' \in [Polls -> PollTypes] /\ w \in 0 .. MaxPolls
      BY <1>7, <1>5, <3>1, MuteAssumption DEF MuteRest, Polls
    <3>3. QED
      BY <1>7, <2>7, <2>10, <3>1, <3>2 DEF ListenerStarts, capVars, recVars, sessVars, MuteRest
  <2>11. ASSUME NEW w \in Polls, PollStep(w) PROVE MuteRest'
    <3>1. /\ UNCHANGED <<stopped, capMu, session, rebuild, cap, seen, applyMu, listener, conn, came>>
          /\ last' \in [Polls -> SUBSET Remote]
      BY <1>7, <2>11
         DEF PollStep, PollTick, PollEnds, PollCheck, PollReturns, Clients, capVars, recVars, sessVars,
             MuteRest
    <3>2. \A i \in MuteCalls : [pc |-> "wait", call |-> i] \in PollTypes
      BY MuteAssumption DEF PollTypes, MuteCalls
    <3>3. PICK r \in PollTypes : poll' = [poll EXCEPT ![w] = r]
      BY <2>11, <1>5, <3>2 DEF PollStep, PollTick, PollEnds, PollCheck, PollReturns
    <3>4. poll' \in [Polls -> PollTypes]
      BY <1>7, <3>3 DEF MuteRest
    <3>5. QED
      BY <1>7, <2>7, <3>1, <3>4 DEF MuteRest
  <2>12. CASE UNCHANGED muteVars
    BY <1>7, <2>1, <2>12 DEF muteVars, capVars, recVars, sessVars, connVars, MuteRest
  <2>13. QED
    BY <1>7, <2>2, <2>3, <2>4, <2>5, <2>6, <2>8, <2>9, <2>10, <2>11, <2>12 DEF MuteNext
<1>8. MuteInv => LastPressWins
  BY DEF MuteInv, MuteTypes, CallTypes, StampInv, ForceInv, Latest, LastPressWins, InFlight,
         Made
<1>9. MuteInv /\ MuteRest => MuteTypeOK
  BY DEF MuteInv, MuteTypes, MuteRest, MuteTypeOK, CallTypes, PollTypes
<1>10. QED
  BY <1>3, <1>4, <1>6, <1>7, <1>8, <1>9, PTL DEF MuteSpec

-----------------------------------------------------------------------------
(* RemoteSession.                                                          *)

\* The calls under way: the one that is refused counts for nothing.
UnderWay == {c \in SeatCalls : callAt[c] = "running" \/ (callAt[c] = "answered" /\ c # refused)}

\* What is counted in flight is under way; what waits to be written, or is being written,
\* is an answer that was queued, once; and the reader refuses one answered call at a time.
SeatInv ==
  /\ SeatTypeOK
  /\ inFlight = Cardinality(UnderWay)
  /\ reader = "refuse" <=> refused # 0
  /\ refused # 0 => callAt[refused] = "answered"
  /\ frame # 0 => callAt[frame] = "queued"
  /\ \A i \in 1 .. Len(results) : callAt[results[i]] = "queued" /\ results[i] # frame
  /\ \A i, j \in 1 .. Len(results) : results[i] = results[j] => i = j

\* The calls of a seat that are in flight are counted, and never more than the cap; their
\* results fit their queue (session.go: startCall, enqueueResult, writeLoop).
THEOREM TheCapIsKept == SeatSpec => [](SeatTypeOK /\ inFlight = Cardinality(UnderWay))
<1>1. /\ MaxInFlight \in Nat \ {0} /\ MaxSeatCalls \in Nat /\ 0 \notin SeatCalls /\ IsFiniteSet(SeatCalls)
      /\ SeatCalls \subseteq 0 .. MaxSeatCalls
  BY SeatAssumption, FS_Interval DEF SeatCalls
<1>2. IsFiniteSet(UnderWay) /\ Cardinality(UnderWay) \in Nat
  BY <1>1, FS_Subset, FS_CardinalityType DEF UnderWay
<1>3. SeatInit => SeatInv
  <2> SUFFICES ASSUME SeatInit PROVE SeatInv
    OBVIOUS
  <2>1. UnderWay = {}
    BY DEF SeatInit, UnderWay
  <2>2. results \in Seq(SeatCalls) /\ Len(results) = 0
    BY DEF SeatInit
  <2>3. SeatTypeOK
    <3>1. /\ refused \in 0 .. MaxSeatCalls /\ frame \in 0 .. MaxSeatCalls /\ inFlight \in 0 .. MaxInFlight
          /\ Len(results) <= MaxInFlight
      BY <1>1, <2>2 DEF SeatInit
    <3>2. callAt \in [SeatCalls -> {"none", "running", "answered", "queued", "delivered", "lost"}]
      BY DEF SeatInit
    <3>3. /\ reader \in {"read", "refuse", "closing", "ended"}
          /\ writer \in {"select", "write", "closing", "ended"}
          /\ done \in BOOLEAN /\ ctx \in BOOLEAN /\ registered \in BOOLEAN
          /\ peer \in {"drains", "stalls", "gone"}
          /\ server \in {"up", "cancelled", "waits", "closed"}
      BY DEF SeatInit
    <3>4. QED
      BY <2>2, <3>1, <3>2, <3>3 DEF SeatTypeOK
  <2>4. Cardinality(UnderWay) = 0
    BY <2>1, FS_EmptySet
  <2>5. \A i \in 1 .. Len(results) : FALSE
    BY <2>2
  <2>6. QED
    BY <2>3, <2>4, <2>5 DEF SeatInit, SeatInv
<1>4. ASSUME SeatInv, [SeatNext]_seatVars PROVE SeatInv'
  <2>1. /\ results \in Seq(SeatCalls) /\ Len(results) \in Nat
        /\ \A i \in 1 .. Len(results) : results[i] \in SeatCalls
    BY <1>4, LenProperties, ElementOfSeq DEF SeatInv, SeatTypeOK
  \* A step that neither moves a call nor touches what is queued.
  <2>2. ASSUME UNCHANGED <<refused, frame, callAt, inFlight, results>>,
               reader' \in {"read", "refuse", "closing", "ended"}, reader' = "refuse" <=> reader = "refuse",
               writer' \in {"select", "write", "closing", "ended"},
               done' \in BOOLEAN, ctx' \in BOOLEAN, registered' \in BOOLEAN,
               peer' \in {"drains", "stalls", "gone"}, server' \in {"up", "cancelled", "waits", "closed"}
        PROVE  SeatInv'
    BY <1>4, <2>2 DEF SeatInv, SeatTypeOK, UnderWay
  \* A result that is queued, or that nobody will read.
  <2>3. ASSUME NEW c \in SeatCalls, callAt[c] = "answered", enqueueResult(c),
               UNCHANGED <<frame, done, ctx, peer, registered, server, writer>>,
               reader' \in {"read", "refuse"} \cup {reader}, reader' = "refuse" <=> refused' # 0,
               refused' \in {0, refused}, refused' # c,
               inFlight' \in 0 .. MaxInFlight, inFlight' = Cardinality(UnderWay')
        PROVE  SeatInv'
    <3>1. /\ callAt' \in [SeatCalls -> {"none", "running", "answered", "queued", "delivered", "lost"}]
          /\ \A b \in SeatCalls : b # c => callAt'[b] = callAt[b]
      BY <1>4, <2>3 DEF SeatInv, SeatTypeOK, enqueueResult
    <3>2. /\ results' \in Seq(SeatCalls) /\ Len(results') <= MaxInFlight
          /\ \A i \in 1 .. Len(results') : callAt'[results'[i]] = "queued" /\ results'[i] # frame
          /\ \A i, j \in 1 .. Len(results') : results'[i] = results'[j] => i = j
      <4>1. CASE Len(results) < MaxInFlight /\ results' = Append(results, c) /\ callAt' = [callAt EXCEPT ![c] = "queued"]
        <5>1. /\ results' \in Seq(SeatCalls) /\ Len(results') = Len(results) + 1
              /\ \A i \in 1 .. Len(results) : results'[i] = results[i]
              /\ results'[Len(results) + 1] = c
          BY <2>1, <2>3, <4>1, AppendProperties
        <5>2. callAt'[c] = "queued" /\ \A i \in 1 .. Len(results) : results[i] # c
          BY <1>4, <2>1, <2>3, <4>1 DEF SeatInv, SeatTypeOK
        <5>3. c # frame
          BY <1>4, <1>1, <2>3 DEF SeatInv
        <5>4. \A i \in 1 .. Len(results') : \/ i \in 1 .. Len(results) /\ results'[i] = results[i]
                                            \/ i = Len(results) + 1 /\ results'[i] = c
          BY <2>1, <5>1
        <5>5. QED
          BY <1>1, <1>4, <2>1, <3>1, <4>1, <5>1, <5>2, <5>3, <5>4 DEF SeatInv
      <4>2. CASE results' = results /\ callAt' = [callAt EXCEPT ![c] = "lost"]
        BY <1>4, <2>1, <2>3, <4>2 DEF SeatInv, SeatTypeOK
      <4>3. QED
        BY <2>3, <4>1, <4>2 DEF enqueueResult
    <3>3. refused' # 0 => callAt'[refused'] = "answered"
      BY <1>4, <1>1, <2>3, <3>1 DEF SeatInv, SeatTypeOK, SeatCalls
    <3>4. frame' # 0 => callAt'[frame'] = "queued"
      BY <1>4, <2>3, <3>1 DEF SeatInv, SeatTypeOK, SeatCalls
    <3>5. SeatTypeOK'
      <4>1. SeatTypeOK
        BY <1>4 DEF SeatInv
      <4>2. reader' \in {"read", "refuse", "closing", "ended"} /\ refused' \in 0 .. MaxSeatCalls
        BY <1>1, <2>3, <4>1 DEF SeatTypeOK
      <4>3. QED
        BY <2>3, <3>1, <3>2, <4>1, <4>2 DEF SeatTypeOK
    <3>6. QED
      BY <2>3, <3>2, <3>3, <3>4, <3>5 DEF SeatInv
  <2>4. ASSUME NEW c \in SeatCalls, startCall(c) PROVE SeatInv'
    <3>1. /\ callAt[c] = "none" /\ refused = 0 /\ c # 0 /\ reader = "read"
          /\ UNCHANGED <<writer, frame, results, done, ctx, peer, registered, server>>
      BY <1>1, <1>4, <2>4 DEF startCall, Reading, SeatInv
    <3>2. PICK at \in {"answered", "running"} : callAt' = [callAt EXCEPT ![c] = at]
      BY <2>4 DEF startCall
    <3>3. /\ callAt' \in [SeatCalls -> {"none", "running", "answered", "queued", "delivered", "lost"}]
          /\ callAt'[c] = at /\ \A b \in SeatCalls : b # c => callAt'[b] = callAt[b]
      BY <1>4, <3>2 DEF SeatInv, SeatTypeOK
    <3>4. /\ \A i \in 1 .. Len(results) : results[i] # c
          /\ frame # 0 => frame \in SeatCalls /\ frame # c
      BY <1>4, <2>1, <3>1 DEF SeatInv, SeatTypeOK, SeatCalls
    <3>5. CASE /\ inFlight + 1 > MaxInFlight /\ reader' = "refuse" /\ refused' = c
               /\ callAt' = [callAt EXCEPT ![c] = "answered"] /\ inFlight' = inFlight
      <4>1. UnderWay' = UnderWay
        BY <1>1, <3>1, <3>3, <3>5 DEF UnderWay
      <4>2. SeatTypeOK'
        BY <1>1, <1>4, <3>1, <3>3, <3>5 DEF SeatInv, SeatTypeOK
      <4>3. callAt'[c] = "answered"
        BY <1>4, <3>5 DEF SeatInv, SeatTypeOK
      <4>4. QED
        BY <1>4, <2>1, <3>1, <3>3, <3>4, <3>5, <4>1, <4>2, <4>3 DEF SeatInv
    <3>6. CASE /\ ~ (inFlight + 1 > MaxInFlight) /\ inFlight' = inFlight + 1
               /\ callAt' = [callAt EXCEPT ![c] = "running"] /\ UNCHANGED <<reader, refused>>
      <4>1. UnderWay' = UnderWay \cup {c} /\ c \notin UnderWay
        BY <1>4, <3>1, <3>3, <3>6 DEF UnderWay, SeatInv, SeatTypeOK
      <4>2. inFlight' = Cardinality(UnderWay')
        BY <1>2, <1>4, <3>6, <4>1, FS_AddElement DEF SeatInv
      <4>3. SeatTypeOK'
        BY <1>1, <1>4, <3>1, <3>3, <3>6 DEF SeatInv, SeatTypeOK
      <4>4. QED
        BY <1>4, <2>1, <3>1, <3>3, <3>4, <3>6, <4>2, <4>3 DEF SeatInv
    <3>7. QED
      BY <2>4, <3>5, <3>6 DEF startCall
  <2>5. CASE Refuse
    <3>1. /\ refused \in SeatCalls /\ callAt[refused] = "answered" /\ enqueueResult(refused)
          /\ reader' = "read" /\ refused' = 0
          /\ UNCHANGED <<writer, frame, inFlight, done, ctx, peer, registered, server>>
      BY <1>4, <2>5 DEF Refuse, SeatInv, SeatTypeOK, SeatCalls
    <3>2. callAt'[refused] \in {"queued", "lost"} /\ \A b \in SeatCalls : b # refused => callAt'[b] = callAt[b]
      BY <1>4, <3>1 DEF SeatInv, SeatTypeOK, enqueueResult
    <3>3. UnderWay' = UnderWay
      BY <1>1, <3>1, <3>2 DEF UnderWay
    <3>4. inFlight' \in 0 .. MaxInFlight /\ inFlight' = Cardinality(UnderWay')
      BY <1>4, <3>1, <3>3 DEF SeatInv, SeatTypeOK
    <3>5. refused' # refused
      BY <1>1, <3>1
    <3>6. QED
      BY <2>3, <3>1, <3>4, <3>5
  <2>6. ASSUME NEW c \in SeatCalls, Answer(c) PROVE SeatInv'
    <3>1. /\ callAt[c] = "running" /\ callAt' = [callAt EXCEPT ![c] = "answered"]
          /\ UNCHANGED <<reader, refused, writer, frame, inFlight, results, done, ctx, peer, registered, server>>
      BY <2>6 DEF Answer, seatEnds
    <3>2. /\ callAt' \in [SeatCalls -> {"none", "running", "answered", "queued", "delivered", "lost"}]
          /\ callAt'[c] = "answered" /\ \A b \in SeatCalls : b # c => callAt'[b] = callAt[b]
      BY <1>4, <3>1 DEF SeatInv, SeatTypeOK
    <3>3. c # refused
      BY <1>1, <1>4, <3>1 DEF SeatInv
    <3>4. UnderWay' = UnderWay
      BY <3>1, <3>2, <3>3 DEF UnderWay
    <3>5. /\ \A i \in 1 .. Len(results) : results[i] # c
          /\ frame # 0 => frame \in SeatCalls /\ frame # c
      BY <1>4, <2>1, <3>1 DEF SeatInv, SeatTypeOK, SeatCalls
    <3>6. SeatTypeOK'
      BY <1>4, <3>1, <3>2 DEF SeatInv, SeatTypeOK
    <3>7. refused' # 0 => callAt'[refused'] = "answered"
      BY <1>4, <3>1, <3>2, <3>3 DEF SeatInv, SeatTypeOK, SeatCalls
    <3>8. QED
      BY <1>4, <2>1, <3>1, <3>2, <3>4, <3>5, <3>6, <3>7 DEF SeatInv
  <2>7. ASSUME NEW c \in SeatCalls, Enqueue(c) PROVE SeatInv'
    <3>1. /\ callAt[c] = "answered" /\ c # refused /\ enqueueResult(c) /\ inFlight' = inFlight - 1
          /\ UNCHANGED <<reader, refused, writer, frame, done, ctx, peer, registered, server>>
      BY <2>7 DEF Enqueue, seatEnds
    <3>2. callAt'[c] \in {"queued", "lost"} /\ \A b \in SeatCalls : b # c => callAt'[b] = callAt[b]
      BY <1>4, <3>1 DEF SeatInv, SeatTypeOK, enqueueResult
    <3>3. UnderWay' = UnderWay \ {c} /\ c \in UnderWay
      BY <3>1, <3>2 DEF UnderWay
    <3>4. Cardinality(UnderWay') = Cardinality(UnderWay) - 1 /\ Cardinality(UnderWay') \in Nat
      BY <1>2, <3>3, FS_RemoveElement, FS_CardinalityType
    <3>5. inFlight' \in 0 .. MaxInFlight /\ inFlight' = Cardinality(UnderWay')
      BY <1>1, <1>4, <3>1, <3>4 DEF SeatInv, SeatTypeOK
    <3>6. (reader' = "refuse" <=> refused' # 0) /\ refused' # c
      BY <1>4, <3>1 DEF SeatInv
    <3>7. /\ reader' \in {"read", "refuse"} \cup {reader} /\ refused' \in {0, refused}
      BY <3>1
    <3>8. QED
      BY <2>3, <3>1, <3>5, <3>6, <3>7
  <2>8. CASE WriterTakes
    <3>1. /\ writer' = "write" /\ frame' = Head(results) /\ results' = Tail(results) /\ results # <<>>
          /\ UNCHANGED <<reader, refused, callAt, inFlight, done, ctx, peer, registered, server>>
      BY <2>8 DEF WriterTakes
    <3>2. /\ results' \in Seq(SeatCalls) /\ Len(results') = Len(results) - 1 /\ Len(results) > 0
          /\ frame' = results[1] /\ \A i \in 1 .. Len(results') : results'[i] = results[i + 1]
      BY <2>1, <3>1, HeadTailProperties, EmptySeq
    <3>3. frame' \in SeatCalls /\ callAt[frame'] = "queued"
      BY <1>4, <2>1, <3>2 DEF SeatInv
    <3>4. SeatTypeOK'
      BY <1>1, <1>4, <2>1, <3>1, <3>2, <3>3 DEF SeatInv, SeatTypeOK
    <3>5. /\ \A i \in 1 .. Len(results') : callAt'[results'[i]] = "queued" /\ results'[i] # frame'
          /\ \A i, j \in 1 .. Len(results') : results'[i] = results'[j] => i = j
      <4>1. \A i \in 1 .. Len(results') : i + 1 \in 1 .. Len(results) /\ i + 1 # 1
        BY <2>1, <3>2
      <4>2. QED
        BY <1>4, <2>1, <3>1, <3>2, <4>1 DEF SeatInv
    <3>6. UnderWay' = UnderWay
      BY <3>1 DEF UnderWay
    <3>7. QED
      BY <1>4, <3>1, <3>3, <3>4, <3>5, <3>6 DEF SeatInv
  <2>9. CASE Written \/ WriteFails
    <3>1. PICK at \in {"delivered", "lost"} : callAt' = [c \in SeatCalls |-> IF c = frame THEN at ELSE callAt[c]]
      BY <2>9 DEF Written, WriteFails
    <3>2. /\ writer' \in {"select", "closing"} /\ frame' = 0
          /\ UNCHANGED <<reader, refused, inFlight, results, done, ctx, peer, registered, server>>
      BY <2>9 DEF Written, WriteFails
    <3>3. /\ callAt' \in [SeatCalls -> {"none", "running", "answered", "queued", "delivered", "lost"}]
          /\ \A b \in SeatCalls : b # frame => callAt'[b] = callAt[b]
          /\ frame \in SeatCalls => callAt'[frame] = at /\ callAt[frame] = "queued"
      BY <1>1, <1>4, <3>1 DEF SeatInv, SeatTypeOK
    <3>4. UnderWay' = UnderWay
      BY <3>2, <3>3 DEF UnderWay
    <3>5. SeatTypeOK'
      BY <1>1, <1>4, <3>2, <3>3 DEF SeatInv, SeatTypeOK
    <3>6. refused' # 0 => callAt'[refused'] = "answered"
      BY <1>4, <3>2, <3>3 DEF SeatInv, SeatTypeOK, SeatCalls
    <3>7. \A i \in 1 .. Len(results') : callAt'[results'[i]] = "queued" /\ results'[i] # frame'
      BY <1>1, <1>4, <2>1, <3>2, <3>3 DEF SeatInv
    <3>8. QED
      BY <1>4, <3>2, <3>4, <3>5, <3>6, <3>7 DEF SeatInv
  <2>10. CASE ReadFails \/ ReaderCloses \/ WriterStops \/ WriterCloses \/ Register \/ Unregister
    <3>1. /\ UNCHANGED <<refused, frame, callAt, inFlight, results>>
          /\ reader' \in {"read", "refuse", "closing", "ended"} /\ (reader' = "refuse" <=> reader = "refuse")
          /\ writer' \in {"select", "write", "closing", "ended"}
          /\ done' \in BOOLEAN /\ ctx' \in BOOLEAN /\ registered' \in BOOLEAN
          /\ peer' = peer /\ server' = server
      BY <1>4, <2>10
         DEF ReadFails, ReaderCloses, WriterStops, WriterCloses, Register, Unregister, close, seatEnds, seatCalls,
             SeatInv, SeatTypeOK
    <3>2. QED
      BY <1>4, <3>1, <2>2 DEF SeatInv, SeatTypeOK
  <2>11. CASE PeerStalls \/ PeerResumes \/ ServerCancels \/ ServerCloses \/ ServerClosed \/ UNCHANGED seatVars
    <3>1. /\ UNCHANGED <<refused, frame, callAt, inFlight, results>>
          /\ reader' = reader /\ writer' = writer /\ registered' = registered
          /\ done' \in BOOLEAN /\ ctx' \in BOOLEAN
          /\ peer' \in {"drains", "stalls", "gone"} /\ server' \in {"up", "cancelled", "waits", "closed"}
      BY <1>4, <2>11
         DEF PeerStalls, PeerResumes, ServerCancels, ServerCloses, ServerClosed, seatEnds, seatCalls, seatVars,
             SeatInv, SeatTypeOK
    <3>2. QED
      BY <1>4, <3>1, <2>2 DEF SeatInv, SeatTypeOK
  <2>12. CASE WriterTakesOther
    BY <1>1, <1>4, <2>1, <2>12 DEF WriterTakesOther, seatCalls, SeatInv, SeatTypeOK, UnderWay
  <2>13. QED
    BY <1>4, <2>4, <2>5, <2>6, <2>7, <2>8, <2>9, <2>10, <2>11, <2>12 DEF SeatNext, SeatSteps
<1>5. QED
  <2>1. SeatInv => SeatTypeOK /\ inFlight = Cardinality(UnderWay)
    BY DEF SeatInv
  <2>2. QED
    BY <1>3, <1>4, <2>1, PTL DEF SeatSpec

-----------------------------------------------------------------------------
(* MCSeats.                                                                *)

\* Whichever of the four parts moves, every one is in a state of its type: a step is one of
\* one part and leaves the others alone, so a behaviour of all is a behaviour of each
\* (app.go, session.go, app_remote.go), for any number of seats, calls and listeners.
THEOREM TypesHold == Spec => []TypesOK
<1>1. Spec => MuteSpec
  <2>1. Init => MuteInit
    BY DEF Init
  <2>2. [Next]_seatsVars => [MuteNext]_muteVars
    BY DEF Next, seatsVars, MuteMoves, FeedMoves, SeatMoves, ServerMoves
  <2>3. QED
    BY <2>1, <2>2, PTL DEF Spec, Fairness, MuteSpec
<1>2. Spec => FeedSpec
  <2>1. Init => FeedInit
    BY DEF Init
  <2>2. [Next]_seatsVars => [FeedNext]_feedVars
    BY DEF Next, seatsVars, MuteMoves, FeedMoves, SeatMoves, ServerMoves
  <2>3. QED
    BY <2>1, <2>2, PTL DEF Spec, FeedSpec
<1>3. Spec => SeatSpec
  <2>1. Init => SeatInit
    BY DEF Init
  <2>2. [Next]_seatsVars => [SeatNext]_seatVars
    BY DEF Next, seatsVars, MuteMoves, FeedMoves, SeatMoves, ServerMoves
  <2>3. QED
    BY <2>1, <2>2, PTL DEF Spec, Fairness, SeatSpec
<1>4. Spec => SrvSpec
  <2>1. Init => SrvInit
    BY DEF Init
  <2>2. [Next]_seatsVars => [SrvNext]_srvVars
    BY DEF Next, seatsVars, MuteMoves, FeedMoves, SeatMoves, ServerMoves
  <2>3. QED
    BY <2>1, <2>2, PTL DEF Spec, Fairness, SrvSpec
<1>5. QED
  BY <1>1, <1>2, <1>3, <1>4, TheLastPressWins, EveryGapIsSeen, TheCapIsKept, NoListenerIsOrphaned, PTL
     DEF TypesOK
=============================================================================
