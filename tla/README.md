# WSL Comms in TLA+

WSL Comms is a desktop program for sports commentators.  It captures a camera
and a microphone, encodes them in a GStreamer pipeline, sends the result over
SRT to one or two inputs of a video switcher (M2L-X), plays the switcher's
return in the commentator's headphones and its picture in a second window,
watches the switcher's status over a web socket, corrects the routing of the
switcher's audio mixer over another, lets other browsers on the network operate
it, and shows what it is doing as a row of lamps.  It has to survive a match:
peers disappear, devices are unplugged, operators press buttons twice, and none
of it may take the commentary off air or leave a lamp telling a lie.

This directory models the parts of the program whose correctness depends on the
order in which several goroutines act, checks them with TLC on small instances,
and proves the most important of what is checked for every instance with TLAPS.

    tlc -workers 2 -config SenderStop.cfg MCSender
    tlapm SenderProofs.tla

## 1. Inventory

What the program consists of, the state each part keeps, and what would make it
wrong.  `PROJECT.json` lists the same parts with their files under `components`,
with what of each is modelled, and under `hazards` the places, by line, where the
order of things matters.

### Sending (`internal/sender`, `internal/gst`, `app.go`)

| Part | State | Operations | Hard because | Correct if |
|---|---|---|---|---|
| Sender | per output: where its loop stands, its error channel, its rung of the backoff ladder; `quit`, the two state channels | `Start`, `Stop`, one `loop` per output, `watchErrors`, `run` | loops share a pipeline and its mutex; errors cross two bounded channels; `Stop` may come anywhere | a connection ends only for its own loss; losses are noticed; dialling never gives up; `Stop` ends everything |
| Send pipeline | sink slots by name, the mutex, the fatal latch, the error channel | `ReplaceSinkOn`, `RemoveSinkOn`, `ForceKeyUnit`, `Stop`, the bus handler | a handshake of up to ten seconds under the mutex; the bus posts from streaming threads | an error is attributed to the sink that raised it; only what no new sink can repair is fatal |
| Session lifecycle | session, capture set, selection, configuration under `sessMu`, `capMu`, `cfgMu` | `Start`, `Stop`, `RestartCapture`, `SaveConfig`, `SetVideoSource`, `SelectCommentaryInput`, launch, shutdown | locks taken one under another, flags read under one and used after, a session that ends by itself, steps that overrun | the feed is never cut; no pipeline out of reach; nothing waits for ever |
| Capture pipelines | the open devices, the failed legs, the claim of the sender | open, fault, stop | faults arrive while the set is being replaced; a second pipeline may fail after the first holds the card | one holder of the card; refused while fed from |
| Commentary mute | the mute element, its record, holder and stamp | press by any seat, rebuild, reconcile, poll | two seats, keys out of order, a seat that goes, a capture that is replaced | the last press wins; nobody stays silent |

### Coming back (`internal/gst`, `app_return.go`, `monitor_*.go`)

| Part | State | Operations | Hard because | Correct if |
|---|---|---|---|---|
| Return monitor | the session, its loop, its pipeline, its state channel, what the forwarder counts | `StartReturn`, `StopReturn`, redial, the pipeline's threads, the diagnosis | several addresses over one pipeline; a forwarder behind its loop; a stop while states wait | one receiver; an attempt judged by its own signals; the lamp says STOPPED |
| Picture | the same, an overlay, a rectangle, a wish, the parser last learnt | `StartPicture`, `StopPicture`, `SetPictureRect`, redial, teardown | three goroutines place one window, which may be closed | the overlay follows the state; the sink has its window |
| Picture feed | a queue, the catch-up, the cache of parameter sets | one probe per access unit | units are dropped with what they carry | what it costs is bounded; the decoder can go on |
| Second window | the launch counter and what is said of the window, per launch its child, its pipe with a writer and a reader | launch, restart, `openMonitor`, relaunch after a crash, `Host.Stop` and `Kill`, the shutdown | a child that may crash, freeze or be slow to leave; a stop in three stages while a follower waits; a launch that supersedes one still starting | one window, the last launch's; a window that is to go does |
| Preview, page | views | | | |

### The switcher (`internal/m2lx`, `internal/mixer`, `app_mixer.go`, `app.go`)

| Part | State | Operations | Hard because | Correct if |
|---|---|---|---|---|
| Status watcher | socket and readers, mirrored document, debouncer, standing key report | one loop: tick, frame, error | dials inside the loop; late readers; a debouncer that outlives connections; a gate that saves events | a lamp shows what was confirmed, no sooner, never held when nothing is heard, and catches up |
| Control plane, REST client, key discovery | a generation of sign-in, token refresh, watcher and search under `ctlMu` | replaced by a save, a password, a preset, the shutdown | each of its goroutines may be in a request when it is cancelled | one generation speaks; in the end it is the one of the configuration shown |
| Mixer write path | the gate's deadline, connection, ready channel, write mutex | `Arm`, `Disarm`, `Send`, `Close`, supervisor | a batch lasts across reconnects; `Close` meets a dial | batches are whole, reports honest, `Close` leaves nothing |
| Arm ownership | controller, the seat that armed it | arm, disarm, send by seat; preset; teardown | `mixMu` is held across a dial; flags are read before it | one controller, in reach while published |
| Mixer drawer, mixer state | the desk itself, the page's snapshot of it, the click under way; Go keeps nothing of the desk | open, poll, read a frame, click a crosspoint, send | a write replaces a strip's whole set of buses; readings overlap and age while the desk and other seats move; a frame may lack any field | a click changes the one crosspoint that was clicked; nothing shown is a false claim of safety; what is sent means the same to the desk |

### The other seats (`internal/remote`, `app_remote.go`)

| Part | State | Operations | Hard because | Correct if |
|---|---|---|---|---|
| Event pump and tee | two bounded queues in a row | send, hand over to a seat | drop-oldest, twice, with several producers | a seat can tell that it missed something |
| A seat's session | reader, writer, calls, results | call, refuse, answer, close | backpressure, a cap, either end may go first | every call is answered or the session is over, entirely |
| Listener | a server per generation | bind, publish, restart, stop | binding is on a goroutine that a restart may supersede | none is left bound; the stop returns |

### What is set up before a show (`internal/config`, `internal/presets`, `app_presets.go`, `app.go`, `internal/gst`)

| Part | State | Operations | Hard because | Correct if |
|---|---|---|---|---|
| Configuration and presets | `config.json`, `App.cfg`, the preset files, `active.json`, the credential scope and the stored passwords | save, apply, save as, rename, delete, a password, launch with its seven built-in presets | each call is several writes, of which any may fail or be the last before a crash; two seats' calls cross | what is shown is what the next launch loads; what only a preset names is never in force; passwords go with their preset only |
| Settings and formats | none: what the saved fields mean | pre-flight, ladder of the build, START and its dials, return, picture, two parsers and two ways to show a rate | one question asked in several places, each in its own words | what is accepted can be dialled, opened, and is shown as it is |
| Channel routing | per capture its matrix and width, the record shown to pages | `SetChannelMap`, `GetChannelMap`, the width off the pad, rebuild, replay | the width comes by itself, over captures that are stopped and built anew | every page shows what is in force; no matrix of another width is written |
| Secrets' store, log, device lists, tools | files | | | sequential |

How they interact: `App` owns everything and calls down; below it nothing calls
up except through channels and callbacks (`Sender.States`, `OutputStates`,
`OnConnectError`, the watcher's `Status` channel, the monitors' states, capture
faults), which goroutines of `App` turn into events for the page and the remote
seats.

## 2. Modules

| Module | Models | State | Actions |
|---|---|---|---|
| `SendPipeline` | of `gst_cgo.go` and `capturefault.go` what the sender meets | `mu` the mutex, `sink` each slot, `fatal` the latch, `perrs` the error channel | the driver's calls, in two steps where a handshake separates them, and the bus handler |
| `Sender` | `machine.go`, over `SendPipeline` | `pc`, `res`, `errs`, `attempt`, `lamp` per loop; `hand`, `watcher`, `quit`, `run`, `stop` | one per stretch of a loop between two points where another goroutine can act |
| `SenderSpec` | what `sender.go` promises of lamps and sockets | `life`, `lamp`, `socket` | the moves a lamp may make |
| `StateStream` | `emitOutput` and the channels' readers, over `SenderSpec` | the two channels, each writer's stage, what the reader saw | the two selects of each drop-oldest send, separately |
| `CaptureSession` | `app.go`: sessions, capture set, their callers and the shutdown; of `capture.go`, `capture_cgo.go`, `sendseam.go` what they meet | `sessMu`, `capMu`, `session`, `capSet`, `cfg`, `disk`; `pipe` every capture pipeline built; `call` where each caller stands | a bound method from lock to lock: `CallX` enters, `Rebuild`, `Down`, `Plan`, `BuildOne`, `Adopt` are a rebuild, `StartLock`, `StartCapture`, `ClaimForSend`, `Mint` a start, `StopLock` to `StopJoins` a stop; senders that give up, reapers, fault drains; the teardown's steps |
| `CommentaryMute` | the cough mute of `app.go`, the poll of `app_remote.go` | `elem` per capture, `rec` the record, `req` every press; `listener`, who is connected to it, and per listener a `poll` with the seats it saw last | `Press`, `Enter`, `Write`, `Record`; a rebuild in four steps; `ReconcileReads`, `ReconcileRecords`; `Come`, `Leave`, `ListenerStops`, `ListenerStarts`; `PollTick`, `PollEnds`, `PollCheck`, `PollReturns` |
| `EventFeed` | `eventPump` and a seat's event queue | the two queues, what each page shows, the frame numbers | each select of the two drop-oldest sends |
| `RemoteSession` | `internal/remote/session.go`, `Server.Close` | reader, writer, each call, `results`, `done`, the peer | the two pumps and the calls, between channel operations |
| `RemoteServer` | the listener's generations in `app_remote.go` | `remoteMu`, `remote`, each generation, each owner | `StartRemote`, `Bind`, `Publish`, `StopRemote`, ... |
| `ReturnMonitor` | `return.go`, `return_cgo.go`, the session and forwarder of `app_return.go` | `loop`, `retPipe`, `try` (which address), `errs`, `ready`, `states`, `reason`, `retFwd`, `lamp` | the loop's stages, one action per address; bus, pad; `Forward` and `Speak`; the calls |
| `PictureMonitor` | `picture.go`, `picture_cgo.go`, `monitor_picture.go`, teardown of `monitor_app.go` | the same, `surface`, `rect`, `want`, `learned`, `codec` | the same, with the view's calls and a window that may go |
| `PictureFeed` | `catchup.go`, `h265reinject.go` and their installation | `picq`, `dropping`, `cache`; the parser's and the decoder's knowledge | `Arrive`, `Leave`; `insertAt` and `Held` say where sets go into an access unit and what the parser then holds |
| `StatusSocket` | `statusSocket` of `watcher.go` | the connection, its reader, the ladder | dial, accept, fail, discard, read |
| `StatusWatcher` | `watcher.run`, `debounce.go`, our node of `document.go`, over `StatusSocket` | times as ages, document, debouncer, key report, what the consumer sees | `Tick` and `DialReturns` (a tick is in two when it dials), `Frame`, errors, time |
| `ControlPlane` | `startControlPlane` and what it starts, `client.go`, the search | `ctlMu`, `plane`, `madeFrom`, per generation `signIn`, `refresh`, `watching`; `search` | edits, `ReadConfig`, `LockControl`, `CloseClient`, `JoinPlane`, `BuildPlane`; each goroutine's steps |
| `MixerController` | `controller.go` | see its VARIABLES | one per step of `Send`, `supervise` and `Close` |
| `MixerArm` | `app_mixer.go`, `ApplyPreset`, `teardownOrdered` | `mixCtl`, `mixArmedBy`, `mixMu` and where each caller stands | lock, dial, publish, take, disarm, close |
| `SecondWindow` | `app_monitor.go`, `monitorlink/link.go`, of `monitor_app.go` and `monitor_main.go` what the other end sees | `gen`, `run` where each launch stands, `host` its pipe, `child`, `act` what each caller of `Stop` and `Kill` is at | launch, start, ready, exit, relaunch; the writer, the reader; `Stop` and `Kill` from one blocking point to the next; the child |
| `Presets` | `app_presets.go`, `presets.go`, `fields.go`, `app_builtin_presets.go`, of `app.go` saving and launching | `disk`, `memory`, `files`, `active`, `scope`, `vault`; `call` the step each user's call is at | each call's look and its writes, in the code's order; a write that fails, a crash, a launch |
| `VideoFormat` | `videoformat.go`, the conform target of `gst.go` | none: functions of a format | |
| `Settings` | `config.go`, the pre-flight and capture build, `NewCapture`'s and the dials' refusals, over `VideoFormat` | a configuration on a machine, and what came of each question asked of it | `RebuildCapture`, `Start`, `DialSinks`, `SaveOverride`, `StartReturn`, `StartPicture` |
| `ChannelMap` | `channelmap.go`, of `capture_cgo.go` the matrix and the width, of `app.go` their record | `captures` with matrix and width, `cache` the record, `grid` what each page shows, `routing` each page's call | the calls and the width's way to the pages, between locks; a rebuild in its steps |
| `MixerState` | `state.go`: what a frame is read as, and which warnings are critical | none: functions of a frame | |
| `MixerDesk` | `app_mixer.go` and the desk at the far end: what a status connection yields, how commands are decoded, checked and applied | `device` the desk, `sent` | the desk moves, a seat's batch is sent |
| `MixerDrawer` | the page's `drawer.js`, `model.js`, `mixerhost.js`, over `MixerDesk` | `open`, `unlocked`, `fresh`, `shown` the screen, `reads` the opening's and the poll's readings, `click` the gesture | open, close, lock, poll; a reading is asked for, taken at the desk and returned; a click begins, reads, plans, and sends or fails |

The proofs are in `SenderProofs` and `SenderRefinement` (with the channels), `MixerProofs`,
`DeskProofs` (arming, control plane, mixer drawer, second window), `SessionProofs`
(sessions and captures, return, picture), `SeatProofs` (mute, events, a seat's calls,
listener, and the types of all of them), `StatusProofs` and `SetupProofs`.  Mutants, the
definitions marked so, are the small errors one could make in the definition after
them; each property is there because one of them breaks it, and nothing else uses
them.

`MCSender`, `MCMixer`, `MCStatusWatcher` only give names to constants.  The other
MC modules explore several components in one run, one at a time: a variable `part`
is chosen at the start and says which of them moves, the rest stay as they began.
That is a disjoint union of the models, not a product.  The components joined so
have a subject in common and no state: `MCSenderLive` the loops and the channels
behind them, `MCDesk` what the operator's desk of the application decides about (parts
`arm`, `control`, `mixer`, `window`),
`MCSessions` what goes out and what comes back, `MCSeats` what the desk shares with
the other seats, `MCSetup` what is set up before a show (parts `presets`, `settings`,
`routing`).

What is truly composed: `Sender` is over `SendPipeline`, `StatusWatcher` over
`StatusSocket`, and `SenderSpec` links two details that are never explored
together.  `Sender` implements it (run `sender_stop`, theorem `Refinement`), so a
lamp's moves are known; `StateStream` then asks how any sequence of such moves gets
through two bounded channels, without the pipeline's state.  `CaptureSession` meets
the sender only as "running" or "ended", which is what `SenderSpec` leaves to be
seen from there.

### How the model reads the code

A step of a model ends where another goroutine can intervene: at a channel
operation, a lock, a blocking call.  Code between two such points is one action.
The exceptions, each on the side of more behaviours or argued for:

* **Sender.** `TimerFires` waits until the watcher has routed what concerns the
  loop's output (`Settled`): the shortest rung is seven seconds, and a hand-over
  takes none.  Without it an error could be read twice seven seconds late, which
  the code does not exclude but no scheduler does.  A sink posts only while a
  slot bears its name.  A callback and a log line are not steps.
* **Send pipeline.** `mu` is one mutex for both outputs, held during a handshake,
  as in the code: one output's handshake delays the other's `RemoveSinkOn`.
  What fails of itself (encoder, capture, clock) is `LatchFatal`.
* **Capture and session.** A pipeline is what the rest of the program sees of it:
  whether it plays, which legs it has and which of them failed, whether it is
  claimed.  A device, the disk, a preflight or a sender fails at any time, as often
  as `Budgets` says.  A step of the teardown that overruns its budget goes on as
  the caller it is, beside the later steps.  `Start` goes on with a copy of the set
  that it has read under `capMu` and claims the pipelines of that copy one by one,
  without the lock: a shutdown may have emptied the capture behind it, and then a claim
  may succeed on a stopped pipeline, which arming refuses.  Three things are one step
  each: arming and binding all the pipelines of a copy (what makes a claimed one
  unarmable does not pass, so that one look, at the last, refuses what theirs would); the
  stop of a set's two pipelines; and the release of a seam's claims.  Meters and the
  signal watch are left out; the channel map is `ChannelMap`.
* **Mute.** Stamps are read off one clock: of two seats whose clocks differ
  `LastPressWins` says nothing, and the window after which a stamp no longer counts
  is in the code for their sake.  Of that window only whether it has passed remains.
  The element takes what it is set to.  A poll belongs to a listener: when that is
  restarted or switched off all its seats are dropped and its poll ends, though it may
  tick once more before it sees that; the next one's poll has seen nobody.
* **Presets.** Of the configuration there is one field of each class of `fields.go`, and
  `videoSource`, which travels when it is "none".  A call looks once and then writes step
  by step, each step one file, pointer or store; a step of another call in between makes
  it `stale`, and what it then does is `mixed`.  Whatever is `mixed` the properties
  excuse: two operators who save at once, of whom the code lets the last write win.  The
  seven built-in presets are one.  Files are written whole or not at all, which is what
  `writeFileAtomic` is for.
* **Settings.** A host is what is written around a name: a scheme, a port.  A device is an
  identifier of a kind, on a machine that has it or has not, or has it in use.  A
  number is in its range or out of it.  A frame rate is a number of thousandths, with a
  decimal point or without, since the parser treats "50" and "50.0" apart.
* **Channel routing.** A gain is one of four, the limit and one beyond among them.  A page
  is told in the order of the events; what may come out of order is `EventFeed`'s
  subject.  Whoever acts on what changed since he read it is `crossed`, which
  the property excuses: such orders exist, and are noted below.
* **Events.** An event is its kind and a version.  A producer sends one at a time,
  which is what each goroutine of `App` does.
* **A seat's session.** The peer drains, stalls or is gone; a write to one that
  stalls ends by its deadline.  Sockets carry whole frames.
* **Listener.** Binding and certificates succeed or fail; what is served is left
  out.
* **Return and picture.** Back-off has any length.  An error is named by the address
  that it is about.  A pipeline that will not go to NULL is left behind, as the code
  does.  Where the code's `select` finds two channels ready either is taken.
* **Picture feed.** An access unit is its NAL units, each with the first byte of its
  header, so that the arithmetic of both codecs is the code's (`NalType`); slices
  carry the version of the parameter sets they need.  The parser may forget its sets
  at any time, which is what the re-injection is there for.
* **Control plane.** A request returns at any time, also after its context was
  cancelled.  What the watcher does between start and end is `StatusWatcher`.
* **Mixer.** The deadline of the gate passes by an action, at any moment.
  `Spare` is how many of the `MaxDials` connections the network leaves alone, so
  that the bound on dials cannot hold a `Send` up for ever.  A link that is
  "lost" looks fine until written to or until keep-alive finds it.
* **Second window.** What travels over the pipe is only counted, up to the depth of the
  queue and of the pipe, which fills when the child stops reading.  Reading a line and
  acting on it is one step.  A child may crash or freeze at any time, as often as
  `WinBudgets` says.
* **Mixer state.** JSON is a function from the fields of a strip to a value, `Absent`,
  `Null` or `Odd` (of a type the code does not expect); one field is lost at a time.
  Levels are not told apart.
* **Mixer drawer.** A reading is three steps: asked for, taken at the desk on a status
  connection of its own, returned to the page.  A click's reading is shown and planned from
  in one turn of the page.  `fresh` may pass at any time.  A click begun before a lock goes
  on if it is unlocked again before the write.  Filters, row hiding, the notices and the
  wait for the mixer to report a change back are left out, for they decide nothing about
  what is written.
* **Arm.** Of the controller there remain its desk, its window and whether it is
  shut; a seat makes one call of each kind at a time.
* **Status watcher.** Time is a tick of one second.  The loop is in its select or
  in a dial; what the select has ready is handled within the second (`Idle`).
  The consumer always receives.  A token outlives its connection's first frame.
  Of all nodes one is ours; a node listed without a `stream_state` counts as
  absent; formats are left out.  Cancellation is not modelled.

## 3. Runs

| Run | Models | Asks |
|---|---|---|
| `sender_stop` | `Sender` | Can a connection be ended by somebody else's error, or by an old one?  Can `Stop` return, or the session end itself unreported, with something left running?  Does `Stop` always return?  Do the loops implement `SenderSpec`? |
| `sender_live` | `Sender`, `StateStream` | Is a lost peer always noticed and a failed pipeline always the end, though errors are dropped on the way?  Is the newest state kept and no loop starved, with a reader that may stop? |
| `sender_second` | `Sender` | Finding: losing the second output's peer can condemn the pipeline. |
| `sessions` | `CaptureSession`, `ReturnMonitor`, `PictureMonitor`, `PictureFeed` | Is the feed ever cut at the seam, a device out of reach, a feed unknown to `Stop`, an exit unclean, are calls waiting for each other?  Can two receivers hold one endpoint, an address be judged by another's error, a lamp be painted after the stop?  Does the overlay follow the state, the sink have its window?  What does a catch-up cost, and can the decoder go on? |
| `catchup_h264` | `PictureFeed` | Finding: on an H.264 return the catch-up never ends. |
| `seats` | `CommentaryMute`, `EventFeed`, `RemoteSession`, `RemoteServer` | Does the last press win, is a gone seat's mute released?  Can a seat tell that it missed an event?  Is every call answered, and is nothing left of a dead session?  Is a listener left bound, and does its stop return? |
| `mute_gone` | `CommentaryMute` | Finding: a call in flight when its seat goes holds the mute for good. |
| `status_watch` | `StatusWatcher` | Does a lamp show what was confirmed and nothing sooner, go grey in silence, light up again, and catch up?  Is a connection closed only for a reason of its own? |
| `mixer` | `MixerController` | Are batches whole and reports honest?  What does `Close` leave?  Do `Close`, always, and `Send`, if the mixer comes back, return? |
| `desk` | `MixerArm`, `ControlPlane`, `MixerDrawer` over `MixerDesk` and `MixerState`, `SecondWindow` | Is there one controller, in somebody's reach?  One control plane that speaks, in the end of the configuration shown?  Does a click change the one crosspoint that was clicked, whatever the screen, the desk and a frame that lacks a field do in between, and is what is sent what is meant?  Is there one window at most, and does one that is to go, go? |
| `setup` | `Presets`, `Settings` over `VideoFormat`, `ChannelMap` | Is what is shown what is saved, through failed writes and crashes?  Does what does not travel stay out, do passwords go with their preset only?  Is what is accepted dialled, opened and shown as it is?  Do all pages show the routing in force? |
| `arm_preset` | `MixerArm` | Finding: a preset may leave a window open on the previous desk. |

A property is stated, with the code it is about, in the comment before its
definition.

### Bounds

Each cfg says what it bounds.  Why they are enough:

* Two outputs are what the pipeline has.  A channel's real depth (16, 32) only
  delays the moment it is full; the runs use one to five, so that it fills at
  once.  `sender_live` gives the pipeline's channel room for the five errors that
  can be posted between two dials.  That is a premise of `FailuresAreNoticed` (half of
  `NothingIsHeldUp`), not a convenience: with room for one, TLC finds the error of one
  output dropped
  behind the other's, and its loop CONNECTED to a dead sink for ever.  The code's
  sixteen leave that to a watcher sixteen errors behind.  The ladder has one rung
  instead of five: rungs differ only in length, which the model does not measure;
  that a lost peer waits the first of them is proved (`LostPeersWaitLeast`).
* Captures: four pipelines and three sessions let a set be replaced under a
  session, and a session end while the next starts.  `Budgets` trades calls
  against things that go wrong, down to a launch at which neither the card nor
  the slate opens; three calls, and the shutdown over two, are explored
  with the card's sound only.  Two formats tell a conform target that changed from one that
  did not.
* Mute: three calls, among them a press and its release and what a poll releases, with a
  second capture to record on.  Two listeners, of which the last stays up; `MaxPresses`
  counts presses and stops of the listener together.  Queues of two with three events of
  each of two kinds
  overflow.  One call in flight of three passes the cap.  Three generations of a
  listener let a restart overtake a restart.
* Return and picture: two sessions, so that one may start behind another's stop;
  two addresses, so that one fails before the other is dialled; channels of three
  (the code's sixteen) fill.  The feed: marks of five and two (fifteen and three),
  a keyframe every four pictures (ten), a queue of seven.  `DropCap` is above every
  bound the properties speak of.
* Two batches of two commands can be interleaved, split and cut in the middle;
  four connections allow two to be lost while two are left for the Send that waits.
* Two seats, two controllers: a seat can lose the controller to another and the
  other can dial a second.  Either a preset is applied or the application is shut
  down, not both.
* Two strips, of which the desk has one to begin with, and a column for one bus: the other
  buses are those a click must leave alone.  One opening's reading, the poll's and the
  click's are three that overlap.  One click with two changes at the desk, or with one
  and something that goes wrong (a frame with a field lost, a screen that goes stale);
  or two clicks and a thing that goes wrong.
* A second window: launches, presses, crashes and freezes are traded for each other by
  `WinBudgets`, so that a relaunch may meet a restart, and a stop a frozen child with a
  full pipe.
* Three generations of the control plane are the launch's and one for each of two
  edits, of which the later may overtake the earlier.
* Presets: from each of four finds on disk two calls with one write that fails and one
  crash; from one of them three calls, which may be of three kinds.  Settings: each
  configuration is one thing, or a few, apart from one that works, on a machine with one
  microphone and two cards; the rates are the ends of every range and both sides of
  each tolerance.  Routing: two pages' calls on one capture, or one across a rebuild; a
  device whose width is known before it is opened, and one whose width is not.
* Windows of one, two and three ticks instead of 4, 15 and 30 seconds keep their
  order, on which the code relies; a longer dial than any of them is included.
* There is no state constraint: every bound is a guard in an action.

`CHECK_DEADLOCK FALSE` is there where the system really ends, or may rest.

### Fairness

* **Sender.** Weak fairness for each loop, the watcher, the run goroutine and
  the return of `Stop`: goroutines are scheduled.  Strong fairness for what needs
  the pipeline's mutex: `sync.Mutex` hands itself to a waiter that has starved
  for a millisecond.  A handshake returns, since `gst` bounds the change of state
  (`sinkStateChangeTimeout`).  A latched failure is posted by the same handler.
  Nobody has to call `Start` or `Stop`, no sink has to fail, nobody has to read.
* **StateStream.** Weak fairness for each writer, strong for its send to the
  shared channel: one that has just made room is not outrun for ever by the other
  output's loop, whose transitions are seconds apart.  None for the readers.
* **Mute.** Weak fairness for every call, the rebuild, the reconciliation and each
  poll, which runs on a ticker for as long as its listener is up.  Nobody has to press or
  to leave, and no listener has to stop or to start.
* **A seat's session.** Weak fairness for both pumps and the calls, among them that
  a write returns, for it has a deadline, and that a read from a closed or vanished
  peer does.  Strong fairness for the channel operations of `select` and of a full
  `results`, between which Go chooses at random.  The peer may stall for ever.
* **Listener.** Weak fairness for its goroutines and the shutdown; strong for
  `remoteMu`.
* **Mixer.** Weak fairness for every goroutine, strong for the lock.  `Close`
  returns under that alone.  That `Send` returns has `MixerComesBack` as its
  premise: dialling again and again succeeds, and keep-alive finds a silent
  connection.
* **Status watcher.** Time passes and the loop runs.  Strong fairness for each of
  the cases of its select, which chooses at random among those that are ready,
  for a dial's success and for the arrival of a connection's first snapshot.
  None for changes: whether the switcher pushes them is what nobody knows.

* **Presets, settings, channel routing.** None, and nothing there is a liveness property.
* **Second window.** None.  `WindowGoes` is an invariant over ENABLED: whenever a
  window is to go and has not gone, a step of those it is waiting for (`GoesOn`) can be
  taken, and each such step uses something up that is not given back.

Where one run joins several components (`part`), a component that does not move is
in its initial state, where no step of it is possible that fairness speaks of; so
the fairness of one takes nothing from the behaviours of another.

### Findings

Four places where the code does not do what a comment of it says; the runs that
expect a violation each show one, and `PROJECT.json` quotes the comment.

Seen while modelling, and kept as notes here and under `hazards` rather than as runs:

* *Mixer.* A seat whose ownership passed to another between check and write is
  admitted by the other's window.  A Send admitted while its window was open writes when
  it has closed (controller.go:1293), of which the comment at controller.go:136-140 says
  that there is no race.  The wait for the write lock is bounded by no
  context.  A connection whose read failed is never closed.
* *Sender.* A loop that waited for the mutex begins a handshake after `Stop` was
  called.  On the tagged stream the shared drop-oldest can lose the present state
  of an output.
* *Status.* A debounced state may light the lamps for a node that the switcher has
  just stopped listing.
* *Sessions.* When a capture's `Stop` fails at NULL its set is kept and LIVE is
  published.  `SetVideoSource` and `SetDeckLinkPreviewEnabled` read, change and save
  without a lock in between, so one of two such edits may be lost.  `ApplyPreset`
  looks for a session and then lets go of the lock.
* *Mute.* A rebuilt capture's mute is attributed to nobody, for
  `publishMuteForCapture` clears `muteBy`.  A press recorded after `forgetMute` is
  kept.  `releaseMuteHeldByGoneSeat` reads the holder before it calls, and may
  release a mute of the desk's.  A listener that is restarted or switched off drops its
  seats and ends its poll (app_remote.go:880); the next one's poll has seen nobody and
  returns for an empty set (855-857) before it looks at the mute: unless the old one
  ticks once more, a mute held by a seat that was dropped so stays until somebody
  presses.  If it does, it may release the mute of a seat that has come to the next
  listener.
* *Events.* The latest state of a kind can be lost, in the pump or in a seat's
  queue, behind later events of other kinds; app.go:6994-6997 and protocol.go:111-113
  say otherwise.  `GapIsSeen` is what remains true.
* *Return and picture.* `emit` drops the new state when its sixteen are full, where
  the comment has a slow consumer always see the present one in the end; the
  properties except a session that has lost one.  A `Play` that is aborted ignores
  an error of the way to NULL.
* *Control plane.* A generation may be built from a configuration that a later save
  has replaced, for it is read before `ctlMu` is taken (app.go:5439); and a preset
  that fails to be recorded as the active one (app_presets.go:376-384) leaves the
  plane of the one before.  `PlaneIsCurrent` excepts both.  A refresh whose fallback
  fails too gives the token up for as long as the generation lasts.
* *Second window.* `Host.Stop` closes the child's input only once the writer has left
  (link.go:400-404), and starts its two-stage wait only then: a child that has stopped
  reading, with the pipe full, holds it at that point, before the budget whose end
  would kill it.  `Kill` waits there as well.  A `Stop` before `Start` marks the input
  closed, so nobody closes it later.  A relaunch that was put off does not look again
  whether it has been superseded before it makes its host, and a host that the refused
  `rootGo` leaves behind is never started.
* *Mixer state.* A frame without `muted` is read as one that is not, a gain that is
  missing as 0 dB; in a command, a `muted` that is missing is false and a gain 0 dB.
  `Compare` and `LoadGolden` have no caller in the application, and the page's drift panel
  is withdrawn (drawer.js:50-58); neither is modelled.
* *Mixer drawer.* A click plans from a reading of its own, so that "no other bus was rolled
  back" (drawer.js:461-463); a bus that is moved at the desk between that reading and the
  write is rolled back all the same.  A poll's reading that was taken before a write may
  come after it, and put the older state back on the screen until the next.
* *Presets.* `saveConfigFrom` writes the file and then publishes, under different locks
  (app.go:2263): of two saves that cross, the disk may keep one and memory the other until
  the next.  A save of a remote seat that crosses the desk's puts back the microphone the
  desk had chosen away from, for the refusal compared it with what was in force before.  A
  delete that looked before a preset was applied removes the one that is now active.  A preset
  written by hand to use another's scope loses its passwords with that one.  `SavePreset`
  gives the first preset of a machine the credentials it had
  before there were presets (app_presets.go:200-206), but `seedBuiltinPresets` has
  seven on disk at each launch before it can be called (app.go:1694).  `ApplyPreset`
  emits no `EventConfig`, so a page of another seat keeps the configuration it had, and
  saves all of it with its next edit (app_remote.go:86-95).
* *Settings.* `Validate` asks neither whether the latency is negative nor whether the host
  has a name once its scheme and port are taken off; `ReplaceSinkOn` refuses both, and the
  loop dials for ever.  The pre-flight asks whether a device is there, not of which kind
  it is.  A whole rate typed with a point is refused ("60.0"), for it is near no
  n*1000/1001, or up to "5.0" taken for one.  A switcher may state a raster that no capture
  can have (odd, or beyond
  8192), for which the lamp then waits.
* *Channel routing.* A width published before its capture is adopted is lost with the
  record that adopting clears.  A `GetChannelMap` that crosses `forgetChannelMap` leaves
  the closed capture's width in the record; a `SetChannelMap` that crosses a rebuild
  records its routing over the new capture's (app.go:1190).  With a device of which no
  width is known the saved routing is shown but not written.

## 4. Proofs

For every number of outputs, sends, calls, seats, sessions, generations and
launches, every length of batch and every depth of queue and channel, from the named
assumptions on constants and nothing else.  Where a model counts what it still may do
(`Budgets`, `MaxPipes`, ...), the theorems hold for every such count.

**Sender** (`SenderProofs`, `SenderRefinement`).  `TypeCorrect` needs no
strengthening.  The rest rests on five invariants, each inductive with `TypeOK`:

* `ShutdownInv` orders the end: the pipeline is stopped only when every loop is
  done, the watcher ends only empty-handed, `Stop` returns only after both.
  `NothingLeftRunning` is a part of it.
* `ReportInv`: `quit` is closed by a caller of `Stop` or by a loop that has
  reported, and a loop that has reported is on its way out.  Hence
  `NeverStopsSilently`: reported, and no loop reports twice.
* `ErrorInv` follows an error from the bus to the loop.  An error that is fresh,
  wherever it is queued, speaks of a sink that has failed; one about no output
  means the pipeline has; a loop that is dialling or connected holds no stale
  error.  The last is what the drain before an attempt is for.
  `OnlyRealLossEndsAConnection` is the step where the loop takes one.
* `RungInv`: a loop that is connected has forgotten its failures.
* `LampInv` ties a lamp to the place of its loop.  With it, `ShutdownInv` and
  `ErrorInv`, `Refinement` maps each step of `Sender` to a step of `SenderSpec`
  or to none.

**Mixer** (`MixerProofs`).  `IInv` joins `TypeOK`; `LockInv`, that the one holder
of the write lock is the one Send between its first command and its return;
`WrittenIsWhatWasWritten`; `SuffixInv`, that what the holder has written is the
end of the wire, without which interleaving could not be excluded by induction;
and `SupInv`, that a connection able to carry a write is the one the supervisor
reads or is about to publish.  `RetiredByItsOwn` follows from it as an action
property; it is proved only, no run checks it.

**Channels of the sender** (`SenderRefinement`).  `NewestIsNeverDropped`: the last
transition of the primary output is in the channel, in its writer's hand, or has been
read, through any drop.  `ChannelInv` adds that one writer fills the channel, has made
room before its second attempt, and that the channel's newest entry is the newest
written before the one in hand.  It needs one output at least (`PipelineAssumption`).
It is stated for the channels alone and for what the run explores.

**Status** (`StatusProofs`).  `StatusInv` joins three parts: `DebounceInv`, that a
value is pending exactly while the last one observed is not the confirmed one, and is
as old as the observation; `DueInv`, that what a tick found due before it dialled is
due when the dial returns; `GateInv`, that the gate forgets what it showed when the
lamp goes grey.  `StatusStep` is one step of everything, whatever the windows' lengths.
`LampsAreConfirmed` and `SilenceIsShown` are what it implies; `EveryStepHasItsReason`
is an action property, of a state confirmed, a lamp lit, a connection closed.

**Arming** (`DeskProofs`).  `NobodyOrphansAController` from `DialInv`, that whoever
dials has `mixMu`, alone, and nothing is published meanwhile; and `OwnerInv`, that a
controller that is published or being closed is open and has one owner.

**Control plane** (`DeskProofs`).  `CtlInv`: `MuInv` places the one restarter inside
`ctlMu` between taking a generation down and building the next; `RestInv` says every
generation but the running one has come to rest; `SearchInv` that one search is under
way, in the running one; `RoomInv` that numbers for generations and searches do not run
out, without which the type invariant (`ControlTypes`) is not inductive.
`OneSpeaksAtATime` follows from these.  `RunsWhatIsShown` needs `CurrentInv`, that
whoever waits for `ctlMu` has read what is shown, or a restarter that has not read yet
is still to come, and `GaveUpInv`, the same of a password that came too late.

**Mixer drawer** (`DeskProofs`).  `NothingIsMadeUp` is a lemma about the reader: of a
desk's status with any one field missing, null or of another type, a reading without a
critical warning has the desk's strips and no other, each on its buses, and none muted
that is not.  A field that is
lost leaves either the matrix or the inputs whole, so what is left names every strip, and
whatever the other lacks is a warning (`StripNames`, `Critical`).  It asks of the three
markers `Absent`, `Null` and `Odd` that none is itself a JSON object (`Markers`), which
TLC cannot evaluate and takes from their being model values, and of the desk that no
strip is called `assign_list`, nor its input as the mixer (`DeskAssumption`).
`EveryClickIsMeant` follows with `DrawerInv`, that what is on the screen, in a reading
under way and in the click is a reading of the desk it is said to be of, and that a command
planned from it is the toggle of one bus.  `NothingIsMisread`
needs no invariant but itself: each command is judged as it is decoded.  It speaks of the
buses of a routing and of a limiter's threshold, not of the arguments that decode to a
zero of their own.

**Second window** (`DeskProofs`).  `OneWindowAtATime` from `WinInv`: a launch that has
been superseded is over (`LaunchInv`), a process is there between its start and its
reaping and speaks only then (`ProcessInv`), and what is said of the window is said of
the last launch (`SaidInv`).

**Sessions and captures** (`SessionProofs`).  `CapInv` has five parts.  `LockInv`: a
lock is held by the call that stands where it is held, and while `sessMu` is held there
is no session for `Stop` to find; this is what makes sessions unique.  `SetInv`: what
is built belongs to the call that builds it, and what plays is in the capture set or in
that.  `PlanInv`: what a plan has left is not built yet, each leg and the card once.
`SessInv`: a session whose forwarder runs is the published one or the one being
stopped, its sender draws from the capture set, and nothing else is claimed.
`QuitInv`: after the shutdown's stop there is no session, after its release no set.
`NobodyCutsTheSeam`, `StopFindsTheFeed` and `NoDeviceIsForgotten` are read off it; the
first is stated with the type invariant, whose remaining variables are `RestInv`.
`NoCallsWaitInACircle` gives each waiting call a rank below that of the one it waits
for, which a circle cannot have.

**Return** (`SessionProofs`).  `RetInv`: `CallsInv`, that a session to stop, or being
stopped, is the last one begun, under `retMu`; and per session `RunOf`, that only this
one is not over, `DialledOf`, that errors, signals of audio and the verdict are of the
address being dialled, `ReasonOf`, that a failure that is queued has its reason stored,
and `CountOf`, that the forwarder counts what the loop had counted when it announced it,
unless a state was dropped; `LampInv` says that STOPPED is the last word of a session
that has ended.  `TheReturnIsHonest` follows: one receiver at a time, an address judged
by its own, the lamp after the stop, a diagnostic with its reason.  It is stated with the
type invariant, which needs `BoundInv`: no more addresses are dialled than there may be,
since what the one session that dials has yet to dial is left over (`TryOf`).

**Picture** (`SessionProofs`).  `PicInv`: `PicCallInv`, that a session to stop or being
stopped is the last one begun, under `picMu`; per session `SessionOf`, that only that one
is not over and has a pipeline only where it deals with one; `SurfaceInv`, that a surface
is there exactly while there is an overlay and a window, but for the teardown's parting
with it; `BlindInv`, that one attempt at most is made after the window has gone;
`FollowInv`, that the overlay follows what was last forwarded unless a forwarder is
between hearing and applying; `LastInv`, that a session that has ended has said so last,
unless a state was dropped.  `TheOverlayIsRight` is the
sum.

**Catch-up and parameter sets** (`SessionProofs`).  `CatchUpIsAlwaysClean` from
`FeedInv`.  `QueueInv`: the queue holds what the encoder sent, a picture that is no
keyframe being of the version of the one before it.  `SetsInv`: while nothing is dropped,
whoever supplies the sets (the cache on H.265, the parser on H.264), if he has any, has
those of the next picture, unless it brings its own.  `CostInv`: while units are dropped,
first the backlog drains (dropped and waiting together are at most the backlog and one);
then units come one by one, and dropped, waiting and to come before the next keyframe are
at most the backlog and a distance of keyframes; or a keyframe waits alone, and it ends
the catch-up, the low mark not being below zero.  That no picture tears needs that a
catch-up ends at a keyframe only, and on H.264 it holds because a catch-up never ends, which
is the finding of `catchup_h264`.

**Seats** (`SeatProofs`).  `NoListenerIsOrphaned` from who holds `remoteMu` (`HeldInv`),
that what is published is the generation that runs (`PublishedInv`), and that from the
shutdown's stop on there is nothing to publish (`StoppedInv`).  `EveryGapIsSeen`, for
any kinds of event and depths of queue, from `NumberInv`: a seat's queue ends in the
number given last, or is empty and the page has that number, and room has been made
before the second try.  `TheLastPressWins` from `StampInv` (stamps come off one clock),
`ApplyInv` (`applyMu` covers the write and the record), `CaptureInv` (the captures a
call may have met) and `ForceInv`: what is written is in force, and once it is recorded
whoever is under way with an older stamp will be refused for it.  `TheCapIsKept`: what
is counted in flight is the set of calls under way (`UnderWay`), so that a result always
has room; its invariant (`SeatInv`) places each call in one place only, the queue, the
writer's hand or the reader's refusal.  `TypesHold` composes the four: a step of the run
`seats` is a step of one part that leaves the variables of the others alone, so a
behaviour of all is a behaviour of each, and what is proved of each holds of all.

**Channel routing** (`SetupProofs`).  `RoutingIsAlwaysShown` from `RouteInv`, in four
parts: `RouteTypes`, with the types exact; `CaptureInv`, that one capture plays, the last
built, which is the open one or the one to be adopted, and that a matrix is of its
device's pad; `ApplyInv`, that whoever may still write a matrix is on the open capture or
on one that refuses it, one call at a time between its write and its event; and,
unless calls crossed, `KnownInv`: what a call that is not late knows of the open capture
and its record, and what record and grids hold of it once its width has come.  It needs that
no device has the
empty name and every pad a channel (`ChannelMapAssumption`).

**Configuration and presets** (`SetupProofs`).  `PresetsStayConfined` from `PresetInv`,
which has a part for each degree of trouble: `WholeInv` holds whoever crosses whom (what
a call is to write, keep or wipe is whole, and nothing is another machine's); `KeptInv`
unless calls crossed in this launch (one at a time has half changed what the others look
at, and they have not begun or hold something stale, `OneAtATime`; so file, settings and
scope go together); `FilesInv` unless they ever crossed (the record names a preset and its
scope, no two presets have one scope, and who is about to delete is not about to delete
the active one).  It assumes of what a first launch finds (`FindsAssumption`) that an
earlier launch left it, or, of presets, that somebody wrote them.
`OnlyItsOwnPasswords`, an action property, is part of the same theorem.

**Settings and formats** (`SetupProofs`).  Two lemmas carry the arithmetic of the rates,
for every raster and every number of thousandths: `FormatsRoundTrip` (what is accepted as
typed is read back as it is shown, and is what a switcher stating it is conformed to; a
thousand rates at most are NTSC ones, and the two tolerances part company at none of
them) and `StatedRoundTrip` (what is shown of a stated rate is read back as the same
rate).  `AcceptedIsAlwaysUsable` reads `FormatsAgree` off them and has the rest from
`SettingsInv`: that a session that dials has the sinks, ports and key length START
accepted, and its capture was built to what START decided (`Dialled`).
`SetupIsSound` composes presets, settings and routing as `TypesHold` composes the seats.

What the proofs asked of the models: some CASE expressions
had arms that overlap, which TLC takes in order and the logic does not; a type invariant
had the configurations to choose from where the configurations there may be were meant;
and assumptions on names were missing: that no caller of the return is called
"nobody", which stands for an unlocked mutex (nor one of the picture "nobody" or
"teardown"), and that whoever follows a launch of the window is none of those who press
its buttons.  `OnlyItsOwnPasswords` excepted only the launch in which calls crossed: a
preset deleted under one that applies it, and then a crash, leaves a record without its
preset, and another preset may take that scope and go with it later; so it excepts every
launch after too.  And what a configuration or a preset may hold, and what a launch may
find, were wider than the program leaves it.  `FormatsAgree` asked for
the same fraction back: a switcher that states 999.998 is conformed to 1001000/1001, which
is shown as
1000 and read back as 1000/1, the same rate; it asks for that (`sameConformTarget`,
app.go:3665), and the run has the rate 999.998 since.  The greatest common divisor was a
recursion and is stated as what it computes; the scan of an access unit was a fold and is
stated by the sets of positions it finds.  Each model is stated so now.

What stays with TLC, and why:

* liveness, in every module, and `WindowGoes`, which is about ENABLED: out of this
  prover's reach.

## 5. Not modelled

`PROJECT.json` gives the reason part by part.  In short: media (GStreamer's
negotiation, timestamps, sample data), paths, migrations of files of earlier
builds, operating-system services (overlay windows, keychains, the enumeration of
devices), test tools, the page, the allow-list of remote calls, and, of the parts
that are modelled, what `PROJECT.json` notes: the signal watch of a capture, gain and
endpoint of the return, the preview, the second way to watch the switcher
(`WatchAll`).

## 6. Plan

The components are done, down to those notes.  What is next is the
signal watch of a capture.
