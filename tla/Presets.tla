------------------------------- MODULE Presets -------------------------------
(***************************************************************************)
(* The configuration and the presets (app.go, app_presets.go, presets.go,  *)
(* fields.go, app_builtin_presets.go), on disk and in memory, under the    *)
(* calls of the desk and of the remote seats, each of several steps, and   *)
(* over failed writes, crashes and restarts.  Every file is written whole  *)
(* or not at all (writeFileAtomic, Config.Save).                           *)
(***************************************************************************)
EXTENDS Naturals, FiniteSets

CONSTANTS
  Desk, Remotes,  \* who calls: the page at the desk, and those of remote seats
  IdOf,         \* the names an operator may type, and the ids DeriveID makes of them
  Builtin,      \* the id of a built-in preset; the seven are alike
  Keys,         \* the credentials of a scope: m2lx, srt and srtreturn
  Finds,        \* what the first launch may find on disk
  PresetBudgets \* bounds: calls, writes that fail, and crashes

Users == {Desk} \cup Remotes
Names == DOMAIN IdOf
Ids == {IdOf[n] : n \in Names}
Scopes == Ids \cup {""}   \* "" is the scope of the machine's first passwords

\* A value that no operator at the desk has chosen: a preset file, from another
\* machine or written by hand, may hold it, and a remote seat may ask for it.
Foreign == "foreign"

\* One field of each class, and videoSource, which travels when it is "none".
InstanceFields   == {"statusKey"}
MachineFields    == {"audioDeviceId", "videoSource"}
UIFields         == {"coughMuteMode"}
DiscoveredFields == {"eventId"}
Tags == InstanceFields \cup MachineFields \cup UIFields \cup DiscoveredFields
Values ==
  [statusKey |-> {"", "cam4", "MIC 1", "own"}, audioDeviceId |-> {"", "mic", Foreign},
   videoSource |-> {"slate", "none", Foreign}, coughMuteMode |-> {"", "push"},
   eventId |-> {"", Foreign}]
Config == {c \in [Tags -> UNION {Values[t] : t \in Tags}] : \A t \in Tags : c[t] \in Values[t]}
Fields == {f \in UNION {[D -> UNION {Values[t] : t \in Tags}] : D \in SUBSET Tags} :
             \A t \in DOMAIN f : f[t] \in Values[t]}

Preset == [name : Names, scope : Scopes, fields : Fields]
ActiveRecord == [id : Ids \cup {"", "?"}, scope : Scopes]
NoRecord == [id |-> "", scope |-> ""]
Damaged  == [id |-> "?", scope |-> ""]

Defaults == [statusKey |-> "", audioDeviceId |-> "", videoSource |-> "slate",
             coughMuteMode |-> "push", eventId |-> ""]
builtinFields == [statusKey |-> "MIC 1", videoSource |-> "none"]
builtinPreviousValues == [t \in Tags |-> IF t = "statusKey" THEN {"cam4"} ELSE {}]

\* What a configuration holds that this program wrote, or that is the default: nothing
\* of another machine, and how the cough mute works.
IsOwn(c) == /\ \A t \in {"audioDeviceId", "videoSource", "eventId"} : c[t] # Foreign
            /\ c.coughMuteMode # ""
\* A preset has the machine's scope, or its own, unless it was written by hand.
OneEach(found) ==
  \A i, j \in DOMAIN found :
    (/\ found[i].scope = found[j].scope
     /\ found[i].scope \in {"", i} /\ found[j].scope \in {"", j}) => i = j
\* The record of the active preset has its own scope, the machine's or the preset's.
Recorded(rec, found) ==
  rec.scope \in {"", rec.id} \/ (rec.id \in DOMAIN found /\ found[rec.id].scope = rec.scope)

ASSUME PresetsAssumption ==
  /\ Desk \notin Remotes /\ Builtin \in Ids /\ "" \notin Ids /\ "?" \notin Ids
  /\ "m2lx" \in Keys /\ IsFiniteSet(Keys)
  /\ PresetBudgets \subseteq [calls : Nat, faults : Nat, crashes : Nat]

\* An earlier launch left what is found, but for presets that are written by hand.
ASSUME FindsAssumption ==
  \A f \in Finds :
    /\ f.disk = {} \/ \E c \in Config : IsOwn(c) /\ f.disk = {c}
    /\ DOMAIN f.files \subseteq Ids /\ \A i \in DOMAIN f.files : f.files[i] \in Preset
    /\ f.unreadable \subseteq Ids \ DOMAIN f.files /\ f.vault \subseteq Scopes \X Keys
    /\ f.active \in ActiveRecord /\ Recorded(f.active, f.files) /\ OneEach(f.files)

VARIABLES
  up,         \* the program runs
  disk,       \* config.json: {} when it is missing or cannot be parsed
  memory,     \* App.cfg
  files,      \* the presets on disk, by id
  unreadable, \* ids whose file cannot be read
  active,     \* active.json
  scope,      \* credScope
  vault,      \* the credentials stored, each under its scope
  sending,    \* a session runs
  call,       \* per user, the call it is in
  mixed,      \* history: a call acted on what another had changed since it looked: "never",
              \* "now", or "before" this launch
  heard,      \* history: the microphone the desk chose last
  meant,      \* history: what was in force at START, or is saved since
  budget

presetVars == <<up, disk, memory, files, unreadable, active, scope, vault, sending, call, mixed,
                heard, meant, budget>>

Steps == {"idle", "write", "publish", "keep", "record", "scope", "remove", "wipe"}
AtRest == [at |-> "idle", conf |-> Defaults, id |-> "", preset |-> {}, rec |-> NoRecord,
         wipes |-> FALSE, stale |-> FALSE]
Call == [at : Steps, conf : Config, id : Ids \cup {""}, preset : SUBSET Preset,
         rec : ActiveRecord, wipes : BOOLEAN, stale : BOOLEAN]

PresetsTypeOK ==
  /\ up \in BOOLEAN /\ sending \in BOOLEAN /\ mixed \in {"never", "now", "before"}
  /\ disk \subseteq Config /\ memory \in Config
  /\ DOMAIN files \subseteq Ids /\ \A i \in DOMAIN files : files[i] \in Preset
  /\ unreadable \subseteq Ids \ DOMAIN files
  /\ active \in ActiveRecord /\ scope \in Scopes /\ vault \subseteq Scopes \X Keys
  /\ call \in [Users -> Call]
  /\ heard \in Values["audioDeviceId"] /\ meant \in Values["statusKey"]
  /\ budget \in [calls : Nat, faults : Nat, crashes : Nat]

\* Load, of what is on disk, if anything; and ScopedKey.
LoadConfig(found) == IF found = {} THEN Defaults ELSE CHOOSE c \in found : TRUE
ScopedKey(s, k) == <<s, k>>

PresetsInit ==
  /\ up = FALSE /\ memory = Defaults /\ scope = "" /\ sending = FALSE
  /\ \E f \in Finds : disk = f.disk /\ files = f.files /\ unreadable = f.unreadable
                      /\ active = f.active /\ vault = f.vault
  /\ call = [u \in Users |-> AtRest] /\ mixed = "never"
  /\ heard = LoadConfig(disk).audioDeviceId
  /\ meant = "" /\ budget \in PresetBudgets

-----------------------------------------------------------------------------
(* What a preset holds, and what of it is applied (fields.go).             *)

Only(fields, tags) == [t \in DOMAIN fields \cap tags |-> fields[t]]
travelsAsInstance(t, v) == t = "videoSource" /\ v = "none"
Extract(c) == Only(c, InstanceFields)
\* Mutant: the fields that do not travel are kept.
FilterNothing(fields) == fields
Filter(fields) ==
  Only(fields, {t \in DOMAIN fields : t \in InstanceFields \/ travelsAsInstance(t, fields[t])})
\* Mutant: what the preset does not hold is wiped.
ApplyWiping(c, fields) ==
  LET kept == Filter(fields) IN [t \in Tags |-> IF t \in DOMAIN kept THEN kept[t] ELSE ""]
Apply(c, fields) ==
  LET kept == Filter(fields) IN [t \in Tags |-> IF t \in DOMAIN kept THEN kept[t] ELSE c[t]]
Load(id) == [files[id] EXCEPT !.fields = Only(@, Tags \ DiscoveredFields)]

\* The built-in's value where there is none, or one an earlier build shipped.
upgradeBuiltinFields(have) ==
  [t \in DOMAIN have \cup DOMAIN builtinFields |->
     IF t \in DOMAIN builtinFields /\ (t \in DOMAIN have => have[t] \in builtinPreviousValues[t])
     THEN builtinFields[t] ELSE have[t]]

-----------------------------------------------------------------------------
(* A call goes from step to step; what it changes makes the others stale.   *)

Becomes(u, next) ==
  call' = [v \in Users |-> IF v = u THEN next
                           ELSE IF call[v].at = "idle" THEN AtRest
                           ELSE [call[v] EXCEPT !.stale = TRUE]]
Acts(u, next) == up /\ Becomes(u, next) /\ mixed' = IF call[u].stale THEN "now" ELSE mixed

\* A call looks at memory and disk, and goes on to its first step; what another has
\* half changed is stale already.
HalfDone(u) == call[u].at \in {"publish", "record", "scope", "wipe"}
Begins(u, first) ==
  /\ up /\ call[u].at = "idle" /\ budget.calls > 0
  /\ budget' = [budget EXCEPT !.calls = @ - 1]
  /\ call' = [call EXCEPT ![u] = [first EXCEPT !.stale = \E v \in Users : HalfDone(v)]]
  /\ UNCHANGED <<up, disk, memory, files, unreadable, active, scope, vault, sending, mixed, heard, meant>>

\* A write fails, and the call ends there.
Fails(u) ==
  /\ up /\ call[u].at \in {"write", "keep", "record", "remove"} /\ budget.faults > 0
  /\ budget' = [budget EXCEPT !.faults = @ - 1]
  /\ call' = [call EXCEPT ![u] = AtRest]
  /\ UNCHANGED <<up, disk, memory, files, unreadable, active, scope, vault, sending, mixed, heard, meant>>

\* saveConfigFrom: a remote seat may not change which microphone, card or
\* picture; and a page that does not know coughMuteMode keeps what it is.
refuseRemoteCaptureChange(c) == \E t \in MachineFields : c[t] # memory[t]
carryForwardUIOnlyFields(c) ==
  [c EXCEPT !.coughMuteMode = IF @ = "" THEN memory.coughMuteMode ELSE @]

\* What a page sends: what it was given, with a field edited.
Edits(u) ==
  {[memory EXCEPT ![e[1]] = e[2]] :
     e \in {<<"statusKey", "own">>, <<"audioDeviceId", "mic">>, <<"videoSource", "none">>, <<"coughMuteMode", "">>}
           \cup IF u = Desk THEN {} ELSE {<<"audioDeviceId", Foreign>>, <<"videoSource", Foreign>>}}
SaveConfigFrom(u) ==
  \E c \in Edits(u) :
    /\ u # Desk => ~refuseRemoteCaptureChange(c)
    /\ Begins(u, [AtRest EXCEPT !.at = "write", !.conf = carryForwardUIOnlyFields(c)])

\* ApplyPreset: not while a session runs, and over the settings as they are now.
ApplyNamedPreset(u) ==
  \E id \in DOMAIN files :
    /\ ~sending
    /\ Begins(u, [AtRest EXCEPT !.at = "write", !.conf = Apply(memory, Load(id).fields),
                              !.rec = [id |-> id, scope |-> files[id].scope]])

\* Config.Save, then the pointer under cfgMu.
Save(u) ==
  /\ call[u].at = "write"
  /\ disk' = {call[u].conf}
  /\ IF call[u].rec = NoRecord
     THEN /\ meant' = call[u].conf.statusKey
          /\ heard' = IF u = Desk THEN call[u].conf.audioDeviceId ELSE heard
     ELSE UNCHANGED <<meant, heard>>
  /\ Acts(u, [call[u] EXCEPT !.at = "publish"])
  /\ UNCHANGED <<up, memory, files, unreadable, active, scope, vault, sending, budget>>

PublishConfig(u) ==
  /\ call[u].at = "publish"
  /\ memory' = call[u].conf
  /\ Acts(u, IF call[u].rec = NoRecord THEN AtRest ELSE [call[u] EXCEPT !.at = "record"])
  /\ UNCHANGED <<up, disk, files, unreadable, active, scope, vault, sending, heard, meant, budget>>

\* SavePreset: a preset keeps its scope; a new one has its own, but for the
\* very first, which takes over the machine's.  Two names may not be one id.
SavePreset(u) ==
  \E n \in Names :
    LET id == IdOf[n]
        kept == IF id \in DOMAIN files THEN files[id].scope
                ELSE IF DOMAIN files = {} /\ active = NoRecord THEN "" ELSE id IN
    /\ id \in DOMAIN files => files[id].name = n
    /\ Begins(u, [AtRest EXCEPT !.at = "keep", !.id = id, !.rec = [id |-> id, scope |-> kept],
                    !.preset = {[name |-> n, scope |-> kept, fields |-> Extract(memory)]}])

\* RenamePreset: neither the id nor the scope follows the name.
RenamePreset(u) ==
  \E id \in DOMAIN files, n \in Names :
    Begins(u, [AtRest EXCEPT !.at = "keep", !.id = id, !.preset = {[Load(id) EXCEPT !.name = n]}])

Keep(u) ==
  /\ call[u].at = "keep"
  /\ files' = [i \in DOMAIN files \cup {call[u].id} |->
                 IF i = call[u].id THEN CHOOSE p \in call[u].preset : TRUE ELSE files[i]]
  /\ unreadable' = unreadable \ {call[u].id}
  /\ Acts(u, IF call[u].rec = NoRecord THEN AtRest ELSE [call[u] EXCEPT !.at = "record"])
  /\ UNCHANGED <<up, disk, memory, active, scope, vault, sending, heard, meant, budget>>

\* SaveActive, and then setCredentialScope: of ApplyPreset and of SavePreset.
Record(u) ==
  /\ call[u].at = "record"
  /\ active' = call[u].rec
  /\ Acts(u, [call[u] EXCEPT !.at = "scope"])
  /\ UNCHANGED <<up, disk, memory, files, unreadable, scope, vault, sending, heard, meant, budget>>

SetCredentialScope(u) ==
  /\ call[u].at = "scope"
  /\ scope' = call[u].rec.scope
  /\ Acts(u, AtRest)
  /\ UNCHANGED <<up, disk, memory, files, unreadable, active, vault, sending, heard, meant, budget>>

\* Mutant: the active preset may be deleted.
DeleteAny(u) ==
  \E id \in DOMAIN files, wipes \in BOOLEAN :
    /\ wipes => files[id].scope = id
    /\ Begins(u, [AtRest EXCEPT !.at = "remove", !.id = id, !.wipes = wipes,
                    !.rec = [id |-> id, scope |-> files[id].scope]])
\* DeletePreset: not the active one, and credentials only of a scope of its own.
DeletePreset(u) ==
  \E id \in DOMAIN files, wipes \in BOOLEAN :
    /\ active.id # id
    /\ wipes => files[id].scope = id
    /\ Begins(u, [AtRest EXCEPT !.at = "remove", !.id = id, !.wipes = wipes,
                    !.rec = [id |-> id, scope |-> files[id].scope]])

RemoveFile(u) ==
  LET id == call[u].id IN
  /\ call[u].at = "remove" /\ id \in DOMAIN files
  /\ files' = [i \in DOMAIN files \ {id} |-> files[i]]
  /\ Acts(u, IF call[u].wipes THEN [call[u] EXCEPT !.at = "wipe"] ELSE AtRest)
  /\ UNCHANGED <<up, disk, memory, unreadable, active, scope, vault, sending, heard, meant, budget>>

\* Another deletion was first: os.Remove says that there is no such file.
RemovesNothing(u) ==
  /\ up /\ call[u].at = "remove" /\ call[u].id \notin DOMAIN files
  /\ call' = [call EXCEPT ![u] = AtRest]
  /\ UNCHANGED <<up, disk, memory, files, unreadable, active, scope, vault, sending, mixed, heard, meant, budget>>

\* Each of the keys may fail to be deleted.
Wipe(u) ==
  /\ call[u].at = "wipe"
  /\ \E failed \in SUBSET Keys :
       /\ Cardinality(failed) <= budget.faults
       /\ budget' = [budget EXCEPT !.faults = @ - Cardinality(failed)]
       /\ vault' = vault \ {ScopedKey(call[u].rec.scope, k) : k \in Keys \ failed}
  /\ Acts(u, AtRest)
  /\ UNCHANGED <<up, disk, memory, files, unreadable, active, scope, sending, heard, meant>>

-----------------------------------------------------------------------------
(* Passwords, the session, and launches.                                   *)

\* scopedStore.Set, with "" for a password that is cleared: under the scope in use.
scopedStore(k, given) ==
  IF given THEN vault \cup {ScopedKey(scope, k)} ELSE vault \ {ScopedKey(scope, k)}
\* SetSecret; the store's own step (external).
ChangeSecret(u) ==
  \E k \in Keys, given \in BOOLEAN :
    /\ call[u].at = "idle" /\ budget.calls > 0 /\ budget' = [budget EXCEPT !.calls = @ - 1]
    /\ vault' = scopedStore(k, given)
    /\ Acts(u, AtRest)
    /\ UNCHANGED <<up, disk, memory, files, unreadable, active, scope, sending, heard, meant>>

\* START and STOP, which Sender and CaptureSession are about.
StartOrStop(u) ==
  /\ call[u].at = "idle" /\ budget.calls > 0 /\ budget' = [budget EXCEPT !.calls = @ - 1]
  /\ sending' = ~sending
  /\ meant' = IF sending THEN meant ELSE memory.statusKey
  /\ Acts(u, AtRest)
  /\ UNCHANGED <<up, disk, memory, files, unreadable, active, scope, vault, heard>>

\* The program ends, by itself or not, and whatever was under way with it.
Crash ==
  /\ up /\ budget.crashes > 0 /\ budget' = [budget EXCEPT !.crashes = @ - 1]
  /\ up' = FALSE /\ sending' = FALSE /\ call' = [u \in Users |-> AtRest]
  /\ mixed' = IF mixed = "now" THEN "before" ELSE mixed
  /\ UNCHANGED <<disk, memory, files, unreadable, active, scope, vault, heard, meant>>

\* seedBuiltinPresets: the preset is made, or upgraded, unless it cannot be
\* read or (cannot) be written, and its password is put back.
Seeded(files1) ==
  IF Builtin \notin DOMAIN files
  THEN /\ files1 \in {[i \in DOMAIN files \cup {Builtin} |->
              IF i # Builtin THEN files[i]
              ELSE [name |-> n, scope |-> Builtin, fields |-> builtinFields]] :
            n \in {n \in Names : IdOf[n] = Builtin}}
  ELSE files1 = [files EXCEPT ![Builtin].fields = upgradeBuiltinFields(Load(Builtin).fields)]

\* startup: what is no configuration is the defaults, and an active record that
\* cannot be read names no scope.
Startup ==
  /\ ~up /\ up' = TRUE
  /\ memory' = LoadConfig(disk)
  /\ \E written, stored \in BOOLEAN :
       LET failed == (IF written THEN 0 ELSE 1) + (IF stored THEN 0 ELSE 1) IN
       /\ failed <= budget.faults /\ budget' = [budget EXCEPT !.faults = @ - failed]
       /\ IF written /\ Builtin \notin unreadable THEN Seeded(files') ELSE UNCHANGED files
       /\ vault' = IF stored THEN vault \cup {ScopedKey(Builtin, "m2lx")} ELSE vault
  /\ scope' = active.scope
  /\ heard' = IF mixed = "before" THEN memory'.audioDeviceId ELSE heard
  /\ UNCHANGED <<disk, unreadable, active, sending, call, mixed, meant>>

PresetsNext ==
  \/ \E u \in Users :
       SaveConfigFrom(u) \/ ApplyNamedPreset(u) \/ Save(u) \/ PublishConfig(u) \/ SavePreset(u) \/ RenamePreset(u)
       \/ Keep(u) \/ Record(u) \/ SetCredentialScope(u) \/ DeletePreset(u) \/ RemoveFile(u)
       \/ RemovesNothing(u) \/ Wipe(u) \/ ChangeSecret(u) \/ StartOrStop(u) \/ Fails(u)
  \/ Crash \/ Startup

PresetsSpec == PresetsInit /\ [][PresetsNext]_presetVars

-----------------------------------------------------------------------------
NobodyAt(step) == \A u \in Users : call[u].at # step

\* A microphone, a picture or an event that only a preset file names is never in
\* force, nor one that only a remote seat asked for; and no save forgets how the
\* cough mute works (Filter, refuseRemoteCaptureChange, carryForwardUIOnlyFields).
NothingForeign == IsOwn(memory)

\* Unless calls crossed: what is shown is what the next launch loads; the
\* microphone is the one the desk chose last; and no preset changes what a
\* session is running with (saveConfigFrom, ApplyPreset).
ConfigIsKept ==
  up /\ mixed # "now" /\ NobodyAt("publish") =>
    /\ disk \subseteq {memory} /\ memory.audioDeviceId = heard
    /\ sending => memory.statusKey = meant

\* Unless calls crossed: the passwords in use are of the preset recorded as
\* active, which a launch would choose too; and no two presets have one scope,
\* but for those written by hand (SavePreset, ApplyPreset, startup).
ScopesAreRight ==
  /\ up /\ mixed # "now" /\ NobodyAt("scope") => scope = active.scope
  /\ mixed = "never" => OneEach(files)

PresetsAreConfined == NothingForeign /\ ConfigIsKept /\ ScopesAreRight

\* A password goes when it is cleared, or with the preset whose scope it is; and not
\* from under the preset in use, unless calls once crossed, or it was written by hand
\* to use another's (DeletePreset).
OnlyItsOwnPasswords ==
  [][\A s \in Scopes, k \in Keys :
       ScopedKey(s, k) \in vault \ vault' =>
         \/ s = scope /\ \A u \in Users : call'[u].at = call[u].at
         \/ /\ \E u \in Users : call[u].at = "wipe" /\ call[u].id = s
            /\ s = scope /\ mixed' = "never" => \E i \in DOMAIN files \ {s} : files[i].scope = s]_presetVars
=============================================================================
