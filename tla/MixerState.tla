------------------------------ MODULE MixerState ------------------------------
(***************************************************************************)
(* internal/mixer/state.go, and of app_mixer.go what reads: what is made   *)
(* of a status frame.  JSON comes as functions from keys to values: a key  *)
(* that is missing reads as Absent, the literal null is Null, and a value  *)
(* of another type than the field's is Odd.                                *)
(*                                                                         *)
(* A frame is a sequence of entries [node, path, state].                   *)
(***************************************************************************)
EXTENDS Integers, FiniteSetsExt

CONSTANTS Absent, Null, Odd

Get(o, k) == IF k \in DOMAIN o THEN o[k] ELSE Absent

\* decodeObject and the others: what is there, not null, and of the right type.
Readable(v) == v \notin {Absent, Null, Odd}
Obj(v) == IF Readable(v) THEN v ELSE <<>>
Or(v, zero) == IF Readable(v) THEN v ELSE zero
Field(o, k, zero) == Or(Get(o, k), zero)

When(condition, x) == IF condition THEN {x} ELSE {}

\* What a strip is where nothing is said of it.  Of its fields those that say where it is
\* heard: names, modes, faders and meters are left out, as are the buses' own.
NoStrip == [muted |-> FALSE, outputs |-> {}]

AllBuses == {"master", "aux1", "aux2", "mon1", "mon2", "mon3", "mon4"}
MixerNode == "advanced_audio_mixer"
-----------------------------------------------------------------------------
(* Finding the mixer.                                                      *)

\* Only a whole node is read; the first of two, and one that is an object.
WholeMixers(frame) ==
  {i \in DOMAIN frame : frame[i].node = MixerNode /\ frame[i].path = "/" /\ Readable(frame[i].state)}

\* The application's own guard looks at the first entry of that name alone, and at
\* nothing but its path.
IsWhole(frame) ==
  LET named == {i \in DOMAIN frame : frame[i].node = MixerNode /\ frame[i].path # Odd}
  IN named # {} /\ frame[Min(named)].path = "/"
-----------------------------------------------------------------------------
(* Strips.                                                                 *)

LooksLikeStrip(v) == Readable(v) /\ Get(v, "muted") # Absent /\ Get(v, "display_name") # Absent

StripIn(inputs, i, n) == i \in DOMAIN inputs /\ LooksLikeStrip(Get(Obj(inputs[i]), n))

\* From the inputs, and from the matrix those no input has.
StripNames(inputs, matrix) ==
  DOMAIN matrix \cup UNION {{n \in DOMAIN Obj(inputs[i]) : StripIn(inputs, i, n)} : i \in DOMAIN inputs}

\* Mutant: an entry without its buses is taken for one with none.
RoutingIsListed(matrix, n) == n \in DOMAIN matrix /\ matrix[n] \notin {Null, Odd}

\* applyRouting: what cannot be read is not "routed nowhere".
RoutingIsKnown(matrix, n) ==
  n \in DOMAIN matrix /\ matrix[n] \notin {Null, Odd} /\ Readable(Get(matrix[n], "outputs"))

BuildStrip(state, n) ==
  LET inputs == Obj(Get(state, "inputs"))
      under  == {i \in DOMAIN inputs : StripIn(inputs, i, n)}
      fields == IF under = {} THEN <<>> ELSE inputs[CHOOSE i \in under : TRUE][n]
      routed == Obj(Get(Obj(Get(state, "matrix")), n))
  IN [NoStrip EXCEPT !.muted = Field(fields, "muted", @), !.outputs = Field(routed, "outputs", @)]

\* The strips whose buses are unknown, not clear; all of them without a matrix.
Critical(state) ==
  LET matrix == Obj(Get(state, "matrix"))
  IN When(~Readable(Get(state, "matrix")), "matrix")
     \cup {n \in StripNames(Obj(Get(state, "inputs")), matrix) : ~RoutingIsKnown(matrix, n)}

\* ParseSnapshotWithWarnings: what it cannot read it leaves at its zero.
Parsed(state) ==
  [ok     |-> TRUE,
   strips |-> [n \in StripNames(Obj(Get(state, "inputs")), Obj(Get(state, "matrix"))) |-> BuildStrip(state, n)]]

Unread == [ok |-> FALSE]

\* GetMixerSnapshot: what it cannot vouch for it does not return.
Reading(frame) ==
  IF ~IsWhole(frame) \/ WholeMixers(frame) = {} THEN Unread
  ELSE LET state == frame[Min(WholeMixers(frame))].state
       IN IF Critical(state) # {} THEN Unread ELSE Parsed(state)
=============================================================================
