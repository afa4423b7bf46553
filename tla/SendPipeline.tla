---------------------------- MODULE SendPipeline ----------------------------
(***************************************************************************)
(* The send pipeline as its driver meets it: internal/gst/gst_cgo.go, type *)
(* cgoPipeline.  One or two sink slots; one mutex held across a whole SRT  *)
(* handshake; a latched fatal error; and one bounded channel, shared by    *)
(* the slots, on which the bus handler drops what does not fit.            *)
(*                                                                         *)
(* An error is a record of the output it names (NoOutput when it names     *)
(* none: the muxer, an encoder, the capture seam) and of whether the sink  *)
(* it speaks of is still the one installed.  The code carries no such      *)
(* mark; it is what its reader must not need.                              *)
(*                                                                         *)
(* A sink posts under its own name only while a slot bears that name: from *)
(* the end of the handshake to RemoveSinkOn.  Outside of that its gate is  *)
(* closed and no buffer reaches it.                                        *)
(***************************************************************************)
EXTENDS Integers, Sequences

CONSTANTS
  NumOutputs,     \* sink slots
  PErrsBuffer     \* errorChannelBuffer, 16 in the code
ASSUME PipelineAssumption ==
  /\ NumOutputs \in Nat \ {0}
  /\ PErrsBuffer \in Nat \ {0}

Outputs == 0 .. NumOutputs - 1
NoOutput == -1
Free == -1

Errors == [out : Outputs \cup {NoOutput}, fresh : BOOLEAN]

VARIABLES
  pipe,    \* "new", "started", "stopped"
  mu,      \* cgoPipeline.mu: Free, or the output whose handshake is in flight
  sink,    \* per slot: "none", "live", "failing" (the srtsink has posted its
           \*   error), "dead" (the queue in front of it has too)
  fatal,   \* "no", "latched" (markFatal), "posted" (deliver tried)
  perrs    \* the channel Errors() returns

pipeVars == <<pipe, mu, sink, fatal, perrs>>

PipeTypeOK ==
  /\ pipe \in {"new", "started", "stopped"}
  /\ mu \in Outputs \cup {Free}
  /\ sink \in [Outputs -> {"none", "live", "failing", "dead"}]
  /\ fatal \in {"no", "latched", "posted"}
  /\ perrs \in Seq(Errors)
  /\ Len(perrs) <= PErrsBuffer

PipeInit ==
  /\ pipe = "new"
  /\ mu = Free
  /\ sink = [i \in Outputs |-> "none"]
  /\ fatal = "no"
  /\ perrs = <<>>

-----------------------------------------------------------------------------
(* Errors in a queue, and which sink they speak of.                        *)

About(i, fresh) == [out |-> i, fresh |-> fresh]

MentionedIn(i, q) == \E k \in DOMAIN q : q[k].out = i
StaleIn(i, q)     == \E k \in DOMAIN q : q[k].out = i /\ ~ q[k].fresh

\* The sink in slot i goes: from now on its errors speak of the past.
Outlived(i, q) ==
  [k \in DOMAIN q |-> IF q[k].out = i THEN About(i, FALSE) ELSE q[k]]

\* A send that never blocks: what does not fit is dropped.
Offer(q, e, cap) == IF Len(q) < cap THEN Append(q, e) ELSE q

-----------------------------------------------------------------------------
(* Calls of the driver.                                                    *)

PipeStart ==
  /\ pipe = "new"
  /\ pipe' = "started"
  /\ UNCHANGED <<mu, sink, fatal, perrs>>

\* ReplaceSinkOn returns before it touches the slot: the pipeline is fatal, or
\* the options are refused, or the host does not resolve.
ReplaceRefused(result) ==
  /\ mu = Free
  /\ result = IF fatal = "no" THEN "fail" ELSE "fatal"
  /\ UNCHANGED pipeVars

\* It removes the sink it finds and enters the handshake, holding mu.
ReplaceDials(i) ==
  /\ mu = Free
  /\ fatal = "no"
  /\ mu' = i
  /\ sink' = [sink EXCEPT ![i] = "none"]
  /\ perrs' = Outlived(i, perrs)
  /\ UNCHANGED <<pipe, fatal>>

\* The handshake ends.  A pipeline that failed meanwhile gives the new sink up.
ReplaceReturns(i, result) ==
  /\ mu = i
  /\ mu' = Free
  /\ \/ result = "fail" /\ UNCHANGED sink
     \/ result = "fatal" /\ fatal # "no" /\ UNCHANGED sink
     \/ result = "ok" /\ fatal = "no" /\ sink' = [sink EXCEPT ![i] = "live"]
  /\ UNCHANGED <<pipe, fatal, perrs>>

\* The sink is detached whatever RemoveSinkOn then returns.
RemoveSinkOn(i) ==
  /\ mu = Free
  /\ sink' = [sink EXCEPT ![i] = "none"]
  /\ perrs' = Outlived(i, perrs)
  /\ UNCHANGED <<pipe, mu, fatal>>

\* The errors still queued are read by nobody: a closed channel keeps them.
PipeStop ==
  /\ mu = Free
  /\ pipe' = "stopped"
  /\ sink' = [i \in Outputs |-> "none"]
  /\ UNCHANGED <<mu, fatal, perrs>>

-----------------------------------------------------------------------------
(* The bus handler, on a streaming thread.                                 *)

\* A peer is lost: the srtsink posts, naming its slot...
SinkFails(i) ==
  /\ pipe = "started"
  /\ sink[i] = "live"
  /\ sink' = [sink EXCEPT ![i] = "failing"]
  /\ perrs' = Offer(perrs, About(i, TRUE), PErrsBuffer)
  /\ UNCHANGED <<pipe, mu, fatal>>

\* ... and so may the leaky queue in front of it, whose push was refused.  The
\* classifier knows the primary's queue only: the second output's is taken for
\* an element no new sink can repair.
QueueFails(i) ==
  /\ pipe = "started"
  /\ sink[i] = "failing"
  /\ sink' = [sink EXCEPT ![i] = "dead"]
  /\ \/ /\ i = 0
        /\ perrs' = Offer(perrs, About(i, TRUE), PErrsBuffer)
        /\ UNCHANGED fatal
     \/ /\ i # 0 /\ fatal = "no"
        /\ fatal' = "latched"
        /\ UNCHANGED perrs
     \/ /\ i # 0 /\ fatal # "no"
        /\ perrs' = Offer(perrs, About(NoOutput, TRUE), PErrsBuffer)
        /\ UNCHANGED fatal
  /\ UNCHANGED <<pipe, mu>>

\* Anything else that fails is beyond repair: first latched...
LatchFatal ==
  /\ pipe = "started"
  /\ fatal = "no"
  /\ fatal' = "latched"
  /\ UNCHANGED <<pipe, mu, sink, perrs>>

\* ... then delivered, naming no output.
PostFatal ==
  /\ pipe = "started"
  /\ fatal = "latched"
  /\ fatal' = "posted"
  /\ perrs' = Offer(perrs, About(NoOutput, TRUE), PErrsBuffer)
  /\ UNCHANGED <<pipe, mu, sink>>
=============================================================================
