------------------------------ MODULE DirectFlow ------------------------------
(***************************************************************************)
(* The components without a thread: splitter.c, whose outputs get each     *)
(* input, and passthrough.c with one output.  All work is done in the call *)
(* that sends a buffer, in the thread of the client that sends it.  The    *)
(* calls of one port exclude each other (its send_lock); those of two      *)
(* ports do not: they share the queues, and sent_flags, enabled_flags and  *)
(* error, which no lock guards.  A callback runs inside the send, and the  *)
(* client may send on another port from it.                                *)
(***************************************************************************)
EXTENDS Naturals, Sequences, FiniteSets, SequencesExt

CONSTANTS
  Outputs,     \* output ports of the splitter, 1..n
  OutNum,      \* buffers of an output port
  MaxDepth,    \* input buffers of the client, at most
  MaxInputs, MaxToggles, MaxErrors \* bounds

In == 0
Nothing == 0

VARIABLES
  kind, depth, serial, \* the component; the client's input buffers; does one
                       \* thread send on all ports, and not from a callback?
  pc, hand,            \* where a port's send is, and the input it has taken
  inq, outq,           \* the queues of the ports
  enabledFlags, sentFlags, error,
  loaded,              \* sent_flags as a call read it to set a bit of it
  met,                 \* inputs taken between another input's return and the
                       \* clearing of its flags
  next, back, given,   \* inputs sent so far, those returned, those an output gave
  toggles, errors

ports == <<enabledFlags, sentFlags, error, loaded, met>>
dvars == <<kind, depth, serial, pc, hand, inq, outq, ports, next, back, given, toggles, errors>>

PortsUsed == IF kind = "splitter" THEN Outputs ELSE {1}
Threads == {In} \cup Outputs

DInit ==
  /\ kind \in {"splitter", "passthrough"} /\ depth \in 1..MaxDepth /\ serial \in BOOLEAN
  /\ pc = [t \in Threads |-> "idle"] /\ hand = [t \in Threads |-> Nothing]
  /\ inq = <<>> /\ outq = [o \in Outputs |-> 0]
  /\ enabledFlags = PortsUsed /\ sentFlags = {} /\ error = FALSE
  /\ loaded = [t \in Threads |-> {}] /\ met = {}
  /\ next = 0 /\ back = <<>> /\ given = [o \in Outputs |-> {}]
  /\ toggles = 0 /\ errors = 0

\* The client may begin a call on port t.
MayCall(t) == pc[t] = "idle" /\ (serial => \A u \in Threads : pc[u] = "idle")

-----------------------------------------------------------------------------
(* splitter_port_send                                                      *)

SplitIn ==
  /\ kind = "splitter" /\ MayCall(In) /\ next < MaxInputs /\ next - Len(back) < depth
  /\ next' = next + 1 /\ inq' = Append(inq, next')
  /\ pc' = [pc EXCEPT ![In] = IF error THEN "idle" ELSE "take"]
  /\ UNCHANGED <<kind, depth, serial, hand, outq, ports, back, given, toggles, errors>>

SplitOut(o) ==
  /\ kind = "splitter" /\ MayCall(o) /\ o \in enabledFlags /\ outq[o] < OutNum
  /\ outq' = [outq EXCEPT ![o] = @ + 1]
  /\ pc' = [pc EXCEPT ![o] = IF error THEN "idle" ELSE "take"]
  /\ UNCHANGED <<kind, depth, serial, hand, inq, ports, next, back, given, toggles, errors>>

At(act, o) == act \o ToString(o)
Following(o) == IF o + 1 \in Outputs THEN At("give", o + 1) ELSE "check"

\* The first input, whichever port it was sent for.
Take(t) ==
  /\ pc[t] = "take"
  /\ IF inq = <<>> THEN pc' = [pc EXCEPT ![t] = "idle"] /\ UNCHANGED <<hand, inq, met>>
     ELSE /\ hand' = [hand EXCEPT ![t] = Head(inq)] /\ inq' = Tail(inq)
          /\ met' = IF \E u \in Threads : pc[u] = "clear" THEN met \cup {Head(inq)} ELSE met
          /\ pc' = [pc EXCEPT ![t] = At("give", 1)]
  /\ UNCHANGED <<kind, depth, serial, outq, enabledFlags, sentFlags, error, loaded,
                 next, back, given, toggles, errors>>

\* splitter_send_output: an output that has a buffer gets a replica, also if
\* it had one of this input before.
SendOutput(t, o) ==
  /\ pc[t] = At("give", o)
  /\ IF outq[o] = 0 THEN UNCHANGED <<outq, given>> /\ pc' = [pc EXCEPT ![t] = Following(o)]
     ELSE /\ outq' = [outq EXCEPT ![o] = @ - 1]
          /\ given' = [given EXCEPT ![o] = @ \cup {hand[t]}]
          /\ pc' = [pc EXCEPT ![t] = At("load", o)]
  /\ UNCHANGED <<kind, depth, serial, hand, inq, ports, next, back, toggles, errors>>

\* Its bit is set after the callback, by a read and a write.
LoadFlags(t, o) ==
  /\ pc[t] = At("load", o) /\ pc' = [pc EXCEPT ![t] = At("store", o)]
  /\ loaded' = [loaded EXCEPT ![t] = sentFlags]
  /\ UNCHANGED <<kind, depth, serial, hand, inq, outq, enabledFlags, sentFlags, error, met,
                 next, back, given, toggles, errors>>

StoreFlags(t, o) ==
  /\ pc[t] = At("store", o) /\ pc' = [pc EXCEPT ![t] = Following(o)]
  /\ sentFlags' = loaded[t] \cup {o} /\ loaded' = [loaded EXCEPT ![t] = {}]
  /\ UNCHANGED <<kind, depth, serial, hand, inq, outq, enabledFlags, error, met,
                 next, back, given, toggles, errors>>

\* A replica cannot be made: the output buffer is put back, the input queued
\* and an error sent, after which buffers are only queued; if there is no
\* buffer for the event, nothing is remembered.
SendOutputFails(t, o) ==
  /\ pc[t] = At("give", o) /\ outq[o] > 0
  /\ errors < MaxErrors /\ errors' = errors + 1
  /\ inq' = Append(inq, hand[t]) /\ hand' = [hand EXCEPT ![t] = Nothing]
  /\ error' \in {TRUE, error} /\ pc' = [pc EXCEPT ![t] = "idle"]
  /\ UNCHANGED <<kind, depth, serial, outq, enabledFlags, sentFlags, loaded, met,
                 next, back, given, toggles>>

Returned(t) ==
  /\ back' = Append(back, hand[t]) /\ pc' = [pc EXCEPT ![t] = "clear"]
  /\ UNCHANGED inq
Requeued(t) ==
  /\ inq' = Append(inq, hand[t]) /\ pc' = [pc EXCEPT ![t] = "idle"]
  /\ UNCHANGED back

\* Mutant: one output is enough.
CheckAny(t) ==
  /\ pc[t] = "check" /\ hand' = [hand EXCEPT ![t] = Nothing]
  /\ IF sentFlags # {} THEN Returned(t) ELSE Requeued(t)
  /\ UNCHANGED <<kind, depth, serial, outq, ports, next, given, toggles, errors>>

\* An input every enabled output has had is returned; another one is put at
\* the end of the queue.
Check(t) ==
  /\ pc[t] = "check" /\ hand' = [hand EXCEPT ![t] = Nothing]
  /\ IF enabledFlags \subseteq sentFlags THEN Returned(t) ELSE Requeued(t)
  /\ UNCHANGED <<kind, depth, serial, outq, ports, next, given, toggles, errors>>

\* The flags are cleared after the callback that returned the input.
Clear(t) ==
  /\ pc[t] = "clear" /\ pc' = [pc EXCEPT ![t] = "idle"]
  /\ sentFlags' = {}
  /\ UNCHANGED <<kind, depth, serial, hand, inq, outq, enabledFlags, error, loaded, met,
                 next, back, given, toggles, errors>>

\* splitter_port_disable of an output, which flushes it, and _enable.
DisableOutput(o) ==
  /\ kind = "splitter" /\ MayCall(o) /\ o \in enabledFlags
  /\ toggles < MaxToggles /\ toggles' = toggles + 1
  /\ enabledFlags' = enabledFlags \ {o} /\ outq' = [outq EXCEPT ![o] = 0]
  /\ UNCHANGED <<kind, depth, serial, pc, hand, inq, sentFlags, error, loaded, met,
                 next, back, given, errors>>

EnableOutput(o) ==
  /\ kind = "splitter" /\ MayCall(o) /\ o \notin enabledFlags
  /\ enabledFlags' = enabledFlags \cup {o}
  /\ UNCHANGED <<kind, depth, serial, pc, hand, inq, outq, sentFlags, error, loaded, met,
                 next, back, given, toggles, errors>>

\* splitter_port_flush, passthrough_port_flush of the input: the splitter's
\* clears the flags when the buffers are returned.
FlushInput ==
  /\ MayCall(In) /\ (inq # <<>> \/ sentFlags # {})
  /\ toggles < MaxToggles /\ toggles' = toggles + 1
  /\ back' = back \o inq /\ inq' = <<>>
  /\ pc' = [pc EXCEPT ![In] = IF kind = "splitter" THEN "clear" ELSE "idle"]
  /\ UNCHANGED <<kind, depth, serial, hand, outq, ports, next, given, errors>>

-----------------------------------------------------------------------------
(* passthrough_port_send                                                   *)

\* Each side looks into the queue of the other,
PassIn ==
  /\ kind = "passthrough" /\ MayCall(In) /\ next < MaxInputs /\ next - Len(back) < depth
  /\ next' = next + 1
  /\ hand' = [hand EXCEPT ![In] = next']
  /\ pc' = [pc EXCEPT ![In] = IF error THEN "queue" ELSE "match"]
  /\ UNCHANGED <<kind, depth, serial, inq, outq, ports, back, given, toggles, errors>>

PassOut ==
  /\ kind = "passthrough" /\ MayCall(1) /\ outq[1] < OutNum
  /\ pc' = [pc EXCEPT ![1] = IF error THEN "queue" ELSE "match"]
  /\ UNCHANGED <<kind, depth, serial, hand, inq, outq, ports, next, back, given, toggles, errors>>

Matches(t) == pc[t] = "match" /\ IF t = In THEN outq[1] > 0 ELSE inq # <<>>
Input(t) == IF t = In THEN hand[In] ELSE Head(inq)

\* passes the input on if there is a match (nothing of the component is read
\* or written between its two callbacks),
Pass(t) ==
  /\ Matches(t)
  /\ IF t = In THEN outq' = [outq EXCEPT ![1] = @ - 1] /\ UNCHANGED inq
     ELSE inq' = Tail(inq) /\ UNCHANGED outq
  /\ back' = Append(back, Input(t)) /\ given' = [given EXCEPT ![1] = @ \cup {Input(t)}]
  /\ hand' = [hand EXCEPT ![t] = Nothing] /\ pc' = [pc EXCEPT ![t] = "idle"]
  /\ UNCHANGED <<kind, depth, serial, ports, next, toggles, errors>>

\* or, if no replica can be made, queues both and sends an error, if there is a
\* buffer for the event,
PassFails(t) ==
  /\ Matches(t) /\ errors < MaxErrors /\ errors' = errors + 1
  /\ IF t = In THEN inq' = Append(inq, hand[In]) /\ UNCHANGED outq
     ELSE inq' = Append(Tail(inq), Head(inq)) /\ outq' = [outq EXCEPT ![1] = @ + 1]
  /\ hand' = [hand EXCEPT ![t] = Nothing] /\ pc' = [pc EXCEPT ![t] = "idle"]
  /\ error' \in {TRUE, error}
  /\ UNCHANGED <<kind, depth, serial, enabledFlags, sentFlags, loaded, met, next, back, given,
                 toggles>>

NoMatch(t) ==
  /\ pc[t] = "match" /\ ~Matches(t)
  /\ pc' = [pc EXCEPT ![t] = "queue"]
  /\ UNCHANGED <<kind, depth, serial, hand, inq, outq, ports, next, back, given, toggles, errors>>

\* and queues its own buffer if there is none.
Enqueue(t) ==
  /\ pc[t] = "queue" /\ pc' = [pc EXCEPT ![t] = "idle"]
  /\ IF t = In THEN inq' = Append(inq, hand[In]) /\ UNCHANGED outq
     ELSE outq' = [outq EXCEPT ![1] = @ + 1] /\ UNCHANGED inq
  /\ hand' = [hand EXCEPT ![t] = Nothing]
  /\ UNCHANGED <<kind, depth, serial, ports, next, back, given, toggles, errors>>

DNext ==
  \/ SplitIn \/ PassIn \/ PassOut \/ FlushInput
  \/ \E o \in Outputs : SplitOut(o) \/ DisableOutput(o) \/ EnableOutput(o)
  \/ \E t \in Threads : \/ Take(t) \/ Check(t) \/ Clear(t) \/ Pass(t) \/ PassFails(t) \/ NoMatch(t)
                        \/ Enqueue(t)
                        \/ \E o \in Outputs : \/ SendOutput(t, o) \/ LoadFlags(t, o)
                                              \/ StoreFlags(t, o) \/ SendOutputFails(t, o)

DSpec == DInit /\ [][DNext]_dvars

-----------------------------------------------------------------------------
(* Properties                                                              *)

TypeOK ==
  /\ Len(inq) <= depth /\ Len(back) <= next /\ next \in 0..MaxInputs
  /\ \A o \in Outputs : outq[o] \in 0..OutNum
  /\ enabledFlags \subseteq Outputs /\ sentFlags \subseteq Outputs

\* splitter_port_send, passthrough_port_send: however sends interleave, an
\* input is in one place: taken by one call, queued, or back at the client.
InputInOnePlace ==
  LET taken == SelectSeq([t \in 1..Cardinality(Threads) |-> hand[t - 1]], LAMBDA i : i # Nothing)
  IN SetToSortSeq(1..next, <) = SortSeq(inq \o back \o taken, <)

\* splitter_port_send: with one input at a time, it comes back when every
\* enabled output has had it and not before, whichever threads send.  Not if it
\* was taken between the return of the one before and the clearing of that
\* one's flags: a client that sends it from the callback then gets it back with
\* outputs left out (EveryOutputServed).
ReachesAllEnabled ==
  [][kind = "splitter" /\ depth = 1 /\ back' # back /\ toggles' = toggles
       /\ Last(back') \notin met =>
       \A o \in enabledFlags : Last(back') \in given[o]]_dvars

\* What the comments of splitter_port_send say ("Check if we're done with the
\* input buffer", "We're not done yet so put the buffer back in the queue"):
\* with one input at a time and no output disabled, an input that is back has
\* reached every output.
EveryOutputServed ==
  kind = "splitter" /\ depth = 1 /\ toggles = 0 =>
    \A n \in 1..Len(back), o \in Outputs : back[n] \in given[o]

\* Both, with one thread that sends: no input waits that could be passed on.
\* Two threads may each find nothing and then queue what the other looked for;
\* so may a failure, which leaves an input and an output buffer queued (for
\* good, or until the next send if its error event could not be sent).
NothingForgotten ==
  serial /\ errors = 0 /\ inq # <<>> /\ (\A t \in Threads : pc[t] = "idle") =>
    IF kind = "splitter" THEN \E o \in Outputs : outq[o] = 0 ELSE outq[1] = 0

\* passthrough_port_send, with one thread: inputs leave in order, each once. A
\* failure that could not be told puts the input behind those that follow.
PassedInOrder ==
  [][kind = "passthrough" /\ serial /\ (errors = 0 \/ error) =>
       \A new \in given'[1] \ given[1], old \in given[1] : old < new]_dvars
=============================================================================
