----------------------------- MODULE ClockPort ------------------------------
(***************************************************************************)
(* Two connected clock ports (mmal_port_clock.c and the connection of      *)
(* mmal_port.c).  Each keeps empty headers in a queue; a reference port    *)
(* takes one to forward an update of its clock to the other, in the        *)
(* calling thread and through the other's mmal_port_send_buffer.  Both     *)
(* ports are "input" and "output": a header with data goes across, an      *)
(* empty one goes back through the pool or across.                         *)
(***************************************************************************)
EXTENDS Naturals, FiniteSets, TLAPS

CONSTANTS
  Headers,     \* headers of the pool between the ports
  Setters,     \* threads that set a port's clock
  MaxSets,     \* bound: updates made
  Serialised,  \* are the calls that set a port's clock made one at a time?
  FlushAlways  \* may a port be flushed whatever the other does with events?

Ports == {"in", "out"}
Other(p) == IF p = "in" THEN "out" ELSE "in"
Nobody == "nobody"
None == "none"

VARIABLES
  reference,   \* ports that forward their updates
  notifies,    \* ports whose component has an event callback and keeps the event
  enabled,     \* is_enabled
  value,       \* the clock of each port: the last update it has
  queue,       \* empty headers of each port
  pool,        \* headers in the pool
  kept,        \* headers each port's component keeps with an event
  sendLock,    \* send_lock of each port
  at, port, update, header,  \* each thread: where, on which port, with what
  sets,        \* so far
  unsent,      \* history: ports with an update nobody was told of
  flushed,     \* history: was a port flushed?
  crossed      \* history: headers lost by an event sent to a disabled port

portVars == <<reference, notifies, enabled>>
headVars == <<queue, pool, kept, crossed>>
threadVars == <<at, port, update, header>>
cpvars == <<portVars, value, headVars, sendLock, threadVars, sets, unsent, flushed>>

Threads == Setters \cup {"client", "component"}

\* The bidirectional ports start connected and disabled.  A port that keeps
\* no events answers with the sender's lock, so that only one may forward.
CPInit ==
  /\ reference \in SUBSET Ports \ {{}} /\ notifies \in SUBSET Ports
  /\ Cardinality(reference) = 2 => notifies # {}
  /\ enabled = [p \in Ports |-> FALSE]
  /\ value = [p \in Ports |-> 0]
  /\ queue = [p \in Ports |-> {}] /\ pool = {} /\ kept = [p \in Ports |-> {}]
  /\ sendLock = [p \in Ports |-> Nobody]
  /\ at = [t \in Threads |-> "idle"] /\ port = [t \in Threads |-> "out"]
  /\ update = [t \in Threads |-> 0] /\ header = [t \in Threads |-> None]
  /\ sets = 0 /\ unsent = {} /\ flushed = FALSE /\ crossed = {}

Goto(t, place) == at' = [at EXCEPT ![t] = place]

\* Headers in transit at a port: with it, or in its callback.
Transit(p) ==
  queue[p] \cup kept[p]
    \cup {header[t] : t \in {u \in Threads : port[u] = p /\ header[u] # None}}
    \cup {header[t] : t \in {u \in Threads : port[u] = Other(p) /\ at[u] = "return"}}

\* mmal_port_send_buffer of an empty header to p: it is queued.
Puts(p, h) == queue' = [queue EXCEPT ![p] = @ \cup {h}]

-----------------------------------------------------------------------------
(* The client: enabling, disabling and flushing                            *)

\* Mutant: every header is sent to the output.
PopulateOut ==
  /\ queue' = [queue EXCEPT !["out"] = Headers]
  /\ enabled' = [p \in Ports |-> TRUE]
  /\ UNCHANGED <<reference, notifies, value, pool, kept, crossed, sendLock,
                 threadVars, sets, unsent, flushed>>

\* mmal_port_enable and mmal_port_populate_clock_ports: the headers are sent
\* to the two ports in turn.
Populate ==
  /\ \E half \in SUBSET Headers :
       /\ Cardinality(half) = Cardinality(Headers \ half)
       /\ queue' = [p \in Ports |-> IF p = "out" THEN half ELSE Headers \ half]
  /\ enabled' = [p \in Ports |-> TRUE]
  /\ UNCHANGED <<reference, notifies, value, pool, kept, crossed, sendLock,
                 threadVars, sets, unsent, flushed>>

Enable ==
  /\ at["client"] = "idle" /\ \A p \in Ports : ~enabled[p]
  /\ sets < MaxSets /\ \A t \in Threads : at[t] = "idle"
  /\ Populate

\* mmal_port_disable: the output first.  mmal_port_clock_flush gives the
\* queue back to the pool,
Disable(p) ==
  /\ at["client"] = (IF p = "out" THEN "idle" ELSE "disable_in")
  /\ enabled[p] /\ sendLock[p] = Nobody
  /\ enabled' = [enabled EXCEPT ![p] = FALSE]
  /\ pool' = pool \cup queue[p] /\ queue' = [queue EXCEPT ![p] = {}]
  /\ Goto("client", IF p = "out" THEN "wait_out" ELSE "wait_in")
  /\ UNCHANGED <<reference, notifies, value, kept, crossed, sendLock, port, update,
                 header, sets, unsent, flushed>>

\* then what is in transit is waited for; in the end the pool is destroyed.
DisableWait(p) ==
  /\ at["client"] = (IF p = "out" THEN "wait_out" ELSE "wait_in")
  /\ Transit(p) = {}
  /\ Goto("client", IF p = "out" THEN "disable_in" ELSE "idle")
  /\ IF p = "out" THEN UNCHANGED <<pool, crossed>> ELSE pool' = {} /\ crossed' = {}
  /\ UNCHANGED <<portVars, value, queue, kept, sendLock, port, update, header, sets,
                 unsent, flushed>>

\* mmal_port_flush: with the port's lock, each header of the queue goes
\* through the callback, which sends an empty header to the other port.
FlushStart(p) ==
  /\ at["client"] = "idle" /\ enabled[p] /\ sendLock[p] = Nobody
  /\ FlushAlways \/ Other(p) \in notifies
  /\ sendLock' = [sendLock EXCEPT ![p] = "client"]
  /\ port' = [port EXCEPT !["client"] = p]
  /\ Goto("client", "flush")
  /\ flushed' = TRUE
  /\ UNCHANGED <<portVars, value, headVars, update, header, sets, unsent>>

Flush ==
  LET p == port["client"] IN
  /\ at["client"] = "flush"
  /\ IF queue[p] = {}
     THEN /\ sendLock' = [sendLock EXCEPT ![p] = Nobody]
          /\ Goto("client", "idle") /\ UNCHANGED queue
     ELSE /\ sendLock[Other(p)] = Nobody
          /\ \E h \in queue[p] :
               queue' = [queue EXCEPT ![p] = @ \ {h}, ![Other(p)] = @ \cup {h}]
          /\ UNCHANGED <<sendLock, at>>
  /\ UNCHANGED <<portVars, value, pool, kept, crossed, port, update, header, sets,
                 unsent, flushed>>

-----------------------------------------------------------------------------
(* Updates                                                                 *)

\* mmal_port_clock_active_set, _scale_set, _media_time_set and the others:
\* the port's own clock is set,
Set(t, p) ==
  /\ at[t] = "idle" /\ sets < MaxSets
  /\ Serialised => \A u \in Setters : at[u] = "idle"
  /\ sets' = sets + 1
  /\ value' = [value EXCEPT ![p] = sets + 1]
  /\ update' = [update EXCEPT ![t] = sets + 1]
  /\ port' = [port EXCEPT ![t] = p]
  /\ Goto(t, IF p \in reference THEN "forward" ELSE "idle")
  /\ UNCHANGED <<portVars, headVars, sendLock, header, unsent, flushed>>

\* and mmal_port_clock_forward_event takes an empty header, if there is one.
Forward(t) ==
  LET p == port[t] IN
  /\ at[t] = "forward"
  /\ IF queue[p] = {}
     THEN /\ Goto(t, "idle") /\ unsent' = unsent \cup {p} /\ UNCHANGED <<queue, header>>
     ELSE /\ \E h \in queue[p] : /\ header' = [header EXCEPT ![t] = h]
                                 /\ queue' = [queue EXCEPT ![p] = @ \ {h}]
          /\ Goto(t, "send") /\ UNCHANGED unsent
  /\ UNCHANGED <<portVars, value, pool, kept, crossed, sendLock, port, update, sets,
                 flushed>>

\* Back(p, h): an empty header leaves the callback of p.  That of the input
\* releases it and the pool's callback sends it to the output; that of the
\* output sends it to the input, and releases it if it is refused.
Home(p) == IF enabled[Other(p)] THEN Other(p) ELSE IF enabled["out"] THEN "out" ELSE "pool"
Back(p, h) ==
  IF Home(p) = "pool" THEN pool' = pool \cup {h} /\ UNCHANGED queue
  ELSE Puts(Home(p), h) /\ UNCHANGED pool

\* The callback of p sends the header to the other port.  A disabled output
\* refuses it, and mmal_port_connected_input_cb does not look at that; the
\* callback of the output gives it back to the pool.
Refused(t) ==
  LET p == port[t] IN
  /\ at[t] = "send" /\ sendLock[Other(p)] = Nobody /\ ~enabled[Other(p)]
  /\ IF p = "in" THEN crossed' = crossed \cup {header[t]} /\ UNCHANGED <<pool, queue>>
     ELSE Back(p, header[t]) /\ UNCHANGED crossed
  /\ header' = [header EXCEPT ![t] = None] /\ Goto(t, "idle")
  /\ unsent' = unsent \cup {p}
  /\ UNCHANGED <<portVars, value, kept, sendLock, port, update, sets, flushed>>

\* Mutant: the header is put in the receiver's queue at once.
ProcessKeeps(t) ==
  LET q == Other(port[t]) IN
  /\ at[t] = "send" /\ sendLock[q] = Nobody /\ enabled[q]
  /\ value' = [value EXCEPT ![q] = update[t]]
  /\ Puts(q, header[t])
  /\ header' = [header EXCEPT ![t] = None] /\ Goto(t, "idle")
  /\ UNCHANGED <<portVars, pool, kept, crossed, sendLock, port, update, sets, unsent,
                 flushed>>

\* mmal_port_clock_process_buffer, under the receiver's lock: its clock is
\* set, and its component keeps the event or the header is given back.
Process(t) ==
  LET q == Other(port[t]) IN
  /\ at[t] = "send" /\ sendLock[q] = Nobody /\ enabled[q]
  /\ value' = [value EXCEPT ![q] = update[t]]
  /\ IF q \in notifies
     THEN /\ kept' = [kept EXCEPT ![q] = @ \cup {header[t]}]
          /\ header' = [header EXCEPT ![t] = None] /\ Goto(t, "idle")
          /\ UNCHANGED sendLock
     ELSE /\ sendLock' = [sendLock EXCEPT ![q] = t]
          /\ Goto(t, "return") /\ UNCHANGED <<kept, header>>
  /\ UNCHANGED <<portVars, queue, pool, crossed, port, update, sets, unsent, flushed>>

\* The header goes back, with the receiver's lock held.
Return(t) ==
  LET q == Other(port[t]) IN
  /\ at[t] = "return"
  /\ Home(q) # "pool" => sendLock[Home(q)] \in {Nobody} \cup IF Home(q) = q THEN {t} ELSE {}
  /\ Back(q, header[t])
  /\ sendLock' = [sendLock EXCEPT ![q] = Nobody]
  /\ header' = [header EXCEPT ![t] = None] /\ Goto(t, "idle")
  /\ UNCHANGED <<portVars, value, kept, crossed, port, update, sets, unsent, flushed>>

\* The component is done with an event and gives the header back.
ComponentReturns(q) ==
  /\ \E h \in kept[q] :
       /\ Home(q) # "pool" => sendLock[Home(q)] = Nobody
       /\ Back(q, h)
       /\ kept' = [kept EXCEPT ![q] = @ \ {h}]
  /\ UNCHANGED <<portVars, value, crossed, sendLock, threadVars, sets, unsent, flushed>>

SetterRuns(t) == Forward(t) \/ Refused(t) \/ Process(t) \/ Return(t)
ClientRuns == Flush \/ Disable("in") \/ \E p \in Ports : DisableWait(p)

CPNext ==
  \/ Enable \/ Disable("out") \/ ClientRuns
  \/ \E p \in Ports : FlushStart(p) \/ ComponentReturns(p)
  \/ \E t \in Setters : SetterRuns(t) \/ \E p \in Ports : Set(t, p)

\* Threads in a call run on, components give events back.
CPFair == /\ \A t \in Setters : SF_cpvars(SetterRuns(t))
          /\ WF_cpvars(ClientRuns)
          /\ \A p \in Ports : WF_cpvars(ComponentReturns(p))
CPSpec == CPInit /\ [][CPNext]_cpvars
CPFairSpec == CPSpec /\ CPFair

-----------------------------------------------------------------------------
(* Properties                                                              *)

Quiet == /\ \A t \in Threads : at[t] = "idle"
         /\ \A p \in Ports : kept[p] = {}

\* Each port keeps its share: the header an update was sent with comes back
\* to the port that sent it, whichever way it went, so that no port runs out
\* of headers for its updates; until a flush moves the headers of a port to
\* the other.
SharesKept ==
  Quiet /\ ~flushed /\ enabled["out"] =>
    Cardinality(queue["in"]) = Cardinality(queue["out"])

\* A port that follows has the last update of its reference, unless that
\* could not be sent for want of a header or of an enabled port.
FollowerAgrees ==
  \A p \in Ports : Quiet /\ reference = {p} /\ p \notin unsent /\ enabled["out"]
                     => value[Other(p)] >= value[p]

\* Where a header may be, and the headers that are there.
Places == {"queue", "kept"} \X Ports \cup {"thread"} \X Threads
            \cup {<<"pool", "out">>, <<"crossed", "out">>}
Holds(place) ==
  CASE place[1] = "queue" -> queue[place[2]]
    [] place[1] = "kept" -> kept[place[2]]
    [] place[1] = "thread" -> {header[place[2]]} \ {None}
    [] place[1] = "pool" -> pool
    [] place[1] = "crossed" -> crossed

\* No header is in two places, and none is lost but by an event that meets an
\* output already disabled.
HeaderOnce ==
  enabled["in"] =>
    \A h \in Headers : \E x \in Places : \A y \in Places : h \in Holds(y) <=> y = x

\* Every call returns: the two ports' locks are never waited for in a circle.
CallsReturn == \A t \in Threads : []<>(at[t] = "idle")
-----------------------------------------------------------------------------
(* Proofs.  The headers a port has a share in: its queue, those it forwards  *)
(* an update with, and those the other port's component keeps with one.      *)

\* The client and the components set no clock, and no header is the lack of one.
ClientApart == Setters \cap {"client", "component"} = {} /\ None \notin Headers

Carried(p) == {header[t] : t \in {u \in Setters : port[u] = p /\ header[u] # None}}
Share(p) == queue[p] \cup Carried(p) \cup kept[Other(p)]

CPTypeOK ==
  /\ reference \in SUBSET Ports /\ enabled \in [Ports -> BOOLEAN]
  /\ value \in [Ports -> Nat] /\ sets \in Nat
  /\ queue \in [Ports -> SUBSET Headers] /\ kept \in [Ports -> SUBSET Headers]
  /\ at \in [Threads -> {"idle", "forward", "send", "return", "flush", "wait_out",
                         "disable_in", "wait_in"}]
  /\ port \in [Threads -> Ports] /\ update \in [Threads -> Nat]
  /\ header \in [Threads -> Headers \cup {None}]

\* Where the setters are, and what they carry there.
CarryInv ==
  /\ \A t \in Setters : at[t] \in {"idle", "forward", "send", "return"}
  /\ \A t \in Setters : header[t] # None <=> at[t] \in {"send", "return"}

\* The client takes both ports down and up again together.
EnabledInv ==
  /\ at["client"] \in {"idle", "flush", "wait_out", "disable_in", "wait_in"}
  /\ at["client"] = "idle" => enabled["in"] = enabled["out"]
  /\ at["client"] = "flush" => enabled["in"] /\ enabled["out"] /\ flushed
  /\ at["client"] \in {"wait_out", "disable_in"} => enabled["in"] /\ ~enabled["out"]
  /\ at["client"] = "wait_in" => ~enabled["in"] /\ ~enabled["out"]

\* A component keeps nothing of a port that is down and was waited for.
KeptInv ==
  /\ at["client"] \in {"disable_in", "wait_in"} => kept["out"] = {}
  /\ at["client"] = "idle" /\ ~enabled["out"] => \A p \in Ports : kept[p] = {}

ShareInv ==
  enabled["out"] /\ ~flushed => Cardinality(Share("in")) = Cardinality(Share("out"))

\* One update is under way at a time, of a port that forwards it.
UpdateInv ==
  /\ \A t, u \in Setters : at[t] # "idle" /\ at[u] # "idle" => t = u
  /\ \A t \in Setters : at[t] \in {"forward", "send"} /\ reference = {port[t]}
                          => update[t] = value[port[t]]
  /\ \A t \in Setters : at[t] # "idle" => port[t] \in reference
  /\ \A p \in Ports : value[p] <= sets
  /\ \A t \in Setters : update[t] <= sets

\* The follower has the last update, or it is under way, or was not sent.
FollowInv ==
  \A p \in Ports : reference = {p} =>
    \/ value[Other(p)] >= value[p]
    \/ p \in unsent
    \/ \E t \in Setters : at[t] \in {"forward", "send"} /\ port[t] = p

\* What is disabled has been emptied; the client and the components carry nothing.
GoneInv ==
  /\ \A p \in Ports : ~enabled[p] => queue[p] = {}
  /\ at["client"] \in {"disable_in", "wait_in"} => Carried("out") = {}
  /\ at["client"] = "idle" /\ ~enabled["out"] =>
       pool = {} /\ crossed = {} /\ \A t \in Setters : header[t] = None
  /\ header["client"] = None /\ header["component"] = None

StateInv == CPTypeOK /\ CarryInv /\ EnabledInv /\ KeptInv /\ ShareInv
CPInv == StateInv /\ UpdateInv /\ FollowInv

LEMMA OtherPort ==
  ASSUME NEW p \in Ports
  PROVE  Other(p) \in Ports /\ Other(Other(p)) = p /\ Other(p) # p
BY DEF Ports, Other

LEMMA PortPair == "in" \in Ports /\ "out" \in Ports /\ Other("in") = "out" /\ Other("out") = "in"
BY DEF Ports, Other

\* A header is taken along with an update, and given up again.
LEMMA CarriedMore ==
  ASSUME CPTypeOK, NEW t \in Setters, NEW h, h # None, header[t] = None,
         header' = [header EXCEPT ![t] = h], port' = port, NEW p \in Ports
  PROVE  Carried(p)' = IF p = port[t] THEN Carried(p) \cup {h} ELSE Carried(p)
<1>1. header'[t] = h /\ \A u \in Setters : u # t => header'[u] = header[u]
  BY DEF CPTypeOK, Threads
<1> QED
  BY <1>1 DEF Carried

LEMMA CarriedLess ==
  ASSUME CPTypeOK, NEW t \in Setters, header[t] # None,
         header' = [header EXCEPT ![t] = None], port' = port, NEW p \in Ports
  PROVE  /\ p = port[t] => Carried(p) = Carried(p)' \cup {header[t]}
         /\ p # port[t] => Carried(p) = Carried(p)'
<1>1. header'[t] = None /\ \A u \in Setters : u # t => header'[u] = header[u]
  BY DEF CPTypeOK, Threads
<1> QED
  BY <1>1 DEF Carried

LEMMA SharesStay ==
  ASSUME ShareInv, UNCHANGED <<enabled, flushed>>,
         enabled["out"] /\ ~flushed => \A p \in Ports : Share(p)' = Share(p)
  PROVE  ShareInv'
BY PortPair DEF ShareInv

\* With both ports enabled a header goes back to the port its update came from.
LEMMA HomeAgain ==
  ASSUME NEW q \in Ports, enabled["in"], enabled["out"]
  PROVE  Home(q) = Other(q) /\ Other(q) # "pool"
BY DEF Home, Ports, Other

LEMMA PortsStart ==
  ASSUME CPInit PROVE CPInv
<1> USE DEF CPInit
<1>1. StateInv
  <2>1. CPTypeOK
    BY DEF CPTypeOK, Ports
  <2>2. CarryInv /\ EnabledInv /\ KeptInv
    BY PortPair DEF CarryInv, EnabledInv, KeptInv, Threads
  <2>3. ShareInv
    BY PortPair DEF ShareInv
  <2> QED
    BY <2>1, <2>2, <2>3 DEF StateInv
<1>2. UpdateInv
  BY DEF UpdateInv, Threads
<1>3. FollowInv
  BY OtherPort DEF FollowInv
<1> QED
  BY <1>1, <1>2, <1>3 DEF CPInv

LEMMA EnableKeeps ==
  ASSUME ClientApart, StateInv, Enable PROVE StateInv'
<1> USE DEF StateInv, CPTypeOK
<1>1. PICK half \in SUBSET Headers :
        /\ Cardinality(half) = Cardinality(Headers \ half)
        /\ queue' = [p \in Ports |-> IF p = "out" THEN half ELSE Headers \ half]
  BY DEF Enable, Populate
<1>2. /\ at["client"] = "idle" /\ ~enabled["out"] /\ \A t \in Threads : at[t] = "idle"
      /\ enabled' = [p \in Ports |-> TRUE]
      /\ UNCHANGED <<reference, value, kept, threadVars, sets>>
  BY PortPair DEF Enable, Populate
<1>3. CPTypeOK'
  BY <1>1, <1>2 DEF threadVars
<1>4. CarryInv' /\ EnabledInv' /\ KeptInv'
  <2>1. enabled'["in"] /\ enabled'["out"]
    BY <1>2, PortPair
  <2> QED
    BY <1>2, <2>1 DEF CarryInv, EnabledInv, KeptInv, threadVars
<1>5. ShareInv'
  <2>1. ASSUME NEW p \in Ports
        PROVE  Share(p)' = queue'[p]
    <3>1. kept'[Other(p)] = {}
      BY <1>2, OtherPort DEF KeptInv
    <3>2. \A u \in Setters : header'[u] = None
      BY <1>2 DEF CarryInv, Threads, threadVars
    <3>3. Carried(p)' = {}
      BY <3>2 DEF Carried
    <3> QED
      BY <3>1, <3>3 DEF Share
  <2>2. Share("in")' = Headers \ half /\ Share("out")' = half
    BY <1>1, <2>1, PortPair
  <2> QED
    BY <1>1, <2>2 DEF ShareInv
<1> QED
  BY <1>3, <1>4, <1>5

LEMMA DisableKeeps ==
  ASSUME ClientApart, StateInv, NEW p \in Ports, Disable(p) PROVE StateInv'
<1> USE DEF StateInv
<1>1. /\ at["client"] = IF p = "out" THEN "idle" ELSE "disable_in"
      /\ enabled[p] /\ enabled' = [enabled EXCEPT ![p] = FALSE]
      /\ queue' = [queue EXCEPT ![p] = {}]
      /\ at' = [at EXCEPT !["client"] = IF p = "out" THEN "wait_out" ELSE "wait_in"]
      /\ UNCHANGED <<reference, value, kept, port, update, header, sets, flushed>>
  BY DEF Disable, Goto
<1>2. /\ "client" \in Threads
      /\ at'["client"] = IF p = "out" THEN "wait_out" ELSE "wait_in"
      /\ \A t \in Setters : t \in Threads /\ at'[t] = at[t]
  BY <1>1 DEF ClientApart, CPTypeOK, Threads
<1>3. CPTypeOK'
  BY <1>1 DEF CPTypeOK
<1>4. CarryInv'
  BY <1>1, <1>2 DEF CarryInv
<1>5. ~enabled'["out"] /\ (p = "out" => enabled'["in"]) /\ (p = "in" => ~enabled'["in"])
  BY <1>1, PortPair DEF EnabledInv, CPTypeOK
<1>6. EnabledInv'
  BY <1>2, <1>5 DEF EnabledInv, Ports
<1>7. KeptInv'
  BY <1>1, <1>2 DEF KeptInv, Ports
<1>8. ShareInv'
  BY <1>5 DEF ShareInv
<1> QED
  BY <1>3, <1>4, <1>6, <1>7, <1>8

LEMMA WaitKeeps ==
  ASSUME ClientApart, StateInv, NEW p \in Ports, DisableWait(p) PROVE StateInv'
<1> USE DEF StateInv
<1>1. /\ at["client"] = IF p = "out" THEN "wait_out" ELSE "wait_in"
      /\ Transit(p) = {}
      /\ at' = [at EXCEPT !["client"] = IF p = "out" THEN "disable_in" ELSE "idle"]
      /\ UNCHANGED <<reference, enabled, value, queue, kept, port, update, header, sets,
                     flushed>>
  BY DEF DisableWait, Goto, portVars
<1>2. /\ "client" \in Threads
      /\ at'["client"] = IF p = "out" THEN "disable_in" ELSE "idle"
      /\ \A t \in Setters : t \in Threads /\ at'[t] = at[t]
  BY <1>1 DEF ClientApart, CPTypeOK, Threads
<1>3. CPTypeOK'
  BY <1>1 DEF CPTypeOK
<1>4. CarryInv'
  BY <1>1, <1>2 DEF CarryInv
<1>5. EnabledInv'
  <2>1. enabled'["in"] = enabled["in"] /\ enabled'["out"] = enabled["out"]
    BY <1>1
  <2>2. CASE p = "out"
    BY <1>1, <1>2, <2>1, <2>2 DEF EnabledInv
  <2>3. CASE p = "in"
    <3>1. enabled["in"] = FALSE /\ enabled["out"] = FALSE
      BY <1>1, <2>3, PortPair DEF EnabledInv, CPTypeOK
    <3> QED
      BY <1>2, <2>1, <2>3, <3>1 DEF EnabledInv
  <2> QED
    BY <2>2, <2>3 DEF Ports
<1>6. kept[p] = {}
  BY <1>1 DEF Transit
<1>7. KeptInv'
  <2>1. CASE p = "out"
    BY <1>1, <1>2, <1>6, <2>1 DEF KeptInv
  <2>2. CASE p = "in"
    <3>1. kept["out"] = {} /\ kept["in"] = {}
      BY <1>1, <1>6, <2>2 DEF KeptInv
    <3> QED
      BY <1>1, <1>2, <2>2, <3>1 DEF KeptInv, Ports
  <2> QED
    BY <2>1, <2>2 DEF Ports
<1>8. ShareInv'
  <2>1. ~enabled["out"]
    BY <1>1 DEF EnabledInv
  <2> QED
    BY <1>1, <2>1 DEF ShareInv
<1> QED
  BY <1>3, <1>4, <1>5, <1>7, <1>8

LEMMA FlushKeeps ==
  ASSUME ClientApart, StateInv, Flush \/ \E p \in Ports : FlushStart(p) PROVE StateInv'
<1> USE DEF StateInv
<1>1. CASE Flush
  <2> DEFINE p == port["client"]
  <2>1. /\ at["client"] = "flush" /\ p \in Ports /\ Other(p) \in Ports
        /\ UNCHANGED <<reference, enabled, value, kept, port, update, header, sets, flushed>>
    BY <1>1, OtherPort DEF Flush, portVars, CPTypeOK, Threads
  <2>2. \/ at' = [at EXCEPT !["client"] = "idle"] /\ queue' = queue
        \/ /\ at' = at
           /\ \E h \in queue[p] :
                queue' = [queue EXCEPT ![p] = @ \ {h}, ![Other(p)] = @ \cup {h}]
    BY <1>1 DEF Flush, Goto
  <2>3. queue' \in [Ports -> SUBSET Headers]
    BY <2>1, <2>2 DEF CPTypeOK
  <2>4. /\ at'["client"] \in {"idle", "flush"}
        /\ \A t \in Setters : t \in Threads /\ at'[t] = at[t]
    BY <2>1, <2>2 DEF ClientApart, CPTypeOK, Threads
  <2>5. CPTypeOK'
    BY <2>1, <2>2, <2>3 DEF CPTypeOK
  <2>6. CarryInv' /\ EnabledInv' /\ KeptInv' /\ ShareInv'
    BY <2>1, <2>4 DEF CarryInv, EnabledInv, KeptInv, ShareInv
  <2> QED
    BY <2>5, <2>6
<1>2. ASSUME NEW p \in Ports, FlushStart(p) PROVE StateInv'
  <2>1. /\ at["client"] = "idle" /\ enabled[p] /\ flushed' = TRUE
        /\ at' = [at EXCEPT !["client"] = "flush"]
        /\ port' = [port EXCEPT !["client"] = p]
        /\ UNCHANGED <<reference, enabled, value, queue, kept, update, header, sets>>
    BY <1>2 DEF FlushStart, Goto, portVars, headVars
  <2>2. /\ "client" \in Threads /\ at'["client"] = "flush"
        /\ \A t \in Setters : t \in Threads /\ at'[t] = at[t]
    BY <2>1 DEF ClientApart, CPTypeOK, Threads
  <2>3. enabled["in"] /\ enabled["out"]
    BY <2>1 DEF EnabledInv, Ports
  <2>4. CPTypeOK'
    BY <2>1 DEF CPTypeOK
  <2>5. CarryInv' /\ EnabledInv' /\ KeptInv' /\ ShareInv'
    BY <2>1, <2>2, <2>3 DEF CarryInv, EnabledInv, KeptInv, ShareInv
  <2> QED
    BY <2>4, <2>5
<1> QED
  BY <1>1, <1>2

\* What a setter's step leaves alone.
LEMMA ClientStays ==
  ASSUME ClientApart, StateInv, NEW t \in Setters, NEW place,
         at' = [at EXCEPT ![t] = place], UNCHANGED <<enabled, flushed>>
  PROVE  /\ t \in Threads /\ at'[t] = place /\ \A u \in Setters : u # t => at'[u] = at[u]
         /\ EnabledInv'
<1>1. "client" \in Threads /\ "client" # t /\ t \in Threads
  BY DEF ClientApart, Threads
<1>2. at'["client"] = at["client"] /\ at'[t] = place
      /\ \A u \in Setters : u # t => at'[u] = at[u]
  BY <1>1 DEF StateInv, CPTypeOK, Threads
<1> QED
  BY <1>1, <1>2 DEF StateInv, EnabledInv

LEMMA KeptStays ==
  ASSUME StateInv, UNCHANGED <<enabled, kept>>, at'["client"] = at["client"]
  PROVE  KeptInv'
BY DEF StateInv, KeptInv

LEMMA ClientHere ==
  ASSUME ClientApart, StateInv, NEW t \in Setters, NEW place,
         at' = [at EXCEPT ![t] = place]
  PROVE  at'["client"] = at["client"]
BY DEF ClientApart, StateInv, CPTypeOK, Threads

LEMMA SetKeeps ==
  ASSUME ClientApart, StateInv, NEW t \in Setters, NEW p \in Ports, Set(t, p)
  PROVE  StateInv'
<1> USE DEF StateInv
<1>1. /\ at[t] = "idle" /\ sets' = sets + 1
      /\ value' = [value EXCEPT ![p] = sets + 1]
      /\ update' = [update EXCEPT ![t] = sets + 1]
      /\ port' = [port EXCEPT ![t] = p]
      /\ at' = [at EXCEPT ![t] = IF p \in reference THEN "forward" ELSE "idle"]
      /\ UNCHANGED <<reference, enabled, queue, kept, header, flushed>>
  BY DEF Set, Goto, portVars, headVars
<1>2. /\ t \in Threads /\ at'[t] \in {"forward", "idle"}
      /\ \A u \in Setters : u # t => at'[u] = at[u]
      /\ EnabledInv' /\ KeptInv'
  BY <1>1, ClientStays, ClientHere, KeptStays
<1>3. CPTypeOK'
  BY <1>1, <1>2 DEF CPTypeOK
<1>4. header[t] = None
  BY <1>1 DEF CarryInv
<1>5. CarryInv'
  BY <1>1, <1>2, <1>4 DEF CarryInv
<1>6. ShareInv'
  <2>1. \A u \in Setters : u # t => port'[u] = port[u]
    BY <1>1 DEF CPTypeOK, Threads
  <2>2. ASSUME NEW q \in Ports PROVE Share(q)' = Share(q)
    <3>1. Carried(q)' = Carried(q)
      BY <1>1, <1>4, <2>1 DEF Carried
    <3> QED
      BY <1>1, <3>1 DEF Share
  <2> QED
    BY <1>1, <2>2, SharesStay
<1> QED
  BY <1>2, <1>3, <1>5, <1>6

LEMMA ForwardKeeps ==
  ASSUME ClientApart, StateInv, NEW t \in Setters, Forward(t) PROVE StateInv'
<1> USE DEF StateInv
<1>1. /\ at[t] = "forward"
      /\ UNCHANGED <<reference, enabled, value, kept, port, update, sets, flushed>>
  BY DEF Forward, portVars
<1>2. header[t] = None /\ t \in Threads /\ port[t] \in Ports
  BY <1>1 DEF CarryInv, CPTypeOK, Threads
<1>3. CASE at' = [at EXCEPT ![t] = "idle"] /\ UNCHANGED <<queue, header>>
  <2>1. /\ at'[t] = "idle" /\ \A u \in Setters : u # t => at'[u] = at[u]
        /\ EnabledInv' /\ KeptInv'
    BY <1>1, <1>3, ClientStays, ClientHere, KeptStays
  <2>2. CPTypeOK' /\ CarryInv'
    BY <1>1, <1>2, <1>3, <2>1 DEF CPTypeOK, CarryInv
  <2>3. ShareInv'
    BY <1>1, <1>3 DEF ShareInv, Share, Carried
  <2> QED
    BY <2>1, <2>2, <2>3
<1>4. ASSUME NEW h \in queue[port[t]], header' = [header EXCEPT ![t] = h],
             queue' = [queue EXCEPT ![port[t]] = @ \ {h}],
             at' = [at EXCEPT ![t] = "send"]
      PROVE  StateInv'
  <2>1. /\ at'[t] = "send" /\ \A u \in Setters : u # t => at'[u] = at[u]
        /\ EnabledInv' /\ KeptInv'
    BY <1>1, <1>4, ClientStays, ClientHere, KeptStays
  <2>2. h \in Headers /\ h # None
    BY <1>2, <1>4 DEF CPTypeOK, ClientApart
  <2>3. CPTypeOK'
    BY <1>1, <1>2, <1>4, <2>2 DEF CPTypeOK
  <2>4. header'[t] = h /\ \A u \in Setters : u # t => header'[u] = header[u]
    BY <1>4 DEF CPTypeOK, Threads
  <2>5. CarryInv'
    BY <2>1, <2>2, <2>4 DEF CarryInv
  <2>6. ASSUME NEW p \in Ports PROVE Share(p)' = Share(p)
    <3>1. Carried(p)' = IF p = port[t] THEN Carried(p) \cup {h} ELSE Carried(p)
      BY <1>1, <1>2, <1>4, <2>2, CarriedMore
    <3>2. queue'[p] = IF p = port[t] THEN queue[p] \ {h} ELSE queue[p]
      BY <1>4 DEF CPTypeOK
    <3>3. kept'[Other(p)] = kept[Other(p)]
      BY <1>1
    <3> QED
      BY <1>4, <3>1, <3>2, <3>3 DEF Share
  <2>7. ShareInv'
    BY <1>1, <2>6, SharesStay
  <2> QED
    BY <2>1, <2>3, <2>5, <2>7
<1> QED
  BY <1>3, <1>4 DEF Forward, Goto

\* The header a setter carries goes to the queue of a port, to a component or away.
LEMMA HeaderGivenUp ==
  ASSUME ClientApart, StateInv, NEW t \in Setters, at[t] \in {"send", "return"},
         header' = [header EXCEPT ![t] = None], at' = [at EXCEPT ![t] = "idle"],
         UNCHANGED <<reference, enabled, port, update, sets, flushed>>,
         value' \in [Ports -> Nat], queue' \in [Ports -> SUBSET Headers],
         kept' \in [Ports -> SUBSET Headers], KeptInv',
         enabled["in"] /\ enabled["out"] => \A p \in Ports :
           queue'[p] \cup kept'[Other(p)]
             = queue[p] \cup kept[Other(p)] \cup IF p = port[t] THEN {header[t]} ELSE {}
  PROVE  StateInv'
<1> USE DEF StateInv
<1>1. /\ t \in Threads /\ at'[t] = "idle" /\ \A u \in Setters : u # t => at'[u] = at[u]
      /\ EnabledInv'
  BY ClientStays
<1>2. CPTypeOK'
  BY <1>1 DEF CPTypeOK
<1>3. header'[t] = None /\ \A u \in Setters : u # t => header'[u] = header[u]
  BY DEF CPTypeOK, Threads
<1>4. CarryInv'
  BY <1>1, <1>3 DEF CarryInv
<1>5. ShareInv'
  <2>1. SUFFICES ASSUME enabled["out"], NEW p \in Ports PROVE Share(p)' = Share(p)
    BY SharesStay
  <2>2. enabled["in"] /\ enabled["out"]
    BY <2>1 DEF EnabledInv, CPTypeOK
  <2>3. queue'[p] \cup kept'[Other(p)]
             = queue[p] \cup kept[Other(p)] \cup IF p = port[t] THEN {header[t]} ELSE {}
    BY <2>2
  <2>4. /\ p = port[t] => Carried(p) = Carried(p)' \cup {header[t]}
        /\ p # port[t] => Carried(p) = Carried(p)'
    <3>1. header[t] # None
      BY DEF CarryInv
    <3> QED
      BY <3>1, CarriedLess
  <2> QED
    BY <2>3, <2>4 DEF Share
<1> QED
  BY <1>1, <1>2, <1>4, <1>5

\* Where an empty header goes from the callback of a port.
LEMMA BackKeeps ==
  ASSUME CPTypeOK, NEW q \in Ports, NEW h \in Headers, Back(q, h)
  PROVE  /\ queue' \in [Ports -> SUBSET Headers]
         /\ enabled["in"] /\ enabled["out"] =>
              queue' = [queue EXCEPT ![Other(q)] = @ \cup {h}]
<1>1. queue' = queue \/ \E p : queue' = [queue EXCEPT ![p] = @ \cup {h}]
  BY DEF Back, Puts
<1>2. queue' \in [Ports -> SUBSET Headers]
  BY <1>1 DEF CPTypeOK
<1>3. enabled["in"] /\ enabled["out"] => queue' = [queue EXCEPT ![Other(q)] = @ \cup {h}]
  BY HomeAgain DEF Back, Puts
<1> QED
  BY <1>2, <1>3

LEMMA RefusedKeeps ==
  ASSUME ClientApart, StateInv, NEW t \in Setters, Refused(t) PROVE StateInv'
<1> USE DEF StateInv
<1>1. /\ at[t] = "send" /\ ~enabled[Other(port[t])]
      /\ header' = [header EXCEPT ![t] = None] /\ at' = [at EXCEPT ![t] = "idle"]
      /\ UNCHANGED <<reference, enabled, value, kept, port, update, sets, flushed>>
      /\ queue' = queue \/ Back(port[t], header[t])
  BY DEF Refused, Goto, portVars
<1>2. port[t] \in Ports /\ header[t] \in Headers
  BY <1>1 DEF CarryInv, CPTypeOK, Threads
<1>3. queue' \in [Ports -> SUBSET Headers]
  BY <1>1, <1>2, BackKeeps DEF CPTypeOK
<1>4. ~(enabled["in"] /\ enabled["out"])
  BY <1>1 DEF Other
<1>5. value' \in [Ports -> Nat] /\ kept' \in [Ports -> SUBSET Headers] /\ KeptInv'
  BY <1>1, ClientHere, KeptStays DEF CPTypeOK
<1> QED
  BY <1>1, <1>3, <1>4, <1>5, HeaderGivenUp

LEMMA ProcessStays ==
  ASSUME ClientApart, StateInv, NEW t \in Setters, Process(t) PROVE StateInv'
<1> USE DEF StateInv
<1> DEFINE q == Other(port[t])
<1>1. /\ at[t] = "send" /\ enabled[q]
      /\ value' = [value EXCEPT ![q] = update[t]]
      /\ UNCHANGED <<reference, enabled, queue, port, update, sets, flushed>>
  BY DEF Process, portVars
<1>2. /\ port[t] \in Ports /\ header[t] \in Headers /\ t \in Threads /\ q \in Ports
      /\ Other(q) = port[t]
  BY <1>1, OtherPort DEF CarryInv, CPTypeOK, Threads
<1>3. value' \in [Ports -> Nat]
  BY <1>1, <1>2 DEF CPTypeOK
<1>4. CASE /\ kept' = [kept EXCEPT ![q] = @ \cup {header[t]}]
           /\ header' = [header EXCEPT ![t] = None]
           /\ at' = [at EXCEPT ![t] = "idle"]
  <2>1. kept' \in [Ports -> SUBSET Headers]
    BY <1>2, <1>4 DEF CPTypeOK
  <2>2. KeptInv'
    <3>1. at'["client"] = at["client"]
      BY <1>4, ClientHere
    <3>2. CASE at["client"] \in {"disable_in", "wait_in"}
      <4>1. q = "in"
        BY <1>1, <1>2, <3>2 DEF EnabledInv, Ports
      <4>2. kept'["out"] = kept["out"]
        BY <1>4, <4>1, PortPair DEF CPTypeOK
      <4> QED
        BY <3>1, <3>2, <4>2 DEF KeptInv
    <3>3. CASE at["client"] = "idle"
      <4>1. enabled["out"]
        BY <1>1, <1>2, <3>3 DEF EnabledInv, Ports
      <4> QED
        BY <1>1, <3>1, <3>3, <4>1 DEF KeptInv
    <3> QED
      BY <3>1, <3>2, <3>3 DEF KeptInv
  <2>3. ASSUME NEW p \in Ports
        PROVE  queue'[p] \cup kept'[Other(p)]
                 = queue[p] \cup kept[Other(p)] \cup IF p = port[t] THEN {header[t]} ELSE {}
    <3>1. CASE p = port[t]
      <4>1. kept'[Other(p)] = kept[Other(p)] \cup {header[t]}
        BY <1>2, <1>4, <3>1 DEF CPTypeOK
      <4> QED
        BY <1>1, <3>1, <4>1
    <3>2. CASE p # port[t]
      <4>1. Other(p) # q /\ Other(p) \in Ports
        BY <1>2, <3>2, OtherPort
      <4>2. kept'[Other(p)] = kept[Other(p)]
        BY <1>4, <4>1 DEF CPTypeOK
      <4> QED
        BY <1>1, <3>2, <4>2
    <3> QED
      BY <3>1, <3>2
  <2>4. queue' \in [Ports -> SUBSET Headers] /\ at[t] \in {"send", "return"}
    BY <1>1 DEF CPTypeOK
  <2> QED
    BY <1>1, <1>3, <1>4, <2>1, <2>2, <2>3, <2>4, HeaderGivenUp
<1>5. CASE at' = [at EXCEPT ![t] = "return"] /\ UNCHANGED <<kept, header>>
  <2>1. /\ at'[t] = "return" /\ \A u \in Setters : u # t => at'[u] = at[u]
        /\ EnabledInv' /\ KeptInv'
    BY <1>1, <1>5, ClientStays, ClientHere, KeptStays
  <2>2. CPTypeOK'
    BY <1>1, <1>3, <1>5 DEF CPTypeOK
  <2>3. CarryInv'
    BY <1>1, <1>5, <2>1 DEF CarryInv
  <2>4. ShareInv'
    BY <1>1, <1>5 DEF ShareInv, Share, Carried
  <2> QED
    BY <2>1, <2>2, <2>3, <2>4
<1> QED
  BY <1>4, <1>5 DEF Process, Goto

LEMMA ReturnKeeps ==
  ASSUME ClientApart, StateInv, NEW t \in Setters, Return(t) PROVE StateInv'
<1> USE DEF StateInv
<1>1. /\ at[t] = "return" /\ Back(Other(port[t]), header[t])
      /\ header' = [header EXCEPT ![t] = None] /\ at' = [at EXCEPT ![t] = "idle"]
      /\ UNCHANGED <<reference, enabled, value, kept, port, update, sets, flushed>>
  BY DEF Return, Goto, portVars
<1>2. /\ port[t] \in Ports /\ header[t] \in Headers /\ Other(port[t]) \in Ports
      /\ Other(Other(port[t])) = port[t]
  BY <1>1, OtherPort DEF CarryInv, CPTypeOK, Threads
<1>3. /\ queue' \in [Ports -> SUBSET Headers]
      /\ enabled["in"] /\ enabled["out"] =>
           queue' = [queue EXCEPT ![port[t]] = @ \cup {header[t]}]
  BY <1>1, <1>2, BackKeeps
<1>4. value' \in [Ports -> Nat] /\ kept' \in [Ports -> SUBSET Headers] /\ KeptInv'
  BY <1>1, ClientHere, KeptStays DEF CPTypeOK
<1>5. ASSUME enabled["in"], enabled["out"], NEW p \in Ports
      PROVE  queue'[p] \cup kept'[Other(p)]
               = queue[p] \cup kept[Other(p)] \cup IF p = port[t] THEN {header[t]} ELSE {}
  <2>1. queue'[p] = queue[p] \cup IF p = port[t] THEN {header[t]} ELSE {}
    BY <1>3, <1>5 DEF CPTypeOK
  <2> QED
    BY <1>1, <2>1
<1> QED
  BY <1>1, <1>3, <1>4, <1>5, HeaderGivenUp

LEMMA ComponentKeeps ==
  ASSUME ClientApart, StateInv, NEW q \in Ports, ComponentReturns(q) PROVE StateInv'
<1> USE DEF StateInv
<1>1. PICK h \in kept[q] : Back(q, h) /\ kept' = [kept EXCEPT ![q] = @ \ {h}]
  BY DEF ComponentReturns
<1>2. UNCHANGED <<reference, enabled, value, at, port, update, header, sets, flushed>>
  BY DEF ComponentReturns, portVars, threadVars
<1>3. h \in Headers /\ kept' \in [Ports -> SUBSET Headers]
  BY <1>1 DEF CPTypeOK
<1>4. /\ queue' \in [Ports -> SUBSET Headers]
      /\ enabled["in"] /\ enabled["out"] =>
           queue' = [queue EXCEPT ![Other(q)] = @ \cup {h}]
  BY <1>1, <1>3, BackKeeps
<1>5. CPTypeOK' /\ CarryInv' /\ EnabledInv'
  BY <1>2, <1>3, <1>4 DEF CPTypeOK, CarryInv, EnabledInv
<1>6. KeptInv'
  <2>1. \A p \in Ports : kept'[p] \subseteq kept[p]
    BY <1>1 DEF CPTypeOK
  <2> QED
    BY <1>2, <2>1, PortPair DEF KeptInv
<1>7. ShareInv'
  <2>1. SUFFICES ASSUME enabled["out"], NEW p \in Ports PROVE Share(p)' = Share(p)
    BY <1>2, SharesStay
  <2>2. queue' = [queue EXCEPT ![Other(q)] = @ \cup {h}]
    BY <1>4, <2>1 DEF EnabledInv, CPTypeOK
  <2>3. Carried(p)' = Carried(p)
    BY <1>2 DEF Carried
  <2>4. CASE p = Other(q)
    <3>1. Other(p) = q /\ queue'[p] = queue[p] \cup {h} /\ kept'[q] = kept[q] \ {h}
      BY <1>1, <2>2, <2>4, OtherPort DEF CPTypeOK
    <3> QED
      BY <1>1, <2>3, <3>1 DEF Share
  <2>5. CASE p # Other(q)
    <3>1. Other(p) # q /\ Other(p) \in Ports
      BY <2>5, OtherPort
    <3>2. queue'[p] = queue[p] /\ kept'[Other(p)] = kept[Other(p)]
      BY <1>1, <2>2, <2>5, <3>1 DEF CPTypeOK
    <3> QED
      BY <2>3, <3>2 DEF Share
  <2> QED
    BY <2>4, <2>5
<1> QED
  BY <1>5, <1>6, <1>7

LEMMA StateMoves ==
  ASSUME ClientApart, StateInv, [CPNext]_cpvars PROVE StateInv'
<1>1. CASE Enable
  BY <1>1, EnableKeeps
<1>2. CASE Disable("out") \/ Disable("in")
  BY <1>2, DisableKeeps, PortPair
<1>3. ASSUME NEW p \in Ports, DisableWait(p) PROVE StateInv'
  BY <1>3, WaitKeeps
<1>4. CASE Flush \/ \E p \in Ports : FlushStart(p)
  BY <1>4, FlushKeeps
<1>5. ASSUME NEW p \in Ports, ComponentReturns(p) PROVE StateInv'
  BY <1>5, ComponentKeeps
<1>6. ASSUME NEW t \in Setters, SetterRuns(t) PROVE StateInv'
  BY <1>6, ForwardKeeps, RefusedKeeps, ProcessStays, ReturnKeeps DEF SetterRuns
<1>7. ASSUME NEW t \in Setters, NEW p \in Ports, Set(t, p) PROVE StateInv'
  BY <1>7, SetKeeps
<1>8. CASE UNCHANGED cpvars
  BY <1>8 DEF cpvars, portVars, headVars, threadVars, StateInv, CPTypeOK, CarryInv,
    EnabledInv, KeptInv, ShareInv, Share, Carried
<1> QED
  BY <1>1, <1>2, <1>3, <1>4, <1>5, <1>6, <1>7, <1>8 DEF CPNext, ClientRuns

\* A step of the client or of a component changes no update.
LEMMA UpdatesStay ==
  ASSUME UpdateInv, FollowInv, UNCHANGED <<value, reference, sets>>,
         \A t \in Setters : /\ at'[t] = at[t] /\ port'[t] = port[t]
                            /\ update'[t] = update[t],
         unsent' = unsent
  PROVE  UpdateInv' /\ FollowInv'
BY DEF UpdateInv, FollowInv

LEMMA ClientUpdates ==
  ASSUME ClientApart, CPInv,
         \/ Enable \/ Flush
         \/ \E p \in Ports : \/ Disable(p) \/ DisableWait(p) \/ FlushStart(p)
                             \/ ComponentReturns(p)
  PROVE  UpdateInv' /\ FollowInv'
<1>1. /\ UNCHANGED <<value, reference, sets, update, unsent>>
      /\ at' = at \/ \E place : at' = [at EXCEPT !["client"] = place]
      /\ port' = port \/ \E p \in Ports : port' = [port EXCEPT !["client"] = p]
  <2>1. ASSUME NEW p \in Ports, Disable(p) \/ DisableWait(p) PROVE <1>1
    BY <2>1 DEF Disable, DisableWait, Goto, portVars
  <2>2. ASSUME NEW p \in Ports, FlushStart(p) PROVE <1>1
    BY <2>2 DEF FlushStart, Goto, portVars
  <2>3. ASSUME NEW p \in Ports, ComponentReturns(p) PROVE <1>1
    BY <2>3 DEF ComponentReturns, portVars, threadVars
  <2>4. CASE Enable \/ Flush
    BY <2>4 DEF Enable, Populate, Flush, Goto, portVars, threadVars
  <2> QED
    BY <2>1, <2>2, <2>3, <2>4
<1>2. \A t \in Setters : at'[t] = at[t] /\ port'[t] = port[t] /\ update'[t] = update[t]
  BY <1>1 DEF ClientApart, CPInv, StateInv, CPTypeOK, Threads
<1> QED
  BY <1>1, <1>2, UpdatesStay DEF CPInv

LEMMA SetUpdates ==
  ASSUME ClientApart, Serialised, CPInv, NEW t \in Setters, NEW p \in Ports, Set(t, p)
  PROVE  UpdateInv' /\ FollowInv'
<1>1. /\ \A u \in Setters : at[u] = "idle"
      /\ sets' = sets + 1 /\ value' = [value EXCEPT ![p] = sets + 1]
      /\ update' = [update EXCEPT ![t] = sets + 1]
      /\ port' = [port EXCEPT ![t] = p]
      /\ at' = [at EXCEPT ![t] = IF p \in reference THEN "forward" ELSE "idle"]
      /\ reference' = reference /\ unsent' = unsent
  BY DEF Set, Goto, portVars
<1>2. /\ at'[t] = IF p \in reference THEN "forward" ELSE "idle"
      /\ port'[t] = p /\ update'[t] = sets + 1 /\ value'[p] = sets + 1
      /\ \A u \in Setters : u # t => at'[u] = "idle"
      /\ \A q \in Ports : q # p => value'[q] = value[q]
      /\ \A u \in Setters : u # t => update'[u] = update[u]
      /\ sets \in Nat /\ \A q \in Ports : value[q] \in Nat /\ value[q] <= sets
      /\ \A u \in Setters : update[u] \in Nat /\ update[u] <= sets
  BY <1>1 DEF CPInv, StateInv, CPTypeOK, UpdateInv, Threads
<1>3. (\A q \in Ports : value'[q] <= sets') /\ \A u \in Setters : update'[u] <= sets'
  BY <1>1, <1>2
<1>4. UpdateInv'
  BY <1>1, <1>2, <1>3 DEF UpdateInv
<1>5. FollowInv'
  <2>1. SUFFICES ASSUME NEW q \in Ports, reference' = {q}
                 PROVE  \/ value'[Other(q)] >= value'[q]
                        \/ \E u \in Setters : at'[u] \in {"forward", "send"} /\ port'[u] = q
    BY DEF FollowInv
  <2>2. CASE p = q
    BY <1>1, <1>2, <2>1, <2>2
  <2>3. CASE p # q
    <3>1. Other(q) = p
      BY <2>3 DEF Other, Ports
    <3> QED
      BY <1>2, <2>3, <3>1
  <2> QED
    BY <2>2, <2>3
<1> QED
  BY <1>4, <1>5

LEMMA SetterUpdates ==
  ASSUME ClientApart, CPInv, NEW t \in Setters, SetterRuns(t)
  PROVE  UpdateInv' /\ FollowInv'
<1>1. /\ at[t] # "idle" /\ UNCHANGED <<reference, port, update, sets>>
      /\ \E place \in {"idle", "send", "return"} : at' = [at EXCEPT ![t] = place]
      /\ at[t] # "forward" => \E place \in {"idle", "return"} :
                                at' = [at EXCEPT ![t] = place]
  BY DEF SetterRuns, Forward, Refused, Process, Return, Goto, portVars
<1>2. /\ t \in Threads /\ port[t] \in Ports
      /\ \A u \in Setters : u # t => at'[u] = at[u]
      /\ at'[t] \in {"idle", "send", "return"}
      /\ at'[t] = "send" => at[t] = "forward"
  BY <1>1 DEF CPInv, StateInv, CPTypeOK, Threads
<1>3. \A u, v \in Setters : at'[u] # "idle" /\ at'[v] # "idle" => u = v
  BY <1>1, <1>2 DEF CPInv, UpdateInv
<1>4. CASE Forward(t) \/ Refused(t) \/ Return(t)
  <2>1. value' = value
    BY <1>4 DEF Forward, Refused, Return
  <2>2. UpdateInv'
    BY <1>1, <1>2, <1>3, <2>1 DEF CPInv, UpdateInv
  <2>3. \/ at'[t] = "send" /\ unsent' = unsent
        \/ unsent' = unsent \cup {port[t]}
        \/ at[t] = "return" /\ unsent' = unsent
    BY <1>2, <1>4 DEF Forward, Refused, Return, Goto, CPInv, StateInv, CPTypeOK
  <2>4. FollowInv'
    <3>1. SUFFICES ASSUME NEW p \in Ports, reference = {p}
                   PROVE  \/ value[Other(p)] >= value[p]
                          \/ p \in unsent'
                          \/ \E u \in Setters : at'[u] \in {"forward", "send"} /\ port[u] = p
      BY <1>1, <2>1 DEF FollowInv
    <3>2. CASE p \in unsent \/ value[Other(p)] >= value[p]
      BY <2>3, <3>2
    <3>3. ASSUME NEW u \in Setters, at[u] \in {"forward", "send"}, port[u] = p
          PROVE  p \in unsent' \/ at'[u] \in {"forward", "send"}
      BY <1>2, <2>3, <3>3
    <3> QED
      BY <3>1, <3>2, <3>3 DEF CPInv, FollowInv
  <2> QED
    BY <2>2, <2>4
<1>5. CASE Process(t)
  <2>1. /\ at[t] = "send" /\ unsent' = unsent
        /\ value' = [value EXCEPT ![Other(port[t])] = update[t]]
    BY <1>5 DEF Process
  <2>2. at'[t] \in {"idle", "return"} /\ \A u \in Setters : u # t => at[u] = "idle"
    BY <1>1, <1>2, <2>1 DEF CPInv, UpdateInv
  <2>3. /\ Other(port[t]) \in Ports /\ Other(port[t]) # port[t]
        /\ value'[Other(port[t])] = update[t] /\ value'[port[t]] = value[port[t]]
        /\ \A p \in Ports : value'[p] \in {value[p], update[t]}
    BY <1>2, <2>1, OtherPort DEF CPInv, StateInv, CPTypeOK
  <2>4. port[t] \in reference /\ (reference = {port[t]} => update[t] = value[port[t]])
    BY <2>1 DEF CPInv, UpdateInv
  <2>5. UpdateInv'
    BY <1>1, <1>2, <1>3, <2>2, <2>3 DEF CPInv, UpdateInv
  <2>6. FollowInv'
    <3>1. SUFFICES ASSUME NEW p \in Ports, reference = {p}
                   PROVE  value'[Other(p)] >= value'[p]
      BY <1>1 DEF FollowInv
    <3>2. p = port[t] /\ value'[Other(p)] = value'[p] /\ value'[p] = value[p]
      BY <2>3, <2>4, <3>1
    <3>3. value[p] \in Nat
      BY DEF CPInv, StateInv, CPTypeOK
    <3> QED
      BY <3>2, <3>3
  <2> QED
    BY <2>5, <2>6
<1> QED
  BY <1>4, <1>5 DEF SetterRuns

LEMMA PortsMove ==
  ASSUME ClientApart, Serialised, CPInv, [CPNext]_cpvars PROVE CPInv'
<1>1. StateInv'
  BY StateMoves DEF CPInv
<1>2. CASE \/ Enable \/ Flush
           \/ \E p \in Ports : \/ Disable(p) \/ DisableWait(p) \/ FlushStart(p)
                               \/ ComponentReturns(p)
  BY <1>1, <1>2, ClientUpdates DEF CPInv
<1>3. ASSUME NEW t \in Setters, NEW p \in Ports, Set(t, p) PROVE CPInv'
  BY <1>1, <1>3, SetUpdates DEF CPInv
<1>4. ASSUME NEW t \in Setters, SetterRuns(t) PROVE CPInv'
  BY <1>1, <1>4, SetterUpdates DEF CPInv
<1>5. CASE UNCHANGED cpvars
  <2>1. UpdateInv' /\ FollowInv'
    BY <1>5, UpdatesStay DEF cpvars, portVars, threadVars, CPInv
  <2> QED
    BY <1>1, <2>1 DEF CPInv
<1> QED
  BY <1>2, <1>3, <1>4, <1>5, PortPair DEF CPNext, ClientRuns

LEMMA SharesRight ==
  ASSUME StateInv PROVE SharesKept
<1> USE DEF StateInv
<1>1. SUFFICES ASSUME Quiet, ~flushed, enabled["out"]
               PROVE  Cardinality(queue["in"]) = Cardinality(queue["out"])
  BY DEF SharesKept
<1>2. ASSUME NEW p \in Ports PROVE Share(p) = queue[p]
  <2>1. \A u \in Setters : header[u] = None
    BY <1>1 DEF Quiet, CarryInv, Threads
  <2>2. Carried(p) = {}
    BY <2>1 DEF Carried
  <2>3. kept[Other(p)] = {}
    BY <1>1, OtherPort DEF Quiet
  <2> QED
    BY <2>2, <2>3 DEF Share
<1> QED
  BY <1>1, <1>2, PortPair DEF ShareInv

LEMMA FollowRight ==
  ASSUME CPInv PROVE FollowerAgrees
BY DEF CPInv, FollowerAgrees, Quiet, Threads, FollowInv

-----------------------------------------------------------------------------
(* A header is in one place.                                                *)

OnceInv == GoneInv /\ HeaderOnce

LEMMA PlaceIs ==
  ASSUME NEW x \in Places
  PROVE  \/ \E p \in Ports : x = <<"queue", p>>
         \/ \E p \in Ports : x = <<"kept", p>>
         \/ \E t \in Threads : x = <<"thread", t>>
         \/ x = <<"pool", "out">>
         \/ x = <<"crossed", "out">>
BY DEF Places

LEMMA PlacesAre ==
  /\ \A p \in Ports : <<"queue", p>> \in Places /\ <<"kept", p>> \in Places
  /\ \A t \in Threads : <<"thread", t>> \in Places
  /\ <<"pool", "out">> \in Places /\ <<"crossed", "out">> \in Places
BY DEF Places

LEMMA PlaceHolds ==
  /\ \A p : Holds(<<"queue", p>>) = queue[p] /\ Holds(<<"kept", p>>) = kept[p]
  /\ \A t : Holds(<<"thread", t>>) = {header[t]} \ {None}
  /\ Holds(<<"pool", "out">>) = pool /\ Holds(<<"crossed", "out">>) = crossed
BY DEF Holds

LEMMA PlaceHoldsNext ==
  /\ \A p : /\ Holds(<<"queue", p>>)' = queue'[p]
            /\ Holds(<<"kept", p>>)' = kept'[p]
  /\ \A t : Holds(<<"thread", t>>)' = {header'[t]} \ {None}
  /\ Holds(<<"pool", "out">>)' = pool' /\ Holds(<<"crossed", "out">>)' = crossed'
BY DEF Holds

\* A place whose variables stay holds what it held.
LEMMA PlaceStays ==
  ASSUME NEW x \in Places,
         \A p \in Ports : x = <<"queue", p>> => queue'[p] = queue[p],
         \A p \in Ports : x = <<"kept", p>> => kept'[p] = kept[p],
         \A t \in Threads : x = <<"thread", t>> => header'[t] = header[t],
         x = <<"pool", "out">> => pool' = pool,
         x = <<"crossed", "out">> => crossed' = crossed
  PROVE  Holds(x)' = Holds(x)
<1>1. CASE \E p \in Ports : x = <<"queue", p>>
  BY <1>1, PlaceHolds, PlaceHoldsNext
<1>2. CASE \E p \in Ports : x = <<"kept", p>>
  BY <1>2, PlaceHolds, PlaceHoldsNext
<1>3. CASE \E t \in Threads : x = <<"thread", t>>
  BY <1>3, PlaceHolds, PlaceHoldsNext
<1>4. CASE x = <<"pool", "out">> \/ x = <<"crossed", "out">>
  BY <1>4, PlaceHolds, PlaceHoldsNext
<1> QED
  BY <1>1, <1>2, <1>3, <1>4, PlaceIs

\* Headers move from one place to another, or nothing moves.
LEMMA HeadersMove ==
  ASSUME HeaderOnce, enabled["in"], NEW A \in Places, NEW B \in Places, A # B,
         NEW S, S \subseteq Holds(A), Holds(A)' = Holds(A) \ S,
         Holds(B)' = Holds(B) \cup S,
         \A x \in Places : x # A /\ x # B => Holds(x)' = Holds(x)
  PROVE  HeaderOnce'
<1> SUFFICES ASSUME NEW h \in Headers
             PROVE  \E x \in Places : \A y \in Places : h \in Holds(y)' <=> y = x
  BY DEF HeaderOnce
<1>1. PICK x \in Places : \A y \in Places : h \in Holds(y) <=> y = x
  BY DEF HeaderOnce
<1>2. CASE h \in S
  <2>1. \A y \in Places : h \in Holds(y)' <=> y = B
    BY <1>1, <1>2
  <2> QED
    BY <2>1
<1>3. CASE h \notin S
  <2>1. \A y \in Places : h \in Holds(y)' <=> y = x
    BY <1>1, <1>3
  <2> QED
    BY <2>1
<1> QED
  BY <1>2, <1>3

LEMMA HeadersStay ==
  ASSUME HeaderOnce, enabled'["in"] => enabled["in"],
         UNCHANGED <<queue, kept, header, pool, crossed>>
  PROVE  HeaderOnce'
<1>1. \A x \in Places : Holds(x)' = Holds(x)
  BY PlaceStays
<1> QED
  BY <1>1 DEF HeaderOnce

\* Where a header goes from the callback of a port.
LEMMA BackMoves ==
  ASSUME CPTypeOK, HeaderOnce, enabled["in"], NEW q \in Ports, NEW h, Back(q, h),
         NEW A \in Places, A[1] \in {"kept", "thread"}, h \in Holds(A),
         Holds(A)' = Holds(A) \ {h}, crossed' = crossed,
         \A p \in Ports : A # <<"kept", p>> => kept'[p] = kept[p],
         \A t \in Threads : A # <<"thread", t>> => header'[t] = header[t]
  PROVE  HeaderOnce'
<1> DEFINE S == {h}
<1>1. S \subseteq Holds(A) /\ Holds(A)' = Holds(A) \ S
  OBVIOUS
<1> HIDE DEF S
<1>2. CASE Home(q) = "pool"
  <2> DEFINE B == <<"pool", "out">>
  <2>1. pool' = pool \cup {h} /\ queue' = queue
    BY <1>2 DEF Back
  <2>2. A # B /\ B \in Places /\ Holds(B)' = Holds(B) \cup S
    BY <2>1, PlacesAre, PlaceHolds, PlaceHoldsNext DEF S
  <2>3. \A x \in Places : x # A /\ x # B => Holds(x)' = Holds(x)
    BY <2>1, PlaceStays
  <2> HIDE DEF B
  <2> QED
    BY <1>1, <2>2, <2>3, HeadersMove
<1>3. CASE Home(q) # "pool"
  <2>1. Home(q) \in Ports
    BY <1>3, OtherPort DEF Home, Ports
  <2> PICK r \in Ports : r = Home(q)
    BY <2>1
  <2> DEFINE B == <<"queue", r>>
  <2>2. queue' = [queue EXCEPT ![r] = @ \cup {h}] /\ pool' = pool
    BY <1>3 DEF Back, Puts
  <2>3. A # B /\ B \in Places /\ Holds(B)' = Holds(B) \cup S
    <3>1. A # B
      OBVIOUS
    <3>2. queue'[r] = queue[r] \cup S
      BY <2>2 DEF CPTypeOK, S
    <3> QED
      BY <3>1, <3>2, PlacesAre, PlaceHolds, PlaceHoldsNext
  <2>4. ASSUME NEW x \in Places, x # A, x # B
        PROVE  Holds(x)' = Holds(x)
    <3>1. \A p \in Ports : x = <<"queue", p>> => queue'[p] = queue[p]
      BY <2>2, <2>4 DEF CPTypeOK
    <3> QED
      BY <2>2, <2>4, <3>1, PlaceStays
  <2> HIDE DEF B
  <2> QED
    BY <1>1, <2>3, <2>4, HeadersMove
<1> QED
  BY <1>2, <1>3

\* The header a thread or a component gives up.
LEMMA ThreadGivesUp ==
  ASSUME CPTypeOK, NEW t \in Threads, header[t] # None,
         header' = [header EXCEPT ![t] = None]
  PROVE  /\ <<"thread", t>> \in Places
         /\ header[t] \in Holds(<<"thread", t>>)
         /\ Holds(<<"thread", t>>)' = Holds(<<"thread", t>>) \ {header[t]}
         /\ \A u \in Threads : <<"thread", t>> # <<"thread", u>> => header'[u] = header[u]
<1>1. header'[t] = None /\ \A u \in Threads : u # t => header'[u] = header[u]
  BY DEF CPTypeOK
<1> QED
  BY <1>1, PlacesAre, PlaceHolds, PlaceHoldsNext

LEMMA ComponentGivesUp ==
  ASSUME CPTypeOK, NEW q \in Ports, NEW h \in kept[q],
         kept' = [kept EXCEPT ![q] = @ \ {h}]
  PROVE  /\ <<"kept", q>> \in Places
         /\ h \in Holds(<<"kept", q>>)
         /\ Holds(<<"kept", q>>)' = Holds(<<"kept", q>>) \ {h}
         /\ \A p \in Ports : <<"kept", q>> # <<"kept", p>> => kept'[p] = kept[p]
<1>1. kept'[q] = kept[q] \ {h} /\ \A p \in Ports : p # q => kept'[p] = kept[p]
  BY DEF CPTypeOK
<1> QED
  BY <1>1, PlacesAre, PlaceHolds, PlaceHoldsNext

LEMMA OnceStarts ==
  ASSUME CPInit PROVE OnceInv
<1>1. ~enabled["in"] /\ \A p \in Ports : queue[p] = {}
  BY PortPair DEF CPInit
<1>2. \A t \in Threads : header[t] = None
  BY DEF CPInit
<1>3. GoneInv
  BY <1>1, <1>2 DEF GoneInv, CPInit, Threads, Carried
<1>4. HeaderOnce
  BY <1>1 DEF HeaderOnce
<1> QED
  BY <1>3, <1>4 DEF OnceInv

\* Enabled again: every header is with one of the ports.
LEMMA OnceEnable ==
  ASSUME ClientApart, StateInv, OnceInv, Enable PROVE OnceInv'
<1>1. PICK half \in SUBSET Headers :
        queue' = [p \in Ports |-> IF p = "out" THEN half ELSE Headers \ half]
  BY DEF Enable, Populate
<1>2. /\ at["client"] = "idle" /\ ~enabled["out"] /\ \A t \in Threads : at[t] = "idle"
      /\ enabled' = [p \in Ports |-> TRUE]
      /\ UNCHANGED <<at, header, port, kept, pool, crossed>>
  BY PortPair DEF Enable, Populate, threadVars
<1>3. /\ enabled'["in"] /\ enabled'["out"]
      /\ pool' = {} /\ crossed' = {} /\ \A p \in Ports : kept'[p] = {}
      /\ \A t \in Threads : header'[t] = None
  BY <1>2, PortPair DEF StateInv, KeptInv, OnceInv, GoneInv, Threads
<1>4. GoneInv'
  BY <1>2, <1>3 DEF GoneInv, OnceInv, Ports
<1>5. ASSUME NEW h \in Headers
      PROVE  \E x \in Places : \A y \in Places : h \in Holds(y)' <=> y = x
  <2> DEFINE p == IF h \in half THEN "out" ELSE "in"
             x == <<"queue", p>>
  <2>1. p \in Ports /\ x \in Places
    BY PortPair, PlacesAre
  <2>2. \A q \in Ports : h \in queue'[q] <=> q = p
    BY <1>1 DEF Ports
  <2>3. ASSUME NEW y \in Places PROVE h \in Holds(y)' <=> y = x
    <3>1. CASE \E q \in Ports : y = <<"queue", q>>
      BY <2>2, <3>1, PlaceHoldsNext
    <3>2. CASE ~\E q \in Ports : y = <<"queue", q>>
      <4>1. Holds(y)' = {}
        BY <1>3, <3>2, PlaceIs, PlaceHoldsNext
      <4> QED
        BY <2>1, <3>2, <4>1
    <3> QED
      BY <3>1, <3>2
  <2> QED
    BY <2>1, <2>3
<1> QED
  BY <1>4, <1>5 DEF OnceInv, HeaderOnce

LEMMA OnceDisable ==
  ASSUME ClientApart, StateInv, OnceInv, NEW p \in Ports, Disable(p) PROVE OnceInv'
<1> USE DEF OnceInv
<1>1. /\ at["client"] = IF p = "out" THEN "idle" ELSE "disable_in"
      /\ enabled[p] /\ enabled' = [enabled EXCEPT ![p] = FALSE]
      /\ pool' = pool \cup queue[p] /\ queue' = [queue EXCEPT ![p] = {}]
      /\ at' = [at EXCEPT !["client"] = IF p = "out" THEN "wait_out" ELSE "wait_in"]
      /\ UNCHANGED <<kept, port, header, crossed>>
  BY DEF Disable, Goto
<1>2. /\ at'["client"] = IF p = "out" THEN "wait_out" ELSE "wait_in"
      /\ queue'[p] = {} /\ ~enabled'[p]
      /\ \A q \in Ports : q # p => queue'[q] = queue[q] /\ enabled'[q] = enabled[q]
  BY <1>1 DEF StateInv, CPTypeOK, Threads
<1>3. Carried("out")' = Carried("out")
  BY <1>1 DEF Carried
<1>4. GoneInv'
  BY <1>1, <1>2, <1>3 DEF GoneInv
<1>5. HeaderOnce'
  <2>1. CASE p = "in"
    BY <1>2, <2>1 DEF HeaderOnce
  <2>2. CASE p = "out"
    <3> DEFINE A == <<"queue", "out">>
               B == <<"pool", "out">>
               S == queue["out"]
    <3>1. /\ A \in Places /\ B \in Places /\ A # B
          /\ Holds(A) = queue["out"] /\ Holds(A)' = {} /\ Holds(B)' = Holds(B) \cup S
      BY <1>1, <1>2, <2>2, PlacesAre, PlaceHolds, PlaceHoldsNext
    <3>2. ASSUME NEW x \in Places, x # A, x # B
          PROVE  Holds(x)' = Holds(x)
      <4>1. \A q \in Ports : x = <<"queue", q>> => queue'[q] = queue[q]
        BY <1>2, <2>2, <3>2
      <4> QED
        BY <1>1, <3>2, <4>1, PlaceStays
    <3>3. enabled["in"]
      BY <1>1, <2>2, PortPair DEF StateInv, EnabledInv
    <3>4. S \subseteq Holds(A) /\ Holds(A)' = Holds(A) \ S
      BY <3>1
    <3> HIDE DEF A, B, S
    <3> QED
      BY <3>1, <3>2, <3>3, <3>4, HeadersMove
  <2> QED
    BY <2>1, <2>2 DEF Ports
<1> QED
  BY <1>4, <1>5

LEMMA OnceWait ==
  ASSUME ClientApart, StateInv, OnceInv, NEW p \in Ports, DisableWait(p) PROVE OnceInv'
<1> USE DEF OnceInv
<1>1. /\ at["client"] = IF p = "out" THEN "wait_out" ELSE "wait_in"
      /\ Transit(p) = {}
      /\ at' = [at EXCEPT !["client"] = IF p = "out" THEN "disable_in" ELSE "idle"]
      /\ IF p = "out" THEN UNCHANGED <<pool, crossed>> ELSE pool' = {} /\ crossed' = {}
      /\ UNCHANGED <<enabled, queue, kept, port, header>>
  BY DEF DisableWait, Goto, portVars
<1>2. at'["client"] = IF p = "out" THEN "disable_in" ELSE "idle"
  BY <1>1 DEF StateInv, CPTypeOK, Threads
<1>3. \A t \in Setters : port[t] = p => header[t] = None
  BY <1>1 DEF Transit, Threads
<1>4. Carried(p) = {} /\ Carried("out")' = Carried("out")
  BY <1>1, <1>3 DEF Carried
<1>5. CASE p = "out"
  <2>1. GoneInv'
    BY <1>1, <1>2, <1>4, <1>5 DEF GoneInv
  <2>2. HeaderOnce'
    BY <1>1, <1>5, HeadersStay
  <2> QED
    BY <2>1, <2>2
<1>6. CASE p = "in"
  <2>1. \A t \in Setters : header[t] = None
    <3>1. Carried("out") = {}
      BY <1>1, <1>6 DEF GoneInv
    <3>2. \A t \in Setters : port[t] \in {"in", "out"}
      BY DEF StateInv, CPTypeOK, Threads, Ports
    <3> QED
      BY <1>3, <1>6, <3>1, <3>2 DEF Carried
  <2>2. GoneInv'
    BY <1>1, <1>2, <1>6, <2>1 DEF GoneInv
  <2>3. HeaderOnce'
    BY <1>1, <1>6 DEF HeaderOnce, StateInv, EnabledInv
  <2> QED
    BY <2>2, <2>3
<1> QED
  BY <1>5, <1>6 DEF Ports

LEMMA OnceFlush ==
  ASSUME ClientApart, StateInv, OnceInv, Flush \/ \E p \in Ports : FlushStart(p)
  PROVE  OnceInv'
<1> USE DEF OnceInv
<1>1. ASSUME NEW p \in Ports, FlushStart(p) PROVE OnceInv'
  <2>1. /\ at["client"] = "idle" /\ enabled[p] /\ at' = [at EXCEPT !["client"] = "flush"]
        /\ UNCHANGED <<enabled, queue, kept, pool, crossed, header>>
    BY <1>1 DEF FlushStart, Goto, portVars, headVars
  <2>2. at'["client"] = "flush"
    BY <2>1 DEF StateInv, CPTypeOK, Threads
  <2>3. GoneInv'
    BY <2>1, <2>2 DEF GoneInv
  <2> QED
    BY <2>1, <2>3, HeadersStay
<1>2. CASE Flush
  <2> PICK p \in Ports : p = port["client"]
    BY DEF StateInv, CPTypeOK, Threads
  <2>1. /\ at["client"] = "flush" /\ UNCHANGED <<enabled, kept, pool, crossed, header>>
        /\ Other(p) \in Ports /\ Other(p) # p
    BY <1>2, OtherPort DEF Flush, portVars
  <2>2. enabled["in"] /\ enabled["out"]
    BY <2>1 DEF StateInv, EnabledInv
  <2>3. \/ at' = [at EXCEPT !["client"] = "idle"] /\ queue' = queue
        \/ /\ at' = at
           /\ \E h \in queue[p] :
                queue' = [queue EXCEPT ![p] = @ \ {h}, ![Other(p)] = @ \cup {h}]
    BY <1>2 DEF Flush, Goto
  <2>4. at'["client"] \in {"idle", "flush"}
    BY <2>1, <2>3 DEF StateInv, CPTypeOK, Threads
  <2>5. GoneInv'
    BY <2>1, <2>2, <2>4 DEF GoneInv, Ports
  <2>6. CASE queue' = queue
    BY <2>1, <2>2, <2>5, <2>6, HeadersStay
  <2>7. ASSUME NEW h \in queue[p],
               queue' = [queue EXCEPT ![p] = @ \ {h}, ![Other(p)] = @ \cup {h}]
        PROVE  HeaderOnce'
    <3> DEFINE A == <<"queue", p>>
               B == <<"queue", Other(p)>>
               S == {h}
    <3>1. /\ queue'[p] = queue[p] \ S /\ queue'[Other(p)] = queue[Other(p)] \cup S
          /\ \A q \in Ports : q # p /\ q # Other(p) => queue'[q] = queue[q]
      BY <2>1, <2>7 DEF StateInv, CPTypeOK
    <3>2. /\ A \in Places /\ B \in Places /\ A # B /\ S \subseteq Holds(A)
          /\ Holds(A)' = Holds(A) \ S /\ Holds(B)' = Holds(B) \cup S
      BY <2>1, <3>1, PlacesAre, PlaceHolds, PlaceHoldsNext
    <3>3. ASSUME NEW x \in Places, x # A, x # B
          PROVE  Holds(x)' = Holds(x)
      BY <2>1, <3>1, <3>3, PlaceStays
    <3> HIDE DEF A, B, S
    <3> QED
      BY <2>2, <3>2, <3>3, HeadersMove
  <2> QED
    BY <2>3, <2>5, <2>6, <2>7
<1> QED
  BY <1>1, <1>2

\* A header that leaves a callback ends in a queue of an enabled port or the pool.
LEMMA BackGone ==
  ASSUME CPTypeOK, NEW q \in Ports, NEW h, Back(q, h),
         \A p \in Ports : ~enabled[p] => queue[p] = {}
  PROVE  \A p \in Ports : ~enabled[p] => queue'[p] = {}
<1>1. CASE Home(q) = "pool"
  BY <1>1 DEF Back
<1>2. CASE Home(q) # "pool"
  <2>1. Home(q) \in Ports /\ enabled[Home(q)]
    BY <1>2, OtherPort DEF Home, Ports
  <2>2. queue' = [queue EXCEPT ![Home(q)] = @ \cup {h}]
    BY <1>2 DEF Back, Puts
  <2> QED
    BY <2>1, <2>2 DEF CPTypeOK
<1> QED
  BY <1>1, <1>2

\* A setter that carries a header gives it up.
LEMMA GoneStays ==
  ASSUME ClientApart, StateInv, OnceInv, NEW t \in Setters, header[t] # None,
         header' = [header EXCEPT ![t] = None], port' = port, enabled' = enabled,
         at'["client"] = at["client"],
         \A p \in Ports : ~enabled[p] => queue'[p] = {}
  PROVE  GoneInv'
<1>1. t \in Threads /\ t # "client" /\ t # "component"
  BY DEF ClientApart, Threads
<1>2. header'["client"] = None /\ header'["component"] = None
  BY <1>1 DEF StateInv, CPTypeOK, Threads, OnceInv, GoneInv
<1>3. ~(at["client"] = "idle" /\ ~enabled["out"])
  BY DEF OnceInv, GoneInv
<1>4. Carried("out") = {} => Carried("out")' = {}
  <2>1. Carried("out")' \subseteq Carried("out")
    BY <1>1, CarriedLess, PortPair DEF StateInv
  <2> QED
    BY <2>1
<1> QED
  BY <1>2, <1>3, <1>4 DEF GoneInv, OnceInv

LEMMA OnceSet ==
  ASSUME ClientApart, StateInv, OnceInv, NEW t \in Setters, NEW p \in Ports, Set(t, p)
  PROVE  OnceInv'
<1>1. /\ at[t] = "idle" /\ port' = [port EXCEPT ![t] = p]
      /\ at' = [at EXCEPT ![t] = IF p \in reference THEN "forward" ELSE "idle"]
      /\ UNCHANGED <<enabled, queue, kept, pool, crossed, header>>
  BY DEF Set, Goto, portVars, headVars
<1>2. header[t] = None /\ t \in Threads
  BY <1>1 DEF StateInv, CarryInv, Threads
<1>3. at'["client"] = at["client"]
  BY <1>1, ClientHere
<1>4. Carried("out")' = Carried("out")
  <2>1. \A u \in Setters : u # t => port'[u] = port[u]
    BY <1>1 DEF StateInv, CPTypeOK, Threads
  <2> QED
    BY <1>1, <1>2, <2>1 DEF Carried
<1>5. GoneInv'
  BY <1>1, <1>3, <1>4 DEF OnceInv, GoneInv
<1> QED
  BY <1>1, <1>5, HeadersStay DEF OnceInv

LEMMA OnceForward ==
  ASSUME ClientApart, StateInv, OnceInv, NEW t \in Setters, Forward(t)
  PROVE  OnceInv'
<1> PICK p \in Ports : p = port[t]
  BY DEF StateInv, CPTypeOK, Threads
<1>1. /\ at[t] = "forward" /\ UNCHANGED <<enabled, kept, pool, crossed, port>>
      /\ \E place : at' = [at EXCEPT ![t] = place]
  BY DEF Forward, Goto, portVars
<1>2. header[t] = None /\ t \in Threads /\ t # "client" /\ t # "component"
  BY <1>1 DEF StateInv, CarryInv, Threads, ClientApart
<1>3. at'["client"] = at["client"]
  BY <1>1, ClientHere
<1>4. CASE UNCHANGED <<queue, header>>
  <2>1. GoneInv'
    BY <1>1, <1>3, <1>4 DEF OnceInv, GoneInv, Carried
  <2> QED
    BY <1>1, <1>4, <2>1, HeadersStay DEF OnceInv
<1>5. ASSUME NEW h \in queue[p], header' = [header EXCEPT ![t] = h],
             queue' = [queue EXCEPT ![p] = @ \ {h}]
      PROVE  OnceInv'
  <2>1. /\ header'[t] = h /\ \A u \in Threads : u # t => header'[u] = header[u]
        /\ queue'[p] = queue[p] \ {h} /\ \A q \in Ports : q # p => queue'[q] = queue[q]
        /\ h \in Headers /\ h # None
    BY <1>2, <1>5 DEF StateInv, CPTypeOK, ClientApart
  <2>2. enabled[p] /\ enabled["in"]
    <3>1. enabled[p]
      BY <1>5 DEF OnceInv, GoneInv
    <3> QED
      BY <3>1 DEF StateInv, EnabledInv, Ports
  <2>3. GoneInv'
    <3>1. \A q \in Ports : ~enabled'[q] => queue'[q] = {}
      BY <1>1, <2>1 DEF OnceInv, GoneInv
    <3>2. at["client"] \in {"disable_in", "wait_in"} => Carried("out")' = Carried("out")
      <4>1. SUFFICES ASSUME at["client"] \in {"disable_in", "wait_in"}
                     PROVE  Carried("out")' = Carried("out")
        OBVIOUS
      <4>2. p # "out"
        BY <2>2, <4>1 DEF StateInv, EnabledInv
      <4> QED
        BY <1>1, <1>2, <1>5, <2>1, <4>2, CarriedMore, PortPair DEF StateInv
    <3>3. ~(at["client"] = "idle" /\ ~enabled["out"])
      BY <2>2 DEF StateInv, EnabledInv
    <3>4. header'["client"] = None /\ header'["component"] = None
      BY <1>2, <2>1 DEF OnceInv, GoneInv, Threads
    <3> QED
      BY <1>1, <1>3, <3>1, <3>2, <3>3, <3>4 DEF OnceInv, GoneInv
  <2>4. HeaderOnce'
    <3> DEFINE A == <<"queue", p>>
               B == <<"thread", t>>
               S == {h}
    <3>1. /\ A \in Places /\ B \in Places /\ A # B /\ S \subseteq Holds(A)
          /\ Holds(A)' = Holds(A) \ S /\ Holds(B)' = Holds(B) \cup S
      <4>1. Holds(A) = queue[p] /\ Holds(A)' = queue[p] \ S
        BY <2>1, PlaceHolds, PlaceHoldsNext
      <4>2. Holds(B) = {} /\ Holds(B)' = S
        BY <1>2, <2>1, PlaceHolds, PlaceHoldsNext
      <4> QED
        BY <1>2, <4>1, <4>2, PlacesAre
    <3>2. ASSUME NEW x \in Places, x # A, x # B
          PROVE  Holds(x)' = Holds(x)
      BY <1>1, <2>1, <3>2, PlaceStays
    <3> HIDE DEF A, B, S
    <3> QED
      BY <2>2, <3>1, <3>2, HeadersMove DEF OnceInv
  <2> QED
    BY <2>3, <2>4 DEF OnceInv
<1> QED
  BY <1>4, <1>5 DEF Forward

LEMMA OnceRefused ==
  ASSUME ClientApart, StateInv, OnceInv, NEW t \in Setters, Refused(t)
  PROVE  OnceInv'
<1> PICK p \in Ports : p = port[t]
  BY DEF StateInv, CPTypeOK, Threads
<1> PICK h : h = header[t]
  OBVIOUS
<1>1. /\ at[t] = "send" /\ header' = [header EXCEPT ![t] = None]
      /\ at' = [at EXCEPT ![t] = "idle"]
      /\ UNCHANGED <<enabled, kept, port>>
      /\ \/ crossed' = crossed \cup {h} /\ UNCHANGED <<pool, queue>>
         \/ Back(p, h) /\ crossed' = crossed
  BY DEF Refused, Goto, portVars
<1>2. h # None /\ t \in Threads
  BY <1>1 DEF StateInv, CarryInv, Threads
<1>3. at'["client"] = at["client"]
  BY <1>1, ClientHere
<1>4. GoneInv'
  <2>1. \A q \in Ports : ~enabled[q] => queue'[q] = {}
    BY <1>1, BackGone DEF StateInv, OnceInv, GoneInv
  <2> QED
    BY <1>1, <1>2, <1>3, <2>1, GoneStays
<1>5. ASSUME enabled["in"] PROVE HeaderOnce'
  <2> DEFINE A == <<"thread", t>>
             B == <<"crossed", "out">>
             S == {h}
  <2>1. /\ A \in Places /\ h \in Holds(A) /\ Holds(A)' = Holds(A) \ S
        /\ \A u \in Threads : A # <<"thread", u>> => header'[u] = header[u]
        /\ A[1] = "thread"
    BY <1>1, <1>2, ThreadGivesUp DEF StateInv
  <2>2. CASE crossed' = crossed \cup {h} /\ UNCHANGED <<pool, queue>>
    <3>1. B \in Places /\ A # B /\ S \subseteq Holds(A) /\ Holds(B)' = Holds(B) \cup S
      BY <2>1, <2>2, PlacesAre, PlaceHolds, PlaceHoldsNext
    <3>2. ASSUME NEW x \in Places, x # A, x # B
          PROVE  Holds(x)' = Holds(x)
      BY <1>1, <2>1, <2>2, <3>2, PlaceStays
    <3> HIDE DEF A, B, S
    <3> QED
      BY <1>5, <2>1, <3>1, <3>2, HeadersMove DEF OnceInv
  <2>3. CASE Back(p, h) /\ crossed' = crossed
    <3> HIDE DEF A
    <3> QED
      BY <1>1, <1>5, <2>1, <2>3, BackMoves DEF StateInv, OnceInv
  <2> QED
    BY <1>1, <2>2, <2>3
<1>6. HeaderOnce'
  BY <1>1, <1>5 DEF HeaderOnce
<1> QED
  BY <1>4, <1>6 DEF OnceInv

LEMMA OnceProcess ==
  ASSUME ClientApart, StateInv, OnceInv, NEW t \in Setters, Process(t)
  PROVE  OnceInv'
<1> PICK q \in Ports : q = Other(port[t])
  BY OtherPort DEF StateInv, CPTypeOK, Threads
<1> PICK h : h = header[t]
  OBVIOUS
<1>1. /\ at[t] = "send" /\ UNCHANGED <<enabled, queue, port, pool, crossed>>
      /\ \E place : at' = [at EXCEPT ![t] = place]
  BY DEF Process, Goto, portVars
<1>2. h # None /\ t \in Threads
  BY <1>1 DEF StateInv, CarryInv, Threads
<1>3. at'["client"] = at["client"]
  BY <1>1, ClientHere
<1>4. CASE UNCHANGED <<kept, header>>
  <2>1. GoneInv'
    BY <1>1, <1>3, <1>4 DEF OnceInv, GoneInv, Carried
  <2> QED
    BY <1>1, <1>4, <2>1, HeadersStay DEF OnceInv
<1>5. CASE kept' = [kept EXCEPT ![q] = @ \cup {h}] /\ header' = [header EXCEPT ![t] = None]
  <2>1. GoneInv'
    BY <1>1, <1>2, <1>3, <1>5, GoneStays DEF OnceInv, GoneInv
  <2>2. ASSUME enabled["in"] PROVE HeaderOnce'
    <3> DEFINE A == <<"thread", t>>
               B == <<"kept", q>>
               S == {h}
    <3>1. /\ A \in Places /\ h \in Holds(A) /\ Holds(A)' = Holds(A) \ S
          /\ \A u \in Threads : A # <<"thread", u>> => header'[u] = header[u]
      BY <1>2, <1>5, ThreadGivesUp DEF StateInv
    <3>2. /\ kept'[q] = kept[q] \cup S /\ \A p \in Ports : p # q => kept'[p] = kept[p]
      BY <1>5 DEF StateInv, CPTypeOK
    <3>3. B \in Places /\ A # B /\ S \subseteq Holds(A) /\ Holds(B)' = Holds(B) \cup S
      BY <3>1, <3>2, PlacesAre, PlaceHolds, PlaceHoldsNext
    <3>4. ASSUME NEW x \in Places, x # A, x # B
          PROVE  Holds(x)' = Holds(x)
      BY <1>1, <3>1, <3>2, <3>4, PlaceStays
    <3> HIDE DEF A, B, S
    <3> QED
      BY <2>2, <3>1, <3>3, <3>4, HeadersMove DEF OnceInv
  <2>3. HeaderOnce'
    BY <1>1, <2>2 DEF HeaderOnce
  <2> QED
    BY <2>1, <2>3 DEF OnceInv
<1> QED
  BY <1>4, <1>5 DEF Process

LEMMA OnceReturn ==
  ASSUME ClientApart, StateInv, OnceInv, NEW t \in Setters, Return(t)
  PROVE  OnceInv'
<1> PICK q \in Ports : q = Other(port[t])
  BY OtherPort DEF StateInv, CPTypeOK, Threads
<1> PICK h : h = header[t]
  OBVIOUS
<1>1. /\ at[t] = "return" /\ Back(q, h) /\ UNCHANGED <<enabled, kept, port, crossed>>
      /\ header' = [header EXCEPT ![t] = None] /\ at' = [at EXCEPT ![t] = "idle"]
  BY DEF Return, Goto, portVars
<1>2. h # None /\ t \in Threads
  BY <1>1 DEF StateInv, CarryInv, Threads
<1>3. GoneInv'
  <2>1. \A p \in Ports : ~enabled[p] => queue'[p] = {}
    BY <1>1, BackGone DEF StateInv, OnceInv, GoneInv
  <2> QED
    BY <1>1, <1>2, <2>1, ClientHere, GoneStays
<1>4. ASSUME enabled["in"] PROVE HeaderOnce'
  <2> DEFINE A == <<"thread", t>>
  <2>1. /\ A \in Places /\ h \in Holds(A) /\ Holds(A)' = Holds(A) \ {h}
        /\ \A u \in Threads : A # <<"thread", u>> => header'[u] = header[u]
        /\ A[1] = "thread"
    BY <1>1, <1>2, ThreadGivesUp DEF StateInv
  <2> HIDE DEF A
  <2> QED
    BY <1>1, <1>4, <2>1, BackMoves DEF StateInv, OnceInv
<1>5. HeaderOnce'
  BY <1>1, <1>4 DEF HeaderOnce
<1> QED
  BY <1>3, <1>5 DEF OnceInv

LEMMA OnceComponent ==
  ASSUME ClientApart, StateInv, OnceInv, NEW q \in Ports, ComponentReturns(q)
  PROVE  OnceInv'
<1> PICK h \in kept[q] : Back(q, h) /\ kept' = [kept EXCEPT ![q] = @ \ {h}]
  BY DEF ComponentReturns
<1>1. UNCHANGED <<enabled, at, port, header, crossed>>
  BY DEF ComponentReturns, portVars, threadVars
<1>2. GoneInv'
  <2>1. \A p \in Ports : ~enabled[p] => queue'[p] = {}
    BY BackGone DEF StateInv, OnceInv, GoneInv
  <2>2. ~(at["client"] = "idle" /\ ~enabled["out"])
    BY DEF StateInv, KeptInv
  <2> QED
    BY <1>1, <2>1, <2>2 DEF OnceInv, GoneInv, Carried
<1>3. ASSUME enabled["in"] PROVE HeaderOnce'
  <2> DEFINE A == <<"kept", q>>
  <2>1. /\ A \in Places /\ h \in Holds(A) /\ Holds(A)' = Holds(A) \ {h}
        /\ \A p \in Ports : A # <<"kept", p>> => kept'[p] = kept[p]
        /\ A[1] = "kept"
    BY ComponentGivesUp DEF StateInv
  <2> HIDE DEF A
  <2> QED
    BY <1>1, <1>3, <2>1, BackMoves DEF StateInv, OnceInv
<1>4. HeaderOnce'
  BY <1>1, <1>3 DEF HeaderOnce
<1> QED
  BY <1>2, <1>4 DEF OnceInv

LEMMA OnceMoves ==
  ASSUME ClientApart, StateInv, OnceInv, [CPNext]_cpvars PROVE OnceInv'
<1>1. CASE Enable
  BY <1>1, OnceEnable
<1>2. CASE Disable("out") \/ Disable("in")
  BY <1>2, OnceDisable, PortPair
<1>3. ASSUME NEW p \in Ports, DisableWait(p) PROVE OnceInv'
  BY <1>3, OnceWait
<1>4. CASE Flush \/ \E p \in Ports : FlushStart(p)
  BY <1>4, OnceFlush
<1>5. ASSUME NEW p \in Ports, ComponentReturns(p) PROVE OnceInv'
  BY <1>5, OnceComponent
<1>6. ASSUME NEW t \in Setters, SetterRuns(t) PROVE OnceInv'
  BY <1>6, OnceForward, OnceRefused, OnceProcess, OnceReturn DEF SetterRuns
<1>7. ASSUME NEW t \in Setters, NEW p \in Ports, Set(t, p) PROVE OnceInv'
  BY <1>7, OnceSet
<1>8. CASE UNCHANGED cpvars
  <2>1. GoneInv'
    BY <1>8 DEF cpvars, portVars, headVars, threadVars, OnceInv, GoneInv, Carried
  <2>2. HeaderOnce'
    BY <1>8, HeadersStay DEF cpvars, portVars, headVars, threadVars, OnceInv
  <2> QED
    BY <2>1, <2>2 DEF OnceInv
<1> QED
  BY <1>1, <1>2, <1>3, <1>4, <1>5, <1>6, <1>7, <1>8 DEF CPNext, ClientRuns

-----------------------------------------------------------------------------
(* Theorems.                                                                *)

HeadersInv == StateInv /\ OnceInv

LEMMA HeadersStart ==
  ASSUME CPInit PROVE HeadersInv
BY PortsStart, OnceStarts DEF HeadersInv, CPInv

LEMMA HeadersKeep ==
  ASSUME ClientApart, HeadersInv, [CPNext]_cpvars PROVE HeadersInv'
BY StateMoves, OnceMoves DEF HeadersInv

LEMMA HeadersRight ==
  ASSUME HeadersInv PROVE SharesKept /\ HeaderOnce
BY SharesRight DEF HeadersInv, OnceInv

\* For any headers and threads: each port keeps its share of the headers until
\* one is flushed, and no header is in two places nor lost, but by an event that
\* meets an output already disabled.
THEOREM SharesTheorem ==
  ASSUME ClientApart
  PROVE  CPSpec => [](SharesKept /\ HeaderOnce)
<1>1. CPInit => HeadersInv
  BY HeadersStart
<1>2. HeadersInv /\ [CPNext]_cpvars => HeadersInv'
  BY HeadersKeep
<1>3. HeadersInv => SharesKept /\ HeaderOnce
  BY HeadersRight
<1> QED
  BY <1>1, <1>2, <1>3, PTL DEF CPSpec

\* For any headers, and any threads that set the clocks one at a time: a port
\* that follows has the last update of its reference that could be sent.
THEOREM FollowTheorem ==
  ASSUME ClientApart, Serialised
  PROVE  CPSpec => []FollowerAgrees
<1>1. CPInit => CPInv
  BY PortsStart
<1>2. CPInv /\ [CPNext]_cpvars => CPInv'
  BY PortsMove
<1>3. CPInv => FollowerAgrees
  BY FollowRight
<1> QED
  BY <1>1, <1>2, <1>3, PTL DEF CPSpec

=============================================================================
