----------------------------- MODULE GraphPorts -----------------------------
(***************************************************************************)
(* A component made of a graph (mmal_graph.c): what is done to one of its  *)
(* ports is done to the port of the component inside that it stands for,   *)
(* and follows the connections from there: enabling, disabling, flushing   *)
(* and committing a format.                                                *)
(*                                                                         *)
(* A port is [comp, type, index]; a connection has an out and an in.  The  *)
(* functions call themselves for the port at the other end; here they are  *)
(* folds over the ports of a component, on the state of the whole graph.   *)
(***************************************************************************)
EXTENDS Integers, Sequences, FiniteSets, SequencesExt

CONSTANTS
  Graphs,   \* the graphs: [connections, input, output, straight, size]:
            \* sequences of connections, of the ports that are the graph's
            \* input and output, the components whose topology is STRAIGHT
            \* and the longest path
  Formats,  \* formats a client commits
  MaxFails  \* bound: enables that fail

GraphPortsBounds == Formats \subseteq Nat /\ MaxFails \in Nat

VARIABLES
  g,        \* the graph
  on,       \* enabled ports of the components
  cxOn,     \* enabled connections
  graphOn,  \* ports of the graph's own component that are enabled
  format,   \* committed format of every port
  data,     \* ports of the components, and queues of connections, with data
  fails,    \* enables that failed
  last      \* history: what was done last, to which port, and did it succeed?

pvars == <<g, on, cxOn, graphOn, format, data, fails, last>>

Port(c, t, i) == [comp |-> c, type |-> t, index |-> i]
Connections == ToSet(g.connections)
Ports == {cx.out : cx \in Connections} \cup {cx.in : cx \in Connections}
         \cup ToSet(g.input) \cup ToSet(g.output)
GraphPort == ToSet(g.input) \cup ToSet(g.output)
Opposite(t) == IF t = "in" THEN "out" ELSE "in"

\* The component's ports of a type, by index.
PortsOf(c, t) ==
  SetToSortSeq({p \in Ports : p.comp = c /\ p.type = t},
               LAMBDA p, q : p.index < q.index)

ConnectionOf(p) == {cx \in Connections : cx.out = p \/ cx.in = p}
OtherEnd(cx, p) == IF cx.in = p THEN cx.out ELSE cx.in

\* Mutant: the topology is not looked at.
AlwaysLinked(p, q) == TRUE

\* graph_component_topology_ports_linked.
PortsLinked(p, q) == p.comp \in g.straight => p.index = q.index

-----------------------------------------------------------------------------
(* The functions that propagate                                            *)

\* mmal_connection_enable and mmal_connection_disable, on a state.
ConnectionEnable(s, cx) ==
  [s EXCEPT !.cxOn = @ \cup {cx}, !.on = @ \cup {cx.out, cx.in}]
ConnectionDisable(s, cx) ==
  [s EXCEPT !.cxOn = @ \ {cx}, !.on = @ \ {cx.out, cx.in},
            !.data = @ \ {cx, cx.out, cx.in}]

\* Mutant: only the connections of the component itself.
PropagateOnce(s0, port, enable, failing, depth) ==
  FoldSeq(LAMBDA p, s :
            LET cxs == ConnectionOf(p)
                cx == CHOOSE c \in cxs : TRUE
            IN IF \/ ~s.ok \/ (p \in s.on) = enable \/ cxs = {}
                  \/ ~PortsLinked(port, p)
               THEN s
               ELSE IF enable
                    THEN IF cx = failing THEN [s EXCEPT !.ok = FALSE]
                         ELSE ConnectionEnable(s, cx)
                    ELSE ConnectionDisable(s, cx),
          s0, Reverse(PortsOf(port.comp, Opposite(port.type))))

\* graph_port_state_propagate: over the ports on the other side of the
\* component whose state is not yet the one wanted; a connection is enabled
\* before what lies behind it and disabled after it; an error ends the loop.
\* (FoldSeq takes the last element first.)
RECURSIVE Propagate(_, _, _, _, _)
Propagate(s0, port, enable, failing, depth) ==
  FoldSeq(LAMBDA p, s :
            LET cxs == ConnectionOf(p)
                cx == CHOOSE c \in cxs : TRUE
                Behind(t) == Propagate(t, OtherEnd(cx, p), enable, failing,
                                       depth - 1)
            IN IF \/ ~s.ok \/ (p \in s.on) = enable \/ cxs = {}
                  \/ ~PortsLinked(port, p) \/ depth = 0
               THEN s
               ELSE IF enable
                    THEN IF cx = failing THEN [s EXCEPT !.ok = FALSE]
                         ELSE Behind(ConnectionEnable(s, cx))
                    ELSE ConnectionDisable(Behind(s), cx),
          s0, Reverse(PortsOf(port.comp, Opposite(port.type))))

\* Mutant: the queues of the connections keep their data.
RECURSIVE FlushPortsOnly(_, _, _)
FlushPortsOnly(s0, port, depth) ==
  IF port.type = "out" \/ depth = 0 THEN [s0 EXCEPT !.data = @ \ {port}]
  ELSE FoldSeq(LAMBDA p, s :
                 LET cxs == {c \in Connections : c.out = p}
                     cx == CHOOSE c \in cxs : TRUE
                 IN IF p \notin s.on \/ cxs = {} \/ ~PortsLinked(port, p) THEN s
                    ELSE FlushPortsOnly(s, cx.in, depth - 1),
               [s0 EXCEPT !.data = @ \ {port}],
               Reverse(PortsOf(port.comp, "out")))

\* graph_port_flush_propagate: the port, then for an input the queues behind
\* the component's enabled outputs, and on.
RECURSIVE FlushPropagate(_, _, _)
FlushPropagate(s0, port, depth) ==
  IF port.type = "out" \/ depth = 0 THEN [s0 EXCEPT !.data = @ \ {port}]
  ELSE FoldSeq(LAMBDA p, s :
                 LET cxs == {c \in Connections : c.out = p}
                     cx == CHOOSE c \in cxs : TRUE
                 IN IF p \notin s.on \/ cxs = {} \/ ~PortsLinked(port, p) THEN s
                    ELSE FlushPropagate([s EXCEPT !.data = @ \ {cx}], cx.in,
                                        depth - 1),
               [s0 EXCEPT !.data = @ \ {port}],
               Reverse(PortsOf(port.comp, "out")))

\* mmal_port_format_commit on an input port: a component gives its outputs
\* that are linked and not enabled the format of the input.
CommitPort(s, port, f) ==
  [s EXCEPT !.format = [p \in Ports |->
     IF \/ p = port
        \/ /\ port.type = "in" /\ p.comp = port.comp /\ p.type = "out"
           /\ p \notin s.on /\ PortsLinked(port, p)
     THEN f ELSE @[p]]]

\* Mutant: the next component is told, and no further.
CommitPropagateOnce(s0, port, depth) ==
  FoldSeq(LAMBDA p, s :
            LET cxs == {c \in Connections : c.out = p}
                cx == CHOOSE c \in cxs : TRUE
            IN IF p \in s.on \/ cxs = {} \/ ~PortsLinked(port, p) THEN s
               ELSE CommitPort(s, cx.in, s.format[p]),
          s0, Reverse(PortsOf(port.comp, "out")))

\* graph_port_format_commit_propagate: every output that is not enabled hands
\* its format on.
RECURSIVE CommitPropagate(_, _, _)
CommitPropagate(s0, port, depth) ==
  IF port.type = "out" \/ depth = 0 THEN s0
  ELSE FoldSeq(LAMBDA p, s :
                 LET cxs == {c \in Connections : c.out = p}
                     cx == CHOOSE c \in cxs : TRUE
                 IN IF p \in s.on \/ cxs = {} \/ ~PortsLinked(port, p) THEN s
                    ELSE CommitPropagate(CommitPort(s, cx.in, s.format[p]),
                                         cx.in, depth - 1),
               s0, Reverse(PortsOf(port.comp, "out")))

-----------------------------------------------------------------------------
(* What a client does to a port of the graph's component                   *)

State == [on |-> on, cxOn |-> cxOn, data |-> data, format |-> format, ok |-> TRUE]
Becomes(s) == /\ on' = s.on /\ cxOn' = s.cxOn /\ data' = s.data
              /\ format' = s.format
Did(op, p, ok) == last' = [op |-> op, port |-> p, ok |-> ok]

PInit ==
  /\ g \in Graphs
  /\ on = {} /\ cxOn = {} /\ graphOn = {}
  /\ format = [p \in Ports |-> 0]
  /\ data = {} /\ fails = 0
  /\ last = [op |-> "none", port |-> Port("none", "in", 0), ok |-> TRUE]

\* graph_port_enable: the port inside, then what is connected to it.  On an
\* error the core takes the graph's port for disabled and nothing is undone:
\* the port inside stays enabled and refuses the next attempt.
PortEnable(p) ==
  /\ p \in GraphPort \ graphOn
  /\ \E failing \in Connections \cup {Port("none", "in", 0)} :
       LET s == Propagate([State EXCEPT !.on = @ \cup {p}], p, TRUE, failing,
                          g.size)
       IN IF p \in on
          THEN /\ Did("enable", p, FALSE)
               /\ UNCHANGED <<on, cxOn, data, format, graphOn, fails>>
          ELSE /\ s.ok \/ fails < MaxFails
               /\ Becomes(s)
               /\ graphOn' = IF s.ok THEN graphOn \cup {p} ELSE graphOn
               /\ fails' = IF s.ok THEN fails ELSE fails + 1
               /\ Did("enable", p, s.ok)
  /\ UNCHANGED g

\* graph_port_disable: the connections behind an input port, or before an
\* output of a graph without inputs, then the port itself.
PortDisable(p) ==
  /\ p \in graphOn
  /\ LET s == IF g.input = <<>> \/ p.type = "in"
              THEN Propagate(State, p, FALSE, "none", g.size) ELSE State
     IN Becomes([s EXCEPT !.on = @ \ {p}, !.data = @ \ {p}])
  /\ graphOn' = graphOn \ {p}
  /\ Did("disable", p, TRUE)
  /\ UNCHANGED <<g, fails>>

PortFlush(p) ==
  /\ p \in graphOn
  /\ Becomes(FlushPropagate(State, p, g.size))
  /\ Did("flush", p, TRUE)
  /\ UNCHANGED <<g, graphOn, fails>>

\* graph_port_format_commit.
PortFormatCommit(p, f) ==
  /\ p \in GraphPort \ graphOn /\ p \notin on
  /\ Becomes(CommitPropagate(CommitPort(State, p, f), p, g.size))
  /\ Did("commit", p, TRUE)
  /\ UNCHANGED <<g, graphOn, fails>>

\* The components and the graph's worker move data over what is enabled: the
\* most that may be under way.
Move ==
  /\ data' = on \cup cxOn
  /\ last' = [op |-> "none", port |-> Port("none", "in", 0), ok |-> TRUE]
  /\ UNCHANGED <<g, on, cxOn, graphOn, format, fails>>

PNext ==
  \/ \E p \in GraphPort :
       PortEnable(p) \/ PortDisable(p) \/ PortFlush(p)
       \/ \E f \in Formats : PortFormatCommit(p, f)
  \/ Move

PSpec == PInit /\ [][PNext]_pvars

-----------------------------------------------------------------------------
(* Properties.  The reference is the set of connections that a port of the *)
(* graph leads to, by steps from a port over the linked ports on the other *)
(* side of its component.                                                  *)

NextPorts(ps) ==
  UNION {{OtherEnd(cx, q) : cx \in ConnectionOf(q)} :
         q \in {r \in Ports : \E p \in ps :
                  r.comp = p.comp /\ r.type # p.type /\ PortsLinked(p, r)}}
Reached(p) ==
  LET R[n \in 0 .. g.size] == IF n = 0 THEN {p} ELSE R[n - 1] \cup NextPorts(R[n - 1])
  IN R[g.size]
Behind(p) == {cx \in Connections :
                \E q \in Reached(p) \ {p} : cx.in = q \/ cx.out = q}

\* Enabling a port succeeds only when all it leads to is enabled, whatever
\* was enabled before, and disabling one that takes its connections with it
\* leaves none of them enabled.
PropagatesToAll ==
  /\ (last.op = "enable" /\ last.ok) => Behind(last.port) \subseteq cxOn
  /\ (last.op = "disable" /\ (g.input = <<>> \/ last.port.type = "in")) =>
        Behind(last.port) \cap cxOn = {}

\* A flush of an input leaves no data behind it, in a port or in a queue.
FlushReachesAll ==
  (last.op = "flush" /\ last.port.type = "in" /\ fails = 0) =>
     (Behind(last.port) \cup Reached(last.port)) \cap data = {}

\* A format committed on an input of a graph that is not enabled becomes the
\* format of both ends of every connection behind it.
FormatReachesAll ==
  (last.op = "commit" /\ last.port.type = "in" /\ on = {}) =>
     \A cx \in Behind(last.port) :
        format[cx.in] = format[last.port] /\ format[cx.out] = format[cx.in]
=============================================================================
