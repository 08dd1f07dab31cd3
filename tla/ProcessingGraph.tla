--------------------------- MODULE ProcessingGraph ---------------------------
(***************************************************************************)
(* ProcessingGraphBuilder and ProcessingGraph (pipeline_processing/        *)
(* processing_graph.rs): nodes are added by name, build creates each of    *)
(* them when all its inputs exist, and run awaits all sinks.               *)
(*                                                                         *)
(* build keeps a stack of nodes to create.  Which node it starts with is   *)
(* up to the order of a HashSet, and in which order it looks at the inputs *)
(* of a node up to that of a HashMap; both are chosen freely here.  A name *)
(* and the NodeID that add gives it stand for each other.                  *)
(***************************************************************************)
EXTENDS Naturals, Sequences, FiniteSets, SequencesExt

CONSTANTS
    Names,       \* bound: the names a configuration may use
    MaxInputs,   \* bound: inputs of one node
    MaxQueue     \* bound: entries of the queue; a cycle makes it grow forever

ASSUME MaxInputsIsNat == MaxInputs \in Nat

VARIABLES
    phase,       \* what the program is doing, or how it ended
    inputs,      \* inputs[n]: what the inputs 1, 2.. of node n are connected to
    sinkNames,   \* the nodes that create_node_from_name makes a sink of
    nodes,       \* self.nodes: the names whose configuration is in the map
    avail,       \* the names build may start with
    queue,       \* the stack, its top last
    built,       \* built_nodes, in the order they were created
    sinks,       \* the sinks in the order they were created
    results      \* run: how each sink ended, <<sink, "ok" or "err">>

config == <<inputs, sinkNames>>
work == <<nodes, avail, queue, built, sinks>>
vars == <<phase, config, work, results>>

Phases == {"adding", "building", "built", "running",
           "buildFailed", "panicked", "runOk", "runErr"}

Added == DOMAIN inputs

TypeOK ==
    /\ phase \in Phases
    /\ Added \subseteq Names
    /\ \A n \in Added : inputs[n] \in Seq(Names) /\ Len(inputs[n]) <= MaxInputs
    /\ sinkNames \subseteq Added
    /\ nodes \subseteq Added /\ avail \subseteq Added
    /\ queue \in Seq(Added) /\ built \in Seq(Added) /\ sinks \in Seq(sinkNames)
    /\ results \in Seq(sinkNames \X {"ok", "err"})

Init ==
    /\ phase = "adding"
    /\ inputs = [n \in {} |-> <<>>]
    /\ sinkNames = {}
    /\ nodes = {} /\ avail = {}
    /\ queue = <<>> /\ built = <<>> /\ sinks = <<>>
    /\ results = <<>>

-----------------------------------------------------------------------------
(* add: a name that is taken is an error and changes nothing.              *)
Add(n, isSink, ins) ==
    /\ phase = "adding"
    /\ n \notin nodes
    /\ inputs' = [m \in Added \cup {n} |-> IF m = n THEN ins ELSE inputs[m]]
    /\ sinkNames' = IF isSink THEN sinkNames \cup {n} ELSE sinkNames
    /\ nodes' = nodes \cup {n}
    /\ UNCHANGED <<phase, avail, queue, built, sinks, results>>

(* build looks every input up and panics when there is no such node, then  *)
(* puts any node on the stack.                                             *)
BuildBegin ==
    /\ phase = "adding"
    /\ \/ /\ nodes = {}
          /\ phase' = "built"
          /\ UNCHANGED <<avail, queue>>
       \/ /\ \E n \in nodes : ~(ToSet(inputs[n]) \subseteq nodes)
          /\ phase' = "panicked"
          /\ UNCHANGED <<avail, queue>>
       \/ /\ \A n \in nodes : ToSet(inputs[n]) \subseteq nodes
          /\ \E first \in nodes :
                /\ queue' = <<first>>
                /\ avail' = nodes \ {first}
          /\ phase' = "building"
    /\ UNCHANGED <<config, nodes, built, sinks, results>>

Top == Last(queue)
MissingInputs(n) == {k \in DOMAIN inputs[n] : inputs[n][k] \notin ToSet(built)}

(* The missing inputs in the order in which the map of inputs yields them. *)
Missing(n) ==
    {[i \in DOMAIN order |-> inputs[n][order[i]]] : order \in SetToSeqs(MissingInputs(n))}

Visiting ==
    /\ phase = "building"
    /\ queue # <<>> /\ Len(queue) <= MaxQueue

(* self.nodes.remove(&id).unwrap() of a node that has been created since   *)
(* it was put on the stack.                                                *)
VisitGone ==
    /\ Visiting
    /\ Top \notin nodes
    /\ phase' = "panicked"
    /\ UNCHANGED <<config, work, results>>

(* Variation: the node is not put back into the map again.                *)
DeferAndForget ==
    /\ Visiting
    /\ Top \in nodes
    /\ MissingInputs(Top) # {}
    /\ \E missing \in Missing(Top) : queue' = queue \o missing
    /\ nodes' = nodes \ {Top}
    /\ UNCHANGED <<phase, config, avail, built, sinks, results>>

(* Some inputs do not exist yet: they go on top of the stack.              *)
Defer ==
    /\ Visiting
    /\ Top \in nodes
    /\ MissingInputs(Top) # {}
    /\ \E missing \in Missing(Top) : queue' = queue \o missing
    /\ UNCHANGED <<phase, config, nodes, avail, built, sinks, results>>

(* All inputs exist: create_node_from_name may fail, and does when one of  *)
(* the inputs is a sink.                                                   *)
CreateFails ==
    /\ Visiting
    /\ Top \in nodes
    /\ MissingInputs(Top) = {}
    /\ nodes' = nodes \ {Top}
    /\ phase' = "buildFailed"
    /\ UNCHANGED <<config, avail, queue, built, sinks, results>>

(* Variation: avail is not consulted when the stack runs empty.            *)
PopOnly(left) == queue' = Front(queue)

(* Pop the node.  An empty stack continues with any node of avail, which   *)
(* stays in avail until it is created itself.                              *)
PopAndRefill(left) ==
    IF Len(queue) = 1 /\ left # {}
      THEN \E next \in left : queue' = <<next>>
      ELSE queue' = Front(queue)

(* Variation: a node is created although inputs are missing.              *)
CreateAny ==
    /\ Visiting
    /\ Top \in nodes
    /\ nodes' = nodes \ {Top}
    /\ built' = Append(built, Top)
    /\ sinks' = IF Top \in sinkNames THEN Append(sinks, Top) ELSE sinks
    /\ avail' = avail \ {Top}
    /\ PopAndRefill(avail \ {Top})
    /\ UNCHANGED <<phase, config, results>>

(* Variation: a sink takes the place of the one that was created before.   *)
CreateOneSink ==
    /\ Visiting
    /\ Top \in nodes
    /\ MissingInputs(Top) = {}
    /\ ToSet(inputs[Top]) \cap sinkNames = {}
    /\ nodes' = nodes \ {Top}
    /\ built' = Append(built, Top)
    /\ sinks' = IF Top \in sinkNames THEN <<Top>> ELSE sinks
    /\ avail' = avail \ {Top}
    /\ PopAndRefill(avail \ {Top})
    /\ UNCHANGED <<phase, config, results>>

Create ==
    /\ Visiting
    /\ Top \in nodes
    /\ MissingInputs(Top) = {}
    /\ ToSet(inputs[Top]) \cap sinkNames = {}
    /\ nodes' = nodes \ {Top}
    /\ built' = Append(built, Top)
    /\ sinks' = IF Top \in sinkNames THEN Append(sinks, Top) ELSE sinks
    /\ avail' = avail \ {Top}
    /\ PopAndRefill(avail \ {Top})
    /\ UNCHANGED <<phase, config, results>>

BuildEnd ==
    /\ phase = "building"
    /\ queue = <<>>
    /\ phase' = "built"
    /\ UNCHANGED <<config, work, results>>

-----------------------------------------------------------------------------
(* run: no sink is an error; otherwise all sinks run side by side in a     *)
(* FuturesUnordered, whose results are collected before any is looked at.  *)
RunBegin ==
    /\ phase = "built"
    /\ phase' = IF sinks = <<>> THEN "runErr" ELSE "running"
    /\ UNCHANGED <<config, work, results>>

Ended == {r[1] : r \in ToSet(results)}
Failed == {r[1] : r \in {e \in ToSet(results) : e[2] = "err"}}

SinkEnds(s, how) ==
    /\ phase = "running"
    /\ s \in ToSet(sinks) \ Ended
    /\ results' = Append(results, <<s, how>>)
    /\ UNCHANGED <<phase, config, work>>

RunEnds ==
    /\ phase = "running"
    /\ Ended = ToSet(sinks)
    /\ phase' = IF Failed = {} THEN "runOk" ELSE "runErr"
    /\ UNCHANGED <<config, work, results>>

-----------------------------------------------------------------------------
InputSeqs == UNION {[1 .. k -> Names] : k \in 0 .. MaxInputs}

BuildStep == VisitGone \/ Defer \/ CreateFails \/ Create \/ BuildEnd

Next ==
    \/ \E n \in Names, isSink \in BOOLEAN, ins \in InputSeqs : Add(n, isSink, ins)
    \/ BuildBegin
    \/ BuildStep
    \/ RunBegin
    \/ \E s \in Names, how \in {"ok", "err"} : SinkEnds(s, how)
    \/ RunEnds

(* build is a sequential loop that awaits nothing.                         *)
Spec == Init /\ [][Next]_vars /\ WF_vars(BuildStep)

-----------------------------------------------------------------------------
(* The constructor of a node receives the nodes it pulls from: an input    *)
(* is created before its user.  So a cycle is never built.                 *)
InputsFirst ==
    \A i \in DOMAIN built : \A m \in ToSet(inputs[built[i]]) :
        \E j \in 1 .. i - 1 : built[j] = m

(* A graph that build returns holds every node that was added, created     *)
(* once, and run will start each of its sinks once, whatever order the     *)
(* hash maps had.                                                          *)
IsListOf(seq, set) == IsInjective(seq) /\ ToSet(seq) = set
BuildComplete ==
    phase \in {"built", "running", "runOk", "runErr"} =>
        /\ IsListOf(built, Added)
        /\ IsListOf(sinks, sinkNames)

(* Configurations without a cycle or an unknown input.                     *)
Acyclic ==
    \E rank \in [Added -> 1 .. Cardinality(Names)] :
        \A n \in Added : \A m \in ToSet(inputs[n]) :
            m \in Added /\ rank[m] < rank[n]

(* As the command line's "!" pipelines are: at most one input each.        *)
IsChain == \A n \in Added : Len(inputs[n]) <= 1

(* From whatever node build starts, a graph of nodes with one input each   *)
(* gets built, unless the constructor of a node fails: no node is met      *)
(* again after it was created (the unwrap would fail) and the loop ends.    *)
ChainsAreBuilt ==
    (phase = "building" /\ Acyclic /\ IsChain) ~> phase \in {"built", "buildFailed"}

(* Success is the success of the whole configuration: run returns Ok only  *)
(* if a sink was configured and every sink that was configured, whatever   *)
(* build came across it by, has run to its end without an error.           *)
SuccessIsComplete ==
    phase = "runOk" => sinkNames # {} /\ \A s \in sinkNames : s \in Ended \ Failed

(* self.nodes.remove(&id).unwrap() asserts that a node on the stack has    *)
(* not been created yet.  For a graph without cycles and unknown names     *)
(* nothing else could panic; the code breaks it when one node is missing   *)
(* twice, as an input of two nodes or two inputs of one.                   *)
WellFormedNeverPanics == Acyclic => phase # "panicked"
=============================================================================
