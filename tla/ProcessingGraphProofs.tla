------------------------ MODULE ProcessingGraphProofs ------------------------
(***************************************************************************)
(* Proofs about ProcessingGraph for any configuration: cyclic or not, with *)
(* any number of names and inputs and any order of the hash maps.          *)
(*                                                                         *)
(* While build runs, a name is either still in the map of configurations   *)
(* or among the built nodes, and what is in the map is in avail or on the  *)
(* stack.  When the stack runs empty avail is empty too, hence so is the   *)
(* map.                                                                    *)
(***************************************************************************)
EXTENDS ProcessingGraph, FiniteSetTheorems, SequenceTheorems, TLAPS

GraphTypeOK ==
    /\ phase \in Phases
    /\ nodes \subseteq Names /\ avail \subseteq Names
    /\ inputs \in [Added -> InputSeqs]
    /\ queue \in Seq(Names) /\ built \in Seq(Names) /\ sinks \in Seq(Names)
    /\ results \in Seq(Names \X {"ok", "err"})

(* Each added node is in exactly one of the map and the built nodes.       *)
Partition ==
    /\ nodes \cap ToSet(built) = {}
    /\ phase # "buildFailed" => nodes \cup ToSet(built) = Added
    /\ IsInjective(built)
    /\ IsInjective(sinks) /\ ToSet(sinks) = ToSet(built) \cap sinkNames
    /\ sinkNames \subseteq Added

(* What is still to be built will be met.                                  *)
Reachable ==
    /\ phase = "adding" => built = <<>> /\ queue = <<>> /\ sinks = <<>>
    /\ phase = "building" =>
          /\ nodes \subseteq avail \cup ToSet(queue)
          /\ queue = <<>> => avail = {}
    /\ phase \in {"built", "running", "runOk", "runErr"} => nodes = {}

Results ==
    /\ phase \notin {"running", "runOk", "runErr"} => results = <<>>
    /\ phase = "running" => sinks # <<>>
    /\ Ended \subseteq ToSet(sinks)

(* run returns only when all sinks have ended, with an error exactly when  *)
(* there was none or one of them failed.                                   *)
RunHearsEveryone ==
    phase \in {"runOk", "runErr"} =>
        /\ Ended = ToSet(sinks)
        /\ (phase = "runOk") <=> (sinks # <<>> /\ Failed = {})

GraphInv == GraphTypeOK /\ Partition /\ Reachable /\ Results /\ InputsFirst /\ RunHearsEveryone

LEMMA AppendSet ==
    ASSUME NEW S, NEW s \in Seq(S), NEW e \in S
    PROVE  /\ Append(s, e) \in Seq(S)
           /\ ToSet(Append(s, e)) = ToSet(s) \cup {e}
           /\ Append(s, e) # <<>>
           /\ IsInjective(s) /\ e \notin ToSet(s) => IsInjective(Append(s, e))
<1>1. /\ Append(s, e) \in Seq(S) /\ Len(Append(s, e)) = Len(s) + 1 /\ Len(s) \in Nat
      /\ DOMAIN s = 1 .. Len(s)
      /\ DOMAIN Append(s, e) = 1 .. (Len(s) + 1)
      /\ \A i \in 1 .. Len(s) : Append(s, e)[i] = s[i]
      /\ Append(s, e)[Len(s) + 1] = e
  OBVIOUS
<1>2. ToSet(Append(s, e)) = ToSet(s) \cup {e}
  <2>1. ToSet(Append(s, e)) \subseteq ToSet(s) \cup {e}
    BY <1>1 DEF ToSet
  <2>2. ToSet(s) \subseteq ToSet(Append(s, e))
    BY <1>1 DEF ToSet
  <2>3. e \in ToSet(Append(s, e))
    BY <1>1 DEF ToSet
  <2>4. QED
    BY <2>1, <2>2, <2>3
<1>3. Append(s, e) # <<>>
  BY <1>1
<1>4. ASSUME IsInjective(s), e \notin ToSet(s)
      PROVE  IsInjective(Append(s, e))
  BY <1>1, <1>4 DEF IsInjective, ToSet
<1>5. QED
  BY <1>1, <1>2, <1>3, <1>4

LEMMA FrontSet ==
    ASSUME NEW S, NEW s \in Seq(S), s # <<>>
    PROVE  /\ Last(s) \in S
           /\ Front(s) \in Seq(S)
           /\ ToSet(s) = ToSet(Front(s)) \cup {Last(s)}
           /\ Front(s) = <<>> => Len(s) = 1
           /\ Len(s) = 1 => Front(s) = <<>>
<1>1. Len(s) \in Nat \ {0} /\ DOMAIN s = 1 .. Len(s)
  BY EmptySeq
<1>2. /\ Front(s) \in Seq(S) /\ Len(Front(s)) = Len(s) - 1
      /\ DOMAIN Front(s) = 1 .. (Len(s) - 1)
      /\ \A i \in 1 .. (Len(s) - 1) : Front(s)[i] = s[i]
  BY <1>1, SubSeqProperties DEF Front
<1>3. Last(s) \in S /\ Last(s) = s[Len(s)]
  BY <1>1 DEF Last
<1>4. ToSet(s) = ToSet(Front(s)) \cup {Last(s)}
  BY <1>1, <1>2, <1>3 DEF ToSet
<1>5. (Front(s) = <<>> => Len(s) = 1) /\ (Len(s) = 1 => Front(s) = <<>>)
  BY <1>1, <1>2, EmptySeq
<1>6. QED
  BY <1>2, <1>3, <1>4, <1>5

LEMMA ConcatSet ==
    ASSUME NEW S, NEW s \in Seq(S), NEW t \in Seq(S), s # <<>>
    PROVE  s \o t \in Seq(S) /\ s \o t # <<>> /\ ToSet(s) \subseteq ToSet(s \o t)
<1>1. Len(s) \in Nat \ {0} /\ Len(t) \in Nat /\ DOMAIN s = 1 .. Len(s)
  BY EmptySeq
<1>2. /\ s \o t \in Seq(S) /\ Len(s \o t) = Len(s) + Len(t)
      /\ DOMAIN (s \o t) = 1 .. (Len(s) + Len(t))
      /\ \A i \in 1 .. Len(s) : (s \o t)[i] = s[i]
  OBVIOUS
<1>3. QED
  BY <1>1, <1>2 DEF ToSet

LEMMA SingletonSet ==
    ASSUME NEW S, NEW e \in S
    PROVE  <<e>> \in Seq(S) /\ ToSet(<<e>>) = {e} /\ <<e>> # <<>>
<1>1. <<e>> \in Seq(S) /\ DOMAIN <<e>> = {1} /\ <<e>>[1] = e
  OBVIOUS
<1>2. QED
  BY <1>1 DEF ToSet

LEMMA EmptySet == ToSet(<<>>) = {} /\ IsInjective(<<>>)
BY DEF ToSet, IsInjective

LEMMA InitGraphInv == Init => GraphInv
<1> SUFFICES ASSUME Init PROVE GraphInv
  OBVIOUS
<1> USE EmptySet DEF Init
<1>1. GraphTypeOK
  BY DEF GraphTypeOK, Phases, Added
<1>2. Partition
  BY DEF Partition, Added
<1>3. Reachable /\ Results
  BY DEF Reachable, Results, Ended
<1>4. InputsFirst /\ RunHearsEveryone
  BY DEF InputsFirst, RunHearsEveryone
<1>5. QED
  BY <1>1, <1>2, <1>3, <1>4 DEF GraphInv

LEMMA AddStep ==
    ASSUME GraphInv, NEW n \in Names, NEW isSink \in BOOLEAN, NEW ins \in InputSeqs,
           Add(n, isSink, ins)
    PROVE  GraphInv'
<1> USE EmptySet DEF Add, GraphInv
<1>1. /\ phase = "adding" /\ phase' = "adding" /\ n \notin nodes
      /\ built = <<>> /\ queue = <<>> /\ sinks = <<>> /\ results = <<>>
      /\ UNCHANGED <<avail, queue, built, sinks, results>>
      /\ nodes = Added /\ nodes' = nodes \cup {n}
  BY DEF Reachable, Results, Partition
<1>2. inputs' \in [Added \cup {n} -> InputSeqs] /\ Added' = Added \cup {n}
  BY DEF GraphTypeOK, Added
<1>3. GraphTypeOK'
  BY <1>1, <1>2 DEF GraphTypeOK
<1>4. Partition'
  BY <1>1, <1>2 DEF Partition
<1>5. Reachable' /\ Results'
  BY <1>1 DEF Reachable, Results, Ended
<1>6. InputsFirst' /\ RunHearsEveryone'
  BY <1>1 DEF InputsFirst, RunHearsEveryone
<1>7. QED
  BY <1>3, <1>4, <1>5, <1>6

LEMMA BuildBeginStep ==
    ASSUME GraphInv, BuildBegin
    PROVE  GraphInv'
<1> USE DEF BuildBegin, GraphInv, config
<1>1. /\ phase = "adding" /\ built = <<>> /\ sinks = <<>> /\ queue = <<>> /\ results = <<>>
      /\ UNCHANGED <<inputs, sinkNames, nodes, built, sinks, results>>
  BY DEF Reachable, Results
<1>2. \/ phase' \in {"built", "panicked"} /\ UNCHANGED <<avail, queue>>
         /\ (phase' = "built" => nodes = {})
      \/ /\ phase' = "building"
         /\ \E first \in nodes : queue' = <<first>> /\ avail' = nodes \ {first}
  BY <1>1
<1>3. Added' = Added
  BY <1>1 DEF Added
<1>4. \A first \in nodes : first \in Names
  BY DEF GraphTypeOK
<1>5. GraphTypeOK'
  <2>0. \A first \in Names : <<first>> \in Seq(Names)
    BY SingletonSet
  <2>1. queue' \in Seq(Names) /\ avail' \subseteq Names
    BY <1>2, <1>4, <2>0 DEF GraphTypeOK
  <2>2. phase' \in Phases
    BY <1>2 DEF Phases
  <2>3. GraphTypeOK
    OBVIOUS
  <2>4. QED
    BY <2>1, <2>2, <2>3, <1>1, <1>3 DEF GraphTypeOK
<1>6. Partition'
  <2>1. Partition
    OBVIOUS
  <2>2. QED
    BY <2>1, <1>1, <1>3 DEF Partition
<1>7. Reachable'
  BY <1>1, <1>2, <1>4, SingletonSet DEF Reachable
<1>8. Results' /\ InputsFirst' /\ RunHearsEveryone'
  <2>1. Results'
    BY <1>1, <1>2 DEF Results, Ended
  <2>2. InputsFirst'
    BY <1>1 DEF InputsFirst
  <2>3. RunHearsEveryone'
    BY <1>2 DEF RunHearsEveryone
  <2>4. QED
    BY <2>1, <2>2, <2>3
<1>9. QED
  BY <1>5, <1>6, <1>7, <1>8

(* What Defer appends to the stack are names.                              *)
LEMMA MissingAreNames ==
    ASSUME GraphTypeOK, NEW n \in Added, NEW missing \in Missing(n)
    PROVE  missing \in Seq(Names)
<1> DEFINE I == inputs[n]
<1>1. PICK k \in 0 .. MaxInputs : I \in [1 .. k -> Names]
  <2>1. I \in InputSeqs
    BY DEF GraphTypeOK
  <2>2. QED
    BY <2>1 DEF InputSeqs
<1>2. MissingInputs(n) \subseteq 1 .. k /\ IsFiniteSet(MissingInputs(n))
  <2>1. IsFiniteSet(1 .. k)
    BY <1>1, MaxInputsIsNat, FS_Interval
  <2>2. MissingInputs(n) \subseteq 1 .. k
    BY <1>1 DEF MissingInputs
  <2>3. QED
    BY <2>1, <2>2, FS_Subset
<1>3. PICK order \in SetToSeqs(MissingInputs(n)) :
        missing = [i \in DOMAIN order |-> I[order[i]]]
  BY DEF Missing
<1>4. /\ Cardinality(MissingInputs(n)) \in Nat
      /\ order \in [1 .. Cardinality(MissingInputs(n)) -> MissingInputs(n)]
  BY <1>2, <1>3, FS_CardinalityType DEF SetToSeqs
<1>5. missing \in [1 .. Cardinality(MissingInputs(n)) -> Names]
  BY <1>1, <1>2, <1>3, <1>4
<1>6. QED
  BY <1>4, <1>5, SeqDef

LEMMA DeferStep ==
    ASSUME GraphInv, Defer
    PROVE  GraphInv'
<1> USE DEF GraphInv
<1>1. /\ phase = "building" /\ phase' = phase /\ queue # <<>>
      /\ UNCHANGED <<inputs, sinkNames, nodes, avail, built, sinks, results>>
      /\ Top \in nodes
  BY DEF Defer, Visiting, config
<1>2. PICK missing \in Missing(Top) : queue' = queue \o missing
  BY DEF Defer
<1>3. Top \in Added /\ Added' = Added
  BY <1>1 DEF Partition, Added
<1>4. missing \in Seq(Names)
  BY <1>2, <1>3, MissingAreNames
<1>5. queue' \in Seq(Names) /\ queue' # <<>> /\ ToSet(queue) \subseteq ToSet(queue')
  BY <1>1, <1>2, <1>4, ConcatSet DEF GraphTypeOK
<1>6. GraphTypeOK'
  BY <1>1, <1>3, <1>5 DEF GraphTypeOK
<1>7. Partition'
  BY <1>1, <1>3 DEF Partition
<1>8. Reachable'
  BY <1>1, <1>5 DEF Reachable
<1>9. Results'
  BY <1>1 DEF Results, Ended
<1>10. InputsFirst'
  <2>1. InputsFirst /\ inputs' = inputs /\ built' = built
    BY <1>1
  <2>2. QED
    BY <2>1 DEF InputsFirst
<1>11. RunHearsEveryone'
  BY <1>1 DEF RunHearsEveryone
<1>12. QED
  BY <1>6, <1>7, <1>8, <1>9, <1>10, <1>11

LEMMA CreateStep ==
    ASSUME GraphInv, Create
    PROVE  GraphInv'
<1> USE DEF GraphInv
<1>1. /\ phase = "building" /\ phase' = phase /\ queue # <<>>
      /\ UNCHANGED <<inputs, sinkNames, results>>
      /\ Top \in nodes /\ MissingInputs(Top) = {}
      /\ nodes' = nodes \ {Top} /\ avail' = avail \ {Top}
      /\ built' = Append(built, Top)
      /\ sinks' = IF Top \in sinkNames THEN Append(sinks, Top) ELSE sinks
  BY DEF Create, Visiting, config
<1>2. /\ queue \in Seq(Names) /\ built \in Seq(Names) /\ sinks \in Seq(Names)
      /\ avail \subseteq Names /\ Top \in Names
  BY <1>1 DEF GraphTypeOK
<1>3. Top \in Added /\ Added' = Added /\ Top \notin ToSet(built) /\ Top \notin ToSet(sinks)
  BY <1>1 DEF Partition, Added
<1>4. /\ Front(queue) \in Seq(Names) /\ ToSet(queue) = ToSet(Front(queue)) \cup {Top}
      /\ Front(queue) = <<>> <=> Len(queue) = 1
  BY <1>1, <1>2, FrontSet DEF Top
<1>5. \/ avail' # {} /\ Len(queue) = 1 /\ \E next \in avail' : queue' = <<next>>
      \/ ~(Len(queue) = 1 /\ avail' # {}) /\ queue' = Front(queue)
  BY <1>1 DEF Create, PopAndRefill
<1>6. queue' \in Seq(Names)
  <2>1. \A next \in Names : <<next>> \in Seq(Names)
    BY SingletonSet
  <2>2. avail' \subseteq Names
    BY <1>1, <1>2
  <2>3. QED
    BY <1>4, <1>5, <2>1, <2>2
<1>7. /\ built' \in Seq(Names) /\ ToSet(built') = ToSet(built) \cup {Top}
      /\ IsInjective(built')
  BY <1>1, <1>2, <1>3, AppendSet DEF Partition
<1>8. /\ sinks' \in Seq(Names) /\ IsInjective(sinks')
      /\ ToSet(sinks') = ToSet(built') \cap sinkNames
  <2>1. CASE Top \in sinkNames
    BY <1>1, <1>2, <1>3, <1>7, <2>1, AppendSet DEF Partition
  <2>2. CASE Top \notin sinkNames
    BY <1>1, <1>2, <1>7, <2>2 DEF Partition
  <2>3. QED
    BY <2>1, <2>2
<1>9. GraphTypeOK'
  BY <1>1, <1>2, <1>3, <1>6, <1>7, <1>8 DEF GraphTypeOK
<1>10. Partition'
  BY <1>1, <1>3, <1>7, <1>8 DEF Partition
<1>11. Reachable'
  <2>1. nodes' \subseteq avail' \cup ToSet(queue')
    BY <1>1, <1>4, <1>5, EmptySet DEF Reachable
  <2>2. queue' = <<>> => avail' = {}
    BY <1>4, <1>5, SingletonSet
  <2>3. QED
    BY <1>1, <2>1, <2>2 DEF Reachable
<1>12. Results'
  BY <1>1, <1>7, <1>8 DEF Results, Ended, Partition
<1>13. InputsFirst'
  <2>1. /\ DOMAIN built = 1 .. Len(built) /\ Len(built) \in Nat
        /\ DOMAIN built' = 1 .. (Len(built) + 1)
        /\ \A i \in 1 .. Len(built) : built'[i] = built[i]
        /\ built'[Len(built) + 1] = Top
    BY <1>1, <1>2
  <2>2. \A m \in ToSet(inputs[Top]) : \E j \in 1 .. Len(built) : built[j] = m
    BY <1>1, <2>1 DEF MissingInputs, ToSet
  <2>3. \A i \in 1 .. Len(built) : \A m \in ToSet(inputs[built[i]]) :
          \E j \in 1 .. i - 1 : built[j] = m
    BY <2>1 DEF InputsFirst
  <2>4. ASSUME NEW i \in DOMAIN built', NEW m \in ToSet(inputs[built'[i]])
        PROVE  \E j \in 1 .. i - 1 : built'[j] = m
    <3>1. CASE i = Len(built) + 1
      BY <2>1, <2>2, <2>4, <3>1
    <3>2. CASE i \in 1 .. Len(built)
      BY <2>1, <2>3, <2>4, <3>2
    <3>3. QED
      BY <2>1, <2>4, <3>1, <3>2
  <2>5. inputs' = inputs
    BY <1>1
  <2>6. QED
    BY <2>4, <2>5 DEF InputsFirst
<1>14. RunHearsEveryone'
  BY <1>1 DEF RunHearsEveryone
<1>15. QED
  BY <1>9, <1>10, <1>11, <1>12, <1>13, <1>14

SomeSinkEnds == \E s \in Names, how \in {"ok", "err"} : SinkEnds(s, how)

(* The steps that move phase or results and leave the work as it is.       *)
LEMMA QuietStep ==
    ASSUME GraphInv,
           VisitGone \/ CreateFails \/ BuildEnd \/ RunBegin \/ SomeSinkEnds \/ RunEnds
    PROVE  GraphInv'
<1> USE DEF GraphInv
<1>1. /\ UNCHANGED <<inputs, sinkNames, avail, queue, built, sinks>>
      /\ nodes' \subseteq nodes /\ (phase' = "buildFailed" \/ nodes' = nodes)
      /\ phase # "adding" /\ phase' # "adding" /\ phase' \in Phases
      /\ phase' = "building" => phase = "building"
  BY DEF VisitGone, CreateFails, BuildEnd, RunBegin, SomeSinkEnds, SinkEnds, RunEnds,
         Visiting, config, work, Phases
<1>2. Added' = Added
  BY <1>1 DEF Added
<1>3. Partition'
  <2>1. phase # "buildFailed"
    BY DEF VisitGone, CreateFails, BuildEnd, RunBegin, SomeSinkEnds, SinkEnds, RunEnds,
           Visiting
  <2>2. Partition
    OBVIOUS
  <2>3. QED
    BY <1>1, <1>2, <2>1, <2>2 DEF Partition
<1>4. InputsFirst'
  <2>1. InputsFirst /\ inputs' = inputs /\ built' = built
    BY <1>1
  <2>2. QED
    BY <2>1 DEF InputsFirst
<1>5. ASSUME results' \in Seq(Names \X {"ok", "err"}) PROVE GraphTypeOK'
  <2>1. GraphTypeOK
    OBVIOUS
  <2>2. QED
    BY <1>1, <1>2, <1>5, <2>1 DEF GraphTypeOK
<1>6. CASE VisitGone \/ CreateFails \/ BuildEnd
  <2>1. phase = "building" /\ results' = results /\ results = <<>>
    BY <1>6 DEF VisitGone, CreateFails, BuildEnd, Visiting, Results
  <2>2. phase' \in {"panicked", "buildFailed", "built"}
    BY <1>6 DEF VisitGone, CreateFails, BuildEnd
  <2>3. phase' = "built" => queue = <<>> /\ nodes' = nodes
    BY <1>1, <1>6 DEF VisitGone, CreateFails, BuildEnd
  <2>4. Reachable'
    BY <1>1, <2>1, <2>2, <2>3, EmptySet DEF Reachable
  <2>5. Results' /\ RunHearsEveryone'
    BY <1>1, <2>1, <2>2 DEF Results, Ended, RunHearsEveryone
  <2>6. GraphTypeOK'
    BY <1>5, <2>1 DEF GraphTypeOK
  <2>7. QED
    BY <1>3, <1>4, <2>4, <2>5, <2>6
<1>7. CASE RunBegin
  <2>1. /\ phase = "built" /\ results' = results /\ results = <<>> /\ nodes' = nodes
        /\ phase' = IF sinks = <<>> THEN "runErr" ELSE "running"
    BY <1>7 DEF RunBegin, Results, work
  <2>2. nodes = {}
    BY <2>1 DEF Reachable
  <2>3. Ended = {} /\ Ended' = {}
    BY <2>1 DEF Ended, ToSet
  <2>4. Reachable' /\ Results'
    BY <1>1, <2>1, <2>2, <2>3 DEF Reachable, Results
  <2>5. RunHearsEveryone'
    BY <1>1, <2>1, <2>3, EmptySet DEF RunHearsEveryone
  <2>6. GraphTypeOK'
    BY <1>5, <2>1 DEF GraphTypeOK
  <2>7. QED
    BY <1>3, <1>4, <2>4, <2>5, <2>6
<1>8. CASE SomeSinkEnds
  <2>0. PICK s \in Names, how \in {"ok", "err"} : SinkEnds(s, how)
    BY <1>8 DEF SomeSinkEnds
  <2>1. /\ phase = "running" /\ phase' = "running" /\ nodes' = nodes
        /\ s \in ToSet(sinks) /\ results' = Append(results, <<s, how>>)
    BY <2>0 DEF SinkEnds, work
  <2>2. /\ results' \in Seq(Names \X {"ok", "err"})
        /\ ToSet(results') = ToSet(results) \cup {<<s, how>>}
    <3>1. results \in Seq(Names \X {"ok", "err"}) /\ <<s, how>> \in Names \X {"ok", "err"}
      BY DEF GraphTypeOK
    <3>2. QED
      BY <2>1, <3>1, AppendSet
  <2>3. Ended' = Ended \cup {s}
    <3>1. Ended' = {r[1] : r \in ToSet(results) \cup {<<s, how>>}}
      BY <2>2 DEF Ended
    <3>2. \A t, R : {r[1] : r \in R \cup {t}} = {r[1] : r \in R} \cup {t[1]}
      OBVIOUS
    <3>3. <<s, how>>[1] = s
      OBVIOUS
    <3>4. Ended' = {r[1] : r \in ToSet(results)} \cup {<<s, how>>[1]}
      BY <3>1, <3>2
    <3>5. QED
      BY <3>3, <3>4 DEF Ended
  <2>4. Reachable' /\ Results'
    BY <1>1, <2>1, <2>3 DEF Reachable, Results
  <2>5. RunHearsEveryone'
    BY <2>1 DEF RunHearsEveryone
  <2>6. QED
    BY <1>3, <1>4, <1>5, <2>2, <2>4, <2>5
<1>9. CASE RunEnds
  <2>1. /\ phase = "running" /\ results' = results /\ nodes' = nodes
        /\ Ended = ToSet(sinks) /\ phase' = IF Failed = {} THEN "runOk" ELSE "runErr"
    BY <1>9 DEF RunEnds, work
  <2>2. Ended' = Ended /\ Failed' = Failed
    BY <2>1 DEF Ended, Failed
  <2>3. Reachable' /\ Results'
    BY <1>1, <2>1, <2>2 DEF Reachable, Results
  <2>4. RunHearsEveryone'
    BY <1>1, <2>1, <2>2 DEF RunHearsEveryone, Results
  <2>5. GraphTypeOK'
    BY <1>5, <2>1 DEF GraphTypeOK
  <2>6. QED
    BY <1>3, <1>4, <2>3, <2>4, <2>5
<1>10. QED
  BY <1>6, <1>7, <1>8, <1>9

LEMMA StepGraphInv == GraphInv /\ [Next]_vars => GraphInv'
<1> SUFFICES ASSUME GraphInv, [Next]_vars PROVE GraphInv'
  OBVIOUS
<1>1. ASSUME NEW n \in Names, NEW isSink \in BOOLEAN, NEW ins \in InputSeqs,
             Add(n, isSink, ins)
      PROVE  GraphInv'
  BY <1>1, AddStep
<1>2. CASE BuildBegin
  BY <1>2, BuildBeginStep
<1>3. CASE BuildStep \/ RunBegin \/ RunEnds \/ SomeSinkEnds
  BY <1>3, DeferStep, CreateStep, QuietStep DEF BuildStep
<1>4. CASE UNCHANGED vars
  <2>1. UNCHANGED <<phase, inputs, sinkNames, nodes, avail, queue, built, sinks, results>>
    BY <1>4 DEF vars, config, work
  <2>2. Added' = Added /\ Ended' = Ended /\ Failed' = Failed
    BY <2>1 DEF Added, Ended, Failed
  <2>3. GraphTypeOK' /\ Partition'
    BY <2>1, <2>2 DEF GraphInv, GraphTypeOK, Partition
  <2>4. Reachable' /\ Results'
    BY <2>1, <2>2 DEF GraphInv, Reachable, Results
  <2>5. InputsFirst'
    BY <2>1 DEF GraphInv, InputsFirst
  <2>6. RunHearsEveryone'
    <3>1. RunHearsEveryone /\ phase' = phase /\ sinks' = sinks
      BY <2>1 DEF GraphInv
    <3>2. QED
      BY <2>2, <3>1 DEF RunHearsEveryone
  <2>7. QED
    BY <2>3, <2>4, <2>5, <2>6 DEF GraphInv
<1>5. QED
  BY <1>1, <1>2, <1>3, <1>4 DEF Next, SomeSinkEnds

LEMMA GraphInvAlways == Spec => []GraphInv
BY InitGraphInv, StepGraphInv, PTL DEF Spec

(* A graph that build returns holds each added node and runs each sink,    *)
(* exactly once, whatever was configured and however the maps iterate.     *)
THEOREM GraphsAreComplete == Spec => []BuildComplete
<1>1. GraphInv => BuildComplete
  BY DEF GraphInv, Partition, Reachable, BuildComplete, IsListOf
<1>2. QED
  BY <1>1, GraphInvAlways, PTL

(* No node is created before one it pulls from: no cycle is ever built.    *)
THEOREM InputsComeFirst == Spec => []InputsFirst
<1>1. GraphInv => InputsFirst
  BY DEF GraphInv
<1>2. QED
  BY <1>1, GraphInvAlways, PTL

(* Ok is returned only when every sink of the configuration was created,   *)
(* run to its end and found without an error.                              *)
THEOREM SuccessMeansAllSinks == Spec => []SuccessIsComplete
<1>1. ASSUME GraphInv, phase = "runOk"
      PROVE  sinkNames # {} /\ \A s \in sinkNames : s \in Ended \ Failed
  <2>1. Ended = ToSet(sinks) /\ sinks # <<>> /\ Failed = {}
    BY <1>1 DEF GraphInv, RunHearsEveryone
  <2>2. ToSet(sinks) = sinkNames
    BY <1>1 DEF GraphInv, Partition, Reachable
  <2>3. sinks \in Seq(Names)
    BY <1>1 DEF GraphInv, GraphTypeOK
  <2>4. sinks[1] \in ToSet(sinks)
    BY <2>1, <2>3 DEF ToSet
  <2>5. QED
    BY <2>1, <2>2, <2>4
<1>2. GraphInv => SuccessIsComplete
  BY <1>1 DEF SuccessIsComplete
<1>3. QED
  BY <1>2, GraphInvAlways, PTL
=============================================================================
