-------------------------- MODULE RouteEventsProofs --------------------------
(***************************************************************************)
(* Proofs about RouteEvents, for every list of edges, every list of        *)
(* nameset values and every spelling of their names: what a call of        *)
(* BuildEvents publishes, which nameset values an event keeps, and that    *)
(* its labels agree with them.                                             *)
(***************************************************************************)
EXTENDS NamesetProofs

-----------------------------------------------------------------------------
(* The inductive invariant *)

Done == Carrying(tag, edges)[next - 1]

\* After some rounds of the loop the events are those of the edges with the
\* tag that it has passed, and the rest of the edges passed are discarded.
LoopInv ==
  /\ mapping \in Namesets \cup {Nil}
  /\ tag \in Tags
  /\ edges \in Seq(Edge)
  /\ next \in 1..Len(edges) + 1
  /\ discarded \in Nat
  /\ events \in Seq(EventFields)
  /\ Len(events) = Len(Done)
  /\ \A i \in 1..Len(Done) : events[i] = Event(Done[i])
  /\ Len(events) + discarded = next - 1
  /\ published # Nil => published = events /\ next = Len(edges) + 1

\* Every field of an event has its type.
LEMMA EventType ==
  ASSUME NEW edge \in Edge, mapping \in Namesets \cup {Nil}, tag \in Tags
  PROVE  Event(edge) \in EventFields
<1>1. \A s \in Namesets, names \in Seq(NamesetName) :
        findNamesetValueByName(s, names) \in Label
  <2> SUFFICES ASSUME NEW s \in Namesets, NEW names \in Seq(NamesetName)
               PROVE  findNamesetValueByName(s, names) \in Label
    OBVIOUS
  <2>1. \A i \in DOMAIN names : names[i].name \in Values
    <3>1. \A i \in DOMAIN names : names[i] \in NamesetName
      OBVIOUS
    <3> QED
      BY <3>1 DEF NamesetName
  <2>2. \/ findNamesetValueByName(s, names) = Default
        \/ \E i \in DOMAIN names :
             findNamesetValueByName(s, names) = names[i].name
    BY FindsByName
  <2> QED
    BY <2>1, <2>2 DEF Label
<1>2. /\ edge.id \in Nat /\ edge.names \in Seq(NamesetName)
      /\ edge.phys \in Seq(NamesetName) \cup {Nil}
      /\ edge.sub \in Seq(NamesetName) \cup {Nil}
  BY DEF Edge, Source
<1>3. \A names \in Seq(NamesetName) : rangeOverNamesets(names) \in Map
  BY RangeKeeps
<1>4. RouteableTerminal(edge) \in Route \cup {Nil}
  BY <1>2, <1>3 DEF RouteableTerminal, Route
<1>5. SourceLabel(edge) \in Label \/ mapping = Nil
  BY <1>1, <1>2 DEF SourceLabel, Label
<1>6. mapping # Nil => findNamesetValueByName(mapping, edge.names) \in Label
  BY <1>1, <1>2
<1>7. Nil \in Label
  BY DEF Label
<1> QED
  BY <1>2, <1>3, <1>4, <1>5, <1>6, <1>7 DEF Event, EventFields

\* An event is built from its edge, the tag and the mapping only.
LEMMA EventUnchanged ==
  ASSUME UNCHANGED <<mapping, tag>>
  PROVE  \A edge : Event(edge)' = Event(edge)
  BY DEF Event, SourceLabel

LEMMA LoopInit == Init => LoopInv
<1> SUFFICES ASSUME Init PROVE LoopInv
  OBVIOUS
<1>1. PICK in \in Inputs : mapping = in.mapping /\ tag = in.tag /\ edges = in.edges
  BY DEF Init
<1>2. /\ mapping \in Namesets \cup {Nil} /\ tag \in Tags /\ edges \in Seq(Edge)
  BY <1>1, InputsAssumption
<1>3. Done = << >>
  <2>1. Carrying(tag, edges)[0] = << >>
    BY <1>2, CarryingDef
  <2> QED
    BY <2>1 DEF Done, Init
<1>4. next = 1 /\ events = << >> /\ discarded = 0 /\ published = Nil
  BY DEF Init
<1>5. next \in 1..Len(edges) + 1
  BY <1>2, <1>4
<1>6. events \in Seq(EventFields) /\ Len(events) = 0
  BY <1>4
<1> QED
  BY <1>2, <1>3, <1>4, <1>5, <1>6 DEF LoopInv

LEMMA LoopStep == LoopInv /\ [Next]_vars => LoopInv'
<1> SUFFICES ASSUME LoopInv, [Next]_vars PROVE LoopInv'
  OBVIOUS
<1> DEFINE c == Carrying(tag, edges)
<1>1. /\ c \in [0..Len(edges) -> Seq(Edge)]
      /\ \A i \in 1..Len(edges) :
           c[i] = IF tag \in edges[i].tags
                    THEN Append(c[i - 1], edges[i]) ELSE c[i - 1]
  BY CarryingDef DEF LoopInv
<1>2. /\ Len(edges) \in Nat /\ next \in 1..Len(edges) + 1
      /\ next - 1 \in 0..Len(edges) /\ Done = c[next - 1]
  BY DEF LoopInv, Done
<1>3. Done \in Seq(Edge) /\ Len(Done) \in Nat
  BY <1>1, <1>2
<1>4. UNCHANGED args
  BY DEF Next, DiscardsEdge, BuildsEvent, PublishesEvents, vars, args
<1>5. /\ mapping' = mapping /\ tag' = tag /\ edges' = edges
      /\ Done' = c[next' - 1]
  BY <1>4 DEF args, Done
<1>6. \A edge : Event(edge)' = Event(edge)
  BY <1>5, EventUnchanged
<1> HIDE DEF c
<1>7. CASE DiscardsEdge
  <2>1. next \in 1..Len(edges) /\ next' = next + 1 /\ tag \notin edges[next].tags
    BY <1>2, <1>7 DEF DiscardsEdge, LoopInv
  <2>2. Done' = Done
    BY <1>1, <1>2, <1>5, <2>1
  <2>3. next' \in 1..Len(edges) + 1
    BY <1>2, <2>1
  <2>4. discarded' = discarded + 1 /\ events' = events /\ published' = published
    BY <1>7 DEF DiscardsEdge
  <2>5. published = Nil
    BY <1>2, <2>1 DEF LoopInv
  <2>6. discarded' \in Nat /\ Len(events) + discarded' = next' - 1
    BY <1>3, <2>1, <2>4 DEF LoopInv
  <2> QED
    BY <1>5, <1>6, <2>2, <2>3, <2>4, <2>5, <2>6 DEF LoopInv
<1>8. CASE BuildsEvent
  <2>1. next \in 1..Len(edges) /\ next' = next + 1 /\ tag \in edges[next].tags
    BY <1>2, <1>8 DEF BuildsEvent, LoopInv
  <2>2. Done' = Append(Done, edges[next])
    <3>1. next' - 1 = next
      BY <1>2, <2>1
    <3>2. c[next] = Append(c[next - 1], edges[next])
      BY <1>1, <2>1
    <3> QED
      BY <1>2, <1>5, <3>1, <3>2
  <2>3. next' \in 1..Len(edges) + 1
    BY <1>2, <2>1
  <2>4. /\ events' = Append(events, Event(edges[next]))
        /\ discarded' = discarded /\ published' = published
    BY <1>8 DEF BuildsEvent
  <2>5. published = Nil
    BY <1>2, <2>1 DEF LoopInv
  <2>6. edges[next] \in Edge
    BY <2>1 DEF LoopInv
  <2>7. Event(edges[next]) \in EventFields
    BY <2>6, EventType DEF LoopInv
  <2>8. events' \in Seq(EventFields) /\ Len(events') = Len(events) + 1
    BY <2>4, <2>7 DEF LoopInv
  <2>9. Len(Done') = Len(Done) + 1
    BY <1>3, <2>2, <2>6
  <2>10. (\A i \in 1..Len(Done) : events[i] = Event(Done[i]))'
    <3> SUFFICES ASSUME NEW i \in 1..Len(Done')
                 PROVE  events'[i] = Event(Done'[i])
      BY <1>5 DEF Event, SourceLabel
    <3>1. CASE i \in 1..Len(Done)
      <4>1. Done'[i] = Done[i]
        BY <1>3, <2>2, <2>6, <3>1
      <4>2. events'[i] = events[i]
        BY <2>4, <2>7, <3>1 DEF LoopInv
      <4> QED
        BY <3>1, <4>1, <4>2 DEF LoopInv
    <3>2. CASE i = Len(Done) + 1
      <4>1. Done'[i] = edges[next]
        BY <1>3, <2>2, <2>6, <3>2
      <4>2. events'[i] = Event(edges[next])
        BY <2>4, <2>7, <3>2 DEF LoopInv
      <4> QED
        BY <4>1, <4>2
    <3> QED
      BY <1>3, <2>9, <3>1, <3>2
  <2>11. Len(events') + discarded' = next' - 1
    BY <1>3, <2>1, <2>4, <2>8 DEF LoopInv
  <2> QED
    BY <1>5, <2>3, <2>4, <2>5, <2>8, <2>9, <2>10, <2>11 DEF LoopInv
<1>9. CASE PublishesEvents
  <2>1. /\ next' = next /\ events' = events /\ discarded' = discarded
        /\ published' = events /\ next > Len(edges)
    BY <1>9 DEF PublishesEvents
  <2>2. Done' = Done
    BY <1>2, <1>5, <2>1
  <2>3. next = Len(edges) + 1
    BY <1>2, <2>1
  <2> QED
    BY <1>5, <1>6, <2>1, <2>2, <2>3 DEF LoopInv
<1>10. CASE UNCHANGED vars
  <2>1. /\ next' = next /\ events' = events /\ discarded' = discarded
        /\ published' = published
    BY <1>10 DEF vars
  <2>2. Done' = Done
    BY <1>2, <1>5, <2>1
  <2> QED
    BY <1>5, <1>6, <2>1, <2>2 DEF LoopInv
<1> QED
  BY <1>7, <1>8, <1>9, <1>10 DEF Next

\* The loop keeps its invariant.
THEOREM LoopCorrect == Spec => []LoopInv
  BY LoopInit, LoopStep, PTL DEF Spec

\* The i-th event is that of the i-th edge with the tag.
LEMMA EventsFollowEdges ==
  ASSUME LoopInv
  PROVE  /\ Tagged \in Seq(Edge)
         /\ Len(events) <= Len(Tagged)
         /\ \A i \in DOMAIN events : /\ i \in DOMAIN Tagged
                                     /\ Tagged[i] \in Edge
                                     /\ events[i] = Event(Tagged[i])
<1> DEFINE c == Carrying(tag, edges)
<1>1. edges \in Seq(Edge) /\ Len(edges) \in Nat /\ next - 1 \in 0..Len(edges)
  BY DEF LoopInv
<1>2. c \in [0..Len(edges) -> Seq(Edge)]
  BY <1>1, CarryingDef
<1>3. Done = c[next - 1] /\ Tagged = c[Len(edges)]
  BY DEF Done, Tagged
<1>4. /\ Len(Done) <= Len(Tagged)
      /\ \A j \in 1..Len(Done) : Done[j] = Tagged[j]
  BY <1>1, <1>3, CarryingGrows
<1> HIDE DEF c
<1>5. Tagged \in Seq(Edge) /\ Done \in Seq(Edge)
  BY <1>1, <1>2, <1>3
<1>6. /\ DOMAIN events = 1..Len(Done) /\ DOMAIN Tagged = 1..Len(Tagged)
      /\ Len(events) = Len(Done) /\ Len(Done) \in Nat /\ Len(Tagged) \in Nat
  BY <1>5 DEF LoopInv
<1>7. \A i \in DOMAIN events : i \in DOMAIN Tagged
  BY <1>4, <1>6
<1>8. \A i \in DOMAIN Tagged : Tagged[i] \in Edge
  BY <1>5
<1>9. \A i \in DOMAIN events : events[i] = Event(Tagged[i])
  BY <1>4, <1>6 DEF LoopInv
<1> QED
  BY <1>4, <1>5, <1>6, <1>7, <1>8, <1>9

\* The nameset objects of an event, and when it has them.
LEMMA RouteOf ==
  ASSUME NEW edge \in Edge
  PROVE  LET route == RouteableTerminal(edge)
         IN  /\ route = Nil <=> edge.phys = Nil /\ edge.sub = Nil
             /\ edge.phys # Nil =>
                  /\ edge.phys \in Seq(NamesetName)
                  /\ route.physicalSource = rangeOverNamesets(edge.phys)
             /\ edge.sub # Nil =>
                  /\ edge.sub \in Seq(NamesetName)
                  /\ route.subscribedSource = rangeOverNamesets(edge.sub)
             /\ route # Nil =>
                  /\ route.physicalSource = Nil <=> edge.phys = Nil
                  /\ route.subscribedSource = Nil <=> edge.sub = Nil
<1> DEFINE route == RouteableTerminal(edge)
<1>1. /\ edge.phys \in Seq(NamesetName) \cup {Nil}
      /\ edge.sub \in Seq(NamesetName) \cup {Nil}
  BY DEF Edge, Source
<1>2. \A names \in Seq(NamesetName) :
        rangeOverNamesets(names) \in Map /\ rangeOverNamesets(names) # Nil
  BY RangeKeeps, NilAssumption
<1>3. CASE edge.phys = Nil /\ edge.sub = Nil
  BY <1>3 DEF RouteableTerminal
<1>4. CASE ~(edge.phys = Nil /\ edge.sub = Nil)
  <2>1. route = [physicalSource |->
                   IF edge.phys = Nil THEN Nil ELSE rangeOverNamesets(edge.phys),
                 subscribedSource |->
                   IF edge.sub = Nil THEN Nil ELSE rangeOverNamesets(edge.sub)]
    BY <1>4 DEF RouteableTerminal
  <2>2. route \in Route
    BY <1>1, <1>2, <2>1 DEF Route
  <2>3. route # Nil
    BY <2>2, NilAssumption
  <2> HIDE DEF route
  <2>4. /\ route.physicalSource =
             IF edge.phys = Nil THEN Nil ELSE rangeOverNamesets(edge.phys)
        /\ route.subscribedSource =
             IF edge.sub = Nil THEN Nil ELSE rangeOverNamesets(edge.sub)
    BY <2>1
  <2> QED
    BY <1>1, <1>2, <1>4, <2>3, <2>4 DEF route
<1> QED
  BY <1>3, <1>4

-----------------------------------------------------------------------------
(* The properties *)

\* The nameset objects of every event are trees, and the loop stays within
\* its edges.
THEOREM TypeCorrect == Spec => []TypeOK
<1>1. LoopInv => TypeOK
  <2> SUFFICES ASSUME LoopInv PROVE TypeOK
    OBVIOUS
  <2>1. \A i \in DOMAIN events : \A m \in Maps(events[i]) : IsTree(m)
    <3> SUFFICES ASSUME NEW i \in DOMAIN events, NEW m \in Maps(events[i])
                 PROVE  IsTree(m)
      OBVIOUS
    <3>1. PICK edge \in Edge : events[i] = Event(edge)
      BY EventsFollowEdges
    <3>2. /\ events[i].dstNameset = rangeOverNamesets(edge.names)
          /\ events[i].routeableTerminal = RouteableTerminal(edge)
      BY <3>1 DEF Event
    <3>3. edge.names \in Seq(NamesetName)
      BY DEF Edge
    <3>4. PICK names \in Seq(NamesetName) : m = rangeOverNamesets(names)
      BY <3>2, <3>3, RouteOf DEF Maps
    <3> QED
      BY <3>4, RangeKeeps
  <2>2. discarded \in 0..Len(edges)
    <3>1. Len(events) \in Nat /\ Len(edges) \in Nat
      BY DEF LoopInv
    <3> QED
      BY <3>1 DEF LoopInv
  <2> QED
    BY <2>1, <2>2 DEF LoopInv, TypeOK
<1> QED
  BY <1>1, LoopCorrect, PTL

\* PublishAll is given the events of the edges with the very tag, in order,
\* and the other edges are counted as discarded.
THEOREM PublishesTagged == Spec => []PublishesTaggedEdges
<1>1. LoopInv => PublishesTaggedEdges
  <2> SUFFICES ASSUME LoopInv, published # Nil
               PROVE  /\ [i \in DOMAIN published |-> published[i].dstId] =
                           [i \in DOMAIN Tagged |-> Tagged[i].id]
                      /\ Len(published) + discarded = Len(edges)
    BY DEF PublishesTaggedEdges
  <2>1. published = events /\ next = Len(edges) + 1 /\ Len(edges) \in Nat
    BY DEF LoopInv
  <2>2. next - 1 = Len(edges)
    BY <2>1
  <2>3. Done = Tagged
    BY <2>2 DEF Done, Tagged
  <2>4. Tagged \in Seq(Edge)
    BY EventsFollowEdges
  <2>5. DOMAIN events = DOMAIN Tagged
    BY <2>3, <2>4 DEF LoopInv
  <2>6. \A i \in DOMAIN Tagged : events[i].dstId = Tagged[i].id
    BY <2>5, EventsFollowEdges DEF Event
  <2>7. Len(published) + discarded = Len(edges)
    BY <2>1, <2>2 DEF LoopInv
  <2> QED
    BY <2>1, <2>5, <2>6, <2>7
<1> QED
  BY <1>1, LoopCorrect, PTL

\* Every nameset value whose lower-cased path no other value of the terminal
\* crosses reaches the event, although BuildEvents ignores Put's errors.
THEOREM NamesetsKept == Spec => []NamesetsAreKept
<1>1. LoopInv => NamesetsAreKept
  <2> SUFFICES ASSUME LoopInv, NEW i \in DOMAIN events
               PROVE  LET edge == Tagged[i]
                          route == events[i].routeableTerminal
                      IN  /\ Keeps(events[i].dstNameset, edge.names)
                          /\ edge.phys # Nil =>
                               Keeps(route.physicalSource, edge.phys)
                          /\ edge.sub # Nil =>
                               Keeps(route.subscribedSource, edge.sub)
    BY DEF NamesetsAreKept
  <2>1. Tagged[i] \in Edge /\ events[i] = Event(Tagged[i])
    BY EventsFollowEdges
  <2>2. /\ events[i].dstNameset = rangeOverNamesets(Tagged[i].names)
        /\ events[i].routeableTerminal = RouteableTerminal(Tagged[i])
    BY <2>1 DEF Event
  <2>3. Tagged[i].names \in Seq(NamesetName)
    BY <2>1 DEF Edge
  <2> QED
    BY <2>1, <2>2, <2>3, RouteOf, RangeKeeps
<1> QED
  BY <1>1, LoopCorrect, PTL

\* The labels agree with the nameset objects published beside them.
THEOREM LabelsMatch == Spec => []LabelsMatchNamesets
<1>1. LoopInv => LabelsMatchNamesets
  <2> SUFFICES ASSUME LoopInv, mapping # Nil, NEW i \in DOMAIN events
               PROVE  LET event == events[i]
                          edge == Tagged[i]
                          route == event.routeableTerminal
                      IN  /\ Agrees(event.destinationLabel, event.dstNameset,
                                    edge.names)
                          /\ IF route = Nil THEN event.sourceLabel = Default
                             ELSE IF route.subscribedSource # Nil
                             THEN Agrees(event.sourceLabel,
                                         route.subscribedSource, edge.sub)
                             ELSE Agrees(event.sourceLabel,
                                         route.physicalSource, edge.phys)
    BY DEF LabelsMatchNamesets
  <2> DEFINE edge == Tagged[i]
             event == events[i]
             route == event.routeableTerminal
  <2>1. edge \in Edge /\ event = Event(edge) /\ mapping \in Namesets
    BY EventsFollowEdges DEF LoopInv
  <2>2. /\ event.dstNameset = rangeOverNamesets(edge.names)
        /\ event.destinationLabel = findNamesetValueByName(mapping, edge.names)
        /\ event.sourceLabel = SourceLabel(edge)
        /\ route = RouteableTerminal(edge)
    BY <2>1 DEF Event
  <2>3. edge.names \in Seq(NamesetName)
    BY <2>1 DEF Edge
  <2> HIDE DEF edge, event, route
  <2>4. \A names \in Seq(NamesetName) :
          Agrees(findNamesetValueByName(mapping, names),
                 rangeOverNamesets(names), names)
    BY <2>1, LabelAgrees
  <2>5. Agrees(event.destinationLabel, event.dstNameset, edge.names)
    BY <2>2, <2>3, <2>4
  <2>6. CASE route = Nil
    <3>1. edge.phys = Nil /\ edge.sub = Nil
      BY <2>1, <2>2, <2>6, RouteOf
    <3>2. event.sourceLabel = Default
      BY <2>2, <3>1 DEF SourceLabel
    <3> QED
      BY <2>5, <2>6, <3>2 DEF edge, event, route
  <2>7. CASE route # Nil /\ route.subscribedSource # Nil
    <3>1. /\ edge.sub # Nil /\ edge.sub \in Seq(NamesetName)
          /\ route.subscribedSource = rangeOverNamesets(edge.sub)
      BY <2>1, <2>2, <2>7, RouteOf
    <3>2. event.sourceLabel = findNamesetValueByName(mapping, edge.sub)
      BY <2>2, <3>1 DEF SourceLabel
    <3>3. Agrees(event.sourceLabel, route.subscribedSource, edge.sub)
      BY <2>4, <3>1, <3>2
    <3> QED
      BY <2>5, <2>7, <3>3 DEF edge, event, route
  <2>8. CASE route # Nil /\ route.subscribedSource = Nil
    <3>1. /\ edge.sub = Nil /\ edge.phys # Nil /\ edge.phys \in Seq(NamesetName)
          /\ route.physicalSource = rangeOverNamesets(edge.phys)
      BY <2>1, <2>2, <2>8, RouteOf
    <3>2. event.sourceLabel = findNamesetValueByName(mapping, edge.phys)
      BY <2>2, <3>1 DEF SourceLabel
    <3>3. Agrees(event.sourceLabel, route.physicalSource, edge.phys)
      BY <2>4, <3>1, <3>2
    <3> QED
      BY <2>5, <2>8, <3>3 DEF edge, event, route
  <2> QED
    BY <2>6, <2>7, <2>8
<1> QED
  BY <1>1, LoopCorrect, PTL

-----------------------------------------------------------------------------
(* What is published, without Carrying *)

\* Event k is that of edge pick[k]: edges that carry the tag, each of them
\* once, in their order.
IsPick(pick) ==
  /\ pick \in [DOMAIN published -> DOMAIN edges]
  /\ \A j, k \in DOMAIN published : j < k => pick[j] < pick[k]
  /\ {pick[k] : k \in DOMAIN published} = {i \in DOMAIN edges : tag \in edges[i].tags}
  /\ \A k \in DOMAIN published : published[k] = Event(edges[pick[k]])

PublishesAPick == published # Nil => \E pick : IsPick(pick)

\* Whatever the edges, PublishAll is given the whole event of every edge with
\* the very tag and nothing else, in the order of the edges.  PublishesTagged
\* says so by means of a recursive function; here it is said by indices alone.
THEOREM PublishesPick == Spec => []PublishesAPick
<1>1. LoopInv => PublishesAPick
  <2> SUFFICES ASSUME LoopInv, published # Nil PROVE \E pick : IsPick(pick)
    BY DEF PublishesAPick
  <2>1. /\ edges \in Seq(Edge) /\ Len(edges) \in Nat
        /\ published = events /\ next - 1 = Len(edges)
    BY DEF LoopInv
  <2>2. Done = Tagged
    BY <2>1 DEF Done, Tagged
  <2>3. PICK pick : Selects(pick, Len(edges), tag, edges)
    BY <2>1, CarryingSelects
  <2>4. /\ DOMAIN published = 1..Len(Tagged)
        /\ DOMAIN edges = 1..Len(edges)
    BY <2>1, <2>2 DEF LoopInv
  <2>5. /\ pick \in [1..Len(Tagged) -> 1..Len(edges)]
        /\ \A i, j \in 1..Len(Tagged) : i < j => pick[i] < pick[j]
        /\ \A j \in 1..Len(Tagged) : /\ Tagged[j] = edges[pick[j]]
                                     /\ tag \in edges[pick[j]].tags
        /\ \A i \in 1..Len(edges) :
             tag \in edges[i].tags => \E j \in 1..Len(Tagged) : pick[j] = i
    BY <2>3 DEF Selects, Tagged
  <2>6. \A k \in DOMAIN published : published[k] = Event(edges[pick[k]])
    BY <2>1, <2>4, <2>5, EventsFollowEdges
  <2>7. {pick[k] : k \in DOMAIN published} =
          {i \in DOMAIN edges : tag \in edges[i].tags}
    BY <2>4, <2>5
  <2>8. IsPick(pick)
    BY <2>4, <2>5, <2>6, <2>7 DEF IsPick
  <2> QED
    BY <2>8
<1> QED
  BY <1>1, LoopCorrect, PTL
=============================================================================
