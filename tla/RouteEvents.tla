----------------------------- MODULE RouteEvents -----------------------------
(***************************************************************************)
(* One call of BuildEvents: the edges of a query result or a notification  *)
(* are filtered by tag, turned into events one by one and handed to the    *)
(* publisher together.                                                     *)
(*                                                                         *)
(* A nested mapstr.M is a function from the paths of its leaves to their   *)
(* values.  The fields BuildEvents copies without looking at them are left *)
(* out; a source is represented by its list of nameset names.              *)
(***************************************************************************)
EXTENDS Naturals, Sequences, SequencesExt

CONSTANTS
  Tags,      \* the tags terminals carry
  Namesets,  \* the names of namesets, as the API spells them
  Values,    \* the nameset values
  Default,   \* bt.config.Mapping.Default
  Key,       \* Key[n]: the segments of n in lower case, split at the dots
  Inputs,    \* the argument lists and mappings a behaviour may start with
  Nil

ASSUME KeyAssumption == /\ Key \in [Namesets -> Seq(STRING)]
                        /\ \A n \in Namesets : Len(Key[n]) > 0

NamesetName == [nameset : Namesets, name : Values]

\* RoutedPhysicalSource and SubscribedSource, which may be nil.
Source == Seq(NamesetName) \cup {Nil}

\* What a mapstr.M, the object of a route and an event can hold.
Paths == {Key[n] : n \in Namesets}
Map == UNION {[P -> Values] : P \in SUBSET Paths}
Route == [physicalSource : Map \cup {Nil}, subscribedSource : Map \cup {Nil}]
Label == Values \cup {Default, Nil}
EventFields ==
  [dstId : Nat, dstTag : Tags, dstNameset : Map,
   routeableTerminal : Route \cup {Nil},
   destinationLabel : Label, sourceLabel : Label]

ASSUME NilAssumption ==
  /\ Nil \notin Namesets
  /\ Nil \notin Seq(NamesetName)
  /\ Nil \notin Map
  /\ Nil \notin Route

Edge == [id : Nat, tags : SUBSET Tags, names : Seq(NamesetName),
         phys : Source, sub : Source]

ASSUME InputsAssumption ==
  Inputs \subseteq [mapping : Namesets \cup {Nil}, tag : Tags, edges : Seq(Edge)]

VARIABLES
  mapping,    \* bt.config.Mapping.Nameset, or Nil when there is no mapping
  tag,        \* the tag BuildEvents was called for
  edges,      \* the edges it was called with
  next,       \* the index of the edge the loop is at
  events,     \* the events built so far
  discarded,  \* edges discarded so far
  published   \* what PublishAll was called with, or Nil

args == <<mapping, tag, edges>>
vars == <<mapping, tag, edges, next, events, discarded, published>>

-----------------------------------------------------------------------------
(* mapstr.M                                                                *)

EmptyMap == << >>

\* Mutation of Put: the dotted path is one flat key.
Put_Flat(m, path, value) ==
  [p \in DOMAIN m \cup {path} |-> IF p = path THEN value ELSE m[p]]

\* Mutation of Put: intermediate maps are not created.
Put_NoNesting(m, path, value) ==
  IF Len(path) > 1
    THEN m
    ELSE [p \in {q \in DOMAIN m : ~IsPrefix(path, q)} \cup {path} |->
            IF p = path THEN value ELSE m[p]]

\* M.Put fails when its path leads through a leaf - BuildEvents ignores the
\* error - and otherwise replaces what it finds, be it a leaf or a map.
Put(m, path, value) ==
  IF \E p \in DOMAIN m : IsStrictPrefix(p, path)
    THEN m
    ELSE [p \in {q \in DOMAIN m : ~IsPrefix(path, q)} \cup {path} |->
            IF p = path THEN value ELSE m[p]]

\* rangeOverNamesets, and the loop over edge.NamesetNames in BuildEvents.
rangeOverNamesets(names) ==
  LET m[i \in 0..Len(names)] ==
        IF i = 0
          THEN EmptyMap
          ELSE Put(m[i - 1], Key[names[i].nameset], names[i].name)
  IN  m[Len(names)]

\* findNamesetValueByName: the first entry whose nameset has that very name.
findNamesetValueByName(s, names) ==
  LET i == SelectInSeq(names, LAMBDA n : n.nameset = s)
  IN  IF i = 0 THEN Default ELSE names[i].name

-----------------------------------------------------------------------------
(* An event                                                                *)

\* Mutation of SourceLabel: the subscribed source does not override.
SourceLabel_PhysicalWins(edge) ==
  IF edge.phys # Nil THEN findNamesetValueByName(mapping, edge.phys)
  ELSE IF edge.sub # Nil THEN findNamesetValueByName(mapping, edge.sub)
  ELSE Default

\* "sourceLabel" is put up to three times: the default, then the physical
\* source's label, then the subscribed source's, each over the last.
SourceLabel(edge) ==
  IF edge.sub # Nil THEN findNamesetValueByName(mapping, edge.sub)
  ELSE IF edge.phys # Nil THEN findNamesetValueByName(mapping, edge.phys)
  ELSE Default

\* "routeableTerminal": deleted again when there is no source at all.
RouteableTerminal(edge) ==
  IF edge.phys = Nil /\ edge.sub = Nil
    THEN Nil
    ELSE [physicalSource |->
            IF edge.phys = Nil THEN Nil ELSE rangeOverNamesets(edge.phys),
          subscribedSource |->
            IF edge.sub = Nil THEN Nil ELSE rangeOverNamesets(edge.sub)]

Event(edge) ==
  [dstId |-> edge.id,
   dstTag |-> tag,
   dstNameset |-> rangeOverNamesets(edge.names),
   routeableTerminal |-> RouteableTerminal(edge),
   destinationLabel |->
     IF mapping = Nil THEN Nil
                      ELSE findNamesetValueByName(mapping, edge.names),
   sourceLabel |-> IF mapping = Nil THEN Nil ELSE SourceLabel(edge)]

-----------------------------------------------------------------------------
(* The loop                                                                *)

Init ==
  /\ \E in \in Inputs :
       mapping = in.mapping /\ tag = in.tag /\ edges = in.edges
  /\ next = 1 /\ events = << >> /\ discarded = 0 /\ published = Nil

\* Mutation of DiscardsEdge: break in the place of continue.
DiscardsEdge_Breaks ==
  /\ next <= Len(edges)
  /\ tag \notin edges[next].tags
  /\ discarded' = discarded + 1
  /\ next' = Len(edges) + 1
  /\ UNCHANGED <<args, events, published>>

\* The server's filter also returns terminals with a tag that only contains
\* the one asked for.
DiscardsEdge ==
  /\ next <= Len(edges)
  /\ tag \notin edges[next].tags
  /\ discarded' = discarded + 1
  /\ next' = next + 1
  /\ UNCHANGED <<args, events, published>>

BuildsEvent ==
  /\ next <= Len(edges)
  /\ tag \in edges[next].tags
  /\ events' = Append(events, Event(edges[next]))
  /\ next' = next + 1
  /\ UNCHANGED <<args, discarded, published>>

\* bt.client.PublishAll(events), with no events as well.
PublishesEvents ==
  /\ next > Len(edges)
  /\ published = Nil
  /\ published' = events
  /\ UNCHANGED <<args, next, events, discarded>>

Next == DiscardsEdge \/ BuildsEvent \/ PublishesEvents

Spec == Init /\ [][Next]_vars

-----------------------------------------------------------------------------
(* Properties                                                              *)

\* No leaf of a map is also a map.
IsTree(m) == \A p, q \in DOMAIN m : ~IsStrictPrefix(p, q)

Maps(event) ==
  {event.dstNameset} \cup
    IF event.routeableTerminal = Nil THEN {}
    ELSE {event.routeableTerminal.physicalSource,
          event.routeableTerminal.subscribedSource} \ {Nil}

\* The counters and indices stay in range, and the nameset objects of every
\* event are well-formed trees of nameset values.
TypeOK ==
  /\ mapping \in Namesets \cup {Nil}
  /\ tag \in Tags
  /\ next \in 1..Len(edges) + 1
  /\ discarded \in 0..Len(edges)
  /\ published \in {Nil, events}
  /\ events \in Seq(EventFields)
  /\ \A i \in DOMAIN events : \A m \in Maps(events[i]) : IsTree(m)

\* Carrying(g, es)[i]: those of the first i edges that carry the very tag g.
Carrying(g, es) ==
  LET s[i \in 0..Len(es)] ==
        IF i = 0 THEN << >>
        ELSE IF g \in es[i].tags THEN Append(s[i - 1], es[i])
        ELSE s[i - 1]
  IN  s

Tagged == Carrying(tag, edges)[Len(edges)]

\* What PublishAll is given is one event per edge that carries the very tag,
\* in the order of the answer, and every other edge is counted as discarded.
PublishesTaggedEdges ==
  published # Nil =>
    /\ [i \in DOMAIN published |-> published[i].dstId] =
         [i \in DOMAIN Tagged |-> Tagged[i].id]
    /\ Len(published) + discarded = Len(edges)

Clash(n1, n2) ==
  IsPrefix(Key[n1], Key[n2]) \/ IsPrefix(Key[n2], Key[n1])

\* Entry i of names shares no path with another entry.
Alone(names, i) ==
  \A j \in DOMAIN names \ {i} : ~Clash(names[i].nameset, names[j].nameset)

Keeps(m, names) ==
  /\ \A i \in DOMAIN names :
       Alone(names, i) => /\ Key[names[i].nameset] \in DOMAIN m
                          /\ m[Key[names[i].nameset]] = names[i].name
  /\ DOMAIN m \subseteq {Key[names[i].nameset] : i \in DOMAIN names}

\* Ignoring Put's errors loses no nameset value of a destination or of a
\* source unless two namesets of that terminal have overlapping names once
\* they are lower-cased and split at the dots.
NamesetsAreKept ==
  \A i \in DOMAIN events :
    LET edge == Tagged[i]
        route == events[i].routeableTerminal
    IN  /\ Keeps(events[i].dstNameset, edge.names)
        /\ edge.phys # Nil => Keeps(route.physicalSource, edge.phys)
        /\ edge.sub # Nil => Keeps(route.subscribedSource, edge.sub)

\* The label for a terminal agrees with the nameset object published beside
\* it, although the one is looked up by exact name, first match, and the
\* other written in lower case, last write.
Agrees(label, m, names) ==
  LET clashing == {i \in DOMAIN names : Clash(names[i].nameset, mapping)}
      exact == {i \in clashing : names[i].nameset = mapping}
  IN  clashing = exact /\ (\A i, j \in exact : i = j) =>
        label = IF Key[mapping] \in DOMAIN m THEN m[Key[mapping]] ELSE Default

\* With a mapping, destinationLabel agrees with dstNameset and sourceLabel
\* with the namesets of the subscribed source, else of the physical source;
\* it is the default for an event without a route.
LabelsMatchNamesets ==
  mapping # Nil =>
    \A i \in DOMAIN events :
      LET event == events[i]
          edge == Tagged[i]
          route == event.routeableTerminal
      IN  /\ Agrees(event.destinationLabel, event.dstNameset, edge.names)
          /\ IF route = Nil THEN event.sourceLabel = Default
             ELSE IF route.subscribedSource # Nil
             THEN Agrees(event.sourceLabel, route.subscribedSource, edge.sub)
             ELSE Agrees(event.sourceLabel, route.physicalSource, edge.phys)

\* routebeat.yml calls the default the "default value for emptry route": a
\* route one of whose sources has a value for the nameset is not labelled
\* with it.
DefaultMeansEmptyRoute ==
  mapping # Nil =>
    \A i \in DOMAIN events :
      events[i].sourceLabel = Default =>
        \A source \in {Tagged[i].phys, Tagged[i].sub} \ {Nil} :
          findNamesetValueByName(mapping, source) = Default
=============================================================================
