---------------------------- MODULE NamesetProofs ----------------------------
(***************************************************************************)
(* What the operators of RouteEvents compute, for every nameset list and   *)
(* every edge list: the lemmas its invariants rest on.                     *)
(***************************************************************************)
EXTENDS RouteEvents, WellFoundedInduction, TLAPS

-----------------------------------------------------------------------------
(* Induction up to a bound, and functions defined by recursion up to one   *)

\* Every set of natural numbers that is not empty has a least element.
LEMMA Least ==
  ASSUME NEW T \in SUBSET Nat, T # {}
  PROVE  \E m \in T : \A k \in T : m <= k
<1>1. PICK m \in T : \A k \in T : <<k, m>> \notin OpToRel(<, Nat)
  BY WFMin, NatLessThanWellFounded, Zenon
<1>2. \A k \in T : ~(k < m)
  BY <1>1, Zenon DEF OpToRel
<1> QED
  BY <1>2

\* A set with 0 and with the successor of each of its members below n has
\* every number up to n: the loops over edges and over nameset names.
LEMMA UpTo ==
  ASSUME NEW n \in Nat, NEW T, 0 \in T,
         \A i \in 0..n : i \in T /\ i < n => i + 1 \in T
  PROVE  \A i \in 0..n : i \in T
<1> DEFINE Missing == {i \in 0..n : i \notin T}
<1> SUFFICES ASSUME Missing # {} PROVE FALSE
  OBVIOUS
<1>1. Missing \in SUBSET Nat
  OBVIOUS
<1>2. PICK m \in Missing : \A k \in Missing : m <= k
  BY <1>1, Least
<1>3. m \in 0..n /\ m \notin T /\ m # 0
  BY <1>2
<1>4. m - 1 \in 0..n /\ m - 1 \notin Missing
  BY <1>2, <1>3
<1>5. m - 1 \in T
  BY <1>4
<1>6. (m - 1) + 1 \in T
  BY <1>3, <1>4, <1>5
<1> QED
  BY <1>3, <1>6

\* step[i] is what round i of a loop of n rounds does to a state of S; f[i]
\* is the state after round i.
Steps(step, n, S) == \A i \in 1..n, s \in S : step[i][s] \in S

IsTrace(f, n, S, base, step) ==
  /\ f \in [0..n -> S]
  /\ f[0] = base
  /\ \A i \in 1..n : f[i] = step[i][f[i - 1]]

\* Every loop has a trace.
LEMMA Trace ==
  ASSUME NEW n \in Nat, NEW S, NEW base \in S, NEW step, Steps(step, n, S)
  PROVE  \E f : IsTrace(f, n, S, base, step)
<1> DEFINE T == {k \in 0..n : \E f : IsTrace(f, k, S, base, step)}
<1>1. \A k \in 0..n : k \in T <=> \E f : IsTrace(f, k, S, base, step)
  OBVIOUS
<1> HIDE DEF T
<1>2. 0 \in T
  <2>1. IsTrace([i \in 0..0 |-> base], 0, S, base, step)
    BY DEF IsTrace
  <2> QED
    BY <2>1, <1>1
<1>3. ASSUME NEW k \in 0..n, k \in T, k < n
      PROVE  k + 1 \in T
  <2>1. PICK f : IsTrace(f, k, S, base, step)
    BY <1>1, <1>3
  <2>2. /\ f \in [0..k -> S] /\ f[0] = base
        /\ \A i \in 1..k : f[i] = step[i][f[i - 1]]
    BY <2>1 DEF IsTrace
  <2> DEFINE g == [i \in 0..(k + 1) |-> IF i = k + 1 THEN step[k + 1][f[k]]
                                                    ELSE f[i]]
  <2>3. k + 1 \in 1..n /\ f[k] \in S
    BY <1>3, <2>2
  <2>4. step[k + 1][f[k]] \in S
    BY <2>3 DEF Steps
  <2>5. g \in [0..(k + 1) -> S]
    BY <2>2, <2>4
  <2>6. g[0] = base
    BY <2>2, <2>3
  <2>7. ASSUME NEW i \in 1..(k + 1) PROVE g[i] = step[i][g[i - 1]]
    <3>1. CASE i = k + 1
      BY <3>1, <2>3
    <3>2. CASE i # k + 1
      <4>1. i \in 1..k /\ i - 1 \in 0..k
        BY <3>2
      <4> QED
        BY <4>1, <3>2, <2>2
    <3> QED
      BY <3>1, <3>2
  <2> HIDE DEF g
  <2>8. IsTrace(g, k + 1, S, base, step)
    BY <2>5, <2>6, <2>7 DEF IsTrace
  <2> QED
    BY <2>8, <2>3, <1>1
<1>4. n \in T
  <2>1. \A k \in 0..n : k \in T /\ k < n => k + 1 \in T
    BY <1>3
  <2>2. \A k \in 0..n : k \in T
    BY <1>2, <2>1, UpTo, Zenon
  <2> QED
    BY <2>2
<1> QED
  BY <1>1, <1>4

-----------------------------------------------------------------------------
(* Paths *)

\* A path is a non-empty sequence of segments.
LEMMA PathsType == \A p \in Paths : p \in Seq(STRING) /\ Len(p) > 0
  BY KeyAssumption DEF Paths

\* A path is a prefix of another when it is no longer and agrees with it.
LEMMA PrefixDef ==
  ASSUME NEW p \in Seq(STRING), NEW q \in Seq(STRING)
  PROVE  IsPrefix(p, q) <=> /\ Len(p) <= Len(q)
                            /\ \A i \in 1..Len(p) : p[i] = q[i]
  BY DEF IsPrefix

LEMMA PrefixRefl == \A p \in Seq(STRING) : IsPrefix(p, p)
  BY PrefixDef

-----------------------------------------------------------------------------
(* M.Put *)

LEMMA MapDef ==
  ASSUME NEW m
  PROVE  m \in Map <=> DOMAIN m \subseteq Paths /\ m \in [DOMAIN m -> Values]
  BY DEF Map

LEMMA EmptyMapIsMap == EmptyMap \in Map /\ DOMAIN EmptyMap = {}
<1>1. DOMAIN EmptyMap = {} /\ EmptyMap \in [{} -> Values]
  BY DEF EmptyMap
<1> QED
  BY <1>1, MapDef

\* Put leaves a map of nameset values, and adds at most the path it is given.
LEMMA PutType ==
  ASSUME NEW m \in Map, NEW path \in Paths, NEW value \in Values
  PROVE  /\ Put(m, path, value) \in Map
         /\ DOMAIN Put(m, path, value) \subseteq DOMAIN m \cup {path}
<1>1. DOMAIN m \subseteq Paths /\ \A p \in DOMAIN m : m[p] \in Values
  BY MapDef
<1> DEFINE put == [p \in {q \in DOMAIN m : ~IsPrefix(path, q)} \cup {path} |->
                     IF p = path THEN value ELSE m[p]]
<1>2. DOMAIN put \subseteq DOMAIN m \cup {path}
  OBVIOUS
<1>3. put \in Map
  <2>1. \A p \in DOMAIN put : put[p] \in Values
    BY <1>1
  <2>2. put \in [DOMAIN put -> Values]
    BY <2>1
  <2> HIDE DEF put
  <2> QED
    BY <1>1, <1>2, <2>2, MapDef
<1>4. Put(m, path, value) = m \/ Put(m, path, value) = put
  BY DEF Put
<1> HIDE DEF put
<1> QED
  BY <1>2, <1>3, <1>4

\* Put keeps a map a tree: a leaf its path leads through makes it fail, and
\* the map at its path gives way.
LEMMA PutKeepsTree ==
  ASSUME NEW m \in Map, IsTree(m), NEW path \in Paths, NEW value \in Values
  PROVE  IsTree(Put(m, path, value))
<1>1. CASE \E p \in DOMAIN m : IsStrictPrefix(p, path)
  BY <1>1 DEF Put
<1>2. CASE ~ \E p \in DOMAIN m : IsStrictPrefix(p, path)
  <2>1. \A p \in DOMAIN Put(m, path, value) :
          p = path \/ (p \in DOMAIN m /\ ~IsPrefix(path, p))
    BY <1>2 DEF Put
  <2>2. SUFFICES ASSUME NEW p \in DOMAIN Put(m, path, value),
                        NEW q \in DOMAIN Put(m, path, value)
                 PROVE  ~IsStrictPrefix(p, q)
    BY DEF IsTree
  <2>3. CASE p = path
    BY <2>1, <2>3 DEF IsStrictPrefix
  <2>4. CASE p # path /\ q = path
    BY <1>2, <2>1, <2>4
  <2>5. CASE p # path /\ q # path
    BY <2>1, <2>5 DEF IsTree
  <2> QED
    BY <2>3, <2>4, <2>5
<1> QED
  BY <1>1, <1>2

\* Put succeeds unless a leaf lies on the way.
LEMMA PutWrites ==
  ASSUME NEW m, NEW path, NEW value,
         \A p \in DOMAIN m : ~IsStrictPrefix(p, path)
  PROVE  path \in DOMAIN Put(m, path, value) /\ Put(m, path, value)[path] = value
  BY DEF Put

\* Put does not touch a leaf that its path does not lead to or through.
LEMMA PutKeeps ==
  ASSUME NEW m \in Map, NEW path \in Paths, NEW value,
         NEW leaf \in DOMAIN m, ~IsPrefix(path, leaf)
  PROVE  leaf \in DOMAIN Put(m, path, value) /\ Put(m, path, value)[leaf] = m[leaf]
<1>1. leaf # path
  BY PrefixRefl, PathsType
<1> QED
  BY <1>1 DEF Put

-----------------------------------------------------------------------------
(* rangeOverNamesets *)

\* The loop puts one nameset value after the other.
LEMMA RangeTrace ==
  ASSUME NEW names \in Seq(NamesetName)
  PROVE  \E m \in [0..Len(names) -> Map] :
           /\ m[0] = EmptyMap
           /\ \A i \in 1..Len(names) :
                m[i] = Put(m[i - 1], Key[names[i].nameset], names[i].name)
           /\ rangeOverNamesets(names) = m[Len(names)]
<1> DEFINE n == Len(names)
           Round(i, m) == Put(m, Key[names[i].nameset], names[i].name)
           step == [i \in 1..n |-> [m \in Map |-> Round(i, m)]]
           IsLoop(f) ==
             f = [i \in 0..n |-> IF i = 0 THEN EmptyMap ELSE Round(i, f[i - 1])]
<1>1. n \in Nat
  OBVIOUS
<1>2. \A i \in 1..n, m \in Map : Round(i, m) \in Map
  <2>1. \A i \in 1..n : names[i] \in NamesetName
    OBVIOUS
  <2>2. \A i \in 1..n : Key[names[i].nameset] \in Paths /\ names[i].name \in Values
    BY <2>1 DEF NamesetName, Paths
  <2> QED
    BY <2>2, PutType
<1> HIDE DEF Round, n
<1>3. \A i \in 1..n, m \in Map : step[i][m] = Round(i, m)
  OBVIOUS
<1>4. Steps(step, n, Map)
  BY <1>2, <1>3 DEF Steps
<1> HIDE DEF step
<1>5. PICK f \in [0..n -> Map] :
        f[0] = EmptyMap /\ \A i \in 1..n : f[i] = step[i][f[i - 1]]
  <2>1. PICK f : IsTrace(f, n, Map, EmptyMap, step)
    BY <1>1, <1>4, EmptyMapIsMap, Trace
  <2> QED
    BY <2>1 DEF IsTrace
<1>6. \A i \in 1..n : f[i - 1] \in Map /\ i - 1 \in 0..n
  BY <1>1, <1>5
<1>7. \A i \in 1..n : f[i] = Round(i, f[i - 1])
  BY <1>3, <1>5, <1>6
<1>8. IsLoop(f)
  <2>1. \A i \in 0..n : f[i] = IF i = 0 THEN EmptyMap ELSE Round(i, f[i - 1])
    BY <1>1, <1>5, <1>7
  <2> QED
    BY <1>5, <2>1
<1> DEFINE g == CHOOSE h : IsLoop(h)
<1>9. IsLoop(g)
  <2> HIDE DEF IsLoop
  <2> QED
    BY <1>8
<1>10. rangeOverNamesets(names) = g[n]
  BY DEF rangeOverNamesets, n, Round
<1> HIDE DEF g
<1>11. g \in [0..n -> Map]
  <2>1. DOMAIN g = 0..n
    BY <1>9
  <2>2. \A i \in 0..n : g[i] = IF i = 0 THEN EmptyMap ELSE Round(i, g[i - 1])
    BY <1>9
  <2> DEFINE T == {i \in 0..n : g[i] \in Map}
  <2>3. 0 \in T
    BY <1>1, <2>2, EmptyMapIsMap
  <2>4. \A i \in 0..n : i \in T /\ i < n => i + 1 \in T
    BY <1>1, <1>2, <2>2
  <2>5. \A i \in 0..n : i \in T
    <3> HIDE DEF T
    <3> QED
      BY <1>1, <2>3, <2>4, UpTo, Zenon
  <2> QED
    BY <1>9, <2>5
<1>12. g[0] = EmptyMap
  BY <1>1, <1>9
<1>13. \A i \in 1..n : g[i] = Round(i, g[i - 1])
  BY <1>1, <1>9
<1> QED
  BY <1>10, <1>11, <1>12, <1>13 DEF n, Round

\* The map built from a list of nameset values is a tree, and it holds every
\* value whose path no other entry of the list crosses.
LEMMA RangeKeeps ==
  ASSUME NEW names \in Seq(NamesetName)
  PROVE  /\ rangeOverNamesets(names) \in Map
         /\ IsTree(rangeOverNamesets(names))
         /\ Keeps(rangeOverNamesets(names), names)
<1> DEFINE n == Len(names)
           path(i) == Key[names[i].nameset]
           value(i) == names[i].name
<1>1. n \in Nat /\ DOMAIN names = 1..n
  OBVIOUS
<1>2. \A i \in 1..n : path(i) \in Paths /\ value(i) \in Values
  <2>1. \A i \in 1..n : names[i] \in NamesetName
    OBVIOUS
  <2> QED
    BY <2>1 DEF NamesetName, Paths
<1>3. PICK m \in [0..n -> Map] :
        /\ m[0] = EmptyMap
        /\ \A i \in 1..n : m[i] = Put(m[i - 1], path(i), value(i))
        /\ rangeOverNamesets(names) = m[n]
  BY RangeTrace
<1>4. \A i \in 1..n : Alone(names, i) =>
        \A j \in 1..n \ {i} : /\ ~IsPrefix(path(i), path(j))
                              /\ ~IsPrefix(path(j), path(i))
  BY <1>1 DEF Alone, Clash
<1> HIDE DEF n, path, value
<1> DEFINE Held(k) == /\ IsTree(m[k])
                      /\ DOMAIN m[k] \subseteq {path(i) : i \in 1..k}
                      /\ \A i \in 1..k : Alone(names, i) =>
                           path(i) \in DOMAIN m[k] /\ m[k][path(i)] = value(i)
           T == {k \in 0..n : Held(k)}
<1>5. 0 \in T
  <2>1. DOMAIN m[0] = {} /\ IsTree(m[0])
    BY <1>3, EmptyMapIsMap DEF IsTree
  <2> QED
    BY <1>1, <2>1
<1>6. ASSUME NEW k \in 0..n, Held(k), k < n
      PROVE  Held(k + 1)
  <2>1. /\ k + 1 \in 1..n /\ m[k] \in Map
        /\ path(k + 1) \in Paths /\ value(k + 1) \in Values
    <3>1. k + 1 \in 1..n
      BY <1>1, <1>6
    <3> QED
      BY <3>1, <1>2, <1>3
  <2>2. m[k + 1] = Put(m[k], path(k + 1), value(k + 1))
    BY <1>3, <2>1
  <2>3. IsTree(m[k + 1])
    BY <1>6, <2>1, <2>2, PutKeepsTree
  <2>4. DOMAIN m[k + 1] \subseteq {path(i) : i \in 1..(k + 1)}
    <3>1. DOMAIN m[k + 1] \subseteq DOMAIN m[k] \cup {path(k + 1)}
      BY <2>1, <2>2, PutType
    <3>2. \A i \in 1..k : i \in 1..(k + 1)
      BY <2>1
    <3>3. k + 1 \in 1..(k + 1)
      BY <2>1
    <3> QED
      BY <1>6, <3>1, <3>2, <3>3
  <2>5. ASSUME NEW i \in 1..(k + 1), Alone(names, i)
        PROVE  path(i) \in DOMAIN m[k + 1] /\ m[k + 1][path(i)] = value(i)
    <3>1. i \in 1..n
      BY <1>1, <2>1
    <3>2. CASE i = k + 1
      <4>1. \A j \in 1..k : j \in 1..n \ {i}
        BY <1>1, <2>1, <3>2
      <4>2. \A p \in DOMAIN m[k] : ~IsStrictPrefix(p, path(i))
        BY <1>4, <1>6, <2>5, <3>1, <4>1 DEF IsStrictPrefix
      <4> QED
        BY <2>2, <3>2, <4>2, PutWrites
    <3>3. CASE i # k + 1
      <4>1. i \in 1..k /\ k + 1 \in 1..n \ {i}
        BY <2>1, <3>3
      <4>2. ~IsPrefix(path(k + 1), path(i))
        BY <1>4, <2>5, <3>1, <4>1
      <4>3. path(i) \in DOMAIN m[k] /\ m[k][path(i)] = value(i)
        BY <1>6, <2>5, <4>1
      <4> QED
        BY <2>1, <2>2, <4>2, <4>3, PutKeeps
    <3> QED
      BY <3>2, <3>3
  <2> QED
    BY <2>3, <2>4, <2>5
<1>7. \A k \in 0..n : k \in T
  <2>1. \A k \in 0..n : k \in T /\ k < n => k + 1 \in T
    BY <1>1, <1>6
  <2> HIDE DEF T
  <2> QED
    BY <1>1, <1>5, <2>1, UpTo, Zenon
<1>8. Held(n)
  BY <1>1, <1>7
<1>9. Keeps(m[n], names)
  BY <1>1, <1>8 DEF Keeps, path, value
<1> QED
  BY <1>1, <1>3, <1>8, <1>9

-----------------------------------------------------------------------------
(* findNamesetValueByName *)

LEMMA MinIsLeast ==
  ASSUME NEW T \in SUBSET Nat, T # {}
  PROVE  Min(T) \in T /\ \A k \in T : Min(T) <= k
  BY Least DEF Min

\* The default when no entry has the name, else the value of one that has.
LEMMA FindsByName ==
  ASSUME NEW names \in Seq(NamesetName), NEW s
  PROVE  \/ /\ \A i \in DOMAIN names : names[i].nameset # s
            /\ findNamesetValueByName(s, names) = Default
         \/ \E i \in DOMAIN names :
              /\ names[i].nameset = s
              /\ \A j \in DOMAIN names : names[j].nameset = s => i <= j
              /\ findNamesetValueByName(s, names) = names[i].name
<1> DEFINE I == {i \in 1..Len(names) : names[i].nameset = s}
<1>1. DOMAIN names = 1..Len(names) /\ Len(names) \in Nat
  OBVIOUS
<1>2. SelectInSeq(names, LAMBDA e : e.nameset = s) = IF I # {} THEN Min(I) ELSE 0
  BY DEF SelectInSeq
<1>3. findNamesetValueByName(s, names) =
        IF (IF I # {} THEN Min(I) ELSE 0) = 0
          THEN Default ELSE names[IF I # {} THEN Min(I) ELSE 0].name
  BY <1>2 DEF findNamesetValueByName
<1>4. CASE I = {}
  BY <1>1, <1>3, <1>4
<1>5. CASE I # {}
  <2>1. I \in SUBSET Nat
    BY <1>1
  <2>2. Min(I) \in I /\ \A k \in I : Min(I) <= k
    BY <1>5, <2>1, MinIsLeast
  <2>3. Min(I) # 0
    BY <2>2
  <2>4. findNamesetValueByName(s, names) = names[Min(I)].name
    BY <1>3, <1>5, <2>3
  <2> QED
    BY <1>1, <2>2, <2>4
<1> QED
  BY <1>4, <1>5

\* A label looked up by name agrees with the map of the same list.
LEMMA LabelAgrees ==
  ASSUME NEW names \in Seq(NamesetName), mapping \in Namesets
  PROVE  Agrees(findNamesetValueByName(mapping, names),
                rangeOverNamesets(names), names)
<1> DEFINE m == rangeOverNamesets(names)
           label == findNamesetValueByName(mapping, names)
           clashing == {i \in DOMAIN names : Clash(names[i].nameset, mapping)}
           exact == {i \in clashing : names[i].nameset = mapping}
<1>1. Keeps(m, names)
  BY RangeKeeps
<1>2. \A i \in DOMAIN names : names[i] \in NamesetName
  OBVIOUS
<1>3. \A i \in DOMAIN names :
        Key[names[i].nameset] = Key[mapping] => i \in clashing
  BY <1>2, PrefixRefl, PathsType DEF Clash, Paths, NamesetName
<1> SUFFICES ASSUME clashing = exact, \A i, j \in exact : i = j
             PROVE  label = IF Key[mapping] \in DOMAIN m THEN m[Key[mapping]]
                                                         ELSE Default
  BY DEF Agrees
<1>4. CASE exact = {}
  <2>1. Key[mapping] \notin DOMAIN m
    BY <1>1, <1>3, <1>4 DEF Keeps
  <2>2. \A i \in DOMAIN names : names[i].nameset # mapping
    BY <1>3, <1>4
  <2> QED
    BY <2>1, <2>2, FindsByName
<1>5. CASE exact # {}
  <2>1. PICK i \in exact : TRUE
    BY <1>5
  <2>2. i \in DOMAIN names /\ names[i].nameset = mapping
    BY <2>1
  <2>3. Alone(names, i)
    BY <2>1, <2>2 DEF Alone, Clash
  <2>4. Key[mapping] \in DOMAIN m /\ m[Key[mapping]] = names[i].name
    BY <1>1, <2>2, <2>3 DEF Keeps
  <2>5. label = names[i].name
    BY <1>3, <2>1, <2>2, FindsByName
  <2> QED
    BY <2>4, <2>5
<1> QED
  BY <1>4, <1>5

-----------------------------------------------------------------------------
(* Carrying *)

\* The edges with the tag, one edge at a time.
LEMMA CarryingDef ==
  ASSUME NEW g, NEW es \in Seq(Edge)
  PROVE  /\ Carrying(g, es) \in [0..Len(es) -> Seq(Edge)]
         /\ Carrying(g, es)[0] = << >>
         /\ \A i \in 1..Len(es) :
              Carrying(g, es)[i] = IF g \in es[i].tags
                                     THEN Append(Carrying(g, es)[i - 1], es[i])
                                     ELSE Carrying(g, es)[i - 1]
<1> DEFINE n == Len(es)
           Round(i, s) == IF g \in es[i].tags THEN Append(s, es[i]) ELSE s
           step == [i \in 1..n |-> [s \in Seq(Edge) |-> Round(i, s)]]
           IsLoop(f) ==
             f = [i \in 0..n |-> IF i = 0 THEN << >> ELSE Round(i, f[i - 1])]
<1>1. n \in Nat /\ << >> \in Seq(Edge)
  OBVIOUS
<1>2. \A i \in 1..n, s \in Seq(Edge) : Round(i, s) \in Seq(Edge)
  <2>1. \A i \in 1..n : es[i] \in Edge
    OBVIOUS
  <2> QED
    BY <2>1
<1>3. Carrying(g, es) = CHOOSE f : IsLoop(f)
  <2>1. \A f : IsLoop(f) <=>
          f = [i \in 0..Len(es) |->
                 IF i = 0 THEN << >>
                 ELSE IF g \in es[i].tags THEN Append(f[i - 1], es[i])
                 ELSE f[i - 1]]
    OBVIOUS
  <2> QED
    BY <2>1 DEF Carrying
<1> HIDE DEF Round, n
<1>4. \A i \in 1..n, s \in Seq(Edge) : step[i][s] = Round(i, s)
  OBVIOUS
<1> HIDE DEF step
<1>5. Steps(step, n, Seq(Edge))
  BY <1>2, <1>4 DEF Steps
<1>6. PICK f : IsTrace(f, n, Seq(Edge), << >>, step)
  BY <1>1, <1>5, Trace
<1>7. /\ f \in [0..n -> Seq(Edge)] /\ f[0] = << >>
      /\ \A i \in 1..n : f[i] = step[i][f[i - 1]]
  BY <1>6 DEF IsTrace
<1>8. \A i \in 1..n : f[i - 1] \in Seq(Edge)
  BY <1>1, <1>7
<1>9. \A i \in 1..n : f[i] = Round(i, f[i - 1])
  BY <1>4, <1>7, <1>8
<1>10. IsLoop(f)
  <2>1. \A i \in 0..n : f[i] = IF i = 0 THEN << >> ELSE Round(i, f[i - 1])
    BY <1>1, <1>7, <1>9
  <2> QED
    BY <1>7, <2>1
<1> DEFINE c == Carrying(g, es)
<1>11. IsLoop(c)
  <2> HIDE DEF IsLoop
  <2> QED
    BY <1>3, <1>10
<1> HIDE DEF c
<1>12. DOMAIN c = 0..n
  BY <1>11
<1>13. c[0] = << >> /\ \A i \in 1..n : c[i] = Round(i, c[i - 1])
  BY <1>1, <1>11
<1>14. \A i \in 0..n : c[i] \in Seq(Edge)
  <2> DEFINE T == {i \in 0..n : c[i] \in Seq(Edge)}
  <2>1. 0 \in T
    <3>1. c[0] \in Seq(Edge)
      BY <1>1, <1>13, Zenon
    <3> QED
      BY <1>1, <3>1
  <2>2. \A i \in 0..n : i \in T /\ i < n => i + 1 \in T
    BY <1>1, <1>2, <1>13
  <2>3. \A i \in 0..n : i \in T
    <3> HIDE DEF T
    <3> QED
      BY <1>1, <2>1, <2>2, UpTo, Zenon
  <2> QED
    BY <2>3
<1>15. c \in [0..n -> Seq(Edge)]
  BY <1>11, <1>14
<1> QED
  BY <1>13, <1>15 DEF c, n, Round

\* What the loop has built after i edges is not changed by the edges after.
LEMMA CarryingGrows ==
  ASSUME NEW g, NEW es \in Seq(Edge), NEW i \in 0..Len(es)
  PROVE  LET c == Carrying(g, es)
         IN  /\ Len(c[i]) <= Len(c[Len(es)])
             /\ \A j \in 1..Len(c[i]) : c[i][j] = c[Len(es)][j]
<1> DEFINE n == Len(es)
           c == Carrying(g, es)
<1>1. n \in Nat
  OBVIOUS
<1>2. /\ c \in [0..n -> Seq(Edge)]
      /\ \A k \in 1..n : c[k] = c[k - 1] \/ c[k] = Append(c[k - 1], es[k])
  BY CarryingDef
<1> HIDE DEF n, c
<1> DEFINE Grows(k) == k >= i => /\ Len(c[i]) <= Len(c[k])
                                 /\ \A j \in 1..Len(c[i]) : c[i][j] = c[k][j]
           T == {k \in 0..n : Grows(k)}
<1>3. Len(c[i]) \in Nat
  BY <1>2 DEF n
<1>4. Grows(i)
  BY <1>3
<1>5. ASSUME NEW k \in 0..n, Grows(k), k < n
      PROVE  Grows(k + 1)
  <2>1. CASE k + 1 = i
    BY <2>1, <1>4
  <2>2. CASE k + 1 > i
    <3>1. k >= i /\ k + 1 \in 1..n
      BY <1>1, <1>5, <2>2 DEF n
    <3>2. c[k + 1] = c[k] \/ c[k + 1] = Append(c[k], es[k + 1])
      BY <1>2, <3>1
    <3>3. c[k] \in Seq(Edge) /\ Len(c[k]) \in Nat
      BY <1>2
    <3>4. Len(c[k]) <= Len(c[k + 1]) /\ \A j \in 1..Len(c[k]) : c[k][j] = c[k + 1][j]
      BY <3>2, <3>3
    <3>5. Len(c[i]) <= Len(c[k]) /\ \A j \in 1..Len(c[i]) : c[i][j] = c[k][j]
      BY <1>5, <3>1
    <3> QED
      BY <1>3, <3>3, <3>4, <3>5
  <2>3. CASE k + 1 < i
    BY <2>3
  <2> QED
    BY <1>1, <2>1, <2>2, <2>3 DEF n
<1>6. \A k \in 0..n : k \in T
  <2>1. 0 \in T
    BY <1>1, <1>4 DEF n
  <2>2. \A k \in 0..n : k \in T /\ k < n => k + 1 \in T
    BY <1>1, <1>5
  <2> HIDE DEF T
  <2> QED
    BY <1>1, <2>1, <2>2, UpTo, Zenon
<1> QED
  BY <1>1, <1>6 DEF n, c

\* p[j] is the place in es of the j-th of those of its first k edges that
\* carry the tag g.
Selects(p, k, g, es) ==
  LET s == Carrying(g, es)[k]
  IN  /\ p \in [1..Len(s) -> 1..k]
      /\ \A i, j \in 1..Len(s) : i < j => p[i] < p[j]
      /\ \A j \in 1..Len(s) : s[j] = es[p[j]] /\ g \in es[p[j]].tags
      /\ \A i \in 1..k : g \in es[i].tags => \E j \in 1..Len(s) : p[j] = i

\* Carrying selects the edges with the tag, each of them once and in order.
LEMMA CarryingSelects ==
  ASSUME NEW g, NEW es \in Seq(Edge)
  PROVE  \E p : Selects(p, Len(es), g, es)
<1> DEFINE n == Len(es)
           c == Carrying(g, es)
           T == {k \in 0..n : \E p : Selects(p, k, g, es)}
<1>1. n \in Nat
  OBVIOUS
<1>2. /\ c \in [0..n -> Seq(Edge)] /\ c[0] = << >>
      /\ \A i \in 1..n :
           c[i] = IF g \in es[i].tags THEN Append(c[i - 1], es[i]) ELSE c[i - 1]
  BY CarryingDef
<1>3. \A k \in 0..n : k \in T <=> \E p : Selects(p, k, g, es)
  OBVIOUS
<1> HIDE DEF n, T
<1>4. 0 \in T
  <2>1. Len(c[0]) = 0
    BY <1>2
  <2>2. [j \in 1..0 |-> 0] \in [1..0 -> 1..0]
    OBVIOUS
  <2>3. Selects([j \in 1..0 |-> 0], 0, g, es)
    BY <2>1, <2>2 DEF Selects
  <2> QED
    BY <1>1, <1>3, <2>3
<1>5. ASSUME NEW k \in 0..n, k \in T, k < n
      PROVE  k + 1 \in T
  <2>1. PICK p : Selects(p, k, g, es)
    BY <1>3, <1>5
  <2>2. k \in Nat /\ k + 1 \in 1..n /\ k + 1 \in 0..n /\ (k + 1) - 1 = k
    BY <1>1, <1>5
  <2>3. c[k] \in Seq(Edge) /\ Len(c[k]) \in Nat /\ es[k + 1] \in Edge
    BY <1>2, <2>2 DEF n
  <2>4. /\ p \in [1..Len(c[k]) -> 1..k]
        /\ \A i, j \in 1..Len(c[k]) : i < j => p[i] < p[j]
        /\ \A j \in 1..Len(c[k]) : c[k][j] = es[p[j]] /\ g \in es[p[j]].tags
        /\ \A i \in 1..k : g \in es[i].tags => \E j \in 1..Len(c[k]) : p[j] = i
    BY <2>1 DEF Selects
  <2> HIDE DEF c
  <2>5. CASE g \notin es[k + 1].tags
    <3>1. c[k + 1] = c[k]
      BY <1>2, <2>2, <2>5
    <3>2. p \in [1..Len(c[k]) -> 1..(k + 1)]
      BY <2>2, <2>4
    <3>3. \A i \in 1..(k + 1) : g \in es[i].tags => i \in 1..k
      BY <2>2, <2>5
    <3>4. Selects(p, k + 1, g, es)
      BY <2>4, <3>1, <3>2, <3>3 DEF Selects, c
    <3> QED
      BY <1>3, <2>2, <3>4
  <2>6. CASE g \in es[k + 1].tags
    <3> DEFINE l == Len(c[k])
               q == [j \in 1..(l + 1) |-> IF j = l + 1 THEN k + 1 ELSE p[j]]
    <3>1. c[k + 1] = Append(c[k], es[k + 1])
      BY <1>2, <2>2, <2>6
    <3>2. /\ Len(c[k + 1]) = l + 1
          /\ c[k + 1][l + 1] = es[k + 1]
          /\ \A j \in 1..l : c[k + 1][j] = c[k][j]
      BY <2>3, <3>1
    <3>3. l \in Nat /\ \A j \in 1..(l + 1) : j = l + 1 \/ j \in 1..l
      BY <2>3
    <3> HIDE DEF l
    <3>4. /\ q[l + 1] = k + 1
          /\ \A j \in 1..l : q[j] = p[j]
      BY <3>3
    <3>5. \A j \in 1..l : p[j] \in 1..k
      BY <2>4 DEF l
    <3>6. q \in [1..(l + 1) -> 1..(k + 1)]
      <4>1. \A j \in 1..(l + 1) : q[j] \in 1..(k + 1)
        BY <2>2, <3>3, <3>4, <3>5
      <4> QED
        BY <4>1
    <3> HIDE DEF q
    <3>7. ASSUME NEW i \in 1..(l + 1), NEW j \in 1..(l + 1), i < j
          PROVE  q[i] < q[j]
      <4>1. i \in 1..l
        BY <3>3, <3>7
      <4>2. CASE j = l + 1
        BY <2>2, <3>4, <3>5, <4>1, <4>2
      <4>3. CASE j \in 1..l
        BY <2>4, <3>4, <3>7, <4>1, <4>3 DEF l
      <4> QED
        BY <3>3, <4>2, <4>3
    <3>8. \A j \in 1..(l + 1) : c[k + 1][j] = es[q[j]] /\ g \in es[q[j]].tags
      BY <2>4, <2>6, <3>2, <3>3, <3>4 DEF l
    <3>9. \A i \in 1..(k + 1) : g \in es[i].tags => \E j \in 1..(l + 1) : q[j] = i
      <4> SUFFICES ASSUME NEW i \in 1..(k + 1), g \in es[i].tags
                   PROVE  \E j \in 1..(l + 1) : q[j] = i
        OBVIOUS
      <4>1. CASE i = k + 1
        BY <3>3, <3>4, <4>1
      <4>2. CASE i \in 1..k
        <5>1. PICK j \in 1..l : p[j] = i
          BY <2>4, <4>2 DEF l
        <5> QED
          BY <3>3, <3>4, <5>1
      <4> QED
        BY <2>2, <4>1, <4>2
    <3>10. Selects(q, k + 1, g, es)
      BY <3>2, <3>6, <3>7, <3>8, <3>9 DEF Selects, c
    <3> QED
      BY <1>3, <2>2, <3>10
  <2> QED
    BY <2>5, <2>6
<1>6. n \in T
  <2>1. \A k \in 0..n : k \in T /\ k < n => k + 1 \in T
    BY <1>5
  <2>2. \A k \in 0..n : k \in T
    BY <1>1, <1>4, <2>1, UpTo, Zenon
  <2> QED
    BY <1>1, <2>2
<1> QED
  BY <1>1, <1>3, <1>6 DEF n

=============================================================================
