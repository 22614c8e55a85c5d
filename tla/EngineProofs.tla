---------------------------- MODULE EngineProofs ----------------------------
(***************************************************************************)
(* Proofs about the rule engine, for all values, texts, conditions,        *)
(* payloads and rules: the leaf operators, the paths, the groups of        *)
(* conditions, and the loops over the rules.                               *)
(***************************************************************************)
EXTENDS Engine, FiniteSetTheorems, SequenceTheorems, TLAPS

-----------------------------------------------------------------------------
\* Induction and recursion, as facts about sets and functions.

\* Numbers have a least one.
LEMMA Least ==
  ASSUME NEW T \in SUBSET Nat, T # {}
  PROVE  \E n \in T : \A m \in T : n <= m
<1> DEFINE R == {p \in Nat \X Nat : p[1] < p[2]}
<1>1. R = OpToRel(<, Nat)
  BY Zenon DEF OpToRel
<1>2. IsWellFoundedOn(R, Nat)
  BY <1>1, NatLessThanWellFounded, Zenon
<1> HIDE DEF R
<1>3. \E x \in T : \A y \in T : <<y, x>> \notin R
  BY <1>2, WFMin
<1>4. \A x, y \in Nat : y < x => <<y, x>> \in R
  BY DEF R
<1>5. \A x, y \in Nat : ~(y < x) => x <= y
  OBVIOUS
<1> QED BY <1>3, <1>4, <1>5

\* What holds of s if it holds of all that is less deep, holds of everything.
LEMMA Descent ==
  ASSUME NEW S, NEW d \in [S -> Nat], NEW G,
         \A s \in S : (\A r \in S : d[r] < d[s] => r \in G) => s \in G
  PROVE  \A s \in S : s \in G
<1> DEFINE bad == {s \in S : s \notin G}
           T == {d[s] : s \in bad}
<1>1. SUFFICES ASSUME bad # {} PROVE FALSE
  OBVIOUS
<1>2. T \in SUBSET Nat /\ T # {}
  BY <1>1
<1>3. PICK n \in T : \A m \in T : n <= m
  <2> HIDE DEF T
  <2> QED BY <1>2, Least
<1>4. PICK s \in bad : n = d[s]
  BY <1>3
<1>5. \A r \in S : d[r] < d[s] => r \in G
  <2> SUFFICES ASSUME NEW r \in S, d[r] < d[s], r \notin G PROVE FALSE
    OBVIOUS
  <2>1. d[r] \in T
    OBVIOUS
  <2>2. d[s] <= d[r] /\ d[s] \in Nat /\ d[r] \in Nat
    BY <1>3, <1>4, <2>1
  <2> QED BY <2>2
<1> QED BY <1>4, <1>5

\* A loop: what holds before it and is kept by a round, holds after each round.
LEMMA Rounds ==
  ASSUME NEW N \in Nat, NEW G, 0 \in G, \A n \in 1 .. N : n - 1 \in G => n \in G
  PROVE  \A n \in 0 .. N : n \in G
<1> DEFINE d == [n \in 0 .. N |-> n]
<1>1. d \in [0 .. N -> Nat]
  OBVIOUS
<1>2. ASSUME NEW n \in 0 .. N, \A m \in 0 .. N : d[m] < d[n] => m \in G PROVE n \in G
  <2>1. CASE n = 0
    BY <2>1
  <2>2. CASE n # 0
    <3>1. n \in 1 .. N /\ n - 1 \in 0 .. N /\ n - 1 < n
      BY <2>2
    <3> QED BY <1>2, <3>1
  <2> QED BY <2>1, <2>2
<1> DEFINE S == 0 .. N
<1>3. d \in [S -> Nat] /\ \A n \in S : (\A m \in S : d[m] < d[n] => m \in G) => n \in G
  BY <1>1, <1>2
<1> HIDE DEF d, S
<1>4. \A n \in S : n \in G
  BY <1>3, Descent
<1> QED BY <1>4 DEF S

\* B, the body of a recursive function, asks for its values at what is less deep only.
Descends(S, T, d, B) ==
  /\ T # {} /\ d \in [S -> Nat] /\ B \in [[S -> T] -> [S -> T]]
  /\ \A f, g \in [S -> T] : \A s \in S :
       (\A r \in S : d[r] < d[s] => f[r] = g[r]) => B[f][s] = B[g][s]

\* Then there is such a function.
LEMMA Recursion ==
  ASSUME NEW S, NEW T, NEW d, NEW B, Descends(S, T, d, B)
  PROVE  \E f \in [S -> T] : f = B[f]
<1> USE DEF Descends
<1> DEFINE F == [S -> T]
           Up(n) == {f \in F : \A s \in S : d[s] < n => f[s] = B[f][s]}
           W == [n \in Nat |-> CHOOSE f : f \in Up(n)]
           h == [s \in S |-> W[d[s] + 1][s]]
<1>1. \A s \in S : d[s] \in Nat
  OBVIOUS
<1>2. \A f \in F : B[f] \in F
  OBVIOUS
<1>3. \A f, g \in F : \A s \in S : (\A r \in S : d[r] < d[s] => f[r] = g[r]) => B[f][s] = B[g][s]
  OBVIOUS
<1>4. PICK t \in T : TRUE
  OBVIOUS
<1>5. [s \in S |-> t] \in F
  OBVIOUS
<1>6. \A n \in Nat : Up(n) # {}
  <2> DEFINE G == {n \in Nat : Up(n) # {}}
  <2>1. 0 \in G
    <3>1. \A s \in S : ~(d[s] < 0)
      BY <1>1
    <3>2. [s \in S |-> t] \in Up(0)
      BY <1>5, <3>1
    <3> QED BY <3>2
  <2>2. ASSUME NEW n \in Nat, n \in G PROVE n + 1 \in G
    <3>1. PICK f \in F : \A s \in S : d[s] < n => f[s] = B[f][s]
      BY <2>2
    <3>2. B[f] \in F
      BY <1>2
    <3>3. ASSUME NEW s \in S, d[s] < n + 1 PROVE B[f][s] = B[B[f]][s]
      <4>1. \A r \in S : d[r] < d[s] => d[r] < n
        BY <1>1, <3>3
      <4>2. \A r \in S : d[r] < d[s] => f[r] = B[f][r]
        BY <3>1, <4>1
      <4> HIDE DEF F
      <4> QED BY <1>3, <3>2, <4>2
    <3> HIDE DEF F
    <3> QED BY <3>2, <3>3
  <2> HIDE DEF G
  <2>3. \A n \in Nat : n \in G
    <3>1. \A n \in Nat : \A m \in 0 .. n : m \in G
      <4> SUFFICES ASSUME NEW N \in Nat PROVE \A m \in 0 .. N : m \in G
        OBVIOUS
      <4>1. \A n \in 1 .. N : n - 1 \in G => n \in G
        <5> SUFFICES ASSUME NEW n \in 1 .. N, n - 1 \in G PROVE n \in G
          OBVIOUS
        <5>1. n - 1 \in Nat /\ (n - 1) + 1 = n
          OBVIOUS
        <5> QED BY <2>2, <5>1
      <4> QED BY <2>1, <4>1, Rounds
    <3>2. \A n \in Nat : n \in 0 .. n
      OBVIOUS
    <3> QED BY <3>1, <3>2
  <2> QED BY <2>3 DEF G
<1>7. \A n \in Nat : W[n] \in Up(n)
  BY <1>6
<1>8. ASSUME NEW n \in Nat, NEW f \in Up(n), NEW g \in Up(n)
      PROVE  \A s \in S : d[s] < n => f[s] = g[s]
  <2> DEFINE G == {s \in S : d[s] < n => f[s] = g[s]}
  <2>1. /\ f \in F /\ g \in F
        /\ \A s \in S : d[s] < n => f[s] = B[f][s]
        /\ \A s \in S : d[s] < n => g[s] = B[g][s]
    OBVIOUS
  <2>2. ASSUME NEW s \in S, \A r \in S : d[r] < d[s] => r \in G PROVE s \in G
    <3>1. SUFFICES ASSUME d[s] < n PROVE f[s] = g[s]
      OBVIOUS
    <3>2. \A r \in S : d[r] < d[s] => d[r] < n
      BY <1>1, <3>1
    <3>3. \A r \in S : d[r] < d[s] => f[r] = g[r]
      BY <2>2, <3>2
    <3> HIDE DEF F, Up
    <3>4. B[f][s] = B[g][s]
      BY <1>3, <2>1, <3>3
    <3> QED BY <2>1, <3>1, <3>4
  <2> HIDE DEF G, Up
  <2>3. \A s \in S : s \in G
    BY <2>2, Descent
  <2> QED BY <2>3 DEF G
<1>9. \A m, n \in Nat : m <= n => W[n] \in Up(m)
  <2> SUFFICES ASSUME NEW m \in Nat, NEW n \in Nat, m <= n PROVE W[n] \in Up(m)
    OBVIOUS
  <2>1. W[n] \in F /\ \A s \in S : d[s] < n => W[n][s] = B[W[n]][s]
    BY <1>7
  <2>2. \A s \in S : d[s] < m => d[s] < n
    BY <1>1
  <2> HIDE DEF W
  <2> QED BY <2>1, <2>2
<1>10. h \in F
  <2> HIDE DEF W
  <2>1. \A n \in Nat : W[n] \in F
    BY <1>7
  <2>2. \A s \in S : d[s] + 1 \in Nat
    BY <1>1
  <2> QED BY <2>1, <2>2
<1>11. ASSUME NEW s \in S PROVE h[s] = B[h][s]
  <2> DEFINE w == W[d[s] + 1]
  <2>1. /\ d[s] + 1 \in Nat /\ w \in F /\ w \in Up(d[s] + 1)
        /\ h[s] = w[s] /\ w[s] = B[w][s]
    <3>1. d[s] + 1 \in Nat /\ d[s] < d[s] + 1
      BY <1>1
    <3>2. w \in Up(d[s] + 1)
      BY <1>7, <3>1
    <3> HIDE DEF W
    <3> QED BY <3>1, <3>2
  <2>2. ASSUME NEW r \in S, d[r] < d[s] PROVE h[r] = w[r]
    <3>1. d[r] + 1 \in Nat /\ d[r] + 1 <= d[s] + 1 /\ d[r] < d[r] + 1
      BY <1>1, <2>2
    <3>2. w \in Up(d[r] + 1) /\ W[d[r] + 1] \in Up(d[r] + 1)
      BY <1>7, <1>9, <2>1, <3>1
    <3>3. h[r] = W[d[r] + 1][r]
      OBVIOUS
    <3> HIDE DEF W, h, Up, w
    <3> QED BY <1>8, <3>1, <3>2, <3>3
  <2> HIDE DEF w, h, F, Up
  <2>3. B[h][s] = B[w][s]
    BY <1>3, <1>10, <2>1, <2>2
  <2> QED BY <2>1, <2>3
<1> HIDE DEF h
<1>12. h = B[h]
  BY <1>2, <1>10, <1>11
<1> QED BY <1>10, <1>12

\* f has the value after each of N rounds, from what it was after the one before.
Iterates(f, N, T, a, round) ==
  f \in [0 .. N -> T] /\ f[0] = a /\ \A n \in 1 .. N : f[n] = round[n][f[n - 1]]

\* The function of a loop exists.
LEMMA Loop ==
  ASSUME NEW N \in Nat, NEW T, NEW a \in T, NEW round \in [1 .. N -> [T -> T]]
  PROVE  \E f : Iterates(f, N, T, a, round)
<1> DEFINE S == 0 .. N
           d == [n \in S |-> n]
           B == [f \in [S -> T] |-> [n \in S |-> IF n = 0 THEN a ELSE round[n][f[n - 1]]]]
<1>1. \A n \in S : n = 0 \/ (n \in 1 .. N /\ n - 1 \in S /\ n - 1 < n)
  OBVIOUS
<1>2. B \in [[S -> T] -> [S -> T]]
  BY <1>1
<1>3. ASSUME NEW f \in [S -> T], NEW g \in [S -> T], NEW n \in S,
             \A m \in S : d[m] < d[n] => f[m] = g[m]
      PROVE  B[f][n] = B[g][n]
  BY <1>1, <1>3
<1>4. d \in [S -> Nat]
  OBVIOUS
<1>5. \E f \in [S -> T] : f = B[f]
  <2> HIDE DEF S, d, B
  <2>1. T # {}
    OBVIOUS
  <2>2. Descends(S, T, d, B)
    BY <1>2, <1>3, <1>4, <2>1 DEF Descends
  <2> QED BY <2>2, Recursion
<1>6. PICK f \in [S -> T] : f = B[f]
  BY <1>5
<1>7. f[0] = a /\ \A n \in 1 .. N : f[n] = round[n][f[n - 1]]
  <2>1. \A n \in S : f[n] = IF n = 0 THEN a ELSE round[n][f[n - 1]]
    BY <1>6
  <2>2. 0 \in S /\ \A n \in 1 .. N : n \in S /\ n # 0
    OBVIOUS
  <2> HIDE DEF S, B
  <2> QED BY <2>1, <2>2
<1> QED BY <1>6, <1>7 DEF Iterates

-----------------------------------------------------------------------------
\* Paths.

Segments == [key : Texts \cup {Star}, index : Int]

LEMMA SegmentType ==
  ASSUME NEW p \in Texts
  PROVE  Segment(p) \in Segments
BY EngineAssumption, ComparisonAssumption DEF Segment, Segments

\* What the first n parts of a path are parsed to: one segment for each that is not empty.
Parsed(x, path, n) ==
  /\ x \in Seq(Segments) /\ Len(x) = StepsOf(path, n)
  /\ \A p \in 1 .. n : path[p] # Empty =>
       StepsOf(path, p) \in 1 .. Len(x) /\ x[StepsOf(path, p)] = Segment(path[p])
  /\ \A i \in 1 .. Len(x) : \E p \in 1 .. n : path[p] # Empty /\ StepsOf(path, p) = i

LEMMA ParsedNone ==
  ASSUME NEW path
  PROVE  Parsed(<<>>, path, 0)
<1>1. {q \in 1 .. 0 : path[q] # Empty} = {}
  OBVIOUS
<1>2. StepsOf(path, 0) = 0
  BY <1>1, FS_EmptySet DEF StepsOf
<1> QED BY <1>2 DEF Parsed

LEMMA ParsedNext ==
  ASSUME NEW path, NEW n \in Nat \ {0}, NEW x, Parsed(x, path, n - 1), Segment(path[n]) \in Segments
  PROVE  Parsed(IF path[n] = Empty THEN x ELSE Append(x, Segment(path[n])), path, n)
<1> DEFINE Q(k) == {q \in 1 .. k : path[q] # Empty}
<1>1. /\ x \in Seq(Segments) /\ Len(x) = StepsOf(path, n - 1) /\ Len(x) \in Nat
      /\ \A p \in 1 .. n - 1 : path[p] # Empty =>
           StepsOf(path, p) \in 1 .. Len(x) /\ x[StepsOf(path, p)] = Segment(path[p])
      /\ \A i \in 1 .. Len(x) : \E p \in 1 .. n - 1 : path[p] # Empty /\ StepsOf(path, p) = i
  BY DEF Parsed
<1>2. \A k \in 1 .. n : k = n \/ k \in 1 .. n - 1
  OBVIOUS
<1>3. \A k \in 1 .. n - 1 : k \in 1 .. n
  OBVIOUS
<1>4. CASE path[n] = Empty
  <2>1. Q(n) = Q(n - 1)
    BY <1>2, <1>3, <1>4
  <2>2. StepsOf(path, n) = Len(x)
    BY <1>1, <2>1 DEF StepsOf
  <2> HIDE DEF Q
  <2>3. Parsed(x, path, n)
    BY <1>1, <1>2, <1>3, <1>4, <2>2 DEF Parsed
  <2> QED BY <1>4, <2>3
<1>5. CASE path[n] # Empty
  <2> DEFINE seg == Segment(path[n])
             y == Append(x, seg)
  <2>1. Q(n) = Q(n - 1) \cup {n} /\ n \notin Q(n - 1)
    BY <1>2, <1>3, <1>5
  <2>2. IsFiniteSet(Q(n - 1))
    <3>1. IsFiniteSet(1 .. n - 1)
      BY FS_Interval
    <3> QED BY <3>1, FS_Subset
  <2>3. StepsOf(path, n) = Len(x) + 1
    <3> HIDE DEF Q
    <3>1. Cardinality(Q(n - 1) \cup {n}) = Cardinality(Q(n - 1)) + 1
      BY <2>1, <2>2, FS_AddElement
    <3> QED BY <1>1, <2>1, <3>1 DEF StepsOf, Q
  <2> HIDE DEF seg, Q
  <2>4. seg \in Segments
    BY DEF seg
  <2>5. /\ y \in Seq(Segments) /\ Len(y) = Len(x) + 1 /\ y[Len(x) + 1] = seg
        /\ \A i \in 1 .. Len(x) : y[i] = x[i]
    BY <1>1, <2>4
  <2> HIDE DEF y
  <2>6. ASSUME NEW p \in 1 .. n, path[p] # Empty
        PROVE  StepsOf(path, p) \in 1 .. Len(y) /\ y[StepsOf(path, p)] = Segment(path[p])
    <3>1. CASE p = n
      BY <1>1, <2>3, <2>5, <3>1 DEF seg
    <3>2. CASE p # n
      <4>1. p \in 1 .. n - 1
        BY <1>2, <3>2
      <4>2. StepsOf(path, p) \in 1 .. Len(x) /\ x[StepsOf(path, p)] = Segment(path[p])
        BY <1>1, <2>6, <4>1
      <4> QED BY <1>1, <2>5, <4>2
    <3> QED BY <3>1, <3>2
  <2>7. ASSUME NEW i \in 1 .. Len(y) PROVE \E p \in 1 .. n : path[p] # Empty /\ StepsOf(path, p) = i
    <3>1. i = Len(x) + 1 \/ i \in 1 .. Len(x)
      BY <1>1, <2>5, <2>7
    <3>2. n \in 1 .. n
      OBVIOUS
    <3> QED BY <1>1, <1>3, <1>5, <2>3, <3>1, <3>2
  <2>8. Parsed(y, path, n)
    BY <2>3, <2>5, <2>6, <2>7 DEF Parsed
  <2> QED BY <1>5, <2>8 DEF y, seg
<1> QED BY <1>4, <1>5

\* A path is parsed part by part.
LEMMA ParsePathParsed ==
  ASSUME NEW path \in Seq(Texts)
  PROVE  Parsed(ParsePath(path), path, Len(path))
<1> DEFINE N == Len(path)
           T == Seq(Segments)
           round == [n \in 1 .. N |->
                       [x \in T |-> IF path[n] = Empty THEN x ELSE Append(x, Segment(path[n]))]]
           f == CHOOSE g : g = [n \in 0 .. N |->
                  IF n = 0 THEN <<>>
                  ELSE IF path[n] = Empty THEN g[n - 1]
                  ELSE Append(g[n - 1], Segment(path[n]))]
<1>1. N \in Nat /\ \A n \in 1 .. N : path[n] \in Texts /\ Segment(path[n]) \in Segments
  BY SegmentType
<1>2. <<>> \in T /\ round \in [1 .. N -> [T -> T]]
  BY <1>1
<1>3. \E g : Iterates(g, N, T, <<>>, round)
  <2> HIDE DEF N, T, round
  <2> QED BY <1>1, <1>2, Loop
<1>4. \E g : g = [n \in 0 .. N |->
                  IF n = 0 THEN <<>>
                  ELSE IF path[n] = Empty THEN g[n - 1]
                  ELSE Append(g[n - 1], Segment(path[n]))]
  <2>1. PICK g : Iterates(g, N, T, <<>>, round)
    BY <1>3
  <2>2. \A n \in 1 .. N : g[n - 1] \in T /\ g[n] = round[n][g[n - 1]]
    <3> HIDE DEF T, round
    <3> QED BY <1>1, <2>1 DEF Iterates
  <2>3. \A n \in 1 .. N : g[n] = IF path[n] = Empty THEN g[n - 1]
                                 ELSE Append(g[n - 1], Segment(path[n]))
    <3> HIDE DEF T, N
    <3> QED BY <2>2
  <2>4. g \in [0 .. N -> T] /\ g[0] = <<>>
    BY <2>1 DEF Iterates
  <2>5. \A n \in 0 .. N : n # 0 => n \in 1 .. N
    BY <1>1
  <2> HIDE DEF N, T
  <2> QED BY <2>3, <2>4, <2>5
<1>5. f = [n \in 0 .. N |-> IF n = 0 THEN <<>>
                  ELSE IF path[n] = Empty THEN f[n - 1]
                  ELSE Append(f[n - 1], Segment(path[n]))]
  BY <1>4
<1>6. ParsePath(path) = f[N]
  BY DEF ParsePath
<1> HIDE DEF f
<1> DEFINE G == {m \in 0 .. N : Parsed(f[m], path, m)}
<1>7. 0 \in G
  <2>1. f[0] = <<>> /\ 0 \in 0 .. N
    BY <1>1, <1>5
  <2> QED BY <2>1, ParsedNone
<1>8. ASSUME NEW n \in 1 .. N, n - 1 \in G PROVE n \in G
  <2>1. n \in 0 .. N /\ n # 0 /\ n \in Nat \ {0} /\ Parsed(f[n - 1], path, n - 1)
    BY <1>1, <1>8
  <2>2. f[n] = IF path[n] = Empty THEN f[n - 1] ELSE Append(f[n - 1], Segment(path[n]))
    BY <1>5, <2>1
  <2>3. Segment(path[n]) \in Segments
    BY <1>1
  <2> HIDE DEF G, N
  <2>4. Parsed(IF path[n] = Empty THEN f[n - 1] ELSE Append(f[n - 1], Segment(path[n])), path, n)
    BY <2>1, <2>3, ParsedNext
  <2>5. Parsed(f[n], path, n)
    BY <2>2, <2>4
  <2> QED BY <2>1, <2>5 DEF G
<1>9. \A n \in 0 .. N : n \in G
  <2> HIDE DEF G, N
  <2> QED BY <1>1, <1>7, <1>8, Rounds
<1>10. N \in G
  BY <1>1, <1>9
<1> QED BY <1>6, <1>10

LEMMA ParsePathType ==
  ASSUME NEW path \in Seq(Texts)
  PROVE  ParsePath(path) \in Seq(Segments)
BY ParsePathParsed DEF Parsed

-----------------------------------------------------------------------------
\* What a lookup finds.

\* The sequence t has the values of the function val, each as often as val has it.
Lists(t, val) ==
  \E b \in [DOMAIN t -> DOMAIN val] :
    /\ \A i, j \in DOMAIN t : b[i] = b[j] => i = j
    /\ \A x \in DOMAIN val : \E i \in DOMAIN t : b[i] = x
    /\ \A i \in DOMAIN t : t[i] = val[b[i]]

\* A segment allows a step.
Admits(step, seg) ==
  \/ seg.key = Star
  \/ seg.index >= 0 /\ step = At(seg.index + 1)
  \/ seg.key # Star /\ seg.index < 0 /\ step = Of(seg.key)

\* The steps that a segment allows at v, and where they lead.
Chosen(v, seg) == {s \in Steps(v) : Admits(s, seg)}

Onward(v, seg) == [s \in Chosen(v, seg) |-> Taken(v, s)]

LEMMA StepsDiffer ==
  /\ \A m, n : At(m) = At(n) => m = n
  /\ \A j, k : Of(j) = Of(k) => j = k
  /\ \A n, k : At(n) # Of(k)
  /\ \A n : At(n).at = n
  /\ \A k : Of(k).of = k
<1>1. \A n : At(n).at = n
  BY DEF At
<1>2. \A k : Of(k).of = k
  BY DEF Of
<1>3. \A n, k : At(n) # Of(k)
  <2>1. \A n : DOMAIN At(n) = {"at"}
    BY DEF At
  <2>2. \A k : DOMAIN Of(k) = {"of"}
    BY DEF Of
  <2>3. "at" # "of"
    OBVIOUS
  <2> QED BY <2>1, <2>2, <2>3
<1> QED BY <1>1, <1>2, <1>3

\* Every permutation of the keys of an object has each of them once.
LEMMA KeysInOrder ==
  ASSUME NEW S, IsFiniteSet(S)
  PROVE  /\ SetToSeqs(S) # {}
         /\ \A keys \in SetToSeqs(S) :
              /\ keys \in Seq(S)
              /\ \A i, j \in DOMAIN keys : keys[i] = keys[j] => i = j
              /\ \A k \in S : \E i \in DOMAIN keys : keys[i] = k
<1> DEFINE n == Cardinality(S)
<1>1. n \in Nat /\ ExistsBijection(1 .. n, S)
  BY FS_CardinalityType
<1>2. IsFiniteSet(1 .. n) /\ Cardinality(1 .. n) = n
  BY <1>1, FS_Interval
<1>3. SetToSeqs(S) = {f \in [1 .. n -> S] : \A i, j \in 1 .. n : i # j => f[i] # f[j]}
  BY DEF SetToSeqs
<1> HIDE DEF n
<1>4. SetToSeqs(S) # {}
  <2>1. PICK f \in Bijection(1 .. n, S) : TRUE
    BY <1>1 DEF ExistsBijection
  <2>2. f \in [1 .. n -> S] /\ \A i, j \in 1 .. n : f[i] = f[j] => i = j
    BY <2>1 DEF Bijection, Injection, IsInjective
  <2> QED BY <1>3, <2>2
<1>5. ASSUME NEW keys \in SetToSeqs(S)
      PROVE  /\ keys \in Seq(S)
             /\ \A i, j \in DOMAIN keys : keys[i] = keys[j] => i = j
             /\ \A k \in S : \E i \in DOMAIN keys : keys[i] = k
  <2>1. keys \in [1 .. n -> S] /\ \A i, j \in 1 .. n : keys[i] = keys[j] => i = j
    BY <1>3
  <2>2. keys \in Injection(1 .. n, S)
    BY <2>1 DEF Injection, IsInjective
  <2>3. keys \in Surjection(1 .. n, S)
    BY <1>2, <2>2, FS_Injection DEF n
  <2>4. \A k \in S : \E i \in 1 .. n : keys[i] = k
    BY <2>3 DEF Surjection
  <2>5. keys \in Seq(S)
    BY <1>1, <2>1, SeqDef
  <2> QED BY <2>1, <2>4, <2>5
<1> QED BY <1>4, <1>5

LEMMA ListsNone ==
  ASSUME NEW f, DOMAIN f = {}
  PROVE  Lists(<<>>, f)
<1> DEFINE b == [i \in {} |-> {}]
<1>1. DOMAIN <<>> = {} /\ b \in [{} -> {}]
  OBVIOUS
<1> HIDE DEF b
<1> QED BY <1>1 DEF Lists

LEMMA ListsOne ==
  ASSUME NEW f, NEW s, NEW x, DOMAIN f = {s}, f[s] = x
  PROVE  Lists(<<x>>, f)
<1> DEFINE b == [i \in {1} |-> s]
<1>1. DOMAIN <<x>> = {1} /\ <<x>>[1] = x /\ b \in [{1} -> {s}] /\ b[1] = s
  OBVIOUS
<1> HIDE DEF b
<1> QED BY <1>1 DEF Lists

\* A wildcard steps to everything in a value, once.
LEMMA WildcardLists ==
  ASSUME NEW v \in Values, NEW seg \in Segments, seg.key = Star
  PROVE  /\ Wildcard(v) # {}
         /\ \A t \in Wildcard(v) : t \in Seq(Values) /\ Lists(t, Onward(v, seg))
<1>1. Chosen(v, seg) = Steps(v)
  BY DEF Chosen, Admits
<1> DEFINE f == Onward(v, seg)
<1>2. DOMAIN f = Steps(v) /\ \A s \in Steps(v) : f[s] = Taken(v, s)
  BY <1>1 DEF Onward
<1> HIDE DEF f
<1>3. CASE v.kind = "list"
  <2>1. Wildcard(v) = {v.items} /\ v.items \in Seq(Values)
    BY <1>3, EngineAssumption DEF Wildcard
  <2>2. Steps(v) = {At(n) : n \in DOMAIN v.items} /\ \A s : Taken(v, s) = v.items[s.at]
    BY <1>3 DEF Steps, Taken
  <2> DEFINE b == [n \in DOMAIN v.items |-> At(n)]
  <2>3. b \in [DOMAIN v.items -> Steps(v)] /\ \A n \in DOMAIN v.items : b[n] = At(n)
    BY <2>2
  <2> HIDE DEF b
  <2>4. Lists(v.items, f)
    <3>1. \A i, j \in DOMAIN v.items : b[i] = b[j] => i = j
      BY <2>3, StepsDiffer
    <3>2. \A x \in DOMAIN f : \E i \in DOMAIN v.items : b[i] = x
      BY <1>2, <2>2, <2>3
    <3>3. \A i \in DOMAIN v.items : v.items[i] = f[b[i]]
      <4> SUFFICES ASSUME NEW i \in DOMAIN v.items PROVE v.items[i] = f[b[i]]
        OBVIOUS
      <4>1. b[i] = At(i) /\ At(i) \in Steps(v) /\ At(i).at = i
        BY <2>3, StepsDiffer
      <4> QED BY <1>2, <2>2, <4>1
    <3>4. b \in [DOMAIN v.items -> DOMAIN f]
      BY <1>2, <2>3
    <3> QED BY <3>1, <3>2, <3>3, <3>4 DEF Lists
  <2> QED BY <2>1, <2>4 DEF f
<1>4. CASE v.kind = "map"
  <2> DEFINE S == DOMAIN v.fields
             in(keys) == [i \in DOMAIN keys |-> v.fields[keys[i]]]
  <2>1. Wildcard(v) = {in(keys) : keys \in SetToSeqs(S)}
    BY <1>4 DEF Wildcard
  <2>2. IsFiniteSet(S) /\ v.fields \in [S -> Values]
    BY <1>4, EngineAssumption
  <2>3. Steps(v) = {Of(k) : k \in S} /\ \A s : Taken(v, s) = v.fields[s.of]
    BY <1>4 DEF Steps, Taken
  <2>4. SetToSeqs(S) # {}
    BY <2>2, KeysInOrder
  <2>5. ASSUME NEW keys \in SetToSeqs(S)
        PROVE  in(keys) \in Seq(Values) /\ Lists(in(keys), f)
    <3> DEFINE t == in(keys)
               b == [i \in DOMAIN keys |-> Of(keys[i])]
    <3> HIDE DEF S
    <3>1. /\ keys \in Seq(S)
          /\ \A i, j \in DOMAIN keys : keys[i] = keys[j] => i = j
          /\ \A k \in S : \E i \in DOMAIN keys : keys[i] = k
      BY <2>2, KeysInOrder
    <3>2. \A i \in DOMAIN keys : keys[i] \in S
      BY <3>1
    <3>3. DOMAIN keys = 1 .. Len(keys) /\ Len(keys) \in Nat
      BY <3>1
    <3>4. DOMAIN t = DOMAIN keys /\ \A i \in DOMAIN keys : t[i] = v.fields[keys[i]] /\ t[i] \in Values
      BY <2>2, <3>2
    <3>5. t \in Seq(Values)
      <4>1. t \in [1 .. Len(keys) -> Values]
        BY <3>3, <3>4
      <4> HIDE DEF t
      <4> QED BY <3>3, <4>1, SeqDef
    <3>6. b \in [DOMAIN keys -> Steps(v)] /\ \A i \in DOMAIN keys : b[i] = Of(keys[i])
      BY <2>3, <3>2
    <3> HIDE DEF t, b
    <3>7. \A i, j \in DOMAIN keys : b[i] = b[j] => i = j
      BY <3>1, <3>6, StepsDiffer
    <3>8. \A x \in DOMAIN f : \E i \in DOMAIN keys : b[i] = x
      BY <1>2, <2>3, <3>1, <3>6
    <3>9. \A i \in DOMAIN keys : t[i] = f[b[i]]
      <4> SUFFICES ASSUME NEW i \in DOMAIN keys PROVE t[i] = f[b[i]]
        OBVIOUS
      <4>1. b[i] = Of(keys[i]) /\ b[i] \in Steps(v) /\ Of(keys[i]).of = keys[i]
        BY <3>6, StepsDiffer
      <4> QED BY <1>2, <2>3, <3>4, <4>1
    <3>10. b \in [DOMAIN t -> DOMAIN f]
      BY <1>2, <3>4, <3>6
    <3>11. Lists(t, f)
      BY <3>4, <3>7, <3>8, <3>9, <3>10 DEF Lists
    <3> QED BY <3>5, <3>11 DEF t
  <2> HIDE DEF in, S
  <2> QED BY <2>1, <2>4, <2>5 DEF f
<1>5. CASE v.kind \notin {"list", "map"}
  <2>1. Wildcard(v) = {<<>>}
    BY <1>5 DEF Wildcard
  <2>2. Steps(v) = {}
    BY <1>5 DEF Steps
  <2>3. Lists(<<>>, f)
    BY <1>2, <2>2, ListsNone
  <2>4. <<>> \in Seq(Values)
    OBVIOUS
  <2> QED BY <2>1, <2>3, <2>4 DEF f
<1> QED BY <1>3, <1>4, <1>5

\* A step of the code goes where the segment allows it, once.
LEMMA StepLists ==
  ASSUME NEW v \in Values, NEW seg \in Segments
  PROVE  /\ Step(v, seg) # {}
         /\ \A t \in Step(v, seg) : t \in Seq(Values) /\ Lists(t, Onward(v, seg))
<1> DEFINE f == Onward(v, seg)
<1>1. DOMAIN f = Chosen(v, seg) /\ \A s \in Chosen(v, seg) : f[s] = Taken(v, s)
  BY DEF Onward
<1> HIDE DEF f
<1>2. seg.index \in Int
  BY DEF Segments
<1>3. <<>> \in Seq(Values) /\ \A x \in Values : <<x>> \in Seq(Values)
  OBVIOUS
<1>4. CASE seg.key = Star
  BY <1>4, WildcardLists DEF Step
<1>5. CASE seg.key # Star /\ seg.index >= 0
  <2> DEFINE n == seg.index + 1
  <2>1. Step(v, seg) = {Place(v, seg.index)}
    BY <1>5 DEF Step
  <2>2. \A s : Admits(s, seg) <=> s = At(n)
    BY <1>2, <1>5 DEF Admits
  <2>3. CASE v.kind = "list" /\ n \in DOMAIN v.items
    <3>1. Place(v, seg.index) = <<v.items[n]>>
      BY <2>3 DEF Place
    <3>2. v.items[n] \in Values
      BY <2>3, EngineAssumption
    <3>3. At(n) \in Steps(v) /\ Taken(v, At(n)) = v.items[n]
      BY <2>3, StepsDiffer DEF Steps, Taken
    <3> HIDE DEF n
    <3>4. Chosen(v, seg) = {At(n)}
      BY <2>2, <3>3 DEF Chosen
    <3>5. Lists(<<v.items[n]>>, f)
      BY <1>1, <3>3, <3>4, ListsOne
    <3> QED BY <1>3, <2>1, <3>1, <3>2, <3>5 DEF f
  <2>4. CASE ~(v.kind = "list" /\ n \in DOMAIN v.items)
    <3>1. Place(v, seg.index) = <<>>
      BY <2>4 DEF Place
    <3> HIDE DEF n
    <3>2. At(n) \notin Steps(v)
      <4>1. CASE v.kind = "list"
        BY <2>4, <4>1, StepsDiffer DEF Steps
      <4>2. CASE v.kind = "map"
        BY <4>2, StepsDiffer DEF Steps
      <4>3. CASE v.kind \notin {"list", "map"}
        BY <4>3 DEF Steps
      <4> QED BY <4>1, <4>2, <4>3
    <3>3. Chosen(v, seg) = {}
      BY <2>2, <3>2 DEF Chosen
    <3>4. Lists(<<>>, f)
      BY <1>1, <3>3, ListsNone
    <3> QED BY <1>3, <2>1, <3>1, <3>4 DEF f
  <2> QED BY <2>3, <2>4
<1>6. CASE seg.key # Star /\ seg.index < 0
  <2> DEFINE k == seg.key
  <2>1. Step(v, seg) = {Field(v, k)}
    BY <1>2, <1>6 DEF Step
  <2>2. \A s : Admits(s, seg) <=> s = Of(k)
    BY <1>2, <1>6 DEF Admits
  <2>3. CASE v.kind = "map" /\ k \in DOMAIN v.fields
    <3>1. Field(v, k) = <<v.fields[k]>>
      BY <2>3 DEF Field
    <3>2. v.fields[k] \in Values
      BY <2>3, EngineAssumption
    <3>3. Of(k) \in Steps(v) /\ Taken(v, Of(k)) = v.fields[k]
      BY <2>3, StepsDiffer DEF Steps, Taken
    <3> HIDE DEF k
    <3>4. Chosen(v, seg) = {Of(k)}
      BY <2>2, <3>3 DEF Chosen
    <3>5. Lists(<<v.fields[k]>>, f)
      BY <1>1, <3>3, <3>4, ListsOne
    <3> QED BY <1>3, <2>1, <3>1, <3>2, <3>5 DEF f
  <2>4. CASE ~(v.kind = "map" /\ k \in DOMAIN v.fields)
    <3>1. Field(v, k) = <<>>
      BY <2>4 DEF Field
    <3> HIDE DEF k
    <3>2. Of(k) \notin Steps(v)
      <4>1. CASE v.kind = "map"
        BY <2>4, <4>1, StepsDiffer DEF Steps
      <4>2. CASE v.kind = "list"
        BY <4>2, StepsDiffer DEF Steps
      <4>3. CASE v.kind \notin {"list", "map"}
        BY <4>3 DEF Steps
      <4> QED BY <4>1, <4>2, <4>3
    <3>3. Chosen(v, seg) = {}
      BY <2>2, <3>2 DEF Chosen
    <3>4. Lists(<<>>, f)
      BY <1>1, <3>3, ListsNone
    <3> QED BY <1>3, <2>1, <3>1, <3>4 DEF f
  <2> QED BY <2>3, <2>4
<1> QED BY <1>2, <1>4, <1>5, <1>6

\* The steps from the first k of some values, and where they lead.
Beneath(vals, seg, k) == UNION {{<<i, s>> : s \in Chosen(vals[i], seg)} : i \in 1 .. k}

FoundBeneath(vals, seg, k) == [p \in Beneath(vals, seg, k) |-> Taken(vals[p[1]], p[2])]

LEMMA BeneathNext ==
  ASSUME NEW vals, NEW seg, NEW k \in Nat \ {0}
  PROVE  /\ Beneath(vals, seg, 0) = {}
         /\ Beneath(vals, seg, k) =
              Beneath(vals, seg, k - 1) \cup {<<k, s>> : s \in Chosen(vals[k], seg)}
         /\ \A p \in Beneath(vals, seg, k - 1) : p[1] # k
<1>1. 1 .. 0 = {} /\ 1 .. k = (1 .. k - 1) \cup {k} /\ k \notin 1 .. k - 1
  OBVIOUS
<1>2. Beneath(vals, seg, 0) = {}
  BY <1>1 DEF Beneath
<1>3. Beneath(vals, seg, k) =
        Beneath(vals, seg, k - 1) \cup {<<k, s>> : s \in Chosen(vals[k], seg)}
  BY <1>1 DEF Beneath
<1>4. \A p \in Beneath(vals, seg, k - 1) : p[1] # k
  <2> SUFFICES ASSUME NEW p \in Beneath(vals, seg, k - 1) PROVE p[1] # k
    OBVIOUS
  <2>1. PICK i \in 1 .. k - 1 : \E s \in Chosen(vals[i], seg) : p = <<i, s>>
    BY DEF Beneath
  <2> QED BY <1>1, <2>1
<1> QED BY <1>2, <1>3, <1>4

\* What is found beneath the first values, and then what is found beneath the next.
LEMMA ListsMore ==
  ASSUME NEW vals, NEW seg, NEW k \in Nat \ {0},
         NEW found \in Seq(Values), NEW more \in Seq(Values),
         Lists(found, FoundBeneath(vals, seg, k - 1)),
         Lists(more, Onward(vals[k], seg))
  PROVE  Lists(found \o more, FoundBeneath(vals, seg, k))
<1> DEFINE D == Beneath(vals, seg, k - 1)
           C == Chosen(vals[k], seg)
           E == Beneath(vals, seg, k)
           f == FoundBeneath(vals, seg, k - 1)
           g == Onward(vals[k], seg)
           h == FoundBeneath(vals, seg, k)
           t == found \o more
           F == Len(found)
           M == Len(more)
<1>1. /\ E = D \cup {<<k, s>> : s \in C}
      /\ \A p \in D : p[1] # k
  BY BeneathNext
<1>2. /\ DOMAIN f = D /\ \A p \in D : f[p] = Taken(vals[p[1]], p[2])
      /\ DOMAIN g = C /\ \A s \in C : g[s] = Taken(vals[k], s)
      /\ DOMAIN h = E /\ \A p \in E : h[p] = Taken(vals[p[1]], p[2])
  BY DEF FoundBeneath, Onward
<1>3. /\ F \in Nat /\ M \in Nat
      /\ DOMAIN found = 1 .. F /\ DOMAIN more = 1 .. M /\ DOMAIN t = 1 .. F + M
      /\ \A i \in 1 .. F : t[i] = found[i]
      /\ \A i \in 1 .. M : t[F + i] = more[i]
  OBVIOUS
<1> HIDE DEF D, C, E, f, g, h, t, F, M
<1>4. PICK a \in [1 .. F -> D] :
        /\ \A i, j \in 1 .. F : a[i] = a[j] => i = j
        /\ \A x \in D : \E i \in 1 .. F : a[i] = x
        /\ \A i \in 1 .. F : found[i] = f[a[i]]
  <2>1. Lists(found, f)
    BY DEF f
  <2>2. PICK c \in [DOMAIN found -> DOMAIN f] :
          /\ \A i, j \in DOMAIN found : c[i] = c[j] => i = j
          /\ \A x \in DOMAIN f : \E i \in DOMAIN found : c[i] = x
          /\ \A i \in DOMAIN found : found[i] = f[c[i]]
    BY <2>1 DEF Lists
  <2>3. DOMAIN found = 1 .. F /\ DOMAIN f = D
    BY <1>2, <1>3
  <2>4. c \in [1 .. F -> D]
    BY <2>2, <2>3
  <2>5. /\ \A i, j \in 1 .. F : c[i] = c[j] => i = j
        /\ \A x \in D : \E i \in 1 .. F : c[i] = x
        /\ \A i \in 1 .. F : found[i] = f[c[i]]
    BY <2>2, <2>3
  <2> QED BY <2>4, <2>5
<1>5. PICK b \in [1 .. M -> C] :
        /\ \A i, j \in 1 .. M : b[i] = b[j] => i = j
        /\ \A x \in C : \E i \in 1 .. M : b[i] = x
        /\ \A i \in 1 .. M : more[i] = g[b[i]]
  <2>1. Lists(more, g)
    BY DEF g
  <2>2. PICK c \in [DOMAIN more -> DOMAIN g] :
          /\ \A i, j \in DOMAIN more : c[i] = c[j] => i = j
          /\ \A x \in DOMAIN g : \E i \in DOMAIN more : c[i] = x
          /\ \A i \in DOMAIN more : more[i] = g[c[i]]
    BY <2>1 DEF Lists
  <2>3. DOMAIN more = 1 .. M /\ DOMAIN g = C
    BY <1>2, <1>3
  <2>4. c \in [1 .. M -> C]
    BY <2>2, <2>3
  <2>5. /\ \A i, j \in 1 .. M : c[i] = c[j] => i = j
        /\ \A x \in C : \E i \in 1 .. M : c[i] = x
        /\ \A i \in 1 .. M : more[i] = g[c[i]]
    BY <2>2, <2>3
  <2> QED BY <2>4, <2>5
<1> DEFINE c == [i \in 1 .. F + M |-> IF i <= F THEN a[i] ELSE <<k, b[i - F]>>]
<1>6. \A i \in 1 .. F + M : i \in 1 .. F \/ (i > F /\ i - F \in 1 .. M /\ i = F + (i - F))
  BY <1>3
<1>7. /\ \A i \in 1 .. F : i \in 1 .. F + M /\ i <= F
      /\ \A i \in 1 .. M : F + i \in 1 .. F + M /\ ~(F + i <= F) /\ (F + i) - F = i
  BY <1>3
<1>8. /\ \A i \in 1 .. F : c[i] = a[i] /\ c[i] \in D /\ c[i] \in E /\ c[i][1] # k
      /\ \A i \in 1 .. M : c[F + i] = <<k, b[i]>> /\ c[F + i] \in E
  <2>1. \A i \in 1 .. F : c[i] = a[i]
    BY <1>7
  <2>2. \A i \in 1 .. M : c[F + i] = <<k, b[i]>>
    BY <1>7
  <2> HIDE DEF c
  <2>3. \A i \in 1 .. F : a[i] \in D
    BY <1>4
  <2>4. \A i \in 1 .. M : <<k, b[i]>> \in E
    BY <1>1, <1>5
  <2> QED BY <1>1, <2>1, <2>2, <2>3, <2>4
<1>9. c \in [1 .. F + M -> E]
  <2>1. \A i \in 1 .. F + M : c[i] \in E
    BY <1>6, <1>8
  <2>2. DOMAIN c = 1 .. F + M /\ c = [i \in 1 .. F + M |-> c[i]]
    OBVIOUS
  <2> HIDE DEF c
  <2> QED BY <2>1, <2>2
<1> HIDE DEF c
<1>10. \A i, j \in 1 .. F + M : c[i] = c[j] => i = j
  <2> SUFFICES ASSUME NEW i \in 1 .. F + M, NEW j \in 1 .. F + M, c[i] = c[j] PROVE i = j
    OBVIOUS
  <2>1. CASE i \in 1 .. F /\ j \in 1 .. F
    BY <1>4, <1>8, <2>1
  <2>2. CASE i > F /\ j > F
    <3>1. /\ i - F \in 1 .. M /\ i = F + (i - F)
          /\ j - F \in 1 .. M /\ j = F + (j - F)
      BY <1>3, <1>6, <2>2
    <3>2. <<k, b[i - F]>> = <<k, b[j - F]>>
      BY <1>8, <3>1
    <3>3. i - F = j - F
      BY <1>5, <3>1, <3>2
    <3> QED BY <3>1, <3>3
  <2>3. CASE i \in 1 .. F /\ j > F
    <3>1. j - F \in 1 .. M /\ j = F + (j - F)
      BY <1>3, <1>6, <2>3
    <3>2. c[j][1] = k
      BY <1>8, <3>1
    <3> QED BY <1>8, <2>3, <3>2
  <2>4. CASE i > F /\ j \in 1 .. F
    <3>1. i - F \in 1 .. M /\ i = F + (i - F)
      BY <1>3, <1>6, <2>4
    <3>2. c[i][1] = k
      BY <1>8, <3>1
    <3> QED BY <1>8, <2>4, <3>2
  <2> QED BY <1>6, <2>1, <2>2, <2>3, <2>4
<1>11. \A x \in E : \E i \in 1 .. F + M : c[i] = x
  <2> SUFFICES ASSUME NEW x \in E PROVE \E i \in 1 .. F + M : c[i] = x
    OBVIOUS
  <2>1. CASE x \in D
    BY <1>4, <1>7, <1>8, <2>1
  <2>2. CASE x \in {<<k, s>> : s \in C}
    <3>1. PICK s \in C : x = <<k, s>>
      BY <2>2
    <3>2. PICK i \in 1 .. M : b[i] = s
      BY <1>5
    <3> QED BY <1>7, <1>8, <3>1, <3>2
  <2> QED BY <1>1, <2>1, <2>2
<1>12. \A i \in 1 .. F + M : t[i] = h[c[i]]
  <2> SUFFICES ASSUME NEW i \in 1 .. F + M PROVE t[i] = h[c[i]]
    OBVIOUS
  <2>1. CASE i \in 1 .. F
    <3>1. t[i] = f[a[i]] /\ a[i] \in D /\ c[i] = a[i] /\ c[i] \in E
      BY <1>3, <1>4, <1>8, <2>1
    <3> QED BY <1>2, <3>1
  <2>2. CASE i > F
    <3>1. i - F \in 1 .. M /\ i = F + (i - F)
      BY <1>3, <1>6, <2>2
    <3>2. PICK n \in 1 .. M : n = i - F /\ i = F + n
      BY <3>1
    <3>3. t[F + n] = g[b[n]] /\ b[n] \in C /\ c[F + n] = <<k, b[n]>> /\ c[F + n] \in E
      BY <1>3, <1>5, <1>8
    <3>4. h[<<k, b[n]>>] = Taken(vals[k], b[n]) /\ g[b[n]] = Taken(vals[k], b[n])
      BY <1>2, <3>3
    <3> QED BY <3>2, <3>3, <3>4
  <2> QED BY <1>6, <2>1, <2>2
<1>13. DOMAIN t = 1 .. F + M /\ DOMAIN h = E
  BY <1>2, <1>3
<1>14. Lists(t, h)
  <2>1. c \in [DOMAIN t -> DOMAIN h]
    BY <1>9, <1>13
  <2>2. /\ \A i, j \in DOMAIN t : c[i] = c[j] => i = j
        /\ \A x \in DOMAIN h : \E i \in DOMAIN t : c[i] = x
        /\ \A i \in DOMAIN t : t[i] = h[c[i]]
    BY <1>10, <1>11, <1>12, <1>13
  <2> QED BY <2>1, <2>2 DEF Lists
<1> QED BY <1>14 DEF t, h

\* One round of Lookup: from each of the values found so far, once to each of the
\* places the segment allows.
LEMMA StepAllLists ==
  ASSUME NEW vals \in Seq(Values), NEW seg \in Segments
  PROVE  /\ StepAll(vals, seg) # {}
         /\ \A t \in StepAll(vals, seg) :
              t \in Seq(Values) /\ Lists(t, FoundBeneath(vals, seg, Len(vals)))
<1> DEFINE N == Len(vals)
           T == SUBSET Seq(Values)
           R(n, x) == {found \o more : found \in x, more \in Step(vals[n], seg)}
           round == [n \in 1 .. N |-> [x \in T |-> R(n, x)]]
           f == CHOOSE g : g = [n \in 0 .. N |-> IF n = 0 THEN {<<>>} ELSE R(n, g[n - 1])]
<1>1. N \in Nat /\ \A n \in 1 .. N : vals[n] \in Values
  OBVIOUS
<1>2. \A n \in 1 .. N : Step(vals[n], seg) # {} /\ Step(vals[n], seg) \subseteq Seq(Values)
  <2> SUFFICES ASSUME NEW n \in 1 .. N
               PROVE  Step(vals[n], seg) # {} /\ Step(vals[n], seg) \subseteq Seq(Values)
    OBVIOUS
  <2>1. vals[n] \in Values
    BY <1>1
  <2> QED BY <2>1, StepLists
<1>3. {<<>>} \in T /\ round \in [1 .. N -> [T -> T]]
  <2>1. ASSUME NEW n \in 1 .. N, NEW x \in T PROVE R(n, x) \in T
    <3> DEFINE S == Step(vals[n], seg)
    <3> HIDE DEF N, T, round, f
    <3>1. \A t \in R(n, x) : \E found \in x : \E more \in S : t = found \o more
      BY SMT
    <3> HIDE DEF S, R
    <3>2. S \subseteq Seq(Values)
      BY <1>2 DEF S
    <3>3. x \subseteq Seq(Values)
      BY DEF T
    <3>4. \A t \in R(n, x) : t \in Seq(Values)
      <4> SUFFICES ASSUME NEW t \in R(n, x) PROVE t \in Seq(Values)
        OBVIOUS
      <4>1. PICK found \in x, more \in S : t = found \o more
        BY <3>1
      <4>2. found \in Seq(Values) /\ more \in Seq(Values)
        BY <3>2, <3>3
      <4>3. found \o more \in Seq(Values)
        BY <4>2
      <4> QED BY <4>1, <4>3
    <3> QED BY <3>4 DEF T
  <2>2. {<<>>} \in T
    OBVIOUS
  <2> HIDE DEF N, T, R
  <2> QED BY <2>1, <2>2
<1>4. \E g : Iterates(g, N, T, {<<>>}, round)
  <2> HIDE DEF N, T, round
  <2> QED BY <1>1, <1>3, Loop
<1>5. \E g : g = [n \in 0 .. N |-> IF n = 0 THEN {<<>>} ELSE R(n, g[n - 1])]
  <2> HIDE DEF N, T, R
  <2>1. PICK g : Iterates(g, N, T, {<<>>}, round)
    <3> HIDE DEF round
    <3> QED BY <1>4
  <2>2. \A n \in 1 .. N : g[n - 1] \in T /\ g[n] = round[n][g[n - 1]]
    <3> HIDE DEF round
    <3> QED BY <1>1, <2>1 DEF Iterates
  <2>3. \A n \in 1 .. N : g[n] = R(n, g[n - 1])
    BY <2>2
  <2>4. g \in [0 .. N -> T] /\ g[0] = {<<>>}
    BY <2>1 DEF Iterates
  <2>5. \A n \in 0 .. N : n # 0 => n \in 1 .. N
    BY <1>1
  <2> QED BY <2>3, <2>4, <2>5
<1>6. f = [n \in 0 .. N |-> IF n = 0 THEN {<<>>} ELSE R(n, f[n - 1])]
  <2> HIDE DEF N, R
  <2> QED BY <1>5
<1>7. StepAll(vals, seg) = f[N]
  BY DEF StepAll
<1> HIDE DEF f
<1> DEFINE G == {n \in 0 .. N : /\ f[n] # {}
                                /\ \A t \in f[n] :
                                     t \in Seq(Values) /\ Lists(t, FoundBeneath(vals, seg, n))}
<1>8. 0 \in G
  <2>1. f[0] = {<<>>} /\ 0 \in 0 .. N
    BY <1>1, <1>6
  <2>2. DOMAIN FoundBeneath(vals, seg, 0) = {}
    BY BeneathNext, 1 \in Nat \ {0} DEF FoundBeneath
  <2>3. Lists(<<>>, FoundBeneath(vals, seg, 0)) /\ <<>> \in Seq(Values)
    BY <2>2, ListsNone
  <2> QED BY <2>1, <2>3
<1>9. ASSUME NEW n \in 1 .. N, n - 1 \in G PROVE n \in G
  <2>1. n \in 0 .. N /\ n # 0 /\ n \in Nat \ {0} /\ n - 1 \in 0 .. N
    BY <1>1
  <2>2. f[n] = R(n, f[n - 1])
    <3> HIDE DEF N, R
    <3> QED BY <1>6, <2>1
  <2>3. /\ f[n - 1] # {}
        /\ \A t \in f[n - 1] : t \in Seq(Values) /\ Lists(t, FoundBeneath(vals, seg, n - 1))
    BY <1>9
  <2>4. /\ Step(vals[n], seg) # {}
        /\ \A t \in Step(vals[n], seg) : t \in Seq(Values) /\ Lists(t, Onward(vals[n], seg))
    BY <1>1, StepLists
  <2>5. ASSUME NEW found \in f[n - 1], NEW more \in Step(vals[n], seg)
        PROVE  /\ found \o more \in Seq(Values)
               /\ Lists(found \o more, FoundBeneath(vals, seg, n))
    <3>1. /\ found \in Seq(Values) /\ more \in Seq(Values)
          /\ Lists(found, FoundBeneath(vals, seg, n - 1))
          /\ Lists(more, Onward(vals[n], seg))
      BY <2>3, <2>4
    <3>2. found \o more \in Seq(Values)
      BY <3>1
    <3>3. Lists(found \o more, FoundBeneath(vals, seg, n))
      BY <2>1, <3>1, ListsMore
    <3> QED BY <3>2, <3>3
  <2>6. f[n] # {} /\ \A t \in f[n] : t \in Seq(Values) /\ Lists(t, FoundBeneath(vals, seg, n))
    <3> DEFINE S == Step(vals[n], seg)
               F == f[n - 1]
    <3> HIDE DEF N, G, T, round, F
    <3>1. \A t \in R(n, F) : \E found \in F : \E more \in S : t = found \o more
      BY SMT
    <3>2. \A found \in F : \A more \in S : found \o more \in R(n, F)
      BY SMT
    <3> HIDE DEF R
    <3>3. f[n] # {}
      BY <2>2, <2>3, <2>4, <3>2 DEF F
    <3>4. \A t \in f[n] : t \in Seq(Values) /\ Lists(t, FoundBeneath(vals, seg, n))
      <4> SUFFICES ASSUME NEW t \in R(n, F)
                   PROVE  t \in Seq(Values) /\ Lists(t, FoundBeneath(vals, seg, n))
        BY <2>2 DEF F
      <4>1. PICK found \in F, more \in S : t = found \o more
        BY <3>1
      <4> QED BY <2>5, <4>1 DEF F
    <3> QED BY <3>3, <3>4
  <2> QED BY <2>1, <2>6
<1>10. \A n \in 0 .. N : n \in G
  <2> HIDE DEF G, N
  <2> QED BY <1>1, <1>8, <1>9, Rounds
<1>11. N \in G
  BY <1>1, <1>10
<1> QED BY <1>7, <1>11

-----------------------------------------------------------------------------
\* Places.

Moves == UNION {Steps(v) : v \in Values}

\* f has the values on the way from root along place.
Walks(f, place, N, root) ==
  f = [n \in 0 .. N |-> IF n = 0 THEN root ELSE Taken(f[n - 1], place[n])]

LEMMA WalkExists ==
  ASSUME NEW root, NEW place, NEW N \in Nat
  PROVE  \E f : Walks(f, place, N, root)
<1> DEFINE G == {n \in 0 .. N : \E f : Walks(f, place, n, root)}
<1>1. 0 \in G
  <2> DEFINE f == [n \in 0 .. 0 |-> root]
  <2>1. \A n \in 0 .. 0 : n = 0
    OBVIOUS
  <2>2. f = [n \in 0 .. 0 |-> IF n = 0 THEN root ELSE Taken(f[n - 1], place[n])]
    BY <2>1
  <2> HIDE DEF f
  <2>3. Walks(f, place, 0, root) /\ 0 \in 0 .. N
    BY <2>2 DEF Walks
  <2> QED BY <2>3
<1>2. ASSUME NEW n \in 1 .. N, n - 1 \in G PROVE n \in G
  <2>1. PICK f : Walks(f, place, n - 1, root)
    BY <1>2
  <2> DEFINE v == Taken(f[n - 1], place[n])
             g == [m \in 0 .. n |-> IF m = n THEN v ELSE f[m]]
  <2>2. /\ n \in 0 .. N /\ n # 0 /\ n \in 0 .. n /\ n - 1 \in 0 .. n - 1
        /\ \A m \in 0 .. n : m # n => m \in 0 .. n - 1
        /\ \A m \in 0 .. n : m # 0 => m - 1 \in 0 .. n /\ m - 1 # n /\ m - 1 \in 0 .. n - 1
    OBVIOUS
  <2>3. \A m \in 0 .. n - 1 : f[m] = IF m = 0 THEN root ELSE Taken(f[m - 1], place[m])
    BY <2>1 DEF Walks
  <2>4. \A m \in 0 .. n : g[m] = IF m = 0 THEN root ELSE Taken(g[m - 1], place[m])
    <3> SUFFICES ASSUME NEW m \in 0 .. n
                 PROVE  g[m] = IF m = 0 THEN root ELSE Taken(g[m - 1], place[m])
      OBVIOUS
    <3>1. CASE m = n
      <4>1. g[m] = v /\ g[m - 1] = f[n - 1] /\ m # 0
        BY <2>2, <3>1
      <4> HIDE DEF g
      <4> QED BY <3>1, <4>1
    <3>2. CASE m # n /\ m = 0
      <4>1. g[m] = f[m]
        BY <3>2
      <4> HIDE DEF g
      <4> QED BY <2>2, <2>3, <3>2, <4>1
    <3>3. CASE m # n /\ m # 0
      <4>1. g[m] = f[m] /\ g[m - 1] = f[m - 1]
        BY <2>2, <3>3
      <4> HIDE DEF g
      <4> QED BY <2>2, <2>3, <3>3, <4>1
    <3> QED BY <3>1, <3>2, <3>3
  <2>5. g = [m \in 0 .. n |-> g[m]]
    OBVIOUS
  <2> HIDE DEF g
  <2>6. g = [m \in 0 .. n |-> IF m = 0 THEN root ELSE Taken(g[m - 1], place[m])]
    BY <2>4, <2>5, Zenon
  <2> QED BY <2>2, <2>6 DEF Walks
<1> HIDE DEF G
<1>3. \A n \in 0 .. N : n \in G
  BY <1>1, <1>2, Rounds
<1> QED BY <1>3 DEF G

LEMMA ValueAtWalks ==
  ASSUME NEW root, NEW S, NEW place \in Seq(S)
  PROVE  \E f : Walks(f, place, Len(place), root) /\ ValueAt(place, root) = f[Len(place)]
<1> DEFINE N == Len(place)
           f == CHOOSE g : g = [n \in 0 .. N |-> IF n = 0 THEN root ELSE Taken(g[n - 1], place[n])]
<1>1. N \in Nat
  OBVIOUS
<1>2. \E g : Walks(g, place, N, root)
  <2> HIDE DEF N
  <2> QED BY <1>1, WalkExists
<1>3. Walks(f, place, N, root)
  BY <1>2 DEF Walks
<1>4. ValueAt(place, root) = f[N]
  BY DEF ValueAt
<1> HIDE DEF f
<1> QED BY <1>3, <1>4

\* Two ways along the same steps pass the same values.
LEMMA WalksAgree ==
  ASSUME NEW root, NEW p, NEW q, NEW M \in Nat, NEW N \in Nat, N <= M,
         \A n \in 1 .. N : p[n] = q[n],
         NEW f, NEW g, Walks(f, p, N, root), Walks(g, q, M, root)
  PROVE  f[N] = g[N]
<1> DEFINE G == {n \in 0 .. N : f[n] = g[n]}
<1>1. /\ \A n \in 0 .. N : f[n] = IF n = 0 THEN root ELSE Taken(f[n - 1], p[n])
      /\ \A n \in 0 .. M : g[n] = IF n = 0 THEN root ELSE Taken(g[n - 1], q[n])
  BY DEF Walks
<1>2. 0 \in G
  BY <1>1
<1>3. ASSUME NEW n \in 1 .. N, n - 1 \in G PROVE n \in G
  <2>1. n \in 0 .. N /\ n \in 0 .. M /\ n # 0
    OBVIOUS
  <2>2. f[n - 1] = g[n - 1] /\ p[n] = q[n]
    BY <1>3
  <2>3. f[n] = g[n]
    BY <1>1, <2>1, <2>2
  <2> QED BY <2>1, <2>3
<1> HIDE DEF G
<1>4. \A n \in 0 .. N : n \in G
  BY <1>2, <1>3, Rounds
<1> QED BY <1>4 DEF G

\* The value one step further.
LEMMA ValueAtNext ==
  ASSUME NEW root, NEW S, NEW p \in Seq(S), NEW s \in S
  PROVE  ValueAt(Append(p, s), root) = Taken(ValueAt(p, root), s)
<1> DEFINE q == Append(p, s)
           N == Len(p)
<1>1. N \in Nat /\ q \in Seq(S) /\ Len(q) = N + 1 /\ q[N + 1] = s /\ \A n \in 1 .. N : p[n] = q[n]
  OBVIOUS
<1>2. PICK f : Walks(f, p, N, root) /\ ValueAt(p, root) = f[N]
  BY ValueAtWalks
<1> HIDE DEF q
<1>3. PICK g : Walks(g, q, N + 1, root) /\ ValueAt(q, root) = g[N + 1]
  BY <1>1, ValueAtWalks
<1> HIDE DEF N
<1>4. N + 1 \in Nat /\ N <= N + 1 /\ N + 1 \in 0 .. N + 1 /\ N + 1 # 0 /\ (N + 1) - 1 = N
  BY <1>1
<1>5. f[N] = g[N]
  BY <1>1, <1>2, <1>3, <1>4, WalksAgree
<1>6. g[N + 1] = Taken(g[N], q[N + 1])
  BY <1>3, <1>4 DEF Walks
<1> QED BY <1>1, <1>2, <1>3, <1>5, <1>6 DEF q

LEMMA ValueAtRoot ==
  ASSUME NEW root
  PROVE  ValueAt(<<>>, root) = root
<1>1. <<>> \in Seq({}) /\ Len(<<>>) = 0
  OBVIOUS
<1>2. PICK f : Walks(f, <<>>, 0, root) /\ ValueAt(<<>>, root) = f[0]
  BY <1>1, ValueAtWalks
<1>3. f[0] = root
  BY <1>2 DEF Walks
<1> QED BY <1>2, <1>3

\* What a step leads to is a value too.
LEMMA TakenType ==
  ASSUME NEW v \in Values, NEW s \in Steps(v)
  PROVE  Taken(v, s) \in Values
<1>1. CASE v.kind = "list"
  <2>1. PICK n \in DOMAIN v.items : s = At(n)
    BY <1>1 DEF Steps
  <2>2. v.items \in Seq(Values) /\ s.at = n
    BY <1>1, <2>1, EngineAssumption, StepsDiffer
  <2> QED BY <1>1, <2>2 DEF Taken
<1>2. CASE v.kind = "map"
  <2>1. PICK k \in DOMAIN v.fields : s = Of(k)
    BY <1>2 DEF Steps
  <2>2. v.fields \in [DOMAIN v.fields -> Values] /\ s.of = k
    BY <1>2, <2>1, EngineAssumption, StepsDiffer
  <2> QED BY <1>2, <2>2 DEF Taken
<1>3. CASE v.kind \notin {"list", "map"}
  BY <1>3 DEF Steps
<1> QED BY <1>1, <1>2, <1>3

\* Places with a value, and those one step further than some of them.
Reach(root) == {p \in Seq(Moves) : ValueAt(p, root) \in Values}

Further(root, x) == UNION {{Append(p, s) : s \in Steps(ValueAt(p, root))} : p \in x}

LEMMA FurtherReach ==
  ASSUME NEW root, NEW p \in Reach(root), NEW s \in Steps(ValueAt(p, root))
  PROVE  /\ p \in Seq(Moves) /\ s \in Moves
         /\ Append(p, s) \in Reach(root)
         /\ ValueAt(Append(p, s), root) = Taken(ValueAt(p, root), s)
<1>1. p \in Seq(Moves) /\ ValueAt(p, root) \in Values
  BY DEF Reach
<1>2. s \in Moves
  BY <1>1 DEF Moves
<1>3. ValueAt(Append(p, s), root) = Taken(ValueAt(p, root), s)
  BY <1>1, <1>2, ValueAtNext
<1>4. Taken(ValueAt(p, root), s) \in Values
  BY <1>1, TakenType
<1>5. Append(p, s) \in Seq(Moves)
  <2> HIDE DEF Moves
  <2> QED BY <1>1, <1>2
<1> QED BY <1>1, <1>2, <1>3, <1>4, <1>5 DEF Reach

\* P[n] has the places that are n steps away.
Spreads(P, N, root) ==
  P = [n \in 0 .. N |-> IF n = 0 THEN {<<>>} ELSE Further(root, P[n - 1])]

LEMMA PlacesSpread ==
  ASSUME NEW root \in Values, NEW N \in Nat
  PROVE  \E P : /\ Spreads(P, N, root)
                /\ Places(root, N) = P[N]
                /\ \A n \in 0 .. N : P[n] \subseteq Reach(root) /\ \A p \in P[n] : Len(p) = n
<1> DEFINE T == SUBSET Reach(root)
           round == [n \in 1 .. N |-> [x \in T |-> Further(root, x)]]
           P == CHOOSE Q : Q = [n \in 0 .. N |-> IF n = 0 THEN {<<>>} ELSE Further(root, Q[n - 1])]
<1>1. \A x \in T : Further(root, x) \in T
  <2> SUFFICES ASSUME NEW x \in T, NEW q \in Further(root, x) PROVE q \in Reach(root)
    OBVIOUS
  <2>1. PICK p \in x : \E s \in Steps(ValueAt(p, root)) : q = Append(p, s)
    BY DEF Further
  <2> QED BY <2>1, FurtherReach
<1>2. {<<>>} \in T
  <2>1. ValueAt(<<>>, root) \in Values /\ <<>> \in Seq(Moves)
    BY ValueAtRoot
  <2> QED BY <2>1 DEF Reach
<1>3. \E Q : Iterates(Q, N, T, {<<>>}, round)
  <2>1. round \in [1 .. N -> [T -> T]]
    BY <1>1
  <2> HIDE DEF T, round
  <2> QED BY <1>2, <2>1, Loop
<1>4. \E Q : Spreads(Q, N, root)
  <2> HIDE DEF T
  <2>1. PICK Q : Iterates(Q, N, T, {<<>>}, round)
    BY <1>3
  <2>2. \A n \in 1 .. N : Q[n] = Further(root, Q[n - 1])
    <3> SUFFICES ASSUME NEW n \in 1 .. N PROVE Q[n] = Further(root, Q[n - 1])
      OBVIOUS
    <3>1. n - 1 \in 0 .. N
      OBVIOUS
    <3>2. Q[n - 1] \in T /\ Q[n] = round[n][Q[n - 1]]
      <4> HIDE DEF round
      <4> QED BY <2>1, <3>1 DEF Iterates
    <3> QED BY <3>2
  <2>3. Q \in [0 .. N -> T] /\ Q[0] = {<<>>}
    BY <2>1 DEF Iterates
  <2>4. \A n \in 0 .. N : n # 0 => n \in 1 .. N
    OBVIOUS
  <2> HIDE DEF round
  <2>5. Q = [n \in 0 .. N |-> IF n = 0 THEN {<<>>} ELSE Further(root, Q[n - 1])]
    BY <2>2, <2>3, <2>4
  <2> QED BY <2>5 DEF Spreads
<1>5. Spreads(P, N, root)
  BY <1>4 DEF Spreads
<1>6. Places(root, N) = P[N]
  BY DEF Places, Further
<1> HIDE DEF P
<1> DEFINE G == {n \in 0 .. N : P[n] \subseteq Reach(root) /\ \A p \in P[n] : Len(p) = n}
<1>7. P[0] = {<<>>} /\ \A n \in 1 .. N : P[n] = Further(root, P[n - 1])
  <2>1. 0 \in 0 .. N /\ \A n \in 1 .. N : n \in 0 .. N /\ n # 0
    OBVIOUS
  <2> QED BY <1>5, <2>1 DEF Spreads
<1>8. 0 \in G
  BY <1>2, <1>7
<1>9. ASSUME NEW n \in 1 .. N, n - 1 \in G PROVE n \in G
  <2>1. n \in 0 .. N /\ P[n] = Further(root, P[n - 1])
    BY <1>7
  <2>2. P[n - 1] \subseteq Reach(root) /\ \A p \in P[n - 1] : Len(p) = n - 1
    BY <1>9
  <2>3. P[n] \subseteq Reach(root)
    BY <1>1, <2>1, <2>2
  <2>4. \A q \in P[n] : Len(q) = n
    <3> SUFFICES ASSUME NEW q \in P[n] PROVE Len(q) = n
      OBVIOUS
    <3>1. PICK p \in P[n - 1] : \E s \in Steps(ValueAt(p, root)) : q = Append(p, s)
      BY <2>1 DEF Further
    <3>s. PICK s \in Steps(ValueAt(p, root)) : q = Append(p, s)
      BY <3>1
    <3>2. p \in Seq(Moves) /\ s \in Moves /\ Len(p) = n - 1
      BY <2>2, <3>1, <3>s, FurtherReach
    <3> HIDE DEF Moves
    <3>3. Len(Append(p, s)) = n
      BY <3>2
    <3> QED BY <3>1, <3>s, <3>3
  <2> QED BY <2>1, <2>3, <2>4
<1> HIDE DEF G
<1>10. \A n \in 0 .. N : n \in G
  BY <1>8, <1>9, Rounds
<1> QED BY <1>5, <1>6, <1>10 DEF G

\* The places of a function may be called otherwise.
Renames(c, f, g) ==
  /\ c \in [DOMAIN f -> DOMAIN g]
  /\ \A x, y \in DOMAIN f : c[x] = c[y] => x = y
  /\ \A y \in DOMAIN g : \E x \in DOMAIN f : c[x] = y
  /\ \A x \in DOMAIN f : f[x] = g[c[x]]

LEMMA ListsRenamed ==
  ASSUME NEW t, NEW f, NEW g, NEW c, Lists(t, f), Renames(c, f, g)
  PROVE  Lists(t, g)
<1>1. PICK b \in [DOMAIN t -> DOMAIN f] :
        /\ \A i, j \in DOMAIN t : b[i] = b[j] => i = j
        /\ \A x \in DOMAIN f : \E i \in DOMAIN t : b[i] = x
        /\ \A i \in DOMAIN t : t[i] = f[b[i]]
  BY DEF Lists
<1>2. /\ c \in [DOMAIN f -> DOMAIN g]
      /\ \A x, y \in DOMAIN f : c[x] = c[y] => x = y
      /\ \A y \in DOMAIN g : \E x \in DOMAIN f : c[x] = y
      /\ \A x \in DOMAIN f : f[x] = g[c[x]]
  BY DEF Renames
<1> DEFINE d == [i \in DOMAIN t |-> c[b[i]]]
<1>3. d \in [DOMAIN t -> DOMAIN g] /\ \A i \in DOMAIN t : d[i] = c[b[i]]
  BY <1>1, <1>2
<1> HIDE DEF d
<1>4. \A i, j \in DOMAIN t : d[i] = d[j] => i = j
  BY <1>1, <1>2, <1>3
<1>5. \A y \in DOMAIN g : \E i \in DOMAIN t : d[i] = y
  <2> SUFFICES ASSUME NEW y \in DOMAIN g PROVE \E i \in DOMAIN t : d[i] = y
    OBVIOUS
  <2>1. PICK x \in DOMAIN f : c[x] = y
    BY <1>2
  <2>2. PICK i \in DOMAIN t : b[i] = x
    BY <1>1
  <2> QED BY <1>3, <2>1, <2>2
<1>6. \A i \in DOMAIN t : t[i] = g[d[i]]
  BY <1>1, <1>2, <1>3
<1> QED BY <1>3, <1>4, <1>5, <1>6 DEF Lists

ValuesAt(places, root) == [p \in places |-> ValueAt(p, root)]

\* What is found beneath the values of some places is at the places one step further.
LEMMA BeneathPlaces ==
  ASSUME NEW root, NEW seg, NEW n \in Nat, NEW R \in SUBSET Reach(root),
         \A p \in R : Len(p) = n - 1,
         NEW vals \in Seq(Values), Lists(vals, ValuesAt(R, root)),
         NEW t, Lists(t, FoundBeneath(vals, seg, Len(vals)))
  PROVE  Lists(t, ValuesAt({q \in Further(root, R) : Admits(q[n], seg)}, root))
<1> DEFINE D == {q \in Further(root, R) : Admits(q[n], seg)}
           E == Beneath(vals, seg, Len(vals))
           f == FoundBeneath(vals, seg, Len(vals))
           g == ValuesAt(D, root)
           h == ValuesAt(R, root)
<1>1. /\ DOMAIN f = E /\ \A p \in E : f[p] = Taken(vals[p[1]], p[2])
      /\ DOMAIN g = D /\ \A q \in D : g[q] = ValueAt(q, root)
      /\ DOMAIN h = R /\ \A p \in R : h[p] = ValueAt(p, root)
  BY DEF FoundBeneath, ValuesAt
<1> HIDE DEF h
<1>2. PICK b \in [DOMAIN vals -> DOMAIN h] :
        /\ \A i, j \in DOMAIN vals : b[i] = b[j] => i = j
        /\ \A x \in DOMAIN h : \E i \in DOMAIN vals : b[i] = x
        /\ \A i \in DOMAIN vals : vals[i] = h[b[i]]
  <2>1. Lists(vals, h)
    BY DEF h
  <2> QED BY <2>1 DEF Lists
<1>3. \A i \in DOMAIN vals : b[i] \in R /\ vals[i] = ValueAt(b[i], root)
  BY <1>1, <1>2
<1>4. DOMAIN vals = 1 .. Len(vals)
  OBVIOUS
<1> DEFINE c == [p \in E |-> Append(b[p[1]], p[2])]
<1>5. \A p \in E : \E i \in DOMAIN vals : \E s \in Chosen(vals[i], seg) : p = <<i, s>>
  BY <1>4 DEF Beneath
<1>6. \A i \in DOMAIN vals : \A s \in Chosen(vals[i], seg) : <<i, s>> \in E
  BY <1>4 DEF Beneath
<1> HIDE DEF E
<1>7. ASSUME NEW i \in DOMAIN vals, NEW s \in Chosen(vals[i], seg)
      PROVE  /\ c[<<i, s>>] = Append(b[i], s)
             /\ Append(b[i], s) \in D
             /\ ValueAt(Append(b[i], s), root) = Taken(vals[i], s)
             /\ b[i] \in Seq(Moves) /\ s \in Moves /\ Len(b[i]) = n - 1
  <2>1. c[<<i, s>>] = Append(b[i], s)
    <3>1. <<i, s>> \in E /\ <<i, s>>[1] = i /\ <<i, s>>[2] = s
      BY <1>6
    <3> QED BY <3>1
  <2>2. b[i] \in R /\ b[i] \in Reach(root) /\ s \in Steps(ValueAt(b[i], root)) /\ Admits(s, seg)
    BY <1>3 DEF Chosen
  <2>3. /\ b[i] \in Seq(Moves) /\ s \in Moves
        /\ ValueAt(Append(b[i], s), root) = Taken(ValueAt(b[i], root), s)
    BY <2>2, FurtherReach
  <2>4. Append(b[i], s) \in Further(root, R)
    BY <2>2 DEF Further
  <2>5. Len(b[i]) = n - 1
    BY <2>2
  <2>6. Append(b[i], s)[n] = s
    <3> DEFINE p == b[i]
    <3> HIDE DEF p, Moves
    <3>1. Append(p, s)[Len(p) + 1] = s
      BY <2>3 DEF p
    <3>2. Len(p) + 1 = n
      BY <2>5 DEF p
    <3> QED BY <3>1, <3>2 DEF p
  <2> HIDE DEF c
  <2> QED BY <1>3, <2>1, <2>2, <2>3, <2>4, <2>5, <2>6
<1>8. DOMAIN c = E
  OBVIOUS
<1> HIDE DEF c
<1>9. c \in [DOMAIN f -> DOMAIN g]
  <2>1. ASSUME NEW p \in E PROVE c[p] \in D
    <3>1. PICK i \in DOMAIN vals : \E s \in Chosen(vals[i], seg) : p = <<i, s>>
      BY <1>5
    <3> HIDE DEF D
    <3> QED BY <1>7, <3>1
  <2>2. c = [p \in E |-> c[p]]
    BY DEF c
  <2> HIDE DEF D, f, g
  <2> QED BY <1>1, <2>1, <2>2
<1>10. \A x, y \in E : c[x] = c[y] => x = y
  <2> SUFFICES ASSUME NEW x \in E, NEW y \in E, c[x] = c[y] PROVE x = y
    OBVIOUS
  <2>1. PICK i \in DOMAIN vals : \E s \in Chosen(vals[i], seg) : x = <<i, s>>
    BY <1>5
  <2>s. PICK s \in Chosen(vals[i], seg) : x = <<i, s>>
    BY <2>1
  <2>2. PICK j \in DOMAIN vals : \E r \in Chosen(vals[j], seg) : y = <<j, r>>
    BY <1>5
  <2>r. PICK r \in Chosen(vals[j], seg) : y = <<j, r>>
    BY <2>2
  <2> DEFINE p == b[i]
             q == b[j]
  <2>3. /\ Append(p, s) = Append(q, r)
        /\ p \in Seq(Moves) /\ q \in Seq(Moves) /\ s \in Moves /\ r \in Moves
    BY <1>7, <2>1, <2>s, <2>2, <2>r
  <2> HIDE DEF p, q, Moves
  <2>4. p = q /\ s = r
    BY <2>3, AppendInjective
  <2>5. i = j
    BY <1>2, <2>4 DEF p, q
  <2> QED BY <2>1, <2>s, <2>2, <2>r, <2>4, <2>5
<1>11. \A y \in D : \E x \in E : c[x] = y
  <2> SUFFICES ASSUME NEW y \in D PROVE \E x \in E : c[x] = y
    OBVIOUS
  <2>1. PICK p \in R : \E s \in Steps(ValueAt(p, root)) : y = Append(p, s)
    BY DEF Further
  <2>s. PICK s \in Steps(ValueAt(p, root)) : y = Append(p, s)
    BY <2>1
  <2>2. p \in Seq(Moves) /\ s \in Moves /\ Len(p) = n - 1
    BY <2>1, <2>s, FurtherReach
  <2>3. y[n] = s
    <3> HIDE DEF Moves
    <3>1. Append(p, s)[Len(p) + 1] = s /\ Len(p) + 1 = n
      BY <2>2
    <3> QED BY <2>1, <2>s, <3>1
  <2>4. PICK i \in DOMAIN vals : b[i] = p
    BY <1>1, <1>2
  <2>5. s \in Chosen(vals[i], seg)
    BY <1>3, <2>1, <2>s, <2>3, <2>4 DEF Chosen
  <2> QED BY <1>6, <1>7, <2>1, <2>s, <2>4, <2>5
<1>12. \A x \in E : f[x] = g[c[x]]
  <2> SUFFICES ASSUME NEW x \in E PROVE f[x] = g[c[x]]
    OBVIOUS
  <2>1. PICK i \in DOMAIN vals : \E s \in Chosen(vals[i], seg) : x = <<i, s>>
    BY <1>5
  <2>s. PICK s \in Chosen(vals[i], seg) : x = <<i, s>>
    BY <2>1
  <2>2. x[1] = i /\ x[2] = s
    BY <2>1, <2>s
  <2>3. f[x] = Taken(vals[i], s)
    BY <1>1, <2>2
  <2>4. c[x] = Append(b[i], s) /\ c[x] \in D /\ ValueAt(c[x], root) = Taken(vals[i], s)
    BY <1>7, <2>1, <2>s
  <2> QED BY <1>1, <2>3, <2>4
<1>13. Renames(c, f, g)
  <2> HIDE DEF D, f, g
  <2> QED BY <1>1, <1>9, <1>10, <1>11, <1>12 DEF Renames
<1> HIDE DEF D, f, g
<1>14. Lists(t, f)
  BY DEF f
<1>15. Lists(t, g)
  BY <1>13, <1>14, ListsRenamed
<1> QED BY <1>15 DEF g, D

\* The segment of a part allows the steps that the part asks for.
LEMMA AdmitsSuits ==
  ASSUME NEW part \in Texts, part # Empty, NEW step
  PROVE  Admits(step, Segment(part)) <=> Suits(step, part)
<1>1. Atoi(part) \in Int \cup {NoNumber} /\ Star # Empty /\ NoNumber \notin Int
  BY EngineAssumption, ComparisonAssumption
<1>2. CASE part = Star
  BY <1>2 DEF Admits, Suits, Segment
<1>3. CASE part # Star /\ Atoi(part) = NoNumber
  <2>1. Segment(part) = [key |-> part, index |-> -1]
    BY <1>3 DEF Segment
  <2> QED BY <1>3, <2>1 DEF Admits, Suits
<1>4. CASE part # Star /\ Atoi(part) # NoNumber
  <2>1. Segment(part) = [key |-> Empty, index |-> Atoi(part)] /\ Atoi(part) \in Int
    BY <1>1, <1>4 DEF Segment
  <2> QED BY <1>1, <1>4, <2>1 DEF Admits, Suits
<1> QED BY <1>2, <1>3, <1>4

\* So the places that fit a path are those that its segments allow.
LEMMA FittingParsed ==
  ASSUME NEW path \in Seq(Texts), NEW root
  PROVE  LET segs == ParsePath(path) IN
         Fitting(path, root) =
           {p \in Places(root, Len(segs)) : \A i \in DOMAIN segs : Admits(p[i], segs[i])}
<1> DEFINE segs == ParsePath(path)
           n(p) == StepsOf(path, p)
<1>1. Parsed(segs, path, Len(path)) /\ DOMAIN path = 1 .. Len(path) /\ \A p \in DOMAIN path : path[p] \in Texts
  BY ParsePathParsed
<1> HIDE DEF segs, n
<1>2. /\ DOMAIN segs = 1 .. Len(segs) /\ Len(segs) = n(Len(path))
      /\ \A p \in DOMAIN path : path[p] # Empty => n(p) \in DOMAIN segs /\ segs[n(p)] = Segment(path[p])
      /\ \A i \in DOMAIN segs : \E p \in DOMAIN path : path[p] # Empty /\ n(p) = i
  <2>1. segs \in Seq(Segments) /\ Len(segs) = n(Len(path))
    BY <1>1 DEF Parsed, n
  <2>2. DOMAIN segs = 1 .. Len(segs)
    BY <2>1
  <2>3. \A p \in DOMAIN path : path[p] # Empty => n(p) \in DOMAIN segs /\ segs[n(p)] = Segment(path[p])
    BY <1>1, <2>2 DEF Parsed, n
  <2>4. \A i \in DOMAIN segs : \E p \in DOMAIN path : path[p] # Empty /\ n(p) = i
    BY <1>1, <2>2 DEF Parsed, n
  <2> QED BY <2>1, <2>2, <2>3, <2>4
<1>3. ASSUME NEW place
      PROVE  Fits(place, path) <=> \A i \in DOMAIN segs : Admits(place[i], segs[i])
  <2>1. Fits(place, path) <=> \A p \in DOMAIN path : path[p] # Empty => Suits(place[n(p)], path[p])
    BY DEF Fits, n
  <2>2. \A p \in DOMAIN path : path[p] # Empty =>
          (Admits(place[n(p)], segs[n(p)]) <=> Suits(place[n(p)], path[p]))
    BY <1>1, <1>2, AdmitsSuits
  <2> QED BY <1>2, <2>1, <2>2
<1>4. Fitting(path, root) = {p \in Places(root, Len(segs)) : Fits(p, path)}
  BY <1>2 DEF Fitting, n
<1>5. {p \in Places(root, Len(segs)) : Fits(p, path)}
        = {p \in Places(root, Len(segs)) : \A i \in DOMAIN segs : Admits(p[i], segs[i])}
  BY <1>3
<1> QED BY <1>4, <1>5 DEF segs

\* Lookup finds the value at each place that fits the path, once.
LEMMA LookupLists ==
  ASSUME NEW root \in Values, NEW path \in Seq(Texts)
  PROVE  /\ Lookup(path, root) # {}
         /\ \A vals \in Lookup(path, root) :
              vals \in Seq(Values) /\ Lists(vals, ValuesAt(Fitting(path, root), root))
<1> DEFINE segs == ParsePath(path)
           N == Len(segs)
           T == SUBSET Seq(Values)
           L(n, x) == UNION {StepAll(vals, segs[n]) : vals \in x}
           round == [n \in 1 .. N |-> [x \in T |-> L(n, x)]]
           c == CHOOSE g : g = [n \in 0 .. N |-> IF n = 0 THEN {<<root>>} ELSE L(n, g[n - 1])]
<1>1. segs \in Seq(Segments)
  BY ParsePathType
<1>2. Lookup(path, root) = c[N]
  BY DEF Lookup
<1>3. Fitting(path, root) = {p \in Places(root, N) : \A i \in DOMAIN segs : Admits(p[i], segs[i])}
  BY FittingParsed
<1> HIDE DEF segs
<1>4. N \in Nat /\ DOMAIN segs = 1 .. N /\ \A n \in 1 .. N : segs[n] \in Segments
  BY <1>1
<1> HIDE DEF N
<1>5. ASSUME NEW n \in 1 .. N, NEW x \in T PROVE L(n, x) \in T
  <2>1. ASSUME NEW vals \in x PROVE StepAll(vals, segs[n]) \subseteq Seq(Values)
    BY <1>4, StepAllLists
  <2> QED BY <2>1
<1>6. {<<root>>} \in T
  OBVIOUS
<1> HIDE DEF L
<1>7. \E g : Iterates(g, N, T, {<<root>>}, round)
  <2>1. round \in [1 .. N -> [T -> T]]
    BY <1>5
  <2> HIDE DEF T, round
  <2> QED BY <1>4, <1>6, <2>1, Loop
<1>8. \E g : g = [n \in 0 .. N |-> IF n = 0 THEN {<<root>>} ELSE L(n, g[n - 1])]
  <2> HIDE DEF T
  <2>1. PICK g : Iterates(g, N, T, {<<root>>}, round)
    <3> HIDE DEF round
    <3> QED BY <1>7
  <2>2. \A n \in 1 .. N : g[n] = L(n, g[n - 1])
    <3> SUFFICES ASSUME NEW n \in 1 .. N PROVE g[n] = L(n, g[n - 1])
      OBVIOUS
    <3>1. n - 1 \in 0 .. N
      BY <1>4
    <3>2. g[n - 1] \in T /\ g[n] = round[n][g[n - 1]]
      <4> HIDE DEF round
      <4> QED BY <2>1, <3>1 DEF Iterates
    <3> QED BY <3>2
  <2>3. g \in [0 .. N -> T] /\ g[0] = {<<root>>}
    BY <2>1 DEF Iterates
  <2>4. \A n \in 0 .. N : n # 0 => n \in 1 .. N
    BY <1>4
  <2> QED BY <2>2, <2>3, <2>4
<1>9. c = [n \in 0 .. N |-> IF n = 0 THEN {<<root>>} ELSE L(n, c[n - 1])]
  BY <1>8
<1> HIDE DEF c
<1>10. c[0] = {<<root>>} /\ \A n \in 1 .. N : c[n] = L(n, c[n - 1])
  <2>1. 0 \in 0 .. N /\ \A n \in 1 .. N : n \in 0 .. N /\ n # 0
    BY <1>4
  <2> QED BY <1>9, <2>1
<1>11. PICK P : /\ Spreads(P, N, root)
                /\ Places(root, N) = P[N]
                /\ \A n \in 0 .. N : P[n] \subseteq Reach(root) /\ \A p \in P[n] : Len(p) = n
  BY <1>4, PlacesSpread
<1>12. P[0] = {<<>>} /\ \A n \in 1 .. N : P[n] = Further(root, P[n - 1])
  <2>1. 0 \in 0 .. N /\ \A n \in 1 .. N : n \in 0 .. N /\ n # 0
    BY <1>4
  <2> QED BY <1>11, <2>1 DEF Spreads
<1> DEFINE Fit(n) == {p \in P[n] : \A i \in 1 .. n : Admits(p[i], segs[i])}
           G == {n \in 0 .. N : /\ c[n] # {}
                                /\ \A t \in c[n] :
                                     t \in Seq(Values) /\ Lists(t, ValuesAt(Fit(n), root))}
<1>13. 0 \in G
  <2>1. Fit(0) = {<<>>}
    BY <1>12
  <2> DEFINE f == ValuesAt(Fit(0), root)
  <2>2. DOMAIN f = {<<>>} /\ f[<<>>] = root
    BY <2>1, ValueAtRoot DEF ValuesAt
  <2> HIDE DEF f
  <2>3. Lists(<<root>>, f)
    BY <2>2, ListsOne
  <2>4. <<root>> \in Seq(Values) /\ 0 \in 0 .. N
    BY <1>4
  <2> QED BY <1>10, <2>3, <2>4 DEF f
<1>14. ASSUME NEW n \in 1 .. N PROVE {q \in Further(root, Fit(n - 1)) : Admits(q[n], segs[n])} = Fit(n)
  <2> DEFINE A == {q \in Further(root, Fit(n - 1)) : Admits(q[n], segs[n])}
  <2>1. /\ n - 1 \in 0 .. N /\ n \in 1 .. n
        /\ \A i \in 1 .. n - 1 : i \in 1 .. n /\ i \in 1 .. (n - 1)
        /\ \A i \in 1 .. n : i = n \/ i \in 1 .. n - 1
    BY <1>4
  <2>2. P[n] = Further(root, P[n - 1]) /\ P[n - 1] \subseteq Reach(root)
    BY <1>11, <1>12, <2>1
  <2>3. ASSUME NEW p \in P[n - 1], NEW s \in Steps(ValueAt(p, root))
        PROVE  \A i \in 1 .. n - 1 : Append(p, s)[i] = p[i]
    <3>1. p \in Seq(Moves) /\ s \in Moves
      BY <2>2, FurtherReach
    <3>2. Len(p) = n - 1
      BY <1>11, <2>1
    <3> HIDE DEF Moves
    <3> QED BY <3>1, <3>2, AppendProperties
  <2>4. ASSUME NEW q \in A PROVE q \in Fit(n)
    <3>1. PICK p \in Fit(n - 1) : \E s \in Steps(ValueAt(p, root)) : q = Append(p, s)
      BY DEF Further
    <3>2. \A i \in 1 .. n - 1 : q[i] = p[i]
      BY <2>3, <3>1
    <3>3. q \in P[n]
      BY <2>2, <3>1 DEF Further
    <3>4. \A i \in 1 .. n - 1 : Admits(p[i], segs[i])
      BY <3>1
    <3>5. Admits(q[n], segs[n])
      OBVIOUS
    <3>6. \A i \in 1 .. n : Admits(q[i], segs[i])
      BY <2>1, <3>2, <3>4, <3>5
    <3> QED BY <3>3, <3>6
  <2>5. ASSUME NEW q \in Fit(n) PROVE q \in A
    <3>1. PICK p \in P[n - 1] : \E s \in Steps(ValueAt(p, root)) : q = Append(p, s)
      BY <2>2 DEF Further
    <3>2. \A i \in 1 .. n - 1 : q[i] = p[i]
      BY <2>3, <3>1
    <3>3. \A i \in 1 .. n - 1 : Admits(p[i], segs[i])
      BY <2>1, <3>2
    <3>4. p \in Fit(n - 1)
      BY <3>1, <3>3
    <3>5. q \in Further(root, Fit(n - 1))
      BY <3>1, <3>4 DEF Further
    <3> QED BY <2>1, <3>5
  <2> HIDE DEF A, Fit
  <2>6. A = Fit(n)
    BY <2>4, <2>5
  <2> QED BY <2>6 DEF A
<1>15. ASSUME NEW n \in 1 .. N, n - 1 \in G PROVE n \in G
  <2>1. n \in 0 .. N /\ n \in Nat /\ n - 1 \in 0 .. N /\ c[n] = L(n, c[n - 1]) /\ segs[n] \in Segments
    BY <1>4, <1>10
  <2> DEFINE R == Fit(n - 1)
  <2>2. /\ c[n - 1] # {}
        /\ \A t \in c[n - 1] : t \in Seq(Values) /\ Lists(t, ValuesAt(R, root))
    BY <1>15
  <2>3. R \in SUBSET Reach(root) /\ \A p \in R : Len(p) = n - 1
    BY <1>11, <2>1
  <2>4. {q \in Further(root, R) : Admits(q[n], segs[n])} = Fit(n)
    BY <1>14
  <2> HIDE DEF R, Fit, G, T
  <2>5. \A vals \in c[n - 1] : StepAll(vals, segs[n]) # {}
    BY <2>1, <2>2, StepAllLists
  <2>6. c[n] # {}
    BY <2>1, <2>2, <2>5 DEF L
  <2>7. ASSUME NEW t \in c[n] PROVE t \in Seq(Values) /\ Lists(t, ValuesAt(Fit(n), root))
    <3>1. PICK vals \in c[n - 1] : t \in StepAll(vals, segs[n])
      BY <2>1 DEF L
    <3>2. vals \in Seq(Values) /\ Lists(vals, ValuesAt(R, root))
      BY <2>2
    <3>3. t \in Seq(Values) /\ Lists(t, FoundBeneath(vals, segs[n], Len(vals)))
      BY <2>1, <3>1, <3>2, StepAllLists
    <3> DEFINE seg == segs[n]
    <3> HIDE DEF seg
    <3>4. Lists(t, ValuesAt({q \in Further(root, R) : Admits(q[n], seg)}, root))
      BY <2>1, <2>3, <3>2, <3>3, BeneathPlaces DEF seg
    <3> QED BY <2>4, <3>3, <3>4 DEF seg
  <2> QED BY <2>1, <2>6, <2>7 DEF G
<1>16. \A n \in 0 .. N : n \in G
  <2> HIDE DEF G
  <2> QED BY <1>4, <1>13, <1>15, Rounds
<1>17. N \in G
  BY <1>4, <1>16
<1>18. Fitting(path, root) = Fit(N)
  BY <1>3, <1>4, <1>11
<1> HIDE DEF Fit
<1> QED BY <1>2, <1>17, <1>18

-----------------------------------------------------------------------------
\* The leaf operators.

\* Every value has a text, and perhaps a number.
LEMMA TextAndNumber ==
  ASSUME NEW v \in Values
  PROVE  /\ Normalize(v) \in Texts
         /\ ToFloat(v) \in Int \cup {NaN, NoNumber}
<1>1. CASE v = Null
  BY <1>1, ComparisonAssumption DEF Null, Normalize, ToFloat
<1>2. CASE v.kind = "number" /\ v.num \in Int
  BY <1>2, ComparisonAssumption DEF Normalize, ToFloat
<1>3. CASE v.kind = "text" /\ v.text \in Texts
  BY <1>3, ComparisonAssumption DEF Normalize, ToFloat
<1>4. CASE v.kind \in {"bool", "list", "map"}
  BY <1>4, ComparisonAssumption DEF Normalize, ToFloat
<1> QED
  BY <1>1, <1>2, <1>3, <1>4, ComparisonAssumption

LEMMA CompareValues ==
  ASSUME NEW a \in Values, NEW b \in Values
  PROVE  Compare(a, b) \in {-1, 0, 1}
BY DEF Compare

\* compare decides the same whichever side a value is on, also where one pair of values
\* is compared as numbers and another as texts.
THEOREM Antisymmetric ==
  ASSUME NEW a \in Values, NEW b \in Values
  PROVE  Compare(a, b) = -Compare(b, a)
<1> DEFINE x == ToFloat(a)
           y == ToFloat(b)
           s == Normalize(a)
           t == Normalize(b)
<1>1. /\ x \in Int \cup {NaN, NoNumber} /\ y \in Int \cup {NaN, NoNumber}
      /\ s \in Texts /\ t \in Texts
  BY TextAndNumber
<1>2. CASE x # NoNumber /\ y # NoNumber
  <2>1. /\ Compare(a, b) = IF x = NaN \/ y = NaN THEN 0 ELSE IF x > y THEN 1 ELSE IF x < y THEN -1 ELSE 0
        /\ Compare(b, a) = IF y = NaN \/ x = NaN THEN 0 ELSE IF y > x THEN 1 ELSE IF y < x THEN -1 ELSE 0
    BY <1>2 DEF Compare
  <2> HIDE DEF x, y
  <2>2. CASE x = NaN \/ y = NaN
    BY <2>1, <2>2, SMT
  <2>3. CASE x # NaN /\ y # NaN
    <3>1. x \in Int /\ y \in Int
      BY <1>1, <1>2, <2>3
    <3> QED
      BY <2>1, <2>3, <3>1, SMT
  <2> QED
    BY <2>2, <2>3
<1>3. CASE ~(x # NoNumber /\ y # NoNumber)
  <2>1. /\ Compare(a, b) = IF Less(s, t) THEN -1 ELSE IF Less(t, s) THEN 1 ELSE 0
        /\ Compare(b, a) = IF Less(t, s) THEN -1 ELSE IF Less(s, t) THEN 1 ELSE 0
    BY <1>3 DEF Compare
  <2> HIDE DEF s, t
  <2>2. ~(Less(s, t) /\ Less(t, s))
    BY <1>1, ComparisonAssumption
  <2> QED
    BY <2>1, <2>2, SMT
<1> QED
  BY <1>2, <1>3

\* Equal texts have equal numbers, but for those that only one of them has: equal and
\* compare, which take different ways, do not contradict each other.
THEOREM EqualComparesEqual ==
  ASSUME NEW a \in Values, NEW b \in Values, Equal(a, b)
  PROVE  Compare(a, b) = 0
<1>1. /\ Normalize(a) \in Texts /\ Normalize(a) = Normalize(b)
      /\ ToFloat(a) \in Int \cup {NaN, NoNumber} /\ ToFloat(b) \in Int \cup {NaN, NoNumber}
  BY TextAndNumber DEF Equal
<1>2. ~Less(Normalize(a), Normalize(a))
  BY <1>1, ComparisonAssumption
<1>3. CASE ~(ToFloat(a) # NoNumber /\ ToFloat(b) # NoNumber)
  BY <1>1, <1>2, <1>3 DEF Compare
<1>4. CASE ToFloat(a) # NoNumber /\ ToFloat(b) # NoNumber
  <2>1. ASSUME NEW v \in Values, ToFloat(v) # NoNumber
        PROVE  ToFloat(v) = ParseFloat(Normalize(v))
    <3>1. v.kind \in {"number", "text"}
      BY <2>1, ComparisonAssumption DEF ToFloat, Null
    <3>2. CASE v.kind = "number"
      BY <3>2, ComparisonAssumption DEF ToFloat, Normalize
    <3>3. CASE v.kind = "text"
      BY <3>3 DEF ToFloat, Normalize
    <3> QED
      BY <3>1, <3>2, <3>3
  <2>2. ToFloat(a) = ToFloat(b)
    BY <1>1, <1>4, <2>1
  <2>3. CASE ToFloat(a) = NaN
    BY <1>4, <2>3 DEF Compare
  <2>4. CASE ToFloat(a) # NaN
    <3>1. ToFloat(a) \in Int
      BY <1>1, <1>4, <2>4
    <3>2. ~(ToFloat(a) > ToFloat(b)) /\ ~(ToFloat(a) < ToFloat(b))
      BY <2>2, <3>1, SMT
    <3> QED
      BY <1>4, <3>2 DEF Compare
  <2> QED
    BY <2>3, <2>4
<1> QED
  BY <1>3, <1>4

\* The operators agree whatever a path finds: ne is the contrary of eq also for many
\* values and for none, the four comparisons cover every value and for a single value
\* exclude each other, and in with a list is eq with one of its items.
THEOREM OperatorsAlwaysAgree ==
  ASSUME NEW vals \in Seq(Values), NEW value \in Values
  PROVE  Agreement(vals, value)
<1> DEFINE holds(op) == Leaf(op, vals, value)
<1>1. \A i \in DOMAIN vals : vals[i] \in Values
  BY SMT
<1>2. /\ holds("ne") <=> NoneEqual(vals, value)
      /\ holds("in") <=> In(vals, value)
      /\ holds("not_in") <=> ~In(vals, value)
  BY DEF Leaf, EvalCompare
<1>3. /\ holds("eq") <=> \E i \in DOMAIN vals : Equal(vals[i], value)
      /\ holds("gt") <=> \E i \in DOMAIN vals : Compare(vals[i], value) > 0
      /\ holds("gte") <=> \E i \in DOMAIN vals : Compare(vals[i], value) >= 0
      /\ holds("lt") <=> \E i \in DOMAIN vals : Compare(vals[i], value) < 0
      /\ holds("lte") <=> \E i \in DOMAIN vals : Compare(vals[i], value) <= 0
  BY DEF Leaf, EvalCompare, One
<1>4. \A i \in DOMAIN vals : Compare(vals[i], value) \in {-1, 0, 1}
  BY <1>1, CompareValues
<1>5. \A i \in DOMAIN vals : Equal(vals[i], value) => Compare(vals[i], value) = 0
  BY <1>1, EqualComparesEqual
<1>6. vals # <<>> => 1 \in DOMAIN vals
  BY SMT
<1>7. Len(vals) = 1 => DOMAIN vals = {1}
  BY SMT
<1> HIDE DEF holds
<1>8. holds("ne") <=> ~holds("eq")
  BY <1>2, <1>3 DEF NoneEqual
<1>9. holds("eq") => holds("gte") /\ holds("lte")
  BY <1>3, <1>5, SMT
<1>10. (holds("gt") => holds("gte")) /\ (holds("lt") => holds("lte"))
  BY <1>3, <1>4, SMT
<1>11. vals # <<>> => (holds("gt") \/ holds("lte")) /\ (holds("lt") \/ holds("gte"))
  BY <1>3, <1>4, <1>6, SMT
<1>12. Len(vals) = 1 => ~(holds("gt") /\ holds("lte")) /\ ~(holds("lt") /\ holds("gte"))
  BY <1>3, <1>4, <1>7, SMT
<1>13. value.kind = "list" => (holds("in") <=> \E j \in DOMAIN value.items : Leaf("eq", vals, value.items[j]))
  <2>1. \A w : Leaf("eq", vals, w) <=> \E i \in DOMAIN vals : Equal(vals[i], w)
    BY DEF Leaf, EvalCompare, One
  <2> QED BY <1>2, <2>1 DEF In
<1> QED
  BY <1>8, <1>9, <1>10, <1>11, <1>12, <1>13 DEF Agreement, holds

\* So it finds the values of these places and no others, each as often.
LEMMA LookupFinds ==
  ASSUME NEW root \in Values, NEW path \in Seq(Texts), NEW vals \in Lookup(path, root)
  PROVE  /\ vals \in Seq(Values)
         /\ \A i \in DOMAIN vals : vals[i] \in Found(path, root)
         /\ \A v \in Found(path, root) : \E i \in DOMAIN vals : vals[i] = v
<1>1. vals \in Seq(Values) /\ Lists(vals, ValuesAt(Fitting(path, root), root))
  BY LookupLists
<1> DEFINE F == Fitting(path, root)
           f == ValuesAt(F, root)
<1>2. DOMAIN f = F /\ \A p \in F : f[p] = ValueAt(p, root)
  BY DEF ValuesAt
<1>3. Found(path, root) = {ValueAt(p, root) : p \in F}
  BY DEF Found
<1>4. Lists(vals, f)
  BY <1>1
<1> HIDE DEF f, F
<1>5. PICK b \in [DOMAIN vals -> DOMAIN f] :
        /\ \A x \in DOMAIN f : \E i \in DOMAIN vals : b[i] = x
        /\ \A i \in DOMAIN vals : vals[i] = f[b[i]]
  BY <1>4 DEF Lists
<1>6. \A i \in DOMAIN vals : b[i] \in F /\ vals[i] = ValueAt(b[i], root)
  BY <1>2, <1>5
<1>7. \A i \in DOMAIN vals : vals[i] \in Found(path, root)
  BY <1>3, <1>6
<1>8. \A v \in Found(path, root) : \E i \in DOMAIN vals : vals[i] = v
  BY <1>2, <1>3, <1>5, <1>6
<1> QED BY <1>1, <1>7, <1>8

AsManyAsPlaces(v, vals, path, root) ==
  Cardinality({n \in DOMAIN vals : vals[n] = v})
    = Cardinality({place \in Fitting(path, root) : ValueAt(place, root) = v})

LEMMA LookupCounts ==
  ASSUME NEW root \in Values, NEW path \in Seq(Texts), NEW vals \in Lookup(path, root), NEW v
  PROVE  AsManyAsPlaces(v, vals, path, root)
<1>1. vals \in Seq(Values) /\ Lists(vals, ValuesAt(Fitting(path, root), root))
  BY LookupLists
<1> DEFINE F == Fitting(path, root)
           f == ValuesAt(F, root)
           A == {n \in DOMAIN vals : vals[n] = v}
           B == {p \in F : ValueAt(p, root) = v}
<1>2. DOMAIN f = F /\ \A p \in F : f[p] = ValueAt(p, root)
  BY DEF ValuesAt
<1>3. Lists(vals, f)
  BY <1>1
<1> HIDE DEF f, F
<1>4. PICK b \in [DOMAIN vals -> DOMAIN f] :
        /\ \A i, j \in DOMAIN vals : b[i] = b[j] => i = j
        /\ \A x \in DOMAIN f : \E i \in DOMAIN vals : b[i] = x
        /\ \A i \in DOMAIN vals : vals[i] = f[b[i]]
  BY <1>3 DEF Lists
<1> DEFINE c == [n \in A |-> b[n]]
<1>5. \A i \in DOMAIN vals : b[i] \in F /\ vals[i] = ValueAt(b[i], root)
  BY <1>2, <1>4
<1>6. c \in [A -> B] /\ \A n \in A : c[n] = b[n] /\ n \in DOMAIN vals
  BY <1>5
<1>7. \A i, j \in A : c[i] = c[j] => i = j
  BY <1>4, <1>6
<1>8. \A p \in B : \E n \in A : c[n] = p
  <2> SUFFICES ASSUME NEW p \in B PROVE \E n \in A : c[n] = p
    OBVIOUS
  <2>1. p \in F /\ ValueAt(p, root) = v
    OBVIOUS
  <2>2. PICK n \in DOMAIN vals : b[n] = p
    BY <1>2, <1>4, <2>1
  <2>3. n \in A
    BY <1>5, <2>1, <2>2
  <2> QED BY <2>2, <2>3
<1>9. IsFiniteSet(A)
  <2>1. DOMAIN vals = 1 .. Len(vals) /\ Len(vals) \in Nat
    BY <1>1
  <2>2. IsFiniteSet(DOMAIN vals)
    BY <2>1, FS_Interval
  <2> QED BY <2>2, FS_Subset
<1> HIDE DEF A, B, c
<1>10. ExistsBijection(A, B)
  BY <1>6, <1>7, <1>8 DEF ExistsBijection, Bijection, Injection, IsInjective, Surjection
<1>11. Cardinality(A) = Cardinality(B)
  BY <1>9, <1>10, FS_Bijection
<1> QED BY <1>11 DEF AsManyAsPlaces, A, B, F

-----------------------------------------------------------------------------
\* Conditions: the leaves.

IsGroup(c) == c.op \in {"and", "or", "not"}

LEMMA CompareMeans ==
  ASSUME NEW a \in Values, NEW b \in Values
  PROVE  /\ Compare(a, b) > 0 <=> Above(a, b)
         /\ Compare(a, b) < 0 <=> Above(b, a)
         /\ Compare(a, b) >= 0 <=> ~Above(b, a)
         /\ Compare(a, b) <= 0 <=> ~Above(a, b)
<1> DEFINE x == ToFloat(a)
           y == ToFloat(b)
           s == Normalize(a)
           t == Normalize(b)
<1>1. /\ x \in Int \cup {NaN, NoNumber} /\ y \in Int \cup {NaN, NoNumber}
      /\ s \in Texts /\ t \in Texts
  BY TextAndNumber
<1>2. CASE x # NoNumber /\ y # NoNumber
  <2>1. /\ Compare(a, b) = IF x = NaN \/ y = NaN THEN 0 ELSE IF x > y THEN 1 ELSE IF x < y THEN -1 ELSE 0
        /\ Above(a, b) <=> NaN \notin {x, y} /\ x > y
        /\ Above(b, a) <=> NaN \notin {y, x} /\ y > x
    BY <1>2 DEF Compare, Above
  <2> HIDE DEF x, y
  <2>2. CASE x = NaN \/ y = NaN
    <3>1. Compare(a, b) = 0 /\ ~Above(a, b) /\ ~Above(b, a)
      BY <2>1, <2>2
    <3> QED BY <3>1
  <2>3. CASE x # NaN /\ y # NaN
    <3>1. x \in Int /\ y \in Int
      BY <1>1, <1>2, <2>3
    <3>2. /\ Compare(a, b) = IF x > y THEN 1 ELSE IF x < y THEN -1 ELSE 0
          /\ Above(a, b) <=> x > y
          /\ Above(b, a) <=> y > x
      BY <2>1, <2>3
    <3> QED BY <3>1, <3>2, SMT
  <2> QED BY <2>2, <2>3
<1>3. CASE ~(x # NoNumber /\ y # NoNumber)
  <2>1. /\ Compare(a, b) = IF Less(s, t) THEN -1 ELSE IF Less(t, s) THEN 1 ELSE 0
        /\ Above(a, b) <=> Less(t, s)
        /\ Above(b, a) <=> Less(s, t)
    BY <1>3 DEF Compare, Above
  <2> HIDE DEF s, t
  <2>2. ~(Less(s, t) /\ Less(t, s))
    BY <1>1, ComparisonAssumption
  <2> QED BY <2>1, <2>2, SMT
<1> QED BY <1>2, <1>3

\* The loops over the values found are quantifiers over them.
LEMMA LeafSays ==
  ASSUME NEW c \in Conditions, ~IsGroup(c), c.op # "exists",
         c.op \in {"in", "not_in"} => c.value.kind # "text",
         NEW root \in Values, NEW vals \in Lookup(c.path, root)
  PROVE  Leaf(c.op, vals, c.value) <=> Says(c, root)
<1> DEFINE F == Found(c.path, root)
           w == c.value
<1>1. c.path \in Seq(Texts) /\ w \in Values
  BY EngineAssumption DEF IsGroup
<1>2. /\ vals \in Seq(Values)
      /\ \A i \in DOMAIN vals : vals[i] \in F
      /\ \A v \in F : \E i \in DOMAIN vals : vals[i] = v
  BY <1>1, LookupFinds
<1>3. \A v \in F : v \in Values
  BY <1>2
<1> HIDE DEF F
<1>4. CASE c.op = "eq"
  <2>1. Leaf(c.op, vals, w) <=> \E i \in DOMAIN vals : Equal(vals[i], w)
    BY <1>4 DEF Leaf, EvalCompare, One
  <2>2. Says(c, root) <=> \E v \in F : Equal(v, w)
    BY <1>4 DEF Says, F
  <2> HIDE DEF w
  <2> QED BY <1>2, <2>1, <2>2 DEF w
<1>5. CASE c.op = "ne"
  <2>1. Leaf(c.op, vals, w) <=> \A i \in DOMAIN vals : ~Equal(vals[i], w)
    BY <1>5 DEF Leaf, EvalCompare, NoneEqual
  <2>2. Says(c, root) <=> ~\E v \in F : Equal(v, w)
    BY <1>5 DEF Says, F
  <2> HIDE DEF w
  <2> QED BY <1>2, <2>1, <2>2 DEF w
<1>6. CASE c.op = "gt"
  <2>1. Leaf(c.op, vals, w) <=> \E i \in DOMAIN vals : Compare(vals[i], w) > 0
    BY <1>6 DEF Leaf, EvalCompare, One
  <2>2. Says(c, root) <=> \E v \in F : Above(v, w)
    BY <1>6 DEF Says, F
  <2> HIDE DEF w
  <2>3. \A v \in F : Compare(v, w) > 0 <=> Above(v, w)
    BY <1>1, <1>3, CompareMeans
  <2> QED BY <1>2, <2>1, <2>2, <2>3 DEF w
<1>7. CASE c.op = "gte"
  <2>1. Leaf(c.op, vals, w) <=> \E i \in DOMAIN vals : Compare(vals[i], w) >= 0
    BY <1>7 DEF Leaf, EvalCompare, One
  <2>2. Says(c, root) <=> \E v \in F : ~Above(w, v)
    BY <1>7 DEF Says, F
  <2> HIDE DEF w
  <2>3. \A v \in F : Compare(v, w) >= 0 <=> ~Above(w, v)
    BY <1>1, <1>3, CompareMeans
  <2> QED BY <1>2, <2>1, <2>2, <2>3 DEF w
<1>8. CASE c.op = "lt"
  <2>1. Leaf(c.op, vals, w) <=> \E i \in DOMAIN vals : Compare(vals[i], w) < 0
    BY <1>8 DEF Leaf, EvalCompare, One
  <2>2. Says(c, root) <=> \E v \in F : Above(w, v)
    BY <1>8 DEF Says, F
  <2> HIDE DEF w
  <2>3. \A v \in F : Compare(v, w) < 0 <=> Above(w, v)
    BY <1>1, <1>3, CompareMeans
  <2> QED BY <1>2, <2>1, <2>2, <2>3 DEF w
<1>9. CASE c.op = "lte"
  <2>1. Leaf(c.op, vals, w) <=> \E i \in DOMAIN vals : Compare(vals[i], w) <= 0
    BY <1>9 DEF Leaf, EvalCompare, One
  <2>2. Says(c, root) <=> \E v \in F : ~Above(v, w)
    BY <1>9 DEF Says, F
  <2> HIDE DEF w
  <2>3. \A v \in F : Compare(v, w) <= 0 <=> ~Above(v, w)
    BY <1>1, <1>3, CompareMeans
  <2> QED BY <1>2, <2>1, <2>2, <2>3 DEF w
<1>10. CASE c.op = "contains"
  <2>1. Leaf(c.op, vals, w) <=> \E i \in DOMAIN vals : Within(Sprint(w), Sprint(vals[i]))
    BY <1>10 DEF Leaf, EvalCompare, One
  <2>2. Says(c, root) <=> \E v \in F : Within(Sprint(w), Sprint(v))
    BY <1>10 DEF Says, F
  <2> HIDE DEF w
  <2> QED BY <1>2, <2>1, <2>2 DEF w
<1>11. w.kind = "list" => w.items \in Seq(Values) /\ ToSet(w.items) = {w.items[j] : j \in DOMAIN w.items}
  <2>1. w.kind = "list" => w.items \in Seq(Values)
    BY <1>1, EngineAssumption
  <2> QED BY <2>1 DEF ToSet
<1>12. w.kind # "text" => (In(vals, w) <=> \E v \in F : \E item \in Items(w) : Equal(v, item))
  <2> HIDE DEF w
  <2>1. CASE w.kind = "list"
    <3>1. In(vals, w) <=> \E i \in DOMAIN vals : \E j \in DOMAIN w.items : Equal(vals[i], w.items[j])
      BY <2>1 DEF In
    <3>2. (\E v \in F : \E item \in Items(w) : Equal(v, item))
            <=> \E v \in F : \E j \in DOMAIN w.items : Equal(v, w.items[j])
      BY <1>11, <2>1 DEF Items
    <3> QED BY <1>2, <2>1, <3>1, <3>2
  <2>2. CASE w.kind \notin {"list", "text"}
    BY <2>2 DEF In, Items
  <2> QED BY <2>1, <2>2
<1>13. CASE c.op = "in"
  <2>1. Leaf(c.op, vals, w) <=> In(vals, w)
    BY <1>13 DEF Leaf
  <2>2. Says(c, root) <=> \E v \in F : \E item \in Items(w) : Equal(v, item)
    BY <1>13 DEF Says, F
  <2>3. w.kind # "text"
    BY <1>13
  <2> HIDE DEF w
  <2> QED BY <1>12, <2>1, <2>2, <2>3 DEF w
<1>14. CASE c.op = "not_in"
  <2>1. Leaf(c.op, vals, w) <=> ~In(vals, w)
    BY <1>14 DEF Leaf
  <2>2. Says(c, root) <=> ~\E v \in F : \E item \in Items(w) : Equal(v, item)
    BY <1>14 DEF Says, F
  <2>3. w.kind # "text"
    BY <1>14
  <2> HIDE DEF w
  <2> QED BY <1>12, <2>1, <2>2, <2>3 DEF w
<1>15. CASE c.op = "regex"
  <2>1. Leaf(c.op, vals, w) <=> /\ w.kind = "text" /\ w.text # Empty /\ Compiles(w.text)
                                /\ \E i \in DOMAIN vals : Finds(w.text, Normalize(vals[i]))
    BY <1>15 DEF Leaf, RegexMatch
  <2>2. Says(c, root) <=> /\ w.kind = "text" /\ w.text # Empty /\ Compiles(w.text)
                          /\ \E v \in F : Finds(w.text, Normalize(v))
    BY <1>15 DEF Says, F
  <2> HIDE DEF w
  <2> QED BY <1>2, <2>1, <2>2 DEF w
<1>16. CASE c.op \notin {"eq", "ne", "gt", "gte", "lt", "lte", "contains", "in", "not_in", "regex"}
  <2>1. ~Leaf(c.op, vals, w)
    BY <1>16 DEF Leaf
  <2>2. ~Says(c, root)
    BY <1>16 DEF Says
  <2> QED BY <2>1, <2>2
<1> QED BY <1>4, <1>5, <1>6, <1>7, <1>8, <1>9, <1>10, <1>13, <1>14, <1>15, <1>16

\* Where exists meets no null, and in no text on its right, a leaf has one answer: what
\* it means.
LEMMA EvalLeafSays ==
  ASSUME NEW c \in Conditions, ~IsGroup(c), NEW root \in Values,
         c.op = "exists" => Null \notin Found(c.path, root),
         c.op \in {"in", "not_in"} => c.value.kind # "text"
  PROVE  EvalLeaf(c, root) = {Says(c, root)}
<1> DEFINE L == Lookup(c.path, root)
           F == Found(c.path, root)
<1>1. c.path \in Seq(Texts)
  BY EngineAssumption DEF IsGroup
<1>2. L # {}
  BY <1>1, LookupLists
<1>3. CASE c.op = "exists"
  <2>1. ASSUME NEW counted \in L, NEW first \in L
        PROVE  (Len(counted) > 0 /\ first # <<>> /\ first[1] # Null) <=> F # {}
    <3>1. /\ counted \in Seq(Values) /\ first \in Seq(Values)
          /\ \A i \in DOMAIN counted : counted[i] \in F
          /\ \A v \in F : \E i \in DOMAIN counted : counted[i] = v
          /\ \A i \in DOMAIN first : first[i] \in F
          /\ \A v \in F : \E i \in DOMAIN first : first[i] = v
      BY <1>1, LookupFinds
    <3>2. Null \notin F
      BY <1>3
    <3> HIDE DEF F, L
    <3>3. Len(counted) \in Nat /\ DOMAIN counted = 1 .. Len(counted)
      BY <3>1
    <3>4. Len(first) \in Nat /\ DOMAIN first = 1 .. Len(first) /\ (first # <<>> => 1 \in DOMAIN first)
      BY <3>1
    <3>5. CASE F = {}
      <4>1. ~(1 \in DOMAIN counted)
        BY <3>1, <3>5
      <4>2. ~(Len(counted) > 0)
        BY <3>3, <4>1
      <4> QED BY <3>5, <4>2
    <3>6. CASE F # {}
      <4>1. \E i \in DOMAIN counted : TRUE
        BY <3>1, <3>6
      <4>2. Len(counted) > 0
        BY <3>3, <4>1
      <4>3. \E i \in DOMAIN first : TRUE
        BY <3>1, <3>6
      <4>4. first # <<>>
        <5>1. DOMAIN <<>> = {}
          OBVIOUS
        <5> QED BY <4>3, <5>1
      <4>5. first[1] # Null
        BY <3>1, <3>2, <3>4, <4>4
      <4> QED BY <3>6, <4>2, <4>4, <4>5
    <3> QED BY <3>5, <3>6
  <2> DEFINE A(x, y) == Len(x) > 0 /\ y # <<>> /\ y[1] # Null
  <2>2. \A x \in L : \A y \in L : A(x, y) = Says(c, root)
    <3>1. Says(c, root) = (F # {})
      BY <1>3 DEF Says
    <3>2. \A x \in L : \A y \in L : A(x, y) <=> F # {}
      BY <2>1
    <3>3. \A x, y : A(x, y) \in BOOLEAN
      OBVIOUS
    <3> HIDE DEF A
    <3> QED BY <3>1, <3>2, <3>3
  <2>3. EvalLeaf(c, root) = {A(x, y) : x \in L, y \in L}
    BY <1>3 DEF EvalLeaf, Exists
  <2> HIDE DEF A, L
  <2>4. {A(x, y) : x \in L, y \in L} = {Says(c, root)}
    <3> DEFINE Z == {A(x, y) : x \in L, y \in L}
    <3>1. \A z \in Z : \E x \in L : \E y \in L : z = A(x, y)
      BY SMT
    <3>2. \A x \in L : \A y \in L : A(x, y) \in Z
      BY SMT
    <3> HIDE DEF Z
    <3>3. Z = {Says(c, root)}
      BY <1>2, <2>2, <3>1, <3>2
    <3> QED BY <3>3 DEF Z
  <2> QED BY <2>3, <2>4
<1>4. CASE c.op # "exists"
  <2> DEFINE A(vals) == Leaf(c.op, vals, c.value)
  <2>1. EvalLeaf(c, root) = {A(vals) : vals \in L}
    BY <1>4 DEF EvalLeaf
  <2>2. \A vals \in L : A(vals) = Says(c, root)
    <3>1. \A vals \in L : A(vals) <=> Says(c, root)
      BY <1>4, LeafSays
    <3>2. \A vals : A(vals) \in BOOLEAN
      BY DEF Leaf, EvalCompare, In, RegexMatch, NoneEqual
    <3>3. Says(c, root) \in BOOLEAN
      BY DEF Says
    <3> HIDE DEF A, L
    <3> QED BY <3>1, <3>2, <3>3
  <2> HIDE DEF A, L
  <2> QED BY <1>2, <2>1, <2>2
<1> QED BY <1>3, <1>4

LEMMA SaysType ==
  ASSUME NEW c, NEW root
  PROVE  Says(c, root) \in BOOLEAN
BY DEF Says

\* With a text on its right in has one answer too, if not the right one.
LEMMA EvalLeafDecided ==
  ASSUME NEW c \in Conditions, ~IsGroup(c), NEW root \in Values,
         c.op = "exists" => Null \notin Found(c.path, root)
  PROVE  \E b \in BOOLEAN : EvalLeaf(c, root) = {b}
<1> DEFINE L == Lookup(c.path, root)
<1>1. L # {}
  <2>1. c.path \in Seq(Texts)
    BY EngineAssumption DEF IsGroup
  <2> QED BY <2>1, LookupLists
<1>2. CASE c.op \in {"in", "not_in"} /\ c.value.kind = "text"
  <2> DEFINE A(vals) == Leaf(c.op, vals, c.value)
             b == (c.op = "not_in")
  <2>1. \A vals : A(vals) = b
    BY <1>2 DEF Leaf, In
  <2>2. EvalLeaf(c, root) = {A(vals) : vals \in L}
    BY <1>2 DEF EvalLeaf
  <2>3. b \in BOOLEAN
    OBVIOUS
  <2> HIDE DEF A, L, b
  <2>4. {A(vals) : vals \in L} = {b}
    BY <1>1, <2>1
  <2> QED BY <2>2, <2>3, <2>4
<1>3. CASE ~(c.op \in {"in", "not_in"} /\ c.value.kind = "text")
  BY <1>3, EvalLeafSays, SaysType
<1> QED BY <1>2, <1>3

LEMMA EvalLeafType ==
  ASSUME NEW c, NEW root
  PROVE  EvalLeaf(c, root) \subseteq BOOLEAN
<1> DEFINE L == Lookup(c.path, root)
           A(x, y) == Len(x) > 0 /\ y # <<>> /\ y[1] # Null
           B(vals) == Leaf(c.op, vals, c.value)
<1>1. EvalLeaf(c, root) = IF c.op = "exists" THEN {A(x, y) : x \in L, y \in L} ELSE {B(vals) : vals \in L}
  BY DEF EvalLeaf, Exists
<1>2. \A x, y : A(x, y) \in BOOLEAN
  OBVIOUS
<1>3. \A vals : B(vals) \in BOOLEAN
  BY DEF Leaf, EvalCompare, In, RegexMatch, NoneEqual
<1> HIDE DEF A, B, L
<1>4. {A(x, y) : x \in L, y \in L} \subseteq BOOLEAN
  BY <1>2, SMT
<1>5. {B(vals) : vals \in L} \subseteq BOOLEAN
  BY <1>3
<1> QED BY <1>1, <1>4, <1>5

-----------------------------------------------------------------------------
\* Conditions: the groups.

\* A member of a group is less deep than the group.
LEMMA PartsLessDeep ==
  ASSUME NEW x \in Conditions, IsGroup(x), NEW i \in DOMAIN x.children
  PROVE  x.children[i] \in Conditions /\ Depth(x.children[i]) < Depth(x)
<1>1. x.children \in Seq(Conditions) /\ \A j \in DOMAIN x.children : Depth(x.children[j]) < Depth(x)
  BY EngineAssumption DEF IsGroup
<1>2. x.children[i] \in Conditions
  <2> DEFINE s == x.children
  <2> HIDE DEF s
  <2>1. s \in Seq(Conditions) /\ i \in DOMAIN s => s[i] \in Conditions
    OBVIOUS
  <2> QED BY <1>1, <2>1 DEF s
<1> QED BY <1>1, <1>2

Deep == [c \in Conditions |-> Depth(c)]

LEMMA DeepType == Deep \in [Conditions -> Nat] /\ \A c \in Conditions : Deep[c] = Depth(c)
BY EngineAssumption DEF Deep

\* The body of Verdicts, of Holds and of Leaves.
May(f, x, b) == {i \in DOMAIN x.children : b \in f[x.children[i]]}

Answer(f, x, root) ==
  LET every(b) == May(f, x, b) = DOMAIN x.children IN
  CASE x.op = "and" -> {b \in BOOLEAN : IF b THEN every(TRUE) ELSE May(f, x, FALSE) # {}}
    [] x.op = "or"  -> {b \in BOOLEAN : IF b THEN May(f, x, TRUE) # {} ELSE every(FALSE)}
    [] x.op = "not" -> {b \in BOOLEAN : IF b THEN every(FALSE) ELSE May(f, x, TRUE) # {}}
    [] x.op \notin {"and", "or", "not"} -> EvalLeaf(x, root)

Truth(f, x, root) ==
  CASE x.op = "and" -> \A i \in DOMAIN x.children : f[x.children[i]]
    [] x.op = "or"  -> \E i \in DOMAIN x.children : f[x.children[i]]
    [] x.op = "not" -> ~\E i \in DOMAIN x.children : f[x.children[i]]
    [] x.op \notin {"and", "or", "not"} -> Says(x, root)

Ends(f, x) ==
  IF x.op \in {"and", "or", "not"}
  THEN UNION {f[x.children[i]] : i \in DOMAIN x.children}
  ELSE {x}

LEMMA VerdictsRecursive ==
  ASSUME NEW root
  PROVE  \E f \in [Conditions -> SUBSET BOOLEAN] :
           \A x \in Conditions : f[x] = Answer(f, x, root) /\ Verdicts(x, root) = f[x]
<1> DEFINE T == SUBSET BOOLEAN
           B == [f \in [Conditions -> T] |-> [x \in Conditions |-> Answer(f, x, root)]]
           v == CHOOSE g : g = [x \in Conditions |-> Answer(g, x, root)]
<1>1. ASSUME NEW f, NEW x \in Conditions PROVE Answer(f, x, root) \in T
  <2>1. CASE IsGroup(x)
    BY <2>1 DEF Answer, IsGroup
  <2>2. CASE ~IsGroup(x)
    BY <2>2, EvalLeafType DEF Answer, IsGroup
  <2> QED BY <2>1, <2>2
<1>2. ASSUME NEW f \in [Conditions -> T], NEW g \in [Conditions -> T], NEW x \in Conditions,
             \A y \in Conditions : Deep[y] < Deep[x] => f[y] = g[y]
      PROVE  Answer(f, x, root) = Answer(g, x, root)
  <2>1. CASE IsGroup(x)
    <3>1. \A i \in DOMAIN x.children : f[x.children[i]] = g[x.children[i]]
      BY <1>2, <2>1, PartsLessDeep, DeepType
    <3>2. May(f, x, TRUE) = May(g, x, TRUE) /\ May(f, x, FALSE) = May(g, x, FALSE)
      BY <3>1 DEF May
    <3> QED BY <2>1, <3>2 DEF Answer, IsGroup
  <2>2. CASE ~IsGroup(x)
    BY <2>2 DEF Answer, IsGroup
  <2> QED BY <2>1, <2>2
<1> HIDE DEF T
<1>3. T # {}
  BY DEF T
<1>4. Descends(Conditions, T, Deep, B)
  <2>1. B \in [[Conditions -> T] -> [Conditions -> T]]
    BY <1>1
  <2>2. ASSUME NEW f \in [Conditions -> T], NEW g \in [Conditions -> T], NEW x \in Conditions,
               \A y \in Conditions : Deep[y] < Deep[x] => f[y] = g[y]
        PROVE  B[f][x] = B[g][x]
    BY <1>2, <2>2
  <2> HIDE DEF B
  <2> QED BY <1>3, <2>1, <2>2, DeepType DEF Descends
<1>5. \E f \in [Conditions -> T] : f = B[f]
  <2> HIDE DEF B
  <2> QED BY <1>4, Recursion
<1>6. \E g : g = [x \in Conditions |-> Answer(g, x, root)]
  BY <1>5
<1>7. v = [x \in Conditions |-> Answer(v, x, root)]
  BY <1>6
<1>8. \A c : Verdicts(c, root) = v[c]
  BY DEF Verdicts, Answer, May
<1> HIDE DEF v
<1>9. v \in [Conditions -> T] /\ \A x \in Conditions : v[x] = Answer(v, x, root)
  BY <1>1, <1>7
<1> QED BY <1>8, <1>9 DEF T

\* The recursion of Holds, and that of Leaves.
LEMMA HoldsRecursive ==
  ASSUME NEW root
  PROVE  \E f \in [Conditions -> BOOLEAN] :
           \A x \in Conditions : f[x] = Truth(f, x, root) /\ Holds(x, root) = f[x]
<1> DEFINE B == [f \in [Conditions -> BOOLEAN] |-> [x \in Conditions |-> Truth(f, x, root)]]
           v == CHOOSE g : g = [x \in Conditions |-> Truth(g, x, root)]
<1>1. ASSUME NEW f, NEW x \in Conditions PROVE Truth(f, x, root) \in BOOLEAN
  BY SaysType DEF Truth
<1>2. ASSUME NEW f \in [Conditions -> BOOLEAN], NEW g \in [Conditions -> BOOLEAN], NEW x \in Conditions,
             \A y \in Conditions : Deep[y] < Deep[x] => f[y] = g[y]
      PROVE  Truth(f, x, root) = Truth(g, x, root)
  <2>1. CASE IsGroup(x)
    <3>1. \A i \in DOMAIN x.children : f[x.children[i]] = g[x.children[i]]
      BY <1>2, <2>1, PartsLessDeep, DeepType
    <3> QED BY <2>1, <3>1 DEF Truth, IsGroup
  <2>2. CASE ~IsGroup(x)
    BY <2>2 DEF Truth, IsGroup
  <2> QED BY <2>1, <2>2
<1>3. Descends(Conditions, BOOLEAN, Deep, B)
  <2>1. B \in [[Conditions -> BOOLEAN] -> [Conditions -> BOOLEAN]]
    BY <1>1
  <2>2. ASSUME NEW f \in [Conditions -> BOOLEAN], NEW g \in [Conditions -> BOOLEAN], NEW x \in Conditions,
               \A y \in Conditions : Deep[y] < Deep[x] => f[y] = g[y]
        PROVE  B[f][x] = B[g][x]
    BY <1>2, <2>2
  <2> HIDE DEF B
  <2> QED BY <2>1, <2>2, DeepType DEF Descends
<1>4. \E f \in [Conditions -> BOOLEAN] : f = B[f]
  <2> HIDE DEF B
  <2> QED BY <1>3, Recursion
<1>5. \E g : g = [x \in Conditions |-> Truth(g, x, root)]
  BY <1>4
<1>6. v = [x \in Conditions |-> Truth(v, x, root)]
  BY <1>5
<1>7. \A c : Holds(c, root) = v[c]
  BY DEF Holds, Truth
<1> HIDE DEF v
<1>8. v \in [Conditions -> BOOLEAN] /\ \A x \in Conditions : v[x] = Truth(v, x, root)
  BY <1>1, <1>6
<1> QED BY <1>7, <1>8

LEMMA LeavesRecursive ==
  /\ \A x \in Conditions : ~IsGroup(x) => Leaves(x) = {x}
  /\ \A x \in Conditions : IsGroup(x) =>
       Leaves(x) = UNION {Leaves(x.children[i]) : i \in DOMAIN x.children}
<1> DEFINE T == SUBSET Conditions
           B == [f \in [Conditions -> T] |-> [x \in Conditions |-> Ends(f, x)]]
           v == CHOOSE g : g = [x \in Conditions |-> Ends(g, x)]
<1>1. ASSUME NEW f \in [Conditions -> T], NEW x \in Conditions PROVE Ends(f, x) \in T
  <2>1. CASE IsGroup(x)
    <3>1. \A i \in DOMAIN x.children : f[x.children[i]] \in T
      BY <2>1, PartsLessDeep
    <3> QED BY <2>1, <3>1 DEF Ends, IsGroup
  <2>2. CASE ~IsGroup(x)
    BY <2>2 DEF Ends, IsGroup
  <2> QED BY <2>1, <2>2
<1>2. ASSUME NEW f \in [Conditions -> T], NEW g \in [Conditions -> T], NEW x \in Conditions,
             \A y \in Conditions : Deep[y] < Deep[x] => f[y] = g[y]
      PROVE  Ends(f, x) = Ends(g, x)
  <2>1. CASE IsGroup(x)
    <3>1. \A i \in DOMAIN x.children : f[x.children[i]] = g[x.children[i]]
      BY <1>2, <2>1, PartsLessDeep, DeepType
    <3> QED BY <2>1, <3>1 DEF Ends, IsGroup
  <2>2. CASE ~IsGroup(x)
    BY <2>2 DEF Ends, IsGroup
  <2> QED BY <2>1, <2>2
<1> HIDE DEF T
<1>3. T # {}
  BY DEF T
<1>4. Descends(Conditions, T, Deep, B)
  <2>1. B \in [[Conditions -> T] -> [Conditions -> T]]
    BY <1>1
  <2>2. ASSUME NEW f \in [Conditions -> T], NEW g \in [Conditions -> T], NEW x \in Conditions,
               \A y \in Conditions : Deep[y] < Deep[x] => f[y] = g[y]
        PROVE  B[f][x] = B[g][x]
    BY <1>2, <2>2
  <2> HIDE DEF B
  <2> QED BY <1>3, <2>1, <2>2, DeepType DEF Descends
<1>5. \E f \in [Conditions -> T] : f = B[f]
  <2> HIDE DEF B
  <2> QED BY <1>4, Recursion
<1>6. \E g : g = [x \in Conditions |-> Ends(g, x)]
  BY <1>5
<1>7. v = [x \in Conditions |-> Ends(v, x)]
  BY <1>6
<1>8. \A c : Leaves(c) = v[c]
  BY DEF Leaves, Ends
<1> HIDE DEF v
<1>9. \A x \in Conditions : Leaves(x) = Ends(v, x)
  BY <1>7, <1>8
<1>10. \A x \in Conditions : ~IsGroup(x) => Leaves(x) = {x}
  BY <1>9 DEF Ends, IsGroup
<1>11. ASSUME NEW x \in Conditions, IsGroup(x)
       PROVE  Leaves(x) = UNION {Leaves(x.children[i]) : i \in DOMAIN x.children}
  <2>1. Leaves(x) = UNION {v[x.children[i]] : i \in DOMAIN x.children}
    BY <1>9, <1>11 DEF Ends, IsGroup
  <2> QED BY <1>8, <2>1
<1> QED BY <1>10, <1>11

\* The leaves of a condition are conditions.
LEMMA LeavesType ==
  \A x \in Conditions : \A c \in Leaves(x) : c \in Conditions /\ ~IsGroup(c)
<1> DEFINE G == {x \in Conditions : \A c \in Leaves(x) : c \in Conditions /\ ~IsGroup(c)}
<1>1. ASSUME NEW x \in Conditions, \A y \in Conditions : Deep[y] < Deep[x] => y \in G
      PROVE  x \in G
  <2>1. CASE IsGroup(x)
    <3>1. \A i \in DOMAIN x.children : x.children[i] \in G
      BY <1>1, <2>1, PartsLessDeep, DeepType
    <3>2. \A c \in Leaves(x) : \E i \in DOMAIN x.children : c \in Leaves(x.children[i])
      BY <2>1, LeavesRecursive
    <3> QED BY <3>1, <3>2
  <2>2. CASE ~IsGroup(x)
    BY <2>2, LeavesRecursive
  <2> QED BY <2>1, <2>2
<1> HIDE DEF G
<1>2. \A x \in Conditions : x \in G
  BY <1>1, Descent, DeepType
<1> QED BY <1>2 DEF G

\* Where exists meets no null, Eval has one answer: the members of a group have one each.
LEMMA VerdictsDecided ==
  ASSUME NEW root \in Values, NEW c \in Conditions,
         \A x \in Leaves(c) : x.op = "exists" => Null \notin Found(x.path, root)
  PROVE  \E b \in BOOLEAN : Verdicts(c, root) = {b}
<1>1. PICK f \in [Conditions -> SUBSET BOOLEAN] :
        \A x \in Conditions : f[x] = Answer(f, x, root) /\ Verdicts(x, root) = f[x]
  BY VerdictsRecursive
<1> DEFINE Fine(x) == \A y \in Leaves(x) : y.op = "exists" => Null \notin Found(y.path, root)
           One1(x) == \E b \in BOOLEAN : f[x] = {b}
           G == {x \in Conditions : Fine(x) => One1(x)}
<1>2. ASSUME NEW x \in Conditions, \A y \in Conditions : Deep[y] < Deep[x] => y \in G
      PROVE  x \in G
  <2>1. SUFFICES ASSUME Fine(x) PROVE One1(x)
    OBVIOUS
  <2>2. CASE ~IsGroup(x)
    <3>1. x.op = "exists" => Null \notin Found(x.path, root)
      BY <2>1, <2>2, LeavesRecursive
    <3>2. \E b \in BOOLEAN : EvalLeaf(x, root) = {b}
      BY <2>2, <3>1, EvalLeafDecided
    <3>3. f[x] = EvalLeaf(x, root)
      BY <1>1, <2>2 DEF Answer, IsGroup
    <3> QED BY <3>2, <3>3
  <2>3. CASE IsGroup(x)
    <3> DEFINE D == DOMAIN x.children
               k(i) == x.children[i]
    <3>1. ASSUME NEW i \in D PROVE f[k(i)] = {TRUE} \/ f[k(i)] = {FALSE}
      <4>1. k(i) \in Conditions /\ Deep[k(i)] < Deep[x]
        BY <2>3, PartsLessDeep, DeepType
      <4>2. k(i) \in G
        BY <1>2, <4>1
      <4>3. Leaves(k(i)) \subseteq Leaves(x)
        BY <2>3, LeavesRecursive
      <4>4. Fine(k(i))
        BY <2>1, <4>3
      <4>5. One1(k(i))
        BY <4>2, <4>4
      <4> QED BY <4>5
    <3> DEFINE yes == May(f, x, TRUE)
               no == May(f, x, FALSE)
    <3>2. yes = D \ no /\ no \subseteq D
      <4> HIDE DEF k, D, G, Fine, One1
      <4>1. \A b : May(f, x, b) = {i \in D : b \in f[k(i)]}
        BY DEF May, D, k
      <4>2. \A i \in D : TRUE \in f[k(i)] <=> ~(FALSE \in f[k(i)])
        BY <3>1
      <4> QED BY <4>1, <4>2
    <3>3. f[x] = Answer(f, x, root)
      BY <1>1
    <3> HIDE DEF G, Fine, D, yes, no
    <3>4. CASE x.op = "and"
      <4>1. f[x] = {b \in BOOLEAN : IF b THEN yes = D ELSE no # {}}
        BY <3>3, <3>4 DEF Answer, D, yes, no
      <4>2. f[x] = {no = {}}
        BY <3>2, <4>1
      <4> QED BY <4>2
    <3>5. CASE x.op = "or"
      <4>1. f[x] = {b \in BOOLEAN : IF b THEN yes # {} ELSE no = D}
        BY <3>3, <3>5 DEF Answer, D, yes, no
      <4>2. f[x] = {no # D}
        BY <3>2, <4>1
      <4> QED BY <4>2
    <3>6. CASE x.op = "not"
      <4>1. f[x] = {b \in BOOLEAN : IF b THEN no = D ELSE yes # {}}
        BY <3>3, <3>6 DEF Answer, D, yes, no
      <4>2. f[x] = {no = D}
        BY <3>2, <4>1
      <4> QED BY <4>2
    <3> QED BY <2>3, <3>4, <3>5, <3>6 DEF IsGroup
  <2> QED BY <2>2, <2>3
<1> HIDE DEF G
<1>3. \A x \in Conditions : x \in G
  BY <1>2, Descent, DeepType
<1>4. One1(c)
  BY <1>3 DEF G
<1> QED BY <1>1, <1>4

\* Where, besides, in meets no text on its right, it is what the condition means:
\* it does not matter where the loops over the members of a group stop.
LEMMA VerdictsExact ==
  ASSUME NEW root \in Values, NEW c \in Conditions,
         \A x \in Leaves(c) : /\ x.op = "exists" => Null \notin Found(x.path, root)
                              /\ x.op \in {"in", "not_in"} => x.value.kind # "text"
  PROVE  Verdicts(c, root) = {Holds(c, root)} /\ Holds(c, root) \in BOOLEAN
<1>1. PICK f \in [Conditions -> SUBSET BOOLEAN] :
        \A x \in Conditions : f[x] = Answer(f, x, root) /\ Verdicts(x, root) = f[x]
  BY VerdictsRecursive
<1>2. PICK h \in [Conditions -> BOOLEAN] :
        \A x \in Conditions : h[x] = Truth(h, x, root) /\ Holds(x, root) = h[x]
  BY HoldsRecursive
<1> DEFINE Fine(x) == \A y \in Leaves(x) : /\ y.op = "exists" => Null \notin Found(y.path, root)
                                           /\ y.op \in {"in", "not_in"} => y.value.kind # "text"
           G == {x \in Conditions : Fine(x) => f[x] = {h[x]}}
<1>3. ASSUME NEW x \in Conditions, \A y \in Conditions : Deep[y] < Deep[x] => y \in G
      PROVE  x \in G
  <2>1. SUFFICES ASSUME Fine(x) PROVE f[x] = {h[x]}
    OBVIOUS
  <2>2. CASE ~IsGroup(x)
    <3>1. /\ x.op = "exists" => Null \notin Found(x.path, root)
          /\ x.op \in {"in", "not_in"} => x.value.kind # "text"
      BY <2>1, <2>2, LeavesRecursive
    <3>2. EvalLeaf(x, root) = {Says(x, root)}
      BY <2>2, <3>1, EvalLeafSays
    <3>3. f[x] = EvalLeaf(x, root)
      BY <1>1, <2>2 DEF Answer, IsGroup
    <3>4. h[x] = Says(x, root)
      BY <1>2, <2>2 DEF Truth, IsGroup
    <3> QED BY <3>2, <3>3, <3>4
  <2>3. CASE IsGroup(x)
    <3> DEFINE D == DOMAIN x.children
               k(i) == x.children[i]
    <3>1. ASSUME NEW i \in D PROVE k(i) \in Conditions /\ f[k(i)] = {h[k(i)]} /\ h[k(i)] \in BOOLEAN
      <4>1. k(i) \in Conditions /\ Deep[k(i)] < Deep[x]
        BY <2>3, PartsLessDeep, DeepType
      <4>2. k(i) \in G
        BY <1>3, <4>1
      <4>3. Leaves(k(i)) \subseteq Leaves(x)
        BY <2>3, LeavesRecursive
      <4>4. Fine(k(i))
        BY <2>1, <4>3
      <4> QED BY <4>1, <4>2, <4>4
    <3>2. /\ May(f, x, TRUE) = {i \in D : h[k(i)]}
          /\ May(f, x, FALSE) = {i \in D : ~h[k(i)]}
      <4> HIDE DEF k, D, G, Fine
      <4>1. \A b : May(f, x, b) = {i \in D : b \in f[k(i)]}
        BY DEF May, D, k
      <4>2. \A i \in D : (TRUE \in f[k(i)] <=> h[k(i)]) /\ (FALSE \in f[k(i)] <=> ~h[k(i)])
        BY <3>1
      <4> QED BY <4>1, <4>2
    <3>3. h[x] \in BOOLEAN /\ h[x] = Truth(h, x, root) /\ f[x] = Answer(f, x, root)
      BY <1>1, <1>2
    <3> HIDE DEF G, Fine
    <3>4. CASE x.op = "and"
      <4>1. h[x] <=> \A i \in D : h[k(i)]
        BY <3>3, <3>4 DEF Truth
      <4>2. f[x] = {b \in BOOLEAN : IF b THEN May(f, x, TRUE) = D ELSE May(f, x, FALSE) # {}}
        BY <3>3, <3>4 DEF Answer
      <4>3. May(f, x, TRUE) = D <=> h[x]
        BY <3>2, <4>1
      <4>4. May(f, x, FALSE) # {} <=> ~h[x]
        BY <3>2, <4>1
      <4> QED BY <3>3, <4>2, <4>3, <4>4
    <3>5. CASE x.op = "or"
      <4>1. h[x] <=> \E i \in D : h[k(i)]
        BY <3>3, <3>5 DEF Truth
      <4>2. f[x] = {b \in BOOLEAN : IF b THEN May(f, x, TRUE) # {} ELSE May(f, x, FALSE) = D}
        BY <3>3, <3>5 DEF Answer
      <4>3. May(f, x, TRUE) # {} <=> h[x]
        BY <3>2, <4>1
      <4>4. May(f, x, FALSE) = D <=> ~h[x]
        BY <3>2, <4>1
      <4> QED BY <3>3, <4>2, <4>3, <4>4
    <3>6. CASE x.op = "not"
      <4>1. h[x] <=> ~\E i \in D : h[k(i)]
        BY <3>3, <3>6 DEF Truth
      <4>2. f[x] = {b \in BOOLEAN : IF b THEN May(f, x, FALSE) = D ELSE May(f, x, TRUE) # {}}
        BY <3>3, <3>6 DEF Answer
      <4>3. May(f, x, FALSE) = D <=> h[x]
        BY <3>2, <4>1
      <4>4. May(f, x, TRUE) # {} <=> ~h[x]
        BY <3>2, <4>1
      <4> QED BY <3>3, <4>2, <4>3, <4>4
    <3> QED BY <2>3, <3>4, <3>5, <3>6 DEF IsGroup
  <2> QED BY <2>2, <2>3
<1> HIDE DEF G
<1>4. \A x \in Conditions : x \in G
  BY <1>3, Descent, DeepType
<1>5. f[c] = {h[c]}
  BY <1>4 DEF G
<1> QED BY <1>1, <1>2, <1>5

LEMMA VerdictsType ==
  ASSUME NEW root, NEW c \in Conditions
  PROVE  Verdicts(c, root) \subseteq BOOLEAN
BY VerdictsRecursive

-----------------------------------------------------------------------------
\* Targets.

Ids == Nat \ {0}

NoRepeats(s) == \A i, j \in DOMAIN s : s[i] = s[j] => i = j

\* r has what is in out, in the same places, and then what is new of X, once.
Adds(r, out, X) ==
  /\ r \in Seq(Ids)
  /\ NoRepeats(r)
  /\ Len(out) <= Len(r)
  /\ \A i \in 1 .. Len(out) : r[i] = out[i]
  /\ ToSet(r) = ToSet(out) \cup X

LEMMA AddOne ==
  ASSUME NEW out \in Seq(Ids), NEW X, NEW x, NEW id \in Ids, Adds(x, out, X)
  PROVE  Adds(IF id \in ToSet(x) THEN x ELSE Append(x, id), out, X \cup {id})
<1>1. /\ x \in Seq(Ids) /\ NoRepeats(x) /\ Len(out) <= Len(x)
      /\ \A i \in 1 .. Len(out) : x[i] = out[i]
      /\ ToSet(x) = ToSet(out) \cup X
  BY DEF Adds
<1>2. CASE id \in ToSet(x)
  BY <1>1, <1>2 DEF Adds
<1>3. CASE id \notin ToSet(x)
  <2> DEFINE y == Append(x, id)
             N == Len(x)
  <2>1. /\ N \in Nat /\ DOMAIN x = 1 .. N /\ Len(out) \in Nat
        /\ y \in Seq(Ids) /\ Len(y) = N + 1 /\ DOMAIN y = 1 .. N + 1
        /\ \A i \in 1 .. N : y[i] = x[i]
        /\ y[N + 1] = id
    BY <1>1
  <2> HIDE DEF y
  <2>2. \A i \in 1 .. N + 1 : i \in 1 .. N \/ i = N + 1
    BY <2>1
  <2>3. ToSet(x) = {x[i] : i \in 1 .. N} /\ ToSet(y) = {y[i] : i \in 1 .. N + 1}
    BY <2>1 DEF ToSet
  <2>4. ToSet(y) = ToSet(x) \cup {id}
    <3>1. \A i \in 1 .. N : i \in 1 .. N + 1
      BY <2>1
    <3>2. N + 1 \in 1 .. N + 1
      BY <2>1
    <3> HIDE DEF N
    <3> QED BY <2>1, <2>2, <2>3, <3>1, <3>2
  <2>5. NoRepeats(y)
    <3> SUFFICES ASSUME NEW i \in 1 .. N + 1, NEW j \in 1 .. N + 1, y[i] = y[j] PROVE i = j
      BY <2>1 DEF NoRepeats
    <3>1. \A k \in 1 .. N : y[k] # id
      BY <1>3, <2>1, <2>3
    <3>2. CASE i \in 1 .. N /\ j \in 1 .. N
      BY <1>1, <2>1, <3>2 DEF NoRepeats
    <3> QED BY <2>1, <2>2, <3>1, <3>2
  <2>6. Len(out) <= Len(y) /\ \A i \in 1 .. Len(out) : y[i] = out[i]
    <3>1. \A i \in 1 .. Len(out) : i \in 1 .. N
      BY <1>1, <2>1
    <3>2. Len(out) <= N + 1
      BY <1>1, <2>1
    <3> QED BY <1>1, <2>1, <3>1, <3>2
  <2>7. Adds(y, out, X \cup {id})
    BY <1>1, <2>1, <2>4, <2>5, <2>6 DEF Adds
  <2> QED BY <1>3, <2>7 DEF y
<1> QED BY <1>2, <1>3

\* The loop with seen.
LEMMA AddNewAdds ==
  ASSUME NEW out \in Seq(Ids), NoRepeats(out), NEW ids \in Seq(Ids)
  PROVE  Adds(AddNew(out, ids), out, ToSet(ids))
<1> DEFINE N == Len(ids)
           T == Seq(Ids)
           R(n, x) == IF ids[n] \in ToSet(x) THEN x ELSE Append(x, ids[n])
           round == [n \in 1 .. N |-> [x \in T |-> R(n, x)]]
           c == CHOOSE g : g = [n \in 0 .. N |-> IF n = 0 THEN out ELSE R(n, g[n - 1])]
           first(n) == {ids[i] : i \in 1 .. n}
<1>1. N \in Nat /\ DOMAIN ids = 1 .. N /\ \A n \in 1 .. N : ids[n] \in Ids
  OBVIOUS
<1>2. AddNew(out, ids) = c[N]
  BY DEF AddNew
<1>3. ToSet(ids) = first(N)
  BY <1>1 DEF ToSet
<1> HIDE DEF N
<1>4. ASSUME NEW n \in 1 .. N, NEW x \in T PROVE R(n, x) \in T
  <2> DEFINE id == ids[n]
  <2>1. id \in Ids
    BY <1>1
  <2> HIDE DEF id
  <2>2. x \in Seq(Ids) /\ Append(x, id) \in Seq(Ids)
    BY <2>1
  <2> QED BY <2>2 DEF id
<1>5. ASSUME NEW n \in 1 .. N, NEW x, NEW X, Adds(x, out, X) PROVE Adds(R(n, x), out, X \cup {ids[n]})
  <2> DEFINE id == ids[n]
  <2>1. id \in Ids
    BY <1>1
  <2> HIDE DEF id
  <2>2. Adds(IF id \in ToSet(x) THEN x ELSE Append(x, id), out, X \cup {id})
    BY <1>5, <2>1, AddOne
  <2> QED BY <2>2 DEF id
<1> HIDE DEF R
<1>6. \E g : Iterates(g, N, T, out, round)
  <2>1. round \in [1 .. N -> [T -> T]]
    BY <1>4
  <2> HIDE DEF round
  <2> QED BY <1>1, <2>1, Loop
<1>7. \E g : g = [n \in 0 .. N |-> IF n = 0 THEN out ELSE R(n, g[n - 1])]
  <2> HIDE DEF T
  <2>1. PICK g : Iterates(g, N, T, out, round)
    <3> HIDE DEF round
    <3> QED BY <1>6
  <2>2. \A n \in 1 .. N : g[n] = R(n, g[n - 1])
    <3> SUFFICES ASSUME NEW n \in 1 .. N PROVE g[n] = R(n, g[n - 1])
      OBVIOUS
    <3>1. n - 1 \in 0 .. N
      BY <1>1
    <3>2. g[n - 1] \in T /\ g[n] = round[n][g[n - 1]]
      <4> HIDE DEF round
      <4> QED BY <2>1, <3>1 DEF Iterates
    <3> QED BY <3>2
  <2>3. g \in [0 .. N -> T] /\ g[0] = out
    BY <2>1 DEF Iterates
  <2>4. \A n \in 0 .. N : n # 0 => n \in 1 .. N
    BY <1>1
  <2> QED BY <2>2, <2>3, <2>4
<1>8. c = [n \in 0 .. N |-> IF n = 0 THEN out ELSE R(n, c[n - 1])]
  BY <1>7
<1> HIDE DEF c
<1>9. c[0] = out /\ \A n \in 1 .. N : c[n] = R(n, c[n - 1])
  <2>1. 0 \in 0 .. N /\ \A n \in 1 .. N : n \in 0 .. N /\ n # 0
    BY <1>1
  <2> QED BY <1>8, <2>1
<1> DEFINE G == {n \in 0 .. N : Adds(c[n], out, first(n))}
<1>10. 0 \in G
  <2>1. first(0) = {} /\ 0 \in 0 .. N
    BY <1>1
  <2> HIDE DEF first
  <2>2. Adds(out, out, {})
    BY DEF Adds
  <2> QED BY <1>9, <2>1, <2>2
<1>11. ASSUME NEW n \in 1 .. N, n - 1 \in G PROVE n \in G
  <2>1. n \in 0 .. N /\ Adds(c[n - 1], out, first(n - 1))
    BY <1>1, <1>11
  <2>2. first(n) = first(n - 1) \cup {ids[n]}
    <3>1. 1 .. n = (1 .. n - 1) \cup {n}
      BY <1>1
    <3> QED BY <3>1
  <2> HIDE DEF first
  <2>3. Adds(c[n], out, first(n))
    BY <1>5, <1>9, <2>1, <2>2
  <2> QED BY <2>1, <2>3
<1>12. \A n \in 0 .. N : n \in G
  <2> HIDE DEF G
  <2> QED BY <1>1, <1>10, <1>11, Rounds
<1>13. N \in 0 .. N
  BY <1>1
<1> HIDE DEF first
<1> QED BY <1>2, <1>3, <1>12, <1>13

\* A rule as it is stored has targets, and resolveTargets has each of them once.
RuleIds(rule) ==
  ToSet(rule.targets) \cup (IF rule.targets = <<>> THEN {rule.target} ELSE {})

LEMMA ResolveTargetsType ==
  ASSUME NEW rule, Wellformed(rule)
  PROVE  /\ ResolveTargets(rule) \in Seq(Ids) \ {<<>>}
         /\ ToSet(ResolveTargets(rule)) = RuleIds(rule)
<1> DEFINE ids == rule.targets
<1>1. rule.target \in Nat /\ ids \in Seq(Ids) /\ (ids # <<>> \/ rule.target # 0)
  BY DEF Wellformed, Ids
<1>2. ToSet(<<>>) = {} /\ <<>> \in Seq(Ids) /\ NoRepeats(<<>>)
  BY DEF ToSet, NoRepeats
<1>3. CASE ids # <<>>
  <2>1. ResolveTargets(rule) = AddNew(<<>>, ids)
    BY <1>3 DEF ResolveTargets
  <2> HIDE DEF ids
  <2>2. Adds(AddNew(<<>>, ids), <<>>, ToSet(ids))
    BY <1>1, <1>2, AddNewAdds
  <2>3. AddNew(<<>>, ids) \in Seq(Ids) /\ ToSet(AddNew(<<>>, ids)) = ToSet(ids)
    BY <1>2, <2>2 DEF Adds
  <2>4. ToSet(ids) # {}
    <3>1. 1 \in DOMAIN ids
      BY <1>1, <1>3
    <3> QED BY <3>1 DEF ToSet
  <2>5. RuleIds(rule) = ToSet(ids)
    BY <1>3 DEF RuleIds, ids
  <2> QED BY <1>2, <2>1, <2>3, <2>4, <2>5
<1>4. CASE ids = <<>>
  <2>1. rule.target \in Ids /\ ResolveTargets(rule) = <<rule.target>>
    BY <1>1, <1>4 DEF ResolveTargets, Ids
  <2>2. \A t \in Ids : <<t>> \in Seq(Ids) /\ <<t>> # <<>> /\ ToSet(<<t>>) = {t}
    BY DEF ToSet
  <2>3. RuleIds(rule) = {rule.target}
    BY <1>2, <1>4 DEF RuleIds
  <2> QED BY <2>1, <2>2, <2>3
<1> QED BY <1>3, <1>4

\* out has the targets of the first n matches, once, those of earlier matches first.
Selects(out, ms, n) ==
  /\ out \in Seq(Ids)
  /\ NoRepeats(out)
  /\ ToSet(out) = UNION {ToSet(ms[m].targets) : m \in 1 .. n}
  /\ \A i, j \in DOMAIN out : i < j =>
       \A a \in 1 .. n : out[j] \in ToSet(ms[a].targets) =>
         \E b \in 1 .. a : out[i] \in ToSet(ms[b].targets)

LEMMA SelectsNext ==
  ASSUME NEW ms, NEW n \in Nat \ {0}, NEW ids \in Seq(Ids), ids = ms[n].targets,
         NEW out, Selects(out, ms, n - 1)
  PROVE  Selects(AddNew(out, ids), ms, n)
<1> DEFINE r == AddNew(out, ids)
           S(m) == ToSet(ms[m].targets)
<1>1. /\ out \in Seq(Ids) /\ NoRepeats(out)
      /\ ToSet(out) = UNION {S(m) : m \in 1 .. n - 1}
      /\ \A i, j \in DOMAIN out : i < j =>
           \A a \in 1 .. n - 1 : out[j] \in S(a) => \E b \in 1 .. a : out[i] \in S(b)
  BY DEF Selects
<1>2. Adds(r, out, S(n))
  BY <1>1, AddNewAdds
<1> HIDE DEF r, S
<1>3. /\ r \in Seq(Ids) /\ NoRepeats(r) /\ Len(out) <= Len(r)
      /\ \A i \in 1 .. Len(out) : r[i] = out[i]
      /\ ToSet(r) = ToSet(out) \cup S(n)
  BY <1>2 DEF Adds
<1>4. /\ Len(out) \in Nat /\ DOMAIN out = 1 .. Len(out) /\ ToSet(out) = {out[i] : i \in DOMAIN out}
      /\ Len(r) \in Nat /\ DOMAIN r = 1 .. Len(r) /\ ToSet(r) = {r[i] : i \in DOMAIN r}
  BY <1>1, <1>3 DEF ToSet
<1>5. 1 .. n = (1 .. n - 1) \cup {n} /\ n \notin 1 .. n - 1 /\ \A a \in 1 .. n - 1 : a <= n
  OBVIOUS
<1>6. ToSet(r) = UNION {S(m) : m \in 1 .. n}
  BY <1>1, <1>3, <1>5
<1>7. ASSUME NEW i \in DOMAIN r, NEW j \in DOMAIN r, i < j, NEW a \in 1 .. n, r[j] \in S(a)
      PROVE  \E b \in 1 .. a : r[i] \in S(b)
  <2>1. CASE j \in 1 .. Len(out)
    <3>1. i \in 1 .. Len(out) /\ r[i] = out[i] /\ r[j] = out[j]
      BY <1>3, <1>4, <1>7, <2>1
    <3>2. CASE a \in 1 .. n - 1
      BY <1>1, <1>4, <1>7, <2>1, <3>1, <3>2
    <3>3. CASE a = n
      <4>1. out[i] \in ToSet(out)
        BY <1>4, <3>1
      <4>2. PICK m \in 1 .. n - 1 : out[i] \in S(m)
        BY <1>1, <4>1
      <4> QED BY <1>5, <3>1, <3>3, <4>2
    <3> QED BY <1>5, <3>2, <3>3
  <2>2. CASE j \notin 1 .. Len(out)
    <3>1. r[j] \notin ToSet(out)
      <4> SUFFICES ASSUME NEW k \in DOMAIN out, r[j] = out[k] PROVE FALSE
        BY <1>4
      <4>1. k \in DOMAIN r /\ r[k] = r[j]
        BY <1>3, <1>4
      <4>2. k = j
        BY <1>3, <4>1 DEF NoRepeats
      <4> QED BY <1>4, <2>2, <4>2
    <3>2. a = n
      BY <1>1, <1>5, <1>7, <3>1
    <3>3. r[i] \in ToSet(r)
      BY <1>4
    <3> QED BY <1>6, <3>2, <3>3
  <2> QED BY <2>1, <2>2
<1>8. Selects(r, ms, n)
  BY <1>3, <1>6, <1>7 DEF Selects, S
<1> QED BY <1>8 DEF r

\* SelectTargets.
LEMMA SelectTargetsSelects ==
  ASSUME NEW S, NEW ms \in Seq(S), \A n \in DOMAIN ms : ms[n].targets \in Seq(Ids)
  PROVE  Selects(SelectTargets(ms), ms, Len(ms))
<1> DEFINE N == Len(ms)
           T == {x \in Seq(Ids) : NoRepeats(x)}
           R(n, x) == AddNew(x, ms[n].targets)
           round == [n \in 1 .. N |-> [x \in T |-> R(n, x)]]
           c == CHOOSE g : g = [n \in 0 .. N |-> IF n = 0 THEN <<>> ELSE R(n, g[n - 1])]
<1>1. N \in Nat /\ DOMAIN ms = 1 .. N /\ \A n \in 1 .. N : ms[n].targets \in Seq(Ids)
  OBVIOUS
<1>2. SelectTargets(ms) = c[N]
  BY DEF SelectTargets
<1> HIDE DEF N
<1>3. ASSUME NEW n \in 1 .. N, NEW x \in T PROVE R(n, x) \in T
  <2> DEFINE ids == ms[n].targets
  <2>1. ids \in Seq(Ids)
    BY <1>1
  <2> HIDE DEF ids
  <2>2. x \in Seq(Ids) /\ NoRepeats(x)
    OBVIOUS
  <2>3. Adds(AddNew(x, ids), x, ToSet(ids))
    BY <2>1, <2>2, AddNewAdds
  <2> QED BY <2>3 DEF Adds, ids
<1>4. ASSUME NEW n \in 1 .. N, NEW x, Selects(x, ms, n - 1) PROVE Selects(R(n, x), ms, n)
  BY <1>1, <1>4, SelectsNext
<1> HIDE DEF R
<1>5. <<>> \in T
  BY DEF NoRepeats
<1>6. \E g : Iterates(g, N, T, <<>>, round)
  <2>1. round \in [1 .. N -> [T -> T]]
    BY <1>3
  <2> HIDE DEF round, T
  <2> QED BY <1>1, <1>5, <2>1, Loop
<1>7. \E g : g = [n \in 0 .. N |-> IF n = 0 THEN <<>> ELSE R(n, g[n - 1])]
  <2> HIDE DEF T
  <2>1. PICK g : Iterates(g, N, T, <<>>, round)
    <3> HIDE DEF round
    <3> QED BY <1>6
  <2>2. \A n \in 1 .. N : g[n] = R(n, g[n - 1])
    <3> SUFFICES ASSUME NEW n \in 1 .. N PROVE g[n] = R(n, g[n - 1])
      OBVIOUS
    <3>1. n - 1 \in 0 .. N
      BY <1>1
    <3>2. g[n - 1] \in T /\ g[n] = round[n][g[n - 1]]
      <4> HIDE DEF round
      <4> QED BY <2>1, <3>1 DEF Iterates
    <3> QED BY <3>2
  <2>3. g \in [0 .. N -> T] /\ g[0] = <<>>
    BY <2>1 DEF Iterates
  <2>4. \A n \in 0 .. N : n # 0 => n \in 1 .. N
    BY <1>1
  <2> QED BY <2>2, <2>3, <2>4
<1>8. c = [n \in 0 .. N |-> IF n = 0 THEN <<>> ELSE R(n, c[n - 1])]
  BY <1>7
<1> HIDE DEF c
<1>9. c[0] = <<>> /\ \A n \in 1 .. N : c[n] = R(n, c[n - 1])
  <2>1. 0 \in 0 .. N /\ \A n \in 1 .. N : n \in 0 .. N /\ n # 0
    BY <1>1
  <2> QED BY <1>8, <2>1
<1> DEFINE G == {n \in 0 .. N : Selects(c[n], ms, n)}
<1>10. 0 \in G
  <2>1. 0 \in 0 .. N /\ 1 .. 0 = {} /\ DOMAIN <<>> = {} /\ <<>> \in Seq(Ids)
    BY <1>1
  <2>2. Selects(<<>>, ms, 0)
    BY <2>1 DEF Selects, NoRepeats, ToSet
  <2> QED BY <1>9, <2>1, <2>2
<1>11. ASSUME NEW n \in 1 .. N, n - 1 \in G PROVE n \in G
  <2>1. n \in 0 .. N /\ Selects(c[n - 1], ms, n - 1)
    BY <1>1, <1>11
  <2>2. Selects(c[n], ms, n)
    BY <1>4, <1>9, <2>1
  <2> QED BY <2>1, <2>2
<1>12. \A n \in 0 .. N : n \in G
  <2> HIDE DEF G
  <2> QED BY <1>1, <1>10, <1>11, Rounds
<1>13. N \in G
  BY <1>1, <1>12
<1> QED BY <1>2, <1>13 DEF N

-----------------------------------------------------------------------------
\* The run over the rules.

\* What has been collected comes from rules already looked at, with their targets; those
\* that are in it are the ones that apply, as far as that is decided; at the end the
\* targets are selected from it.
Collected ==
  /\ matches \in Seq([rule : Nat, targets : Seq(Ids) \ {<<>>}])
  /\ \A n \in DOMAIN matches :
       /\ matches[n].rule \in DOMAIN rules
       /\ matches[n].rule < pos
       /\ matches[n].targets = ResolveTargets(rules[matches[n].rule])

IInv ==
  /\ event \in Events /\ rules \in RuleLists /\ pos \in 1 .. Len(rules) + 2
  /\ Collected
  /\ MatchesExact
  /\ targets = IF pos > Len(rules) + 1 THEN SelectTargets(matches) ELSE <<>>

LEMMA RulesType ==
  ASSUME NEW list \in RuleLists
  PROVE  /\ Len(list) \in Nat /\ DOMAIN list = 1 .. Len(list)
         /\ \A i \in DOMAIN list : /\ Wellformed(list[i])
                                   /\ All(list[i].conditions) \in Conditions
BY EngineAssumption DEF Wellformed, All

\* Match: one answer for a rule that is clear; the right one if, besides, no in has a
\* text on its right.
LEMMA MatchDecided ==
  ASSUME NEW rule, Wellformed(rule), event \in Events, Clear(rule)
  PROVE  \E b \in BOOLEAN : Match(rule, event) = {b}
<1> DEFINE c == All(rule.conditions)
           root == event.payload
<1>1. c \in Conditions /\ root \in Values
  BY EngineAssumption DEF Wellformed, All
<1>2. \A x \in Leaves(c) : x.op = "exists" => Null \notin Found(x.path, root)
  BY DEF Clear, LeavesOf
<1> HIDE DEF c, root
<1>3. \E b \in BOOLEAN : Verdicts(c, root) = {b}
  BY <1>1, <1>2, VerdictsDecided
<1> QED BY <1>3 DEF Match, c, root

LEMMA MatchExact ==
  ASSUME NEW rule, Wellformed(rule), event \in Events, Clear(rule), Listed(rule)
  PROVE  \E b \in BOOLEAN :
           /\ Match(rule, event) = {b}
           /\ rule.enabled => (b <=> Applies(rule))
           /\ ~rule.enabled => ~Applies(rule)
<1> DEFINE c == All(rule.conditions)
           root == event.payload
<1>1. c \in Conditions /\ root \in Values
  BY EngineAssumption DEF Wellformed, All
<1>2. \A x \in Leaves(c) : /\ x.op = "exists" => Null \notin Found(x.path, root)
                           /\ x.op \in {"in", "not_in"} => x.value.kind # "text"
  BY DEF Clear, Listed, LeavesOf
<1> HIDE DEF c, root
<1>3. Verdicts(c, root) = {Holds(c, root)} /\ Holds(c, root) \in BOOLEAN
  BY <1>1, <1>2, VerdictsExact
<1>4. CASE rule.source \in {NoSource, event.source} /\ rule.type \in {AnyType, event.type}
  <2>1. Match(rule, event) = {Holds(c, root)}
    BY <1>3, <1>4 DEF Match, c, root
  <2>2. Applies(rule) <=> rule.enabled /\ Holds(c, root)
    BY <1>4 DEF Applies, c, root
  <2> QED BY <1>3, <2>1, <2>2
<1>5. CASE ~(rule.source \in {NoSource, event.source} /\ rule.type \in {AnyType, event.type})
  <2>1. Match(rule, event) = {FALSE} /\ ~Applies(rule)
    BY <1>5 DEF Match, Applies
  <2> QED BY <2>1
<1> QED BY <1>4, <1>5

LEMMA InitIInv == Init => IInv
<1> SUFFICES ASSUME Init PROVE IInv
  OBVIOUS
<1>1. /\ event \in Events /\ rules \in RuleLists /\ pos = 1 /\ matches = <<>> /\ targets = <<>>
  BY DEF Init
<1>2. Len(rules) \in Nat /\ DOMAIN rules = 1 .. Len(rules)
  BY <1>1, RulesType
<1>3. pos \in 1 .. Len(rules) + 2 /\ ~(pos > Len(rules) + 1)
  BY <1>1, <1>2
<1>4. Collected
  BY <1>1 DEF Collected
<1>5. MatchesExact
  BY <1>1, <1>2 DEF MatchesExact
<1> QED BY <1>1, <1>3, <1>4, <1>5 DEF IInv

\* One round over the rules.
LEMMA ConsiderKeeps == IInv /\ Consider => IInv'
<1> SUFFICES ASSUME IInv, Consider PROVE IInv'
  OBVIOUS
<1>1. /\ event \in Events /\ rules \in RuleLists /\ pos \in 1 .. Len(rules) + 2
      /\ Collected /\ MatchesExact
      /\ targets = IF pos > Len(rules) + 1 THEN SelectTargets(matches) ELSE <<>>
  BY DEF IInv
<1> DEFINE rule == rules[pos]
           M == [rule : Nat, targets : Seq(Ids) \ {<<>>}]
           new == [rule |-> pos, targets |-> ResolveTargets(rule)]
           N == Len(matches)
<1>2. pos <= Len(rules) /\ pos' = pos + 1 /\ event' = event /\ rules' = rules /\ targets' = targets
  BY DEF Consider
<1>3. PICK hit \in IF rule.enabled THEN Match(rule, event) ELSE {FALSE} :
        matches' = IF hit THEN Append(matches, new) ELSE matches
  BY DEF Consider
<1>4. Len(rules) \in Nat /\ DOMAIN rules = 1 .. Len(rules) /\ \A i \in DOMAIN rules : Wellformed(rules[i])
  BY <1>1, RulesType
<1>5. pos \in DOMAIN rules /\ pos \in Nat /\ Wellformed(rule)
  BY <1>1, <1>2, <1>4
<1>6. new \in M /\ new.rule = pos /\ new.targets = ResolveTargets(rule)
  BY <1>5, ResolveTargetsType
<1>7. matches \in Seq(M) /\ N \in Nat /\ DOMAIN matches = 1 .. N
  BY <1>1 DEF Collected
<1> HIDE DEF M, new
<1>8. ASSUME hit PROVE Collected' /\ Matched' = Matched \cup {pos}
  <2>1. matches' = Append(matches, new)
    BY <1>3, <1>8
  <2>2. /\ matches' \in Seq(M) /\ DOMAIN matches' = 1 .. N + 1
        /\ \A n \in 1 .. N : matches'[n] = matches[n]
        /\ matches'[N + 1] = new
    BY <1>6, <1>7, <2>1
  <2>3. \A n \in 1 .. N + 1 : n \in 1 .. N \/ n = N + 1
    BY <1>7
  <2>4. \A n \in 1 .. N : n \in 1 .. N + 1
    BY <1>7
  <2>5. N + 1 \in 1 .. N + 1
    BY <1>7
  <2> HIDE DEF N
  <2>6. Collected'
    <3>1. ASSUME NEW n \in 1 .. N + 1
          PROVE  /\ matches'[n].rule \in DOMAIN rules
                 /\ matches'[n].rule < pos + 1
                 /\ matches'[n].targets = ResolveTargets(rules[matches'[n].rule])
      <4>1. CASE n \in 1 .. N
        <5>1. /\ matches[n].rule \in DOMAIN rules /\ matches[n].rule < pos
              /\ matches[n].targets = ResolveTargets(rules[matches[n].rule])
          BY <1>1, <1>7, <4>1 DEF Collected
        <5>2. matches[n].rule < pos + 1
          BY <1>4, <1>5, <5>1
        <5> QED BY <2>2, <4>1, <5>1, <5>2
      <4>2. CASE n = N + 1
        BY <1>5, <1>6, <2>2, <4>2
      <4> QED BY <2>3, <4>1, <4>2
    <3> QED BY <1>2, <2>2, <3>1 DEF Collected, M
  <2>7. Matched' = Matched \cup {pos}
    <3>1. Matched = {matches[n].rule : n \in 1 .. N}
      BY <1>7 DEF Matched
    <3>2. Matched' = {matches'[n].rule : n \in 1 .. N + 1}
      BY <2>2 DEF Matched
    <3> QED BY <1>6, <2>2, <2>3, <2>4, <2>5, <3>1, <3>2
  <2> QED BY <2>6, <2>7
<1>9. ASSUME ~hit PROVE Collected' /\ Matched' = Matched
  <2>1. matches' = matches
    BY <1>3, <1>9
  <2>2. Collected'
    <3>1. \A n \in DOMAIN matches : matches[n].rule < pos + 1
      BY <1>1, <1>4, <1>5 DEF Collected
    <3> QED BY <1>1, <1>2, <2>1, <3>1 DEF Collected
  <2>3. Matched' = Matched
    BY <2>1 DEF Matched
  <2> QED BY <2>2, <2>3
<1>10. Collected' /\ Matched' = IF hit THEN Matched \cup {pos} ELSE Matched
  BY <1>8, <1>9
<1>11. pos \notin Matched
  BY <1>1, <1>4, <1>5 DEF Collected, Matched
<1>12. MatchesExact'
  <2>1. \A r : ((Clear(r))' <=> Clear(r)) /\ ((Listed(r))' <=> Listed(r))
    BY <1>2 DEF Clear, Listed
  <2>2. \A r : (Applies(r))' <=> Applies(r)
    BY <1>2 DEF Applies
  <2>3. ASSUME NEW i \in DOMAIN rules, i < pos + 1, Clear(rules[i]), Listed(rules[i])
        PROVE  i \in Matched' <=> Applies(rules[i])
    <3>1. CASE i = pos
      <4>1. PICK b \in BOOLEAN : /\ Match(rule, event) = {b}
                                 /\ rule.enabled => (b <=> Applies(rule))
                                 /\ ~rule.enabled => ~Applies(rule)
        BY <1>1, <1>5, <2>3, <3>1, MatchExact
      <4>2. hit <=> Applies(rule)
        BY <1>3, <4>1
      <4> QED BY <1>10, <1>11, <3>1, <4>2
    <3>2. CASE i # pos
      <4>1. i < pos
        BY <1>4, <1>5, <2>3, <3>2
      <4>2. i \in Matched <=> Applies(rules[i])
        BY <1>1, <2>3, <4>1 DEF MatchesExact
      <4> QED BY <1>10, <3>2, <4>2
    <3> QED BY <3>1, <3>2
  <2> QED BY <1>2, <2>1, <2>2, <2>3 DEF MatchesExact
<1>13. /\ event' \in Events /\ rules' \in RuleLists /\ pos' \in 1 .. Len(rules') + 2
       /\ ~(pos > Len(rules) + 1) /\ ~(pos' > Len(rules') + 1)
  BY <1>1, <1>2, <1>4
<1> QED BY <1>1, <1>2, <1>10, <1>12, <1>13 DEF IInv

\* The end.
LEMMA SelectKeeps == IInv /\ Select => IInv'
<1> SUFFICES ASSUME IInv, Select PROVE IInv'
  OBVIOUS
<1>1. /\ event \in Events /\ rules \in RuleLists /\ pos \in 1 .. Len(rules) + 2
      /\ Collected /\ MatchesExact
  BY DEF IInv
<1>2. /\ pos = Len(rules) + 1 /\ pos' = pos + 1 /\ targets' = SelectTargets(matches)
      /\ event' = event /\ rules' = rules /\ matches' = matches
  BY DEF Select
<1>3. Len(rules) \in Nat /\ DOMAIN rules = 1 .. Len(rules)
  BY <1>1, RulesType
<1>4. pos' \in 1 .. Len(rules') + 2 /\ pos' > Len(rules') + 1
  BY <1>2, <1>3
<1>5. Collected'
  <2>1. \A n \in DOMAIN matches : matches[n].rule < pos + 1
    BY <1>1, <1>2, <1>3 DEF Collected
  <2> QED BY <1>1, <1>2, <2>1 DEF Collected
<1>6. MatchesExact'
  <2>1. \A r : ((Clear(r))' <=> Clear(r)) /\ ((Listed(r))' <=> Listed(r))
    BY <1>2 DEF Clear, Listed
  <2>2. \A r : (Applies(r))' <=> Applies(r)
    BY <1>2 DEF Applies
  <2>3. \A i \in DOMAIN rules : i < pos
    BY <1>2, <1>3
  <2>4. Matched' = Matched
    BY <1>2 DEF Matched
  <2> QED BY <1>1, <1>2, <2>1, <2>2, <2>3, <2>4 DEF MatchesExact
<1>7. targets' = IF pos' > Len(rules') + 1 THEN SelectTargets(matches') ELSE <<>>
  BY <1>2, <1>4
<1> QED BY <1>1, <1>2, <1>4, <1>5, <1>6, <1>7 DEF IInv

LEMMA StutterKeeps == IInv /\ UNCHANGED vars => IInv'
BY DEF IInv, vars, Collected, MatchesExact, Matched, Clear, Listed, Applies

LEMMA Inductive == Spec => []IInv
<1>1. IInv /\ [Next]_vars => IInv'
  BY ConsiderKeeps, SelectKeeps, StutterKeeps DEF Next
<1> QED BY InitIInv, <1>1, PTL DEF Spec

-----------------------------------------------------------------------------
\* The properties.

LEMMA MatchesTyped ==
  ASSUME Collected
  PROVE  \A n \in DOMAIN matches : matches[n].targets \in Seq(Ids) \ {<<>>}
<1> DEFINE M == [rule : Nat, targets : Seq(Ids) \ {<<>>}]
<1>1. matches \in Seq(M) /\ \A m \in M : m.targets \in Seq(Ids) \ {<<>>}
  BY DEF Collected
<1> HIDE DEF M
<1>2. \A n \in DOMAIN matches : matches[n] \in M
  BY <1>1
<1> QED BY <1>1, <1>2

LEMMA MatchesSelected ==
  ASSUME Collected
  PROVE  Selects(SelectTargets(matches), matches, Len(matches))
<1> DEFINE M == [rule : Nat, targets : Seq(Ids) \ {<<>>}]
<1>1. matches \in Seq(M)
  BY DEF Collected
<1> HIDE DEF M
<1>2. \A n \in DOMAIN matches : matches[n].targets \in Seq(Ids)
  BY MatchesTyped
<1> QED BY <1>1, <1>2, SelectTargetsSelects

\* Every variable has its type, whatever the rules and the payload: a matched rule has
\* targets, from rule_targets or from target_id, and none is the id 0 (resolveTargets).
THEOREM TypeCorrect == Spec => []TypeOK
<1>1. IInv => TypeOK
  <2> SUFFICES ASSUME IInv PROVE TypeOK
    OBVIOUS
  <2>1. Collected /\ event \in Events /\ rules \in RuleLists /\ pos \in 1 .. Len(rules) + 2
    BY DEF IInv
  <2>2. \A n \in DOMAIN matches :
          matches[n].rule \in DOMAIN rules /\ matches[n].targets \in Seq(Ids) \ {<<>>}
    BY <2>1, MatchesTyped DEF Collected
  <2>3. SelectTargets(matches) \in Seq(Ids)
    BY <2>1, MatchesSelected DEF Selects
  <2>4. targets \in Seq(Ids)
    <3>1. <<>> \in Seq(Ids)
      OBVIOUS
    <3> QED BY <2>3, <3>1 DEF IInv
  <2> QED BY <2>1, <2>2, <2>4 DEF TypeOK, Ids
<1> QED BY <1>1, Inductive, PTL

\* MatchRules matches a rule if and only if it is enabled, for this source and type, and
\* its conditions mean what is the case: early ends of the loops over conditions, values
\* and members of groups, and the order of the maps, decide nothing.  But for two kinds
\* of rules: where exists meets a null, and where in has a text on its right.
THEOREM RulesMatchExactly == Spec => []MatchesExact
<1>1. IInv => MatchesExact
  BY DEF IInv
<1> QED BY <1>1, Inductive, PTL

\* A leaf of a stored rule has a path to look up and a value to compare with.
LEMMA LeavesOfType ==
  ASSUME NEW list \in RuleLists, NEW i \in DOMAIN list, NEW c \in LeavesOf(list[i])
  PROVE  c \in Conditions /\ c.path \in Seq(Texts) /\ c.value \in Values
<1>1. All(list[i].conditions) \in Conditions
  BY RulesType
<1>2. c \in Conditions /\ ~IsGroup(c)
  BY <1>1, LeavesType DEF LeavesOf
<1> QED BY <1>2, EngineAssumption DEF IsGroup

\* Lookup finds each value as often as there are places in the payload that fit the path:
\* a wildcard passes over nothing and takes nothing twice, in whatever order Go ranges
\* over the maps.
THEOREM LookupExact == Spec => []LookupFindsPlaces
<1>1. IInv => LookupFindsPlaces
  <2> SUFFICES ASSUME IInv PROVE LookupFindsPlaces
    OBVIOUS
  <2>1. ASSUME NEW i \in DOMAIN rules, NEW c \in LeavesOf(rules[i]),
               NEW vals \in Lookup(c.path, event.payload), NEW v
        PROVE  AsManyAsPlaces(v, vals, c.path, event.payload)
    <3>1. event.payload \in Values
      BY EngineAssumption DEF IInv
    <3>2. c.path \in Seq(Texts)
      BY LeavesOfType DEF IInv
    <3> QED BY <3>1, <3>2, LookupCounts
  <2>2. LookupFindsPlaces <=>
          \A i \in DOMAIN rules : \A c \in LeavesOf(rules[i]) :
            \A vals \in Lookup(c.path, event.payload) :
              \A v \in Found(c.path, event.payload) \cup ToSet(vals) :
                AsManyAsPlaces(v, vals, c.path, event.payload)
    BY Zenon DEF LookupFindsPlaces, AsManyAsPlaces
  <2> QED BY <2>1, <2>2
<1> QED BY <1>1, Inductive, PTL

\* Whatever a path of a stored rule finds, the operators agree on it: ne is the contrary
\* of eq, the comparisons cover every value, in asks for one of the items of a list.
THEOREM OperatorsAgreeAlways == Spec => []OperatorsAgree
<1>1. IInv => OperatorsAgree
  <2> SUFFICES ASSUME IInv, NEW i \in DOMAIN rules, NEW c \in LeavesOf(rules[i]),
                      NEW vals \in Lookup(c.path, event.payload)
               PROVE  Agreement(vals, c.value)
    BY DEF OperatorsAgree
  <2>1. event.payload \in Values
    BY EngineAssumption DEF IInv
  <2>2. c.path \in Seq(Texts) /\ c.value \in Values
    BY LeavesOfType DEF IInv
  <2>3. vals \in Seq(Values)
    BY <2>1, <2>2, LookupFinds
  <2> QED BY <2>2, <2>3, OperatorsAlwaysAgree
<1> QED BY <1>1, Inductive, PTL

\* The same event under the same rules is routed the same way every time: Match has one
\* answer for each rule, unless exists meets a null.
THEOREM AnswersAgree == Spec => []OneAnswer
<1>1. IInv => OneAnswer
  <2> SUFFICES ASSUME IInv, NEW i \in DOMAIN rules, Clear(rules[i])
               PROVE  Cardinality(Match(rules[i], event)) = 1
    BY DEF OneAnswer
  <2>1. Wellformed(rules[i]) /\ event \in Events
    BY RulesType DEF IInv
  <2>2. PICK b \in BOOLEAN : Match(rules[i], event) = {b}
    BY <2>1, MatchDecided
  <2> QED BY <2>2, FS_Singleton
<1> QED BY <1>1, Inductive, PTL

\* The first match with a target.
LEMMA FirstForIsFirst ==
  ASSUME Collected, NEW t, NEW a \in DOMAIN matches, t \in ToSet(matches[a].targets)
  PROVE  /\ FirstFor(t) \in DOMAIN matches
         /\ t \in ToSet(matches[FirstFor(t)].targets)
         /\ FirstFor(t) <= a
<1> DEFINE T == {n \in DOMAIN matches : t \in ToSet(matches[n].targets)}
           First(n) == /\ t \in ToSet(matches[n].targets)
                       /\ \A m \in 1 .. n - 1 : t \notin ToSet(matches[m].targets)
<1>1. Len(matches) \in Nat /\ DOMAIN matches = 1 .. Len(matches)
  <2> DEFINE M == [rule : Nat, targets : Seq(Ids) \ {<<>>}]
  <2>1. matches \in Seq(M)
    BY DEF Collected
  <2> HIDE DEF M
  <2> QED BY <2>1
<1>2. T \in SUBSET Nat /\ T # {}
  BY <1>1
<1>3. PICK n \in T : \A m \in T : n <= m
  <2> HIDE DEF T
  <2> QED BY <1>2, Least
<1>4. First(n) /\ n \in DOMAIN matches
  <2>1. \A m \in 1 .. n - 1 : m \in DOMAIN matches /\ ~(n <= m)
    BY <1>1
  <2> QED BY <1>3, <2>1
<1>5. FirstFor(t) = CHOOSE m \in DOMAIN matches : First(m)
  BY DEF FirstFor
<1>6. FirstFor(t) \in DOMAIN matches /\ First(FirstFor(t))
  <2> HIDE DEF First
  <2> QED BY <1>4, <1>5
<1>7. FirstFor(t) <= a
  <2> SUFFICES ASSUME ~(FirstFor(t) <= a) PROVE FALSE
    OBVIOUS
  <2>1. a \in 1 .. FirstFor(t) - 1
    BY <1>1, <1>6
  <2> QED BY <1>6, <2>1
<1> QED BY <1>6, <1>7

\* However matched rules overlap, SelectTargets has every target of theirs once, and the
\* targets of rules of higher priority first: a delivery is made for each target, once.
THEOREM TargetsSelectedOnce == Spec => []TargetsOnce
<1>1. IInv => TargetsOnce
  <2> SUFFICES ASSUME IInv, pos > Len(rules) + 1 PROVE TargetsOnce
    BY DEF TargetsOnce
  <2>1. Collected /\ rules \in RuleLists /\ targets = SelectTargets(matches)
    BY DEF IInv
  <2>2. Selects(targets, matches, Len(matches))
    BY <2>1, MatchesSelected
  <2>3. DOMAIN matches = 1 .. Len(matches) /\ Len(matches) \in Nat
    <3> DEFINE M == [rule : Nat, targets : Seq(Ids) \ {<<>>}]
    <3>1. matches \in Seq(M)
      BY <2>1 DEF Collected
    <3> HIDE DEF M
    <3> QED BY <3>1
  <2>4. NoRepeats(targets)
    BY <2>2 DEF Selects
  <2>5. ToSet(targets) = UNION {RuleIds(rules[i]) : i \in Matched}
    <3>1. ToSet(targets) = UNION {ToSet(matches[n].targets) : n \in DOMAIN matches}
      BY <2>2, <2>3 DEF Selects
    <3>2. ASSUME NEW n \in DOMAIN matches
          PROVE  ToSet(matches[n].targets) = RuleIds(rules[matches[n].rule])
      <4>1. /\ matches[n].rule \in DOMAIN rules
            /\ matches[n].targets = ResolveTargets(rules[matches[n].rule])
        BY <2>1 DEF Collected
      <4>2. Wellformed(rules[matches[n].rule])
        BY <2>1, <4>1, RulesType
      <4> QED BY <4>1, <4>2, ResolveTargetsType
    <3>3. ASSUME NEW t \in ToSet(targets) PROVE \E i \in Matched : t \in RuleIds(rules[i])
      <4>1. PICK n \in DOMAIN matches : t \in ToSet(matches[n].targets)
        BY <3>1
      <4>2. t \in RuleIds(rules[matches[n].rule]) /\ matches[n].rule \in Matched
        BY <3>2, <4>1 DEF Matched
      <4> QED BY <4>2
    <3>4. ASSUME NEW i \in Matched, NEW t \in RuleIds(rules[i]) PROVE t \in ToSet(targets)
      <4>1. PICK n \in DOMAIN matches : i = matches[n].rule
        BY DEF Matched
      <4>2. t \in ToSet(matches[n].targets)
        BY <3>2, <4>1
      <4> QED BY <3>1, <4>2
    <3> QED BY <3>3, <3>4
  <2>6. ASSUME NEW i \in DOMAIN targets, NEW j \in DOMAIN targets, i < j
        PROVE  FirstFor(targets[i]) <= FirstFor(targets[j])
    <3>1. targets \in Seq(Ids)
      BY <2>2 DEF Selects
    <3>2. targets[j] \in ToSet(targets)
      BY <3>1 DEF ToSet
    <3>3. PICK n \in DOMAIN matches : targets[j] \in ToSet(matches[n].targets)
      BY <2>2, <2>3, <3>2 DEF Selects
    <3> DEFINE a == FirstFor(targets[j])
               t == targets[i]
    <3>4. a \in DOMAIN matches /\ targets[j] \in ToSet(matches[a].targets)
      BY <2>1, <3>3, FirstForIsFirst
    <3>5. PICK b \in 1 .. a : t \in ToSet(matches[b].targets)
      BY <2>2, <2>3, <2>6, <3>4 DEF Selects
    <3> HIDE DEF a, t
    <3>6. b \in DOMAIN matches /\ a \in Nat /\ b <= a /\ b \in Nat
      BY <2>3, <3>4, <3>5
    <3>7. FirstFor(t) \in DOMAIN matches /\ FirstFor(t) <= b
      BY <2>1, <3>5, <3>6, FirstForIsFirst
    <3>8. FirstFor(t) <= a
      BY <2>3, <3>6, <3>7
    <3> QED BY <3>8 DEF a, t
  <2> QED BY <2>4, <2>5, <2>6 DEF TargetsOnce, NoRepeats, RuleIds
<1> QED BY <1>1, Inductive, PTL
=============================================================================
