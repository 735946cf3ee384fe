--------------------------- MODULE ListRuntimeProof ---------------------------
(***************************************************************************)
(* The invariants of ListRuntime and its refinement of ListSpec, for pools *)
(* of any size, lists of any length and any integers and strings.          *)
(***************************************************************************)
EXTENDS ListRuntime, Counting, SequenceTheorems

-----------------------------------------------------------------------------
(* How a heap represents lists. *)

First(s) == IF s = << >> THEN NULL ELSE s[1]
Link(s, i) == IF i < Len(s) THEN s[i + 1] ELSE NULL

AtomTypes == {"INT", "STRING"}
Values == Ints \cup Strings \cup {StaticString, NULL}
NodeType == [type : AtomTypes, value : Values, next : Nodes \cup {NULL}]
HeaderType == [length : 0 .. MaxLength, head : Nodes \cup Headers \cup {NULL},
               tail : Nodes \cup {NULL}]

HeapType == [node : [Nodes -> NodeType], header : [Headers -> HeaderType],
             free : Nodes \cup {NULL}, hfree : Headers \cup {NULL}, count : Nat,
             chunks : 0 .. MaxChunks, hchunks : 0 .. MaxHeaderChunks,
             literals : 0 .. MaxLiterals, strings : SUBSET Strings,
             fault : {"none", "exit", "null", "undefined"}]

(* The sequences P of nodes share no node, and together they are M.        *)
Apart(P) ==
    \A d, e \in DOMAIN P : \A i \in 1 .. Len(P[d]), j \in 1 .. Len(P[e]) :
      P[d][i] = P[e][j] => d = e /\ i = j

Part(P, M) ==
    /\ \A d \in DOMAIN P : P[d] \in Seq(Nodes)
    /\ Apart(P)
    /\ \A n : n \in M <=> \E d \in DOMAIN P : \E i \in 1 .. Len(P[d]) : P[d][i] = n

Malloced(h) == {NodeAt(k) : k \in 1 .. (INITIAL_FREELIST_CHUNK_SIZE * h.chunks)}
Issued(h) == {HeaderAt(k) : k \in 1 .. (HEADER_FREELIST_CHUNK_SIZE * h.hchunks)}
             \cup {LiteralAt(k) : k \in 1 .. h.literals}

(* The links of the nodes of s lead through s.                             *)
Linked(h, s) == \A i \in 1 .. Len(s) : h.node[s[i]].next = Link(s, i)

(* The header l is that of a list whose nodes are s.                       *)
Heads(h, l, s) ==
    /\ h.header[l].head = First(s)
    /\ s # << >> => h.header[l].tail = s[Len(s)]
    /\ Len(s) <= h.header[l].length

(* The nodes from malloc are parted into the free list P[NULL], the lists  *)
(* of L, and what a call that is under way has in its hands.               *)
Shape(h, L, P) ==
    /\ NULL \in DOMAIN P /\ L \subseteq DOMAIN P /\ L \subseteq Headers
    /\ Part(P, Malloced(h))
    /\ \A d \in DOMAIN P : Linked(h, P[d])
    /\ h.free = First(P[NULL]) /\ h.count = Len(P[NULL])
    /\ \A l \in L : Heads(h, l, P[l])

(* The free headers are Q; no list of L is among them, and headers that no *)
(* chunk or literal has brought yet are blank.                             *)
HeaderShape(h, L, Q) ==
    /\ Q \in Seq(Headers)
    /\ h.hfree = First(Q)
    /\ \A i \in 1 .. Len(Q) : /\ h.header[Q[i]].head = Link(Q, i)
                              /\ Q[i] \in Issued(h) /\ Q[i] \notin L
    /\ \A i, j \in 1 .. Len(Q) : Q[i] = Q[j] => i = j
    /\ L \subseteq Issued(h)
    /\ \A l \in Headers \ Issued(h) : h.header[l] = Header(0, NULL, NULL)

Contents(h, s) == [i \in 1 .. Len(s) |-> <<h.node[s[i]].type, h.node[s[i]].value>>]

(* The nodes P[d] hold the atoms C[d]. *)
Stores(h, L, C, P) ==
    /\ h \in HeapType /\ Shape(h, L, P)
    /\ DOMAIN P = DOMAIN C \cup {NULL} /\ DOMAIN C \subseteq Headers
    /\ \A d \in DOMAIN C : C[d] = Contents(h, P[d])

(* The lists C, but that m holds s.                                        *)
Plus(C, m, s) == [l \in DOMAIN C \cup {m} |-> IF l = m THEN s ELSE C[l]]

(* Heap h represents the lists C. *)
Holds(h, C) ==
    /\ \E P : Stores(h, DOMAIN C, C, P)
    /\ \E Q : HeaderShape(h, DOMAIN C, Q)

-----------------------------------------------------------------------------
(* Addresses. *)

NodeCount == INITIAL_FREELIST_CHUNK_SIZE * MaxChunks
PooledCount == HEADER_FREELIST_CHUNK_SIZE * MaxHeaderChunks

(* A product grows with its factors.                                       *)
LEMMA ProductLemma ==
    ASSUME NEW a \in Nat, NEW b \in Nat, NEW c \in Nat, a <= b
    PROVE  c * a \in Nat /\ c * a <= c * b /\ c * (a + 1) = c * a + c /\ c * a = a * c
<1>1. c * b = c * a + c * (b - a) /\ c * (b - a) >= 0
  OBVIOUS
<1> QED
  BY <1>1

(* The three kinds of cells lie one after the other, above every length    *)
(* and above null.                                                         *)
LEMMA AddressLemma ==
    /\ NodeCount \in Nat /\ PooledCount \in Nat
    /\ Nodes = (MaxLength + 1) .. (MaxLength + NodeCount)
    /\ Headers = (MaxLength + NodeCount + 1) .. (MaxLength + NodeCount + PooledCount + MaxLiterals)
    /\ NULL \notin Nodes /\ NULL \notin Headers /\ Nodes \cap Headers = {}
    /\ MaxLength \in Nat /\ IsFiniteSet(Nodes) /\ Cardinality(Nodes) = NodeCount
<1>1. MaxLength \in Nat \ {0} /\ MaxLiterals \in Nat
  BY ListAssumption
<1>2. NodeCount \in Nat /\ PooledCount \in Nat
  BY ListAssumption, ProductLemma DEF NodeCount, PooledCount
<1>3. Nodes = (MaxLength + 1) .. (MaxLength + NodeCount)
  <2>1. Nodes = {MaxLength + k : k \in 1 .. NodeCount}
    BY DEF Nodes, NodeAt, NodeCount
  <2>2. \A n \in (MaxLength + 1) .. (MaxLength + NodeCount) :
          n - MaxLength \in 1 .. NodeCount /\ n = MaxLength + (n - MaxLength)
    BY <1>1, <1>2
  <2> QED
    BY <1>1, <1>2, <2>1, <2>2
<1>4. Headers = (MaxLength + NodeCount + 1) .. (MaxLength + NodeCount + PooledCount + MaxLiterals)
  <2> DEFINE B == MaxLength + NodeCount
             D == B + PooledCount
  <2>1. Pooled = {B + k : k \in 1 .. PooledCount} /\ B \in Nat
    BY <1>1, <1>2 DEF Pooled, HeaderAt, NodeAt, NodeCount, PooledCount
  <2>2. LiteralHeaders = {D + k : k \in 1 .. MaxLiterals} /\ D \in Nat
    <3>1. \A k : LiteralAt(k) = D + k
      BY DEF LiteralAt, HeaderAt, NodeAt, NodeCount, PooledCount
    <3>2. D \in Nat
      BY <1>1, <1>2
    <3> QED
      BY <3>1, <3>2 DEF LiteralHeaders
  <2> HIDE DEF B, D
  <2>3. \A n \in (B + 1) .. (B + PooledCount) : n - B \in 1 .. PooledCount /\ n = B + (n - B)
    BY <1>1, <1>2, <2>1
  <2>4. \A n \in (D + 1) .. (D + MaxLiterals) : n - D \in 1 .. MaxLiterals /\ n = D + (n - D)
    BY <1>1, <1>2, <2>2
  <2>5. Pooled = (B + 1) .. (B + PooledCount)
    BY <1>2, <2>1, <2>3
  <2>6. LiteralHeaders = (D + 1) .. (D + MaxLiterals)
    BY <1>1, <2>2, <2>4
  <2>7. D = B + PooledCount
    BY DEF D
  <2>8. Headers = (B + 1) .. (B + PooledCount + MaxLiterals)
    <3>1. Headers = ((B + 1) .. (B + PooledCount))
                    \cup ((B + PooledCount + 1) .. (B + PooledCount + MaxLiterals))
      BY <2>5, <2>6, <2>7 DEF Headers
    <3> QED
      BY <1>1, <1>2, <2>1, <3>1
  <2> QED
    BY <2>8 DEF B
<1>5. NULL \notin Nodes /\ NULL \notin Headers /\ Nodes \cap Headers = {}
  BY <1>1, <1>2, <1>3, <1>4 DEF NULL
<1>6. IsFiniteSet(Nodes) /\ Cardinality(Nodes) = NodeCount
  <2>1. /\ IsFiniteSet((MaxLength + 1) .. (MaxLength + NodeCount))
        /\ Cardinality((MaxLength + 1) .. (MaxLength + NodeCount)) = NodeCount
    BY <1>1, <1>2, FS_Interval
  <2> QED
    BY <1>3, <2>1
<1> QED
  BY <1>1, <1>2, <1>3, <1>4, <1>5, <1>6
-----------------------------------------------------------------------------
(* Nodes that move from one sequence to another. *)

(* The first node of a sequence is taken off.                              *)
LEMMA PopLemma ==
    ASSUME NEW P, NEW M, Part(P, M), NEW x \in DOMAIN P, P[x] # << >>
    PROVE  /\ P[x][1] \in Nodes /\ P[x][1] \in M
           /\ Part([P EXCEPT ![x] = Tail(P[x])], M \ {P[x][1]})
<1> DEFINE n == P[x][1]
           t == Tail(P[x])
           R == [P EXCEPT ![x] = t]
<1>1. P[x] \in Seq(Nodes) /\ Len(P[x]) \in Nat \ {0} /\ 1 \in 1 .. Len(P[x])
  BY DEF Part
<1>2. n \in Nodes /\ n \in M
  BY <1>1 DEF Part
<1>3. /\ t \in Seq(Nodes) /\ Len(t) = Len(P[x]) - 1
      /\ \A i \in 1 .. Len(t) : t[i] = P[x][i + 1] /\ i + 1 \in 1 .. Len(P[x])
  BY <1>1
<1>4. /\ DOMAIN R = DOMAIN P /\ R[x] = t
      /\ \A d \in DOMAIN P : d # x => R[d] = P[d]
  OBVIOUS
<1> HIDE DEF R, t
<1>5. \A d \in DOMAIN R : R[d] \in Seq(Nodes)
  BY <1>3, <1>4 DEF Part
<1>6. \A d \in DOMAIN R : \A i \in 1 .. Len(R[d]) :
        \E j \in 1 .. Len(P[d]) : R[d][i] = P[d][j] /\ j = IF d = x THEN i + 1 ELSE i
  BY <1>1, <1>3, <1>4
<1>7. Apart(R)
  <2> SUFFICES ASSUME NEW d \in DOMAIN R, NEW e \in DOMAIN R,
                      NEW i \in 1 .. Len(R[d]), NEW j \in 1 .. Len(R[e]), R[d][i] = R[e][j]
               PROVE  d = e /\ i = j
    BY DEF Apart
  <2>1. PICK u \in 1 .. Len(P[d]) : R[d][i] = P[d][u] /\ u = IF d = x THEN i + 1 ELSE i
    BY <1>6
  <2>2. PICK w \in 1 .. Len(P[e]) : R[e][j] = P[e][w] /\ w = IF e = x THEN j + 1 ELSE j
    BY <1>6
  <2>3. d = e /\ u = w
    <3>1. P[d][u] = P[e][w] /\ d \in DOMAIN P /\ e \in DOMAIN P
      BY <1>4, <2>1, <2>2
    <3>2. Apart(P)
      BY DEF Part
    <3> QED
      BY ONLY <3>1, <3>2, u \in 1 .. Len(P[d]), w \in 1 .. Len(P[e]) DEF Apart
  <2>4. Len(R[d]) \in Nat /\ Len(R[e]) \in Nat
    BY <1>5
  <2> QED
    BY <2>1, <2>2, <2>3, <2>4
<1>8. ASSUME NEW d \in DOMAIN R, NEW i \in 1 .. Len(R[d])
      PROVE  R[d][i] \in M \ {n}
  <2>1. PICK u \in 1 .. Len(P[d]) : R[d][i] = P[d][u] /\ u = IF d = x THEN i + 1 ELSE i
    BY <1>6
  <2>2. Len(R[d]) \in Nat
    BY <1>5
  <2>3. R[d][i] \in M
    BY <1>4, <2>1 DEF Part
  <2>4. P[d][u] = P[x][1] => d = x /\ u = 1
    BY <1>1, <1>4 DEF Part, Apart
  <2> QED
    BY <2>1, <2>2, <2>3, <2>4
<1>9. ASSUME NEW k \in M \ {n}
      PROVE  \E d \in DOMAIN R : \E i \in 1 .. Len(R[d]) : R[d][i] = k
  <2>1. PICK d \in DOMAIN P : \E i \in 1 .. Len(P[d]) : P[d][i] = k
    BY DEF Part
  <2>a. PICK i \in 1 .. Len(P[d]) : P[d][i] = k
    BY <2>1
  <2>2. CASE d # x
    BY <1>4, <2>a, <2>2
  <2>3. CASE d = x
    <3>1. i # 1 /\ i \in 1 .. Len(P[x])
      BY <2>a, <2>3
    <3>2. i - 1 \in 1 .. Len(t) /\ (i - 1) + 1 = i
      BY <1>1, <1>3, <3>1
    <3>3. t[i - 1] = k
      BY <1>3, <2>a, <2>3, <3>2
    <3> QED
      BY <1>4, <3>2, <3>3
  <2> QED
    BY <2>2, <2>3
<1>10. Part(R, M \ {n})
  BY <1>5, <1>7, <1>8, <1>9 DEF Part
<1> QED
  BY <1>2, <1>10 DEF R, t

(* A node that is in none of the sequences is put behind one, or in front. *)
LEMMA PushLemma ==
    ASSUME NEW P, NEW M, Part(P, M), NEW x \in DOMAIN P, NEW n \in Nodes, n \notin M
    PROVE  /\ Part([P EXCEPT ![x] = Append(P[x], n)], M \cup {n})
           /\ Part([P EXCEPT ![x] = <<n>> \o P[x]], M \cup {n})
<1>1. P[x] \in Seq(Nodes) /\ Len(P[x]) \in Nat
  BY DEF Part
<1>2. ASSUME NEW s \in Seq(Nodes), NEW o \in {0, 1}, NEW z \in 1 .. Len(P[x]) + 1,
             Len(s) = Len(P[x]) + 1, s[z] = n, z = (IF o = 0 THEN Len(s) ELSE 1),
             \A i \in 1 .. Len(P[x]) : s[i + o] = P[x][i]
      PROVE  Part([P EXCEPT ![x] = s], M \cup {n})
  <2> DEFINE R == [P EXCEPT ![x] = s]
  <2>1. /\ DOMAIN R = DOMAIN P /\ R[x] = s
        /\ \A d \in DOMAIN P : d # x => R[d] = P[d]
    OBVIOUS
  <2> HIDE DEF R
  <2>2. \A d \in DOMAIN R : R[d] \in Seq(Nodes)
    BY <2>1 DEF Part
  <2>3. ASSUME NEW d \in DOMAIN R, NEW i \in 1 .. Len(R[d])
        PROVE  \/ d = x /\ i = z /\ R[d][i] = n
               \/ \E u \in 1 .. Len(P[d]) : R[d][i] = P[d][u] /\ i = IF d = x THEN u + o ELSE u
    <3>1. CASE d # x
      BY <2>1, <3>1
    <3>2. CASE d = x
      <4>1. i \in 1 .. Len(P[x]) + 1
        BY <1>1, <1>2, <2>1, <3>2
      <4>2. CASE i = z
        BY <1>2, <2>1, <3>2, <4>2
      <4>3. CASE i # z
        <5>1. i - o \in 1 .. Len(P[x]) /\ (i - o) + o = i
          BY <1>1, <1>2, <4>1, <4>3
        <5>2. s[i] = P[x][i - o]
          BY <1>2, <5>1
        <5> QED
          BY <2>1, <3>2, <5>1, <5>2
      <4> QED
        BY <4>2, <4>3
    <3> QED
      BY <3>1, <3>2
  <2>4. \A d \in DOMAIN P : \A u \in 1 .. Len(P[d]) : P[d][u] # n
    BY <1>2 DEF Part
  <2>5. Apart(R)
    <3> SUFFICES ASSUME NEW d \in DOMAIN R, NEW e \in DOMAIN R,
                        NEW i \in 1 .. Len(R[d]), NEW j \in 1 .. Len(R[e]), R[d][i] = R[e][j]
                 PROVE  d = e /\ i = j
      BY DEF Apart
    <3>1. \/ d = x /\ i = z /\ R[d][i] = n
          \/ \E u \in 1 .. Len(P[d]) : R[d][i] = P[d][u] /\ i = IF d = x THEN u + o ELSE u
      BY <2>3
    <3>2. \/ e = x /\ j = z /\ R[e][j] = n
          \/ \E u \in 1 .. Len(P[e]) : R[e][j] = P[e][u] /\ j = IF e = x THEN u + o ELSE u
      BY <2>3
    <3>3. CASE R[d][i] = n
      BY <2>1, <2>4, <3>1, <3>2, <3>3
    <3>4. CASE R[d][i] # n
      <4>1. PICK u \in 1 .. Len(P[d]) : R[d][i] = P[d][u] /\ i = IF d = x THEN u + o ELSE u
        BY <3>1, <3>4
      <4>2. PICK w \in 1 .. Len(P[e]) : R[e][j] = P[e][w] /\ j = IF e = x THEN w + o ELSE w
        BY <3>2, <3>4
      <4>3. d = e /\ u = w
        <5>1. P[d][u] = P[e][w] /\ d \in DOMAIN P /\ e \in DOMAIN P
          BY <2>1, <4>1, <4>2
        <5>2. Apart(P)
          BY DEF Part
        <5> QED
          BY ONLY <5>1, <5>2, u \in 1 .. Len(P[d]), w \in 1 .. Len(P[e]) DEF Apart
      <4> QED
        BY <4>1, <4>2, <4>3
    <3> QED
      BY <3>3, <3>4
  <2>6. ASSUME NEW d \in DOMAIN R, NEW i \in 1 .. Len(R[d]) PROVE R[d][i] \in M \cup {n}
    BY <2>1, <2>3 DEF Part
  <2>7. ASSUME NEW k \in M \cup {n}
        PROVE  \E d \in DOMAIN R : \E i \in 1 .. Len(R[d]) : R[d][i] = k
    <3>1. CASE k = n
      BY <1>2, <2>1, <3>1
    <3>2. CASE k \in M
      <4>1. PICK d \in DOMAIN P : \E i \in 1 .. Len(P[d]) : P[d][i] = k
        BY <3>2 DEF Part
      <4>a. PICK i \in 1 .. Len(P[d]) : P[d][i] = k
        BY <4>1
      <4>2. CASE d # x
        BY <2>1, <4>a, <4>2
      <4>3. CASE d = x
        <5>1. i \in 1 .. Len(P[x]) /\ i + o \in 1 .. Len(s) /\ s[i + o] = k
          BY <1>1, <1>2, <4>a, <4>3
        <5> QED
          BY <2>1, <5>1
      <4> QED
        BY <4>2, <4>3
    <3> QED
      BY <3>1, <3>2
  <2>8. Part(R, M \cup {n})
    BY <2>2, <2>5, <2>6, <2>7 DEF Part
  <2> QED
    BY <2>8 DEF R
<1>3. Part([P EXCEPT ![x] = Append(P[x], n)], M \cup {n})
  <2> DEFINE s == Append(P[x], n)
  <2>1. /\ s \in Seq(Nodes) /\ Len(s) = Len(P[x]) + 1 /\ s[Len(s)] = n
        /\ \A i \in 1 .. Len(P[x]) : s[i + 0] = P[x][i]
        /\ Len(s) \in 1 .. Len(P[x]) + 1
    BY <1>1
  <2> HIDE DEF s
  <2>2. Part([P EXCEPT ![x] = s], M \cup {n})
    BY <1>2, <2>1
  <2> QED
    BY <2>2 DEF s
<1>4. Part([P EXCEPT ![x] = <<n>> \o P[x]], M \cup {n})
  <2> DEFINE s == <<n>> \o P[x]
  <2>1. /\ s \in Seq(Nodes) /\ Len(s) = Len(P[x]) + 1 /\ s[1] = n
        /\ \A i \in 1 .. Len(P[x]) : s[i + 1] = P[x][i]
        /\ 1 \in 1 .. Len(P[x]) + 1 /\ 1 \in {0, 1} /\ 1 = (IF 1 = 0 THEN Len(s) ELSE 1)
    BY <1>1
  <2> HIDE DEF s
  <2>2. Part([P EXCEPT ![x] = s], M \cup {n})
    BY ONLY <1>2, <2>1, Zenon
  <2> QED
    BY <2>2 DEF s
<1> QED
  BY <1>3, <1>4

(* A chunk of new nodes becomes one of the sequences.                      *)
LEMMA ChunkLemma ==
    ASSUME NEW P, NEW M, Part(P, M), NEW x \in DOMAIN P, P[x] = << >>,
           NEW s \in Seq(Nodes), NEW K,
           \A i \in 1 .. Len(s) : s[i] \in K /\ s[i] \notin M,
           \A i, j \in 1 .. Len(s) : s[i] = s[j] => i = j,
           \A n \in K : \E i \in 1 .. Len(s) : s[i] = n
    PROVE  Part([P EXCEPT ![x] = s], M \cup K)
<1> DEFINE R == [P EXCEPT ![x] = s]
<1>1. /\ DOMAIN R = DOMAIN P /\ R[x] = s
      /\ \A d \in DOMAIN P : d # x => R[d] = P[d]
  OBVIOUS
<1> HIDE DEF R
<1>2. \A d \in DOMAIN R : R[d] \in Seq(Nodes)
  BY <1>1 DEF Part
<1>3. ASSUME NEW d \in DOMAIN R, d # x, NEW i \in 1 .. Len(R[d])
      PROVE  R[d][i] \in M /\ R[d][i] = P[d][i] /\ i \in 1 .. Len(P[d])
  BY <1>1, <1>3 DEF Part
<1>4. Apart(R)
  <2> SUFFICES ASSUME NEW d \in DOMAIN R, NEW e \in DOMAIN R,
                      NEW i \in 1 .. Len(R[d]), NEW j \in 1 .. Len(R[e]), R[d][i] = R[e][j]
               PROVE  d = e /\ i = j
    BY DEF Apart
  <2>1. CASE d = x /\ e = x
    BY <1>1, <2>1
  <2>2. CASE d # x /\ e # x
    BY <1>1, <1>3, <2>2 DEF Part, Apart
  <2>3. CASE d = x /\ e # x
    BY <1>1, <1>3, <2>3
  <2>4. CASE d # x /\ e = x
    BY <1>1, <1>3, <2>4
  <2> QED
    BY <2>1, <2>2, <2>3, <2>4
<1>5. ASSUME NEW n \in M
      PROVE  \E d \in DOMAIN R : \E i \in 1 .. Len(R[d]) : R[d][i] = n
  <2>1. PICK d \in DOMAIN P : \E i \in 1 .. Len(P[d]) : P[d][i] = n
    BY DEF Part
  <2>a. PICK i \in 1 .. Len(P[d]) : P[d][i] = n
    BY <2>1
  <2>2. d # x
    BY <2>a
  <2> QED
    BY <1>1, <2>a, <2>2
<1>6. Part(R, M \cup K)
  BY <1>1, <1>2, <1>3, <1>4, <1>5 DEF Part
<1> QED
  BY <1>6 DEF R

(* A sequence that is empty may come or go.                                *)
LEMMA EmptyLemma ==
    ASSUME NEW P, NEW M, Part(P, M), NEW R,
           \A d \in DOMAIN P : (d \in DOMAIN R /\ R[d] = P[d]) \/ P[d] = << >>,
           \A d \in DOMAIN R : (d \in DOMAIN P /\ R[d] = P[d]) \/ R[d] = << >>
    PROVE  Part(R, M)
<1>1. \A d \in DOMAIN R : R[d] \in Seq(Nodes)
  <2>1. << >> \in Seq(Nodes)
    OBVIOUS
  <2> QED
    BY <2>1, Zenon DEF Part
<1>2. \A d \in DOMAIN R : \A i \in 1 .. Len(R[d]) : d \in DOMAIN P /\ R[d] = P[d]
  OBVIOUS
<1>3. \A d \in DOMAIN P : \A i \in 1 .. Len(P[d]) : d \in DOMAIN R /\ R[d] = P[d]
  OBVIOUS
<1>4. Apart(R)
  BY <1>2 DEF Part, Apart
<1> QED
  BY <1>1, <1>2, <1>3, <1>4 DEF Part

(* P after the first node of x has gone to y, whose nodes are now t.       *)
Move(P, x, y, t) ==
    [d \in DOMAIN P |-> IF d = x THEN Tail(P[x]) ELSE IF d = y THEN t ELSE P[d]]

(* Moving a node from one sequence to the front or the end of another      *)
(* keeps the parts apart.                                                  *)
LEMMA MovePartLemma ==
    ASSUME NEW P, NEW M, Part(P, M), NEW x \in DOMAIN P, NEW y \in DOMAIN P, x # y,
           P[x] # << >>, NEW t, t \in {Append(P[y], P[x][1]), <<P[x][1]>> \o P[y]}
    PROVE  Part(Move(P, x, y, t), M)
<1> DEFINE n == P[x][1]
           R == [P EXCEPT ![x] = Tail(P[x])]
<1>1. n \in Nodes /\ n \in M /\ Part(R, M \ {n})
  BY PopLemma
<1>2. DOMAIN R = DOMAIN P /\ R[y] = P[y] /\ y \in DOMAIN R
  OBVIOUS
<1>3. (M \ {n}) \cup {n} = M /\ n \notin M \ {n}
  BY <1>1
<1>4. Part([R EXCEPT ![y] = t], M)
  <2> HIDE DEF R, n
  <2>1. t \in {Append(R[y], n), <<n>> \o R[y]}
    BY <1>2 DEF n
  <2>2. /\ Part([R EXCEPT ![y] = Append(R[y], n)], (M \ {n}) \cup {n})
        /\ Part([R EXCEPT ![y] = <<n>> \o R[y]], (M \ {n}) \cup {n})
    BY ONLY <1>1, <1>2, <1>3, PushLemma
  <2> QED
    BY <1>3, <2>1, <2>2
<1>5. [R EXCEPT ![y] = t] = Move(P, x, y, t)
  BY DEF Move
<1> QED
  BY <1>4, <1>5

(* Sequences of nodes that a step leaves alone keep their links and their  *)
(* contents.                                                               *)
LEMMA FrameLemma ==
    ASSUME NEW h, NEW g, NEW s, \A i \in 1 .. Len(s) : g.node[s[i]] = h.node[s[i]]
    PROVE  /\ Linked(h, s) => Linked(g, s)
           /\ Contents(g, s) = Contents(h, s)
  BY DEF Linked, Contents

(* The rest of a linked sequence is linked.                                *)
LEMMA TailLemma ==
    ASSUME NEW h, NEW s \in Seq(Nodes), s # << >>
    PROVE  /\ Tail(s) \in Seq(Nodes) /\ Len(Tail(s)) = Len(s) - 1
           /\ \A i \in 1 .. Len(Tail(s)) : Tail(s)[i] = s[i + 1] /\ i + 1 \in 1 .. Len(s)
           /\ Linked(h, s) => Linked(h, Tail(s)) /\ h.node[s[1]].next = First(Tail(s))
           /\ Contents(h, Tail(s)) = Tail(Contents(h, s))
           /\ Tail(s) # << >> => Tail(s)[Len(Tail(s))] = s[Len(s)]
<1>1. /\ Tail(s) \in Seq(Nodes) /\ Len(Tail(s)) = Len(s) - 1 /\ Len(s) \in Nat \ {0}
      /\ \A i \in 1 .. Len(Tail(s)) : Tail(s)[i] = s[i + 1] /\ i + 1 \in 1 .. Len(s)
  OBVIOUS
<1>2. ASSUME Linked(h, s) PROVE Linked(h, Tail(s)) /\ h.node[s[1]].next = First(Tail(s))
  <2> DEFINE t == Tail(s)
  <2>1. t = << >> <=> Len(t) = 0
    BY <1>1
  <2> HIDE DEF t
  <2>2. Linked(h, t)
    <3> SUFFICES ASSUME NEW i \in 1 .. Len(t) PROVE h.node[t[i]].next = Link(t, i)
      BY DEF Linked
    <3>1. t[i] = s[i + 1] /\ i + 1 \in 1 .. Len(s) /\ Len(t) = Len(s) - 1
      BY <1>1 DEF t
    <3>2. h.node[s[i + 1]].next = Link(s, i + 1)
      BY <1>2, <3>1 DEF Linked
    <3>3. CASE i < Len(t)
      <4>1. i + 1 \in 1 .. Len(t) /\ i + 1 < Len(s)
        BY <1>1, <3>1, <3>3
      <4>2. t[i + 1] = s[(i + 1) + 1]
        BY <1>1, <4>1 DEF t
      <4> QED
        BY <3>1, <3>2, <3>3, <4>1, <4>2 DEF Link
    <3>4. CASE ~(i < Len(t))
      BY <1>1, <3>1, <3>2, <3>4 DEF Link
    <3> QED
      BY <3>3, <3>4
  <2>3. h.node[s[1]].next = Link(s, 1)
    BY <1>1, <1>2 DEF Linked
  <2>4. Link(s, 1) = First(t)
    BY <1>1, <2>1 DEF Link, First, t
  <2> QED
    BY <2>2, <2>3, <2>4 DEF t
<1>3. Contents(h, Tail(s)) = Tail(Contents(h, s))
  <2> DEFINE c == Contents(h, s)
             Pair == {<<h.node[n].type, h.node[n].value>> : n \in Nodes}
  <2>1. c \in Seq(Pair) /\ Len(c) = Len(s) /\ c # << >>
    BY <1>1 DEF Contents
  <2>2. \A i \in 1 .. Len(s) : c[i] = <<h.node[s[i]].type, h.node[s[i]].value>>
    BY DEF Contents
  <2> HIDE DEF c, Pair
  <2>3. /\ Tail(c) \in Seq(Pair) /\ Len(Tail(c)) = Len(s) - 1
        /\ \A i \in 1 .. Len(s) - 1 : Tail(c)[i] = c[i + 1]
    BY <2>1
  <2>4. \A i \in 1 .. Len(s) - 1 : i + 1 \in 1 .. Len(s) /\ Tail(s)[i] = s[i + 1]
    BY <1>1
  <2>5. /\ Contents(h, Tail(s)) \in Seq(Pair) /\ Len(Contents(h, Tail(s))) = Len(s) - 1
        /\ \A i \in 1 .. Len(s) - 1 : Contents(h, Tail(s))[i]
             = <<h.node[Tail(s)[i]].type, h.node[Tail(s)[i]].value>>
    <3> DEFINE t == Tail(s)
    <3>1. t \in Seq(Nodes) /\ Len(t) = Len(s) - 1
      BY <1>1
    <3> HIDE DEF t
    <3>2. /\ Contents(h, t) \in Seq(Pair) /\ Len(Contents(h, t)) = Len(s) - 1
          /\ \A i \in 1 .. Len(s) - 1 : Contents(h, t)[i]
               = <<h.node[t[i]].type, h.node[t[i]].value>>
      BY <1>1, <3>1 DEF Contents, Pair
    <3> QED
      BY <3>2 DEF t
  <2>6. \A i \in 1 .. Len(s) - 1 : Contents(h, Tail(s))[i] = Tail(c)[i]
    BY <2>2, <2>3, <2>4, <2>5
  <2>7. Contents(h, Tail(s)) = Tail(c)
    BY <1>1, <2>3, <2>5, <2>6, SeqEqual
  <2> QED
    BY <2>7 DEF c
<1>4. Tail(s) # << >> => Tail(s)[Len(Tail(s))] = s[Len(s)]
  <2>1. Tail(s) # << >> => Len(Tail(s)) \in 1 .. Len(Tail(s))
    BY <1>1
  <2> QED
    BY <1>1, <2>1
<1> QED
  BY <1>1, <1>2, <1>3, <1>4

(* What a sequence of nodes holds is a sequence of pairs.                  *)
LEMMA ContentsLemma ==
    ASSUME NEW h, NEW s \in Seq(Nodes)
    PROVE  /\ Contents(h, s) \in Seq({<<h.node[n].type, h.node[n].value>> : n \in Nodes})
           /\ Len(Contents(h, s)) = Len(s) /\ Len(s) \in Nat
           /\ \A i \in 1 .. Len(s) : /\ Contents(h, s)[i] = <<h.node[s[i]].type, h.node[s[i]].value>>
                                     /\ s[i] \in Nodes
           /\ DOMAIN Contents(h, s) = 1 .. Len(s)
  BY DEF Contents

(* What a sequence holds when a node has come to its end or its front.     *)
LEMMA GrowLemma ==
    ASSUME NEW h, NEW g, NEW s \in Seq(Nodes), NEW n \in Nodes,
           \A i \in 1 .. Len(s) : /\ g.node[s[i]].type = h.node[s[i]].type
                                  /\ g.node[s[i]].value = h.node[s[i]].value
    PROVE  /\ Contents(g, Append(s, n))
              = Append(Contents(h, s), <<g.node[n].type, g.node[n].value>>)
           /\ Contents(g, <<n>> \o s)
              = <<<<g.node[n].type, g.node[n].value>>>> \o Contents(h, s)
<1> DEFINE a == <<g.node[n].type, g.node[n].value>>
           D == {<<h.node[k].type, h.node[k].value>> : k \in Nodes} \cup {a}
                \cup {<<g.node[k].type, g.node[k].value>> : k \in Nodes}
           c == Contents(h, s)
           t == Append(s, n)
           r == <<n>> \o s
<1>1. /\ Len(c) = Len(s) /\ Len(s) \in Nat /\ c \in Seq(D) /\ a \in D
      /\ \A i \in 1 .. Len(s) : c[i] = <<g.node[s[i]].type, g.node[s[i]].value>>
  <2>1. c \in Seq({<<h.node[k].type, h.node[k].value>> : k \in Nodes})
    BY ContentsLemma
  <2>2. c \in Seq(D)
    BY <2>1, SeqMonotonic
  <2>3. /\ Len(c) = Len(s) /\ Len(s) \in Nat
        /\ \A i \in 1 .. Len(s) : c[i] = <<h.node[s[i]].type, h.node[s[i]].value>>
    BY ContentsLemma
  <2> QED
    BY <2>2, <2>3
<1>2. /\ t \in Seq(Nodes) /\ Len(t) = Len(s) + 1 /\ t[Len(s) + 1] = n
      /\ \A i \in 1 .. Len(s) : t[i] = s[i]
      /\ r \in Seq(Nodes) /\ Len(r) = Len(s) + 1 /\ r[1] = n
      /\ \A i \in 1 .. Len(s) + 1 : i # 1 => r[i] = s[i - 1] /\ i - 1 \in 1 .. Len(s)
  BY <1>1
<1> HIDE DEF t, r
<1>3. /\ Len(Contents(g, t)) = Len(s) + 1 /\ Len(Contents(g, r)) = Len(s) + 1
      /\ \A i \in 1 .. Len(s) + 1 : /\ Contents(g, t)[i] = <<g.node[t[i]].type, g.node[t[i]].value>>
                                    /\ Contents(g, r)[i] = <<g.node[r[i]].type, g.node[r[i]].value>>
  <2>1. /\ Len(Contents(g, t)) = Len(t)
        /\ \A i \in 1 .. Len(t) : Contents(g, t)[i] = <<g.node[t[i]].type, g.node[t[i]].value>>
    BY <1>2, ContentsLemma
  <2>2. /\ Len(Contents(g, r)) = Len(r)
        /\ \A i \in 1 .. Len(r) : Contents(g, r)[i] = <<g.node[r[i]].type, g.node[r[i]].value>>
    BY <1>2, ContentsLemma
  <2> QED
    BY <1>2, <2>1, <2>2
<1>4. Contents(g, t) \in Seq(D) /\ Contents(g, r) \in Seq(D)
  <2>1. /\ Contents(g, t) \in Seq({<<g.node[k].type, g.node[k].value>> : k \in Nodes})
        /\ Contents(g, r) \in Seq({<<g.node[k].type, g.node[k].value>> : k \in Nodes})
    BY <1>2, ContentsLemma
  <2> QED
    BY <2>1, SeqMonotonic
<1> HIDE DEF D, c, a
<1>5. Contents(g, t) = Append(c, a)
  <2>1. /\ Append(c, a) \in Seq(D) /\ Len(Append(c, a)) = Len(s) + 1
        /\ Append(c, a)[Len(s) + 1] = a /\ \A i \in 1 .. Len(s) : Append(c, a)[i] = c[i]
    BY <1>1
  <2>2. ASSUME NEW i \in 1 .. Len(s) + 1 PROVE Contents(g, t)[i] = Append(c, a)[i]
    <3>1. CASE i = Len(s) + 1
      BY <1>1, <1>2, <1>3, <2>1, <3>1 DEF a
    <3>2. CASE i # Len(s) + 1
      <4>1. i \in 1 .. Len(s)
        BY <1>1, <3>2
      <4> QED
        BY <1>1, <1>2, <1>3, <2>1, <4>1
    <3> QED
      BY <3>1, <3>2
  <2> QED
    BY <1>3, <1>4, <2>1, <2>2, SeqEqual
<1>6. Contents(g, r) = <<a>> \o c
  <2>1. <<a>> \in Seq(D) /\ Len(<<a>>) = 1 /\ <<a>>[1] = a
    BY <1>1
  <2>2. /\ <<a>> \o c \in Seq(D) /\ Len(<<a>> \o c) = Len(s) + 1
        /\ (<<a>> \o c)[1] = a /\ \A i \in 1 .. Len(s) + 1 : i # 1 => (<<a>> \o c)[i] = c[i - 1]
    BY <1>1, <2>1
  <2>3. ASSUME NEW i \in 1 .. Len(s) + 1 PROVE Contents(g, r)[i] = (<<a>> \o c)[i]
    <3>1. CASE i = 1
      BY <1>1, <1>2, <1>3, <2>2, <3>1 DEF a
    <3>2. CASE i # 1
      BY <1>1, <1>2, <1>3, <2>2, <3>2
    <3> QED
      BY <3>1, <3>2
  <2> QED
    BY <1>3, <1>4, <2>2, <2>3, SeqEqual
<1> QED
  BY <1>5, <1>6 DEF c, t, r, a

(* A sequence with one more node at its end or its front is linked.        *)
LEMMA GrowLinkLemma ==
    ASSUME NEW g, NEW s \in Seq(Nodes), NEW n \in Nodes
    PROVE  /\ (/\ g.node[n].next = NULL
               /\ \A i \in 1 .. Len(s) :
                    g.node[s[i]].next = IF i < Len(s) THEN s[i + 1] ELSE n)
              => Linked(g, Append(s, n))
           /\ g.node[n].next = First(s) /\ Linked(g, s) => Linked(g, <<n>> \o s)
<1>1. Len(s) \in Nat /\ (s = << >> <=> Len(s) = 0)
  OBVIOUS
<1>2. ASSUME g.node[n].next = NULL,
             \A i \in 1 .. Len(s) : g.node[s[i]].next = IF i < Len(s) THEN s[i + 1] ELSE n
      PROVE  Linked(g, Append(s, n))
  <2> DEFINE t == Append(s, n)
  <2>1. Len(t) = Len(s) + 1 /\ t[Len(s) + 1] = n /\ \A i \in 1 .. Len(s) : t[i] = s[i]
    OBVIOUS
  <2> HIDE DEF t
  <2>2. \A i \in 1 .. Len(t) : g.node[t[i]].next = Link(t, i)
    BY <1>1, <1>2, <2>1 DEF Link
  <2> QED
    BY <2>2 DEF Linked, t
<1>3. ASSUME g.node[n].next = First(s), Linked(g, s) PROVE Linked(g, <<n>> \o s)
  <2> DEFINE t == <<n>> \o s
  <2>1. Len(t) = Len(s) + 1 /\ t[1] = n /\ \A i \in 1 .. Len(s) : t[i + 1] = s[i]
    OBVIOUS
  <2> HIDE DEF t
  <2>2. ASSUME NEW i \in 1 .. Len(t) PROVE g.node[t[i]].next = Link(t, i)
    <3>1. CASE i = 1
      BY <1>1, <1>3, <2>1, <3>1 DEF Link, First
    <3>2. CASE i # 1
      <4>1. i - 1 \in 1 .. Len(s) /\ (i - 1) + 1 = i
        BY <1>1, <2>1, <3>2
      <4>2. t[i] = s[i - 1] /\ g.node[s[i - 1]].next = Link(s, i - 1)
        BY <1>3, <2>1, <4>1 DEF Linked
      <4>3. i - 1 < Len(s) => i \in 1 .. Len(s) /\ t[i + 1] = s[i]
        BY <1>1, <2>1, <4>1
      <4> QED
        BY <1>1, <2>1, <4>1, <4>2, <4>3 DEF Link
    <3> QED
      BY <3>1, <3>2
  <2> QED
    BY <2>2 DEF Linked, t
<1> QED
  BY <1>2, <1>3

(* The step from h to g touches no node but n and those of s.              *)
Only(g, h, n, s) ==
    \A k \in Nodes : k # n /\ (\A i \in 1 .. Len(s) : k # s[i]) => g.node[k] = h.node[k]

(* What happens to the other sequences when a node moves.                  *)
LEMMA MoveLemma ==
    ASSUME NEW h, NEW g, NEW L, NEW P, Shape(h, L, P), NEW x \in DOMAIN P, NEW y \in DOMAIN P,
           x # y, P[x] # << >>, NEW t, t \in {Append(P[y], P[x][1]), <<P[x][1]>> \o P[y]},
           g.chunks = h.chunks, Linked(g, t), Only(g, h, P[x][1], P[y])
    PROVE  /\ Part(Move(P, x, y, t), Malloced(g))
           /\ \A d \in DOMAIN Move(P, x, y, t) : Linked(g, Move(P, x, y, t)[d])
           /\ \A d \in DOMAIN P \ {x, y} : Contents(g, P[d]) = Contents(h, P[d])
           /\ Contents(g, Tail(P[x])) = Tail(Contents(h, P[x]))
<1>1. Part(P, Malloced(h)) /\ \A d \in DOMAIN P : P[d] \in Seq(Nodes) /\ Linked(h, P[d])
  BY DEF Shape, Part
<1>2. Apart(P)
  BY <1>1 DEF Part
<1>3. Part(Move(P, x, y, t), Malloced(g))
  <2>1. Malloced(g) = Malloced(h)
    BY DEF Malloced
  <2> QED
    BY <1>1, <2>1, MovePartLemma
<1>4. \A d \in DOMAIN P \ {x, y} : \A i \in 1 .. Len(P[d]) : g.node[P[d][i]] = h.node[P[d][i]]
  <2> SUFFICES ASSUME NEW d \in DOMAIN P \ {x, y}, NEW i \in 1 .. Len(P[d])
               PROVE  g.node[P[d][i]] = h.node[P[d][i]]
    OBVIOUS
  <2>1. P[d][i] \in Nodes /\ 1 \in 1 .. Len(P[x])
    BY <1>1
  <2>2. P[d][i] # P[x][1] /\ \A j \in 1 .. Len(P[y]) : P[d][i] # P[y][j]
    BY <1>2, <2>1 DEF Apart
  <2> QED
    BY <2>1, <2>2 DEF Only
<1>5. /\ \A i \in 1 .. Len(Tail(P[x])) : g.node[Tail(P[x])[i]] = h.node[Tail(P[x])[i]]
      /\ Linked(h, Tail(P[x])) /\ Contents(h, Tail(P[x])) = Tail(Contents(h, P[x]))
  <2>1. /\ \A i \in 1 .. Len(Tail(P[x])) : Tail(P[x])[i] = P[x][i + 1] /\ i + 1 \in 1 .. Len(P[x])
        /\ Linked(h, Tail(P[x])) /\ Contents(h, Tail(P[x])) = Tail(Contents(h, P[x]))
        /\ Len(Tail(P[x])) \in Nat
    BY <1>1, TailLemma
  <2>2. ASSUME NEW i \in 1 .. Len(Tail(P[x])) PROVE g.node[Tail(P[x])[i]] = h.node[Tail(P[x])[i]]
    <3>1. /\ Tail(P[x])[i] = P[x][i + 1] /\ i + 1 \in 1 .. Len(P[x]) /\ P[x][i + 1] \in Nodes
          /\ 1 \in 1 .. Len(P[x]) /\ i + 1 # 1
      BY <1>1, <2>1
    <3>2. P[x][i + 1] # P[x][1] /\ \A j \in 1 .. Len(P[y]) : P[x][i + 1] # P[y][j]
      BY ONLY <1>2, <3>1, x # y, x \in DOMAIN P, y \in DOMAIN P DEF Apart
    <3> QED
      BY <3>1, <3>2 DEF Only
  <2> QED
    BY <2>1, <2>2
<1>6. \A d \in DOMAIN P \ {x, y} : Contents(g, P[d]) = Contents(h, P[d]) /\ Linked(g, P[d])
  BY <1>1, <1>4, FrameLemma
<1>7. Contents(g, Tail(P[x])) = Tail(Contents(h, P[x])) /\ Linked(g, Tail(P[x]))
  BY <1>5, FrameLemma
<1>8. \A d \in DOMAIN Move(P, x, y, t) : Linked(g, Move(P, x, y, t)[d])
  BY <1>6, <1>7 DEF Move
<1> QED
  BY <1>3, <1>6, <1>7, <1>8

-----------------------------------------------------------------------------
(* The steps on nodes. *)

(* The parts of a heap.                                                    *)
LEMMA HeapFields ==
    ASSUME NEW h \in HeapType
    PROVE  /\ h.node \in [Nodes -> NodeType] /\ h.header \in [Headers -> HeaderType]
           /\ h.free \in Nodes \cup {NULL} /\ h.hfree \in Headers \cup {NULL}
           /\ h.count \in Nat /\ h.chunks \in 0 .. MaxChunks
           /\ h.hchunks \in 0 .. MaxHeaderChunks
           /\ h.literals \in 0 .. MaxLiterals /\ h.strings \subseteq Strings
           /\ h.fault \in {"none", "exit", "null", "undefined"}
  BY DEF HeapType

(* A heap with the same nodes stores the same, in lists whose headers fit. *)
LEMMA SameNodes ==
    ASSUME NEW h, NEW g \in HeapType, NEW L, NEW C, NEW P, Stores(h, L, C, P),
           g.node = h.node, g.free = h.free, g.count = h.count, g.chunks = h.chunks,
           NEW K, K \subseteq DOMAIN C, \A l \in K : Heads(g, l, P[l])
    PROVE  Stores(g, K, C, P)
<1>1. Malloced(g) = Malloced(h)
  BY DEF Malloced
<1>2. \A d \in DOMAIN P : Linked(g, P[d]) /\ Contents(g, P[d]) = Contents(h, P[d])
  BY FrameLemma DEF Stores, Shape
<1>3. Shape(g, K, P)
  BY <1>1, <1>2 DEF Stores, Shape
<1> QED
  BY <1>2, <1>3 DEF Stores

(* A fault changes nothing else.                                           *)
LEMMA FaultLemma ==
    ASSUME NEW h \in HeapType, NEW f \in {"none", "exit", "null", "undefined"},
           NEW g, g = [h EXCEPT !.fault = f]
    PROVE  /\ g \in HeapType /\ g.fault = f /\ g.node = h.node /\ g.header = h.header
           /\ g.free = h.free /\ g.hfree = h.hfree /\ g.count = h.count /\ g.chunks = h.chunks
           /\ g.hchunks = h.hchunks /\ g.literals = h.literals /\ g.strings = h.strings
  BY DEF HeapType

(* What is the same after a step on nodes alone.                           *)
OnNodes(g, h) ==
    /\ g \in HeapType /\ g.fault = "none" /\ g.hfree = h.hfree /\ g.hchunks = h.hchunks
    /\ g.literals = h.literals /\ g.strings = h.strings

(* The nodes of the next chunk.                                            *)
NewChunk(h) == [i \in 1 .. INITIAL_FREELIST_CHUNK_SIZE |->
                  NodeAt(h.chunks * INITIAL_FREELIST_CHUNK_SIZE + i)]

(* The addresses of the next chunk.                                        *)
LEMMA NewChunkLemma ==
    ASSUME NEW h \in HeapType, h.chunks # MaxChunks, NEW K,
           K = {NodeAt(k) : k \in 1 .. (INITIAL_FREELIST_CHUNK_SIZE * (h.chunks + 1))}
    PROVE  LET c == NewChunk(h)
               b == MaxLength + h.chunks * INITIAL_FREELIST_CHUNK_SIZE
               e == b + INITIAL_FREELIST_CHUNK_SIZE IN
           /\ c \in Seq(Nodes) /\ Len(c) = INITIAL_FREELIST_CHUNK_SIZE
           /\ b \in Nat /\ e \in Nat /\ b < e
           /\ \A i \in 1 .. Len(c) : c[i] = b + i
           /\ Malloced(h) = (MaxLength + 1) .. b
           /\ K = (MaxLength + 1) .. e
           /\ K = Malloced(h) \cup {c[i] : i \in 1 .. Len(c)}
<1> DEFINE N == INITIAL_FREELIST_CHUNK_SIZE
           c == NewChunk(h)
           p == N * h.chunks
           q == N * (h.chunks + 1)
           b == MaxLength + h.chunks * N
           e == b + N
<1>1. /\ N \in Nat \ {0} /\ MaxLength \in Nat /\ MaxChunks \in Nat
      /\ h.chunks \in 0 .. MaxChunks /\ h.chunks + 1 \in 0 .. MaxChunks
  BY ListAssumption, HeapFields
<1>2. /\ p \in Nat /\ q = p + N /\ q <= NodeCount /\ b = MaxLength + p /\ e = MaxLength + p + N
      /\ \A i \in 1 .. N : NodeAt(h.chunks * N + i) = MaxLength + (p + i)
  <2>1. /\ N * h.chunks \in Nat /\ N * (h.chunks + 1) = N * h.chunks + N
        /\ N * h.chunks = h.chunks * N
    BY <1>1, ProductLemma
  <2>2. N * (h.chunks + 1) <= N * MaxChunks
    BY <1>1, ProductLemma
  <2> QED
    BY <2>1, <2>2 DEF NodeCount, NodeAt
<1>3. NodeCount \in Nat /\ Nodes = (MaxLength + 1) .. (MaxLength + NodeCount)
  BY AddressLemma
<1> HIDE DEF b, e, N, p, q
<1>4. b \in Nat /\ e \in Nat /\ b < e /\ e <= MaxLength + NodeCount /\ b >= MaxLength
      /\ e = MaxLength + q /\ e = b + N
  BY <1>1, <1>2, <1>3
<1>5. \A i \in 1 .. N : NodeAt(h.chunks * N + i) = b + i
  BY <1>1, <1>2
<1>6. c \in Seq(Nodes) /\ Len(c) = N /\ \A i \in 1 .. N : c[i] = b + i
  <2>1. c = [i \in 1 .. N |-> b + i]
    BY <1>5 DEF NewChunk, N
  <2>2. \A i \in 1 .. N : b + i \in Nodes
    BY <1>1, <1>3, <1>4
  <2> HIDE DEF c
  <2> QED
    BY <1>1, <2>1, <2>2
<1>7. \A k : NodeAt(k) = MaxLength + k
  BY DEF NodeAt
<1>8. Malloced(h) = (MaxLength + 1) .. b
  <2>1. Malloced(h) = {MaxLength + k : k \in 1 .. p}
    BY <1>7 DEF Malloced, N, p
  <2>2. \A n \in (MaxLength + 1) .. b :
          n - MaxLength \in 1 .. p /\ n = MaxLength + (n - MaxLength)
    BY <1>1, <1>2, <1>4
  <2>3. \A k \in 1 .. p : MaxLength + k \in (MaxLength + 1) .. b
    BY <1>1, <1>2, <1>4
  <2> QED
    BY <2>1, <2>2, <2>3
<1>9. K = (MaxLength + 1) .. e
  <2>1. K = {MaxLength + k : k \in 1 .. q}
    BY <1>7 DEF N, q
  <2>2. \A n \in (MaxLength + 1) .. e :
          n - MaxLength \in 1 .. q /\ n = MaxLength + (n - MaxLength)
    BY <1>1, <1>2, <1>4
  <2>3. \A k \in 1 .. q : MaxLength + k \in (MaxLength + 1) .. e
    BY <1>1, <1>2, <1>4
  <2> QED
    BY <2>1, <2>2, <2>3
<1>10. K = Malloced(h) \cup {c[i] : i \in 1 .. Len(c)}
  <2>1. {c[i] : i \in 1 .. Len(c)} = {b + i : i \in 1 .. N}
    BY <1>6
  <2>2. \A n \in (b + 1) .. e : n - b \in 1 .. N /\ n = b + (n - b)
    BY <1>1, <1>4
  <2>3. {b + i : i \in 1 .. N} = (b + 1) .. e
    BY <1>1, <1>4, <2>2
  <2> QED
    <3>1. (MaxLength + 1) .. e = ((MaxLength + 1) .. b) \cup ((b + 1) .. e)
      BY <1>1, <1>4
    <3> QED
      BY <1>8, <1>9, <2>1, <2>3, <3>1
<1> QED
  BY <1>4, <1>6, <1>8, <1>9, <1>10 DEF N, b, e

(* replenishFreelist puts the new chunk on the empty free list.            *)
LEMMA ReplenishLemma ==
    ASSUME NEW h, NEW L, NEW C, NEW P, Stores(h, L, C, P), h.fault = "none",
           h.free = NULL, h.chunks # MaxChunks, NEW g, g = replenishFreelist(h)
    PROVE  /\ OnNodes(g, h) /\ g.header = h.header
           /\ Stores(g, L, C, [P EXCEPT ![NULL] = NewChunk(h)]) /\ NewChunk(h) # << >>
<1> DEFINE c == NewChunk(h)
           N == INITIAL_FREELIST_CHUNK_SIZE
           b == MaxLength + h.chunks * N
           e == b + N
           K == {NodeAt(k) : k \in 1 .. (N * (h.chunks + 1))}
           R == [P EXCEPT ![NULL] = c]
<1>1. /\ h \in HeapType /\ Part(P, Malloced(h)) /\ NULL \in DOMAIN P
      /\ \A d \in DOMAIN P : P[d] \in Seq(Nodes) /\ Linked(h, P[d])
      /\ h.free = First(P[NULL]) /\ h.count = Len(P[NULL])
  BY DEF Stores, Shape, Part
<1>2. /\ c \in Seq(Nodes) /\ Len(c) = N /\ b \in Nat /\ e \in Nat /\ b < e
      /\ \A i \in 1 .. Len(c) : c[i] = b + i
      /\ Malloced(h) = (MaxLength + 1) .. b
      /\ K = Malloced(h) \cup {c[i] : i \in 1 .. Len(c)}
  BY <1>1, NewChunkLemma
<1>3. N \in Nat \ {0} /\ NULL \notin Nodes /\ MaxLength \in Nat /\ NULL \notin Headers
  BY ListAssumption, AddressLemma
<1>4. P[NULL] = << >>
  BY <1>1, <1>3 DEF First
<1>5. NodeAt(h.chunks * N + 1) = b + 1 /\ NodeAt((h.chunks * N + 1) + N - 1) = e
  <2>1. h.chunks * N = b - MaxLength /\ b - MaxLength \in Int
    <3>1. h.chunks \in Nat
      BY <1>1, HeapFields, ListAssumption
    <3>2. h.chunks * N \in Nat
      BY <1>3, <3>1, ProductLemma
    <3> HIDE DEF N
    <3> QED
      BY <1>3, <3>2
  <2> HIDE DEF b, N
  <2>2. (b - MaxLength) + 1 \in Int
    BY <1>2, <1>3
  <2> QED
    BY <1>2, <1>3, <2>1 DEF NodeAt, e
<1> HIDE DEF c, b, N
<1>6. g = [h EXCEPT
            !.node = [n \in Nodes |->
                        IF n = e THEN [h.node[n] EXCEPT !.next = h.free]
                        ELSE IF n \in (b + 1) .. e
                        THEN [h.node[n] EXCEPT !.next = n + 1] ELSE h.node[n]],
            !.free = b + 1, !.count = h.count + N, !.chunks = h.chunks + 1]
  BY <1>5 DEF replenishFreelist, N
<1> DEFINE nd == [n \in Nodes |->
                        IF n = e THEN [h.node[n] EXCEPT !.next = h.free]
                        ELSE IF n \in (b + 1) .. e
                        THEN [h.node[n] EXCEPT !.next = n + 1] ELSE h.node[n]]
<1> HIDE DEF nd, e
<1>6a. e = b + N
  BY DEF e
<1>7. \A n \in (b + 1) .. e : n \in Nodes
  <2>1. \A n \in (b + 1) .. e : n - b \in 1 .. Len(c) /\ n = b + (n - b)
    BY <1>2, <1>3, <1>6a
  <2> QED
    BY <1>2, <2>1
<1>8. /\ g = [h EXCEPT !.node = nd, !.free = b + 1, !.count = h.count + N, !.chunks = h.chunks + 1]
  BY <1>6 DEF nd
<1>9. nd \in [Nodes -> NodeType]
  <2>1. \A n \in (b + 1) .. e : n # e => n + 1 \in Nodes
    BY <1>2, <1>3, <1>7
  <2>2. \A n \in Nodes : h.node[n] \in NodeType
    BY <1>1, HeapFields
  <2> QED
    BY <2>1, <2>2 DEF nd, NodeType
<1>10. /\ g \in HeapType /\ g.fault = "none" /\ g.hfree = h.hfree /\ g.hchunks = h.hchunks
       /\ g.literals = h.literals /\ g.strings = h.strings /\ g.header = h.header
       /\ g.node = nd /\ g.free = b + 1 /\ g.count = h.count + N /\ g.chunks = h.chunks + 1
  <2>1. /\ b + 1 \in Nodes /\ h.count + N \in Nat /\ h.chunks + 1 \in 0 .. MaxChunks
    <3>1. h.count \in Nat /\ h.chunks \in 0 .. MaxChunks /\ MaxChunks \in Nat
      BY <1>1, HeapFields, ListAssumption
    <3>2. b + 1 \in (b + 1) .. e
      BY <1>2
    <3> QED
      BY <1>3, <1>7, <3>1, <3>2
  <2> HIDE DEF N
  <2> QED
    BY <1>1, <1>8, <1>9, <2>1 DEF HeapType
<1>11. /\ DOMAIN R = DOMAIN P /\ R[NULL] = c
       /\ \A d \in DOMAIN P : d # NULL => R[d] = P[d]
  BY <1>1
<1>12. Malloced(g) = K
  BY <1>10 DEF Malloced, N
<1>13. Part(R, Malloced(g))
  <2> DEFINE J == {c[i] : i \in 1 .. Len(c)}
  <2>1. \A i \in 1 .. Len(c) : c[i] \in J /\ c[i] \notin Malloced(h)
    BY <1>2, <1>3
  <2>2. \A i, j \in 1 .. Len(c) : c[i] = c[j] => i = j
    BY <1>2, <1>3
  <2>3. \A n \in J : \E i \in 1 .. Len(c) : c[i] = n
    OBVIOUS
  <2> HIDE DEF J
  <2>4. Part([P EXCEPT ![NULL] = c], Malloced(h) \cup J)
    BY <1>1, <1>2, <1>4, <2>1, <2>2, <2>3, ChunkLemma
  <2> QED
    BY <1>2, <1>12, <2>4 DEF J
<1>14. \A d \in DOMAIN P : d # NULL => \A i \in 1 .. Len(P[d]) : nd[P[d][i]] = h.node[P[d][i]]
  <2> SUFFICES ASSUME NEW d \in DOMAIN P, NEW i \in 1 .. Len(P[d])
               PROVE  nd[P[d][i]] = h.node[P[d][i]]
    OBVIOUS
  <2>1. P[d][i] \in Nodes /\ P[d][i] \in Malloced(h)
    BY <1>1 DEF Part
  <2>2. P[d][i] # e /\ P[d][i] \notin (b + 1) .. e
    BY <1>2, <1>3, <2>1
  <2> QED
    BY <2>1, <2>2 DEF nd
<1>15. \A d \in DOMAIN P : d # NULL => Linked(g, P[d]) /\ Contents(g, P[d]) = Contents(h, P[d])
  <2> SUFFICES ASSUME NEW d \in DOMAIN P, d # NULL
               PROVE  Linked(g, P[d]) /\ Contents(g, P[d]) = Contents(h, P[d])
    OBVIOUS
  <2>1. \A i \in 1 .. Len(P[d]) : g.node[P[d][i]] = h.node[P[d][i]]
    BY <1>10, <1>14
  <2>2. Linked(h, P[d])
    BY <1>1
  <2> QED
    BY ONLY <2>1, <2>2, FrameLemma
<1>16. Linked(g, c)
  <2> SUFFICES ASSUME NEW i \in 1 .. Len(c) PROVE g.node[c[i]].next = Link(c, i)
    BY DEF Linked
  <2>1. c[i] = b + i /\ c[i] \in Nodes /\ c[i] \in (b + 1) .. e /\ i \in 1 .. N
    BY <1>2, <1>3, <1>6a
  <2>2. h.node[c[i]] \in NodeType
    BY <1>1, <2>1, HeapFields
  <2>3. CASE i = N
    <3>1. c[i] = e
      BY <1>6a, <2>1, <2>3
    <3>2. nd[c[i]].next = NULL
      BY <2>1, <2>2, <3>1 DEF nd, NodeType
    <3> QED
      BY <1>2, <1>10, <2>3, <3>2, <1>3 DEF Link
  <2>4. CASE i # N
    <3>1. c[i] # e /\ i + 1 \in 1 .. Len(c) /\ i < Len(c)
      BY <1>2, <1>3, <1>6a, <2>1, <2>4
    <3>2. nd[c[i]].next = c[i] + 1
      BY <2>1, <2>2, <3>1 DEF nd, NodeType
    <3>3. c[i + 1] = c[i] + 1
      BY <1>2, <2>1, <3>1
    <3> QED
      BY <1>10, <3>1, <3>2, <3>3 DEF Link
  <2> QED
    BY <2>3, <2>4
<1>17. c # << >> /\ First(c) = b + 1
  BY <1>2, <1>3 DEF First
<1>18. \A l \in L : l # NULL /\ l \in DOMAIN P /\ Heads(g, l, P[l])
  BY <1>3, <1>10 DEF Stores, Shape, Heads
<1> HIDE DEF R
<1>19. Shape(g, L, R)
  <2>1. \A d \in DOMAIN R : Linked(g, R[d])
    BY <1>11, <1>15, <1>16
  <2>2. g.free = First(R[NULL]) /\ g.count = Len(R[NULL])
    <3>1. h.count = 0
      BY <1>1, <1>4
    <3> QED
      BY <1>2, <1>3, <1>10, <1>11, <1>17, <3>1
  <2>3. \A l \in L : Heads(g, l, R[l])
    BY <1>11, <1>18
  <2>4. NULL \in DOMAIN R /\ L \subseteq DOMAIN R /\ L \subseteq Headers
    BY <1>11 DEF Stores, Shape
  <2> QED
    BY <1>13, <2>1, <2>2, <2>3, <2>4 DEF Shape
<1>20. \A d \in DOMAIN C : C[d] = Contents(g, R[d])
  BY <1>3, <1>11, <1>15 DEF Stores
<1>21. Stores(g, L, C, R)
  BY <1>10, <1>11, <1>19, <1>20 DEF Stores
<1> QED
  BY <1>10, <1>17, <1>21 DEF OnNodes, R, c

(* The first half of getNodeFromFreelist: a node is there, or the process  *)
(* has given up.                                                           *)
LEMMA WithNodeLemma ==
    ASSUME NEW h, NEW L, NEW C, NEW P, Stores(h, L, C, P), h.fault = "none",
           NEW g, g = WithNode(h)
    PROVE  \/ g = [h EXCEPT !.fault = "exit"]
           \/ /\ OnNodes(g, h) /\ g.header = h.header /\ g.free # NULL
              /\ \E R : /\ Stores(g, L, C, R) /\ R[NULL] # << >>
                        /\ \A d \in DOMAIN C : R[d] = P[d]
<1>1. NULL \in DOMAIN P /\ h \in HeapType /\ DOMAIN C \subseteq Headers /\ NULL \notin Headers
      /\ h.free = First(P[NULL])
  BY AddressLemma DEF Stores, Shape
<1>2. CASE h.free # NULL
  <2>1. g = h /\ P[NULL] # << >>
    BY <1>1, <1>2 DEF WithNode, First
  <2> QED
    BY <1>1, <1>2, <2>1 DEF OnNodes
<1>3. CASE h.free = NULL /\ h.chunks = MaxChunks
  BY <1>3 DEF WithNode, replenishFreelist
<1>4. CASE h.free = NULL /\ h.chunks # MaxChunks
  <2> DEFINE R == [P EXCEPT ![NULL] = NewChunk(h)]
  <2>1. g = replenishFreelist(h)
    BY <1>4 DEF WithNode
  <2>2. /\ OnNodes(g, h) /\ g.header = h.header /\ Stores(g, L, C, R) /\ NewChunk(h) # << >>
    BY <1>4, <2>1, ReplenishLemma
  <2>3. R[NULL] # << >> /\ \A d \in DOMAIN C : R[d] = P[d]
    <3>1. \A d \in DOMAIN C : d # NULL
      BY <1>1
    <3> QED
      BY <1>1, <2>2, <3>1
  <2>4. g.free # NULL
    <3>1. g.free = First(R[NULL]) /\ R[NULL] \in Seq(Nodes) /\ NULL \notin Nodes
      BY <1>1, <2>2, AddressLemma DEF Stores, Shape, Part
    <3> QED
      BY <2>3, <3>1 DEF First
  <2> QED
    BY <2>2, <2>3, <2>4
<1> QED
  BY <1>2, <1>3, <1>4

(* What the heap stores once the first free node is the last, or the       *)
(* first, of list m.                                                       *)
LEMMA LinkInLemma ==
    ASSUME NEW h, NEW L, NEW C, NEW P, Stores(h, L, C, P), P[NULL] # << >>, NEW m \in L,
           NEW g \in HeapType, g.chunks = h.chunks, g.free = h.node[h.free].next,
           g.count = h.count - 1, NEW a, a = <<g.node[h.free].type, g.node[h.free].value>>,
           Only(g, h, h.free, P[m]),
           \A i \in 1 .. Len(P[m]) : /\ g.node[P[m][i]].type = h.node[P[m][i]].type
                                     /\ g.node[P[m][i]].value = h.node[P[m][i]].value,
           \A l \in L : l # m => g.header[l] = h.header[l],
           NEW t, Linked(g, t), Heads(g, m, t), NEW D,
           \/ t = Append(P[m], h.free) /\ D = Plus(C, m, Append(C[m], a))
           \/ t = <<h.free>> \o P[m] /\ D = Plus(C, m, <<a>> \o C[m])
    PROVE  Stores(g, L, D, Move(P, NULL, m, t))
<1> DEFINE R == Move(P, NULL, m, t)
           n == h.free
<1>1. /\ m \in DOMAIN P /\ m # NULL /\ NULL \in DOMAIN P /\ L \subseteq Headers /\ m \in DOMAIN C
      /\ NULL \notin Headers /\ DOMAIN P = DOMAIN C \cup {NULL} /\ DOMAIN C \subseteq Headers
      /\ L \subseteq DOMAIN P
  BY AddressLemma DEF Stores, Shape
<1>2. /\ \A d \in DOMAIN P : P[d] \in Seq(Nodes) /\ Linked(h, P[d])
      /\ h.free = First(P[NULL]) /\ h.count = Len(P[NULL]) /\ Part(P, Malloced(h))
  BY DEF Stores, Shape, Part
<1>3. n = P[NULL][1] /\ n \in Nodes
  BY <1>1, <1>2 DEF First
<1>4. t \in {Append(P[m], P[NULL][1]), <<P[NULL][1]>> \o P[m]}
  BY <1>3
<1>5. /\ Part(R, Malloced(g)) /\ \A d \in DOMAIN R : Linked(g, R[d])
      /\ \A d \in DOMAIN P \ {NULL, m} : Contents(g, P[d]) = Contents(h, P[d])
  <2>1. Shape(h, L, P)
    BY DEF Stores
  <2>2. Only(g, h, P[NULL][1], P[m])
    BY <1>3
  <2>3. g.chunks = h.chunks /\ Linked(g, t) /\ P[NULL] # << >> /\ NULL # m
    BY <1>1
  <2> QED
    BY ONLY <1>1, <1>4, <2>1, <2>2, <2>3, MoveLemma
<1>6. /\ DOMAIN R = DOMAIN P /\ R[NULL] = Tail(P[NULL]) /\ R[m] = t
      /\ \A d \in DOMAIN P : d \notin {NULL, m} => R[d] = P[d]
  BY <1>1 DEF Move
<1>7. g.free = First(Tail(P[NULL])) /\ g.count = Len(Tail(P[NULL]))
  <2>1. /\ Len(Tail(P[NULL])) = Len(P[NULL]) - 1
        /\ h.node[P[NULL][1]].next = First(Tail(P[NULL]))
    <3>1. P[NULL] \in Seq(Nodes) /\ P[NULL] # << >> /\ Linked(h, P[NULL])
      BY <1>1, <1>2
    <3> QED
      BY ONLY <3>1, TailLemma, Zenon
  <2> QED
    BY <1>2, <1>3, <2>1
<1>8. C[m] = Contents(h, P[m]) /\ P[m] \in Seq(Nodes)
  BY <1>1, <1>2 DEF Stores
<1>9. /\ Contents(g, Append(P[m], n)) = Append(Contents(h, P[m]), a)
      /\ Contents(g, <<n>> \o P[m]) = <<a>> \o Contents(h, P[m])
  <2>1. \A i \in 1 .. Len(P[m]) : /\ g.node[P[m][i]].type = h.node[P[m][i]].type
                                  /\ g.node[P[m][i]].value = h.node[P[m][i]].value
    OBVIOUS
  <2> DEFINE u == <<g.node[n].type, g.node[n].value>>
  <2>2. /\ Contents(g, Append(P[m], n)) = Append(Contents(h, P[m]), u)
        /\ Contents(g, <<n>> \o P[m]) = <<u>> \o Contents(h, P[m])
    BY ONLY <1>3, <1>8, <2>1, GrowLemma, Zenon
  <2> QED
    BY <2>2
<1>10. /\ DOMAIN D = DOMAIN C /\ D[m] = Contents(g, t)
       /\ \A d \in DOMAIN C : d # m => D[d] = C[d]
  BY <1>1, <1>8, <1>9 DEF Plus
<1> HIDE DEF R
<1>11. \A d \in DOMAIN D : D[d] = Contents(g, R[d])
  <2> SUFFICES ASSUME NEW d \in DOMAIN C PROVE D[d] = Contents(g, R[d])
    BY <1>10
  <2>1. CASE d = m
    BY <1>6, <1>10, <2>1
  <2>2. CASE d # m
    <3>1. d \in DOMAIN P \ {NULL, m} /\ C[d] = Contents(h, P[d])
      BY <1>1, <2>2 DEF Stores
    <3> QED
      BY <1>5, <1>6, <1>10, <2>2, <3>1
  <2> QED
    BY <2>1, <2>2
<1>12. \A l \in L : Heads(g, l, R[l])
  <2> SUFFICES ASSUME NEW l \in L, l # m PROVE Heads(g, l, R[l])
    BY <1>6
  <2>1. Heads(h, l, P[l]) /\ R[l] = P[l]
    BY <1>1, <1>6 DEF Stores, Shape
  <2> QED
    BY <2>1 DEF Heads
<1>13. Shape(g, L, R)
  BY <1>1, <1>5, <1>6, <1>7, <1>12 DEF Shape
<1>14. Stores(g, L, D, R)
  BY <1>1, <1>6, <1>10, <1>11, <1>13 DEF Stores
<1> QED
  BY <1>14 DEF R

(* A sequence of nodes has its ends among the nodes.                       *)
LEMMA EndsLemma ==
    ASSUME NEW s \in Seq(Nodes), s # << >>
    PROVE  Len(s) \in 1 .. Len(s) /\ 1 \in 1 .. Len(s) /\ s[1] \in Nodes /\ s[Len(s)] \in Nodes
  OBVIOUS

(* The node that AppendNode takes goes behind the last of its list.        *)
LEMMA AppendTakenLemma ==
    ASSUME NEW h, NEW L, NEW C, NEW P, Stores(h, L, C, P), h.fault = "none", P[NULL] # << >>,
           NEW m \in L, h.header[m].length < MaxLength,
           NEW type \in AtomTypes, NEW value \in Values,
           NEW g, g = AppendNode(h, m, type, value)
    PROVE  /\ OnNodes(g, h) /\ \A l \in Headers \ {m} : g.header[l] = h.header[l]
           /\ g.header[m].length = h.header[m].length + 1
           /\ \E R : Stores(g, L, Plus(C, m, Append(C[m], <<type, value>>)), R)
<1> DEFINE s == P[m]
           n == h.free
           old == h.header[m]
           t == Append(s, n)
<1>1. /\ m \in Headers /\ m \in DOMAIN P /\ m # NULL /\ NULL \in DOMAIN P /\ h \in HeapType
      /\ NULL \notin Nodes /\ MaxLength \in Nat
  BY AddressLemma DEF Stores, Shape
<1>2. /\ s \in Seq(Nodes) /\ P[NULL] \in Seq(Nodes) /\ Linked(h, s)
      /\ h.free = First(P[NULL]) /\ h.count = Len(P[NULL]) /\ Apart(P) /\ Heads(h, m, s)
  BY <1>1 DEF Stores, Shape, Part
<1>3. n = P[NULL][1] /\ n \in Nodes /\ n # NULL /\ WithNode(h) = h
  BY <1>1, <1>2, EndsLemma DEF First, WithNode
<1>4. \A i \in 1 .. Len(s) : s[i] # n /\ s[i] \in Nodes
  <2>1. 1 \in 1 .. Len(P[NULL])
    BY <1>2, EndsLemma
  <2> QED
    BY <1>1, <1>2, <1>3, <2>1 DEF Apart
<1>5. /\ h.node \in [Nodes -> NodeType] /\ h.header \in [Headers -> HeaderType]
      /\ h.count \in Nat \ {0} /\ old \in HeaderType
  BY <1>1, <1>2, HeapFields
<1>6. /\ old.length + 1 \in 0 .. MaxLength /\ Len(s) \in Nat /\ Len(s) <= old.length
      /\ Len(t) = Len(s) + 1 /\ t # << >> /\ t[Len(t)] = n
      /\ First(t) = IF s = << >> THEN n ELSE s[1]
  <2>1. old.length \in Nat
    BY <1>5, ListAssumption DEF HeaderType
  <2> QED
    <3>1. Len(s) \in Nat /\ Len(s) <= old.length /\ old.length < MaxLength
      BY <1>2 DEF Heads
    <3>2. /\ Len(t) = Len(s) + 1 /\ t # << >> /\ t[Len(s) + 1] = n
          /\ (s = << >> => t[1] = n) /\ (s # << >> => t[1] = s[1])
      BY <1>2, <1>3
    <3> QED
      BY <1>1, <2>1, <3>1, <3>2 DEF First
<1>7. h.node[n].next \in Nodes \cup {NULL} /\ Atom(type, value, NULL) \in NodeType
  BY <1>3, <1>5 DEF NodeType, Atom
<1>8. CASE s = << >>
  <2>1. old.head = NULL
    BY <1>2, <1>8 DEF Heads, First
  <2>2. g = [h EXCEPT !.free = h.node[n].next, !.count = h.count - 1,
                      !.node = [h.node EXCEPT ![n] = Atom(type, value, NULL)],
                      !.header = [h.header EXCEPT ![m] = Header(old.length + 1, n, n)]]
    BY <1>1, <1>3, <2>1 DEF AppendNode, HeapType
  <2>3. Header(old.length + 1, n, n) \in HeaderType
    BY <1>3, <1>6 DEF Header, HeaderType
  <2>4. /\ g.node = [h.node EXCEPT ![n] = Atom(type, value, NULL)] /\ g.fault = "none"
        /\ g.header = [h.header EXCEPT ![m] = Header(old.length + 1, n, n)]
        /\ g.free = h.node[n].next /\ g.count = h.count - 1 /\ g.chunks = h.chunks
        /\ g.hfree = h.hfree /\ g.hchunks = h.hchunks /\ g.literals = h.literals
        /\ g.strings = h.strings
    BY <1>1, <2>2 DEF HeapType
  <2>5. g \in HeapType
    <3>1. /\ [h.node EXCEPT ![n] = Atom(type, value, NULL)] \in [Nodes -> NodeType]
          /\ [h.header EXCEPT ![m] = Header(old.length + 1, n, n)] \in [Headers -> HeaderType]
      BY ONLY <1>5, <1>7, <2>3, Zenon
    <3>2. h.count - 1 \in Nat
      BY <1>5
    <3> QED
      BY <1>1, <1>7, <2>2, <3>1, <3>2 DEF HeapType
  <2>6. /\ g.node[n] = Atom(type, value, NULL) /\ \A k \in Nodes : k # n => g.node[k] = h.node[k]
        /\ \A l \in Headers \ {m} : g.header[l] = h.header[l]
        /\ g.header[m] = Header(old.length + 1, n, n)
    BY <1>1, <1>3, <1>5, <2>4
  <2>7. Linked(g, t)
    <3>1. g.node[n].next = NULL /\ ~ \E i \in 1 .. Len(s) : TRUE
      BY <1>8, <2>6 DEF Atom
    <3> QED
      BY <1>2, <1>3, <3>1, GrowLinkLemma
  <2>8. Heads(g, m, t) /\ g.header[m].length = old.length + 1
    <3> HIDE DEF t
    <3>1. /\ g.header[m].head = n /\ g.header[m].tail = n /\ g.header[m].length = old.length + 1
      BY <2>6 DEF Header
    <3>2. First(t) = n /\ t[Len(t)] = n /\ Len(t) = 1
      BY <1>6, <1>8
    <3>3. 1 <= old.length + 1
      <4>1. old.length \in Nat
        BY <1>5, ListAssumption DEF HeaderType
      <4> QED
        BY <4>1
    <3> QED
      BY <3>1, <3>2, <3>3 DEF Heads
  <2>9. <<type, value>> = <<g.node[n].type, g.node[n].value>>
    BY <2>6 DEF Atom
  <2>10. Stores(g, L, Plus(C, m, Append(C[m], <<type, value>>)), Move(P, NULL, m, t))
    <3>1. \A l \in L : l # m => g.header[l] = h.header[l]
      BY <2>6 DEF Stores, Shape
    <3> HIDE DEF t
    <3>2. t = Append(P[m], h.free)
      BY DEF t
    <3>3. \A i \in 1 .. Len(P[m]) : /\ g.node[P[m][i]].type = h.node[P[m][i]].type
                                    /\ g.node[P[m][i]].value = h.node[P[m][i]].value
      BY <1>4, <2>6
    <3>4. Only(g, h, h.free, P[m])
      BY <2>6 DEF Only
    <3> QED
      BY <2>4, <2>5, <2>6, <2>7, <2>8, <2>9, <3>1, <3>2, <3>3, <3>4, LinkInLemma
  <2> QED
    BY <2>4, <2>5, <2>6, <2>8, <2>10 DEF OnNodes
<1>9. CASE s # << >>
  <2> DEFINE z == s[Len(s)]
             nd == [h.node EXCEPT ![n] = Atom(type, value, NULL), ![z] = [h.node[z] EXCEPT !.next = n]]
  <2>1. old.head # NULL /\ old.head = s[1] /\ old.tail = z /\ z \in Nodes /\ z # n
        /\ s[1] \in Nodes
    BY <1>1, <1>2, <1>4, <1>9, EndsLemma DEF Heads, First
  <2>2. g = [h EXCEPT !.free = h.node[n].next, !.count = h.count - 1, !.node = nd,
                      !.header = [h.header EXCEPT ![m] = Header(old.length + 1, old.head, n)]]
    <3>1. [[h.node EXCEPT ![n] = Atom(type, value, NULL)] EXCEPT ![z].next = n] = nd
      BY <1>3, <1>5, <2>1
    <3> HIDE DEF nd
    <3> QED
      BY <1>1, <1>3, <2>1, <3>1 DEF AppendNode, HeapType
  <2>3. Header(old.length + 1, old.head, n) \in HeaderType
    BY <1>3, <1>6, <2>1 DEF Header, HeaderType
  <2>4. nd \in [Nodes -> NodeType]
    BY <1>3, <1>5, <1>7, <2>1 DEF NodeType
  <2>5. /\ nd[n] = Atom(type, value, NULL) /\ \A k \in Nodes : k # n /\ k # z => nd[k] = h.node[k]
        /\ nd[z].next = n /\ nd[z].type = h.node[z].type /\ nd[z].value = h.node[z].value
    BY <1>3, <1>5, <2>1 DEF NodeType
  <2> HIDE DEF nd
  <2>6. /\ g.node = nd /\ g.fault = "none"
        /\ g.header = [h.header EXCEPT ![m] = Header(old.length + 1, old.head, n)]
        /\ g.free = h.node[n].next /\ g.count = h.count - 1 /\ g.chunks = h.chunks
        /\ g.hfree = h.hfree /\ g.hchunks = h.hchunks /\ g.literals = h.literals
        /\ g.strings = h.strings
    BY <1>1, <2>2 DEF HeapType
  <2>7. g \in HeapType
    <3>1. [h.header EXCEPT ![m] = Header(old.length + 1, old.head, n)] \in [Headers -> HeaderType]
      BY ONLY <1>5, <2>3, Zenon
    <3>2. h.count - 1 \in Nat
      BY <1>5
    <3> QED
      BY <1>1, <1>7, <2>2, <2>4, <3>1, <3>2 DEF HeapType
  <2>8. /\ \A l \in Headers \ {m} : g.header[l] = h.header[l]
        /\ g.header[m] = Header(old.length + 1, old.head, n)
    BY <1>1, <1>5, <2>6
  <2>9. \A i \in 1 .. Len(s) : i < Len(s) => s[i] # z
    <3>1. Len(s) \in 1 .. Len(s)
      BY <1>2, <1>9, EndsLemma
    <3> QED
      BY <1>1, <1>2, <3>1 DEF Apart
  <2>10. \A i \in 1 .. Len(s) : g.node[s[i]].next = IF i < Len(s) THEN s[i + 1] ELSE n
    <3> SUFFICES ASSUME NEW i \in 1 .. Len(s)
                 PROVE  nd[s[i]].next = IF i < Len(s) THEN s[i + 1] ELSE n
      BY <2>6
    <3>1. CASE i < Len(s)
      <4>1. nd[s[i]] = h.node[s[i]]
        BY <1>4, <2>5, <2>9, <3>1
      <4> QED
        BY <1>2, <3>1, <4>1 DEF Linked, Link
    <3>2. CASE ~(i < Len(s))
      <4>1. i = Len(s)
        BY <1>6, <3>2
      <4> QED
        BY <2>5, <3>2, <4>1
    <3> QED
      BY <3>1, <3>2
  <2>11. Linked(g, t)
    <3>1. g.node[n].next = NULL
      BY <2>5, <2>6 DEF Atom
    <3> QED
      BY <1>2, <1>3, <2>10, <3>1, GrowLinkLemma
  <2>12. Heads(g, m, t) /\ g.header[m].length = old.length + 1
    <3> HIDE DEF t
    <3>1. /\ g.header[m].head = old.head /\ g.header[m].tail = n
          /\ g.header[m].length = old.length + 1
      BY <2>8 DEF Header
    <3>2. First(t) = old.head /\ t[Len(t)] = n /\ Len(t) <= old.length + 1
      <4>1. old.length \in Int
        BY <1>5, ListAssumption DEF HeaderType
      <4> QED
        BY <1>6, <1>9, <2>1, <4>1
    <3> QED
      BY <3>1, <3>2 DEF Heads
  <2>13. <<type, value>> = <<g.node[n].type, g.node[n].value>>
    BY <2>5, <2>6 DEF Atom
  <2>14. Stores(g, L, Plus(C, m, Append(C[m], <<type, value>>)), Move(P, NULL, m, t))
    <3>1. \A l \in L : l # m => g.header[l] = h.header[l]
      BY <2>8 DEF Stores, Shape
    <3> HIDE DEF t
    <3>2. t = Append(P[m], h.free)
      BY DEF t
    <3>3. \A i \in 1 .. Len(P[m]) : /\ g.node[P[m][i]].type = h.node[P[m][i]].type
                                    /\ g.node[P[m][i]].value = h.node[P[m][i]].value
      BY <1>4, <2>5, <2>6
    <3>4. Only(g, h, h.free, P[m])
      <4>1. Len(P[m]) \in 1 .. Len(P[m])
        BY <1>2, <1>9, EndsLemma
      <4> QED
        BY <2>5, <2>6, <4>1 DEF Only
    <3> QED
      BY <2>6, <2>7, <2>11, <2>12, <2>13, <3>1, <3>2, <3>3, <3>4, LinkInLemma
  <2> QED
    BY <2>6, <2>7, <2>8, <2>12, <2>14 DEF OnNodes
<1> QED
  BY <1>8, <1>9

(* The node that PrependNode takes goes before the first of its list, a    *)
(* new one if it is empty.                                                 *)
LEMMA PrependTakenLemma ==
    ASSUME NEW h, NEW L, NEW C, NEW P, Stores(h, L, C, P), h.fault = "none", P[NULL] # << >>,
           NEW m \in L, h.header[m].length < MaxLength,
           P[m] = << >> => h.header[m].tail = NULL,
           NEW type \in AtomTypes, NEW value \in Values,
           NEW g, g = PrependNode(h, m, type, value)
    PROVE  /\ OnNodes(g, h) /\ \A l \in Headers \ {m} : g.header[l] = h.header[l]
           /\ g.header[m].length = h.header[m].length + 1
           /\ \E R : Stores(g, L, Plus(C, m, <<<<type, value>>>> \o C[m]), R)
<1> DEFINE s == P[m]
           n == h.free
           old == h.header[m]
           t == <<n>> \o s
           z == IF old.tail = NULL THEN n ELSE old.tail
<1>1. /\ m \in Headers /\ m \in DOMAIN P /\ m # NULL /\ NULL \in DOMAIN P /\ h \in HeapType
      /\ NULL \notin Nodes /\ MaxLength \in Nat
  BY AddressLemma DEF Stores, Shape
<1>2. /\ s \in Seq(Nodes) /\ P[NULL] \in Seq(Nodes) /\ Linked(h, s)
      /\ h.free = First(P[NULL]) /\ h.count = Len(P[NULL]) /\ Apart(P) /\ Heads(h, m, s)
  BY <1>1 DEF Stores, Shape, Part
<1>3. n = P[NULL][1] /\ n \in Nodes /\ n # NULL /\ WithNode(h) = h
  BY <1>1, <1>2, EndsLemma DEF First, WithNode
<1>4. \A i \in 1 .. Len(s) : s[i] # n /\ s[i] \in Nodes
  <2>1. 1 \in 1 .. Len(P[NULL])
    BY <1>2, EndsLemma
  <2> QED
    BY <1>1, <1>2, <1>3, <2>1 DEF Apart
<1>5. /\ h.node \in [Nodes -> NodeType] /\ h.header \in [Headers -> HeaderType]
      /\ h.count \in Nat \ {0} /\ old \in HeaderType
  BY <1>1, <1>2, HeapFields
<1>6. /\ old.length \in Nat /\ old.length + 1 \in 0 .. MaxLength /\ Len(s) \in Nat
      /\ Len(s) <= old.length /\ old.head = First(s) /\ old.head \in Nodes \cup {NULL}
      /\ z \in Nodes /\ (s = << >> => z = n) /\ (s # << >> => z = s[Len(s)])
  <2>1. old.length \in Nat /\ old.tail \in Nodes \cup {NULL}
    BY <1>5, ListAssumption DEF HeaderType
  <2>2. Len(s) \in Nat /\ Len(s) <= old.length /\ old.length < MaxLength /\ old.head = First(s)
    BY <1>2 DEF Heads
  <2>3. First(s) \in Nodes \cup {NULL}
    BY <1>2, EndsLemma DEF First
  <2>4. s # << >> => old.tail = s[Len(s)] /\ s[Len(s)] \in Nodes
    BY <1>2, EndsLemma DEF Heads
  <2> QED
    BY <1>1, <1>3, <2>1, <2>2, <2>3, <2>4
<1>7. /\ Len(t) = Len(s) + 1 /\ t # << >> /\ t[1] = n /\ t[Len(t)] = z
  <2>1. /\ Len(t) = Len(s) + 1 /\ t[1] = n /\ \A i \in 1 .. Len(s) : t[i + 1] = s[i]
        /\ t # << >>
    BY <1>2, <1>3
  <2> HIDE DEF t
  <2>2. CASE s = << >>
    <3>1. Len(s) = 0 /\ Len(t) = 1 /\ z = n
      BY <1>6, <2>1, <2>2
    <3> HIDE DEF z
    <3> QED
      BY <2>1, <3>1
  <2>3. CASE s # << >>
    BY <1>2, <1>6, <2>1, <2>3, EndsLemma
  <2> QED
    BY <1>6, <2>1, <2>2, <2>3
<1>8. h.node[n].next \in Nodes \cup {NULL} /\ Atom(type, value, old.head) \in NodeType
  BY <1>3, <1>5, <1>6 DEF NodeType, Atom
<1> HIDE DEF z
<1>9. g = [h EXCEPT !.free = h.node[n].next, !.count = h.count - 1,
                    !.node = [h.node EXCEPT ![n] = Atom(type, value, old.head)],
                    !.header = [h.header EXCEPT ![m] = Header(old.length + 1, n, z)]]
  BY <1>1, <1>3 DEF PrependNode, HeapType, z
<1>10. Header(old.length + 1, n, z) \in HeaderType
  BY <1>3, <1>6 DEF Header, HeaderType
<1>11. /\ g.node = [h.node EXCEPT ![n] = Atom(type, value, old.head)] /\ g.fault = "none"
       /\ g.header = [h.header EXCEPT ![m] = Header(old.length + 1, n, z)]
       /\ g.free = h.node[n].next /\ g.count = h.count - 1 /\ g.chunks = h.chunks
       /\ g.hfree = h.hfree /\ g.hchunks = h.hchunks /\ g.literals = h.literals
       /\ g.strings = h.strings
  BY <1>1, <1>9 DEF HeapType
<1>12. g \in HeapType
  <2>1. /\ [h.node EXCEPT ![n] = Atom(type, value, old.head)] \in [Nodes -> NodeType]
        /\ [h.header EXCEPT ![m] = Header(old.length + 1, n, z)] \in [Headers -> HeaderType]
    BY ONLY <1>5, <1>8, <1>10, Zenon
  <2>2. h.count - 1 \in Nat
    BY <1>5
  <2> QED
    BY <1>1, <1>8, <1>9, <2>1, <2>2 DEF HeapType
<1>13. /\ g.node[n] = Atom(type, value, old.head) /\ \A k \in Nodes : k # n => g.node[k] = h.node[k]
       /\ \A l \in Headers \ {m} : g.header[l] = h.header[l]
       /\ g.header[m] = Header(old.length + 1, n, z)
  BY <1>1, <1>3, <1>5, <1>11
<1>14. Linked(g, t)
  <2>1. g.node[n].next = First(s)
    BY <1>6, <1>13 DEF Atom
  <2>2. Linked(g, s)
    BY <1>2, <1>4, <1>13, FrameLemma
  <2> QED
    BY <1>2, <1>3, <2>1, <2>2, GrowLinkLemma
<1> HIDE DEF t
<1>15. Heads(g, m, t) /\ g.header[m].length = old.length + 1
  <2>1. g.header[m].head = n /\ g.header[m].tail = z /\ g.header[m].length = old.length + 1
    BY <1>13 DEF Header
  <2>2. First(t) = n
    BY <1>7 DEF First
  <2> QED
    BY <1>6, <1>7, <2>1, <2>2 DEF Heads
<1>16. <<type, value>> = <<g.node[n].type, g.node[n].value>>
  BY <1>13 DEF Atom
<1>17. Stores(g, L, Plus(C, m, <<<<type, value>>>> \o C[m]), Move(P, NULL, m, t))
  <2>1. \A l \in L : l # m => g.header[l] = h.header[l]
    BY <1>13 DEF Stores, Shape
  <2>2. t = <<h.free>> \o P[m]
    BY DEF t
  <2>3. \A i \in 1 .. Len(P[m]) : /\ g.node[P[m][i]].type = h.node[P[m][i]].type
                                  /\ g.node[P[m][i]].value = h.node[P[m][i]].value
    BY <1>4, <1>13
  <2>4. Only(g, h, h.free, P[m])
    BY <1>13 DEF Only
  <2> QED
    BY <1>11, <1>12, <1>14, <1>15, <1>16, <2>1, <2>2, <2>3, <2>4, LinkInLemma
<1> QED
  BY <1>11, <1>12, <1>13, <1>15, <1>17 DEF OnNodes

(* What returnNodeToFreelist writes.                                       *)
LEMMA ReturnFrame ==
    ASSUME NEW h \in HeapType, h.fault = "none", NEW n \in Nodes,
           NEW g, g = returnNodeToFreelist(h, n)
    PROVE  /\ OnNodes(g, h) /\ g.header = h.header /\ g.free = n
           /\ g.count = h.count + 1 /\ g.chunks = h.chunks /\ g.node[n].next = h.free
           /\ \A k \in Nodes : k # n => g.node[k] = h.node[k]
<1>1. /\ h.node \in [Nodes -> NodeType] /\ h.count \in Nat /\ h.free \in Nodes \cup {NULL}
  BY HeapFields
<1>2. Atom("INT", NULL, h.free) \in NodeType
  BY <1>1 DEF Atom, NodeType, AtomTypes, Values
<1>3. g = [h EXCEPT !.node = [h.node EXCEPT ![n] = Atom("INT", NULL, h.free)],
                    !.free = n, !.count = h.count + 1]
  BY DEF returnNodeToFreelist, HeapType
<1>4. /\ g.node = [h.node EXCEPT ![n] = Atom("INT", NULL, h.free)] /\ g.fault = "none"
      /\ g.header = h.header /\ g.free = n /\ g.count = h.count + 1 /\ g.chunks = h.chunks
      /\ g.hfree = h.hfree /\ g.hchunks = h.hchunks /\ g.literals = h.literals
      /\ g.strings = h.strings
  BY <1>3 DEF HeapType
<1>5. g \in HeapType
  <2>1. [h.node EXCEPT ![n] = Atom("INT", NULL, h.free)] \in [Nodes -> NodeType]
    BY ONLY <1>1, <1>2, Zenon
  <2>2. h.count + 1 \in Nat
    BY <1>1
  <2> QED
    BY <1>3, <2>1, <2>2 DEF HeapType
<1>6. g.node[n].next = h.free /\ \A k \in Nodes : k # n => g.node[k] = h.node[k]
  BY <1>1, <1>4 DEF Atom
<1> QED
  BY <1>4, <1>5, <1>6 DEF OnNodes

(* The first node of d goes back to the pool.                              *)
LEMMA ReturnLemma ==
    ASSUME NEW h, NEW L, NEW C, NEW P, Stores(h, L, C, P), h.fault = "none",
           NEW d \in DOMAIN C, P[d] # << >>,
           NEW g, g = returnNodeToFreelist(h, P[d][1]),
           NEW D, D = Plus(C, d, Tail(C[d])),
           NEW R, R = Move(P, d, NULL, <<P[d][1]>> \o P[NULL])
    PROVE  Stores(g, L \ {d}, D, R)
<1> DEFINE n == P[d][1]
           t == <<n>> \o P[NULL]
<1>1. /\ d \in DOMAIN P /\ d # NULL /\ NULL \in DOMAIN P /\ h \in HeapType /\ L \subseteq Headers
      /\ NULL \notin Nodes /\ L \subseteq DOMAIN P /\ DOMAIN C \subseteq Headers
      /\ DOMAIN P = DOMAIN C \cup {NULL} /\ NULL \notin Headers
  BY AddressLemma DEF Stores, Shape
<1>2. /\ P[d] \in Seq(Nodes) /\ P[NULL] \in Seq(Nodes) /\ Linked(h, P[NULL]) /\ Shape(h, L, P)
      /\ h.free = First(P[NULL]) /\ h.count = Len(P[NULL]) /\ Apart(P)
  BY <1>1 DEF Stores, Shape, Part
<1>3. n \in Nodes /\ \A i \in 1 .. Len(P[NULL]) : P[NULL][i] # n /\ P[NULL][i] \in Nodes
  <2>1. 1 \in 1 .. Len(P[d]) /\ n \in Nodes
    BY <1>2, EndsLemma
  <2> QED
    BY <1>1, <1>2, <2>1 DEF Apart
<1>7. /\ OnNodes(g, h) /\ g.header = h.header /\ g.free = n
      /\ g.count = h.count + 1 /\ g.chunks = h.chunks /\ g.node[n].next = h.free
      /\ \A k \in Nodes : k # n => g.node[k] = h.node[k]
  <2>1. g = returnNodeToFreelist(h, n) /\ h \in HeapType /\ n \in Nodes
    BY <1>1, <1>3
  <2> HIDE DEF n
  <2> QED
    BY <2>1, ReturnFrame
<1>8. g \in HeapType
  BY <1>7 DEF OnNodes
<1>9. g.node[n].next = h.free /\ \A k \in Nodes : k # n => g.node[k] = h.node[k]
  BY <1>7
<1>10. Linked(g, t)
  <2>1. Linked(g, P[NULL])
    BY <1>2, <1>3, <1>9, FrameLemma
  <2> QED
    BY <1>2, <1>3, <1>9, <2>1, GrowLinkLemma
<1>11. Len(t) = Len(P[NULL]) + 1 /\ t # << >> /\ t[1] = n
  BY <1>2, <1>3
<1> HIDE DEF t
<1>12. /\ Part(R, Malloced(g)) /\ \A e \in DOMAIN R : Linked(g, R[e])
       /\ \A e \in DOMAIN P \ {d, NULL} : Contents(g, P[e]) = Contents(h, P[e])
       /\ Contents(g, Tail(P[d])) = Tail(Contents(h, P[d]))
  <2>1. Only(g, h, P[d][1], P[NULL])
    BY <1>9 DEF Only
  <2>2. g.chunks = h.chunks /\ Linked(g, t) /\ d # NULL /\ P[d] # << >>
    BY <1>1, <1>7, <1>10
  <2>3. t \in {Append(P[NULL], P[d][1]), <<P[d][1]>> \o P[NULL]}
    BY DEF t
  <2> HIDE DEF n
  <2>4. /\ Part(Move(P, d, NULL, t), Malloced(g))
        /\ \A e \in DOMAIN Move(P, d, NULL, t) : Linked(g, Move(P, d, NULL, t)[e])
    BY ONLY <1>1, <1>2, <2>1, <2>2, <2>3, MoveLemma
  <2>5. /\ \A e \in DOMAIN P \ {d, NULL} : Contents(g, P[e]) = Contents(h, P[e])
        /\ Contents(g, Tail(P[d])) = Tail(Contents(h, P[d]))
    BY ONLY <1>1, <1>2, <2>1, <2>2, <2>3, MoveLemma
  <2> QED
    BY <2>4, <2>5 DEF t, n
<1>13. /\ DOMAIN R = DOMAIN P /\ R[NULL] = t /\ R[d] = Tail(P[d])
       /\ \A e \in DOMAIN P : e \notin {NULL, d} => R[e] = P[e]
  BY <1>1 DEF Move, t
<1>14. /\ DOMAIN D = DOMAIN C /\ D[d] = Tail(C[d])
       /\ \A e \in DOMAIN C : e # d => D[e] = C[e]
  BY DEF Plus
<1>15. \A e \in DOMAIN D : D[e] = Contents(g, R[e])
  <2> SUFFICES ASSUME NEW e \in DOMAIN C PROVE D[e] = Contents(g, R[e])
    BY <1>14
  <2>1. C[e] = Contents(h, P[e]) /\ e # NULL
    BY <1>1 DEF Stores
  <2>2. CASE e = d
    BY <1>12, <1>13, <1>14, <2>1, <2>2
  <2>3. CASE e # d
    <3>1. e \in DOMAIN P \ {d, NULL}
      BY <1>1, <2>1, <2>3
    <3> QED
      BY <1>12, <1>13, <1>14, <2>1, <2>3, <3>1
  <2> QED
    BY <2>2, <2>3
<1>16. \A l \in L \ {d} : Heads(g, l, R[l])
  <2> SUFFICES ASSUME NEW l \in L \ {d} PROVE Heads(g, l, R[l])
    OBVIOUS
  <2>1. Heads(h, l, P[l])
    BY <1>2 DEF Shape
  <2>2. R[l] = P[l]
    BY <1>1, <1>13
  <2> QED
    BY <1>7, <2>1, <2>2 DEF Heads
<1>17. g.free = First(R[NULL]) /\ g.count = Len(R[NULL])
  BY <1>2, <1>7, <1>11, <1>13 DEF First
<1>18. Shape(g, L \ {d}, R)
  BY <1>1, <1>12, <1>13, <1>16, <1>17 DEF Shape
<1> QED
  BY <1>1, <1>8, <1>13, <1>14, <1>15, <1>18 DEF Stores

-----------------------------------------------------------------------------
(* Following the links. *)

(* A sequence without repetitions is no longer than there are nodes.       *)
LEMMA LengthLemma ==
    ASSUME NEW s \in Seq(Nodes), IsPath(s)
    PROVE  Len(s) \in 0 .. NodeCount
<1>1. Len(s) \in Nat /\ DOMAIN s = 1 .. Len(s) /\ s \in [1 .. Len(s) -> Nodes]
  BY LenProperties
<1>2. s \in Injection(1 .. Len(s), Nodes)
  BY <1>1, Zenon DEF Injection, IsInjective, IsPath
<1>3. Cardinality(1 .. Len(s)) <= Cardinality(Nodes)
  BY <1>2, AddressLemma, FS_Injection, Zenon
<1>4. Cardinality(1 .. Len(s)) = Len(s)
  BY <1>1, FS_Interval
<1> QED
  BY <1>1, <1>3, <1>4, AddressLemma

(* A walk along the links finds the nodes of a linked sequence.            *)
LEMMA ChainLemma ==
    ASSUME NEW h, NEW s \in Seq(Nodes), IsPath(s), Linked(h, s)
    PROVE  Chain(h, First(s)) = s
<1> DEFINE n == First(s)
           at[k \in 0 .. Cardinality(Nodes)] ==
             IF k = 0 THEN n
             ELSE IF at[k - 1] \in Nodes THEN h.node[at[k - 1]].next ELSE NULL
           W == [k \in 0 .. Cardinality(Nodes) |-> IF k < Len(s) THEN s[k + 1] ELSE NULL]
<1>1. /\ Len(s) \in 0 .. NodeCount /\ NodeCount \in Nat /\ Cardinality(Nodes) = NodeCount
      /\ NULL \notin Nodes
  BY LengthLemma, AddressLemma
<1>2. /\ n = IF 0 < Len(s) THEN s[1] ELSE NULL
      /\ \A k \in 0 .. NodeCount : k < Len(s) => k + 1 \in 1 .. Len(s) /\ s[k + 1] \in Nodes
  BY <1>1 DEF First
<1>3. W = [k \in 0 .. Cardinality(Nodes) |->
             IF k = 0 THEN n
             ELSE IF W[k - 1] \in Nodes THEN h.node[W[k - 1]].next ELSE NULL]
  <2> SUFFICES ASSUME NEW k \in 0 .. NodeCount
               PROVE  W[k] = IF k = 0 THEN n
                             ELSE IF W[k - 1] \in Nodes THEN h.node[W[k - 1]].next ELSE NULL
    BY <1>1
  <2>1. \A j \in 0 .. NodeCount : W[j] = IF j < Len(s) THEN s[j + 1] ELSE NULL
    BY <1>1
  <2> HIDE DEF W, n
  <2>2. CASE k = 0
    BY <1>1, <1>2, <2>1, <2>2
  <2>3. CASE k # 0
    <3>1. k - 1 \in 0 .. NodeCount /\ (k - 1) + 1 = k
      BY <1>1, <2>3
    <3>2. CASE k - 1 < Len(s)
      <4>1. k \in 1 .. Len(s) /\ W[k - 1] = s[k] /\ s[k] \in Nodes
        BY <1>1, <1>2, <2>1, <3>1, <3>2
      <4>2. h.node[s[k]].next = IF k < Len(s) THEN s[k + 1] ELSE NULL
        BY <4>1 DEF Linked, Link
      <4> QED
        BY <2>1, <2>3, <4>1, <4>2
    <3>3. CASE ~(k - 1 < Len(s))
      <4>1. ~(k < Len(s)) /\ W[k - 1] = NULL
        BY <1>1, <2>1, <3>1, <3>3
      <4> QED
        BY <1>1, <2>1, <2>3, <4>1
    <3> QED
      BY <3>2, <3>3
  <2> QED
    BY <2>2, <2>3
<1>4. at = [k \in 0 .. Cardinality(Nodes) |->
              IF k = 0 THEN n
              ELSE IF at[k - 1] \in Nodes THEN h.node[at[k - 1]].next ELSE NULL]
  <2>1. \E f : f = [k \in 0 .. Cardinality(Nodes) |->
              IF k = 0 THEN n
              ELSE IF f[k - 1] \in Nodes THEN h.node[f[k - 1]].next ELSE NULL]
    BY ONLY <1>3
  <2> QED
    BY ONLY <2>1, Zenon
<1>5. Chain(h, n) = [k \in 1 .. Cardinality({i \in DOMAIN at : at[i] \in Nodes}) |-> at[k - 1]]
  BY DEF Chain
<1> HIDE DEF at
<1>6. \A k \in 0 .. NodeCount : at[k] = W[k]
  <2> DEFINE S == {k \in 0 .. NodeCount : at[k] = W[k]}
  <2>1. 0 \in S
    <3>1. 0 \in 0 .. NodeCount
      BY <1>1
    <3>2. at[0] = n /\ W[0] = n
      BY <1>1, <1>3, <1>4, <3>1
    <3> QED
      BY <3>1, <3>2
  <2>2. ASSUME NEW k \in 0 .. NodeCount - 1, k \in S PROVE k + 1 \in S
    <3> HIDE DEF W, n
    <3>1. /\ k \in 0 .. NodeCount /\ k + 1 \in 0 .. NodeCount /\ k + 1 # 0 /\ (k + 1) - 1 = k
          /\ at[k] = W[k]
      BY <1>1, <2>2
    <3>2. at[k + 1] = IF at[k] \in Nodes THEN h.node[at[k]].next ELSE NULL
      BY <1>1, <1>4, <3>1
    <3>3. W[k + 1] = IF W[k] \in Nodes THEN h.node[W[k]].next ELSE NULL
      BY <1>1, <1>3, <3>1
    <3> QED
      BY <3>1, <3>2, <3>3
  <2> HIDE DEF S
  <2>3. \A k \in 0 .. NodeCount : k \in S
    BY <1>1, <2>1, <2>2, CountUp
  <2> QED
    BY <2>3 DEF S
<1>7. {i \in DOMAIN at : at[i] \in Nodes} = 0 .. Len(s) - 1
  <2>1. DOMAIN at = 0 .. NodeCount
    BY <1>1, <1>4
  <2>2. \A i \in 0 .. NodeCount : at[i] \in Nodes <=> i < Len(s)
    BY <1>1, <1>2, <1>6
  <2> QED
    BY <1>1, <2>1, <2>2
<1>8. Cardinality(0 .. Len(s) - 1) = Len(s)
  <2>1. 0 \in Int /\ Len(s) - 1 \in Int
    BY <1>1
  <2>2. Cardinality(0 .. Len(s) - 1) = IF 0 > Len(s) - 1 THEN 0 ELSE (Len(s) - 1) - 0 + 1
    BY ONLY <2>1, FS_Interval
  <2> QED
    BY <1>1, <2>2
<1>9. Chain(h, n) = [k \in 1 .. Len(s) |-> at[k - 1]]
  BY ONLY <1>5, <1>7, <1>8
<1>10. \A k \in 1 .. Len(s) : at[k - 1] = s[k]
  <2> SUFFICES ASSUME NEW k \in 1 .. Len(s) PROVE at[k - 1] = s[k]
    OBVIOUS
  <2>1. k - 1 \in 0 .. NodeCount /\ k - 1 < Len(s) /\ (k - 1) + 1 = k
    BY <1>1
  <2>2. W[k - 1] = s[(k - 1) + 1]
    BY <1>1, <2>1
  <2> QED
    BY <1>6, <2>1, <2>2
<1>11. s = [k \in 1 .. Len(s) |-> s[k]]
  OBVIOUS
<1> QED
  BY <1>9, <1>10, <1>11

(* The nodes of list l are s, and they hold c.                             *)
ListAt(h, l, s, c) ==
    /\ l \in Headers /\ s \in Seq(Nodes) /\ IsPath(s) /\ Linked(h, s)
    /\ h.header[l].head = First(s) /\ c = Contents(h, s)

(* Whoever follows the links finds the lists C.                            *)
Keeps(h, C) == h \in HeapType /\ \A l \in DOMAIN C : \E s : ListAt(h, l, s, C[l])

(* What the walk along the links of a list finds.                          *)
LEMMA KeepsLemma ==
    ASSUME NEW h, NEW C, Keeps(h, C), NEW l \in DOMAIN C
    PROVE  /\ ListAt(h, l, Chain(h, h.header[l].head), C[l])
           /\ l \in Headers
<1>1. PICK s : ListAt(h, l, s, C[l])
  BY DEF Keeps
<1>2. Chain(h, h.header[l].head) = s
  BY <1>1, ChainLemma DEF ListAt
<1> QED
  BY <1>1, <1>2 DEF ListAt

(* A heap that stores lists shows them.                                    *)
LEMMA StoresKeeps ==
    ASSUME NEW h, NEW L, NEW D, NEW P, Stores(h, L, D, P),
           NEW C, DOMAIN C \subseteq L, \A l \in DOMAIN C : C[l] = D[l]
    PROVE  Keeps(h, C) /\ \A l \in L : ListAt(h, l, P[l], D[l])
<1>1. ASSUME NEW l \in L PROVE ListAt(h, l, P[l], D[l])
  <2>1. l \in DOMAIN P /\ l \in Headers /\ l \in DOMAIN D /\ Heads(h, l, P[l])
    BY AddressLemma DEF Stores, Shape
  <2>2. P[l] \in Seq(Nodes) /\ Linked(h, P[l]) /\ Apart(P) /\ D[l] = Contents(h, P[l])
    BY <2>1 DEF Stores, Shape, Part
  <2>3. IsPath(P[l])
    <3>1. DOMAIN P[l] = 1 .. Len(P[l])
      BY <2>2
    <3> QED
      BY <2>1, <2>2, <3>1 DEF IsPath, Apart
  <2> QED
    BY <2>1, <2>2, <2>3 DEF ListAt, Heads
<1> QED
  BY <1>1 DEF Keeps, Stores

(* A fault in one of its fields does not hide a list.                      *)
LEMMA KeepsSame ==
    ASSUME NEW h, NEW C, Keeps(h, C), NEW g \in HeapType, g.node = h.node, g.header = h.header
    PROVE  Keeps(g, C)
<1> SUFFICES ASSUME NEW l \in DOMAIN C PROVE \E s : ListAt(g, l, s, C[l])
  BY DEF Keeps
<1>1. PICK s : ListAt(h, l, s, C[l])
  BY DEF Keeps
<1>2. Linked(g, s) /\ Contents(g, s) = Contents(h, s)
  BY <1>1, FrameLemma DEF ListAt
<1> QED
  BY <1>1, <1>2 DEF ListAt

-----------------------------------------------------------------------------
(* The steps on headers. *)

(* Where the headers lie that have been handed out.                        *)
LEMMA IssuedLemma ==
    ASSUME NEW h \in HeapType
    PROVE  LET B == MaxLength + NodeCount
               D == B + PooledCount
               M == HEADER_FREELIST_CHUNK_SIZE IN
           /\ Headers = (B + 1) .. (D + MaxLiterals)
           /\ Issued(h) = ((B + 1) .. (B + M * h.hchunks)) \cup ((D + 1) .. (D + h.literals))
           /\ Issued(h) \subseteq Headers
           /\ B \in Nat /\ D \in Nat /\ M \in Nat \ {0} /\ D = B + PooledCount
           /\ M * h.hchunks \in 0 .. PooledCount
           /\ \A k : HeaderAt(k) = B + k /\ LiteralAt(k) = D + k
           /\ h.literals \in 0 .. MaxLiterals /\ MaxLiterals \in Nat /\ PooledCount \in Nat
           /\ h.hchunks # MaxHeaderChunks =>
                /\ M * (h.hchunks + 1) \in 0 .. PooledCount
                /\ M * (h.hchunks + 1) = M * h.hchunks + M
                /\ h.hchunks * M = M * h.hchunks
<1> DEFINE B == MaxLength + NodeCount
           D == B + PooledCount
           M == HEADER_FREELIST_CHUNK_SIZE
           p == M * h.hchunks
<1>1. /\ MaxLength \in Nat /\ MaxLiterals \in Nat /\ M \in Nat \ {0} /\ MaxHeaderChunks \in Nat
      /\ h.hchunks \in 0 .. MaxHeaderChunks /\ h.literals \in 0 .. MaxLiterals
  BY ListAssumption, HeapFields
<1>2. NodeCount \in Nat /\ PooledCount \in Nat /\ B \in Nat /\ D \in Nat
      /\ Headers = (B + 1) .. (B + PooledCount + MaxLiterals)
  BY <1>1, AddressLemma
<1>3. p \in Nat /\ p <= M * MaxHeaderChunks /\ p = h.hchunks * M
  BY <1>1, ProductLemma
<1>4. M * MaxHeaderChunks = PooledCount
  BY DEF PooledCount
<1>5. \A k : HeaderAt(k) = B + k /\ LiteralAt(k) = D + k
  BY DEF LiteralAt, HeaderAt, NodeAt, NodeCount, PooledCount
<1>6. h.hchunks # MaxHeaderChunks =>
                /\ M * (h.hchunks + 1) \in 0 .. PooledCount
                /\ M * (h.hchunks + 1) = M * h.hchunks + M
  <2> SUFFICES ASSUME h.hchunks # MaxHeaderChunks
               PROVE  /\ M * (h.hchunks + 1) \in 0 .. PooledCount
                      /\ M * (h.hchunks + 1) = M * h.hchunks + M
    OBVIOUS
  <2>1. h.hchunks + 1 \in Nat /\ h.hchunks + 1 <= MaxHeaderChunks /\ h.hchunks \in Nat
    BY <1>1
  <2>2. M * (h.hchunks + 1) \in Nat /\ M * (h.hchunks + 1) <= M * MaxHeaderChunks
    BY <1>1, <2>1, ProductLemma
  <2>3. M * (h.hchunks + 1) = M * h.hchunks + M
    BY <1>1, <2>1, ProductLemma
  <2> QED
    BY <1>2, <1>4, <2>2, <2>3
<1>7. Issued(h) = {B + k : k \in 1 .. p} \cup {D + k : k \in 1 .. h.literals}
  BY <1>5 DEF Issued
<1>8. D = B + PooledCount
  OBVIOUS
<1>9. B + PooledCount + MaxLiterals = D + MaxLiterals
  BY <1>1, <1>2
<1> HIDE DEF B, D, p
<1>10. {B + k : k \in 1 .. p} = (B + 1) .. (B + p)
  <2>1. \A n \in (B + 1) .. (B + p) : n - B \in 1 .. p /\ n = B + (n - B)
    BY <1>2, <1>3
  <2>2. \A k \in 1 .. p : B + k \in (B + 1) .. (B + p)
    BY <1>2, <1>3
  <2> QED
    BY <2>1, <2>2
<1>11. {D + k : k \in 1 .. h.literals} = (D + 1) .. (D + h.literals)
  <2>1. \A n \in (D + 1) .. (D + h.literals) : n - D \in 1 .. h.literals /\ n = D + (n - D)
    BY <1>1, <1>2
  <2>2. \A k \in 1 .. h.literals : D + k \in (D + 1) .. (D + h.literals)
    BY <1>1, <1>2
  <2> QED
    BY <2>1, <2>2
<1>12. Issued(h) \subseteq Headers
  <2>1. /\ (B + 1) .. (B + p) \subseteq (B + 1) .. (D + MaxLiterals)
        /\ (D + 1) .. (D + h.literals) \subseteq (B + 1) .. (D + MaxLiterals)
    <3>1. /\ B \in Nat /\ D \in Nat /\ p \in Nat /\ PooledCount \in Nat /\ p <= PooledCount
          /\ D = B + PooledCount /\ MaxLiterals \in Nat /\ h.literals \in 0 .. MaxLiterals
      BY <1>1, <1>2, <1>3, <1>4, <1>8
    <3>2. B + p <= D + MaxLiterals /\ B + 1 <= D + 1 /\ D + h.literals <= D + MaxLiterals
      BY ONLY <3>1
    <3> QED
      BY ONLY <3>1, <3>2
  <2>2. Headers = (B + 1) .. (D + MaxLiterals)
    <3>1. (B + 1) .. (B + PooledCount + MaxLiterals) = (B + 1) .. (D + MaxLiterals)
      BY ONLY <1>9, Zenon
    <3>2. Headers = (B + 1) .. (B + PooledCount + MaxLiterals)
      BY <1>2
    <3> QED
      BY ONLY <3>1, <3>2, Zenon
  <2>3. Issued(h) = ((B + 1) .. (B + p)) \cup ((D + 1) .. (D + h.literals))
    BY ONLY <1>7, <1>10, <1>11
  <2> QED
    BY ONLY <2>1, <2>2, <2>3, Zenon
<1>13. p \in 0 .. PooledCount
  BY <1>2, <1>3, <1>4
<1> QED
  BY <1>1, <1>2, <1>3, <1>5, <1>6, <1>7, <1>8, <1>9, <1>10, <1>11, <1>12, <1>13 DEF B, D, p

(* The headers of lists may change; the free ones are still there.         *)
LEMMA HeaderFrame ==
    ASSUME NEW h, NEW g, NEW L, NEW Q, HeaderShape(h, L, Q),
           g.hfree = h.hfree, g.hchunks = h.hchunks, g.literals = h.literals,
           \A l \in Headers \ L : g.header[l] = h.header[l]
    PROVE  HeaderShape(g, L, Q)
<1>1. Issued(g) = Issued(h)
  BY DEF Issued
<1>2. \A i \in 1 .. Len(Q) : Q[i] \in Headers \ L
  BY DEF HeaderShape
<1>3. \A l \in Headers \ Issued(h) : l \in Headers \ L
  BY DEF HeaderShape
<1> QED
  BY <1>1, <1>2, <1>3 DEF HeaderShape

(* What is the same after a step on headers alone.                         *)
OnHeaders(g, h) ==
    /\ g \in HeapType /\ g.fault = "none" /\ g.node = h.node /\ g.free = h.free
    /\ g.count = h.count /\ g.chunks = h.chunks /\ g.strings = h.strings

(* replenishHeaderFreelist puts new headers on the empty list of headers.  *)
LEMMA ReplenishHeaderLemma ==
    ASSUME NEW h \in HeapType, NEW L, NEW Q, HeaderShape(h, L, Q), h.fault = "none",
           h.hfree = NULL, h.hchunks # MaxHeaderChunks, NEW g, g = replenishHeaderFreelist(h)
    PROVE  /\ OnHeaders(g, h) /\ g.literals = h.literals
           /\ \A l \in L : g.header[l] = h.header[l]
           /\ \E R : HeaderShape(g, L, R) /\ R # << >>
<1> DEFINE B == MaxLength + NodeCount
           D == B + PooledCount
           M == HEADER_FREELIST_CHUNK_SIZE
           p == M * h.hchunks
           b == B + p
           e == B + M * (h.hchunks + 1)
           c == [i \in 1 .. M |-> b + i]
<1>1. /\ Headers = (B + 1) .. (D + MaxLiterals)
      /\ Issued(h) = ((B + 1) .. (B + p)) \cup ((D + 1) .. (D + h.literals))
      /\ Issued(h) \subseteq Headers
      /\ B \in Nat /\ D \in Nat /\ M \in Nat \ {0} /\ D = B + PooledCount
      /\ p \in 0 .. PooledCount
      /\ \A k : HeaderAt(k) = B + k /\ LiteralAt(k) = D + k
      /\ h.literals \in 0 .. MaxLiterals /\ MaxLiterals \in Nat /\ PooledCount \in Nat
      /\ M * (h.hchunks + 1) \in 0 .. PooledCount
      /\ M * (h.hchunks + 1) = p + M
      /\ h.hchunks * M = p
  BY IssuedLemma
<1>2. HeaderAt(h.hchunks * M + 1) = b + 1 /\ HeaderAt((h.hchunks * M + 1) + M - 1) = e
  <2> HIDE DEF B, D, M, p
  <2>1. HeaderAt(p + 1) = B + (p + 1) /\ HeaderAt((p + 1) + M - 1) = B + ((p + 1) + M - 1)
    BY <1>1
  <2>2. B + (p + 1) = (B + p) + 1 /\ B + ((p + 1) + M - 1) = B + (p + M)
    BY <1>1
  <2> QED
    BY <1>1, <2>1, <2>2
<1> HIDE DEF B, D, M, p
<1>3. /\ b \in Nat /\ e = b + M /\ b + M \in Nat /\ e <= D /\ b >= B
  BY <1>1
<1> DEFINE hd == [l \in Headers |->
                          IF l = e THEN [h.header[l] EXCEPT !.head = h.hfree]
                          ELSE IF l \in (b + 1) .. e
                          THEN [h.header[l] EXCEPT !.head = l + 1] ELSE h.header[l]]
<1>4. g = [h EXCEPT !.header = hd, !.hfree = b + 1, !.hchunks = h.hchunks + 1]
  <2> HIDE DEF b, e
  <2> QED
    BY <1>2 DEF replenishHeaderFreelist, M
<1> HIDE DEF b, e, hd
<1>5. \A l \in (b + 1) .. e : l \in Headers /\ l \notin Issued(h) /\ (l # e => l + 1 \in Headers)
  <2>1. b = B + p
    BY DEF b
  <2> QED
    BY <1>1, <1>3, <2>1
<1>6. \A l \in Headers : h.header[l] \in HeaderType
  BY HeapFields
<1>7. hd \in [Headers -> HeaderType]
  <2>1. \A l \in Headers : hd[l] \in HeaderType
    BY <1>5, <1>6 DEF hd, HeaderType
  <2> QED
    BY <2>1 DEF hd
<1>8. b + 1 \in (b + 1) .. e
  BY <1>1, <1>3
<1>9. /\ g \in HeapType /\ g.fault = "none" /\ g.node = h.node /\ g.free = h.free
      /\ g.count = h.count /\ g.chunks = h.chunks /\ g.strings = h.strings
      /\ g.literals = h.literals /\ g.header = hd /\ g.hfree = b + 1
      /\ g.hchunks = h.hchunks + 1
  <2>1. h.hchunks + 1 \in 0 .. MaxHeaderChunks /\ b + 1 \in Headers
    BY <1>5, <1>8, HeapFields, ListAssumption
  <2> QED
    BY <1>4, <1>7, <2>1 DEF HeapType
<1>10. \A l \in Headers : l \notin (b + 1) .. e => hd[l] = h.header[l]
  <2>1. e \in (b + 1) .. e
    BY <1>1, <1>3
  <2> QED
    BY <2>1 DEF hd
<1>11. Issued(g) = Issued(h) \cup ((b + 1) .. e)
  <2>1. Issued(g) = ((B + 1) .. e) \cup ((D + 1) .. (D + h.literals))
    <3>1. Issued(g) = ((B + 1) .. (B + M * g.hchunks)) \cup ((D + 1) .. (D + g.literals))
      BY <1>9, IssuedLemma DEF B, D, M
    <3> QED
      BY <1>9, <3>1 DEF e
  <2>2. (B + 1) .. e = ((B + 1) .. b) \cup ((b + 1) .. e)
    BY <1>1, <1>3
  <2>3. B + p = b
    BY DEF b
  <2> QED
    BY <1>1, <2>1, <2>2, <2>3
<1>12. c \in Seq(Headers) /\ Len(c) = M /\ \A i \in 1 .. M : c[i] = b + i /\ c[i] \in (b + 1) .. e
  <2>1. \A i \in 1 .. M : b + i \in (b + 1) .. e /\ b + i \in Headers
    BY <1>1, <1>3, <1>5
  <2> QED
    BY <1>1, <2>1
<1> HIDE DEF c
<1>13. HeaderShape(g, L, c)
  <2>1. g.hfree = First(c)
    <3>1. c # << >> /\ c[1] = b + 1
      BY <1>1, <1>12
    <3> QED
      BY <1>9, <3>1 DEF First
  <2>2. ASSUME NEW i \in 1 .. Len(c)
        PROVE  /\ g.header[c[i]].head = Link(c, i)
               /\ c[i] \in Issued(g) /\ c[i] \notin L
    <3>1. c[i] = b + i /\ c[i] \in (b + 1) .. e /\ c[i] \in Headers /\ c[i] \notin Issued(h)
      BY <1>5, <1>12
    <3>2. c[i] \notin L /\ c[i] \in Issued(g)
      BY <1>11, <3>1 DEF HeaderShape
    <3>3. h.header[c[i]] \in HeaderType
      BY <1>6, <3>1
    <3>4. CASE i = M
      <4>1. c[i] = e
        BY <1>3, <3>1, <3>4
      <4>2. hd[c[i]].head = NULL
        BY <3>1, <3>3, <4>1 DEF hd, HeaderType
      <4> QED
        BY <1>1, <1>9, <1>12, <3>2, <3>4, <4>2 DEF Link
    <3>5. CASE i # M
      <4>1. c[i] # e /\ i + 1 \in 1 .. M /\ i < Len(c)
        BY <1>1, <1>3, <1>12, <3>1, <3>5
      <4>2. hd[c[i]].head = c[i] + 1
        BY <3>1, <3>3, <4>1 DEF hd, HeaderType
      <4>3. c[i + 1] = c[i] + 1
        <5>1. c[i + 1] = b + (i + 1)
          BY <1>12, <4>1
        <5> QED
          BY <1>3, <3>1, <4>1, <5>1
      <4> QED
        BY <1>9, <3>2, <4>1, <4>2, <4>3 DEF Link
    <3> QED
      BY <3>4, <3>5
  <2>3. \A i, j \in 1 .. Len(c) : c[i] = c[j] => i = j
    BY <1>1, <1>3, <1>12
  <2>4. L \subseteq Issued(g)
    BY <1>11 DEF HeaderShape
  <2>5. \A l \in Headers \ Issued(g) : g.header[l] = Header(0, NULL, NULL)
    <3>1. \A l \in Headers \ Issued(g) : l \notin (b + 1) .. e /\ l \in Headers \ Issued(h)
      BY <1>11
    <3> QED
      BY <1>9, <1>10, <3>1 DEF HeaderShape
  <2> QED
    BY <1>12, <2>1, <2>2, <2>3, <2>4, <2>5 DEF HeaderShape
<1>14. c # << >>
  BY <1>1, <1>12
<1>15. \A l \in L : g.header[l] = h.header[l]
  <2>1. \A l \in L : l \in Issued(h)
    BY DEF HeaderShape
  <2>2. \A l \in L : l \in Headers /\ l \notin (b + 1) .. e
    BY <1>1, <1>5, <2>1
  <2> QED
    BY <1>9, <1>10, <2>2
<1> QED
  BY <1>9, <1>13, <1>14, <1>15 DEF OnHeaders

(* The first half of getHeaderFromFreelist.                                *)
LEMMA WithHeaderLemma ==
    ASSUME NEW h \in HeapType, NEW L, NEW Q, HeaderShape(h, L, Q), h.fault = "none",
           NEW g, g = WithHeader(h)
    PROVE  \/ g = [h EXCEPT !.fault = "exit"]
           \/ /\ OnHeaders(g, h) /\ \A l \in L : g.header[l] = h.header[l]
              /\ \E R : HeaderShape(g, L, R) /\ R # << >>
<1>1. NULL \notin Headers /\ h.hfree = First(Q) /\ Q \in Seq(Headers)
  BY AddressLemma DEF HeaderShape
<1>2. CASE h.hfree # NULL
  BY <1>1, <1>2 DEF WithHeader, First, OnHeaders
<1>3. CASE h.hfree = NULL /\ h.hchunks = MaxHeaderChunks
  BY <1>3 DEF WithHeader, replenishHeaderFreelist
<1>4. CASE h.hfree = NULL /\ h.hchunks # MaxHeaderChunks
  <2>1. g = replenishHeaderFreelist(h)
    BY <1>4 DEF WithHeader
  <2> QED
    BY <1>4, <2>1, ReplenishHeaderLemma
<1> QED
  BY <1>2, <1>3, <1>4

(* BCPL_LIST_CREATE_EMPTY yields an empty list that was none before.       *)
LEMMA CreateLemma ==
    ASSUME NEW h \in HeapType, NEW L, NEW Q, HeaderShape(h, L, Q), h.fault = "none",
           NEW g, g = BCPL_LIST_CREATE_EMPTY(h), NEW m, m = NewHeader(h)
    PROVE  \/ g = [h EXCEPT !.fault = "exit"]
           \/ /\ OnHeaders(g, h) /\ \A l \in L : g.header[l] = h.header[l]
              /\ m \in Headers /\ m \notin L /\ g.header[m] = Header(0, NULL, NULL)
              /\ \E R : HeaderShape(g, L \cup {m}, R)
<1> DEFINE w == WithHeader(h)
<1>1. CASE w = [h EXCEPT !.fault = "exit"]
  <2>1. w.fault = "exit"
    BY <1>1, FaultLemma
  <2> QED
    BY <1>1, <2>1 DEF BCPL_LIST_CREATE_EMPTY
<1>2. ASSUME OnHeaders(w, h), \A l \in L : w.header[l] = h.header[l],
             NEW R, HeaderShape(w, L, R), R # << >>
      PROVE  /\ OnHeaders(g, h) /\ \A l \in L : g.header[l] = h.header[l]
             /\ m \in Headers /\ m \notin L /\ g.header[m] = Header(0, NULL, NULL)
             /\ \E T : HeaderShape(g, L \cup {m}, T)
  <2>1. w \in HeapType /\ w.fault = "none" /\ m = w.hfree /\ w.header \in [Headers -> HeaderType]
    BY <1>2, HeapFields DEF OnHeaders, NewHeader
  <2> HIDE DEF w
  <2>2. /\ R \in Seq(Headers) /\ m = R[1] /\ 1 \in 1 .. Len(R) /\ Len(R) \in Nat \ {0}
        /\ L \subseteq Issued(w)
        /\ \A i \in 1 .. Len(R) : /\ w.header[R[i]].head = Link(R, i)
                                  /\ R[i] \in Issued(w) /\ R[i] \notin L /\ R[i] \in Headers
        /\ \A i, j \in 1 .. Len(R) : R[i] = R[j] => i = j
        /\ \A l \in Headers \ Issued(w) : w.header[l] = Header(0, NULL, NULL)
    BY <1>2, <2>1 DEF HeaderShape, First
  <2> DEFINE T == Tail(R)
  <2>3. /\ T \in Seq(Headers) /\ Len(T) = Len(R) - 1
        /\ \A i \in 1 .. Len(T) : T[i] = R[i + 1] /\ i + 1 \in 1 .. Len(R)
        /\ Len(T) = 0 => T = << >>
    BY <2>2
  <2> HIDE DEF T
  <2>4. g = [w EXCEPT !.hfree = w.header[m].head,
                      !.header = [w.header EXCEPT ![m] = Header(0, NULL, NULL)]]
    BY <2>1 DEF BCPL_LIST_CREATE_EMPTY, HeapType, w
  <2>5. w.header[m].head = Link(R, 1) /\ m \in Headers /\ m \notin L
    BY <2>2
  <2>6. w.header[m].head = First(T)
    BY <2>2, <2>3, <2>5 DEF Link, First
  <2>7. First(T) \in Headers \cup {NULL}
    BY <2>3 DEF First
  <2>8. [w.header EXCEPT ![m] = Header(0, NULL, NULL)] \in [Headers -> HeaderType]
    <3>1. Header(0, NULL, NULL) \in HeaderType
      BY AddressLemma DEF Header, HeaderType
    <3> QED
      BY ONLY <2>1, <3>1, Zenon
  <2>9. /\ g \in HeapType /\ g.fault = "none" /\ g.node = w.node /\ g.free = w.free
        /\ g.count = w.count /\ g.chunks = w.chunks /\ g.strings = w.strings
        /\ g.hfree = First(T) /\ g.header = [w.header EXCEPT ![m] = Header(0, NULL, NULL)]
        /\ g.hchunks = w.hchunks /\ g.literals = w.literals
    BY <2>1, <2>4, <2>6, <2>7, <2>8 DEF HeapType
  <2>10. /\ g.header[m] = Header(0, NULL, NULL)
         /\ \A l \in Headers : l # m => g.header[l] = w.header[l]
    BY <2>1, <2>5, <2>9
  <2>11. Issued(g) = Issued(w) /\ Issued(w) \subseteq Headers
    BY <2>1, <2>9, IssuedLemma DEF Issued
  <2>12. HeaderShape(g, L \cup {m}, T)
    <3>1. ASSUME NEW i \in 1 .. Len(T)
          PROVE  /\ g.header[T[i]].head = Link(T, i)
                 /\ T[i] \in Issued(g) /\ T[i] \notin L \cup {m}
      <4>1. T[i] = R[i + 1] /\ i + 1 \in 1 .. Len(R) /\ i \in Nat
        BY <2>2, <2>3
      <4>2. T[i] # m /\ T[i] \in Headers /\ T[i] \in Issued(w) /\ T[i] \notin L
        <5>1. i + 1 # 1
          BY <4>1
        <5> QED
          BY <2>2, <4>1, <5>1
      <4>3. Link(T, i) = Link(R, i + 1)
        <5>1. CASE i < Len(T)
          <6>1. i + 1 \in 1 .. Len(T) /\ i + 1 < Len(R)
            BY <2>2, <2>3, <4>1, <5>1
          <6>2. T[i + 1] = R[(i + 1) + 1]
            BY <2>3, <6>1
          <6> QED
            BY <5>1, <6>1, <6>2 DEF Link
        <5>2. CASE ~(i < Len(T))
          BY <2>2, <2>3, <4>1, <5>2 DEF Link
        <5> QED
          BY <5>1, <5>2
      <4>4. w.header[R[i + 1]].head = Link(R, i + 1)
        BY <2>2, <4>1
      <4> QED
        BY <2>10, <2>11, <4>1, <4>2, <4>3, <4>4
    <3>2. \A i, j \in 1 .. Len(T) : T[i] = T[j] => i = j
      <4> SUFFICES ASSUME NEW i \in 1 .. Len(T), NEW j \in 1 .. Len(T), T[i] = T[j]
                   PROVE  i = j
        OBVIOUS
      <4>1. i + 1 \in 1 .. Len(R) /\ j + 1 \in 1 .. Len(R) /\ R[i + 1] = R[j + 1]
        BY <2>3
      <4>2. i + 1 = j + 1
        BY <2>2, <4>1
      <4> QED
        BY <2>2, <2>3, <4>2
    <3>3. L \cup {m} \subseteq Issued(g)
      BY <2>2, <2>11
    <3>4. \A l \in Headers \ Issued(g) : g.header[l] = Header(0, NULL, NULL)
      BY <2>2, <2>10, <2>11
    <3> QED
      BY <2>3, <2>9, <3>1, <3>2, <3>3, <3>4 DEF HeaderShape
  <2>13. \A l \in L : g.header[l] = h.header[l]
    BY <1>2, <2>2, <2>5, <2>10, <2>11
  <2> QED
    BY <1>2, <2>5, <2>9, <2>10, <2>12, <2>13 DEF OnHeaders
<1>3. \/ w = [h EXCEPT !.fault = "exit"]
      \/ /\ OnHeaders(w, h) /\ \A l \in L : w.header[l] = h.header[l]
         /\ \E R : HeaderShape(w, L, R) /\ R # << >>
  BY WithHeaderLemma
<1> QED
  BY <1>1, <1>2, <1>3

(* The header that a copy of a literal takes from malloc.                  *)
LEMMA LiteralLemma ==
    ASSUME NEW h \in HeapType, NEW L, NEW Q, HeaderShape(h, L, Q), h.fault = "none",
           h.literals < MaxLiterals, NEW g, g = [h EXCEPT !.literals = @ + 1],
           NEW m, m = LiteralAt(h.literals + 1)
    PROVE  /\ OnHeaders(g, h) /\ g.header = h.header
           /\ m \in Headers /\ m \notin L /\ g.header[m] = Header(0, NULL, NULL)
           /\ HeaderShape(g, L \cup {m}, Q)
<1> DEFINE B == MaxLength + NodeCount
           D == B + PooledCount
           p == HEADER_FREELIST_CHUNK_SIZE * h.hchunks
<1>1. /\ h.literals \in 0 .. MaxLiterals /\ MaxLiterals \in Nat
      /\ h.literals + 1 \in 0 .. MaxLiterals
  BY HeapFields, ListAssumption
<1>2. /\ g \in HeapType /\ g.fault = "none" /\ g.node = h.node /\ g.free = h.free
      /\ g.count = h.count /\ g.chunks = h.chunks /\ g.strings = h.strings
      /\ g.header = h.header /\ g.hfree = h.hfree /\ g.hchunks = h.hchunks
      /\ g.literals = h.literals + 1
  BY <1>1 DEF HeapType
<1>3. /\ Headers = (B + 1) .. (D + MaxLiterals)
      /\ Issued(h) = ((B + 1) .. (B + p)) \cup ((D + 1) .. (D + h.literals))
      /\ B \in Nat /\ D \in Nat /\ D = B + PooledCount /\ p \in 0 .. PooledCount
      /\ LiteralAt(h.literals + 1) = D + (h.literals + 1) /\ PooledCount \in Nat
  BY IssuedLemma
<1>4. Issued(g) = ((B + 1) .. (B + p)) \cup ((D + 1) .. (D + (h.literals + 1)))
  <2>1. Issued(g) = ((B + 1) .. (B + HEADER_FREELIST_CHUNK_SIZE * g.hchunks))
                    \cup ((D + 1) .. (D + g.literals))
    BY <1>2, IssuedLemma
  <2> QED
    BY <1>2, <2>1
<1> HIDE DEF B, D, p
<1>5. m \in Headers /\ m \notin Issued(h) /\ Issued(g) = Issued(h) \cup {m}
  <2>1. m = D + (h.literals + 1)
    BY <1>3
  <2>a. PICK q \in Nat : q = h.literals
    BY <1>1
  <2>b. /\ B \in Nat /\ D \in Nat /\ D = B + PooledCount /\ p \in 0 .. PooledCount
        /\ PooledCount \in Nat /\ MaxLiterals \in Nat /\ q + 1 <= MaxLiterals /\ m = D + (q + 1)
    BY <1>1, <1>3, <2>1, <2>a
  <2>2. m \in (B + 1) .. (D + MaxLiterals)
    BY ONLY <2>a, <2>b
  <2>3. m \notin (B + 1) .. (B + p) /\ m \notin (D + 1) .. (D + q)
    BY ONLY <2>a, <2>b
  <2>4. (D + 1) .. (D + (q + 1)) = ((D + 1) .. (D + q)) \cup {m}
    BY ONLY <2>a, <2>b
  <2> QED
    BY <1>3, <1>4, <2>a, <2>2, <2>3, <2>4
<1>6. HeaderShape(g, L \cup {m}, Q)
  <2>1. \A i \in 1 .. Len(Q) : Q[i] \in Issued(h) /\ Q[i] \notin L \cup {m}
    BY <1>5 DEF HeaderShape
  <2> QED
    BY <1>2, <1>5, <2>1 DEF HeaderShape
<1>7. m \notin L /\ h.header[m] = Header(0, NULL, NULL)
  BY <1>5 DEF HeaderShape
<1> QED
  BY <1>2, <1>5, <1>6, <1>7 DEF OnHeaders

(* The header of a list goes back to its pool.                             *)
LEMMA ReturnHeaderLemma ==
    ASSUME NEW h \in HeapType, NEW L, NEW Q, HeaderShape(h, L, Q), h.fault = "none",
           NEW l \in L, NEW g, g = returnHeaderToFreelist(h, l)
    PROVE  /\ OnHeaders(g, h) /\ \A k \in L \ {l} : g.header[k] = h.header[k]
           /\ \E R : HeaderShape(g, L \ {l}, R)
<1> DEFINE T == <<l>> \o Q
<1>1. /\ h.header \in [Headers -> HeaderType] /\ h.hfree \in Headers \cup {NULL}
      /\ Issued(h) \subseteq Headers /\ L \subseteq Issued(h) /\ l \in Headers
      /\ L \subseteq Headers
  BY HeapFields, IssuedLemma DEF HeaderShape
<1>2. Header(0, h.hfree, NULL) \in HeaderType
  BY <1>1, AddressLemma DEF Header, HeaderType
<1>3. [h.header EXCEPT ![l] = Header(0, h.hfree, NULL)] \in [Headers -> HeaderType]
  BY ONLY <1>1, <1>2, Zenon
<1>4. g = [h EXCEPT !.header = [h.header EXCEPT ![l] = Header(0, h.hfree, NULL)], !.hfree = l]
  BY DEF returnHeaderToFreelist, HeapType
<1>5. /\ g \in HeapType /\ g.fault = "none" /\ g.node = h.node /\ g.free = h.free
      /\ g.count = h.count /\ g.chunks = h.chunks /\ g.strings = h.strings
      /\ g.header = [h.header EXCEPT ![l] = Header(0, h.hfree, NULL)] /\ g.hfree = l
      /\ g.hchunks = h.hchunks /\ g.literals = h.literals
  BY <1>1, <1>3, <1>4 DEF HeapType
<1>6. /\ g.header[l].head = h.hfree /\ \A k \in Headers : k # l => g.header[k] = h.header[k]
  BY <1>1, <1>5 DEF Header
<1>7. Issued(g) = Issued(h)
  BY <1>5 DEF Issued
<1>8. /\ Q \in Seq(Headers) /\ h.hfree = First(Q) /\ Len(Q) \in Nat
      /\ \A i \in 1 .. Len(Q) : /\ h.header[Q[i]].head = Link(Q, i)
                                /\ Q[i] \in Issued(h) /\ Q[i] \notin L
      /\ \A i, j \in 1 .. Len(Q) : Q[i] = Q[j] => i = j
      /\ \A k \in Headers \ Issued(h) : h.header[k] = Header(0, NULL, NULL)
  BY DEF HeaderShape
<1>9. /\ T \in Seq(Headers) /\ Len(T) = Len(Q) + 1 /\ T[1] = l /\ T # << >>
      /\ \A i \in 1 .. Len(Q) : T[i + 1] = Q[i]
      /\ \A i \in 1 .. Len(T) : i # 1 => T[i] = Q[i - 1] /\ i - 1 \in 1 .. Len(Q)
      /\ (Q = << >> <=> Len(Q) = 0)
  BY <1>1, <1>8
<1> HIDE DEF T
<1>10. ASSUME NEW i \in 1 .. Len(T)
       PROVE  /\ g.header[T[i]].head = Link(T, i)
              /\ T[i] \in Issued(g) /\ T[i] \notin L \ {l}
  <2>1. CASE i = 1
    <3>1. Link(T, 1) = First(Q)
      BY <1>8, <1>9 DEF Link, First
    <3> QED
      BY <1>1, <1>6, <1>7, <1>8, <1>9, <2>1, <3>1
  <2>2. CASE i # 1
    <3>1. T[i] = Q[i - 1] /\ i - 1 \in 1 .. Len(Q) /\ (i - 1) + 1 = i
      BY <1>8, <1>9, <2>2
    <3>2. h.header[Q[i - 1]].head = Link(Q, i - 1) /\ Q[i - 1] \in Issued(h) /\ Q[i - 1] \notin L
      BY <1>8, <3>1
    <3>3. Link(T, i) = Link(Q, i - 1)
      <4>1. i < Len(T) => i \in 1 .. Len(Q) /\ T[i + 1] = Q[i]
        BY <1>8, <1>9
      <4> QED
        BY <1>8, <1>9, <3>1, <4>1 DEF Link
    <3>4. Q[i - 1] \in Headers /\ Q[i - 1] # l
      BY <1>1, <3>2
    <3> QED
      BY <1>6, <1>7, <3>1, <3>2, <3>3, <3>4
  <2> QED
    BY <2>1, <2>2
<1>11. \A i, j \in 1 .. Len(T) : T[i] = T[j] => i = j
  <2> SUFFICES ASSUME NEW i \in 1 .. Len(T), NEW j \in 1 .. Len(T), T[i] = T[j] PROVE i = j
    OBVIOUS
  <2>1. \A k \in 1 .. Len(T) : k # 1 => T[k] # l
    BY <1>8, <1>9
  <2>2. CASE i = 1 \/ j = 1
    BY <1>9, <2>1, <2>2
  <2>3. CASE i # 1 /\ j # 1
    <3>1. i - 1 = j - 1
      BY <1>8, <1>9, <2>3
    <3> QED
      BY <1>8, <1>9, <3>1
  <2> QED
    BY <2>2, <2>3
<1>12. \A k \in Headers \ Issued(g) : g.header[k] = Header(0, NULL, NULL)
  BY <1>1, <1>6, <1>7, <1>8
<1>13. HeaderShape(g, L \ {l}, T)
  <2>1. g.hfree = First(T)
    BY <1>5, <1>9 DEF First
  <2> QED
    BY <1>1, <1>7, <1>9, <1>10, <1>11, <1>12, <2>1 DEF HeaderShape
<1> QED
  BY <1>1, <1>5, <1>6, <1>13 DEF OnHeaders, T

-----------------------------------------------------------------------------
(* Making a list. *)

(* A call that makes the list m has put s into it, or has failed and left  *)
(* the other lists as they were.                                           *)
Reached(h, C, m, s) ==
    \/ h.fault # "none" /\ Keeps(h, C)
    \/ /\ h.fault = "none" /\ m \in Headers \ DOMAIN C /\ Holds(h, Plus(C, m, s))
       /\ h.header[m].length = Len(s) /\ (s = << >> => h.header[m].tail = NULL)

(* A call that fails keeps to the strings, and says why.                   *)
Gave(g, h) == g.strings = h.strings /\ (g.fault = h.fault \/ g.fault = "exit")

(* What the heap holds after a fault that nothing came of.                 *)
LEMMA GaveUpLemma ==
    ASSUME NEW h, NEW C, NEW D, Holds(h, D), DOMAIN C \subseteq DOMAIN D,
           \A l \in DOMAIN C : C[l] = D[l], NEW g, g = [h EXCEPT !.fault = "exit"]
    PROVE  g.fault # "none" /\ Keeps(g, C) /\ Gave(g, h)
<1>1. PICK P : Stores(h, DOMAIN D, D, P)
  BY DEF Holds
<1>2. Keeps(h, C) /\ h \in HeapType
  <2>1. DOMAIN C \subseteq DOMAIN D /\ \A l \in DOMAIN C : C[l] = D[l]
    OBVIOUS
  <2>2. Keeps(h, C)
    BY ONLY <1>1, <2>1, StoresKeeps
  <2> QED
    BY <1>1, <2>2 DEF Stores
<1>3. /\ g \in HeapType /\ g.node = h.node /\ g.header = h.header /\ g.strings = h.strings
      /\ g.fault = "exit"
  BY <1>2, FaultLemma
<1>4. Keeps(g, C)
  BY <1>2, <1>3, KeepsSame
<1> QED
  BY <1>3, <1>4 DEF Gave

(* A new header is an empty list.                                          *)
LEMMA NewListLemma ==
    ASSUME NEW h, NEW C, Holds(h, C), NEW g, OnHeaders(g, h), NEW m \in Headers \ DOMAIN C,
           \A l \in DOMAIN C : g.header[l] = h.header[l],
           g.header[m] = Header(0, NULL, NULL), \E R : HeaderShape(g, DOMAIN C \cup {m}, R)
    PROVE  Reached(g, C, m, << >>)
<1> DEFINE D == Plus(C, m, << >>)
<1>1. PICK P : Stores(h, DOMAIN C, C, P)
  BY DEF Holds
<1> DEFINE R == [d \in DOMAIN P \cup {m} |-> IF d = m THEN << >> ELSE P[d]]
<1>2. /\ DOMAIN D = DOMAIN C \cup {m} /\ D[m] = << >> /\ \A l \in DOMAIN C : D[l] = C[l]
  BY DEF Plus
<1>3. /\ m \notin DOMAIN P /\ m # NULL /\ DOMAIN P = DOMAIN C \cup {NULL}
      /\ DOMAIN C \subseteq Headers /\ Part(P, Malloced(h))
      /\ \A d \in DOMAIN P : Linked(h, P[d])
      /\ h.free = First(P[NULL]) /\ h.count = Len(P[NULL])
      /\ \A l \in DOMAIN C : Heads(h, l, P[l]) /\ C[l] = Contents(h, P[l])
  BY <1>1, AddressLemma DEF Stores, Shape
<1>4. /\ DOMAIN R = DOMAIN P \cup {m} /\ R[m] = << >> /\ \A d \in DOMAIN P : R[d] = P[d]
  BY <1>3
<1> HIDE DEF R, D
<1>5. Part(R, Malloced(g))
  <2>1. Malloced(g) = Malloced(h)
    BY DEF Malloced, OnHeaders
  <2>2. /\ \A d \in DOMAIN P : (d \in DOMAIN R /\ R[d] = P[d]) \/ P[d] = << >>
        /\ \A d \in DOMAIN R : (d \in DOMAIN P /\ R[d] = P[d]) \/ R[d] = << >>
    BY <1>4
  <2> QED
    BY <1>3, <2>1, <2>2, EmptyLemma
<1>6. \A d \in DOMAIN P : Linked(g, P[d]) /\ Contents(g, P[d]) = Contents(h, P[d])
  BY <1>3, FrameLemma DEF OnHeaders
<1>7. Linked(g, << >>) /\ Contents(g, << >>) = << >> /\ Heads(g, m, << >>)
  <2>1. Len(<< >>) = 0 /\ 1 .. 0 = {}
    OBVIOUS
  <2>2. Heads(g, m, << >>)
    BY DEF Heads, Header, First
  <2>3. Contents(g, << >>) = << >>
    BY DEF Contents
  <2> QED
    BY <2>1, <2>2, <2>3 DEF Linked
<1>8. Shape(g, DOMAIN D, R)
  <2>1. \A d \in DOMAIN R : Linked(g, R[d])
    BY <1>4, <1>6, <1>7
  <2>2. \A l \in DOMAIN D : Heads(g, l, R[l])
    <3> SUFFICES ASSUME NEW l \in DOMAIN C PROVE Heads(g, l, R[l])
      BY <1>2, <1>4, <1>7
    <3>1. Heads(h, l, P[l]) /\ R[l] = P[l]
      BY <1>3, <1>4
    <3> QED
      BY <3>1 DEF Heads
  <2>3. g.free = First(R[NULL]) /\ g.count = Len(R[NULL])
    BY <1>3, <1>4 DEF OnHeaders
  <2> QED
    BY <1>2, <1>3, <1>4, <1>5, <2>1, <2>2, <2>3 DEF Shape
<1>9. \A d \in DOMAIN D : D[d] = Contents(g, R[d])
  BY <1>2, <1>3, <1>4, <1>6, <1>7
<1>10. Stores(g, DOMAIN D, D, R)
  BY <1>2, <1>3, <1>4, <1>8, <1>9 DEF Stores, OnHeaders
<1>11. Holds(g, D)
  BY <1>2, <1>10 DEF Holds
<1>12. g.header[m].length = 0 /\ g.header[m].tail = NULL /\ Len(<< >>) = 0
  BY DEF Header
<1> QED
  BY <1>11, <1>12 DEF Reached, OnHeaders, D

(* The length of the list under way is the number of its atoms.            *)
LEMMA ReachedStores ==
    ASSUME NEW h, NEW C, NEW m, NEW s, Reached(h, C, m, s), h.fault = "none"
    PROVE  \E P, Q : /\ Stores(h, DOMAIN C \cup {m}, Plus(C, m, s), P)
                     /\ HeaderShape(h, DOMAIN C \cup {m}, Q)
                     /\ m \in Headers /\ m \notin DOMAIN C
                     /\ h.header[m].length = Len(s) /\ (s = << >> => h.header[m].tail = NULL)
                     /\ s = Contents(h, P[m]) /\ P[m] \in Seq(Nodes) /\ Len(P[m]) = Len(s)
                     /\ h \in HeapType
<1>1. /\ m \in Headers /\ m \notin DOMAIN C /\ Holds(h, Plus(C, m, s))
      /\ h.header[m].length = Len(s) /\ (s = << >> => h.header[m].tail = NULL)
  BY DEF Reached
<1>2. DOMAIN Plus(C, m, s) = DOMAIN C \cup {m} /\ Plus(C, m, s)[m] = s
  BY DEF Plus
<1>3. PICK P : Stores(h, DOMAIN C \cup {m}, Plus(C, m, s), P)
  BY <1>1, <1>2 DEF Holds
<1>4. PICK Q : HeaderShape(h, DOMAIN C \cup {m}, Q)
  BY <1>1, <1>2 DEF Holds
<1>5. s = Contents(h, P[m]) /\ P[m] \in Seq(Nodes) /\ h \in HeapType
  BY <1>2, <1>3 DEF Stores, Shape, Part
<1>6. Len(P[m]) = Len(s)
  BY <1>5, ContentsLemma
<1> QED
  BY <1>1, <1>3, <1>4, <1>5, <1>6

(* The converse: what there is to show of a list under way.                *)
LEMMA StoresReached ==
    ASSUME NEW h, NEW C, NEW m \in Headers \ DOMAIN C, NEW s, h.fault = "none",
           NEW P, Stores(h, DOMAIN C \cup {m}, Plus(C, m, s), P),
           NEW Q, HeaderShape(h, DOMAIN C \cup {m}, Q),
           h.header[m].length = Len(s), s = << >> => h.header[m].tail = NULL
    PROVE  Reached(h, C, m, s)
<1>1. DOMAIN Plus(C, m, s) = DOMAIN C \cup {m}
  BY DEF Plus
<1> QED
  BY <1>1 DEF Reached, Holds

(* A node for the list under way, if there is one.                         *)
LEMMA WithNodeReached ==
    ASSUME NEW h, NEW C, NEW m, NEW s, Reached(h, C, m, s)
    PROVE  /\ Reached(WithNode(h), C, m, s) /\ Gave(WithNode(h), h)
           /\ WithNode(h).fault = "none" => WithNode(h).free # NULL
<1> DEFINE g == WithNode(h)
<1>1. CASE h.fault # "none"
  BY <1>1 DEF WithNode, Gave
<1>2. CASE h.fault = "none"
  <2>1. PICK P, Q : /\ Stores(h, DOMAIN C \cup {m}, Plus(C, m, s), P)
                    /\ HeaderShape(h, DOMAIN C \cup {m}, Q)
                    /\ m \in Headers /\ m \notin DOMAIN C
                    /\ h.header[m].length = Len(s) /\ (s = << >> => h.header[m].tail = NULL)
    BY <1>2, ReachedStores
  <2>2. \/ g = [h EXCEPT !.fault = "exit"]
        \/ /\ OnNodes(g, h) /\ g.header = h.header /\ g.free # NULL
           /\ \E R : Stores(g, DOMAIN C \cup {m}, Plus(C, m, s), R)
    BY <1>2, <2>1, WithNodeLemma
  <2> HIDE DEF g
  <2>3. CASE g = [h EXCEPT !.fault = "exit"]
    <3>1. Holds(h, Plus(C, m, s))
      BY <1>2 DEF Reached
    <3>2. /\ DOMAIN C \subseteq DOMAIN Plus(C, m, s)
          /\ \A l \in DOMAIN C : C[l] = Plus(C, m, s)[l]
      BY <2>1 DEF Plus
    <3>3. g.fault # "none" /\ Keeps(g, C) /\ Gave(g, h)
      BY <2>3, <3>1, <3>2, GaveUpLemma
    <3> QED
      BY <3>3 DEF Reached, g
  <2>4. ASSUME OnNodes(g, h), g.header = h.header, g.free # NULL,
               NEW R, Stores(g, DOMAIN C \cup {m}, Plus(C, m, s), R)
        PROVE  Reached(g, C, m, s) /\ Gave(g, h) /\ g.free # NULL
    <3>1. HeaderShape(g, DOMAIN C \cup {m}, Q)
      BY <2>1, <2>4, HeaderFrame DEF OnNodes
    <3>2. g.header[m].length = Len(s) /\ (s = << >> => g.header[m].tail = NULL)
          /\ g.fault = "none"
      BY <2>1, <2>4 DEF OnNodes
    <3>3. Reached(g, C, m, s)
      BY <2>1, <2>4, <3>1, <3>2, StoresReached
    <3> QED
      BY <1>2, <2>4, <3>3 DEF Gave, OnNodes
  <2> QED
    BY <2>2, <2>3, <2>4 DEF g
<1> QED
  BY <1>1, <1>2

(* One more atom at the end of the list under way.                         *)
LEMMA AppendReached ==
    ASSUME NEW h, NEW C, NEW m, NEW s, Reached(h, C, m, s),
           h.fault = "none" => Len(s) < MaxLength,
           NEW type \in AtomTypes, NEW value \in Values
    PROVE  /\ Reached(AppendNode(h, m, type, value), C, m, Append(s, <<type, value>>))
           /\ Gave(AppendNode(h, m, type, value), h)
<1> DEFINE w == WithNode(h)
           g == AppendNode(h, m, type, value)
           t == Append(s, <<type, value>>)
<1>1. Reached(w, C, m, s) /\ Gave(w, h) /\ (w.fault = "none" => w.free # NULL)
  BY WithNodeReached
<1>2. CASE w.fault # "none"
  <2>1. g = w
    BY <1>2 DEF AppendNode
  <2>2. Reached(w, C, m, t)
    BY <1>1, <1>2 DEF Reached
  <2> QED
    BY <1>1, <2>1, <2>2
<1>3. CASE w.fault = "none"
  <2>0. WithNode(w) = w
    BY <1>1, <1>3 DEF WithNode
  <2>1. g = AppendNode(w, m, type, value)
    BY <2>0 DEF AppendNode
  <2>2. h.fault = "none"
    BY <1>1, <1>3 DEF Gave
  <2> HIDE DEF w, g
  <2>3. PICK P, Q : /\ Stores(w, DOMAIN C \cup {m}, Plus(C, m, s), P)
                    /\ HeaderShape(w, DOMAIN C \cup {m}, Q)
                    /\ m \in Headers /\ m \notin DOMAIN C
                    /\ w.header[m].length = Len(s)
                    /\ s = Contents(w, P[m]) /\ P[m] \in Seq(Nodes)
    BY <1>1, <1>3, ReachedStores
  <2>4. P[NULL] # << >>
    BY <1>1, <1>3, <2>3 DEF Stores, Shape, First
  <2>5. s \in Seq({<<w.node[n].type, w.node[n].value>> : n \in Nodes}) /\ Len(s) \in Nat
    BY <2>3, ContentsLemma
  <2>6. Len(t) = Len(s) + 1 /\ t # << >>
    <3> DEFINE A == {<<w.node[n].type, w.node[n].value>> : n \in Nodes} \cup {<<type, value>>}
    <3>1. s \in Seq(A)
      BY <2>5, SeqMonotonic
    <3> DEFINE a == <<type, value>>
    <3>2. a \in A
      OBVIOUS
    <3> HIDE DEF A, a
    <3>3. Len(Append(s, a)) = Len(s) + 1 /\ Append(s, a) # << >>
      BY <2>5, <3>1, <3>2
    <3> QED
      BY <3>3 DEF a
  <2> HIDE DEF t
  <2>7. w.header[m].length < MaxLength
    BY <2>2, <2>3
  <2> DEFINE E == Plus(C, m, s)
  <2>8. Plus(E, m, Append(E[m], <<type, value>>)) = Plus(C, m, t)
    BY <2>3 DEF Plus, t
  <2>8a. Stores(w, DOMAIN C \cup {m}, E, P) /\ m \in DOMAIN C \cup {m}
    BY <2>3
  <2> HIDE DEF E
  <2>9. /\ OnNodes(g, w) /\ \A l \in Headers \ {m} : g.header[l] = w.header[l]
        /\ g.header[m].length = w.header[m].length + 1
        /\ \E R : Stores(g, DOMAIN C \cup {m}, Plus(E, m, Append(E[m], <<type, value>>)), R)
    <3>1. type \in AtomTypes /\ value \in Values
      OBVIOUS
    <3> QED
      BY ONLY <1>3, <2>1, <2>4, <2>7, <2>8a, <3>1, AppendTakenLemma
  <2>10. PICK R : Stores(g, DOMAIN C \cup {m}, Plus(C, m, t), R)
    BY <2>8, <2>9
  <2>11. HeaderShape(g, DOMAIN C \cup {m}, Q)
    BY <2>3, <2>9, HeaderFrame DEF OnNodes
  <2>12. Reached(g, C, m, t)
    BY <2>3, <2>6, <2>9, <2>10, <2>11, StoresReached DEF OnNodes
  <2>13. Gave(g, h)
    BY <1>1, <1>3, <2>2, <2>9 DEF Gave, OnNodes
  <2> QED
    BY <2>12, <2>13 DEF g, t
<1> QED
  BY <1>2, <1>3

(* One more atom at the front of the list under way.                       *)
LEMMA PrependReached ==
    ASSUME NEW h, NEW C, NEW m, NEW s, Reached(h, C, m, s),
           h.fault = "none" => Len(s) < MaxLength,
           NEW type \in AtomTypes, NEW value \in Values
    PROVE  /\ Reached(PrependNode(h, m, type, value), C, m, <<<<type, value>>>> \o s)
           /\ Gave(PrependNode(h, m, type, value), h)
<1> DEFINE w == WithNode(h)
           g == PrependNode(h, m, type, value)
           a == <<type, value>>
           t == <<a>> \o s
<1>1. Reached(w, C, m, s) /\ Gave(w, h) /\ (w.fault = "none" => w.free # NULL)
  BY WithNodeReached
<1>2. CASE w.fault # "none"
  <2>1. g = w
    BY <1>2 DEF PrependNode
  <2>2. Reached(w, C, m, t)
    BY <1>1, <1>2 DEF Reached
  <2> QED
    BY <1>1, <2>1, <2>2
<1>3. CASE w.fault = "none"
  <2>0. WithNode(w) = w
    BY <1>1, <1>3 DEF WithNode
  <2>1. g = PrependNode(w, m, type, value)
    BY <2>0 DEF PrependNode
  <2>2. h.fault = "none"
    BY <1>1, <1>3 DEF Gave
  <2> HIDE DEF w, g
  <2>3. PICK P, Q : /\ Stores(w, DOMAIN C \cup {m}, Plus(C, m, s), P)
                    /\ HeaderShape(w, DOMAIN C \cup {m}, Q)
                    /\ m \in Headers /\ m \notin DOMAIN C
                    /\ w.header[m].length = Len(s) /\ (s = << >> => w.header[m].tail = NULL)
                    /\ s = Contents(w, P[m]) /\ P[m] \in Seq(Nodes) /\ Len(P[m]) = Len(s)
                    /\ w \in HeapType
    BY ONLY <1>1, <1>3, ReachedStores, Zenon
  <2>4. P[NULL] # << >>
    BY <1>1, <1>3, <2>3 DEF Stores, Shape, First
  <2>5. s \in Seq({<<w.node[n].type, w.node[n].value>> : n \in Nodes}) /\ Len(s) \in Nat
    BY <2>3, ContentsLemma
  <2>6. Len(t) = Len(s) + 1 /\ t # << >>
    <3> DEFINE A == {<<w.node[n].type, w.node[n].value>> : n \in Nodes} \cup {<<type, value>>}
    <3>1. s \in Seq(A)
      BY <2>5, SeqMonotonic
    <3>2. a \in A
      OBVIOUS
    <3> HIDE DEF A, a
    <3>3. <<a>> \in Seq(A) /\ Len(<<a>>) = 1
      BY <3>2
    <3> QED
      BY <2>5, <3>1, <3>3
  <2>6a. P[m] = << >> => w.header[m].tail = NULL
    BY <2>3, <2>5
  <2> HIDE DEF t
  <2>7. w.header[m].length < MaxLength
    BY <2>2, <2>3
  <2> DEFINE E == Plus(C, m, s)
  <2>8. Plus(E, m, <<<<type, value>>>> \o E[m]) = Plus(C, m, t)
    BY <2>3 DEF Plus, t
  <2>8a. Stores(w, DOMAIN C \cup {m}, E, P) /\ m \in DOMAIN C \cup {m}
    BY <2>3
  <2> HIDE DEF E
  <2>9. /\ OnNodes(g, w) /\ \A l \in Headers \ {m} : g.header[l] = w.header[l]
        /\ g.header[m].length = w.header[m].length + 1
        /\ \E R : Stores(g, DOMAIN C \cup {m}, Plus(E, m, <<<<type, value>>>> \o E[m]), R)
    <3>1. type \in AtomTypes /\ value \in Values
      OBVIOUS
    <3> QED
      BY ONLY <1>3, <2>1, <2>4, <2>6a, <2>7, <2>8a, <3>1, PrependTakenLemma
  <2>10. PICK R : Stores(g, DOMAIN C \cup {m}, Plus(C, m, t), R)
    BY <2>8, <2>9
  <2>11. HeaderShape(g, DOMAIN C \cup {m}, Q)
    BY <2>3, <2>9, HeaderFrame DEF OnNodes
  <2>12. Reached(g, C, m, t)
    BY <2>3, <2>6, <2>9, <2>10, <2>11, StoresReached DEF OnNodes
  <2>13. Gave(g, h)
    BY <1>1, <1>3, <2>2, <2>9 DEF Gave, OnNodes
  <2> QED
    BY <2>12, <2>13 DEF g, t
<1> QED
  BY <1>2, <1>3

(* The heap with the strings S.                                            *)
Restrung(h, S) == [h EXCEPT !.strings = S]

(* Only the strings are others.                                            *)
LEMMA RestrungLemma ==
    ASSUME NEW h \in HeapType, NEW S \in SUBSET Strings, NEW g, g = Restrung(h, S)
    PROVE  /\ g \in HeapType /\ g.fault = h.fault /\ g.strings = S /\ g.node = h.node
           /\ g.header = h.header /\ g.free = h.free /\ g.count = h.count /\ g.chunks = h.chunks
           /\ g.hfree = h.hfree /\ g.hchunks = h.hchunks /\ g.literals = h.literals
  BY DEF HeapType, Restrung

(* Strings come and go without regard to the lists.                        *)
LEMMA StringsReached ==
    ASSUME NEW h, NEW C, NEW m, NEW s, Reached(h, C, m, s), h.fault = "none",
           NEW S \in SUBSET Strings, NEW g, g = Restrung(h, S)
    PROVE  Reached(g, C, m, s) /\ g.fault = "none" /\ g.strings = S
<1>1. PICK P, Q : /\ Stores(h, DOMAIN C \cup {m}, Plus(C, m, s), P)
                  /\ HeaderShape(h, DOMAIN C \cup {m}, Q)
                  /\ m \in Headers /\ m \notin DOMAIN C
                  /\ h.header[m].length = Len(s) /\ (s = << >> => h.header[m].tail = NULL)
                  /\ h \in HeapType
  BY ReachedStores
<1>2. /\ g \in HeapType /\ g.fault = "none" /\ g.strings = S /\ g.node = h.node
      /\ g.header = h.header /\ g.free = h.free /\ g.count = h.count /\ g.chunks = h.chunks
      /\ g.hfree = h.hfree /\ g.hchunks = h.hchunks /\ g.literals = h.literals
  BY <1>1, RestrungLemma
<1>3. Stores(g, DOMAIN C \cup {m}, Plus(C, m, s), P)
  <2>1. DOMAIN C \cup {m} \subseteq DOMAIN Plus(C, m, s)
    BY DEF Plus
  <2>2. \A l \in DOMAIN C \cup {m} : Heads(g, l, P[l])
    BY <1>1, <1>2 DEF Stores, Shape, Heads
  <2> QED
    BY <1>1, <1>2, <2>1, <2>2, SameNodes
<1>4. HeaderShape(g, DOMAIN C \cup {m}, Q)
  BY <1>1, <1>2, HeaderFrame
<1> QED
  BY <1>1, <1>2, <1>3, <1>4, StoresReached

(* BCPL_LIST_CREATE_EMPTY yields a list under way, without an atom so far. *)
LEMMA CreateReached ==
    ASSUME NEW h, NEW C, Holds(h, C), h.fault = "none"
    PROVE  /\ Reached(BCPL_LIST_CREATE_EMPTY(h), C, NewHeader(h), << >>)
           /\ Gave(BCPL_LIST_CREATE_EMPTY(h), h)
<1> DEFINE g == BCPL_LIST_CREATE_EMPTY(h)
           m == NewHeader(h)
<1>1. PICK Q : HeaderShape(h, DOMAIN C, Q)
  BY DEF Holds
<1>2. h \in HeapType
  BY DEF Holds, Stores
<1>3. \/ g = [h EXCEPT !.fault = "exit"]
      \/ /\ OnHeaders(g, h) /\ \A l \in DOMAIN C : g.header[l] = h.header[l]
         /\ m \in Headers /\ m \notin DOMAIN C /\ g.header[m] = Header(0, NULL, NULL)
         /\ \E R : HeaderShape(g, DOMAIN C \cup {m}, R)
  BY <1>1, <1>2, CreateLemma
<1> HIDE DEF g, m
<1>4. CASE g = [h EXCEPT !.fault = "exit"]
  <2>1. g.fault # "none" /\ Keeps(g, C) /\ Gave(g, h)
    BY <1>4, GaveUpLemma
  <2> QED
    BY <2>1 DEF Reached, g
<1>5. CASE /\ OnHeaders(g, h) /\ \A l \in DOMAIN C : g.header[l] = h.header[l]
           /\ m \in Headers /\ m \notin DOMAIN C /\ g.header[m] = Header(0, NULL, NULL)
           /\ \E R : HeaderShape(g, DOMAIN C \cup {m}, R)
  <2>1. Reached(g, C, m, << >>)
    BY <1>5, NewListLemma
  <2> QED
    BY <1>5, <2>1 DEF Gave, OnHeaders, g, m
<1> QED
  BY <1>3, <1>4, <1>5

-----------------------------------------------------------------------------
(* The loops. *)

(* One turn of a loop of the runtime, on node x or on atom x.              *)
Turn(loop, m, keep, h, x) ==
    CASE loop = "copy"    -> AppendNode(h, m, heap.node[x].type, heap.node[x].value)
      [] loop = "literal" -> AppendNode(h, m, x[1], x[2])
      [] loop = "reverse" -> PrependNode(h, m, heap.node[x].type, heap.node[x].value)
      [] loop = "filter"  -> FilterNode(h, m, keep, x)
      [] loop = "deep"    -> DeepCopyNode(h, m, x)
      [] loop = "free"    -> FreeNode(h, x)

(* The heaps after each turn of a loop over s that starts with h.          *)
Turns(f, loop, m, keep, h, s) ==
    /\ f[0] = h
    /\ \A k \in 1 .. Len(s) : f[k] = Turn(loop, m, keep, f[k - 1], s[k])

(* The function that n turns compute.                                      *)
IsLoop(f, loop, m, keep, h, s, n) ==
    f = [k \in 0 .. n |-> IF k = 0 THEN h ELSE Turn(loop, m, keep, f[k - 1], s[k])]

(* The function that a loop computes exists.                               *)
LEMMA LoopLemma ==
    ASSUME NEW loop, NEW m, NEW keep, NEW h, NEW s, NEW n \in Nat
    PROVE  \E f : IsLoop(f, loop, m, keep, h, s, n)
<1> DEFINE Upto(j) == \E f : f = [k \in 0 .. j |->
                                    IF k = 0 THEN h ELSE Turn(loop, m, keep, f[k - 1], s[k])]
           S == {j \in 0 .. n : Upto(j)}
<1>1. 0 \in S
  <2>1. [k \in 0 .. 0 |-> h]
        = [k \in 0 .. 0 |-> IF k = 0 THEN h
                            ELSE Turn(loop, m, keep, [j \in 0 .. 0 |-> h][k - 1], s[k])]
    OBVIOUS
  <2>2. Upto(0)
    BY ONLY <2>1
  <2> HIDE DEF Upto
  <2> QED
    BY <2>2
<1>2. ASSUME NEW j \in 0 .. n - 1, j \in S PROVE j + 1 \in S
  <2>1. PICK f : f = [k \in 0 .. j |->
                        IF k = 0 THEN h ELSE Turn(loop, m, keep, f[k - 1], s[k])]
    BY <1>2
  <2> DEFINE g == [k \in 0 .. j + 1 |-> IF k = j + 1 THEN Turn(loop, m, keep, f[j], s[j + 1])
                                        ELSE f[k]]
  <2>2. ASSUME NEW k \in 0 .. j + 1
        PROVE  g[k] = IF k = 0 THEN h ELSE Turn(loop, m, keep, g[k - 1], s[k])
    <3>1. CASE k = 0
      BY <2>1, <3>1
    <3>2. CASE k # 0 /\ k # j + 1
      <4>1. k \in 0 .. j /\ k - 1 \in 0 .. j + 1 /\ k - 1 # j + 1
        BY <3>2
      <4>2. g[k] = f[k] /\ g[k - 1] = f[k - 1]
        BY <3>2, <4>1
      <4>3. f[k] = Turn(loop, m, keep, f[k - 1], s[k])
        BY <2>1, <3>2, <4>1
      <4> QED
        BY <3>2, <4>2, <4>3
    <3>3. CASE k = j + 1
      <4>1. k - 1 = j /\ j \in 0 .. j + 1 /\ j # j + 1 /\ k # 0
        BY <3>3
      <4>2. g[j] = f[j]
        BY <4>1
      <4>3. g[k] = Turn(loop, m, keep, f[j], s[j + 1])
        BY <3>3
      <4> QED
        BY <3>3, <4>1, <4>2, <4>3
    <3> QED
      BY <3>1, <3>2, <3>3
  <2>3. g = [k \in 0 .. j + 1 |-> g[k]]
    OBVIOUS
  <2> HIDE DEF g
  <2>4. g = [k \in 0 .. j + 1 |-> IF k = 0 THEN h ELSE Turn(loop, m, keep, g[k - 1], s[k])]
    BY <2>2, <2>3
  <2>5. Upto(j + 1)
    BY ONLY <2>4
  <2> HIDE DEF Upto
  <2> QED
    BY <2>5
<1> HIDE DEF S
<1>3. n \in S
  BY <1>1, <1>2, CountUp
<1>4. Upto(n)
  BY <1>3 DEF S
<1> QED
  BY ONLY <1>4 DEF IsLoop

(* CopyNodes is the loop that copies.                                      *)
LEMMA CopyTurns ==
    ASSUME NEW h, NEW m, NEW s, Len(s) \in Nat
    PROVE  \E f : Turns(f, "copy", m, {}, h, s) /\ CopyNodes(h, m, s) = f[Len(s)]
<1> DEFINE after[k \in 0 .. Len(s)] ==
             IF k = 0 THEN h
             ELSE AppendNode(after[k - 1], m, heap.node[s[k]].type, heap.node[s[k]].value)
<1>1. \A g, x : Turn("copy", m, {}, g, x)
                = AppendNode(g, m, heap.node[x].type, heap.node[x].value)
  BY DEF Turn
<1>2. \E f : f = [k \in 0 .. Len(s) |->
                    IF k = 0 THEN h
                    ELSE AppendNode(f[k - 1], m, heap.node[s[k]].type, heap.node[s[k]].value)]
  <2>1. PICK f : IsLoop(f, "copy", m, {}, h, s, Len(s))
    BY LoopLemma, Zenon
  <2>2. f = [k \in 0 .. Len(s) |->
                    IF k = 0 THEN h
                    ELSE AppendNode(f[k - 1], m, heap.node[s[k]].type, heap.node[s[k]].value)]
    BY ONLY <1>1, <2>1 DEF IsLoop
  <2> QED
    BY ONLY <2>2
<1>3. after = [k \in 0 .. Len(s) |->
                 IF k = 0 THEN h
                 ELSE AppendNode(after[k - 1], m, heap.node[s[k]].type, heap.node[s[k]].value)]
  BY ONLY <1>2, Zenon
<1>4. CopyNodes(h, m, s) = after[Len(s)]
  BY DEF CopyNodes, ForEach
<1> HIDE DEF after
<1>5. Turns(after, "copy", m, {}, h, s)
  BY <1>1, <1>3 DEF Turns
<1> QED
  BY <1>4, <1>5

(* CopyLiteral is the loop "literal".                                      *)
LEMMA CopyLiteralTurns ==
    ASSUME NEW h, NEW m, NEW s, Len(s) \in Nat
    PROVE  \E f : Turns(f, "literal", m, {}, h, s) /\ CopyLiteral(h, m, s) = f[Len(s)]
<1> DEFINE after[k \in 0 .. Len(s)] ==
             IF k = 0 THEN h ELSE AppendNode(after[k - 1], m, s[k][1], s[k][2])
<1>1. \A g, x : Turn("literal", m, {}, g, x) = AppendNode(g, m, x[1], x[2])
  BY DEF Turn
<1>2. \E f : f = [k \in 0 .. Len(s) |-> IF k = 0 THEN h ELSE AppendNode(f[k - 1], m, s[k][1], s[k][2])]
  <2>1. PICK f : IsLoop(f, "literal", m, {}, h, s, Len(s))
    BY LoopLemma, Zenon
  <2>2. f = [k \in 0 .. Len(s) |-> IF k = 0 THEN h ELSE AppendNode(f[k - 1], m, s[k][1], s[k][2])]
    BY ONLY <1>1, <2>1 DEF IsLoop
  <2> QED
    BY ONLY <2>2
<1>3. after = [k \in 0 .. Len(s) |-> IF k = 0 THEN h ELSE AppendNode(after[k - 1], m, s[k][1], s[k][2])]
  BY ONLY <1>2, Zenon
<1>4. CopyLiteral(h, m, s) = after[Len(s)]
  BY DEF CopyLiteral, ForEach
<1> HIDE DEF after
<1>5. Turns(after, "literal", m, {}, h, s)
  BY <1>1, <1>3 DEF Turns
<1> QED
  BY <1>4, <1>5

(* The loop of BCPL_REVERSE_LIST.                                          *)
ReverseNodes(h, m, s) == ForEach(LAMBDA g, x : 
    PrependNode(g, m, heap.node[x].type, heap.node[x].value), h, s)

(* ReverseNodes is the loop "reverse".                                     *)
LEMMA ReverseNodesTurns ==
    ASSUME NEW h, NEW m, NEW s, Len(s) \in Nat
    PROVE  \E f : Turns(f, "reverse", m, {}, h, s) /\ ReverseNodes(h, m, s) = f[Len(s)]
<1> DEFINE after[k \in 0 .. Len(s)] ==
             IF k = 0 THEN h ELSE 
    PrependNode(after[k - 1], m, heap.node[s[k]].type, heap.node[s[k]].value)
<1>1. \A g, x : Turn("reverse", m, {}, g, x) = 
    PrependNode(g, m, heap.node[x].type, heap.node[x].value)
  BY DEF Turn
<1>2. \E f : f = [k \in 0 .. Len(s) |-> IF k = 0 THEN h ELSE 
    PrependNode(f[k - 1], m, heap.node[s[k]].type, heap.node[s[k]].value)]
  <2>1. PICK f : IsLoop(f, "reverse", m, {}, h, s, Len(s))
    BY LoopLemma, Zenon
  <2>2. f = [k \in 0 .. Len(s) |-> IF k = 0 THEN h ELSE 
    PrependNode(f[k - 1], m, heap.node[s[k]].type, heap.node[s[k]].value)]
    BY ONLY <1>1, <2>1 DEF IsLoop
  <2> QED
    BY ONLY <2>2
<1>3. after = [k \in 0 .. Len(s) |-> IF k = 0 THEN h ELSE 
    PrependNode(after[k - 1], m, heap.node[s[k]].type, heap.node[s[k]].value)]
  BY ONLY <1>2, Zenon
<1>4. ReverseNodes(h, m, s) = after[Len(s)]
  BY DEF ReverseNodes, ForEach
<1> HIDE DEF after
<1>5. Turns(after, "reverse", m, {}, h, s)
  BY <1>1, <1>3 DEF Turns
<1> QED
  BY <1>4, <1>5

(* The loop of BCPL_LIST_FILTER.                                           *)
FilterNodes(h, m, keep, s) == ForEach(LAMBDA g, x : FilterNode(g, m, keep, x), h, s)

(* FilterNodes is the loop "filter".                                       *)
LEMMA FilterNodesTurns ==
    ASSUME NEW h, NEW m, NEW keep, NEW s, Len(s) \in Nat
    PROVE  \E f : Turns(f, "filter", m, keep, h, s) /\ FilterNodes(h, m, keep, s) = f[Len(s)]
<1> DEFINE after[k \in 0 .. Len(s)] ==
             IF k = 0 THEN h ELSE FilterNode(after[k - 1], m, keep, s[k])
<1>1. \A g, x : Turn("filter", m, keep, g, x) = FilterNode(g, m, keep, x)
  BY DEF Turn
<1>2. \E f : f = [k \in 0 .. Len(s) |-> IF k = 0 THEN h ELSE FilterNode(f[k - 1], m, keep, s[k])]
  <2>1. PICK f : IsLoop(f, "filter", m, keep, h, s, Len(s))
    BY LoopLemma, Zenon
  <2>2. f = [k \in 0 .. Len(s) |-> IF k = 0 THEN h ELSE FilterNode(f[k - 1], m, keep, s[k])]
    BY ONLY <1>1, <2>1 DEF IsLoop
  <2> QED
    BY ONLY <2>2
<1>3. after = [k \in 0 .. Len(s) |-> IF k = 0 THEN h ELSE FilterNode(after[k - 1], m, keep, s[k])]
  BY ONLY <1>2, Zenon
<1>4. FilterNodes(h, m, keep, s) = after[Len(s)]
  BY DEF FilterNodes, ForEach
<1> HIDE DEF after
<1>5. Turns(after, "filter", m, keep, h, s)
  BY <1>1, <1>3 DEF Turns
<1> QED
  BY <1>4, <1>5

(* The loop of BCPL_DEEP_COPY_LIST.                                        *)
DeepCopyNodes(h, m, s) == ForEach(LAMBDA g, x : DeepCopyNode(g, m, x), h, s)

(* DeepCopyNodes is the loop "deep".                                       *)
LEMMA DeepCopyNodesTurns ==
    ASSUME NEW h, NEW m, NEW s, Len(s) \in Nat
    PROVE  \E f : Turns(f, "deep", m, {}, h, s) /\ DeepCopyNodes(h, m, s) = f[Len(s)]
<1> DEFINE after[k \in 0 .. Len(s)] ==
             IF k = 0 THEN h ELSE DeepCopyNode(after[k - 1], m, s[k])
<1>1. \A g, x : Turn("deep", m, {}, g, x) = DeepCopyNode(g, m, x)
  BY DEF Turn
<1>2. \E f : f = [k \in 0 .. Len(s) |-> IF k = 0 THEN h ELSE DeepCopyNode(f[k - 1], m, s[k])]
  <2>1. PICK f : IsLoop(f, "deep", m, {}, h, s, Len(s))
    BY LoopLemma, Zenon
  <2>2. f = [k \in 0 .. Len(s) |-> IF k = 0 THEN h ELSE DeepCopyNode(f[k - 1], m, s[k])]
    BY ONLY <1>1, <2>1 DEF IsLoop
  <2> QED
    BY ONLY <2>2
<1>3. after = [k \in 0 .. Len(s) |-> IF k = 0 THEN h ELSE DeepCopyNode(after[k - 1], m, s[k])]
  BY ONLY <1>2, Zenon
<1>4. DeepCopyNodes(h, m, s) = after[Len(s)]
  BY DEF DeepCopyNodes, ForEach
<1> HIDE DEF after
<1>5. Turns(after, "deep", m, {}, h, s)
  BY <1>1, <1>3 DEF Turns
<1> QED
  BY <1>4, <1>5

(* The loop of bcpl_free_list.                                             *)
FreeNodesOf(h, s) == ForEach(FreeNode, h, s)

(* FreeNodesOf is the loop "free".                                         *)
LEMMA FreeNodesOfTurns ==
    ASSUME NEW h, NEW s, Len(s) \in Nat
    PROVE  \E f : Turns(f, "free", NULL, {}, h, s) /\ FreeNodesOf(h, s) = f[Len(s)]
<1> DEFINE after[k \in 0 .. Len(s)] ==
             IF k = 0 THEN h ELSE FreeNode(after[k - 1], s[k])
<1>1. \A g, x : Turn("free", NULL, {}, g, x) = FreeNode(g, x)
  BY DEF Turn
<1>2. \E f : f = [k \in 0 .. Len(s) |-> IF k = 0 THEN h ELSE FreeNode(f[k - 1], s[k])]
  <2>1. PICK f : IsLoop(f, "free", NULL, {}, h, s, Len(s))
    BY LoopLemma, Zenon
  <2>2. f = [k \in 0 .. Len(s) |-> IF k = 0 THEN h ELSE FreeNode(f[k - 1], s[k])]
    BY ONLY <1>1, <2>1 DEF IsLoop
  <2> QED
    BY ONLY <2>2
<1>3. after = [k \in 0 .. Len(s) |-> IF k = 0 THEN h ELSE FreeNode(after[k - 1], s[k])]
  BY ONLY <1>2, Zenon
<1>4. FreeNodesOf(h, s) = after[Len(s)]
  BY DEF FreeNodesOf, ForEach
<1> HIDE DEF after
<1>5. Turns(after, "free", NULL, {}, h, s)
  BY <1>1, <1>3 DEF Turns
<1> QED
  BY <1>4, <1>5

(* The actions run these loops.                                            *)
LEMMA ActionLoops ==
    /\ \A l : BCPL_REVERSE_LIST(l) =>
         Return(ReverseNodes(BCPL_LIST_CREATE_EMPTY(heap), NewHeader(heap), NodesOf(l)),
                NewHeader(heap))
    /\ \A l, keep : BCPL_LIST_FILTER(l, keep) =>
         Return(FilterNodes(BCPL_LIST_CREATE_EMPTY(heap), NewHeader(heap), keep, NodesOf(l)),
                NewHeader(heap))
    /\ \A l : BCPL_DEEP_COPY_LIST(l) =>
         Return(DeepCopyNodes(BCPL_LIST_CREATE_EMPTY(heap), NewHeader(heap), NodesOf(l)),
                NewHeader(heap))
<1>1. ASSUME NEW l, BCPL_REVERSE_LIST(l)
      PROVE  Return(ReverseNodes(BCPL_LIST_CREATE_EMPTY(heap), NewHeader(heap), NodesOf(l)),
                    NewHeader(heap))
  BY <1>1, Zenon DEF BCPL_REVERSE_LIST, ReverseNodes, ForEach
<1>2. ASSUME NEW l, NEW keep, BCPL_LIST_FILTER(l, keep)
      PROVE  Return(FilterNodes(BCPL_LIST_CREATE_EMPTY(heap), NewHeader(heap), keep, NodesOf(l)),
                    NewHeader(heap))
  BY <1>2, Zenon DEF BCPL_LIST_FILTER, FilterNodes, ForEach
<1>3. ASSUME NEW l, BCPL_DEEP_COPY_LIST(l)
      PROVE  Return(DeepCopyNodes(BCPL_LIST_CREATE_EMPTY(heap), NewHeader(heap), NodesOf(l)),
                    NewHeader(heap))
  BY <1>3, Zenon DEF BCPL_DEEP_COPY_LIST, DeepCopyNodes, ForEach
<1> QED
  BY <1>1, <1>2, <1>3

(* The first k members of c.                                               *)
Prefix(c, k) == [i \in 1 .. k |-> c[i]]

(* How a prefix grows.                                                     *)
LEMMA PrefixLemma ==
    ASSUME NEW T, NEW c \in Seq(T)
    PROVE  /\ Prefix(c, 0) = << >> /\ Prefix(c, Len(c)) = c
           /\ \A k \in 0 .. Len(c) : Prefix(c, k) \in Seq(T) /\ Len(Prefix(c, k)) = k
           /\ \A k \in 0 .. Len(c) - 1 : Prefix(c, k + 1) = Append(Prefix(c, k), c[k + 1])
<1>1. Prefix(c, 0) = << >> /\ Prefix(c, Len(c)) = c
  BY DEF Prefix
<1>2. ASSUME NEW k \in 0 .. Len(c) PROVE Prefix(c, k) \in Seq(T) /\ Len(Prefix(c, k)) = k
  BY DEF Prefix
<1>3. ASSUME NEW k \in 0 .. Len(c) - 1 PROVE Prefix(c, k + 1) = Append(Prefix(c, k), c[k + 1])
  <2>1. k \in 0 .. Len(c) /\ k + 1 \in 0 .. Len(c) /\ c[k + 1] \in T /\ k + 1 \in 1 .. Len(c)
    OBVIOUS
  <2>2. /\ Prefix(c, k) \in Seq(T) /\ Len(Prefix(c, k)) = k
        /\ Prefix(c, k + 1) \in Seq(T) /\ Len(Prefix(c, k + 1)) = k + 1
    BY <1>2, <2>1
  <2>3. \A i \in 1 .. k + 1 : Prefix(c, k + 1)[i] = Append(Prefix(c, k), c[k + 1])[i]
    BY <2>1, <2>2 DEF Prefix
  <2>4. Append(Prefix(c, k), c[k + 1]) \in Seq(T) /\ Len(Append(Prefix(c, k), c[k + 1])) = k + 1
    BY <2>1, <2>2
  <2> QED
    BY <2>2, <2>3, <2>4, SeqEqual
<1> QED
  BY <1>1, <1>2, <1>3

(* The atom of a node.                                                     *)
LEMMA AtomLemma ==
    ASSUME heap \in HeapType, NEW s \in Seq(Nodes), NEW k \in 1 .. Len(s)
    PROVE  /\ heap.node[s[k]].type \in AtomTypes /\ heap.node[s[k]].value \in Values
           /\ Contents(heap, s)[k] = <<heap.node[s[k]].type, heap.node[s[k]].value>>
<1>1. s[k] \in Nodes /\ heap.node \in [Nodes -> NodeType]
  BY HeapFields
<1> QED
  BY <1>1, ContentsLemma DEF NodeType

(* The copy holds the atoms of the nodes it was made from.                 *)
LEMMA CopyReached ==
    ASSUME heap \in HeapType, NEW h, NEW C, NEW m, Reached(h, C, m, << >>),
           NEW s \in Seq(Nodes), h.fault = "none" => Len(s) <= MaxLength
    PROVE  /\ Reached(CopyNodes(h, m, s), C, m, Contents(heap, s))
           /\ Gave(CopyNodes(h, m, s), h)
<1>1. Len(s) \in Nat
  OBVIOUS
<1>2. PICK f : Turns(f, "copy", m, {}, h, s) /\ CopyNodes(h, m, s) = f[Len(s)]
  BY <1>1, CopyTurns
<1> DEFINE c == Contents(heap, s)
           S == {k \in 0 .. Len(s) : Reached(f[k], C, m, Prefix(c, k)) /\ Gave(f[k], h)}
<1>3. PICK T : c \in Seq(T) /\ Len(c) = Len(s)
  BY ContentsLemma
<1> HIDE DEF c
<1>4. 0 \in S
  <2>1. f[0] = h /\ Prefix(c, 0) = << >>
    BY <1>2, <1>3, PrefixLemma DEF Turns
  <2> QED
    BY <1>1, <2>1 DEF Gave
<1>5. ASSUME NEW k \in 0 .. Len(s) - 1, k \in S PROVE k + 1 \in S
  <2> DEFINE type == heap.node[s[k + 1]].type
             value == heap.node[s[k + 1]].value
             p == Prefix(c, k)
             g == f[k]
  <2>1. /\ k \in 0 .. Len(s) /\ k + 1 \in 0 .. Len(s) /\ k + 1 \in 1 .. Len(s) /\ (k + 1) - 1 = k
        /\ k < Len(s)
    BY <1>1
  <2>2. f[k + 1] = Turn("copy", m, {}, g, s[k + 1])
    BY <1>2, <2>1 DEF Turns
  <2>3. f[k + 1] = AppendNode(g, m, type, value)
    BY <2>2 DEF Turn
  <2>4. type \in AtomTypes /\ value \in Values /\ c[k + 1] = <<type, value>>
    BY <2>1, AtomLemma DEF c
  <2>5. Prefix(c, k + 1) = Append(p, <<type, value>>) /\ Len(p) = k
    BY <1>3, <2>1, <2>4, PrefixLemma
  <2>6. Reached(g, C, m, p) /\ Gave(g, h)
    BY <1>5
  <2>7. g.fault = "none" => Len(p) < MaxLength
    BY <1>1, <2>1, <2>5, <2>6, AddressLemma DEF Gave
  <2> HIDE DEF type, value, p, g
  <2>8. /\ Reached(AppendNode(g, m, type, value), C, m, Append(p, <<type, value>>))
        /\ Gave(AppendNode(g, m, type, value), g)
    BY <2>4, <2>6, <2>7, AppendReached
  <2>9. Gave(AppendNode(g, m, type, value), h)
    BY <2>6, <2>8 DEF Gave
  <2> QED
    BY <2>1, <2>3, <2>5, <2>8, <2>9
<1> HIDE DEF S
<1>6. \A k \in 0 .. Len(s) : k \in S
  BY <1>1, <1>4, <1>5, CountUp
<1>7. Prefix(c, Len(s)) = c
  BY <1>3, PrefixLemma
<1> QED
  BY <1>1, <1>2, <1>6, <1>7 DEF S, c

(* The first k members of c, the last of them first.                       *)
Reversed(c, k) == [i \in 1 .. k |-> c[(k - i) + 1]]

(* How a reversed prefix grows.                                            *)
LEMMA ReversedLemma ==
    ASSUME NEW T, NEW c \in Seq(T)
    PROVE  /\ Reversed(c, 0) = << >> /\ Reversed(c, Len(c)) = Reverse(c)
           /\ \A k \in 0 .. Len(c) : Reversed(c, k) \in Seq(T) /\ Len(Reversed(c, k)) = k
           /\ \A k \in 0 .. Len(c) - 1 : Reversed(c, k + 1) = <<c[k + 1]>> \o Reversed(c, k)
<1>1. Reversed(c, 0) = << >> /\ Reversed(c, Len(c)) = Reverse(c)
  BY DEF Reversed, Reverse
<1>2. ASSUME NEW k \in 0 .. Len(c) PROVE Reversed(c, k) \in Seq(T) /\ Len(Reversed(c, k)) = k
  BY DEF Reversed
<1>3. ASSUME NEW k \in 0 .. Len(c) - 1 PROVE Reversed(c, k + 1) = <<c[k + 1]>> \o Reversed(c, k)
  <2> DEFINE r == Reversed(c, k)
             t == Reversed(c, k + 1)
             x == c[k + 1]
  <2>1. k \in 0 .. Len(c) /\ k + 1 \in 0 .. Len(c) /\ x \in T /\ k \in Nat
    OBVIOUS
  <2>2. r \in Seq(T) /\ Len(r) = k /\ t \in Seq(T) /\ Len(t) = k + 1
    BY <1>2, <2>1
  <2>3. /\ \A i \in 1 .. k + 1 : t[i] = c[((k + 1) - i) + 1]
        /\ \A i \in 1 .. k : r[i] = c[(k - i) + 1]
    BY DEF Reversed
  <2> HIDE DEF r, t, x
  <2>4. <<x>> \in Seq(T) /\ Len(<<x>>) = 1
    BY <2>1
  <2>5. <<x>> \o r \in Seq(T) /\ Len(<<x>> \o r) = k + 1
    BY <2>2, <2>4
  <2>6. ASSUME NEW i \in 1 .. k + 1 PROVE t[i] = (<<x>> \o r)[i]
    <3>1. CASE i = 1
      <4>1. t[1] = c[k + 1]
        BY <2>1, <2>3, <3>1
      <4> QED
        BY <2>2, <2>4, <3>1, <4>1 DEF x
    <3>2. CASE i # 1
      <4>1. i - 1 \in 1 .. k /\ (k - (i - 1)) + 1 = ((k + 1) - i) + 1
        BY <2>1, <3>2
      <4>2. (<<x>> \o r)[i] = r[i - 1]
        BY <2>2, <2>4, <3>2, <4>1
      <4> QED
        BY <2>3, <4>1, <4>2
    <3> QED
      BY <3>1, <3>2
  <2>7. t = <<x>> \o r
    BY <2>2, <2>5, <2>6, SeqEqual
  <2> QED
    BY <2>7 DEF t, x, r
<1> QED
  BY <1>1, <1>2, <1>3

(* The reversed copy holds the atoms in reverse.                           *)
LEMMA ReverseReached ==
    ASSUME heap \in HeapType, NEW h, NEW C, NEW m, Reached(h, C, m, << >>),
           NEW s \in Seq(Nodes), h.fault = "none" => Len(s) <= MaxLength
    PROVE  /\ Reached(ReverseNodes(h, m, s), C, m, Reverse(Contents(heap, s)))
           /\ Gave(ReverseNodes(h, m, s), h)
<1>1. Len(s) \in Nat
  OBVIOUS
<1>2. PICK f : Turns(f, "reverse", m, {}, h, s) /\ ReverseNodes(h, m, s) = f[Len(s)]
  BY <1>1, ReverseNodesTurns
<1> DEFINE c == Contents(heap, s)
           S == {k \in 0 .. Len(s) : Reached(f[k], C, m, Reversed(c, k)) /\ Gave(f[k], h)}
<1>3. PICK T : c \in Seq(T) /\ Len(c) = Len(s)
  BY ContentsLemma
<1> HIDE DEF c
<1>4. 0 \in S
  <2>1. f[0] = h /\ Reversed(c, 0) = << >>
    BY <1>2, <1>3, ReversedLemma DEF Turns
  <2> QED
    BY <1>1, <2>1 DEF Gave
<1>5. ASSUME NEW k \in 0 .. Len(s) - 1, k \in S PROVE k + 1 \in S
  <2> DEFINE type == heap.node[s[k + 1]].type
             value == heap.node[s[k + 1]].value
             p == Reversed(c, k)
             g == f[k]
  <2>1. /\ k \in 0 .. Len(s) /\ k + 1 \in 0 .. Len(s) /\ k + 1 \in 1 .. Len(s) /\ (k + 1) - 1 = k
        /\ k < Len(s)
    BY <1>1
  <2>2. f[k + 1] = Turn("reverse", m, {}, g, s[k + 1])
    BY <1>2, <2>1 DEF Turns
  <2>3. f[k + 1] = PrependNode(g, m, type, value)
    BY <2>2 DEF Turn
  <2>4. type \in AtomTypes /\ value \in Values /\ c[k + 1] = <<type, value>>
    BY <2>1, AtomLemma DEF c
  <2>5. Reversed(c, k + 1) = <<<<type, value>>>> \o p /\ Len(p) = k
    BY <1>3, <2>1, <2>4, ReversedLemma
  <2>6. Reached(g, C, m, p) /\ Gave(g, h)
    BY <1>5
  <2>7. g.fault = "none" => Len(p) < MaxLength
    <3>1. Len(p) = k /\ MaxLength \in Nat
      BY <2>5, AddressLemma
    <3> HIDE DEF p, g
    <3>2. g.fault = "none" => h.fault = "none"
      BY <2>6 DEF Gave
    <3> QED
      BY <1>1, <2>1, <3>1, <3>2
  <2> HIDE DEF type, value, p, g
  <2>8. /\ Reached(PrependNode(g, m, type, value), C, m, <<<<type, value>>>> \o p)
        /\ Gave(PrependNode(g, m, type, value), g)
    BY ONLY <2>4, <2>6, <2>7, PrependReached, Zenon
  <2>9. Gave(PrependNode(g, m, type, value), h)
    BY <2>6, <2>8 DEF Gave
  <2> QED
    BY <2>1, <2>3, <2>5, <2>8, <2>9
<1> HIDE DEF S
<1>6. \A k \in 0 .. Len(s) : k \in S
  BY <1>1, <1>4, <1>5, CountUp
<1>7. Reversed(c, Len(s)) = Reverse(c)
  BY <1>3, ReversedLemma
<1> QED
  BY <1>1, <1>2, <1>6, <1>7 DEF S, c

(* The copy of a literal holds its atoms.                                  *)
LEMMA LiteralReached ==
    ASSUME NEW h, NEW C, NEW m, Reached(h, C, m, << >>), NEW atoms \in Literals
    PROVE  Reached(CopyLiteral(h, m, atoms), C, m, atoms) /\ Gave(CopyLiteral(h, m, atoms), h)
<1>1. CASE atoms = << >>
  <2>1. Len(atoms) = 0
    BY <1>1
  <2>2. PICK f : Turns(f, "literal", m, {}, h, atoms) /\ CopyLiteral(h, m, atoms) = f[Len(atoms)]
    BY <2>1, CopyLiteralTurns
  <2>3. CopyLiteral(h, m, atoms) = h
    BY <2>1, <2>2 DEF Turns
  <2> QED
    BY <1>1, <2>3 DEF Gave
<1>2. CASE atoms # << >>
  <2>1. PICK a \in ({"INT"} \X Ints) \cup {<<"STRING", StaticString>>} : atoms = <<a>>
    BY <1>2 DEF Literals
  <2>2. a = <<a[1], a[2]>> /\ a[1] \in AtomTypes /\ a[2] \in Values
    BY <2>1 DEF AtomTypes, Values
  <2>3. Len(atoms) = 1 /\ atoms[1] = a
    BY <2>1
  <2>4. PICK f : Turns(f, "literal", m, {}, h, atoms) /\ CopyLiteral(h, m, atoms) = f[Len(atoms)]
    BY <2>3, CopyLiteralTurns
  <2>5. f[0] = h /\ f[1] = Turn("literal", m, {}, f[0], atoms[1])
    BY <2>3, <2>4 DEF Turns
  <2>6. CopyLiteral(h, m, atoms) = AppendNode(h, m, a[1], a[2])
    BY <2>3, <2>4, <2>5 DEF Turn
  <2>7. Len(<< >>) < MaxLength
    BY ListAssumption
  <2>8. /\ Reached(AppendNode(h, m, a[1], a[2]), C, m, Append(<< >>, <<a[1], a[2]>>))
        /\ Gave(AppendNode(h, m, a[1], a[2]), h)
    BY <2>2, <2>7, AppendReached
  <2>9. Append(<< >>, <<a[1], a[2]>>) = atoms
    BY <2>1, <2>2
  <2> QED
    BY <2>6, <2>8, <2>9
<1> QED
  BY <1>1, <1>2

(* The atoms of p, and a behind them if its value is in keep.              *)
Grown(p, a, keep) == IF a[2] \in keep THEN Append(p, a) ELSE p

(* The function that ListSpec filters with, up to n.                       *)
IsKept(f, c, keep, n) ==
    f = [k \in 0 .. n |-> IF k = 0 THEN << >> ELSE Grown(f[k - 1], c[k], keep)]

(* That function exists.                                                   *)
LEMMA KeptExists ==
    ASSUME NEW c, NEW keep, NEW n \in Nat
    PROVE  \E f : IsKept(f, c, keep, n)
<1> DEFINE Upto(j) == \E f : f = [k \in 0 .. j |->
                                    IF k = 0 THEN << >> ELSE Grown(f[k - 1], c[k], keep)]
           S == {j \in 0 .. n : Upto(j)}
<1>1. 0 \in S
  <2>1. [k \in 0 .. 0 |-> << >>]
        = [k \in 0 .. 0 |-> IF k = 0 THEN << >>
                            ELSE Grown([j \in 0 .. 0 |-> << >>][k - 1], c[k], keep)]
    OBVIOUS
  <2>2. Upto(0)
    BY ONLY <2>1
  <2> HIDE DEF Upto
  <2> QED
    BY <2>2
<1>2. ASSUME NEW j \in 0 .. n - 1, j \in S PROVE j + 1 \in S
  <2>1. PICK f : f = [k \in 0 .. j |-> IF k = 0 THEN << >> ELSE Grown(f[k - 1], c[k], keep)]
    BY <1>2
  <2> DEFINE g == [k \in 0 .. j + 1 |-> IF k = j + 1 THEN Grown(f[j], c[j + 1], keep) ELSE f[k]]
  <2>2. ASSUME NEW k \in 0 .. j + 1
        PROVE  g[k] = IF k = 0 THEN << >> ELSE Grown(g[k - 1], c[k], keep)
    <3>1. CASE k = 0
      BY <2>1, <3>1
    <3>2. CASE k # 0 /\ k # j + 1
      <4>1. k \in 0 .. j /\ k - 1 \in 0 .. j + 1 /\ k - 1 # j + 1
        BY <3>2
      <4>2. g[k] = f[k] /\ g[k - 1] = f[k - 1]
        BY <3>2, <4>1
      <4>3. f[k] = Grown(f[k - 1], c[k], keep)
        BY <2>1, <3>2, <4>1
      <4> QED
        BY <3>2, <4>2, <4>3
    <3>3. CASE k = j + 1
      <4>1. k - 1 = j /\ j \in 0 .. j + 1 /\ j # j + 1 /\ k # 0
        BY <3>3
      <4>2. g[j] = f[j]
        BY <4>1
      <4>3. g[k] = Grown(f[j], c[j + 1], keep)
        BY <3>3
      <4> QED
        BY <3>3, <4>1, <4>2, <4>3
    <3> QED
      BY <3>1, <3>2, <3>3
  <2>3. g = [k \in 0 .. j + 1 |-> g[k]]
    OBVIOUS
  <2> HIDE DEF g
  <2>4. g = [k \in 0 .. j + 1 |-> IF k = 0 THEN << >> ELSE Grown(g[k - 1], c[k], keep)]
    BY <2>2, <2>3
  <2>5. Upto(j + 1)
    BY ONLY <2>4
  <2> HIDE DEF Upto
  <2> QED
    BY <2>5
<1> HIDE DEF S
<1>3. \A k \in 0 .. n : k \in S
  BY <1>1, <1>2, CountUp
<1>4. Upto(n)
  BY <1>3 DEF S
<1> QED
  BY ONLY <1>4 DEF IsKept

(* What ListSpec keeps is computed from the front, one atom at a time.     *)
LEMMA KeptLemma ==
    ASSUME NEW c, NEW keep, Len(c) \in Nat
    PROVE  \E f : /\ f[0] = << >>
                  /\ \A k \in 1 .. Len(c) : f[k] = Grown(f[k - 1], c[k], keep)
                  /\ Abstract!Kept(c, keep) = f[Len(c)]
<1> DEFINE first[k \in 0 .. Len(c)] ==
             IF k = 0 THEN << >>
             ELSE IF c[k][2] \in keep THEN Append(first[k - 1], c[k]) ELSE first[k - 1]
<1>1. \E f : f = [k \in 0 .. Len(c) |->
                    IF k = 0 THEN << >>
                    ELSE IF c[k][2] \in keep THEN Append(f[k - 1], c[k]) ELSE f[k - 1]]
  <2>1. PICK f : IsKept(f, c, keep, Len(c))
    BY KeptExists, Zenon
  <2>2. f = [k \in 0 .. Len(c) |->
               IF k = 0 THEN << >>
               ELSE IF c[k][2] \in keep THEN Append(f[k - 1], c[k]) ELSE f[k - 1]]
    BY ONLY <2>1 DEF IsKept, Grown
  <2> QED
    BY ONLY <2>2
<1>2. first = [k \in 0 .. Len(c) |->
                 IF k = 0 THEN << >>
                 ELSE IF c[k][2] \in keep THEN Append(first[k - 1], c[k]) ELSE first[k - 1]]
  BY ONLY <1>1, Zenon
<1>3. Abstract!Kept(c, keep) = first[Len(c)]
  BY DEF Abstract!Kept
<1> HIDE DEF first
<1>4. first = [k \in 0 .. Len(c) |-> IF k = 0 THEN << >> ELSE Grown(first[k - 1], c[k], keep)]
  BY ONLY <1>2 DEF Grown
<1>5. /\ first[0] = << >>
      /\ \A k \in 1 .. Len(c) : first[k] = Grown(first[k - 1], c[k], keep)
  BY <1>4
<1> QED
  BY <1>3, <1>5

(* The filtered copy holds the atoms that ListSpec keeps.                  *)
LEMMA FilterReached ==
    ASSUME heap \in HeapType, NEW h, NEW C, NEW m, Reached(h, C, m, << >>), NEW keep,
           NEW s \in Seq(Nodes), h.fault = "none" => Len(s) <= MaxLength
    PROVE  /\ Reached(FilterNodes(h, m, keep, s), C, m, Abstract!Kept(Contents(heap, s), keep))
           /\ Gave(FilterNodes(h, m, keep, s), h)
<1>1. Len(s) \in Nat
  OBVIOUS
<1>2. PICK f : Turns(f, "filter", m, keep, h, s) /\ FilterNodes(h, m, keep, s) = f[Len(s)]
  BY <1>1, FilterNodesTurns
<1> DEFINE c == Contents(heap, s)
<1>3. Len(c) = Len(s)
  BY ContentsLemma
<1> HIDE DEF c
<1>4. PICK p : /\ p[0] = << >>
               /\ \A k \in 1 .. Len(c) : p[k] = Grown(p[k - 1], c[k], keep)
               /\ Abstract!Kept(c, keep) = p[Len(c)]
  BY <1>1, <1>3, KeptLemma
<1> DEFINE A == AtomTypes \X Values
           S == {k \in 0 .. Len(s) : /\ Reached(f[k], C, m, p[k]) /\ Gave(f[k], h)
                                     /\ p[k] \in Seq(A) /\ Len(p[k]) <= k}
<1>5. 0 \in S
  <2>1. f[0] = h /\ Gave(f[0], h)
    BY <1>2 DEF Gave, Turns
  <2>2. << >> \in Seq(A) /\ Len(<< >>) = 0
    OBVIOUS
  <2> HIDE DEF A
  <2>3. p[0] = << >>
    BY <1>4
  <2>4. p[0] \in Seq(A) /\ Len(p[0]) <= 0
    BY <2>2, <2>3
  <2>5. Reached(f[0], C, m, p[0]) /\ Gave(f[0], h)
    BY <2>1, <2>3
  <2> QED
    BY <1>1, <2>4, <2>5
<1>6. ASSUME NEW k \in 0 .. Len(s) - 1, k \in S PROVE k + 1 \in S
  <2> DEFINE type == heap.node[s[k + 1]].type
             value == heap.node[s[k + 1]].value
             q == p[k]
             g == f[k]
  <2>1. /\ k \in 0 .. Len(s) /\ k + 1 \in 0 .. Len(s) /\ k + 1 \in 1 .. Len(s) /\ (k + 1) - 1 = k
        /\ k < Len(s)
    BY <1>1
  <2>2. f[k + 1] = Turn("filter", m, keep, g, s[k + 1])
    BY <1>2, <2>1 DEF Turns
  <2>3. f[k + 1] = IF value \in keep THEN AppendNode(g, m, type, value) ELSE g
    BY <2>2 DEF Turn, FilterNode
  <2>4. type \in AtomTypes /\ value \in Values /\ c[k + 1] = <<type, value>>
    BY <2>1, AtomLemma DEF c
  <2>5. p[k + 1] = IF value \in keep THEN Append(q, <<type, value>>) ELSE q
    BY <1>3, <1>4, <2>1, <2>4 DEF Grown
  <2>6. /\ Reached(g, C, m, q) /\ Gave(g, h) /\ q \in Seq(A) /\ Len(q) <= k /\ Len(q) \in Nat
    BY <1>6
  <2> HIDE DEF type, value, q, g
  <2>7. CASE value \in keep
    <3>1. g.fault = "none" => Len(q) < MaxLength
      BY <1>1, <2>1, <2>6, AddressLemma DEF Gave
    <3>2. /\ Reached(AppendNode(g, m, type, value), C, m, Append(q, <<type, value>>))
          /\ Gave(AppendNode(g, m, type, value), g)
      BY <2>4, <2>6, <3>1, AppendReached
    <3>3. Gave(AppendNode(g, m, type, value), h)
      BY <2>6, <3>2 DEF Gave
    <3>4. Append(q, <<type, value>>) \in Seq(A) /\ Len(Append(q, <<type, value>>)) = Len(q) + 1
      BY <2>4, <2>6
    <3>5. p[k + 1] = Append(q, <<type, value>>) /\ f[k + 1] = AppendNode(g, m, type, value)
      BY <2>3, <2>5, <2>7
    <3>6. p[k + 1] \in Seq(A) /\ Len(p[k + 1]) <= k + 1
      <4> HIDE DEF A
      <4> QED
        BY <1>1, <2>1, <2>6, <3>4, <3>5
    <3>7. Reached(f[k + 1], C, m, p[k + 1]) /\ Gave(f[k + 1], h)
      BY <3>2, <3>3, <3>5
    <3> HIDE DEF A
    <3> QED
      BY <2>1, <3>6, <3>7
  <2>8. CASE value \notin keep
    BY <1>1, <2>1, <2>3, <2>5, <2>6, <2>8 DEF q
  <2> QED
    BY <2>7, <2>8
<1> HIDE DEF S
<1>7. \A k \in 0 .. Len(s) : k \in S
  BY <1>1, <1>5, <1>6, CountUp
<1> QED
  BY <1>1, <1>2, <1>3, <1>4, <1>7 DEF S, c

(* bcpl_alloc_chars finds a string that is not allocated, or none.         *)
LEMMA AllocLemma ==
    ASSUME NEW h
    PROVE  /\ AllocChars(h) = NULL \/ AllocChars(h) \in Strings \ h.strings
           /\ AllocChars(h) \in Values
<1> DEFINE T == Strings \ h.strings
<1>1. CASE T = {}
  BY <1>1 DEF AllocChars, Values
<1>2. CASE T # {}
  <2>1. T \subseteq Nat
    BY ListAssumption
  <2>2. AllocChars(h) = CHOOSE s \in T : \A t \in T : s <= t
    BY <1>2 DEF AllocChars
  <2> HIDE DEF T
  <2>3. \E s \in T : \A t \in T : s <= t
    BY <1>2, <2>1, SmallestLemma
  <2>4. AllocChars(h) \in T
    BY <2>2, <2>3
  <2> QED
    BY <2>4 DEF T, Values
<1> QED
  BY <1>1, <1>2

(* An atom that points to a string.                                        *)
IsString(a) == a[1] = "STRING" /\ a[2] # NULL

(* The strings of t are in U and were not in S, and no two are one.        *)
Fresh(t, S, U) ==
    \A i \in 1 .. Len(t) : IsString(t[i]) =>
      t[i][2] \in U \ S /\ \A j \in 1 .. Len(t) : t[i] = t[j] => i = j

(* New strings stay apart from the old ones.                               *)
LEMMA FreshLemma ==
    ASSUME NEW T, NEW t \in Seq(T), NEW S, NEW U, NEW W, Fresh(t, S, U), S \subseteq U, U \subseteq W,
           NEW a \in T, IsString(a) => a[2] \in W \ U
    PROVE  Fresh(Append(t, a), S, W)
<1> DEFINE u == Append(t, a)
<1>1. /\ Len(u) = Len(t) + 1 /\ Len(t) \in Nat /\ u[Len(t) + 1] = a
      /\ \A i \in 1 .. Len(t) : u[i] = t[i]
  OBVIOUS
<1> HIDE DEF u
<1>2. \A i \in 1 .. Len(u) : i \in 1 .. Len(t) \/ i = Len(t) + 1
  BY <1>1
<1>3. \A i \in 1 .. Len(t) : IsString(t[i]) => /\ t[i][2] \in U \ S
                                              /\ \A j \in 1 .. Len(t) : t[i] = t[j] => i = j
  BY DEF Fresh
<1>4. ASSUME NEW i \in 1 .. Len(u), IsString(u[i]) PROVE u[i][2] \in W \ S
  <2>1. CASE i \in 1 .. Len(t)
    BY <1>1, <1>3, <1>4, <2>1
  <2>2. CASE i = Len(t) + 1
    BY <1>1, <1>4, <2>2
  <2> QED
    BY <1>2, <2>1, <2>2
<1>5. ASSUME NEW i \in 1 .. Len(u), IsString(u[i]), NEW j \in 1 .. Len(u), u[i] = u[j]
      PROVE  i = j
  <2>1. CASE i \in 1 .. Len(t) /\ j \in 1 .. Len(t)
    BY <1>1, <1>3, <1>5, <2>1
  <2>2. CASE i = Len(t) + 1 /\ j \in 1 .. Len(t)
    BY <1>1, <1>3, <1>5, <2>2
  <2>3. CASE i \in 1 .. Len(t) /\ j = Len(t) + 1
    BY <1>1, <1>3, <1>5, <2>3
  <2> QED
    BY <1>2, <2>1, <2>2, <2>3
<1> QED
  BY <1>4, <1>5 DEF Fresh, u

(* The heap after a fault that is not an exit.                             *)
Undefined(h) == h.fault \in {"null", "undefined"}

(* The deep copy so far, of k atoms of c: a duplicate of each, with        *)
(* strings of its own.  Only a string that is not there makes it undefined. *)
Deep(g, h, C, m, t, c, k) ==
    /\ t \in Seq(AtomTypes \X Values) /\ Len(t) = k /\ Reached(g, C, m, t)
    /\ g.fault = "none" =>
         /\ h.fault = "none" /\ h.strings \subseteq g.strings /\ Fresh(t, h.strings, g.strings)
         /\ \A i \in 1 .. k : t[i] \in Abstract!Duplicates(c[i])
    /\ Undefined(g) =>
         Undefined(h) \/ \E i \in 1 .. Len(c) : IsString(c[i]) /\ c[i][2] \notin h.strings

(* One node more.                                                          *)
LEMMA DeepLemma ==
    ASSUME NEW h, NEW h0, NEW C, NEW m, NEW t, NEW c, NEW k \in Nat, Deep(h, h0, C, m, t, c, k),
           Len(c) \in Nat, k < Len(c), h.fault = "none" => k < MaxLength, NEW n,
           heap.node[n].type \in AtomTypes, heap.node[n].value \in Values,
           c[k + 1] = <<heap.node[n].type, heap.node[n].value>>
    PROVE  \E u : Deep(DeepCopyNode(h, m, n), h0, C, m, u, c, k + 1)
<1> DEFINE type == heap.node[n].type
           value == heap.node[n].value
           g == WithNode(h)
           r == DeepCopyNode(h, m, n)
           A == AtomTypes \X Values
<1>1. /\ t \in Seq(A) /\ Len(t) = k /\ Reached(h, C, m, t)
      /\ h.fault = "none" =>
           /\ h0.fault = "none" /\ h0.strings \subseteq h.strings /\ Fresh(t, h0.strings, h.strings)
           /\ \A i \in 1 .. k : t[i] \in Abstract!Duplicates(c[i])
      /\ Undefined(h) =>
           \/ Undefined(h0)
           \/ \E i \in 1 .. Len(c) : IsString(c[i]) /\ c[i][2] \notin h0.strings
  BY DEF Deep
<1>2. Reached(g, C, m, t) /\ Gave(g, h)
  BY <1>1, WithNodeReached
<1>3. r = IF g.fault # "none" \/ type = "INT" \/ value = NULL THEN AppendNode(h, m, type, value)
          ELSE IF value \notin g.strings \cup {StaticString} THEN [g EXCEPT !.fault = "undefined"]
          ELSE AppendNode([g EXCEPT !.strings = @ \cup ({AllocChars(g)} \ {NULL})],
                          m, "STRING", AllocChars(g))
  BY DEF DeepCopyNode
<1>4. type \in AtomTypes /\ value \in Values /\ c[k + 1] = <<type, value>>
  OBVIOUS
<1>5. g.fault # "none" => AppendNode(h, m, type, value) = g
  BY DEF AppendNode
<1>6. k + 1 \in 1 .. Len(c) /\ \A i \in 1 .. k + 1 : i \in 1 .. k \/ i = k + 1
  OBVIOUS
<1> HIDE DEF type, value, g, r
<1>7. ASSUME NEW a \in A
      PROVE  /\ Append(t, a) \in Seq(A) /\ Len(Append(t, a)) = k + 1
             /\ Append(t, a)[k + 1] = a /\ \A i \in 1 .. k : Append(t, a)[i] = t[i]
  BY <1>1
<1>8. ASSUME NEW a \in A, a \in Abstract!Duplicates(c[k + 1]), h.fault = "none"
      PROVE  \A i \in 1 .. k + 1 : Append(t, a)[i] \in Abstract!Duplicates(c[i])
  <2> DEFINE u == Append(t, a)
  <2>1. u[k + 1] = a /\ \A i \in 1 .. k : u[i] = t[i]
    BY <1>7
  <2> HIDE DEF u
  <2>2. \A i \in 1 .. k + 1 : u[i] \in Abstract!Duplicates(c[i])
    BY <1>1, <1>6, <1>8, <2>1
  <2> QED
    BY <2>2 DEF u
<1>9. CASE g.fault # "none" \/ type = "INT" \/ value = NULL
  <2> DEFINE a == <<type, value>>
             u == Append(t, a)
  <2>1. a \in A /\ r = AppendNode(h, m, type, value)
    BY <1>3, <1>4, <1>9
  <2>2. Reached(r, C, m, u) /\ Gave(r, h)
    BY <1>1, <1>4, <2>1, AppendReached
  <2>3. ASSUME r.fault = "none" PROVE ~IsString(a) /\ a \in Abstract!Duplicates(c[k + 1])
    <3>1. type = "INT" \/ value = NULL
      BY <1>5, <1>9, <2>1, <2>3
    <3>2. type = "INT" \/ type = "STRING"
      BY <1>4 DEF AtomTypes
    <3> QED
      BY <1>4, <3>1, <3>2 DEF IsString, Abstract!Duplicates
  <2> HIDE DEF a
  <2>4. ASSUME r.fault = "none"
        PROVE  /\ h.fault = "none" /\ r.strings = h.strings
               /\ \A i \in 1 .. k + 1 : u[i] \in Abstract!Duplicates(c[i])
               /\ Fresh(u, h0.strings, r.strings)
    <3>1. h.fault = "none" /\ r.strings = h.strings
      BY <2>2, <2>4 DEF Gave
    <3>2. Fresh(u, h0.strings, h.strings)
      BY <1>1, <2>1, <2>3, <2>4, <3>1, FreshLemma
    <3> QED
      BY <1>8, <2>1, <2>3, <2>4, <3>1, <3>2
  <2>5. u \in Seq(A) /\ Len(u) = k + 1
    BY <1>7, <2>1
  <2>6. Undefined(r) => Undefined(h)
    BY <2>2 DEF Gave, Undefined
  <2> HIDE DEF u
  <2>7. Deep(r, h0, C, m, u, c, k + 1)
    BY <1>1, <2>2, <2>4, <2>5, <2>6 DEF Deep
  <2> QED
    BY <2>7 DEF r
<1>10. CASE ~(g.fault # "none" \/ type = "INT" \/ value = NULL)
  <2>1. /\ g.fault = "none" /\ type = "STRING" /\ value # NULL /\ h.fault = "none"
        /\ g.strings = h.strings
    BY <1>2, <1>4, <1>10 DEF AtomTypes, Gave
  <2>2. CASE value \notin g.strings \cup {StaticString}
    <3> DEFINE u == Append(t, <<type, value>>)
    <3>1. r = [g EXCEPT !.fault = "undefined"]
      BY <1>3, <1>10, <2>2
    <3>2. g \in HeapType
      BY <1>2, <2>1, ReachedStores
    <3>3. r \in HeapType /\ r.fault = "undefined" /\ r.node = g.node /\ r.header = g.header
      BY <3>1, <3>2, FaultLemma
    <3>4. Keeps(g, C)
      <4>1. PICK P : Stores(g, DOMAIN C \cup {m}, Plus(C, m, t), P) /\ m \notin DOMAIN C
        BY <1>2, <2>1, ReachedStores
      <4>2. \A l \in DOMAIN C : C[l] = Plus(C, m, t)[l]
        BY <4>1 DEF Plus
      <4> QED
        BY <4>1, <4>2, StoresKeeps
    <3>5. Reached(r, C, m, u)
      BY <3>3, <3>4, KeepsSame DEF Reached
    <3>6. IsString(c[k + 1]) /\ c[k + 1][2] \notin h0.strings
      BY <1>1, <1>4, <2>1, <2>2 DEF IsString
    <3>7. u \in Seq(A) /\ Len(u) = k + 1
      BY <1>4, <1>7
    <3> HIDE DEF u
    <3>8. Deep(r, h0, C, m, u, c, k + 1)
      BY <1>6, <3>3, <3>5, <3>6, <3>7 DEF Deep, Undefined
    <3> QED
      BY <3>8 DEF r
  <2>3. CASE value \in g.strings \cup {StaticString}
    <3> DEFINE v == AllocChars(g)
               U == g.strings \cup ({v} \ {NULL})
               e == Restrung(g, U)
               a == <<"STRING", v>>
               u == Append(t, a)
    <3>1. r = AppendNode(e, m, "STRING", v)
      BY <1>3, <1>10, <2>3 DEF Restrung
    <3>2. (v = NULL \/ v \in Strings \ g.strings) /\ v \in Values
      BY AllocLemma
    <3>3. a \in A /\ "STRING" \in AtomTypes
      BY <3>2 DEF AtomTypes
    <3>4. g \in HeapType
      BY <1>2, <2>1, ReachedStores
    <3>5. U \in SUBSET Strings
      BY <3>2, <3>4, HeapFields
    <3>6. a \in Abstract!Duplicates(c[k + 1])
      BY <1>4, <2>1, <3>2 DEF Abstract!Duplicates
    <3>7. IsString(a) => a[2] \in U \ g.strings
      BY <3>2 DEF IsString
    <3>8. g.strings \subseteq U
      OBVIOUS
    <3>9. e = Restrung(g, U)
      OBVIOUS
    <3> HIDE DEF v, U, e
    <3>10. Reached(e, C, m, t) /\ e.fault = "none" /\ e.strings = U
      BY <1>2, <2>1, <3>5, <3>9, StringsReached
    <3>11. Reached(r, C, m, u) /\ Gave(r, e)
      BY <1>1, <2>1, <3>1, <3>2, <3>3, <3>10, AppendReached
    <3> HIDE DEF a
    <3>12. Fresh(u, h0.strings, U)
      BY <1>1, <2>1, <3>3, <3>7, <3>8, FreshLemma
    <3>13. \A i \in 1 .. k + 1 : u[i] \in Abstract!Duplicates(c[i])
      BY <1>8, <2>1, <3>3, <3>6
    <3>14. u \in Seq(A) /\ Len(u) = k + 1
      BY <1>7, <3>3
    <3> HIDE DEF u
    <3>15. r.strings = U /\ ~Undefined(r) /\ h0.fault = "none" /\ h0.strings \subseteq U
      BY <1>1, <2>1, <3>8, <3>10, <3>11 DEF Gave, Undefined
    <3>16. Deep(r, h0, C, m, u, c, k + 1)
      BY <3>11, <3>12, <3>13, <3>14, <3>15 DEF Deep
    <3> QED
      BY <3>16 DEF r
  <2> QED
    BY <2>2, <2>3
<1> QED
  BY <1>9, <1>10

(* The deep copy of a list.                                                *)
LEMMA DeepReached ==
    ASSUME heap \in HeapType, NEW h, NEW C, NEW m, Reached(h, C, m, << >>),
           NEW s \in Seq(Nodes), h.fault = "none" => Len(s) <= MaxLength
    PROVE  \E t : Deep(DeepCopyNodes(h, m, s), h, C, m, t, Contents(heap, s), Len(s))
<1>1. Len(s) \in Nat
  OBVIOUS
<1>2. PICK f : Turns(f, "deep", m, {}, h, s) /\ DeepCopyNodes(h, m, s) = f[Len(s)]
  BY <1>1, DeepCopyNodesTurns
<1> DEFINE c == Contents(heap, s)
           S == {k \in 0 .. Len(s) : \E t : Deep(f[k], h, C, m, t, c, k)}
<1>3. Len(c) = Len(s)
  BY ContentsLemma
<1> HIDE DEF c
<1>4. 0 \in S
  <2>1. f[0] = h
    BY <1>2 DEF Turns
  <2>2. << >> \in Seq(AtomTypes \X Values) /\ Len(<< >>) = 0
    OBVIOUS
  <2>3. Fresh(<< >>, h.strings, h.strings)
    BY DEF Fresh
  <2>4. \A i \in 1 .. 0 : << >>[i] \in Abstract!Duplicates(c[i])
    OBVIOUS
  <2>5. Deep(h, h, C, m, << >>, c, 0)
    BY <2>2, <2>3, <2>4 DEF Deep
  <2> QED
    BY <1>1, <2>1, <2>5
<1>5. ASSUME NEW k \in 0 .. Len(s) - 1, k \in S PROVE k + 1 \in S
  <2> DEFINE g == f[k]
             n == s[k + 1]
  <2>1. /\ k \in 0 .. Len(s) /\ k + 1 \in 0 .. Len(s) /\ k + 1 \in 1 .. Len(s) /\ (k + 1) - 1 = k
        /\ k < Len(s) /\ k \in Nat
    BY <1>1
  <2>2. f[k + 1] = Turn("deep", m, {}, g, n)
    BY <1>2, <2>1 DEF Turns
  <2>3. f[k + 1] = DeepCopyNode(g, m, n)
    BY <2>2 DEF Turn
  <2>4. /\ heap.node[n].type \in AtomTypes /\ heap.node[n].value \in Values
        /\ c[k + 1] = <<heap.node[n].type, heap.node[n].value>>
    BY <2>1, AtomLemma DEF c
  <2>5. PICK t : Deep(g, h, C, m, t, c, k)
    BY <1>5
  <2> HIDE DEF g, n
  <2>6. g.fault = "none" => k < MaxLength
    BY <1>1, <2>1, <2>5, AddressLemma DEF Deep
  <2>7. \E u : Deep(DeepCopyNode(g, m, n), h, C, m, u, c, k + 1)
    BY <1>1, <1>3, <2>1, <2>4, <2>5, <2>6, DeepLemma
  <2> QED
    BY <2>1, <2>3, <2>7
<1> HIDE DEF S
<1>6. \A k \in 0 .. Len(s) : k \in S
  BY <1>1, <1>4, <1>5, CountUp
<1> QED
  BY <1>1, <1>2, <1>6 DEF S, c

(* What is left of c without its first k members.                          *)
Suffix(c, k) == [i \in 1 .. Len(c) - k |-> c[k + i]]

(* How a suffix shrinks.                                                   *)
LEMMA SuffixLemma ==
    ASSUME NEW T, NEW c \in Seq(T)
    PROVE  /\ Suffix(c, 0) = c /\ Suffix(c, Len(c)) = << >>
           /\ \A k \in 0 .. Len(c) - 1 : /\ Suffix(c, k) \in Seq(T) /\ Suffix(c, k) # << >>
                                         /\ Suffix(c, k)[1] = c[k + 1]
                                         /\ Tail(Suffix(c, k)) = Suffix(c, k + 1)
<1>1. Suffix(c, 0) = c /\ Suffix(c, Len(c)) = << >>
  BY DEF Suffix
<1>2. ASSUME NEW k \in 0 .. Len(c) - 1
      PROVE  /\ Suffix(c, k) \in Seq(T) /\ Suffix(c, k) # << >>
             /\ Suffix(c, k)[1] = c[k + 1]
             /\ Tail(Suffix(c, k)) = Suffix(c, k + 1)
  <2> DEFINE s == Suffix(c, k)
             t == Suffix(c, k + 1)
  <2>1. /\ s \in Seq(T) /\ Len(s) = Len(c) - k /\ \A i \in 1 .. Len(c) - k : s[i] = c[k + i]
    BY DEF Suffix
  <2>2. /\ t \in Seq(T) /\ Len(t) = Len(c) - (k + 1)
        /\ \A i \in 1 .. Len(c) - (k + 1) : t[i] = c[(k + 1) + i]
    BY DEF Suffix
  <2> HIDE DEF s, t
  <2>3. s # << >> /\ s[1] = c[k + 1] /\ Len(s) \in Nat \ {0}
    BY <2>1
  <2>4. Tail(s) \in Seq(T) /\ Len(Tail(s)) = Len(s) - 1
    BY <2>1, <2>3
  <2>5. ASSUME NEW i \in 1 .. Len(t) PROVE t[i] = Tail(s)[i]
    <3>1. /\ i + 1 \in 1 .. Len(c) - k /\ i \in 1 .. Len(c) - (k + 1) /\ k + (i + 1) = (k + 1) + i
          /\ i \in 1 .. Len(Tail(s))
      BY <2>1, <2>2, <2>4
    <3>2. Tail(s)[i] = s[i + 1]
      BY <2>1, <2>3, <3>1
    <3> QED
      BY <2>1, <2>2, <3>1, <3>2
  <2>6. Len(t) = Len(Tail(s))
    BY <2>1, <2>2, <2>4
  <2>7. t = Tail(s)
    BY <2>2, <2>4, <2>5, <2>6, SeqEqual
  <2> QED
    BY <2>1, <2>3, <2>7 DEF s, t
<1> QED
  BY <1>1, <1>2

(* A list that bcpl_free_list cannot free, by what its atoms say: a string *)
(* is not allocated, or it is there twice.                                 *)
Unfreeable(c, S) ==
    \E i \in 1 .. Len(c) : IsString(c[i]) /\ (c[i][2] \notin S \/ \E j \in 1 .. i - 1 : c[j] = c[i])

(* The heap g after k nodes of list l of the heap h were freed.            *)
Freed(g, h, C, l, s, k) ==
    /\ g.fault \in {"none", "undefined"}
    /\ g.fault = "undefined" => Unfreeable(C[l], h.strings)
    /\ g.fault = "none" =>
         /\ g.header = h.header /\ g.hfree = h.hfree /\ g.hchunks = h.hchunks
         /\ g.literals = h.literals /\ g.strings \subseteq h.strings
         /\ \A v \in h.strings \ g.strings : \E i \in 1 .. k : IsString(C[l][i]) /\ C[l][i][2] = v
         /\ \E P : /\ Stores(g, DOMAIN C \ {l}, Plus(C, l, Suffix(C[l], k)), P)
                   /\ P[l] = Suffix(s, k)

(* The next node goes back to the pool.                                    *)
LEMMA FreedReturn ==
    ASSUME NEW h, NEW C, NEW l \in DOMAIN C, C[l] \in Seq(AtomTypes \X Values),
           NEW s \in Seq(Nodes), Len(s) = Len(C[l]), NEW k \in 0 .. Len(s) - 1,
           NEW g, g.fault = "none", Freed(g, h, C, l, s, k),
           NEW S, S \subseteq g.strings,
           \A v \in g.strings \ S : IsString(C[l][k + 1]) /\ C[l][k + 1][2] = v
    PROVE  Freed(returnNodeToFreelist(Restrung(g, S), s[k + 1]), h, C, l, s, k + 1)
<1> DEFINE c == C[l]
           n == s[k + 1]
           e == Restrung(g, S)
           r == returnNodeToFreelist(e, n)
           L == DOMAIN C \ {l}
           B == Plus(C, l, Suffix(c, k))
<1>1. /\ g.header = h.header /\ g.hfree = h.hfree /\ g.hchunks = h.hchunks
      /\ g.literals = h.literals /\ g.strings \subseteq h.strings
      /\ \A v \in h.strings \ g.strings : \E i \in 1 .. k : IsString(c[i]) /\ c[i][2] = v
  BY DEF Freed
<1>2. PICK P : Stores(g, L, B, P) /\ P[l] = Suffix(s, k)
  BY DEF Freed
<1>3. P[l] # << >> /\ P[l][1] = n /\ Tail(P[l]) = Suffix(s, k + 1)
  BY <1>2, SuffixLemma
<1>4. Tail(Suffix(c, k)) = Suffix(c, k + 1)
  BY SuffixLemma
<1>5. DOMAIN B = DOMAIN C /\ B[l] = Suffix(c, k) /\ l \in DOMAIN B /\ L \subseteq DOMAIN B
  BY DEF Plus
<1>6. Plus(B, l, Tail(B[l])) = Plus(C, l, Suffix(c, k + 1))
  BY <1>4, <1>5 DEF Plus
<1>7. g \in HeapType /\ S \in SUBSET Strings /\ L \ {l} = L
  BY <1>2, HeapFields DEF Stores
<1>8. /\ e \in HeapType /\ e.fault = "none" /\ e.strings = S /\ e.node = g.node
      /\ e.header = g.header /\ e.free = g.free /\ e.count = g.count /\ e.chunks = g.chunks
      /\ e.hfree = g.hfree /\ e.hchunks = g.hchunks /\ e.literals = g.literals
  BY <1>7, RestrungLemma
<1> HIDE DEF e, B, L
<1>9. Stores(e, L, B, P)
  <2>1. \A d \in L : Heads(e, d, P[d])
    BY <1>2, <1>8 DEF Stores, Shape, Heads
  <2> QED
    BY <1>2, <1>5, <1>8, <2>1, SameNodes
<1>10. r = returnNodeToFreelist(e, P[l][1])
  BY <1>3
<1> HIDE DEF r, n
<1> DEFINE D == Plus(B, l, Tail(B[l]))
           R == Move(P, l, NULL, <<P[l][1]>> \o P[NULL])
<1>11. OnNodes(r, e) /\ r.header = e.header /\ Stores(r, L \ {l}, D, R)
  <2>1. D = Plus(B, l, Tail(B[l])) /\ R = Move(P, l, NULL, <<P[l][1]>> \o P[NULL])
    OBVIOUS
  <2> HIDE DEF D, R
  <2>2. e.fault = "none" /\ l \in DOMAIN B /\ P[l] # << >>
    BY <1>3, <1>5, <1>8
  <2>3. Stores(r, L \ {l}, D, R)
    BY ONLY <1>9, <1>10, <2>1, <2>2, ReturnLemma
  <2>4. P[l][1] \in Nodes
    <3>1. k + 1 \in 1 .. Len(s)
      OBVIOUS
    <3>2. s[k + 1] \in Nodes
      BY <3>1
    <3> QED
      BY <1>3, <3>2 DEF n
  <2>5. e \in HeapType /\ e.fault = "none"
    BY <1>8
  <2>6. OnNodes(r, e) /\ r.header = e.header
    BY ONLY <1>10, <2>4, <2>5, ReturnFrame
  <2> QED
    BY <2>3, <2>6
<1>12. R[l] = Tail(P[l])
  <2>1. l \in DOMAIN P
    BY <1>5, <1>9 DEF Stores
  <2> QED
    BY <2>1 DEF Move
<1> HIDE DEF R
<1>13. /\ r.fault = "none" /\ r.header = h.header /\ r.hfree = h.hfree /\ r.hchunks = h.hchunks
       /\ r.literals = h.literals /\ r.strings = S
  BY <1>1, <1>8, <1>11 DEF OnNodes
<1>14. ASSUME NEW v \in h.strings \ S
       PROVE  \E i \in 1 .. k + 1 : IsString(c[i]) /\ c[i][2] = v
  <2>1. CASE v \in g.strings
    <3>1. IsString(c[k + 1]) /\ c[k + 1][2] = v /\ k + 1 \in 1 .. k + 1
      BY <2>1
    <3> QED
      BY <3>1
  <2>2. CASE v \notin g.strings
    <3>1. PICK i \in 1 .. k : IsString(c[i]) /\ c[i][2] = v
      BY <1>1, <2>2
    <3> QED
      BY <3>1
  <2> QED
    BY <2>1, <2>2
<1>15. Stores(r, L, Plus(C, l, Suffix(c, k + 1)), R)
  BY <1>6, <1>7, <1>11
<1>16. Freed(r, h, C, l, s, k + 1)
  BY <1>1, <1>3, <1>12, <1>13, <1>14, <1>15 DEF Freed, L
<1> QED
  BY <1>16 DEF r, e, n

(* One turn of the loop of bcpl_free_list.                                 *)
LEMMA FreedTurn ==
    ASSUME NEW h, NEW C, NEW l \in DOMAIN C, C[l] \in Seq(AtomTypes \X Values),
           NEW s \in Seq(Nodes), Len(s) = Len(C[l]), NEW k \in 0 .. Len(s) - 1,
           NEW g, Freed(g, h, C, l, s, k)
    PROVE  Freed(FreeNode(g, s[k + 1]), h, C, l, s, k + 1)
<1> DEFINE c == C[l]
           n == s[k + 1]
           a == g.node[n]
           r == FreeNode(g, n)
<1>1. k + 1 \in 1 .. Len(s) /\ n \in Nodes /\ k + 1 \in 1 .. Len(c)
  OBVIOUS
<1>2. r = IF g.fault # "none" THEN g
          ELSE IF a.type = "INT" \/ a.value = NULL THEN returnNodeToFreelist(g, n)
          ELSE IF a.value \notin g.strings THEN [g EXCEPT !.fault = "undefined"]
          ELSE returnNodeToFreelist([g EXCEPT !.strings = @ \ {a.value}], n)
  BY DEF FreeNode
<1>3. CASE g.fault # "none"
  <2>1. r = g
    BY <1>2, <1>3
  <2>2. Freed(g, h, C, l, s, k + 1)
    BY <1>3 DEF Freed
  <2> QED
    BY <2>1, <2>2
<1>4. CASE g.fault = "none"
  <2>1. /\ g.strings \subseteq h.strings
        /\ \A v \in h.strings \ g.strings : \E i \in 1 .. k : IsString(c[i]) /\ c[i][2] = v
    BY <1>4 DEF Freed
  <2>2. PICK P : /\ Stores(g, DOMAIN C \ {l}, Plus(C, l, Suffix(c, k)), P)
                 /\ P[l] = Suffix(s, k)
    BY <1>4 DEF Freed
  <2>3. g \in HeapType
    BY <2>2 DEF Stores
  <2>4. c[k + 1] = <<a.type, a.value>>
    <3>1. Suffix(c, k) = Contents(g, P[l])
      BY <2>2 DEF Stores, Plus
    <3>2. P[l] \in Seq(Nodes) /\ P[l][1] = n /\ P[l] # << >> /\ Suffix(c, k)[1] = c[k + 1]
      BY <2>2, SuffixLemma
    <3>3. 1 \in 1 .. Len(P[l])
      BY <3>2, EndsLemma
    <3>4. Contents(g, P[l])[1] = <<g.node[P[l][1]].type, g.node[P[l][1]].value>>
      BY <3>2, <3>3, ContentsLemma
    <3> QED
      BY <3>1, <3>2, <3>4
  <2>5. a.type \in AtomTypes
    BY <1>1, <2>3, HeapFields DEF NodeType
  <2> HIDE DEF a, r
  <2>6. CASE a.type = "INT" \/ a.value = NULL
    <3>1. g = Restrung(g, g.strings)
      BY <2>3 DEF Restrung, HeapType
    <3>2. r = returnNodeToFreelist(Restrung(g, g.strings), n)
      BY <1>2, <1>4, <2>6, <3>1
    <3>3. Freed(returnNodeToFreelist(Restrung(g, g.strings), n), h, C, l, s, k + 1)
      BY <1>4, FreedReturn
    <3> QED
      BY <3>2, <3>3 DEF r
  <2>7. CASE ~(a.type = "INT" \/ a.value = NULL) /\ a.value \notin g.strings
    <3>1. r = [g EXCEPT !.fault = "undefined"]
      BY <1>2, <1>4, <2>7
    <3>2. r.fault = "undefined"
      BY <2>3, <3>1, FaultLemma
    <3>3. IsString(c[k + 1]) /\ c[k + 1][2] = a.value /\ c[k + 1][1] = "STRING"
      BY <2>4, <2>5, <2>7 DEF IsString, AtomTypes
    <3>4. c[k + 1][2] \notin h.strings \/ \E j \in 1 .. (k + 1) - 1 : c[j] = c[k + 1]
      <4>1. CASE c[k + 1][2] \in h.strings
        <5>1. PICK i \in 1 .. k : IsString(c[i]) /\ c[i][2] = c[k + 1][2]
          BY <2>1, <2>7, <3>3, <4>1
        <5>2. c[i] \in AtomTypes \X Values /\ c[i][1] = "STRING"
          BY <5>1 DEF IsString
        <5>3. c[i] = c[k + 1]
          BY <2>4, <3>3, <5>1, <5>2
        <5> QED
          BY <5>3
      <4> QED
        BY <4>1
    <3>5. Unfreeable(c, h.strings)
      BY <1>1, <3>3, <3>4 DEF Unfreeable
    <3>6. Freed(r, h, C, l, s, k + 1)
      BY <3>2, <3>5 DEF Freed
    <3> QED
      BY <3>6 DEF r
  <2>8. CASE ~(a.type = "INT" \/ a.value = NULL) /\ a.value \in g.strings
    <3> DEFINE S == g.strings \ {a.value}
    <3>1. r = returnNodeToFreelist(Restrung(g, S), n)
      BY <1>2, <1>4, <2>8 DEF Restrung
    <3>2. IsString(c[k + 1]) /\ c[k + 1][2] = a.value
      BY <2>4, <2>5, <2>8 DEF IsString, AtomTypes
    <3>3. S \subseteq g.strings /\ \A v \in g.strings \ S : IsString(c[k + 1]) /\ c[k + 1][2] = v
      BY <3>2
    <3> HIDE DEF S
    <3>4. Freed(returnNodeToFreelist(Restrung(g, S), n), h, C, l, s, k + 1)
      BY <1>4, <3>3, FreedReturn
    <3> QED
      BY <3>1, <3>4 DEF r
  <2> QED
    BY <2>6, <2>7, <2>8
<1> QED
  BY <1>3, <1>4

(* The whole loop.                                                         *)
LEMMA FreedLoop ==
    ASSUME NEW h, NEW C, NEW l \in DOMAIN C, C[l] \in Seq(AtomTypes \X Values),
           NEW s \in Seq(Nodes), Len(s) = Len(C[l]), Freed(h, h, C, l, s, 0)
    PROVE  Freed(FreeNodesOf(h, s), h, C, l, s, Len(s))
<1>1. Len(s) \in Nat
  OBVIOUS
<1>2. PICK f : Turns(f, "free", NULL, {}, h, s) /\ FreeNodesOf(h, s) = f[Len(s)]
  BY <1>1, FreeNodesOfTurns
<1> DEFINE S == {k \in 0 .. Len(s) : Freed(f[k], h, C, l, s, k)}
<1>3. 0 \in S
  BY <1>1, <1>2 DEF Turns
<1>4. ASSUME NEW k \in 0 .. Len(s) - 1, k \in S PROVE k + 1 \in S
  <2>1. k + 1 \in 0 .. Len(s) /\ k + 1 \in 1 .. Len(s) /\ (k + 1) - 1 = k
    BY <1>1
  <2>2. f[k + 1] = Turn("free", NULL, {}, f[k], s[k + 1])
    BY <1>2, <2>1 DEF Turns
  <2>3. f[k + 1] = FreeNode(f[k], s[k + 1])
    BY <2>2 DEF Turn
  <2>4. Freed(FreeNode(f[k], s[k + 1]), h, C, l, s, k + 1)
    BY <1>4, FreedTurn
  <2> QED
    BY <2>1, <2>3, <2>4
<1> HIDE DEF S
<1>5. \A k \in 0 .. Len(s) : k \in S
  BY <1>1, <1>3, <1>4, CountUp
<1> QED
  BY <1>1, <1>2, <1>5 DEF S

(* The lists C without l.                                                  *)
Without(C, l) == [d \in DOMAIN C \ {l} |-> C[d]]

(* A list without nodes can be forgotten.                                  *)
LEMMA DropLemma ==
    ASSUME NEW h, NEW L, NEW C, NEW P, Stores(h, L, C, P), NEW l, l \notin L, l # NULL,
           P[l] = << >>
    PROVE  Stores(h, L, Without(C, l), Without(P, l))
<1> DEFINE R == Without(P, l)
<1>1. /\ h \in HeapType /\ NULL \in DOMAIN P /\ L \subseteq DOMAIN P /\ L \subseteq Headers
      /\ Part(P, Malloced(h)) /\ (\A d \in DOMAIN P : Linked(h, P[d]))
      /\ h.free = First(P[NULL]) /\ h.count = Len(P[NULL]) /\ (\A k \in L : Heads(h, k, P[k]))
      /\ DOMAIN P = DOMAIN C \cup {NULL} /\ DOMAIN C \subseteq Headers
      /\ \A d \in DOMAIN C : C[d] = Contents(h, P[d])
  BY DEF Stores, Shape
<1>2. DOMAIN R = DOMAIN P \ {l} /\ \A d \in DOMAIN R : R[d] = P[d]
  BY DEF Without
<1>3. Part(R, Malloced(h))
  <2>1. \A d \in DOMAIN P : (d \in DOMAIN R /\ R[d] = P[d]) \/ P[d] = << >>
    BY <1>2
  <2>2. \A d \in DOMAIN R : (d \in DOMAIN P /\ R[d] = P[d]) \/ R[d] = << >>
    BY <1>2
  <2> HIDE DEF R
  <2> QED
    BY <1>1, <2>1, <2>2, EmptyLemma
<1>4. /\ DOMAIN Without(C, l) = DOMAIN C \ {l}
      /\ \A d \in DOMAIN C \ {l} : Without(C, l)[d] = C[d]
  BY DEF Without
<1> HIDE DEF R
<1>5. Shape(h, L, R)
  BY <1>1, <1>2, <1>3 DEF Shape
<1>6. /\ DOMAIN R = DOMAIN Without(C, l) \cup {NULL} /\ DOMAIN Without(C, l) \subseteq Headers
      /\ \A d \in DOMAIN Without(C, l) : Without(C, l)[d] = Contents(h, R[d])
  BY <1>1, <1>2, <1>4
<1>7. Stores(h, L, Without(C, l), R)
  BY <1>1, <1>5, <1>6 DEF Stores
<1> QED
  BY <1>7 DEF R

(* The atoms of a list.                                                    *)
LEMMA AtomsLemma ==
    ASSUME NEW h \in HeapType, NEW s \in Seq(Nodes)
    PROVE  Contents(h, s) \in Seq(AtomTypes \X Values) /\ Len(Contents(h, s)) = Len(s)
<1>1. h.node \in [Nodes -> NodeType]
  BY HeapFields
<1>2. \A i \in 1 .. Len(s) : /\ Contents(h, s)[i] = <<h.node[s[i]].type, h.node[s[i]].value>>
                             /\ h.node[s[i]].type \in AtomTypes /\ h.node[s[i]].value \in Values
  BY <1>1, ContentsLemma DEF NodeType
<1>3. /\ Contents(h, s) = [i \in 1 .. Len(s) |-> <<h.node[s[i]].type, h.node[s[i]].value>>]
      /\ Len(s) \in Nat
  BY DEF Contents
<1> QED
  BY <1>2, <1>3

(* bcpl_free_list: the list is gone, with its strings and its header, or   *)
(* one of its strings could not be freed.                                  *)
LEMMA FreeLemma ==
    ASSUME NEW h, NEW C, Holds(h, C), h.fault = "none", NEW l \in DOMAIN C,
           NEW s, s = Chain(h, h.header[l].head), NEW e, e = FreeNodesOf(h, s),
           NEW r, r = returnHeaderToFreelist(e, l)
    PROVE  \/ e.fault = "undefined" /\ Unfreeable(C[l], h.strings)
           \/ /\ e.fault = "none" /\ r.fault = "none" /\ Holds(r, Without(C, l))
              /\ \A v \in h.strings \ r.strings :
                   \E i \in 1 .. Len(C[l]) : IsString(C[l][i]) /\ C[l][i][2] = v
<1> DEFINE L == DOMAIN C \ {l}
<1>1. PICK P : Stores(h, DOMAIN C, C, P)
  BY DEF Holds
<1>2. PICK Q : HeaderShape(h, DOMAIN C, Q)
  BY DEF Holds
<1>3. ListAt(h, l, P[l], C[l])
  BY <1>1, StoresKeeps
<1>4. P[l] = s /\ s \in Seq(Nodes) /\ C[l] = Contents(h, s) /\ h \in HeapType /\ l \in Headers
  BY <1>1, <1>3, ChainLemma DEF ListAt, Stores
<1>5. C[l] \in Seq(AtomTypes \X Values) /\ Len(s) = Len(C[l]) /\ Len(s) \in Nat
  BY <1>4, AtomsLemma
<1>6. Freed(h, h, C, l, s, 0)
  <2>1. Suffix(C[l], 0) = C[l] /\ Suffix(s, 0) = s
    BY <1>4, <1>5, SuffixLemma
  <2>2. Stores(h, L, C, P)
    <3>1. \A d \in L : Heads(h, d, P[d])
      BY <1>1 DEF Stores, Shape
    <3>2. L \subseteq DOMAIN C
      OBVIOUS
    <3> HIDE DEF L
    <3> QED
      BY <1>1, <1>4, <3>1, <3>2, SameNodes
  <2> DEFINE B == Plus(C, l, Suffix(C[l], 0))
  <2>3. DOMAIN B = DOMAIN C /\ \A d \in DOMAIN C : B[d] = C[d]
    BY <2>1 DEF Plus
  <2> HIDE DEF B
  <2>4. Stores(h, L, B, P)
    BY <2>2, <2>3 DEF Stores
  <2> QED
    BY <1>4, <2>1, <2>4 DEF Freed, B
<1>7. Freed(e, h, C, l, s, Len(s))
  BY <1>4, <1>5, <1>6, FreedLoop
<1>8. CASE e.fault = "undefined"
  BY <1>7, <1>8 DEF Freed
<1>9. CASE e.fault = "none"
  <2>1. /\ e.header = h.header /\ e.hfree = h.hfree /\ e.hchunks = h.hchunks
        /\ e.literals = h.literals /\ e.strings \subseteq h.strings
        /\ \A v \in h.strings \ e.strings :
             \E i \in 1 .. Len(s) : IsString(C[l][i]) /\ C[l][i][2] = v
    BY <1>7, <1>9 DEF Freed
  <2>2. PICK R : Stores(e, L, Plus(C, l, Suffix(C[l], Len(s))), R) /\ R[l] = Suffix(s, Len(s))
    BY <1>7, <1>9 DEF Freed
  <2>3. R[l] = << >> /\ e \in HeapType
    BY <1>4, <2>2, SuffixLemma DEF Stores
  <2>4. Without(Plus(C, l, Suffix(C[l], Len(s))), l) = Without(C, l)
    BY DEF Without, Plus
  <2>5. l \notin L /\ l # NULL
    BY <1>4, AddressLemma
  <2>6. Stores(e, L, Without(C, l), Without(R, l))
    <3>1. Stores(e, L, Without(Plus(C, l, Suffix(C[l], Len(s))), l), Without(R, l))
      BY <2>2, <2>3, <2>5, DropLemma
    <3> QED
      BY <2>4, <3>1
  <2>7. HeaderShape(e, DOMAIN C, Q)
    BY <1>2, <2>1, HeaderFrame
  <2>8. /\ OnHeaders(r, e) /\ (\A k \in L : r.header[k] = e.header[k])
        /\ \E K : HeaderShape(r, L, K)
    <3>1. e \in HeapType /\ e.fault = "none" /\ r = returnHeaderToFreelist(e, l) /\ l \in DOMAIN C
      BY <1>9, <2>3
    <3>2. OnHeaders(r, e)
      BY ONLY <2>7, <3>1, ReturnHeaderLemma
    <3>3. \A k \in DOMAIN C \ {l} : r.header[k] = e.header[k]
      BY <1>1, <3>1 DEF returnHeaderToFreelist, HeapType, Stores
    <3>4. \E K : HeaderShape(r, DOMAIN C \ {l}, K)
      BY ONLY <2>7, <3>1, ReturnHeaderLemma
    <3> QED
      BY <3>2, <3>3, <3>4
  <2>9. DOMAIN Without(C, l) = L
    BY DEF Without
  <2> HIDE DEF L
  <2>10. Stores(r, L, Without(C, l), Without(R, l))
    <3>1. \A d \in L : Heads(r, d, Without(R, l)[d])
      BY <2>6, <2>8 DEF Stores, Shape, Heads
    <3> QED
      BY <2>6, <2>8, <2>9, <3>1, SameNodes DEF OnHeaders
  <2>11. Holds(r, Without(C, l))
    BY <2>8, <2>9, <2>10 DEF Holds
  <2> QED
    BY <1>5, <1>9, <2>1, <2>8, <2>11 DEF OnHeaders
<1> QED
  BY <1>7, <1>8, <1>9 DEF Freed

(* After a call that was to make D of the lists C.                         *)
Came(g, C, D) == (g.fault = "none" /\ Holds(g, D)) \/ (g.fault # "none" /\ Keeps(g, C))

(* The strings that are allocated have no part in the lists.               *)
LEMMA RestrungHolds ==
    ASSUME NEW h, NEW C, Holds(h, C), NEW S \in SUBSET Strings, NEW g, g = Restrung(h, S)
    PROVE  Holds(g, C) /\ g.fault = h.fault /\ g.strings = S /\ g.header = h.header
<1>1. PICK P : Stores(h, DOMAIN C, C, P)
  BY DEF Holds
<1>2. PICK Q : HeaderShape(h, DOMAIN C, Q)
  BY DEF Holds
<1>3. h \in HeapType
  BY <1>1 DEF Stores
<1>4. /\ g \in HeapType /\ g.fault = h.fault /\ g.strings = S /\ g.node = h.node
      /\ g.header = h.header /\ g.free = h.free /\ g.count = h.count /\ g.chunks = h.chunks
      /\ g.hfree = h.hfree /\ g.hchunks = h.hchunks /\ g.literals = h.literals
  BY <1>3, RestrungLemma
<1>5. Stores(g, DOMAIN C, C, P)
  <2>1. \A d \in DOMAIN C : Heads(g, d, P[d])
    BY <1>1, <1>4 DEF Stores, Shape, Heads
  <2> QED
    BY <1>1, <1>4, <2>1, SameNodes
<1>6. HeaderShape(g, DOMAIN C, Q)
  BY <1>2, <1>4, HeaderFrame
<1> QED
  BY <1>4, <1>5, <1>6 DEF Holds

(* APPEND to a list of the program.                                        *)
LEMMA AppendLemma ==
    ASSUME NEW h, NEW C, Holds(h, C), h.fault = "none", NEW l \in DOMAIN C,
           h.header[l].length < MaxLength, NEW type \in AtomTypes, NEW value \in Values,
           NEW g, g = AppendNode(h, l, type, value)
    PROVE  Came(g, C, Plus(C, l, Append(C[l], <<type, value>>))) /\ Gave(g, h)
<1> DEFINE w == WithNode(h)
<1>1. PICK P : Stores(h, DOMAIN C, C, P)
  BY DEF Holds
<1>2. PICK Q : HeaderShape(h, DOMAIN C, Q)
  BY DEF Holds
<1>3. \/ w = [h EXCEPT !.fault = "exit"]
      \/ /\ OnNodes(w, h) /\ w.header = h.header /\ w.free # NULL
         /\ \E R : Stores(w, DOMAIN C, C, R) /\ R[NULL] # << >>
  BY <1>1, WithNodeLemma
<1>4. CASE w = [h EXCEPT !.fault = "exit"]
  <2>1. w.fault # "none" /\ Keeps(w, C) /\ Gave(w, h)
    BY <1>4, GaveUpLemma
  <2>2. g = w
    BY <2>1 DEF AppendNode
  <2> QED
    BY <2>1, <2>2 DEF Came
<1>5. ASSUME OnNodes(w, h), w.header = h.header, w.free # NULL,
             NEW R, Stores(w, DOMAIN C, C, R), R[NULL] # << >>
      PROVE  Came(g, C, Plus(C, l, Append(C[l], <<type, value>>))) /\ Gave(g, h)
  <2>1. WithNode(w) = w /\ w.fault = "none"
    BY <1>5 DEF WithNode, OnNodes
  <2>2. g = AppendNode(w, l, type, value)
    BY <2>1 DEF AppendNode
  <2>3. w.header[l].length < MaxLength /\ type \in AtomTypes /\ value \in Values /\ l \in DOMAIN C
    BY <1>5
  <2> HIDE DEF w
  <2> DEFINE D == Plus(C, l, Append(C[l], <<type, value>>))
  <2>4. /\ OnNodes(g, w) /\ \A k \in Headers \ {l} : g.header[k] = w.header[k]
        /\ \E T : Stores(g, DOMAIN C, D, T)
    BY ONLY <1>5, <2>1, <2>2, <2>3, AppendTakenLemma
  <2>5. DOMAIN D = DOMAIN C
    BY DEF Plus
  <2> HIDE DEF D
  <2>6. HeaderShape(g, DOMAIN C, Q)
    <3>1. \A k \in Headers \ DOMAIN C : g.header[k] = h.header[k]
      BY <1>5, <2>4
    <3> QED
      BY <1>2, <1>5, <2>4, <3>1, HeaderFrame DEF OnNodes
  <2>7. Holds(g, D)
    BY <2>4, <2>5, <2>6 DEF Holds
  <2>8. g.fault = "none" /\ g.strings = h.strings
    BY <1>5, <2>4 DEF OnNodes
  <2> QED
    BY <2>7, <2>8 DEF Came, Gave, D
<1> QED
  BY <1>3, <1>4, <1>5

(* TL of a list that is not empty: its first atom is gone.                 *)
LEMMA TLLemma ==
    ASSUME NEW h, NEW C, Holds(h, C), h.fault = "none", NEW l \in DOMAIN C,
           NEW old, old = h.header[l].head, old # NULL,
           NEW e, e = [h EXCEPT !.header[l].head = h.node[old].next],
           NEW g, g = returnNodeToFreelist(e, old)
    PROVE  /\ Holds(g, Plus(C, l, Tail(C[l]))) /\ C[l] # << >>
           /\ g.fault = "none" /\ g.strings = h.strings
           /\ h.header[l].length # old
<1> DEFINE L == DOMAIN C \ {l}
           D == Plus(C, l, Tail(C[l]))
<1>1. PICK P : Stores(h, DOMAIN C, C, P)
  BY DEF Holds
<1>2. PICK Q : HeaderShape(h, DOMAIN C, Q)
  BY DEF Holds
<1>3. /\ h \in HeapType /\ l \in Headers /\ DOMAIN P = DOMAIN C \cup {NULL} /\ NULL \notin Headers
      /\ P[l] \in Seq(Nodes) /\ Heads(h, l, P[l]) /\ Linked(h, P[l]) /\ C[l] = Contents(h, P[l])
  BY <1>1, AddressLemma DEF Stores, Shape, Part
<1>4. P[l] # << >> /\ old = P[l][1]
  BY <1>3 DEF Heads, First
<1>5. old \in Nodes /\ C[l] # << >>
  <2>1. 1 \in 1 .. Len(P[l]) /\ P[l][1] \in Nodes
    BY <1>3, <1>4, EndsLemma
  <2>2. Len(C[l]) = Len(P[l]) /\ Len(P[l]) # 0
    <3>1. Len(Contents(h, P[l])) = Len(P[l])
      BY <1>3, AtomsLemma
    <3> QED
      BY <1>3, <2>1, <3>1
  <2> QED
    BY <1>4, <2>1, <2>2
<1>6. /\ Tail(P[l]) \in Seq(Nodes) /\ Len(Tail(P[l])) = Len(P[l]) - 1
      /\ h.node[old].next = First(Tail(P[l]))
      /\ Tail(P[l]) # << >> => Tail(P[l])[Len(Tail(P[l]))] = P[l][Len(P[l])]
  BY <1>3, <1>4, TailLemma
<1>7. /\ h.header \in [Headers -> HeaderType] /\ h.node \in [Nodes -> NodeType]
  BY <1>3, HeapFields
<1>8. h.header[l].length # old
  <2>1. h.header[l].length \in 0 .. MaxLength
    BY <1>3, <1>7 DEF HeaderType
  <2> QED
    BY <1>5, <2>1, AddressLemma
<1> DEFINE E == [h.header EXCEPT ![l] = [h.header[l] EXCEPT !.head = h.node[old].next]]
<1>9. e = [h EXCEPT !.header = E]
  BY <1>3, <1>7
<1>10. E \in [Headers -> HeaderType]
  <2>1. h.header[l] \in HeaderType /\ h.node[old].next \in Nodes \cup {NULL}
    BY <1>3, <1>5, <1>7 DEF NodeType
  <2>2. [h.header[l] EXCEPT !.head = h.node[old].next] \in HeaderType
    BY <2>1 DEF HeaderType
  <2> QED
    BY ONLY <1>7, <2>2, Zenon
<1>11. /\ E[l].head = h.node[old].next /\ E[l].tail = h.header[l].tail
       /\ E[l].length = h.header[l].length /\ \A k \in Headers \ {l} : E[k] = h.header[k]
  BY <1>3, <1>7 DEF HeaderType
<1> HIDE DEF E
<1>12. /\ e \in HeapType /\ e.header = E /\ e.node = h.node /\ e.free = h.free
       /\ e.count = h.count /\ e.chunks = h.chunks /\ e.hfree = h.hfree /\ e.fault = "none"
       /\ e.hchunks = h.hchunks /\ e.literals = h.literals /\ e.strings = h.strings
  BY <1>3, <1>9, <1>10 DEF HeapType
<1>13. Stores(e, L, C, P)
  <2>1. \A d \in L : Heads(e, d, P[d])
    <3> SUFFICES ASSUME NEW d \in L PROVE Heads(e, d, P[d])
      OBVIOUS
    <3>1. e.header[d] = h.header[d] /\ Heads(h, d, P[d])
      BY <1>1, <1>11, <1>12 DEF Stores, Shape
    <3> QED
      BY <3>1 DEF Heads
  <2>2. L \subseteq DOMAIN C
    OBVIOUS
  <2> HIDE DEF L
  <2> QED
    BY <1>1, <1>12, <2>1, <2>2, SameNodes
<1> DEFINE R == Move(P, l, NULL, <<P[l][1]>> \o P[NULL])
<1>14. Stores(g, L \ {l}, D, R)
  <2>1. /\ D = Plus(C, l, Tail(C[l])) /\ R = Move(P, l, NULL, <<P[l][1]>> \o P[NULL])
        /\ g = returnNodeToFreelist(e, P[l][1]) /\ e.fault = "none"
    BY <1>4, <1>12
  <2>2. l \in DOMAIN C /\ P[l] # << >>
    BY <1>4
  <2> HIDE DEF D, R, L
  <2> QED
    BY ONLY <1>13, <2>1, <2>2, ReturnLemma
<1>15. OnNodes(g, e) /\ g.header = e.header
  <2>1. e \in HeapType /\ e.fault = "none" /\ old \in Nodes /\ g = returnNodeToFreelist(e, old)
    BY <1>5, <1>12
  <2> QED
    BY ONLY <2>1, ReturnFrame
<1>16. DOMAIN D = DOMAIN C /\ L \ {l} = L
  BY DEF Plus
<1>17. R[l] = Tail(P[l])
  BY <1>3 DEF Move
<1> HIDE DEF D, R
<1>18. Stores(g, DOMAIN C, D, R)
  <2>1. \A d \in DOMAIN C : Heads(g, d, R[d])
    <3> SUFFICES ASSUME NEW d \in DOMAIN C PROVE Heads(g, d, R[d])
      OBVIOUS
    <3>1. CASE d = l
      <4>1. /\ g.header[l].head = First(Tail(P[l])) /\ g.header[l].tail = h.header[l].tail
            /\ g.header[l].length = h.header[l].length
        BY <1>6, <1>11, <1>12, <1>15
      <4>2. /\ P[l] # << >> => h.header[l].tail = P[l][Len(P[l])]
            /\ Len(P[l]) <= h.header[l].length /\ Len(P[l]) \in Nat
            /\ h.header[l].length \in Int
        BY <1>3, <1>7 DEF Heads, HeaderType
      <4>3. Len(Tail(P[l])) <= h.header[l].length
        BY <1>6, <4>2
      <4>4. Heads(g, l, Tail(P[l]))
        BY <1>4, <1>6, <4>1, <4>2, <4>3 DEF Heads
      <4> QED
        BY <1>17, <3>1, <4>4
    <3>2. CASE d # l
      BY <1>14, <1>16, <3>2 DEF Stores, Shape
    <3> QED
      BY <3>1, <3>2
  <2>2. g \in HeapType
    BY <1>15 DEF OnNodes
  <2> QED
    BY <1>14, <1>16, <2>1, <2>2, SameNodes
<1>19. HeaderShape(g, DOMAIN C, Q)
  <2>1. /\ g.hfree = h.hfree /\ g.hchunks = h.hchunks /\ g.literals = h.literals
        /\ \A k \in Headers \ DOMAIN C : g.header[k] = h.header[k]
    BY <1>11, <1>12, <1>15 DEF OnNodes
  <2> QED
    BY <1>2, <2>1, HeaderFrame
<1>20. Holds(g, D)
  BY <1>16, <1>18, <1>19 DEF Holds
<1> QED
  BY <1>5, <1>8, <1>12, <1>15, <1>20 DEF OnNodes, D

-----------------------------------------------------------------------------
(* The heap at the start. *)

Blank ==
    [node |-> [n \in Nodes |-> Atom("INT", NULL, NULL)],
     header |-> [l \in Headers |-> Header(0, NULL, NULL)],
     free |-> NULL, hfree |-> NULL, count |-> 0, chunks |-> 0, hchunks |-> 0,
     literals |-> 0, strings |-> {}, fault |-> "none"]

(* Before any chunk exists there is nothing on the free lists.             *)
LEMMA BlankLemma ==
    /\ Blank \in HeapType /\ Blank.fault = "none" /\ Blank.free = NULL /\ Blank.hfree = NULL
    /\ Blank.chunks = 0 /\ Blank.hchunks = 0 /\ Blank.strings = {}
    /\ \E P : Stores(Blank, {}, << >>, P)
    /\ HeaderShape(Blank, {}, << >>)
<1> DEFINE b == Blank
           P == [d \in {NULL} |-> << >>]
<1>1. Atom("INT", NULL, NULL) \in NodeType
  BY DEF Atom, NodeType, AtomTypes, Values
<1>2. Header(0, NULL, NULL) \in HeaderType
  BY ListAssumption DEF Header, HeaderType
<1>3. /\ b.node = [n \in Nodes |-> Atom("INT", NULL, NULL)]
      /\ b.header = [l \in Headers |-> Header(0, NULL, NULL)]
      /\ b.free = NULL /\ b.hfree = NULL /\ b.count = 0 /\ b.chunks = 0 /\ b.hchunks = 0
      /\ b.literals = 0 /\ b.strings = {} /\ b.fault = "none"
  BY DEF Blank
<1>4. b \in HeapType
  <2>1. /\ [n \in Nodes |-> Atom("INT", NULL, NULL)] \in [Nodes -> NodeType]
        /\ [l \in Headers |-> Header(0, NULL, NULL)] \in [Headers -> HeaderType]
    BY <1>1, <1>2
  <2>2. 0 \in 0 .. MaxChunks /\ 0 \in 0 .. MaxHeaderChunks /\ 0 \in 0 .. MaxLiterals
    BY ListAssumption
  <2> QED
    BY <2>1, <2>2 DEF Blank, HeapType
<1> HIDE DEF b
<1>5. Malloced(b) = {}
  <2>1. INITIAL_FREELIST_CHUNK_SIZE * 0 = 0
    BY ListAssumption
  <2>2. 1 .. (INITIAL_FREELIST_CHUNK_SIZE * b.chunks) = {}
    BY <1>3, <2>1
  <2> QED
    BY <2>2 DEF Malloced
<1>6. Issued(b) = {}
  <2>1. HEADER_FREELIST_CHUNK_SIZE * 0 = 0
    BY ListAssumption
  <2>2. 1 .. (HEADER_FREELIST_CHUNK_SIZE * b.hchunks) = {} /\ 1 .. b.literals = {}
    BY <1>3, <2>1
  <2> QED
    BY <2>2 DEF Issued
<1>7. DOMAIN P = {NULL} /\ P[NULL] = << >> /\ << >> \in Seq(Nodes) /\ Len(<< >>) = 0
  OBVIOUS
<1>8. DOMAIN << >> = {}
  OBVIOUS
<1> HIDE DEF P
<1>9. Part(P, Malloced(b))
  BY <1>5, <1>7 DEF Part, Apart
<1>10. Shape(b, {}, P)
  <2>1. Linked(b, P[NULL])
    BY <1>7 DEF Linked
  <2> QED
    BY <1>3, <1>7, <1>9, <2>1 DEF Shape, First
<1>11. Stores(b, {}, << >>, P)
  BY <1>4, <1>7, <1>8, <1>10 DEF Stores
<1>12. HeaderShape(b, {}, << >>)
  <2>1. << >> \in Seq(Headers) /\ b.hfree = First(<< >>)
    BY <1>3 DEF First
  <2>2. \A l \in Headers : b.header[l] = Header(0, NULL, NULL)
    BY <1>3
  <2> QED
    BY <1>6, <1>7, <2>1, <2>2 DEF HeaderShape
<1> QED
  BY <1>3, <1>4, <1>11, <1>12 DEF b

(* initialize_freelist fills both pools, or there is no memory.            *)
LEMMA InitialLemma ==
    Came(InitialHeap, << >>, << >>) /\ ~Undefined(InitialHeap)
<1> DEFINE g == replenishFreelist(Blank)
           r == replenishHeaderFreelist(g)
<1>1. InitialHeap = r
  BY DEF InitialHeap, Blank
<1>2. DOMAIN << >> = {}
  OBVIOUS
<1>3. PICK P : Stores(Blank, {}, << >>, P)
  BY BlankLemma
<1>4. /\ Blank \in HeapType /\ Blank.fault = "none" /\ Blank.free = NULL /\ Blank.hfree = NULL
      /\ Blank.chunks = 0 /\ Blank.hchunks = 0 /\ HeaderShape(Blank, {}, << >>)
  BY BlankLemma
<1>5. CASE MaxChunks = 0
  <2> DEFINE e == replenishHeaderFreelist(Blank)
  <2>1. g = [Blank EXCEPT !.fault = "exit"]
    BY <1>4, <1>5 DEF replenishFreelist
  <2>2. e \in HeapType
    <3>1. CASE MaxHeaderChunks = 0
      <4>1. e = [Blank EXCEPT !.fault = "exit"]
        BY <1>4, <3>1 DEF replenishHeaderFreelist
      <4> QED
        BY <1>4, <4>1, FaultLemma
    <3>2. CASE MaxHeaderChunks # 0
      BY <1>4, <3>2, ReplenishHeaderLemma DEF OnHeaders
    <3> QED
      BY <3>1, <3>2
  <2>3. r = [e EXCEPT !.fault = "exit"]
    <3> DEFINE first == 0 * HEADER_FREELIST_CHUNK_SIZE + 1
               last == first + HEADER_FREELIST_CHUNK_SIZE - 1
               N == [l \in Headers |->
                       IF l = HeaderAt(last) THEN [Blank.header[l] EXCEPT !.head = Blank.hfree]
                       ELSE IF l \in HeaderAt(first) .. HeaderAt(last)
                       THEN [Blank.header[l] EXCEPT !.head = l + 1] ELSE Blank.header[l]]
    <3>1. g.header = Blank.header /\ g.hfree = Blank.hfree /\ g.hchunks = 0
      BY <1>4, <2>1, FaultLemma
    <3>2. e = IF 0 = MaxHeaderChunks THEN [Blank EXCEPT !.fault = "exit"]
              ELSE [Blank EXCEPT !.header = N, !.hfree = HeaderAt(first), !.hchunks = 0 + 1]
      BY <1>4 DEF replenishHeaderFreelist
    <3>3. r = IF 0 = MaxHeaderChunks THEN [g EXCEPT !.fault = "exit"]
              ELSE [g EXCEPT !.header = N, !.hfree = HeaderAt(first), !.hchunks = 0 + 1]
      BY <3>1 DEF replenishHeaderFreelist
    <3> HIDE DEF N, g, e, r, first
    <3> QED
      BY <1>4, <2>1, <3>2, <3>3 DEF HeapType
  <2> HIDE DEF e, r
  <2>4. r \in HeapType /\ r.fault = "exit"
    BY <2>2, <2>3, FaultLemma
  <2> QED
    BY <1>1, <1>2, <2>4 DEF Came, Keeps, Undefined
<1>6. CASE MaxChunks # 0
  <2>1. Blank.chunks # MaxChunks
    BY <1>4, <1>6
  <2> HIDE DEF r
  <2>2. /\ OnNodes(g, Blank) /\ g.header = Blank.header
        /\ Stores(g, {}, << >>, [P EXCEPT ![NULL] = NewChunk(Blank)])
    BY <1>3, <1>4, <2>1, ReplenishLemma
  <2>3. PICK R : Stores(g, {}, << >>, R)
    BY <2>2
  <2>4. HeaderShape(g, {}, << >>) /\ g \in HeapType /\ g.fault = "none" /\ g.hfree = NULL
    BY <1>4, <2>2, HeaderFrame DEF OnNodes
  <2>5. CASE g.hchunks = MaxHeaderChunks
    <3>1. r = [g EXCEPT !.fault = "exit"]
      BY <2>5 DEF replenishHeaderFreelist, r
    <3> HIDE DEF g
    <3>2. r \in HeapType /\ r.fault = "exit"
      BY <2>4, <3>1, FaultLemma
    <3> QED
      BY <1>1, <1>2, <3>2 DEF Came, Keeps, Undefined
  <2>6. CASE g.hchunks # MaxHeaderChunks
    <3>1. r = replenishHeaderFreelist(g)
      BY DEF r
    <3> HIDE DEF g
    <3>2. OnHeaders(r, g) /\ \E Q : HeaderShape(r, {}, Q)
      BY <2>4, <2>6, <3>1, ReplenishHeaderLemma
    <3>3. Stores(r, {}, << >>, R)
      <4>1. {} \subseteq DOMAIN << >> /\ \A l \in {} : Heads(r, l, R[l])
        OBVIOUS
      <4> QED
        BY <2>3, <3>2, <4>1, SameNodes DEF OnHeaders
    <3>4. Holds(r, << >>)
      BY <1>2, <3>2, <3>3 DEF Holds
    <3> QED
      BY <1>1, <3>2, <3>4 DEF Came, OnHeaders, Undefined
  <2> QED
    BY <2>5, <2>6
<1> QED
  BY <1>5, <1>6

-----------------------------------------------------------------------------
(* The inductive invariant. *)

(* The strings of the lists C are allocated.                               *)
Held(C, S) ==
    \A l \in DOMAIN C : \A i \in 1 .. Len(C[l]) : IsString(C[l][i]) => C[l][i][2] \in S

(* No two atoms point to one string.                                       *)
Unshared(C) ==
    \A l, k \in DOMAIN C : \A i \in 1 .. Len(C[l]), j \in 1 .. Len(C[k]) :
      IsString(C[l][i]) /\ C[l][i] = C[k][j] => l = k /\ i = j

(* What a careful program can rely on.                                     *)
Safe(h, C) ==
    /\ h.fault # "undefined" /\ Unshared(C)
    /\ h.fault = "null" => h.literals = MaxLiterals
    /\ h.fault = "none" => Held(C, h.strings)

(* While the program runs the heap represents its lists; once it has       *)
(* failed the links still lead through them.                               *)
IInv ==
    /\ lists = [l \in owned |-> lists[l]] /\ Keeps(heap, lists)
    /\ Running => Holds(heap, lists)
    /\ careful \in BOOLEAN /\ (careful => Safe(heap, lists))

(* A walk over the heap finds the lists that it keeps.                     *)
LEMMA WalkLemma ==
    ASSUME NEW h, NEW C, C = [l \in DOMAIN C |-> C[l]], Keeps(h, C), NEW O, O = DOMAIN C
    PROVE  [l \in O |-> LET s == Chain(h, h.header[l].head) IN
                          [i \in DOMAIN s |-> <<h.node[s[i]].type, h.node[s[i]].value>>]] = C
<1>1. ASSUME NEW l \in DOMAIN C, NEW s, s = Chain(h, h.header[l].head)
      PROVE  [i \in DOMAIN s |-> <<h.node[s[i]].type, h.node[s[i]].value>>] = C[l]
  <2>1. ListAt(h, l, s, C[l])
    BY <1>1, KeepsLemma
  <2>2. DOMAIN s = 1 .. Len(s)
    BY <2>1 DEF ListAt
  <2> QED
    BY <2>1, <2>2 DEF ListAt, Contents
<1> QED
  BY <1>1

(* What a list of the program is made of.                                  *)
LEMMA SourceLemma ==
    ASSUME IInv, Running, NEW l \in owned
    PROVE  /\ heap \in HeapType /\ NodesOf(l) \in Seq(Nodes) /\ l \in DOMAIN lists
           /\ lists[l] = Contents(heap, NodesOf(l)) /\ lists[l] \in Seq(AtomTypes \X Values)
           /\ Len(NodesOf(l)) <= heap.header[l].length /\ Len(lists[l]) = Len(NodesOf(l))
           /\ heap.header[l].length \in 0 .. MaxLength
           /\ heap.header[l].head = First(NodesOf(l))
<1>1. DOMAIN lists = owned
  BY DEF IInv
<1>2. PICK P : Stores(heap, DOMAIN lists, lists, P)
  BY DEF IInv, Holds
<1>3. ListAt(heap, l, P[l], lists[l]) /\ Heads(heap, l, P[l])
  BY <1>1, <1>2, StoresKeeps DEF Stores, Shape
<1>4. NodesOf(l) = P[l]
  BY <1>3, ChainLemma DEF ListAt, NodesOf
<1>5. heap \in HeapType /\ l \in Headers
  BY <1>2, <1>3 DEF Stores, ListAt
<1>6. heap.header[l].length \in 0 .. MaxLength
  BY <1>5, HeapFields DEF HeaderType
<1>7. P[l] \in Seq(Nodes) /\ lists[l] = Contents(heap, P[l]) /\ heap.header[l].head = First(P[l])
  BY <1>3 DEF ListAt
<1>8. lists[l] \in Seq(AtomTypes \X Values) /\ Len(lists[l]) = Len(P[l])
  BY <1>5, <1>7, AtomsLemma
<1> QED
  BY <1>1, <1>3, <1>4, <1>5, <1>6, <1>7, <1>8 DEF Heads

(* The lists after a step.                                                 *)
LEMMA ResultLemma ==
    ASSUME IInv, NEW D, D = [l \in DOMAIN D |-> D[l]], Came(heap', lists, D),
           owned' = IF heap'.fault = "none" THEN DOMAIN D ELSE owned, lists' = ListsOf'
    PROVE  /\ heap'.fault = "none" => lists' = D
           /\ heap'.fault # "none" => lists' = lists
           /\ lists' = [l \in owned' |-> lists'[l]] /\ Keeps(heap', lists')
           /\ Running' => Holds(heap', lists')
<1>1. /\ DOMAIN lists = owned /\ lists = [l \in DOMAIN lists |-> lists[l]]
      /\ lists = [l \in owned |-> lists[l]]
  BY DEF IInv
<1>2. lists' = [l \in owned' |->
                  LET s == Chain(heap', heap'.header[l].head) IN
                  [i \in DOMAIN s |-> <<heap'.node[s[i]].type, heap'.node[s[i]].value>>]]
  BY DEF ListsOf, NodesOf
<1>3. CASE heap'.fault = "none"
  <2>1. Holds(heap', D) /\ owned' = DOMAIN D
    BY <1>3 DEF Came
  <2>2. Keeps(heap', D)
    <3>1. PICK P : Stores(heap', DOMAIN D, D, P)
      BY <2>1 DEF Holds
    <3> QED
      BY <3>1, StoresKeeps
  <2>3. lists' = D
    BY <1>2, <2>1, <2>2, WalkLemma
  <2> QED
    BY <1>3, <2>1, <2>2, <2>3 DEF Running
<1>4. CASE heap'.fault # "none"
  <2>1. Keeps(heap', lists) /\ owned' = DOMAIN lists
    BY <1>1, <1>4 DEF Came
  <2>2. lists' = lists
    BY <1>1, <1>2, <2>1, WalkLemma
  <2> QED
    BY <1>1, <1>4, <2>1, <2>2 DEF Running
<1> QED
  BY <1>3, <1>4

(* A new list with strings of its own keeps a careful program safe.        *)
LEMMA SafeMake ==
    ASSUME NEW h, NEW g, NEW C, Safe(h, C), h.fault = "none", g.fault = "none",
           NEW m, m \notin DOMAIN C, NEW t, h.strings \subseteq g.strings,
           Fresh(t, h.strings, g.strings)
    PROVE  Safe(g, Plus(C, m, t))
<1> DEFINE D == Plus(C, m, t)
<1>1. /\ DOMAIN D = DOMAIN C \cup {m} /\ D[m] = t /\ \A l \in DOMAIN C : D[l] = C[l]
  BY DEF Plus
<1> HIDE DEF D
<1>2. /\ \A l \in DOMAIN C : \A i \in 1 .. Len(C[l]) : IsString(C[l][i]) => C[l][i][2] \in h.strings
      /\ Unshared(C)
  BY DEF Safe, Held
<1>3. \A i \in 1 .. Len(t) : IsString(t[i]) =>
        t[i][2] \in g.strings \ h.strings /\ \A j \in 1 .. Len(t) : t[i] = t[j] => i = j
  BY DEF Fresh
<1>4. Held(D, g.strings)
  <2> SUFFICES ASSUME NEW l \in DOMAIN D, NEW i \in 1 .. Len(D[l]), IsString(D[l][i])
               PROVE  D[l][i][2] \in g.strings
    BY DEF Held
  <2>1. CASE l = m
    BY <1>1, <1>3, <2>1
  <2>2. CASE l \in DOMAIN C
    BY <1>1, <1>2, <2>2
  <2> QED
    BY <1>1, <2>1, <2>2
<1>5. Unshared(D)
  <2> SUFFICES ASSUME NEW l \in DOMAIN D, NEW k \in DOMAIN D,
                      NEW i \in 1 .. Len(D[l]), NEW j \in 1 .. Len(D[k]),
                      IsString(D[l][i]), D[l][i] = D[k][j]
               PROVE  l = k /\ i = j
    BY DEF Unshared
  <2>1. CASE l = m /\ k = m
    BY <1>1, <1>3, <2>1
  <2>2. CASE l \in DOMAIN C /\ k \in DOMAIN C
    BY <1>1, <1>2, <2>2 DEF Unshared
  <2>3. CASE l = m /\ k \in DOMAIN C
    <3>1. t[i][2] \notin h.strings /\ t[i] = C[k][j] /\ IsString(C[k][j]) /\ j \in 1 .. Len(C[k])
      BY <1>1, <1>3, <2>3
    <3> QED
      BY <1>2, <2>3, <3>1
  <2>4. CASE l \in DOMAIN C /\ k = m
    <3>1. t[j][2] \notin h.strings /\ t[j] = C[l][i] /\ IsString(C[l][i]) /\ i \in 1 .. Len(C[l])
      BY <1>1, <1>3, <2>4
    <3> QED
      BY <1>2, <2>4, <3>1
  <2> QED
    BY <1>1, <2>1, <2>2, <2>3, <2>4
<1> QED
  BY <1>4, <1>5 DEF Safe, D

(* A call that makes a list of t.                                          *)
LEMMA MakeLemma ==
    ASSUME IInv, Running, NEW g, NEW m, NEW t, Reached(g, lists, m, t), Return(g, m),
           lists' = ListsOf', careful' \in BOOLEAN,
           careful' => /\ careful /\ ~Undefined(g)
                       /\ g.fault = "none" => /\ heap.strings \subseteq g.strings
                                              /\ Fresh(t, heap.strings, g.strings)
    PROVE  /\ IInv'
           /\ g.fault # "none" => UNCHANGED lists
           /\ g.fault = "none" => /\ m \in Headers \ DOMAIN lists
                                  /\ Abstract!Makes(m) /\ lists'[m] = t
<1> DEFINE D == Plus(lists, m, t)
<1>1. heap' = g /\ owned' = IF g.fault = "none" THEN owned \cup {m} ELSE owned
  BY DEF Return
<1>2. DOMAIN lists = owned
  BY DEF IInv
<1>3. Came(g, lists, D)
  BY DEF Came, Reached
<1>4. D = [l \in DOMAIN D |-> D[l]] /\ DOMAIN D = owned \cup {m}
  BY <1>2 DEF Plus
<1>5. g.fault = "none" => m \in Headers \ DOMAIN lists
  BY DEF Reached
<1>6. D[m] = t /\ (m \notin DOMAIN lists => \A l \in DOMAIN lists : D[l] = lists[l])
  BY DEF Plus
<1>7. ASSUME g.fault = "none", Safe(heap, lists), m \notin DOMAIN lists,
             heap.strings \subseteq g.strings, Fresh(t, heap.strings, g.strings)
      PROVE  Safe(g, D)
  BY <1>7, SafeMake DEF Running
<1> HIDE DEF D
<1>8. /\ heap'.fault = "none" => lists' = D
      /\ heap'.fault # "none" => lists' = lists
      /\ lists' = [l \in owned' |-> lists'[l]] /\ Keeps(heap', lists')
      /\ Running' => Holds(heap', lists')
  BY <1>1, <1>3, <1>4, ResultLemma
<1>9. careful' => Safe(heap', lists')
  <2>1. CASE g.fault = "none"
    BY <1>1, <1>5, <1>7, <1>8, <2>1 DEF IInv
  <2>2. CASE g.fault # "none"
    BY <1>1, <1>8, <2>2 DEF IInv, Safe, Undefined
  <2> QED
    BY <2>1, <2>2
<1>10. IInv'
  BY <1>8, <1>9 DEF IInv
<1> QED
  BY <1>1, <1>2, <1>4, <1>5, <1>6, <1>8, <1>10 DEF Abstract!Makes

(* A list without strings.                                                 *)
Plain(t) == \A i \in 1 .. Len(t) : ~IsString(t[i])

(* Such a list shares none.                                                *)
LEMMA PlainFresh ==
    ASSUME NEW t, Plain(t), NEW S
    PROVE  Fresh(t, S, S)
  BY DEF Plain, Fresh

(* A list of the program in which no string is found has none.             *)
LEMMA NoStrings ==
    ASSUME IInv, Running, NEW l \in owned, StringsIn(l) = {}
    PROVE  Plain(lists[l])
<1> DEFINE s == NodesOf(l)
<1>1. s \in Seq(Nodes) /\ lists[l] = Contents(heap, s) /\ Len(lists[l]) = Len(s)
  BY SourceLemma
<1>2. ASSUME NEW i \in 1 .. Len(s) PROVE heap.node[s[i]].type # "STRING"
  <2>1. s[i] \in Range(s)
    BY <1>1 DEF Range
  <2> QED
    BY <2>1 DEF StringsIn
<1>3. ASSUME NEW i \in 1 .. Len(s) PROVE ~IsString(lists[l][i])
  <2>1. lists[l][i] = <<heap.node[s[i]].type, heap.node[s[i]].value>>
    BY <1>1, SourceLemma, AtomLemma
  <2> QED
    BY <1>2, <2>1 DEF IsString
<1> QED
  BY <1>1, <1>3 DEF Plain

(* The step of a call that makes a list and copies the strings, if at all, *)
(* only for a program that is no longer careful.                           *)
LEMMA PlainMake ==
    ASSUME IInv, Running, NEW g, NEW m, NEW t, Reached(g, lists, m, t), Return(g, m), Gave(g, heap),
           lists' = ListsOf', careful' \in BOOLEAN, careful' => careful /\ Plain(t)
    PROVE  /\ IInv'
           /\ g.fault # "none" => UNCHANGED lists
           /\ g.fault = "none" => /\ m \in Headers \ DOMAIN lists
                                  /\ Abstract!Makes(m) /\ lists'[m] = t
<1>1. g.strings = heap.strings /\ ~Undefined(g)
  BY DEF Gave, Running, Undefined
<1>2. careful' => /\ careful /\ ~Undefined(g)
                  /\ g.fault = "none" => /\ heap.strings \subseteq g.strings
                                         /\ Fresh(t, heap.strings, g.strings)
  BY <1>1, PlainFresh
<1> QED
  BY <1>2, MakeLemma

(* What a step of ListRuntime must do.                                     *)
Fine == IInv' /\ (Abstract!Next \/ UNCHANGED lists)

(* An empty list, created.                                                 *)
LEMMA CreateStep ==
    ASSUME IInv, Create, lists' = ListsOf'
    PROVE  Fine
<1> DEFINE g == BCPL_LIST_CREATE_EMPTY(heap)
           m == NewHeader(heap)
<1>1. Running /\ Return(g, m) /\ careful' = careful /\ careful \in BOOLEAN
  BY DEF Create, IInv
<1>2. Reached(g, lists, m, << >>) /\ Gave(g, heap)
  BY <1>1, CreateReached DEF IInv, Running
<1>3. Plain(<< >>)
  BY DEF Plain
<1> HIDE DEF g, m
<1>4. /\ IInv'
      /\ g.fault # "none" => UNCHANGED lists
      /\ g.fault = "none" => /\ m \in Headers \ DOMAIN lists
                             /\ Abstract!Makes(m) /\ lists'[m] = << >>
  BY <1>1, <1>2, <1>3, PlainMake
<1>5. << >> \in Literals
  BY DEF Literals
<1>6. g.fault = "none" => Abstract!Next
  BY <1>4, <1>5 DEF Abstract!Next, Abstract!Create
<1> QED
  BY <1>4, <1>6 DEF Fine

(* The copy of a literal.                                                  *)
LEMMA LiteralStep ==
    ASSUME IInv, NEW atoms \in Literals, BCPL_DEEP_COPY_LITERAL_LIST(atoms), lists' = ListsOf',
           heap.literals # MaxLiterals
    PROVE  Fine
<1> DEFINE h == [heap EXCEPT !.literals = @ + 1]
           m == LiteralAt(heap.literals + 1)
           g == CopyLiteral(h, m, atoms)
<1>1. /\ Running /\ heap.literals < MaxLiterals /\ careful \in BOOLEAN
      /\ careful' = (careful /\ \A i \in DOMAIN atoms : atoms[i][1] = "INT")
  <2>1. heap.literals \in 0 .. MaxLiterals /\ MaxLiterals \in Nat
    BY HeapFields, ListAssumption DEF IInv, Keeps
  <2> QED
    BY <2>1 DEF BCPL_DEEP_COPY_LITERAL_LIST, IInv
<1>2. Return(g, m)
  BY DEF BCPL_DEEP_COPY_LITERAL_LIST
<1>3. Reached(h, lists, m, << >>) /\ h.strings = heap.strings /\ h.fault = heap.fault
  <2>1. PICK Q : HeaderShape(heap, DOMAIN lists, Q)
    BY <1>1 DEF IInv, Holds
  <2>2. heap \in HeapType /\ heap.fault = "none" /\ Holds(heap, lists)
    BY <1>1 DEF IInv, Keeps, Running
  <2>3. /\ OnHeaders(h, heap) /\ h.header = heap.header
        /\ m \in Headers /\ m \notin DOMAIN lists /\ h.header[m] = Header(0, NULL, NULL)
        /\ HeaderShape(h, DOMAIN lists \cup {m}, Q)
    BY <1>1, <2>1, <2>2, LiteralLemma
  <2> HIDE DEF h, m
  <2>4. Reached(h, lists, m, << >>)
    BY <2>2, <2>3, NewListLemma
  <2> QED
    BY <2>2, <2>3, <2>4 DEF OnHeaders
<1> HIDE DEF h, m
<1>4. Reached(g, lists, m, atoms) /\ Gave(g, h)
  BY <1>3, LiteralReached
<1>5. Gave(g, heap)
  BY <1>3, <1>4 DEF Gave
<1>6. careful' \in BOOLEAN /\ (careful' => careful /\ Plain(atoms))
  <2>1. DOMAIN atoms = 1 .. Len(atoms)
    BY DEF Literals
  <2> QED
    BY <1>1, <2>1 DEF Plain, IsString
<1> HIDE DEF g
<1>7. /\ IInv'
      /\ g.fault # "none" => UNCHANGED lists
      /\ g.fault = "none" => /\ m \in Headers \ DOMAIN lists
                             /\ Abstract!Makes(m) /\ lists'[m] = atoms
  BY <1>1, <1>2, <1>4, <1>5, <1>6, PlainMake
<1>8. g.fault = "none" => Abstract!Next
  BY <1>7 DEF Abstract!Next, Abstract!Create
<1> QED
  BY <1>7, <1>8 DEF Fine

(* The empty list that a copy starts from.                                 *)
LEMMA StartLemma ==
    ASSUME IInv, Running
    PROVE  /\ Reached(BCPL_LIST_CREATE_EMPTY(heap), lists, NewHeader(heap), << >>)
           /\ Gave(BCPL_LIST_CREATE_EMPTY(heap), heap)
  BY CreateReached DEF IInv, Running

(* BCPL_SHALLOW_COPY_LIST yields a list with the same atoms.               *)
LEMMA CopyStep ==
    ASSUME IInv, NEW l \in owned, BCPL_SHALLOW_COPY_LIST(l), lists' = ListsOf'
    PROVE  Fine
<1> DEFINE h == BCPL_LIST_CREATE_EMPTY(heap)
           m == NewHeader(heap)
           s == NodesOf(l)
           g == CopyNodes(h, m, s)
<1>1. /\ Running /\ careful \in BOOLEAN /\ Return(g, m)
      /\ careful' = (careful /\ StringsIn(l) = {})
  BY DEF BCPL_SHALLOW_COPY_LIST, IInv
<1>2. /\ heap \in HeapType /\ s \in Seq(Nodes) /\ l \in DOMAIN lists /\ lists[l] = Contents(heap, s)
      /\ Len(s) <= heap.header[l].length /\ heap.header[l].length \in 0 .. MaxLength
  BY <1>1, SourceLemma
<1>3. Len(s) <= MaxLength
  BY <1>2, AddressLemma
<1>4. Reached(h, lists, m, << >>) /\ Gave(h, heap)
  BY <1>1, StartLemma
<1>5. careful' \in BOOLEAN /\ (careful' => careful /\ Plain(lists[l]))
  BY <1>1, NoStrings
<1> HIDE DEF h, m, s
<1>6. Reached(g, lists, m, lists[l]) /\ Gave(g, h)
  BY <1>2, <1>3, <1>4, CopyReached
<1>7. Gave(g, heap)
  BY <1>4, <1>6 DEF Gave
<1> HIDE DEF g
<1>8. /\ IInv'
      /\ g.fault # "none" => UNCHANGED lists
      /\ g.fault = "none" => /\ m \in Headers \ DOMAIN lists
                             /\ Abstract!Makes(m) /\ lists'[m] = lists[l]
  BY <1>1, <1>5, <1>6, <1>7, PlainMake
<1>9. g.fault = "none" => Abstract!Next
  BY <1>2, <1>8 DEF Abstract!Next, Abstract!Copy
<1> QED
  BY <1>8, <1>9 DEF Fine

(* What two sequences of nodes hold, one behind the other.                 *)
LEMMA ConcatLemma ==
    ASSUME NEW h \in HeapType, NEW s \in Seq(Nodes), NEW t \in Seq(Nodes)
    PROVE  /\ s \o t \in Seq(Nodes) /\ Len(s \o t) = Len(s) + Len(t)
           /\ Contents(h, s \o t) = Contents(h, s) \o Contents(h, t)
<1> DEFINE u == s \o t
           a == Contents(h, s)
           b == Contents(h, t)
           A == AtomTypes \X Values
<1>1. /\ u \in Seq(Nodes) /\ Len(u) = Len(s) + Len(t) /\ Len(s) \in Nat /\ Len(t) \in Nat
      /\ \A i \in 1 .. Len(u) : u[i] = IF i <= Len(s) THEN s[i] ELSE t[i - Len(s)]
  OBVIOUS
<1> HIDE DEF u
<1>2. /\ a \in Seq(A) /\ Len(a) = Len(s) /\ b \in Seq(A) /\ Len(b) = Len(t)
      /\ Contents(h, u) \in Seq(A) /\ Len(Contents(h, u)) = Len(u)
  BY <1>1, AtomsLemma
<1>3. /\ \A i \in 1 .. Len(s) : a[i] = <<h.node[s[i]].type, h.node[s[i]].value>>
      /\ \A i \in 1 .. Len(t) : b[i] = <<h.node[t[i]].type, h.node[t[i]].value>>
      /\ \A i \in 1 .. Len(u) : Contents(h, u)[i] = <<h.node[u[i]].type, h.node[u[i]].value>>
  BY <1>1, ContentsLemma
<1> HIDE DEF a, b, A
<1>4. /\ a \o b \in Seq(A) /\ Len(a \o b) = Len(u)
      /\ \A i \in 1 .. Len(u) : (a \o b)[i] = IF i <= Len(s) THEN a[i] ELSE b[i - Len(s)]
  <2>1. /\ a \o b \in Seq(A) /\ Len(a \o b) = Len(a) + Len(b)
        /\ \A i \in 1 .. Len(a) + Len(b) : (a \o b)[i] = IF i <= Len(a) THEN a[i] ELSE b[i - Len(a)]
    BY <1>2, ConcatProperties
  <2> QED
    BY <1>1, <1>2, <2>1
<1>5. ASSUME NEW i \in 1 .. Len(u) PROVE Contents(h, u)[i] = (a \o b)[i]
  <2>1. CASE i <= Len(s)
    <3>1. i \in 1 .. Len(s)
      BY <1>1, <2>1
    <3> QED
      BY <1>1, <1>3, <1>4, <2>1, <3>1
  <2>2. CASE ~(i <= Len(s))
    <3>1. i - Len(s) \in 1 .. Len(t)
      BY <1>1, <2>2
    <3> QED
      BY <1>1, <1>3, <1>4, <2>2, <3>1
  <2> QED
    BY <2>1, <2>2
<1>6. Contents(h, u) = a \o b
  BY <1>2, <1>4, <1>5, SeqEqual
<1> QED
  BY <1>1, <1>6 DEF u, a, b

(* Two lists without strings make one without.                             *)
LEMMA PlainConcat ==
    ASSUME NEW T, NEW s \in Seq(T), NEW t \in Seq(T), Plain(s), Plain(t)
    PROVE  Plain(s \o t)
<1> DEFINE u == s \o t
<1>1. /\ Len(u) = Len(s) + Len(t) /\ Len(s) \in Nat /\ Len(t) \in Nat
      /\ \A i \in 1 .. Len(u) : u[i] = IF i <= Len(s) THEN s[i] ELSE t[i - Len(s)]
  OBVIOUS
<1> HIDE DEF u
<1>2. ASSUME NEW i \in 1 .. Len(u) PROVE ~IsString(u[i])
  <2>1. CASE i <= Len(s)
    <3>1. i \in 1 .. Len(s)
      BY <1>1, <2>1
    <3> QED
      BY <1>1, <2>1, <3>1 DEF Plain
  <2>2. CASE ~(i <= Len(s))
    <3>1. i - Len(s) \in 1 .. Len(t)
      BY <1>1, <2>2
    <3> QED
      BY <1>1, <2>2, <3>1 DEF Plain
  <2> QED
    BY <2>1, <2>2
<1> QED
  BY <1>2 DEF Plain, u

(* BCPL_CONCAT_LISTS yields the atoms of the one and then of the other.    *)
LEMMA ConcatStep ==
    ASSUME IInv, NEW l \in owned, NEW k \in owned, BCPL_CONCAT_LISTS(l, k), lists' = ListsOf'
    PROVE  Fine
<1> DEFINE h == BCPL_LIST_CREATE_EMPTY(heap)
           m == NewHeader(heap)
           s == NodesOf(l)
           t == NodesOf(k)
           g == CopyNodes(h, m, s \o t)
           c == lists[l] \o lists[k]
<1>1. /\ Running /\ careful \in BOOLEAN /\ Return(g, m)
      /\ heap.header[l].length + heap.header[k].length <= MaxLength
      /\ careful' = (careful /\ StringsIn(l) \cup StringsIn(k) = {})
  BY DEF BCPL_CONCAT_LISTS, IInv
<1>2. /\ heap \in HeapType /\ s \in Seq(Nodes) /\ l \in DOMAIN lists /\ lists[l] = Contents(heap, s)
      /\ Len(s) <= heap.header[l].length /\ heap.header[l].length \in 0 .. MaxLength
      /\ lists[l] \in Seq(AtomTypes \X Values)
  BY <1>1, SourceLemma
<1>3. /\ t \in Seq(Nodes) /\ k \in DOMAIN lists /\ lists[k] = Contents(heap, t)
      /\ Len(t) <= heap.header[k].length /\ heap.header[k].length \in 0 .. MaxLength
      /\ lists[k] \in Seq(AtomTypes \X Values)
  BY <1>1, SourceLemma
<1>4. Reached(h, lists, m, << >>) /\ Gave(h, heap)
  BY <1>1, StartLemma
<1>5. careful' \in BOOLEAN /\ (careful' => careful /\ Plain(c))
  <2>1. careful' => StringsIn(l) = {} /\ StringsIn(k) = {}
    BY <1>1
  <2>2. careful' => Plain(lists[l]) /\ Plain(lists[k])
    BY <1>1, <2>1, NoStrings
  <2>3. careful' => Plain(c)
    BY <1>2, <1>3, <2>2, PlainConcat
  <2> QED
    BY <1>1, <2>3
<1> HIDE DEF h, m, s, t
<1>6. s \o t \in Seq(Nodes) /\ Len(s \o t) = Len(s) + Len(t) /\ Contents(heap, s \o t) = c
  <2>1. /\ s \o t \in Seq(Nodes) /\ Len(s \o t) = Len(s) + Len(t)
        /\ Contents(heap, s \o t) = Contents(heap, s) \o Contents(heap, t)
    BY ONLY <1>2, <1>3, ConcatLemma
  <2>2. c = Contents(heap, s) \o Contents(heap, t)
    BY <1>2, <1>3
  <2> HIDE DEF c
  <2> QED
    BY <2>1, <2>2
<1>7. Len(s \o t) <= MaxLength
  <2>1. Len(s) \in Nat /\ Len(t) \in Nat /\ MaxLength \in Nat
    BY <1>2, <1>3, AddressLemma
  <2> QED
    BY <1>1, <1>2, <1>3, <1>6, <2>1
<1>8. Reached(g, lists, m, c) /\ Gave(g, h)
  BY <1>2, <1>4, <1>6, <1>7, CopyReached
<1>9. Gave(g, heap)
  BY <1>4, <1>8 DEF Gave
<1> HIDE DEF g, c
<1>10. /\ IInv'
       /\ g.fault # "none" => UNCHANGED lists
       /\ g.fault = "none" => /\ m \in Headers \ DOMAIN lists
                              /\ Abstract!Makes(m) /\ lists'[m] = c
  BY <1>1, <1>5, <1>8, <1>9, PlainMake
<1>11. g.fault = "none" => Abstract!Next
  BY <1>2, <1>3, <1>10 DEF Abstract!Next, Abstract!Concat, c
<1> QED
  BY <1>10, <1>11 DEF Fine

(* A list without strings has none in reverse.                             *)
LEMMA PlainReverse ==
    ASSUME NEW T, NEW c \in Seq(T), Plain(c)
    PROVE  Plain(Reverse(c))
<1>1. Reverse(c) = Reversed(c, Len(c)) /\ Len(Reversed(c, Len(c))) = Len(c) /\ Len(c) \in Nat
  BY ReversedLemma
<1>2. ASSUME NEW i \in 1 .. Len(c) PROVE ~IsString(Reversed(c, Len(c))[i])
  <2>1. Reversed(c, Len(c))[i] = c[(Len(c) - i) + 1] /\ (Len(c) - i) + 1 \in 1 .. Len(c)
    BY <1>1 DEF Reversed
  <2> QED
    BY <2>1 DEF Plain
<1> QED
  BY <1>1, <1>2 DEF Plain

(* BCPL_REVERSE_LIST yields the atoms in reverse.                          *)
LEMMA ReverseStep ==
    ASSUME IInv, NEW l \in owned, BCPL_REVERSE_LIST(l), lists' = ListsOf'
    PROVE  Fine
<1> DEFINE h == BCPL_LIST_CREATE_EMPTY(heap)
           m == NewHeader(heap)
           s == NodesOf(l)
           g == ReverseNodes(h, m, s)
           c == Reverse(lists[l])
<1>1. Running /\ careful \in BOOLEAN /\ careful' = (careful /\ StringsIn(l) = {})
  BY DEF BCPL_REVERSE_LIST, IInv
<1>2. Return(g, m)
  BY ActionLoops
<1>3. /\ heap \in HeapType /\ s \in Seq(Nodes) /\ l \in DOMAIN lists /\ lists[l] = Contents(heap, s)
      /\ Len(s) <= heap.header[l].length /\ heap.header[l].length \in 0 .. MaxLength
      /\ lists[l] \in Seq(AtomTypes \X Values)
  BY <1>1, SourceLemma
<1>4. Len(s) <= MaxLength
  BY <1>3, AddressLemma
<1>5. Reached(h, lists, m, << >>) /\ Gave(h, heap)
  BY <1>1, StartLemma
<1>6. careful' \in BOOLEAN /\ (careful' => careful /\ Plain(c))
  <2>1. careful' => Plain(lists[l])
    BY <1>1, NoStrings
  <2> QED
    BY <1>1, <1>3, <2>1, PlainReverse
<1> HIDE DEF h, m, s, c
<1>7. Reached(g, lists, m, c) /\ Gave(g, h)
  <2>1. c = Reverse(Contents(heap, s))
    BY <1>3 DEF c
  <2>2. Reached(g, lists, m, Reverse(Contents(heap, s))) /\ Gave(g, h)
    BY <1>3, <1>4, <1>5, ReverseReached
  <2> QED
    BY <2>1, <2>2
<1>8. Gave(g, heap)
  BY <1>5, <1>7 DEF Gave
<1> HIDE DEF g
<1>9. /\ IInv'
      /\ g.fault # "none" => UNCHANGED lists
      /\ g.fault = "none" => /\ m \in Headers \ DOMAIN lists
                             /\ Abstract!Makes(m) /\ lists'[m] = c
  BY <1>1, <1>2, <1>6, <1>7, <1>8, PlainMake
<1>10. g.fault = "none" => Abstract!Next
  <2>1. g.fault = "none" => Abstract!ReverseCopy(m, l)
    BY <1>9 DEF Abstract!ReverseCopy, Abstract!Reverse, Reverse, c
  <2> QED
    BY <1>3, <1>9, <2>1 DEF Abstract!Next
<1> QED
  BY <1>9, <1>10 DEF Fine

(* What is kept of a list without strings has none.                        *)
LEMMA PlainKept ==
    ASSUME NEW T, NEW c \in Seq(T), Plain(c), NEW keep
    PROVE  Plain(Abstract!Kept(c, keep))
<1>1. Len(c) \in Nat /\ \A k \in 1 .. Len(c) : c[k] \in T /\ ~IsString(c[k])
  BY DEF Plain
<1>2. PICK p : /\ p[0] = << >>
               /\ \A k \in 1 .. Len(c) : p[k] = Grown(p[k - 1], c[k], keep)
               /\ Abstract!Kept(c, keep) = p[Len(c)]
  BY <1>1, KeptLemma
<1> DEFINE S == {k \in 0 .. Len(c) : p[k] \in Seq(T) /\ Plain(p[k])}
<1>3. 0 \in S
  <2>1. << >> \in Seq(T) /\ Plain(<< >>)
    BY DEF Plain
  <2>2. p[0] \in Seq(T) /\ Plain(p[0])
    BY <1>2, <2>1
  <2> QED
    BY <1>1, <2>2
<1>4. ASSUME NEW k \in 0 .. Len(c) - 1, k \in S PROVE k + 1 \in S
  <2> DEFINE q == p[k]
             a == c[k + 1]
  <2>1. k + 1 \in 1 .. Len(c) /\ (k + 1) - 1 = k /\ k + 1 \in 0 .. Len(c)
    BY <1>1
  <2>2. p[k + 1] = Grown(q, a, keep) /\ a \in T /\ ~IsString(a) /\ q \in Seq(T) /\ Plain(q)
    BY <1>1, <1>2, <1>4, <2>1
  <2> HIDE DEF q, a
  <2>3. Append(q, a) \in Seq(T) /\ Plain(Append(q, a))
    <3>1. /\ Append(q, a) \in Seq(T) /\ Len(Append(q, a)) = Len(q) + 1 /\ Len(q) \in Nat
          /\ \A i \in 1 .. Len(q) + 1 : Append(q, a)[i] = IF i <= Len(q) THEN q[i] ELSE a
      BY <2>2
    <3>2. \A i \in 1 .. Len(q) + 1 : i <= Len(q) => i \in 1 .. Len(q)
      BY <3>1
    <3> QED
      BY <2>2, <3>1, <3>2 DEF Plain
  <2> QED
    BY <2>1, <2>2, <2>3 DEF Grown
<1> HIDE DEF S
<1>5. \A k \in 0 .. Len(c) : k \in S
  BY <1>1, <1>3, <1>4, CountUp
<1> QED
  BY <1>1, <1>2, <1>5 DEF S

(* BCPL_LIST_FILTER yields the atoms that the predicate keeps.             *)
LEMMA FilterStep ==
    ASSUME IInv, NEW l \in owned, NEW keep \in SUBSET ValuesIn(l), BCPL_LIST_FILTER(l, keep),
           lists' = ListsOf'
    PROVE  Fine
<1> DEFINE h == BCPL_LIST_CREATE_EMPTY(heap)
           m == NewHeader(heap)
           s == NodesOf(l)
           g == FilterNodes(h, m, keep, s)
           c == Abstract!Kept(lists[l], keep)
<1>1. Running /\ careful \in BOOLEAN /\ careful' = (careful /\ StringsIn(l) = {})
  BY DEF BCPL_LIST_FILTER, IInv
<1>2. Return(g, m)
  BY ActionLoops
<1>3. /\ heap \in HeapType /\ s \in Seq(Nodes) /\ l \in DOMAIN lists /\ lists[l] = Contents(heap, s)
      /\ Len(s) <= heap.header[l].length /\ heap.header[l].length \in 0 .. MaxLength
      /\ lists[l] \in Seq(AtomTypes \X Values)
  BY <1>1, SourceLemma
<1>4. Len(s) <= MaxLength
  BY <1>3, AddressLemma
<1>5. Reached(h, lists, m, << >>) /\ Gave(h, heap)
  BY <1>1, StartLemma
<1>6. careful' \in BOOLEAN /\ (careful' => careful /\ Plain(c))
  <2>1. careful' => Plain(lists[l])
    BY <1>1, NoStrings
  <2> QED
    BY <1>1, <1>3, <2>1, PlainKept
<1> HIDE DEF h, m, s, c
<1>7. Reached(g, lists, m, c) /\ Gave(g, h)
  <2>1. c = Abstract!Kept(Contents(heap, s), keep)
    BY <1>3 DEF c
  <2>2. Reached(g, lists, m, Abstract!Kept(Contents(heap, s), keep)) /\ Gave(g, h)
    BY <1>3, <1>4, <1>5, FilterReached
  <2> QED
    BY <2>1, <2>2
<1>8. Gave(g, heap)
  BY <1>5, <1>7 DEF Gave
<1> HIDE DEF g
<1>9. /\ IInv'
      /\ g.fault # "none" => UNCHANGED lists
      /\ g.fault = "none" => /\ m \in Headers \ DOMAIN lists
                             /\ Abstract!Makes(m) /\ lists'[m] = c
  BY <1>1, <1>2, <1>6, <1>7, <1>8, PlainMake
<1>10. keep \in SUBSET (Ints \cup (Strings \cup {StaticString}) \cup {NULL})
  <2> SUFFICES ASSUME NEW v \in keep PROVE v \in Values
    BY DEF Values
  <2>1. PICK n \in Range(s) : v = heap.node[n].value
    BY DEF ValuesIn, s
  <2>2. PICK i \in 1 .. Len(s) : s[i] = n
    BY <1>3, <2>1 DEF Range
  <2> QED
    BY <1>3, <2>1, <2>2, AtomLemma
<1>11. g.fault = "none" => Abstract!Next
  <2>1. g.fault = "none" => Abstract!Filter(m, l)
    BY <1>9, <1>10 DEF Abstract!Filter, c
  <2> QED
    BY <1>3, <1>9, <2>1 DEF Abstract!Next
<1> QED
  BY <1>9, <1>11 DEF Fine

(* BCPL_DEEP_COPY_LIST yields duplicates; a careful program never asks for *)
(* the copy of a string that is gone.                                      *)
LEMMA DeepStep ==
    ASSUME IInv, NEW l \in owned, BCPL_DEEP_COPY_LIST(l), lists' = ListsOf'
    PROVE  Fine
<1> DEFINE h == BCPL_LIST_CREATE_EMPTY(heap)
           m == NewHeader(heap)
           s == NodesOf(l)
           g == DeepCopyNodes(h, m, s)
           c == lists[l]
<1>1. Running /\ careful \in BOOLEAN /\ careful' = careful
  BY DEF BCPL_DEEP_COPY_LIST, IInv
<1>2. Return(g, m)
  BY ActionLoops
<1>3. /\ heap \in HeapType /\ s \in Seq(Nodes) /\ l \in DOMAIN lists /\ c = Contents(heap, s)
      /\ Len(s) <= heap.header[l].length /\ heap.header[l].length \in 0 .. MaxLength
      /\ c \in Seq(AtomTypes \X Values) /\ Len(c) = Len(s)
  BY <1>1, SourceLemma
<1>4. Len(s) <= MaxLength
  BY <1>3, AddressLemma
<1>5. Reached(h, lists, m, << >>) /\ Gave(h, heap)
  BY <1>1, StartLemma
<1>6. careful => Safe(heap, lists) /\ Held(lists, heap.strings)
  BY <1>1 DEF IInv, Safe, Running
<1> HIDE DEF h, m, s
<1>7. PICK t : Deep(g, h, lists, m, t, c, Len(s))
  BY <1>3, <1>4, <1>5, DeepReached
<1> HIDE DEF g
<1>8. /\ Reached(g, lists, m, t) /\ Len(t) = Len(c)
      /\ g.fault = "none" => /\ h.strings \subseteq g.strings /\ Fresh(t, h.strings, g.strings)
                             /\ \A i \in 1 .. Len(c) : t[i] \in Abstract!Duplicates(c[i])
      /\ Undefined(g) => \/ Undefined(h)
                         \/ \E i \in 1 .. Len(c) : IsString(c[i]) /\ c[i][2] \notin h.strings
  BY <1>3, <1>7 DEF Deep
<1>9. h.strings = heap.strings /\ ~Undefined(h)
  BY <1>1, <1>5 DEF Gave, Running, Undefined
<1>10. careful => ~Undefined(g)
  BY <1>3, <1>6, <1>8, <1>9 DEF Held
<1>11. careful' => /\ careful /\ ~Undefined(g)
                   /\ g.fault = "none" => /\ heap.strings \subseteq g.strings
                                          /\ Fresh(t, heap.strings, g.strings)
  BY <1>1, <1>8, <1>9, <1>10
<1>12. careful' \in BOOLEAN
  BY <1>1
<1>13. /\ IInv'
       /\ g.fault # "none" => UNCHANGED lists
       /\ g.fault = "none" => /\ m \in Headers \ DOMAIN lists
                              /\ Abstract!Makes(m) /\ lists'[m] = t
  BY <1>1, <1>2, <1>8, <1>11, <1>12, MakeLemma
<1>14. g.fault = "none" => Abstract!DeepCopy(m, l)
  <2>1. DOMAIN c = 1 .. Len(c)
    BY <1>3
  <2> QED
    BY <1>8, <1>13, <2>1 DEF Abstract!DeepCopy
<1>15. g.fault = "none" => Abstract!Next
  BY <1>3, <1>13, <1>14 DEF Abstract!Next
<1> QED
  BY <1>13, <1>15 DEF Fine

(* A step that changes one list of the program.                            *)
LEMMA ChangeLemma ==
    ASSUME IInv, Running, NEW l \in owned, NEW c, Came(heap', lists, Plus(lists, l, c)),
           owned' = owned, lists' = ListsOf', careful' \in BOOLEAN,
           careful' => /\ careful /\ ~Undefined(heap')
                       /\ heap'.fault = "none" => Safe(heap', Plus(lists, l, c))
    PROVE  /\ IInv'
           /\ heap'.fault # "none" => UNCHANGED lists
           /\ heap'.fault = "none" => lists' = [lists EXCEPT ![l] = c]
<1> DEFINE D == Plus(lists, l, c)
<1>1. DOMAIN lists = owned /\ lists = [k \in owned |-> lists[k]]
  BY DEF IInv
<1>2. D = [k \in DOMAIN D |-> D[k]] /\ DOMAIN D = owned
  BY <1>1 DEF Plus
<1>3. D = [lists EXCEPT ![l] = c]
  BY <1>1 DEF Plus
<1> HIDE DEF D
<1>4. owned' = IF heap'.fault = "none" THEN DOMAIN D ELSE owned
  BY <1>2
<1>5. Came(heap', lists, D)
  BY DEF D
<1>6. /\ heap'.fault = "none" => lists' = D
      /\ heap'.fault # "none" => lists' = lists
      /\ lists' = [k \in owned' |-> lists'[k]] /\ Keeps(heap', lists')
      /\ Running' => Holds(heap', lists')
  BY <1>2, <1>4, <1>5, ResultLemma
<1>7. careful' => Safe(heap', lists')
  <2>1. CASE heap'.fault = "none"
    BY <1>6, <2>1 DEF D
  <2>2. CASE heap'.fault # "none"
    BY <1>6, <2>2 DEF IInv, Safe, Undefined
  <2> QED
    BY <2>1, <2>2
<1>8. IInv'
  BY <1>6, <1>7 DEF IInv
<1> QED
  BY <1>3, <1>6, <1>8

(* An atom whose string is new keeps a careful program safe.               *)
LEMMA SafeAppend ==
    ASSUME NEW h, NEW g, NEW C, Safe(h, C), h.fault = "none", g.fault = "none",
           NEW l \in DOMAIN C, NEW T, C[l] \in Seq(T), NEW a \in T,
           h.strings \subseteq g.strings, IsString(a) => a[2] \in g.strings \ h.strings
    PROVE  Safe(g, Plus(C, l, Append(C[l], a)))
<1> DEFINE D == Plus(C, l, Append(C[l], a))
           n == Len(C[l])
<1>1. /\ n \in Nat /\ Len(Append(C[l], a)) = n + 1 /\ Append(C[l], a)[n + 1] = a
      /\ \A i \in 1 .. n : Append(C[l], a)[i] = C[l][i]
  OBVIOUS
<1>2. /\ DOMAIN D = DOMAIN C /\ D[l] = Append(C[l], a)
      /\ \A k \in DOMAIN C : k # l => D[k] = C[k]
  BY DEF Plus
<1> HIDE DEF D
<1>3. ASSUME NEW k \in DOMAIN D, NEW i \in 1 .. Len(D[k])
      PROVE  \/ k = l /\ i = n + 1 /\ D[k][i] = a
             \/ k \in DOMAIN C /\ i \in 1 .. Len(C[k]) /\ D[k][i] = C[k][i]
  <2>1. CASE k = l
    BY <1>1, <1>2, <2>1
  <2>2. CASE k # l
    BY <1>2, <2>2
  <2> QED
    BY <2>1, <2>2
<1> HIDE DEF n
<1>4. /\ \A k \in DOMAIN C : \A i \in 1 .. Len(C[k]) : IsString(C[k][i]) => C[k][i][2] \in h.strings
      /\ Unshared(C)
  BY DEF Safe, Held
<1>5. Held(D, g.strings)
  <2> SUFFICES ASSUME NEW k \in DOMAIN D, NEW i \in 1 .. Len(D[k]), IsString(D[k][i])
               PROVE  D[k][i][2] \in g.strings
    BY DEF Held
  <2>1. CASE D[k][i] = a
    BY <2>1
  <2>2. CASE k \in DOMAIN C /\ i \in 1 .. Len(C[k]) /\ D[k][i] = C[k][i]
    BY <1>4, <2>2
  <2> QED
    BY <1>3, <2>1, <2>2
<1>6. Unshared(D)
  <2> SUFFICES ASSUME NEW k \in DOMAIN D, NEW d \in DOMAIN D,
                      NEW i \in 1 .. Len(D[k]), NEW j \in 1 .. Len(D[d]),
                      IsString(D[k][i]), D[k][i] = D[d][j]
               PROVE  k = d /\ i = j
    BY DEF Unshared
  <2>1. CASE D[k][i] = a
    <3>1. a[2] \notin h.strings /\ IsString(a) /\ D[d][j] = a
      BY <2>1
    <3>2. ~(d \in DOMAIN C /\ j \in 1 .. Len(C[d]) /\ D[d][j] = C[d][j])
      BY <1>4, <3>1
    <3>3. ~(k \in DOMAIN C /\ i \in 1 .. Len(C[k]) /\ D[k][i] = C[k][i])
      BY <1>4, <2>1, <3>1
    <3> QED
      BY <1>3, <3>2, <3>3
  <2>2. CASE D[k][i] # a
    <3>1. /\ k \in DOMAIN C /\ i \in 1 .. Len(C[k]) /\ D[k][i] = C[k][i]
          /\ d \in DOMAIN C /\ j \in 1 .. Len(C[d]) /\ D[d][j] = C[d][j]
      BY <1>3, <2>2
    <3>2. IsString(C[k][i]) /\ C[k][i] = C[d][j]
      BY <3>1
    <3> QED
      BY ONLY <1>4, <3>1, <3>2 DEF Unshared
  <2> QED
    BY <2>1, <2>2
<1> QED
  BY <1>5, <1>6 DEF Safe, D

(* An appended atom is an atom of ListSpec.                                *)
LEMMA AppendFine ==
    ASSUME IInv', NEW l \in DOMAIN lists, NEW a \in Abstract!Atoms,
           \/ UNCHANGED lists
           \/ lists' = [lists EXCEPT ![l] = Append(lists[l], a)]
    PROVE  Fine
<1>1. CASE UNCHANGED lists
  BY <1>1 DEF Fine
<1>2. CASE lists' = [lists EXCEPT ![l] = Append(lists[l], a)]
  <2>1. Abstract!AppendAtom(l)
    BY <1>2 DEF Abstract!AppendAtom
  <2> QED
    BY <2>1 DEF Fine, Abstract!Next
<1> QED
  BY <1>1, <1>2

(* BCPL_LIST_APPEND_INT puts one integer behind the list l.                *)
LEMMA AppendIntStep ==
    ASSUME IInv, NEW l \in owned, NEW i \in Ints, BCPL_LIST_APPEND_INT(l, i), lists' = ListsOf'
    PROVE  Fine
<1> DEFINE a == <<"INT", i>>
           c == Append(lists[l], a)
<1>1. /\ Running /\ heap.header[l].length < MaxLength /\ heap' = AppendNode(heap, l, "INT", i)
      /\ owned' = owned /\ careful' = careful /\ careful \in BOOLEAN /\ heap.fault = "none"
  BY DEF BCPL_LIST_APPEND_INT, IInv, Running
<1>2. l \in DOMAIN lists /\ Holds(heap, lists) /\ lists[l] \in Seq(AtomTypes \X Values)
  BY <1>1, SourceLemma DEF IInv
<1>3. "INT" \in AtomTypes /\ i \in Values
  BY DEF AtomTypes, Values
<1>4. Came(heap', lists, Plus(lists, l, c)) /\ Gave(heap', heap)
  BY <1>1, <1>2, <1>3, AppendLemma
<1>5. heap'.strings = heap.strings /\ ~Undefined(heap')
  BY <1>1, <1>4 DEF Gave, Undefined
<1>6. ASSUME careful, heap'.fault = "none" PROVE Safe(heap', Plus(lists, l, c))
  <2>1. ~IsString(a) /\ a \in AtomTypes \X Values
    BY <1>3 DEF IsString
  <2>2. Safe(heap, lists)
    BY <1>6 DEF IInv
  <2> HIDE DEF a
  <2> QED
    BY <1>1, <1>2, <1>5, <1>6, <2>1, <2>2, SafeAppend
<1>7. a \in Abstract!Atoms
  BY DEF Abstract!Atoms
<1> HIDE DEF a, c
<1>8. /\ IInv'
      /\ heap'.fault # "none" => UNCHANGED lists
      /\ heap'.fault = "none" => lists' = [lists EXCEPT ![l] = c]
  BY <1>1, <1>4, <1>5, <1>6, ChangeLemma
<1> QED
  BY <1>2, <1>7, <1>8, AppendFine DEF c

(* BCPL_LIST_APPEND_STRING puts one string behind the list l.              *)
LEMMA AppendStringStep ==
    ASSUME IInv, NEW l \in owned, NEW s \in (heap.strings \cup {AllocChars(heap), StaticString}) \ {NULL},
           BCPL_LIST_APPEND_STRING(l, s), lists' = ListsOf'
    PROVE  Fine
<1> DEFINE a == <<"STRING", s>>
           c == Append(lists[l], a)
           S == heap.strings \cup ({s} \ {StaticString})
           h == Restrung(heap, S)
<1>1. /\ Running /\ heap.header[l].length < MaxLength /\ heap' = AppendNode(h, l, "STRING", s)
      /\ owned' = owned /\ careful' = (careful /\ s \notin heap.strings \cup {StaticString})
      /\ careful \in BOOLEAN /\ heap.fault = "none"
  BY DEF BCPL_LIST_APPEND_STRING, IInv, Running, Restrung
<1>2. /\ l \in DOMAIN lists /\ Holds(heap, lists) /\ lists[l] \in Seq(AtomTypes \X Values)
      /\ heap \in HeapType
  BY <1>1, SourceLemma DEF IInv
<1>3. heap.strings \in SUBSET Strings /\ s \in Strings \cup {StaticString}
  <2>1. heap.strings \in SUBSET Strings
    BY <1>2, HeapFields
  <2> QED
    BY <2>1, AllocLemma
<1>4. "STRING" \in AtomTypes /\ s \in Values /\ S \in SUBSET Strings
  BY <1>3 DEF AtomTypes, Values
<1>5. Holds(h, lists) /\ h.fault = "none" /\ h.strings = S /\ h.header = heap.header
  BY <1>1, <1>2, <1>4, RestrungHolds
<1> HIDE DEF h
<1>6. Came(heap', lists, Plus(lists, l, c)) /\ Gave(heap', h)
  BY <1>1, <1>2, <1>4, <1>5, AppendLemma
<1>7. heap'.strings = S /\ ~Undefined(heap')
  BY <1>5, <1>6 DEF Gave, Undefined
<1>8. ASSUME careful', heap'.fault = "none" PROVE Safe(heap', Plus(lists, l, c))
  <2>1. a \in AtomTypes \X Values /\ a[2] = s /\ s \notin heap.strings /\ s \in S
    BY <1>1, <1>4, <1>8
  <2>2. Safe(heap, lists)
    BY <1>1, <1>8 DEF IInv
  <2> HIDE DEF a
  <2> QED
    BY <1>1, <1>2, <1>7, <1>8, <2>1, <2>2, SafeAppend
<1>9. a \in Abstract!Atoms
  BY <1>3 DEF Abstract!Atoms
<1> HIDE DEF a, c
<1>10. /\ IInv'
       /\ heap'.fault # "none" => UNCHANGED lists
       /\ heap'.fault = "none" => lists' = [lists EXCEPT ![l] = c]
  <2>1. careful' \in BOOLEAN /\ (careful' => careful)
    BY <1>1
  <2> QED
    BY <1>1, <1>6, <1>7, <1>8, <2>1, ChangeLemma
<1> QED
  BY <1>2, <1>9, <1>10, AppendFine DEF c

(* A list loses its first atom, and no other is touched.                   *)
LEMMA SafeTail ==
    ASSUME NEW h, NEW g, NEW C, Safe(h, C), h.fault = "none", g.fault = "none",
           NEW l \in DOMAIN C, NEW T, C[l] \in Seq(T), C[l] # << >>, g.strings = h.strings
    PROVE  Safe(g, Plus(C, l, Tail(C[l])))
<1> DEFINE D == Plus(C, l, Tail(C[l]))
           n == Len(C[l])
           e == [k \in DOMAIN C |-> IF k = l THEN 1 ELSE 0]
<1>1. /\ n \in Nat \ {0} /\ Len(Tail(C[l])) = n - 1
      /\ \A i \in 1 .. n - 1 : Tail(C[l])[i] = C[l][i + 1]
  OBVIOUS
<1>2. /\ DOMAIN D = DOMAIN C /\ D[l] = Tail(C[l])
      /\ \A k \in DOMAIN C : k # l => D[k] = C[k]
  BY DEF Plus
<1> HIDE DEF D
<1>3. ASSUME NEW k \in DOMAIN D, NEW i \in 1 .. Len(D[k])
      PROVE  /\ k \in DOMAIN C /\ i + e[k] \in 1 .. Len(C[k]) /\ D[k][i] = C[k][i + e[k]]
             /\ e[k] \in Int
  <2>1. CASE k = l
    BY <1>1, <1>2, <2>1
  <2>2. CASE k # l
    <3>1. k \in DOMAIN C /\ D[k] = C[k] /\ e[k] = 0 /\ i + 0 = i
      BY <1>2, <2>2
    <3> QED
      BY <3>1
  <2> QED
    BY <2>1, <2>2
<1> HIDE DEF n, e
<1>4. /\ \A k \in DOMAIN C : \A i \in 1 .. Len(C[k]) : IsString(C[k][i]) => C[k][i][2] \in h.strings
      /\ Unshared(C)
  BY DEF Safe, Held
<1>5. Held(D, g.strings)
  <2> SUFFICES ASSUME NEW k \in DOMAIN D, NEW i \in 1 .. Len(D[k]), IsString(D[k][i])
               PROVE  D[k][i][2] \in g.strings
    BY DEF Held
  <2>1. PICK j : k \in DOMAIN C /\ j \in 1 .. Len(C[k]) /\ D[k][i] = C[k][j]
    BY <1>3
  <2> QED
    BY <1>4, <2>1
<1>6. Unshared(D)
  <2> SUFFICES ASSUME NEW k \in DOMAIN D, NEW d \in DOMAIN D,
                      NEW i \in 1 .. Len(D[k]), NEW j \in 1 .. Len(D[d]),
                      IsString(D[k][i]), D[k][i] = D[d][j]
               PROVE  k = d /\ i = j
    BY DEF Unshared
  <2> DEFINE p == i + e[k]
             q == j + e[d]
  <2>1. /\ k \in DOMAIN C /\ p \in 1 .. Len(C[k]) /\ D[k][i] = C[k][p] /\ e[k] \in Int
        /\ d \in DOMAIN C /\ q \in 1 .. Len(C[d]) /\ D[d][j] = C[d][q]
    BY <1>3
  <2>2. k = d /\ p = q => i = j
    BY <2>1
  <2> HIDE DEF p, q
  <2>3. IsString(C[k][p]) /\ C[k][p] = C[d][q]
    BY <2>1
  <2>4. k = d /\ p = q
    BY ONLY <1>4, <2>1, <2>3 DEF Unshared
  <2> QED
    BY <2>2, <2>4
<1> QED
  BY <1>5, <1>6 DEF Safe, D

(* The code emitted for TL removes the first atom, if there is one.        *)
LEMMA TLStep ==
    ASSUME IInv, NEW l \in owned, TL(l), lists' = ListsOf'
    PROVE  Fine
<1> DEFINE old == heap.header[l].head
           e == [heap EXCEPT !.header[l].head = heap.node[old].next]
           g == returnNodeToFreelist(e, old)
<1>1. /\ Running /\ owned' = owned /\ careful' = careful /\ careful \in BOOLEAN
      /\ heap.fault = "none"
  BY DEF TL, IInv, Running
<1>2. /\ l \in DOMAIN lists /\ Holds(heap, lists) /\ lists[l] \in Seq(AtomTypes \X Values)
      /\ old = First(NodesOf(l)) /\ Len(lists[l]) = Len(NodesOf(l)) /\ NodesOf(l) \in Seq(Nodes)
  BY <1>1, SourceLemma DEF IInv
<1>3. lists = [k \in DOMAIN lists |-> lists[k]] /\ DOMAIN lists = owned
  BY DEF IInv
<1>4. CASE old = NULL
  <2>1. heap' = heap
    BY <1>4 DEF TL
  <2>2. NodesOf(l) = << >>
    <3> HIDE DEF old
    <3> QED
      BY <1>2, <1>4, AddressLemma DEF First
  <2>3. lists[l] = << >>
    BY <1>2, <2>2
  <2>4. Plus(lists, l, << >>) = lists
    BY <1>3, <2>3 DEF Plus
  <2>5. Came(heap', lists, Plus(lists, l, << >>)) /\ (careful => Safe(heap', Plus(lists, l, << >>)))
    BY <1>1, <1>2, <2>1, <2>4 DEF Came, IInv
  <2>6. heap'.fault = "none" /\ ~Undefined(heap')
    BY <1>1, <2>1 DEF Undefined
  <2>7. IInv' /\ lists' = [lists EXCEPT ![l] = << >>]
    BY <1>1, <2>5, <2>6, ChangeLemma
  <2>8. lists' = lists
    BY <1>3, <2>3, <2>7
  <2> QED
    BY <2>7, <2>8 DEF Fine
<1>5. CASE old # NULL
  <2> DEFINE c == Tail(lists[l])
  <2>1. /\ Holds(g, Plus(lists, l, c)) /\ lists[l] # << >> /\ g.fault = "none"
        /\ g.strings = heap.strings /\ heap.header[l].length # old
    BY <1>1, <1>2, <1>5, TLLemma
  <2>2. heap' = g
    <3>1. FieldAt(8) = "length"
      BY DEF FieldAt
    <3>2. heap.header[l][FieldAt(8)] # old
      BY <2>1, <3>1
    <3> QED
      BY <1>5, <3>2 DEF TL
  <2> HIDE DEF g
  <2>3. Came(heap', lists, Plus(lists, l, c)) /\ heap'.fault = "none" /\ ~Undefined(heap')
    BY <2>1, <2>2 DEF Came, Undefined
  <2>4. careful => Safe(heap', Plus(lists, l, c))
    <3>1. ASSUME careful PROVE Safe(heap, lists)
      BY <3>1 DEF IInv
    <3> QED
      BY <1>1, <1>2, <2>1, <2>2, <3>1, SafeTail
  <2>5. c = IF lists[l] = << >> THEN lists[l] ELSE Tail(lists[l])
    BY <2>1
  <2> HIDE DEF c
  <2>6. IInv' /\ lists' = [lists EXCEPT ![l] = c]
    BY <1>1, <2>3, <2>4, ChangeLemma
  <2>7. Abstract!DropHead(l)
    BY <2>5, <2>6 DEF Abstract!DropHead
  <2> QED
    BY <1>2, <2>6, <2>7 DEF Fine, Abstract!Next
<1> QED
  BY <1>4, <1>5

(* A list is gone, and its strings were those of no other.                 *)
LEMMA SafeWithout ==
    ASSUME NEW h, NEW g, NEW C, Safe(h, C), h.fault = "none", g.fault = "none",
           NEW l \in DOMAIN C, \A k \in DOMAIN C : C[k] \in Seq(AtomTypes \X Values),
           \A v \in h.strings \ g.strings :
             \E i \in 1 .. Len(C[l]) : IsString(C[l][i]) /\ C[l][i][2] = v
    PROVE  Safe(g, Without(C, l))
<1> DEFINE D == Without(C, l)
<1>1. DOMAIN D = DOMAIN C \ {l} /\ \A k \in DOMAIN D : D[k] = C[k]
  BY DEF Without
<1> HIDE DEF D
<1>2. /\ \A k \in DOMAIN C : \A i \in 1 .. Len(C[k]) : IsString(C[k][i]) => C[k][i][2] \in h.strings
      /\ Unshared(C)
  BY DEF Safe, Held
<1>3. Held(D, g.strings)
  <2> SUFFICES ASSUME NEW k \in DOMAIN C, k # l, NEW i \in 1 .. Len(C[k]), IsString(C[k][i]),
                      C[k][i][2] \notin g.strings
               PROVE  FALSE
    BY <1>1 DEF Held
  <2>1. PICK j \in 1 .. Len(C[l]) : IsString(C[l][j]) /\ C[l][j][2] = C[k][i][2]
    BY <1>2
  <2>2. C[l][j] \in AtomTypes \X Values /\ C[k][i] \in AtomTypes \X Values
    OBVIOUS
  <2>3. C[k][i] = C[l][j]
    BY <2>1, <2>2 DEF IsString
  <2> QED
    BY <1>2, <2>1, <2>3 DEF Unshared
<1>4. Unshared(D)
  BY <1>1, <1>2 DEF Unshared
<1> QED
  BY <1>3, <1>4 DEF Safe, D

(* bcpl_free_list takes the list away, or frees a string twice.            *)
LEMMA FreeStep ==
    ASSUME IInv, NEW l \in owned, bcpl_free_list(l), lists' = ListsOf'
    PROVE  Fine
<1> DEFINE s == NodesOf(l)
           e == FreeNodesOf(heap, s)
           r == returnHeaderToFreelist(e, l)
           D == Without(lists, l)
<1>1. /\ Running /\ careful' = careful /\ careful \in BOOLEAN /\ heap.fault = "none"
      /\ IF e.fault # "none" THEN heap' = [heap EXCEPT !.fault = e.fault] /\ owned' = owned
         ELSE heap' = r /\ owned' = owned \ {l}
  BY DEF bcpl_free_list, FreeNodesOf, IInv, Running
<1>2. /\ l \in DOMAIN lists /\ Holds(heap, lists) /\ s = Chain(heap, heap.header[l].head)
      /\ heap \in HeapType /\ Keeps(heap, lists)
  BY <1>1, SourceLemma DEF IInv, NodesOf
<1>3. lists = [k \in DOMAIN lists |-> lists[k]] /\ DOMAIN lists = owned
  BY DEF IInv
<1>4. \A k \in DOMAIN lists : lists[k] \in Seq(AtomTypes \X Values)
  BY <1>1, <1>3, SourceLemma
<1>5. \/ e.fault = "undefined" /\ Unfreeable(lists[l], heap.strings)
      \/ /\ e.fault = "none" /\ r.fault = "none" /\ Holds(r, D)
         /\ \A v \in heap.strings \ r.strings :
              \E i \in 1 .. Len(lists[l]) : IsString(lists[l][i]) /\ lists[l][i][2] = v
  BY <1>1, <1>2, FreeLemma
<1>6. D = [k \in DOMAIN D |-> D[k]] /\ DOMAIN D = owned \ {l}
  BY <1>3 DEF Without
<1> HIDE DEF e, r
<1>7. CASE e.fault = "undefined" /\ Unfreeable(lists[l], heap.strings)
  <2> HIDE DEF D
  <2>1. heap' = [heap EXCEPT !.fault = "undefined"] /\ owned' = owned
    BY <1>1, <1>7
  <2>2. heap' \in HeapType /\ heap'.fault = "undefined" /\ Keeps(heap', lists)
    BY <1>2, <2>1, FaultLemma, KeepsSame
  <2>3. ~careful
    <3> SUFFICES ASSUME careful PROVE FALSE
      OBVIOUS
    <3>1. Held(lists, heap.strings) /\ Unshared(lists)
      BY <1>1 DEF IInv, Safe
    <3>2. PICK i \in 1 .. Len(lists[l]) :
            /\ IsString(lists[l][i])
            /\ lists[l][i][2] \notin heap.strings \/ \E j \in 1 .. i - 1 : lists[l][j] = lists[l][i]
      BY <1>7 DEF Unfreeable
    <3>3. lists[l][i][2] \in heap.strings
      BY <1>2, <3>1, <3>2 DEF Held
    <3>4. PICK j \in 1 .. i - 1 : lists[l][j] = lists[l][i]
      BY <3>2, <3>3
    <3>5. Len(lists[l]) \in Nat
      BY <1>2, <1>4
    <3>6. j \in 1 .. Len(lists[l]) /\ j # i
      BY <3>5
    <3> QED
      BY <1>2, <3>1, <3>2, <3>4, <3>6 DEF Unshared
  <2>4. Came(heap', lists, lists) /\ owned' = IF heap'.fault = "none" THEN DOMAIN lists ELSE owned
    BY <2>1, <2>2 DEF Came
  <2>5. /\ lists' = lists /\ lists' = [k \in owned' |-> lists'[k]] /\ Keeps(heap', lists')
        /\ Running' => Holds(heap', lists')
    BY <1>3, <2>2, <2>4, ResultLemma
  <2> QED
    BY <1>1, <2>3, <2>5 DEF IInv, Fine
<1>8. CASE /\ e.fault = "none" /\ r.fault = "none" /\ Holds(r, D)
           /\ \A v \in heap.strings \ r.strings :
                \E i \in 1 .. Len(lists[l]) : IsString(lists[l][i]) /\ lists[l][i][2] = v
  <2>1. heap' = r /\ owned' = owned \ {l}
    BY <1>1, <1>8
  <2>2. careful => Safe(r, D)
    <3>1. ASSUME careful PROVE Safe(heap, lists)
      BY <3>1 DEF IInv
    <3> QED
      BY <1>1, <1>2, <1>4, <1>8, <3>1, SafeWithout
  <2>3. D = [k \in DOMAIN lists \ {l} |-> lists[k]]
    BY DEF Without
  <2> HIDE DEF D
  <2>4. Came(heap', lists, D) /\ owned' = IF heap'.fault = "none" THEN DOMAIN D ELSE owned
    BY <1>6, <1>8, <2>1 DEF Came
  <2>5. /\ lists' = D /\ lists' = [k \in owned' |-> lists'[k]] /\ Keeps(heap', lists')
        /\ Running' => Holds(heap', lists')
    BY <1>6, <1>8, <2>1, <2>4, ResultLemma
  <2>6. IInv'
    BY <1>1, <2>1, <2>2, <2>5 DEF IInv
  <2>7. Abstract!Free(l)
    BY <2>3, <2>5 DEF Abstract!Free
  <2> QED
    BY <1>2, <2>6, <2>7 DEF Fine, Abstract!Next
<1> QED
  BY <1>5, <1>7, <1>8

(* A step after which the lists are where they were.                       *)
LEMMA IdleLemma ==
    ASSUME IInv, heap' \in HeapType, heap'.node = heap.node, heap'.header = heap.header,
           owned' = owned, heap' = heap \/ heap'.fault # "none", lists' = ListsOf',
           careful' \in BOOLEAN, careful' => Safe(heap', lists)
    PROVE  Fine
<1>1. lists = [k \in DOMAIN lists |-> lists[k]] /\ DOMAIN lists = owned /\ Keeps(heap, lists)
  BY DEF IInv
<1>2. Keeps(heap', lists)
  BY <1>1, KeepsSame
<1>3. Came(heap', lists, lists)
  BY <1>2 DEF Came, IInv, Running
<1>4. owned' = IF heap'.fault = "none" THEN DOMAIN lists ELSE owned
  BY <1>1
<1>5. /\ lists' = lists /\ lists' = [k \in owned' |-> lists'[k]] /\ Keeps(heap', lists')
      /\ Running' => Holds(heap', lists')
  BY <1>1, <1>3, <1>4, ResultLemma
<1> QED
  BY <1>5 DEF IInv, Fine

(* Without memory for the header of a literal nothing is left to do.       *)
LEMMA NoHeaderStep ==
    ASSUME IInv, NEW atoms, BCPL_DEEP_COPY_LITERAL_LIST(atoms), lists' = ListsOf',
           heap.literals = MaxLiterals
    PROVE  Fine
<1>1. /\ heap \in HeapType /\ owned' = owned /\ heap' = [heap EXCEPT !.fault = "null"]
      /\ careful \in BOOLEAN /\ careful => Safe(heap, lists)
  BY DEF IInv, Keeps, BCPL_DEEP_COPY_LITERAL_LIST
<1>2. /\ heap' \in HeapType /\ heap'.node = heap.node /\ heap'.header = heap.header
      /\ heap'.fault = "null" /\ heap'.literals = heap.literals
  BY <1>1, FaultLemma
<1>3. careful' \in BOOLEAN /\ (careful' => careful)
  BY <1>1 DEF BCPL_DEEP_COPY_LITERAL_LIST
<1>4. careful' => Safe(heap', lists)
  BY <1>1, <1>2, <1>3 DEF Safe
<1> QED
  BY <1>1, <1>2, <1>3, <1>4, IdleLemma

(* FREELIST CELLS on an empty free list does nothing, and is undefined     *)
(* otherwise.                                                              *)
LEMMA CellsStep ==
    ASSUME IInv, BCPL_FREE_CELLS, lists' = ListsOf'
    PROVE  Fine
<1>1. heap \in HeapType /\ owned' = owned /\ careful' = FALSE
  BY DEF IInv, Keeps, BCPL_FREE_CELLS
<1>2. heap' = heap \/ heap' = [heap EXCEPT !.fault = "undefined"]
  BY DEF BCPL_FREE_CELLS
<1>3. /\ heap' \in HeapType /\ heap'.node = heap.node /\ heap'.header = heap.header
      /\ heap' = heap \/ heap'.fault # "none"
  <2>1. CASE heap' = heap
    BY <1>1, <2>1
  <2>2. CASE heap' = [heap EXCEPT !.fault = "undefined"]
    BY <1>1, <2>2, FaultLemma
  <2> QED
    BY <1>2, <2>1, <2>2
<1> QED
  BY <1>1, <1>3, IdleLemma

(* Nothing happens once the program has ended.                             *)
LEMMA StoppedStep ==
    ASSUME IInv, Stopped, lists' = ListsOf'
    PROVE  Fine
<1>1. heap \in HeapType /\ heap' = heap /\ owned' = owned /\ careful' = careful
  BY DEF IInv, Keeps, Stopped
<1>2. careful \in BOOLEAN /\ (careful => Safe(heap, lists))
  BY DEF IInv
<1> QED
  BY <1>1, <1>2, IdleLemma

-----------------------------------------------------------------------------
(* The theorems. *)

(* Every step keeps the inductive invariant, and is a step of ListSpec or  *)
(* leaves the lists alone.                                                 *)
LEMMA StepLemma ==
    ASSUME IInv, [Next]_vars
    PROVE  Fine
<1>1. CASE Next
  <2>1. Call /\ lists' = ListsOf'
    BY <1>1 DEF Next
  <2>2. CASE Create
    BY <2>1, <2>2, CreateStep
  <2>3. CASE \E atoms \in Literals : BCPL_DEEP_COPY_LITERAL_LIST(atoms)
    BY <2>1, <2>3, LiteralStep, NoHeaderStep
  <2>4. ASSUME NEW l \in owned,
               \/ \E i \in Ints : BCPL_LIST_APPEND_INT(l, i)
               \/ \E s \in (heap.strings \cup {AllocChars(heap), StaticString}) \ {NULL} :
                    BCPL_LIST_APPEND_STRING(l, s)
               \/ BCPL_SHALLOW_COPY_LIST(l) \/ BCPL_REVERSE_LIST(l) \/ BCPL_DEEP_COPY_LIST(l)
               \/ \E k \in owned : BCPL_CONCAT_LISTS(l, k)
               \/ \E keep \in SUBSET ValuesIn(l) : BCPL_LIST_FILTER(l, keep)
               \/ bcpl_free_list(l) \/ TL(l)
        PROVE  Fine
    <3>1. CASE \E i \in Ints : BCPL_LIST_APPEND_INT(l, i)
      BY <2>1, <3>1, AppendIntStep
    <3>2. CASE \E s \in (heap.strings \cup {AllocChars(heap), StaticString}) \ {NULL} :
                 BCPL_LIST_APPEND_STRING(l, s)
      BY <2>1, <3>2, AppendStringStep
    <3>3. CASE BCPL_SHALLOW_COPY_LIST(l)
      BY <2>1, <3>3, CopyStep
    <3>4. CASE BCPL_REVERSE_LIST(l)
      BY <2>1, <3>4, ReverseStep
    <3>5. CASE BCPL_DEEP_COPY_LIST(l)
      BY <2>1, <3>5, DeepStep
    <3>6. CASE \E k \in owned : BCPL_CONCAT_LISTS(l, k)
      BY <2>1, <3>6, ConcatStep
    <3>7. CASE \E keep \in SUBSET ValuesIn(l) : BCPL_LIST_FILTER(l, keep)
      BY <2>1, <3>7, FilterStep
    <3>8. CASE bcpl_free_list(l)
      BY <2>1, <3>8, FreeStep
    <3>9. CASE TL(l)
      BY <2>1, <3>9, TLStep
    <3> QED
      BY <2>4, <3>1, <3>2, <3>3, <3>4, <3>5, <3>6, <3>7, <3>8, <3>9
  <2>5. CASE BCPL_FREE_CELLS
    BY <2>1, <2>5, CellsStep
  <2>6. CASE Stopped
    BY <2>1, <2>6, StoppedStep
  <2> QED
    BY <2>1, <2>2, <2>3, <2>4, <2>5, <2>6 DEF Call
<1>2. CASE UNCHANGED vars
  BY <1>2 DEF vars, IInv, Fine, Running
<1> QED
  BY <1>1, <1>2

(* The runtime starts with no list and, if malloc finds memory, one chunk  *)
(* in either pool.                                                         *)
LEMMA StartsFine ==
    ASSUME Init
    PROVE  IInv /\ Abstract!Init
<1>1. heap = InitialHeap /\ owned = {} /\ careful = TRUE /\ lists = << >>
  BY DEF Init
<1>2. DOMAIN lists = {} /\ lists = [l \in owned |-> lists[l]]
  BY <1>1
<1>3. Came(heap, lists, lists) /\ ~Undefined(heap)
  BY <1>1, InitialLemma
<1>4. Keeps(heap, lists)
  <2>1. CASE Holds(heap, lists)
    BY <2>1, StoresKeeps DEF Holds
  <2> QED
    BY <1>3, <2>1 DEF Came
<1>5. Running => Holds(heap, lists)
  BY <1>3 DEF Came, Running
<1>6. Safe(heap, lists)
  BY <1>2, <1>3 DEF Safe, Held, Unshared, Undefined
<1> QED
  BY <1>1, <1>2, <1>4, <1>5, <1>6 DEF IInv, Abstract!Init

(* The inductive invariant holds in every run of the program: the heap     *)
(* represents the lists of the program until the runtime gives up.         *)
THEOREM Invariance == Spec => []IInv
<1>1. Init => IInv
  BY StartsFine
<1>2. IInv /\ [Next]_vars => IInv'
  BY StepLemma DEF Fine
<1> QED
  BY <1>1, <1>2, PTL DEF Spec

(* The heap keeps the shape that ListDataTypes.h gives it, and a list      *)
(* never has a free header for its first node.                             *)
THEOREM TypeCorrect == Spec => []TypeOK
<1>1. ASSUME IInv PROVE TypeOK
  <2>1. /\ heap \in HeapType /\ DOMAIN lists = owned /\ careful \in BOOLEAN
        /\ Keeps(heap, lists)
    BY <1>1 DEF IInv, Keeps
  <2>2. /\ heap.node \in [Nodes -> NodeType] /\ heap.header \in [Headers -> HeaderType]
        /\ heap.free \in Nodes \cup {NULL} /\ heap.hfree \in Headers \cup {NULL}
        /\ heap.strings \in SUBSET Strings /\ heap.fault \in {"none", "exit", "null", "undefined"}
    BY <2>1 DEF HeapType
  <2>3. NodeType = [type : {"INT", "STRING"}, next : Nodes \cup {NULL},
                    value : Ints \cup Strings \cup {StaticString, NULL}]
    BY DEF NodeType, AtomTypes, Values
  <2>4. owned \in SUBSET Headers
    BY <2>1, KeepsLemma
  <2>5. ASSUME Running, NEW l \in owned PROVE heap.header[l].head \notin Headers
    <3>1. NodesOf(l) \in Seq(Nodes) /\ heap.header[l].head = First(NodesOf(l))
      BY <1>1, <2>5, SourceLemma
    <3> QED
      BY <3>1, AddressLemma DEF First
  <2> QED
    BY <2>1, <2>2, <2>3, <2>4, <2>5 DEF TypeOK, HeaderType
<1> QED
  BY <1>1, Invariance, PTL

(* The paths that the links lead along part the nodes from malloc.         *)
LEMMA PathsLemma ==
    ASSUME IInv, Running
    PROVE  \E P : /\ Stores(heap, owned, lists, P) /\ FreeNodes = P[NULL] /\ IsPath(P[NULL])
                  /\ DOMAIN P = owned \cup {NULL} /\ NULL \notin owned
                  /\ \A l \in owned : NodesOf(l) = P[l] /\ IsPath(P[l]) /\ Heads(heap, l, P[l])
<1>1. DOMAIN lists = owned
  BY DEF IInv
<1>2. PICK P : Stores(heap, owned, lists, P)
  BY <1>1 DEF IInv, Holds
<1>3. ASSUME NEW l \in owned
      PROVE  NodesOf(l) = P[l] /\ IsPath(P[l]) /\ Heads(heap, l, P[l])
  <2>1. ListAt(heap, l, P[l], lists[l]) /\ Heads(heap, l, P[l])
    BY <1>1, <1>2, StoresKeeps DEF Stores, Shape
  <2>2. P[l] \in Seq(Nodes) /\ IsPath(P[l]) /\ Linked(heap, P[l]) /\ heap.header[l].head = First(P[l])
    BY <2>1 DEF ListAt
  <2> QED
    BY <2>1, <2>2, ChainLemma DEF NodesOf
<1>4. /\ NULL \in DOMAIN P /\ P[NULL] \in Seq(Nodes) /\ Apart(P) /\ Linked(heap, P[NULL])
      /\ heap.free = First(P[NULL]) /\ DOMAIN P = owned \cup {NULL} /\ owned \subseteq Headers
  BY <1>1, <1>2 DEF Stores, Shape, Part
<1>5. IsPath(P[NULL])
  <2>1. DOMAIN P[NULL] = 1 .. Len(P[NULL])
    BY <1>4
  <2> QED
    BY <1>4, <2>1 DEF IsPath, Apart
<1>6. FreeNodes = P[NULL]
  BY <1>4, <1>5, ChainLemma DEF FreeNodes
<1> QED
  BY <1>2, <1>3, <1>4, <1>5, <1>6, AddressLemma

(* No node of a chunk is lost and none is in two places, whatever calls    *)
(* came before: the pool and the lists part the nodes from malloc, and     *)
(* g_freelist_node_count counts those of the pool.                         *)
THEOREM Accounted == Spec => []NodesAccounted
<1>1. ASSUME IInv PROVE NodesAccounted
  <2> SUFFICES ASSUME Running
               PROVE  /\ IsPath(FreeNodes) /\ Len(FreeNodes) = heap.count
                      /\ \A l \in owned : IsPath(NodesOf(l)) /\ Range(NodesOf(l)) \cap Range(FreeNodes) = {}
                      /\ \A l, k \in owned : l # k => Range(NodesOf(l)) \cap Range(NodesOf(k)) = {}
                      /\ FromMalloc = Range(FreeNodes) \cup UNION {Range(NodesOf(l)) : l \in owned}
    BY DEF NodesAccounted
  <2>1. PICK P : /\ Stores(heap, owned, lists, P) /\ FreeNodes = P[NULL] /\ IsPath(P[NULL])
                 /\ DOMAIN P = owned \cup {NULL} /\ NULL \notin owned
                 /\ \A l \in owned : NodesOf(l) = P[l] /\ IsPath(P[l]) /\ Heads(heap, l, P[l])
    BY <1>1, PathsLemma
  <2>2. /\ \A d \in DOMAIN P : P[d] \in Seq(Nodes)
        /\ Apart(P) /\ heap.count = Len(P[NULL])
        /\ \A n : n \in Malloced(heap) <=> \E d \in DOMAIN P : \E i \in 1 .. Len(P[d]) : P[d][i] = n
    BY <2>1 DEF Stores, Shape, Part
  <2>3. \A d \in DOMAIN P : \A n : n \in Range(P[d]) <=> \E i \in 1 .. Len(P[d]) : P[d][i] = n
    BY <2>2 DEF Range
  <2>4. \A d, e \in DOMAIN P : d # e => Range(P[d]) \cap Range(P[e]) = {}
    BY <2>2, <2>3 DEF Apart
  <2>5. FromMalloc = Malloced(heap)
    BY DEF FromMalloc, Malloced
  <2>6. ASSUME NEW n
        PROVE  n \in FromMalloc <=> n \in Range(P[NULL]) \/ \E l \in owned : n \in Range(P[l])
    <3>1. n \in FromMalloc <=> \E d \in DOMAIN P : \E i \in 1 .. Len(P[d]) : P[d][i] = n
      BY ONLY <2>2, <2>5
    <3>2. n \in FromMalloc <=> \E d \in DOMAIN P : n \in Range(P[d])
      BY ONLY <2>3, <3>1
    <3>3. DOMAIN P = owned \cup {NULL}
      BY <2>1
    <3> QED
      BY ONLY <3>2, <3>3
  <2>7. FromMalloc = Range(P[NULL]) \cup UNION {Range(P[l]) : l \in owned}
    BY <2>6
  <2>8. UNION {Range(NodesOf(l)) : l \in owned} = UNION {Range(P[l]) : l \in owned}
    BY <2>1
  <2> QED
    BY <2>1, <2>2, <2>4, <2>7, <2>8
<1> QED
  BY <1>1, Invariance, PTL

(* An append writes through a tail pointer that is the last node of the    *)
(* list.                                                                   *)
THEOREM TailExact == Spec => []TailIsLast
<1>1. ASSUME IInv PROVE TailIsLast
  <2> SUFFICES ASSUME Running, NEW l \in owned, NodesOf(l) # << >>
               PROVE  heap.header[l].tail = Last(NodesOf(l))
    BY DEF TailIsLast
  <2>1. Heads(heap, l, NodesOf(l))
    BY <1>1, PathsLemma
  <2>2. heap.header[l].tail = NodesOf(l)[Len(NodesOf(l))]
    BY <2>1 DEF Heads
  <2> QED
    BY <2>2 DEF Last
<1> QED
  BY <1>1, Invariance, PTL

(* A program that never lets two atoms share a string, and puts no string  *)
(* of the data segment into a list, never frees or reads one twice; if a   *)
(* header is null, malloc had no memory for it.                            *)
THEOREM CarefulSafe == Spec => []CarefulDefined
<1>1. ASSUME IInv PROVE CarefulDefined
  <2> SUFFICES ASSUME careful
               PROVE  /\ heap.fault # "undefined"
                      /\ heap.fault = "null" => heap.literals = MaxLiterals
                      /\ Running => \A l \in owned : StringsIn(l) \ {NULL} \subseteq heap.strings
                      /\ \A l, k \in DOMAIN lists : \A i \in DOMAIN lists[l], j \in DOMAIN lists[k] :
                           lists[l][i] = lists[k][j] /\ lists[l][i][1] = "STRING" /\ lists[l][i][2] # NULL
                             => l = k /\ i = j
    BY DEF CarefulDefined
  <2>1. Safe(heap, lists) /\ Keeps(heap, lists)
    BY <1>1 DEF IInv
  <2>2. \A l \in DOMAIN lists : DOMAIN lists[l] = 1 .. Len(lists[l])
    <3> SUFFICES ASSUME NEW l \in DOMAIN lists PROVE DOMAIN lists[l] = 1 .. Len(lists[l])
      OBVIOUS
    <3>1. PICK s : s \in Seq(Nodes) /\ lists[l] = Contents(heap, s)
      BY <2>1 DEF Keeps, ListAt
    <3>2. lists[l] \in Seq(AtomTypes \X Values)
      BY <2>1, <3>1, AtomsLemma DEF Keeps
    <3> QED
      BY <3>2
  <2>3. ASSUME Running, NEW l \in owned PROVE StringsIn(l) \ {NULL} \subseteq heap.strings
    <3> DEFINE s == NodesOf(l)
    <3>1. /\ s \in Seq(Nodes) /\ l \in DOMAIN lists /\ lists[l] = Contents(heap, s)
          /\ Len(lists[l]) = Len(s) /\ heap \in HeapType
      BY <1>1, <2>3, SourceLemma
    <3>2. Held(lists, heap.strings)
      BY <2>1, <2>3 DEF Safe, Running
    <3> SUFFICES ASSUME NEW n \in Range(s), heap.node[n].type = "STRING", heap.node[n].value # NULL
                 PROVE  heap.node[n].value \in heap.strings
      BY DEF StringsIn
    <3>3. PICK i \in 1 .. Len(s) : s[i] = n
      BY <3>1 DEF Range
    <3>4. lists[l][i] = <<heap.node[n].type, heap.node[n].value>>
      BY <3>1, <3>3, AtomLemma
    <3>5. IsString(lists[l][i]) /\ lists[l][i][2] = heap.node[n].value /\ i \in 1 .. Len(lists[l])
      BY <3>1, <3>4 DEF IsString
    <3> QED
      BY <3>1, <3>2, <3>5 DEF Held
  <2>4. ASSUME NEW l \in DOMAIN lists, NEW k \in DOMAIN lists,
               NEW i \in DOMAIN lists[l], NEW j \in DOMAIN lists[k],
               lists[l][i] = lists[k][j], lists[l][i][1] = "STRING", lists[l][i][2] # NULL
        PROVE  l = k /\ i = j
    <3>1. i \in 1 .. Len(lists[l]) /\ j \in 1 .. Len(lists[k]) /\ IsString(lists[l][i])
      BY <2>2, <2>4 DEF IsString
    <3> QED
      BY <2>1, <2>4, <3>1 DEF Safe, Unshared
  <2> QED
    BY <2>1, <2>3, <2>4 DEF Safe
<1> QED
  BY <1>1, Invariance, PTL

(* The runtime implements ListSpec: each call does to the lists of the     *)
(* program what its name says and nothing to any other list, through every *)
(* sharing of cells between the pools.                                     *)
THEOREM Refinement == Spec => ImplementsListSpec
<1>1. Init => Abstract!Init
  BY StartsFine
<1>2. IInv /\ [Next]_vars => [Abstract!Next]_lists
  BY StepLemma DEF Fine
<1> QED
  BY <1>1, <1>2, Invariance, PTL DEF Spec, ImplementsListSpec, Abstract!Spec
=============================================================================
