--------------------------- MODULE HeapManagerProof ---------------------------
(***************************************************************************)
(* The invariants of HeapManager, for a ring of any size, any addresses,   *)
(* any lengths and any number of allocations and resizes.                  *)
(***************************************************************************)
EXTENDS HeapManager, Counting

-----------------------------------------------------------------------------
(* The inductive invariant. *)

Allocating == op.k \in {"length", "enter", "entering", "account"}
Freeing == op.k \in {"freed", "clear", "cleared"}
Resizing == op.k \in {"moved", "resized"}

(* The allocations that have an entry in the ring or have had one; how     *)
(* many entries ago slot i was assigned, counting from one; and the number *)
(* of the allocation that assigned it.                                     *)
Entered == totals.allocs + (IF op.k = "account" THEN 1 ELSE 0)
Age(i) == IF i < heapIndex THEN heapIndex - i ELSE heapIndex + RingSize - i
EntrySerial(i) == Entered - Age(i)

(* The slots that the operation in progress is not about to assign.        *)
Settled == IF op.k = "entering" \/ Freeing \/ Resizing THEN Slots \ {op.slot} ELSE Slots

Types == Kinds \cup {"UNKNOWN", "FREE"}
Pointers == Addresses \cup {Null}
BlockRecords == [type : Kinds, room : Nat, length : Nat \cup {-1}, serial : Nat]

HTyped ==
    /\ ring \in [Slots -> [type : Types, at : Pointers, size : Nat]]
    /\ heapIndex \in Slots
    /\ blocks \in [Live -> BlockRecords] /\ Live \subseteq Addresses /\ IsFiniteSet(Live)
    /\ issued \subseteq Addresses
    /\ op \in [k : {"idle", "length", "enter", "entering", "account", "freed", "clear",
                    "cleared", "moved", "resized"},
               type : Types, at : Pointers, slot : Slots, n : Nat]
    /\ totals \in [allocs : Nat, frees : Nat, in : Nat, out : Nat, VEC : Nat, STRING : Nat]
    /\ resized \in Nat

(* Every allocation has a number of its own.                               *)
Serials ==
    /\ \A a \in Live : /\ blocks[a].serial <= totals.allocs
                       /\ blocks[a].serial = totals.allocs => Allocating /\ a = op.at
    /\ \A a, b \in Live : blocks[a].serial = blocks[b].serial => a = b

(* A settled entry is empty, or describes a live block whose length has    *)
(* been written: the one allocated when the entry was last assigned.       *)
EntryRight(i) ==
    IF ring[i].at = Null THEN ring[i].type \notin Kinds
    ELSE /\ ring[i].at \in Live
         /\ ring[i].type = blocks[ring[i].at].type
         /\ ring[i].size = TotalSize(ring[i].type, blocks[ring[i].at].room)
         /\ blocks[ring[i].at].length = blocks[ring[i].at].room
         /\ blocks[ring[i].at].serial = EntrySerial(i)

RingInv ==
    \A i \in Settled : /\ EntryRight(i)
                       /\ \A a \in Live : blocks[a].serial = EntrySerial(i) => ring[i].at = a

(* The block an allocation is about to enter.                              *)
AllocInv ==
    Allocating =>
      /\ op.at \in Live /\ op.type \in Kinds
      /\ blocks[op.at].type = op.type /\ blocks[op.at].room = op.n
      /\ blocks[op.at].serial = totals.allocs
      /\ op.k # "length" => blocks[op.at].length = op.n
      /\ op.k # "account" => op.slot = heapIndex
      /\ op.k = "entering" /\ ring[op.slot].at # Null =>
           /\ ring[op.slot].at \in Live
           /\ blocks[ring[op.slot].at].length = blocks[ring[op.slot].at].room

(* The block that is gone has no entry but the one that is being cleared.  *)
FreeInv ==
    Freeing =>
      /\ \A a \in Live : blocks[a].serial # EntrySerial(op.slot)
      /\ op.k = "cleared" => ring[op.slot].type \notin Kinds

(* The block that has been resized keeps its number and its entry.         *)
ResizeInv ==
    Resizing =>
      /\ resized > 0
      /\ op.at \in Live /\ op.type \in Kinds
      /\ blocks[op.at].type = op.type /\ blocks[op.at].room = op.n
      /\ blocks[op.at].length \in Nat
      /\ blocks[op.at].serial = EntrySerial(op.slot)
      /\ ring[op.slot].type = op.type
      /\ op.k = "resized" => /\ ring[op.slot].at = op.at
                             /\ ring[op.slot].size = TotalSize(op.type, op.n)

(* The counters, while an allocation or a free is under way too.           *)
Pending == IF Allocating THEN 1 ELSE 0
Unsettled == IF op.k = "freed" THEN 1 ELSE 0

CountInv == Cardinality(Live) = totals.allocs - totals.frees + Pending - Unsettled

BytesOf(b) == MapThenSumSet(LAMBDA a : TotalSize(b[a].type, b[a].room), DOMAIN b)

BytesInv ==
    resized = 0 =>
      BytesOf(blocks) = totals.in - totals.out
                    + (IF Allocating THEN TotalSize(op.type, op.n) ELSE 0)
                    - (IF op.k = "freed" THEN ring[op.slot].size ELSE 0)

HInv == /\ HTyped /\ Serials /\ RingInv /\ AllocInv /\ FreeInv /\ ResizeInv
        /\ CountInv /\ BytesInv

-----------------------------------------------------------------------------
(* The bytes of the live blocks. *)

SizeIn(b, a) == TotalSize(b[a].type, b[a].room)

(* A block has a size.                                                     *)
LEMMA TotalSizeType ==
    ASSUME NEW t, NEW n \in Nat
    PROVE  TotalSize(t, n) \in Nat
  BY DEF TotalSize

(* The sum that the fold computes is a sum of the blocks' sizes.           *)
LEMMA BytesLemma ==
    ASSUME NEW b, IsFiniteSet(DOMAIN b)
    PROVE  \E g : /\ IsSum(g, [a \in DOMAIN b |-> SizeIn(b, a)], DOMAIN b)
                  /\ BytesOf(b) = g[DOMAIN b]
<1> DEFINE S == DOMAIN b
           w == [a \in S |-> SizeIn(b, a)]
           F(g) == [s \in SUBSET S |->
                      IF s = {} THEN 0
                      ELSE TotalSize(b[Pick(s)].type, b[Pick(s)].room) + g[s \ {Pick(s)}]]
           it == CHOOSE g : g = F(g)
<1>1. \A g : IsSum(g, w, S) <=> g = F(g)
  <2> SUFFICES ASSUME NEW g PROVE IsSum(g, w, S) <=> g = F(g)
    OBVIOUS
  <2>1. \A s \in SUBSET S : s # {} =>
          w[Pick(s)] = TotalSize(b[Pick(s)].type, b[Pick(s)].room)
    BY DEF SizeIn, Pick
  <2> HIDE DEF w
  <2>2. [s \in SUBSET S |-> IF s = {} THEN 0 ELSE w[Pick(s)] + g[s \ {Pick(s)}]] = F(g)
    BY <2>1
  <2> QED
    BY <2>2 DEF IsSum
<1>2. \E g : g = F(g)
  BY <1>1, SumExists
<1>3. it = F(it)
  BY <1>2
<1>4. BytesOf(b) = it[S]
  BY DEF BytesOf, MapThenSumSet, MapThenFoldSet, Pick
<1> HIDE DEF it
<1> QED
  BY <1>1, <1>3, <1>4

(* Blocks of the same sizes have the same bytes.                           *)
LEMMA SameBytes ==
    ASSUME NEW b, IsFiniteSet(DOMAIN b), NEW c, DOMAIN c = DOMAIN b,
           \A a \in DOMAIN b : SizeIn(c, a) = SizeIn(b, a)
    PROVE  BytesOf(c) = BytesOf(b)
<1> DEFINE S == DOMAIN b
           w == [a \in S |-> SizeIn(b, a)]
           v == [a \in S |-> SizeIn(c, a)]
<1>1. PICK g : IsSum(g, w, S) /\ BytesOf(b) = g[S]
  BY BytesLemma
<1>2. PICK h : IsSum(h, v, S) /\ BytesOf(c) = h[S]
  BY BytesLemma
<1>3. \A a \in S : v[a] = w[a]
  OBVIOUS
<1> HIDE DEF v, w
<1>4. h[S] = g[S]
  BY <1>1, <1>2, <1>3, SumAgree
<1> QED
  BY <1>1, <1>2, <1>4

(* A block more is its size more.                                          *)
LEMMA AddBytes ==
    ASSUME NEW b, IsFiniteSet(DOMAIN b), \A a \in DOMAIN b : SizeIn(b, a) \in Nat,
           NEW x, x \notin DOMAIN b, NEW c, DOMAIN c = DOMAIN b \cup {x},
           \A a \in DOMAIN b : SizeIn(c, a) = SizeIn(b, a), SizeIn(c, x) \in Nat
    PROVE  /\ BytesOf(c) = BytesOf(b) + SizeIn(c, x)
           /\ BytesOf(b) \in Nat
<1> DEFINE S == DOMAIN b
           T == DOMAIN c
           w == [a \in S |-> SizeIn(b, a)]
           v == [a \in T |-> SizeIn(c, a)]
<1>1. IsFiniteSet(T)
  BY FS_AddElement
<1>2. PICK g : IsSum(g, w, S) /\ BytesOf(b) = g[S]
  BY BytesLemma
<1>3. PICK h : IsSum(h, v, T) /\ BytesOf(c) = h[T]
  BY <1>1, BytesLemma
<1>4. /\ \A a \in S : v[a] = w[a] /\ w[a] \in Nat
      /\ \A a \in T : v[a] \in Nat
      /\ v[x] = SizeIn(c, x)
  OBVIOUS
<1>5. x \in T /\ S \in SUBSET T /\ T \ {x} = S
  OBVIOUS
<1> HIDE DEF v, w, T, S
<1>6. h[T] = v[x] + h[T \ {x}]
  BY <1>1, <1>3, <1>4, <1>5, SumRemove
<1>7. h[S] = g[S]
  <2>1. IsFiniteSet(S)
    BY DEF S
  <2> QED
    BY <1>1, <1>2, <1>3, <1>4, <1>5, <2>1, SumAgree
<1>8. g[S] \in Nat
  <2>1. IsFiniteSet(S)
    BY DEF S
  <2> QED
    BY <1>2, <1>4, <2>1, SumType
<1>9. BytesOf(c) = SizeIn(c, x) + BytesOf(b)
  BY <1>2, <1>3, <1>4, <1>5, <1>6, <1>7
<1>10. BytesOf(b) \in Nat
  BY <1>2, <1>8
<1> QED
  BY <1>9, <1>10

-----------------------------------------------------------------------------
(* The ring. *)

(* The ages of the slots are the numbers up to RingSize, each once.        *)
LEMMA AgeLemma ==
    ASSUME heapIndex \in Slots
    PROVE  /\ \A i \in Slots : Age(i) \in 1 .. RingSize
           /\ \A i, j \in Slots : Age(i) = Age(j) => i = j
           /\ \A d \in 1 .. RingSize : \E i \in Slots : Age(i) = d
           /\ Age(heapIndex) = RingSize
<1>1. RingSize \in Nat /\ RingSize > 0 /\ heapIndex \in 0 .. (RingSize - 1)
  BY HeapAssumption DEF Slots
<1>2. ASSUME NEW d \in 1 .. RingSize PROVE \E i \in Slots : Age(i) = d
  <2>1. CASE d <= heapIndex
    <3>1. heapIndex - d \in Slots /\ Age(heapIndex - d) = d
      BY <1>1, <2>1 DEF Slots, Age
    <3> QED
      BY <3>1
  <2>2. CASE d > heapIndex
    <3>1. heapIndex + RingSize - d \in Slots /\ Age(heapIndex + RingSize - d) = d
      BY <1>1, <2>2 DEF Slots, Age
    <3> QED
      BY <3>1
  <2> QED
    BY <1>1, <2>1, <2>2
<1>3. \A i \in Slots : Age(i) \in 1 .. RingSize
  BY <1>1 DEF Slots, Age
<1>4. \A i, j \in Slots : Age(i) = Age(j) => i = j
  BY <1>1 DEF Slots, Age
<1>5. Age(heapIndex) = RingSize
  BY <1>1 DEF Age
<1> QED
  BY <1>2, <1>3, <1>4, <1>5

(* A number below the modulus is its own remainder.                        *)
LEMMA ModSmall ==
    ASSUME NEW R \in Nat \ {0}, NEW x \in 0 .. (R - 1)
    PROVE  x % R = x
  OBVIOUS

(* When the index moves on, every other entry is one older and the entry   *)
(* just assigned has age one.                                              *)
LEMMA AdvanceLemma ==
    ASSUME heapIndex \in Slots, heapIndex' = (heapIndex + 1) % RingSize
    PROVE  /\ heapIndex' \in Slots
           /\ \A i \in Slots : i # heapIndex => Age(i)' = Age(i) + 1
           /\ \A i \in Slots : i = heapIndex => Age(i)' = 1
<1>1. RingSize \in Nat /\ RingSize > 0 /\ heapIndex \in 0 .. (RingSize - 1)
  BY HeapAssumption DEF Slots
<1>2. heapIndex' = IF heapIndex + 1 = RingSize THEN 0 ELSE heapIndex + 1
  <2>1. CASE heapIndex + 1 = RingSize
    BY <1>1, <2>1
  <2>2. CASE heapIndex + 1 # RingSize
    <3>1. heapIndex + 1 \in 0 .. (RingSize - 1)
      BY <1>1, <2>2
    <3> QED
      BY <1>1, <2>2, <3>1, ModSmall
  <2> QED
    BY <2>1, <2>2
<1>3. heapIndex' \in Slots
  BY <1>1, <1>2 DEF Slots
<1>4. \A i \in Slots : Age(i)' = IF i < heapIndex' THEN heapIndex' - i
                                 ELSE heapIndex' + RingSize - i
  BY DEF Age
<1>5. \A i \in Slots : /\ i # heapIndex => Age(i)' = Age(i) + 1
                       /\ i = heapIndex => Age(i)' = 1
  BY <1>1, <1>2, <1>4 DEF Age, Slots
<1> QED
  BY <1>3, <1>5

-----------------------------------------------------------------------------
(* Steps. *)

(* At the start the ring and the heap are empty.                           *)
LEMMA InitHInv == Init => HInv
<1> SUFFICES ASSUME Init PROVE HInv
  OBVIOUS
<1> USE DEF Init
<1>1. Live = {}
  BY DEF Live
<1>2. 0 \in Slots
  BY HeapAssumption DEF Slots
<1>3. HTyped
  <2>1. /\ blocks \in [Live -> BlockRecords] /\ Live \subseteq Addresses /\ IsFiniteSet(Live)
    BY <1>1, FS_EmptySet
  <2>2. ring \in [Slots -> [type : Types, at : Pointers, size : Nat]]
    BY DEF Empty, Types, Pointers
  <2> QED
    BY <1>2, <2>1, <2>2 DEF HTyped, Idle, Types, Pointers
<1>4. op.k = "idle"
  BY DEF Idle
<1>5. Serials /\ AllocInv /\ FreeInv /\ ResizeInv
  BY <1>1, <1>4 DEF Serials, AllocInv, FreeInv, ResizeInv, Allocating, Freeing, Resizing
<1>6. RingInv
  BY <1>1, <1>4 DEF RingInv, Settled, EntryRight, Empty, Freeing, Resizing, Kinds
<1>7. CountInv
  BY <1>1, <1>4, FS_EmptySet DEF CountInv, Pending, Unsettled, Allocating
<1>8. BytesInv
  <2>1. DOMAIN blocks = {} /\ IsFiniteSet(DOMAIN blocks)
    BY <1>1, FS_EmptySet DEF Live
  <2>2. PICK g : /\ IsSum(g, [a \in DOMAIN blocks |-> SizeIn(blocks, a)], DOMAIN blocks)
                 /\ BytesOf(blocks) = g[DOMAIN blocks]
    BY <2>1, BytesLemma
  <2>3. BytesOf(blocks) = 0
    BY <2>1, <2>2 DEF IsSum
  <2> QED
    BY <1>4, <2>3 DEF BytesInv, Allocating
<1> QED
  BY <1>3, <1>5, <1>6, <1>7, <1>8 DEF HInv

(* A step that only replies or changes the phase.                          *)
LEMMA SameHInv ==
    ASSUME HInv, UNCHANGED <<ring, heapIndex, blocks, issued, op, totals, resized>>
    PROVE  HInv'
<1> USE DEF HInv
<1>1. /\ Live' = Live /\ Allocating' = Allocating /\ Freeing' = Freeing
      /\ Resizing' = Resizing /\ Settled' = Settled
  BY DEF Live, Allocating, Freeing, Resizing, Settled
<1>2. \A i \in Slots : EntrySerial(i)' = EntrySerial(i)
  BY DEF EntrySerial, Entered, Age
<1>3. HTyped'
  BY <1>1 DEF HTyped
<1>4. Serials'
  BY <1>1 DEF Serials
<1>5. \A i \in Slots : EntryRight(i)' = EntryRight(i)
  BY <1>1, <1>2 DEF EntryRight
<1>6. RingInv'
  BY <1>1, <1>2, <1>5 DEF RingInv, Settled
<1>7. AllocInv'
  BY <1>1 DEF AllocInv
<1>8. op.slot \in Slots
  BY DEF HTyped
<1>9. FreeInv' /\ ResizeInv'
  BY <1>1, <1>2, <1>8 DEF FreeInv, ResizeInv
<1>10. CountInv' /\ BytesInv'
  BY <1>1 DEF CountInv, BytesInv, Pending, Unsettled, Allocating
<1> QED
  BY <1>3, <1>4, <1>6, <1>7, <1>9, <1>10

(* The types of the fields, one by one.                                    *)
LEMMA HFacts ==
    ASSUME HTyped
    PROVE  /\ RingSize \in Nat /\ RingSize > 0 /\ heapIndex \in Slots
           /\ totals.allocs \in Nat /\ totals.frees \in Nat
           /\ totals.in \in Nat /\ totals.out \in Nat
           /\ op.type \in Types /\ op.at \in Pointers /\ op.slot \in Slots /\ op.n \in Nat
           /\ \A a \in Live : /\ blocks[a].type \in Kinds /\ blocks[a].room \in Nat
                              /\ blocks[a].length \in Nat \cup {-1} /\ blocks[a].serial \in Nat
                              /\ SizeIn(blocks, a) \in Nat
           /\ \A i \in Slots : /\ ring[i].type \in Types /\ ring[i].at \in Pointers
                               /\ ring[i].size \in Nat
           /\ Entered \in Nat
           /\ \A i \in Slots : EntrySerial(i) \in Int /\ EntrySerial(i) < Entered
           /\ Live \subseteq Addresses /\ Null \notin Addresses
           /\ IsFiniteSet(DOMAIN blocks) /\ Cardinality(Live) \in Nat
<1>1. RingSize \in Nat /\ RingSize > 0 /\ Null \notin Addresses
  BY HeapAssumption
<1>2. /\ totals.allocs \in Nat /\ totals.frees \in Nat
      /\ totals.in \in Nat /\ totals.out \in Nat
  BY DEF HTyped
<1>3. op.type \in Types /\ op.at \in Pointers /\ op.slot \in Slots /\ op.n \in Nat
  BY DEF HTyped
<1>4. \A a \in Live : /\ blocks[a].type \in Kinds /\ blocks[a].room \in Nat
                      /\ blocks[a].length \in Nat \cup {-1} /\ blocks[a].serial \in Nat
  <2>1. \A a \in Live : blocks[a] \in BlockRecords
    BY DEF HTyped
  <2> QED
    BY <2>1 DEF BlockRecords
<1>5. \A a \in Live : SizeIn(blocks, a) \in Nat
  BY <1>4, TotalSizeType DEF SizeIn
<1>6. \A i \in Slots : /\ ring[i].type \in Types /\ ring[i].at \in Pointers
                       /\ ring[i].size \in Nat
  <2>1. \A i \in Slots : ring[i] \in [type : Types, at : Pointers, size : Nat]
    BY DEF HTyped
  <2> QED
    BY <2>1
<1>7. Entered \in Nat
  BY <1>2 DEF Entered
<1>8. heapIndex \in Slots /\ Live \subseteq Addresses
  BY DEF HTyped
<1>9. \A i \in Slots : EntrySerial(i) \in Int /\ EntrySerial(i) < Entered
  <2>1. \A i \in Slots : Age(i) \in 1 .. RingSize
    BY <1>8, AgeLemma
  <2> QED
    BY <1>1, <1>7, <2>1 DEF EntrySerial
<1>10. IsFiniteSet(DOMAIN blocks) /\ Cardinality(Live) \in Nat
  BY FS_CardinalityType DEF HTyped, Live
<1> QED
  BY <1>1, <1>2, <1>3, <1>4, <1>5, <1>6, <1>7, <1>8, <1>9, <1>10

(* Between operations every slot is settled.                               *)
LEMMA IdleFacts ==
    ASSUME HInv, op.k = "idle"
    PROVE  /\ ~Allocating /\ ~Freeing /\ ~Resizing /\ Settled = Slots
           /\ Entered = totals.allocs
           /\ \A a \in Live : blocks[a].serial < totals.allocs
           /\ CountInv /\ Pending = 0 /\ Unsettled = 0
<1>1. ~Allocating /\ ~Freeing /\ ~Resizing
  BY DEF Allocating, Freeing, Resizing
<1>2. Settled = Slots
  BY <1>1 DEF Settled
<1>3. totals.allocs \in Nat /\ \A a \in Live : blocks[a].serial \in Nat
  BY HFacts DEF HInv
<1>4. Entered = totals.allocs
  BY <1>3 DEF Entered
<1>5. \A a \in Live : blocks[a].serial < totals.allocs
  BY <1>1, <1>3 DEF HInv, Serials
<1> QED
  BY <1>1, <1>2, <1>4, <1>5 DEF HInv, Pending, Unsettled

(* malloc gives out a block.                                               *)
LEMMA AllocLemma ==
    ASSUME HInv, NEW t \in Kinds, NEW n \in Lengths, alloc(t, n)
    PROVE  HInv'
<1>1. PICK a \in Addresses \ Live :
        /\ blocks' = [b \in Live \cup {a} |->
                        IF b = a THEN Block(t, n, totals.allocs) ELSE blocks[b]]
        /\ op' = [k |-> "length", type |-> t, at |-> a, slot |-> heapIndex % RingSize, n |-> n]
  BY DEF alloc
<1>2. op.k = "idle" /\ UNCHANGED <<ring, heapIndex, issued, totals, resized>>
  BY DEF alloc, At
<1>3. /\ ~Allocating /\ ~Freeing /\ ~Resizing /\ Settled = Slots
      /\ Entered = totals.allocs
      /\ \A b \in Live : blocks[b].serial < totals.allocs
      /\ Cardinality(Live) = totals.allocs - totals.frees
  BY <1>2, IdleFacts, HFacts DEF CountInv, HInv
<1>4. n \in Nat
  BY HeapAssumption
<1>5. heapIndex % RingSize = heapIndex
  BY HeapAssumption, ModSmall DEF HInv, HTyped, Slots
<1>6. /\ Live' = Live \cup {a} /\ a \notin Live
      /\ \A b \in Live : blocks'[b] = blocks[b]
      /\ blocks'[a] = Block(t, n, totals.allocs)
  BY <1>1 DEF Live
<1>7. /\ blocks'[a].type = t /\ blocks'[a].room = n /\ blocks'[a].serial = totals.allocs
      /\ blocks'[a] \in BlockRecords
  <2>1. totals.allocs \in Nat
    BY HFacts DEF HInv
  <2> QED
    BY <1>4, <1>6, <2>1 DEF Block, BlockRecords
<1>8. /\ op'.k = "length" /\ op'.type = t /\ op'.at = a /\ op'.slot = heapIndex /\ op'.n = n
      /\ Allocating' /\ ~Freeing' /\ ~Resizing' /\ Settled' = Slots
  BY <1>1, <1>5 DEF Allocating, Freeing, Resizing, Settled
<1>9. Entered' = Entered /\ \A i \in Slots : EntrySerial(i)' = EntrySerial(i)
  BY <1>2, <1>8 DEF Entered, EntrySerial, Age
<1>10. HTyped'
  <2>1. blocks' \in [Live' -> BlockRecords]
    <3>1. DOMAIN blocks' = Live' /\ blocks' = [b \in Live' |-> blocks'[b]]
      BY <1>1, <1>6
    <3>2. \A b \in Live' : blocks'[b] \in BlockRecords
      BY <1>6, <1>7 DEF HInv, HTyped
    <3> QED
      BY <3>1, <3>2
  <2>2. IsFiniteSet(Live') /\ Live' \subseteq Addresses
    BY <1>6, FS_AddElement DEF HInv, HTyped
  <2>3. op' \in [k : {"idle", "length", "enter", "entering", "account", "freed", "clear",
                      "cleared", "moved", "resized"},
                 type : Types, at : Pointers, slot : Slots, n : Nat]
    BY <1>1, <1>4, <1>5 DEF HInv, HTyped, Types, Pointers
  <2> QED
    BY <1>2, <2>1, <2>2, <2>3 DEF HInv, HTyped
<1>11. Serials'
  <2>1. \A b \in Live : blocks[b].serial \in Nat
    BY HFacts DEF HInv
  <2>2. \A b, c \in Live : blocks[b].serial = blocks[c].serial => b = c
    BY DEF HInv, Serials
  <2>3. totals.allocs \in Nat
    BY HFacts DEF HInv
  <2> QED
    BY <1>2, <1>3, <1>6, <1>7, <1>8, <2>1, <2>2, <2>3 DEF Serials
<1>12. RingInv'
  <2> SUFFICES ASSUME NEW i \in Slots
               PROVE  /\ EntryRight(i)'
                      /\ \A b \in Live' : blocks'[b].serial = EntrySerial(i)' => ring'[i].at = b
    BY <1>8 DEF RingInv
  <2>1. /\ EntryRight(i)
        /\ \A b \in Live : blocks[b].serial = EntrySerial(i) => ring[i].at = b
    BY <1>3 DEF HInv, RingInv
  <2>2. EntryRight(i)'
    BY <1>2, <1>6, <1>9, <2>1 DEF EntryRight
  <2>3. EntrySerial(i) # totals.allocs
    BY <1>3, HFacts DEF HInv
  <2> QED
    BY <1>2, <1>6, <1>7, <1>9, <2>1, <2>2, <2>3
<1>13. AllocInv'
  BY <1>2, <1>6, <1>7, <1>8 DEF AllocInv
<1>14. FreeInv' /\ ResizeInv'
  BY <1>8 DEF FreeInv, ResizeInv
<1>15. CountInv'
  <2>1. Cardinality(Live') = Cardinality(Live) + 1
    BY <1>6, FS_AddElement DEF HInv, HTyped
  <2>2. totals.allocs \in Nat /\ totals.frees \in Nat
    BY HFacts DEF HInv
  <2> QED
    BY <1>2, <1>3, <1>8, <2>1, <2>2 DEF CountInv, Pending, Unsettled
<1>16. BytesInv'
  <2>1. SizeIn(blocks', a) = TotalSize(t, n) /\ TotalSize(t, n) \in Nat
    BY <1>4, <1>7, TotalSizeType DEF SizeIn
  <2>2. \A b \in Live : SizeIn(blocks', b) = SizeIn(blocks, b) /\ SizeIn(blocks, b) \in Nat
    BY <1>6, HFacts DEF HInv, SizeIn
  <2>3. IsFiniteSet(DOMAIN blocks)
    BY HFacts DEF HInv
  <2>4. BytesOf(blocks') = BytesOf(blocks) + TotalSize(t, n) /\ BytesOf(blocks) \in Nat
    <3>1. /\ a \notin DOMAIN blocks /\ DOMAIN blocks' = DOMAIN blocks \cup {a}
          /\ SizeIn(blocks', a) \in Nat
          /\ \A b \in DOMAIN blocks : SizeIn(blocks, b) \in Nat
          /\ \A b \in DOMAIN blocks : SizeIn(blocks', b) = SizeIn(blocks, b)
      BY <1>6, <2>1, <2>2 DEF Live
    <3>2. BytesOf(blocks') = BytesOf(blocks) + SizeIn(blocks', a) /\ BytesOf(blocks) \in Nat
      BY <2>3, <3>1, AddBytes
    <3> QED
      BY <2>1, <3>2
  <2>5. resized = 0 => BytesOf(blocks) = totals.in - totals.out
    BY <1>2, <1>3, HFacts DEF HInv, BytesInv
  <2> QED
    <3>1. totals.in \in Nat /\ totals.out \in Nat
      BY HFacts DEF HInv
    <3> QED
      BY <1>2, <1>8, <2>1, <2>4, <2>5, <3>1 DEF BytesInv
<1> QED
  BY <1>10, <1>11, <1>12, <1>13, <1>14, <1>15, <1>16 DEF HInv

(* What an allocation in progress knows of its block, which no settled     *)
(* entry describes before it is entered.                                   *)
LEMMA AllocatingFacts ==
    ASSUME HInv, Allocating
    PROVE  /\ op.at \in Live /\ op.type \in Kinds /\ op.n \in Nat
           /\ blocks[op.at].type = op.type /\ blocks[op.at].room = op.n
           /\ blocks[op.at].serial = totals.allocs
           /\ ~Freeing /\ ~Resizing
           /\ op.k # "account" =>
                /\ op.slot = heapIndex /\ Entered = totals.allocs
                /\ \A i \in Settled : ring[i].at # op.at
<1>1. ~Freeing /\ ~Resizing
  BY DEF Allocating, Freeing, Resizing
<1>2. /\ op.at \in Live /\ op.type \in Kinds /\ op.n \in Nat
      /\ blocks[op.at].type = op.type /\ blocks[op.at].room = op.n
      /\ blocks[op.at].serial = totals.allocs
      /\ op.k # "account" => op.slot = heapIndex
  BY HFacts DEF HInv, AllocInv
<1>3. ASSUME op.k # "account"
      PROVE  /\ Entered = totals.allocs
             /\ \A i \in Settled : ring[i].at # op.at
  <2>1. Entered = totals.allocs
    BY <1>3, HFacts DEF Entered, HInv
  <2>2. ASSUME NEW i \in Settled, ring[i].at = op.at PROVE FALSE
    <3>1. i \in Slots /\ EntryRight(i)
      BY DEF Settled, HInv, RingInv
    <3>2. op.at # Null
      BY <1>2, HFacts DEF HInv
    <3>3. blocks[op.at].serial = EntrySerial(i)
      BY <2>2, <3>1, <3>2 DEF EntryRight
    <3>4. EntrySerial(i) \in Int /\ EntrySerial(i) < Entered /\ Entered \in Nat
      BY <3>1, HFacts DEF HInv
    <3> QED
      BY <1>2, <2>1, <3>3, <3>4
  <2> QED
    BY <2>1, <2>2
<1> QED
  BY <1>1, <1>2, <1>3

(* The length is written to the new block.                                 *)
LEMMA WriteLengthLemma ==
    ASSUME HInv, WriteLength
    PROVE  HInv'
<1>1. /\ op.k = "length" /\ blocks' = [blocks EXCEPT ![op.at].length = op.n]
      /\ op' = [op EXCEPT !.k = "enter"]
      /\ UNCHANGED <<ring, heapIndex, issued, totals, resized>>
  BY DEF WriteLength, At
<1>2. Allocating
  BY <1>1 DEF Allocating
<1>3. /\ op.at \in Live /\ op.type \in Kinds /\ op.n \in Nat
      /\ blocks[op.at].type = op.type /\ blocks[op.at].room = op.n
      /\ blocks[op.at].serial = totals.allocs
      /\ ~Freeing /\ ~Resizing
      /\ op.slot = heapIndex /\ Entered = totals.allocs
      /\ \A i \in Settled : ring[i].at # op.at
  BY <1>1, <1>2, AllocatingFacts
<1>4. /\ op'.k = "enter" /\ op'.at = op.at /\ op'.type = op.type /\ op'.slot = op.slot
      /\ op'.n = op.n
      /\ op' \in [k : {"idle", "length", "enter", "entering", "account", "freed", "clear",
                       "cleared", "moved", "resized"},
                  type : Types, at : Pointers, slot : Slots, n : Nat]
  BY <1>1 DEF HInv, HTyped
<1>5. /\ Allocating' /\ ~Freeing' /\ ~Resizing' /\ Settled' = Slots /\ Settled = Slots
  BY <1>1, <1>3, <1>4 DEF Allocating, Freeing, Resizing, Settled
<1>6. Entered' = Entered /\ \A i \in Slots : EntrySerial(i)' = EntrySerial(i)
  BY <1>1, <1>4 DEF Entered, EntrySerial, Age
<1>7. blocks \in [Live -> BlockRecords]
  BY DEF HInv, HTyped
<1>8. /\ Live' = Live /\ blocks' \in [Live -> BlockRecords]
      /\ \A a \in Live : /\ blocks'[a].type = blocks[a].type
                         /\ blocks'[a].room = blocks[a].room
                         /\ blocks'[a].serial = blocks[a].serial
                         /\ a # op.at => blocks'[a] = blocks[a]
      /\ blocks'[op.at].length = op.n
  <2>1. blocks' = [blocks EXCEPT ![op.at] = [blocks[op.at] EXCEPT !.length = op.n]]
    BY <1>1
  <2>2. blocks[op.at] \in BlockRecords
    BY <1>3, <1>7
  <2> DEFINE c == [blocks[op.at] EXCEPT !.length = op.n]
  <2>3. /\ c \in BlockRecords /\ c.type = blocks[op.at].type /\ c.room = blocks[op.at].room
        /\ c.serial = blocks[op.at].serial /\ c.length = op.n
    BY <1>3, <2>2 DEF BlockRecords
  <2> HIDE DEF c
  <2>4. blocks' = [blocks EXCEPT ![op.at] = c]
    BY <2>1 DEF c
  <2>5. Live' = Live /\ DOMAIN blocks = Live
    BY <2>4 DEF Live
  <2> QED
    BY <1>3, <1>7, <2>3, <2>4, <2>5
<1>9. HTyped'
  BY <1>1, <1>4, <1>8 DEF HInv, HTyped
<1>10. Serials'
  BY <1>1, <1>2, <1>4, <1>5, <1>8 DEF HInv, Serials
<1>11. RingInv'
  <2> SUFFICES ASSUME NEW i \in Slots
               PROVE  /\ EntryRight(i)'
                      /\ \A b \in Live' : blocks'[b].serial = EntrySerial(i)' => ring'[i].at = b
    BY <1>5 DEF RingInv
  <2>1. /\ EntryRight(i) /\ ring[i].at # op.at
        /\ \A b \in Live : blocks[b].serial = EntrySerial(i) => ring[i].at = b
    BY <1>3, <1>5 DEF HInv, RingInv
  <2>2. EntryRight(i)'
    BY <1>1, <1>6, <1>8, <2>1 DEF EntryRight
  <2> QED
    BY <1>1, <1>6, <1>8, <2>1, <2>2
<1>12. AllocInv'
  BY <1>1, <1>3, <1>4, <1>8 DEF AllocInv
<1>13. FreeInv' /\ ResizeInv'
  BY <1>5 DEF FreeInv, ResizeInv
<1>14. CountInv'
  BY <1>1, <1>2, <1>4, <1>5, <1>8 DEF HInv, CountInv, Pending, Unsettled
<1>15. BytesInv'
  <2>1. BytesOf(blocks') = BytesOf(blocks)
    <3>1. \A a \in Live : SizeIn(blocks', a) = SizeIn(blocks, a)
      BY <1>8 DEF SizeIn
    <3>2. IsFiniteSet(DOMAIN blocks)
      BY HFacts DEF HInv
    <3> QED
      BY <1>8, <3>1, <3>2, SameBytes DEF Live
  <2> QED
    BY <1>1, <1>2, <1>4, <1>5, <2>1 DEF HInv, BytesInv
<1> QED
  BY <1>9, <1>10, <1>11, <1>12, <1>13, <1>14, <1>15 DEF HInv

(* One word of the entry is stored, the type or the address.               *)
LEMMA EnterHalfLemma ==
    ASSUME HInv, EnterHalf
    PROVE  HInv'
<1>1. /\ op.k = "enter" /\ op' = [op EXCEPT !.k = "entering"]
      /\ \/ ring' = [ring EXCEPT ![op.slot].type = op.type]
         \/ ring' = [ring EXCEPT ![op.slot].at = op.at]
      /\ UNCHANGED <<heapIndex, blocks, issued, totals, resized>>
  BY DEF EnterHalf, At
<1>2. Allocating
  BY <1>1 DEF Allocating
<1>3. /\ op.at \in Live /\ op.type \in Kinds /\ op.n \in Nat
      /\ blocks[op.at].type = op.type /\ blocks[op.at].room = op.n
      /\ blocks[op.at].serial = totals.allocs
      /\ ~Freeing /\ ~Resizing
      /\ op.slot = heapIndex /\ Entered = totals.allocs
  BY <1>1, <1>2, AllocatingFacts
<1>4. /\ op'.k = "entering" /\ op'.at = op.at /\ op'.type = op.type /\ op'.slot = op.slot
      /\ op'.n = op.n
      /\ op' \in [k : {"idle", "length", "enter", "entering", "account", "freed", "clear",
                       "cleared", "moved", "resized"},
                  type : Types, at : Pointers, slot : Slots, n : Nat]
  BY <1>1 DEF HInv, HTyped
<1>5. /\ Allocating' /\ ~Freeing' /\ ~Resizing'
      /\ Settled' = Slots \ {op.slot} /\ Settled = Slots
  BY <1>1, <1>3, <1>4 DEF Allocating, Freeing, Resizing, Settled
<1>6. /\ Live' = Live /\ \A i \in Slots : EntrySerial(i)' = EntrySerial(i)
  BY <1>1, <1>4 DEF Live, Entered, EntrySerial, Age
<1>7. /\ ring' \in [Slots -> [type : Types, at : Pointers, size : Nat]]
      /\ \A i \in Slots : i # op.slot => ring'[i] = ring[i]
      /\ ring'[op.slot].at \in {ring[op.slot].at, op.at}
  <2>1. /\ ring \in [Slots -> [type : Types, at : Pointers, size : Nat]] /\ op.slot \in Slots
        /\ op.type \in Types /\ op.at \in Pointers
    BY HFacts DEF HInv, HTyped
  <2>2. ring[op.slot] \in [type : Types, at : Pointers, size : Nat]
    BY <2>1
  <2>3. CASE ring' = [ring EXCEPT ![op.slot].type = op.type]
    <3> DEFINE e == [ring[op.slot] EXCEPT !.type = op.type]
    <3>1. e \in [type : Types, at : Pointers, size : Nat] /\ e.at = ring[op.slot].at
      BY <2>1, <2>2
    <3>2. ring' = [ring EXCEPT ![op.slot] = e]
      BY <2>3
    <3> HIDE DEF e
    <3> QED
      BY <2>1, <3>1, <3>2
  <2>4. CASE ring' = [ring EXCEPT ![op.slot].at = op.at]
    <3> DEFINE e == [ring[op.slot] EXCEPT !.at = op.at]
    <3>1. e \in [type : Types, at : Pointers, size : Nat] /\ e.at = op.at
      BY <2>1, <2>2
    <3>2. ring' = [ring EXCEPT ![op.slot] = e]
      BY <2>4
    <3> HIDE DEF e
    <3> QED
      BY <2>1, <3>1, <3>2
  <2> QED
    BY <1>1, <2>3, <2>4
<1>8. HTyped'
  BY <1>1, <1>4, <1>6, <1>7 DEF HInv, HTyped
<1>9. Serials'
  BY <1>1, <1>2, <1>4, <1>5, <1>6 DEF HInv, Serials
<1>10. RingInv'
  <2> SUFFICES ASSUME NEW i \in Slots, i # op.slot
               PROVE  /\ EntryRight(i)'
                      /\ \A b \in Live' : blocks'[b].serial = EntrySerial(i)' => ring'[i].at = b
    BY <1>5 DEF RingInv
  <2>1. /\ EntryRight(i)
        /\ \A b \in Live : blocks[b].serial = EntrySerial(i) => ring[i].at = b
    BY <1>5 DEF HInv, RingInv
  <2>2. EntryRight(i)'
    BY <1>1, <1>6, <1>7, <2>1 DEF EntryRight
  <2> QED
    BY <1>1, <1>6, <1>7, <2>1, <2>2
<1>11. AllocInv'
  <2>1. blocks[op.at].length = op.n
    BY <1>1, <1>2 DEF HInv, AllocInv
  <2>2. EntryRight(op.slot)
    BY <1>5, HFacts DEF HInv, RingInv
  <2>3. ring'[op.slot].at # Null =>
          /\ ring'[op.slot].at \in Live
          /\ blocks[ring'[op.slot].at].length = blocks[ring'[op.slot].at].room
    BY <1>3, <1>7, <2>1, <2>2 DEF EntryRight
  <2> QED
    BY <1>1, <1>3, <1>4, <1>6, <2>1, <2>3 DEF AllocInv
<1>12. FreeInv' /\ ResizeInv'
  BY <1>5 DEF FreeInv, ResizeInv
<1>13. CountInv' /\ BytesInv'
  BY <1>1, <1>2, <1>4, <1>5, <1>6 DEF HInv, CountInv, BytesInv, Pending, Unsettled
<1> QED
  BY <1>8, <1>9, <1>10, <1>11, <1>12, <1>13 DEF HInv

(* The entry is complete and the index moves on.                           *)
LEMMA EnterLemma ==
    ASSUME HInv, Enter
    PROVE  HInv'
<1> DEFINE e == [type |-> op.type, at |-> op.at, size |-> TotalSize(op.type, op.n)]
<1>1. /\ op.k = "entering" /\ op' = [op EXCEPT !.k = "account"]
      /\ ring' = [ring EXCEPT ![op.slot] = e]
      /\ heapIndex' = (heapIndex + 1) % RingSize
      /\ UNCHANGED <<blocks, issued, totals, resized>>
  BY DEF Enter, At
<1>2. Allocating
  BY <1>1 DEF Allocating
<1>3. /\ op.at \in Live /\ op.type \in Kinds /\ op.n \in Nat
      /\ blocks[op.at].type = op.type /\ blocks[op.at].room = op.n
      /\ blocks[op.at].serial = totals.allocs
      /\ ~Freeing /\ ~Resizing
      /\ op.slot = heapIndex /\ Entered = totals.allocs
  BY <1>1, <1>2, AllocatingFacts
<1>4. /\ op'.k = "account" /\ op'.at = op.at /\ op'.type = op.type /\ op'.slot = op.slot
      /\ op'.n = op.n
      /\ op' \in [k : {"idle", "length", "enter", "entering", "account", "freed", "clear",
                       "cleared", "moved", "resized"},
                  type : Types, at : Pointers, slot : Slots, n : Nat]
  BY <1>1 DEF HInv, HTyped
<1>5. /\ Allocating' /\ ~Freeing' /\ ~Resizing'
      /\ Settled' = Slots /\ Settled = Slots \ {op.slot}
  BY <1>1, <1>3, <1>4 DEF Allocating, Freeing, Resizing, Settled
<1>6. /\ heapIndex \in Slots /\ op.slot \in Slots /\ totals.allocs \in Nat
      /\ op.at \in Pointers /\ op.at # Null
      /\ \A i \in Slots : Age(i) \in 1 .. RingSize
  BY <1>3, HFacts, AgeLemma DEF HInv
<1>7. /\ heapIndex' \in Slots
      /\ \A i \in Slots : i # heapIndex => Age(i)' = Age(i) + 1
      /\ \A i \in Slots : i = heapIndex => Age(i)' = 1
  BY <1>1, <1>6, AdvanceLemma
<1>8. Live' = Live /\ Entered' = totals.allocs + 1
  BY <1>1, <1>4 DEF Live, Entered
<1>9. \A i \in Slots : /\ i # op.slot => EntrySerial(i)' = EntrySerial(i)
                       /\ i = op.slot => EntrySerial(i)' = totals.allocs
  <2> SUFFICES ASSUME NEW i \in Slots
               PROVE  /\ i # op.slot => EntrySerial(i)' = EntrySerial(i)
                      /\ i = op.slot => EntrySerial(i)' = totals.allocs
    OBVIOUS
  <2>1. EntrySerial(i)' = Entered' - Age(i)' /\ EntrySerial(i) = Entered - Age(i)
    BY DEF EntrySerial
  <2>2. Age(i) \in Nat
    BY <1>6, HeapAssumption
  <2> QED
    BY <1>3, <1>6, <1>7, <1>8, <2>1, <2>2
<1>10. /\ e.type = op.type /\ e.at = op.at /\ e.size = TotalSize(op.type, op.n)
       /\ e \in [type : Types, at : Pointers, size : Nat]
  BY <1>3, <1>6, TotalSizeType DEF Types
<1> HIDE DEF e
<1>11. /\ ring' \in [Slots -> [type : Types, at : Pointers, size : Nat]]
       /\ \A i \in Slots : i # op.slot => ring'[i] = ring[i]
       /\ ring'[op.slot] = e
  BY <1>1, <1>6, <1>10 DEF HInv, HTyped
<1>12. HTyped'
  BY <1>1, <1>4, <1>7, <1>8, <1>11 DEF HInv, HTyped
<1>13. Serials'
  BY <1>1, <1>2, <1>4, <1>5, <1>8 DEF HInv, Serials
<1>14. blocks[op.at].length = op.n
  BY <1>1, <1>2 DEF HInv, AllocInv
<1>15. RingInv'
  <2> SUFFICES ASSUME NEW i \in Slots
               PROVE  /\ EntryRight(i)'
                      /\ \A b \in Live' : blocks'[b].serial = EntrySerial(i)' => ring'[i].at = b
    BY <1>5 DEF RingInv
  <2>1. CASE i = op.slot
    <3>1. EntryRight(i)'
      BY <1>1, <1>3, <1>6, <1>8, <1>9, <1>10, <1>11, <1>14, <2>1 DEF EntryRight
    <3>2. \A b \in Live : blocks[b].serial = totals.allocs => b = op.at
      BY DEF HInv, Serials
    <3> QED
      BY <1>1, <1>8, <1>9, <1>10, <1>11, <2>1, <3>1, <3>2
  <2>2. CASE i # op.slot
    <3>1. /\ EntryRight(i)
          /\ \A b \in Live : blocks[b].serial = EntrySerial(i) => ring[i].at = b
      BY <1>5, <2>2 DEF HInv, RingInv
    <3>2. EntryRight(i)'
      BY <1>1, <1>8, <1>9, <1>11, <2>2, <3>1 DEF EntryRight
    <3> QED
      BY <1>1, <1>8, <1>9, <1>11, <2>2, <3>1, <3>2
  <2> QED
    BY <2>1, <2>2
<1>16. AllocInv'
  BY <1>1, <1>3, <1>4, <1>8, <1>14 DEF AllocInv
<1>17. FreeInv' /\ ResizeInv'
  BY <1>5 DEF FreeInv, ResizeInv
<1>18. CountInv' /\ BytesInv'
  BY <1>1, <1>2, <1>4, <1>5, <1>8 DEF HInv, CountInv, BytesInv, Pending, Unsettled
<1> QED
  BY <1>12, <1>13, <1>15, <1>16, <1>17, <1>18 DEF HInv

(* The metrics are brought up to date and the payload is returned.         *)
LEMMA AllocMetricsLemma ==
    ASSUME HInv, update_alloc_metrics
    PROVE  HInv'
<1> DEFINE size == TotalSize(op.type, op.n)
<1>1. /\ op.k = "account" /\ op' = Idle /\ issued' = issued \cup {op.at}
      /\ totals' = [totals EXCEPT !.allocs = @ + 1, ![op.type] = @ + 1, !.in = @ + size]
      /\ UNCHANGED <<ring, heapIndex, blocks, resized>>
  BY DEF update_alloc_metrics, At
<1>2. Allocating
  BY <1>1 DEF Allocating
<1>3. /\ op.at \in Live /\ op.type \in Kinds /\ op.n \in Nat
      /\ blocks[op.at].serial = totals.allocs
      /\ ~Freeing /\ ~Resizing
  BY <1>1, <1>2, AllocatingFacts
<1>4. /\ op'.k = "idle"
      /\ op' \in [k : {"idle", "length", "enter", "entering", "account", "freed", "clear",
                       "cleared", "moved", "resized"},
                  type : Types, at : Pointers, slot : Slots, n : Nat]
  BY <1>1, HeapAssumption DEF Idle, Types, Pointers, Slots
<1>5. /\ ~Allocating' /\ ~Freeing' /\ ~Resizing' /\ Settled' = Slots /\ Settled = Slots
  BY <1>1, <1>3, <1>4 DEF Allocating, Freeing, Resizing, Settled
<1>6. size \in Nat
  BY <1>3, TotalSizeType
<1> HIDE DEF size
<1>7. /\ totals' \in [allocs : Nat, frees : Nat, in : Nat, out : Nat, VEC : Nat, STRING : Nat]
      /\ totals'.allocs = totals.allocs + 1 /\ totals'.frees = totals.frees
      /\ totals'.in = totals.in + size /\ totals'.out = totals.out
  <2>1. totals \in [allocs : Nat, frees : Nat, in : Nat, out : Nat, VEC : Nat, STRING : Nat]
    BY DEF HInv, HTyped
  <2> DEFINE t1 == [totals EXCEPT !.allocs = totals.allocs + 1]
             t2 == [t1 EXCEPT ![op.type] = totals[op.type] + 1]
             t3 == [t2 EXCEPT !.in = totals.in + size]
  <2>2. /\ t1 \in [allocs : Nat, frees : Nat, in : Nat, out : Nat, VEC : Nat, STRING : Nat]
        /\ t1.allocs = totals.allocs + 1 /\ t1.frees = totals.frees
        /\ t1.in = totals.in /\ t1.out = totals.out
    BY <2>1
  <2>3. /\ t2 \in [allocs : Nat, frees : Nat, in : Nat, out : Nat, VEC : Nat, STRING : Nat]
        /\ t2.allocs = t1.allocs /\ t2.frees = t1.frees /\ t2.in = t1.in /\ t2.out = t1.out
    <3> HIDE DEF t1
    <3>0. totals.VEC + 1 \in Nat /\ totals.STRING + 1 \in Nat
      BY <2>1
    <3>1. CASE op.type = "VEC"
      <4>1. t2 = [t1 EXCEPT !.VEC = totals.VEC + 1]
        BY <3>1
      <4> QED
        BY <2>2, <3>0, <4>1
    <3>2. CASE op.type = "STRING"
      <4>1. t2 = [t1 EXCEPT !.STRING = totals.STRING + 1]
        BY <3>2
      <4> QED
        BY <2>2, <3>0, <4>1
    <3> QED
      BY <1>3, <3>1, <3>2 DEF Kinds
  <2>4. totals' = t3
    BY <1>1
  <2> HIDE DEF t1, t2
  <2> QED
    BY <1>6, <2>1, <2>2, <2>3, <2>4
<1>8. /\ Live' = Live /\ totals.allocs \in Nat
      /\ \A i \in Slots : EntrySerial(i)' = EntrySerial(i)
  <2>1. Live' = Live /\ totals.allocs \in Nat
    BY <1>1, HFacts DEF Live, HInv
  <2>2. Entered' = Entered
    BY <1>1, <1>4, <1>7, <2>1 DEF Entered
  <2> QED
    BY <1>1, <2>1, <2>2 DEF EntrySerial, Age
<1>9. HTyped'
  BY <1>1, <1>3, <1>4, <1>7, <1>8 DEF HInv, HTyped
<1>10. Serials'
  <2>1. \A a \in Live : blocks[a].serial <= totals.allocs /\ blocks[a].serial \in Nat
    BY HFacts DEF HInv, Serials
  <2> QED
    BY <1>1, <1>7, <1>8, <2>1 DEF HInv, Serials
<1>11. RingInv'
  <2> SUFFICES ASSUME NEW i \in Slots
               PROVE  /\ EntryRight(i)'
                      /\ \A b \in Live' : blocks'[b].serial = EntrySerial(i)' => ring'[i].at = b
    BY <1>5 DEF RingInv
  <2>1. /\ EntryRight(i)
        /\ \A b \in Live : blocks[b].serial = EntrySerial(i) => ring[i].at = b
    BY <1>5 DEF HInv, RingInv
  <2>2. EntryRight(i)'
    BY <1>1, <1>8, <2>1 DEF EntryRight
  <2> QED
    BY <1>1, <1>8, <2>1, <2>2
<1>12. AllocInv' /\ FreeInv' /\ ResizeInv'
  BY <1>5 DEF AllocInv, FreeInv, ResizeInv
<1>13. CountInv'
  <2>1. Cardinality(Live) = totals.allocs - totals.frees + 1 /\ totals.frees \in Nat
    BY <1>1, <1>2, HFacts DEF HInv, CountInv, Pending, Unsettled
  <2> QED
    BY <1>4, <1>5, <1>7, <1>8, <2>1 DEF CountInv, Pending, Unsettled
<1>14. BytesInv'
  <2>0. totals.in \in Nat /\ totals.out \in Nat
    BY HFacts DEF HInv
  <2>1. resized = 0 => BytesOf(blocks) = totals.in - totals.out + size
    BY <1>1, <1>2, <1>6, <2>0 DEF HInv, BytesInv, size
  <2> QED
    BY <1>1, <1>4, <1>5, <1>6, <1>7, <2>0, <2>1 DEF BytesInv
<1> QED
  BY <1>9, <1>10, <1>11, <1>12, <1>13, <1>14 DEF HInv

(* Between operations an address has at most one entry, which describes    *)
(* its live block.                                                         *)
LEMMA EntriesLemma ==
    ASSUME HInv, op.k = "idle", NEW a \in Addresses, Entries(a) # {}
    PROVE  LET i == Min(Entries(a))
           IN  /\ i \in Slots /\ Entries(a) = {i} /\ ring[i].at = a /\ a \in Live
               /\ ring[i].type = blocks[a].type /\ ring[i].size = SizeIn(blocks, a)
               /\ blocks[a].length = blocks[a].room
               /\ blocks[a].serial = EntrySerial(i)
<1>1. Settled = Slots
  BY IdleFacts
<1>2. a # Null
  BY HeapAssumption
<1>3. ASSUME NEW j \in Entries(a)
      PROVE  /\ j \in Slots /\ ring[j].at = a /\ a \in Live
             /\ ring[j].type = blocks[a].type /\ ring[j].size = SizeIn(blocks, a)
             /\ blocks[a].length = blocks[a].room
             /\ blocks[a].serial = EntrySerial(j)
  <2>1. j \in Slots /\ ring[j].at = a
    BY DEF Entries
  <2>2. EntryRight(j)
    BY <1>1, <2>1 DEF HInv, RingInv
  <2> QED
    BY <1>2, <2>1, <2>2 DEF EntryRight, SizeIn
<1>4. PICK i : i \in Entries(a)
  OBVIOUS
<1>5. ASSUME NEW j \in Entries(a) PROVE j = i
  <2>1. EntrySerial(i) = EntrySerial(j) /\ i \in Slots /\ j \in Slots
    BY <1>3, <1>4
  <2>2. /\ Age(i) \in 1 .. RingSize /\ Age(j) \in 1 .. RingSize /\ Entered \in Nat
        /\ RingSize \in Nat
        /\ Age(i) = Age(j) => i = j
    BY <2>1, HFacts, AgeLemma DEF HInv
  <2> QED
    BY <2>1, <2>2 DEF EntrySerial
<1>6. Entries(a) = {i}
  BY <1>4, <1>5
<1>7. Min(Entries(a)) = i
  <2>1. i \in Int /\ i <= i
    BY <1>3, <1>4, HeapAssumption DEF Slots
  <2>2. Min({i}) = i
    BY <2>1 DEF Min
  <2> QED
    BY <1>6, <2>2
<1> QED
  BY <1>3, <1>4, <1>6, <1>7

(* std::free takes the block away; its entry is still there.               *)
LEMMA StdFreeLemma ==
    ASSUME HInv, NEW a \in issued, StdFree(a)
    PROVE  HInv'
<1>0. PICK i : i = Min(Entries(a))
  OBVIOUS
<1>1. /\ op.k = "idle" /\ Entries(a) # {}
      /\ blocks' = [b \in Live \ {a} |-> blocks[b]]
      /\ op' = [k |-> "freed", type |-> ring[i].type, at |-> a, slot |-> i, n |-> 0]
      /\ UNCHANGED <<ring, heapIndex, issued, totals, resized>>
  BY <1>0 DEF StdFree, At, Restrict
<1>2. a \in Addresses
  BY DEF HInv, HTyped
<1>3. /\ i \in Slots /\ Entries(a) = {i} /\ ring[i].at = a /\ a \in Live
      /\ ring[i].type = blocks[a].type /\ ring[i].size = SizeIn(blocks, a)
      /\ blocks[a].serial = EntrySerial(i)
  BY <1>0, <1>1, <1>2, EntriesLemma
<1>4. /\ ~Allocating /\ ~Freeing /\ ~Resizing /\ Settled = Slots
      /\ Entered = totals.allocs
      /\ \A b \in Live : blocks[b].serial < totals.allocs
      /\ Cardinality(Live) = totals.allocs - totals.frees
  BY <1>1, IdleFacts, HFacts DEF CountInv, HInv
<1>5. /\ Live' = Live \ {a} /\ \A b \in Live \ {a} : blocks'[b] = blocks[b]
  BY <1>1 DEF Live
<1>6. /\ op'.k = "freed" /\ op'.slot = i
      /\ op' \in [k : {"idle", "length", "enter", "entering", "account", "freed", "clear",
                       "cleared", "moved", "resized"},
                  type : Types, at : Pointers, slot : Slots, n : Nat]
  <2>1. ring[i].type \in Types /\ ring[i].at \in Pointers
    BY <1>3, HFacts DEF HInv
  <2> QED
    BY <1>1, <1>3, <2>1
<1>7. /\ ~Allocating' /\ Freeing' /\ ~Resizing' /\ Settled' = Slots \ {i}
  BY <1>6 DEF Allocating, Freeing, Resizing, Settled
<1>8. Entered' = Entered /\ \A j \in Slots : EntrySerial(j)' = EntrySerial(j)
  BY <1>1, <1>6 DEF Entered, EntrySerial, Age
<1>9. HTyped'
  <2>1. blocks' \in [Live' -> BlockRecords]
    <3>1. \A b \in Live : blocks[b] \in BlockRecords
      BY DEF HInv, HTyped
    <3> QED
      BY <1>1, <1>5, <3>1
  <2>2. IsFiniteSet(Live') /\ Live' \subseteq Addresses
    BY <1>5, FS_RemoveElement DEF HInv, HTyped
  <2> QED
    BY <1>1, <1>6, <2>1, <2>2 DEF HInv, HTyped
<1>10. Serials'
  BY <1>1, <1>4, <1>5 DEF HInv, Serials
<1>11. RingInv'
  <2> SUFFICES ASSUME NEW j \in Slots, j # i
               PROVE  /\ EntryRight(j)'
                      /\ \A b \in Live' : blocks'[b].serial = EntrySerial(j)' => ring'[j].at = b
    BY <1>7 DEF RingInv
  <2>1. /\ EntryRight(j)
        /\ \A b \in Live : blocks[b].serial = EntrySerial(j) => ring[j].at = b
    BY <1>4 DEF HInv, RingInv
  <2>2. ring[j].at # a
    BY <1>3 DEF Entries
  <2>3. EntryRight(j)'
    BY <1>1, <1>5, <1>8, <2>1, <2>2 DEF EntryRight
  <2> QED
    BY <1>1, <1>5, <1>8, <2>1, <2>3
<1>12. FreeInv'
  <2>1. \A b \in Live : blocks[b].serial = blocks[a].serial => b = a
    BY <1>3 DEF HInv, Serials
  <2>2. \A b \in Live' : blocks'[b].serial # EntrySerial(i)'
    BY <1>3, <1>5, <1>8, <2>1
  <2>3. EntrySerial(op.slot)' = EntrySerial(i)'
    BY <1>6 DEF EntrySerial, Age
  <2> QED
    BY <1>6, <2>2, <2>3 DEF FreeInv
<1>13. AllocInv' /\ ResizeInv'
  BY <1>7 DEF AllocInv, ResizeInv
<1>14. CountInv'
  <2>1. Cardinality(Live') = Cardinality(Live) - 1
    BY <1>3, <1>5, FS_RemoveElement DEF HInv, HTyped
  <2>2. totals.allocs \in Nat /\ totals.frees \in Nat
    BY HFacts DEF HInv
  <2> QED
    BY <1>1, <1>4, <1>6, <1>7, <2>1, <2>2 DEF CountInv, Pending, Unsettled
<1>15. BytesInv'
  <2>1. IsFiniteSet(DOMAIN blocks')
    BY <1>9 DEF HTyped, Live
  <2>2. /\ a \notin DOMAIN blocks' /\ DOMAIN blocks = DOMAIN blocks' \cup {a}
        /\ SizeIn(blocks, a) \in Nat
        /\ \A b \in DOMAIN blocks' : SizeIn(blocks', b) \in Nat
        /\ \A b \in DOMAIN blocks' : SizeIn(blocks, b) = SizeIn(blocks', b)
    <3>1. \A b \in Live : SizeIn(blocks, b) \in Nat
      BY HFacts DEF HInv
    <3> QED
      BY <1>3, <1>5, <3>1 DEF Live, SizeIn
  <2>3. BytesOf(blocks) = BytesOf(blocks') + SizeIn(blocks, a) /\ BytesOf(blocks') \in Nat
    BY <2>1, <2>2, AddBytes
  <2>4. totals.in \in Nat /\ totals.out \in Nat
    BY HFacts DEF HInv
  <2>5. resized = 0 => BytesOf(blocks) = totals.in - totals.out
    BY <1>1, <1>4, <2>4 DEF HInv, BytesInv
  <2>6. ring'[op'.slot].size = SizeIn(blocks, a)
    BY <1>1, <1>3, <1>6
  <2> QED
    BY <1>1, <1>6, <1>7, <2>2, <2>3, <2>4, <2>5, <2>6 DEF BytesInv
<1> QED
  BY <1>9, <1>10, <1>11, <1>12, <1>13, <1>14, <1>15 DEF HInv

(* The metrics are told of the free. *)
LEMMA FreeMetricsLemma ==
    ASSUME HInv, update_free_metrics
    PROVE  HInv'
<1>1. /\ op.k = "freed" /\ op' = [op EXCEPT !.k = "clear"]
      /\ totals' = [totals EXCEPT !.frees = @ + 1, !.out = @ + ring[op.slot].size]
      /\ UNCHANGED <<ring, heapIndex, blocks, issued, resized>>
  BY DEF update_free_metrics, At
<1>2. ring[op.slot].size \in Nat /\ op.slot \in Slots
  BY HFacts DEF HInv
<1>3. /\ op'.k = "clear" /\ op'.slot = op.slot
      /\ op' \in [k : {"idle", "length", "enter", "entering", "account", "freed", "clear",
                       "cleared", "moved", "resized"},
                  type : Types, at : Pointers, slot : Slots, n : Nat]
  BY <1>1 DEF HInv, HTyped
<1>4. /\ ~Allocating' /\ Freeing' /\ ~Resizing' /\ Settled' = Slots \ {op.slot}
      /\ ~Allocating /\ Freeing /\ ~Resizing /\ Settled = Slots \ {op.slot}
  BY <1>1, <1>3 DEF Allocating, Freeing, Resizing, Settled
<1>5. /\ totals' \in [allocs : Nat, frees : Nat, in : Nat, out : Nat, VEC : Nat, STRING : Nat]
      /\ totals'.allocs = totals.allocs /\ totals'.frees = totals.frees + 1
      /\ totals'.in = totals.in /\ totals'.out = totals.out + ring[op.slot].size
  <2> DEFINE size == ring[op.slot].size
             t1 == [totals EXCEPT !.frees = totals.frees + 1]
  <2>1. totals \in [allocs : Nat, frees : Nat, in : Nat, out : Nat, VEC : Nat, STRING : Nat]
    BY DEF HInv, HTyped
  <2>2. /\ t1 \in [allocs : Nat, frees : Nat, in : Nat, out : Nat, VEC : Nat, STRING : Nat]
        /\ t1.allocs = totals.allocs /\ t1.frees = totals.frees + 1
        /\ t1.in = totals.in /\ t1.out = totals.out
    BY <2>1
  <2>3. totals' = [t1 EXCEPT !.out = totals.out + size]
    BY <1>1
  <2>4. totals.out + size \in Nat
    BY <1>2, <2>1
  <2> HIDE DEF t1, size
  <2>5. /\ totals' \in [allocs : Nat, frees : Nat, in : Nat, out : Nat, VEC : Nat, STRING : Nat]
        /\ totals'.allocs = t1.allocs /\ totals'.frees = t1.frees
        /\ totals'.in = t1.in /\ totals'.out = totals.out + size
    BY <2>2, <2>3, <2>4
  <2> QED
    BY <2>2, <2>5 DEF size
<1>6. /\ Live' = Live
      /\ \A i \in Slots : EntrySerial(i)' = EntrySerial(i)
  BY <1>1, <1>3, <1>5 DEF Live, EntrySerial, Age, Entered
<1>7. HTyped'
  BY <1>1, <1>3, <1>5, <1>6 DEF HInv, HTyped
<1>8. Serials'
  BY <1>1, <1>4, <1>5, <1>6 DEF HInv, Serials
<1>9. RingInv'
  <2> SUFFICES ASSUME NEW i \in Slots, i # op.slot
               PROVE  /\ EntryRight(i)'
                      /\ \A b \in Live' : blocks'[b].serial = EntrySerial(i)' => ring'[i].at = b
    BY <1>4 DEF RingInv
  <2>1. /\ EntryRight(i)
        /\ \A b \in Live : blocks[b].serial = EntrySerial(i) => ring[i].at = b
    BY <1>4 DEF HInv, RingInv
  <2>2. EntryRight(i)'
    BY <1>1, <1>6, <2>1 DEF EntryRight
  <2> QED
    BY <1>1, <1>6, <2>1, <2>2
<1>10. FreeInv'
  <2>1. EntrySerial(op.slot)' = EntrySerial(op.slot)
    BY <1>1, <1>3, <1>5 DEF EntrySerial, Age, Entered
  <2> QED
    BY <1>1, <1>3, <1>4, <1>6, <2>1 DEF HInv, FreeInv
<1>11. AllocInv' /\ ResizeInv'
  BY <1>4 DEF AllocInv, ResizeInv
<1>12. /\ totals.allocs \in Nat /\ totals.frees \in Nat
       /\ totals.in \in Nat /\ totals.out \in Nat
  BY HFacts DEF HInv
<1>13. CountInv'
  <2>1. Cardinality(Live) = totals.allocs - totals.frees - 1
    BY <1>1, <1>4, <1>12 DEF HInv, CountInv, Pending, Unsettled
  <2> QED
    BY <1>3, <1>4, <1>5, <1>6, <1>12, <2>1 DEF CountInv, Pending, Unsettled
<1>14. BytesInv'
  <2>1. resized = 0 => BytesOf(blocks) = totals.in - totals.out - ring[op.slot].size
    BY <1>1, <1>2, <1>4, <1>12 DEF HInv, BytesInv
  <2> QED
    BY <1>1, <1>2, <1>3, <1>4, <1>5, <1>12, <2>1 DEF BytesInv
<1> QED
  BY <1>7, <1>8, <1>9, <1>10, <1>11, <1>13, <1>14 DEF HInv

(* The entry is marked as free, and then its address is cleared.           *)
LEMMA ClearLemma ==
    ASSUME HInv, ClearType \/ ClearAddress
    PROVE  HInv'
<1> DEFINE e == IF op.k = "clear" THEN [ring[op.slot] EXCEPT !.type = "FREE", !.size = 0]
                ELSE [ring[op.slot] EXCEPT !.at = Null]
<1>1. /\ op.k \in {"clear", "cleared"}
      /\ op' = IF op.k = "clear" THEN [op EXCEPT !.k = "cleared"] ELSE Idle
      /\ ring' = [ring EXCEPT ![op.slot] = e]
      /\ UNCHANGED <<heapIndex, blocks, issued, totals, resized>>
  <2>1. CASE ClearType
    <3>1. ring' = [ring EXCEPT ![op.slot] = [ring[op.slot] EXCEPT !.type = "FREE", !.size = 0]]
      BY <2>1 DEF ClearType
    <3> QED
      BY <2>1, <3>1 DEF ClearType, At
  <2>2. CASE ClearAddress
    BY <2>2 DEF ClearAddress, At
  <2> QED
    BY <2>1, <2>2
<1>2. op.slot \in Slots /\ ring[op.slot] \in [type : Types, at : Pointers, size : Nat]
  BY DEF HInv, HTyped
<1>3. /\ e \in [type : Types, at : Pointers, size : Nat]
      /\ op.k = "clear" => e.type = "FREE"
      /\ op.k = "cleared" => e.at = Null /\ e.type = ring[op.slot].type
  BY <1>1, <1>2 DEF Types, Pointers
<1> HIDE DEF e
<1>4. /\ ring' \in [Slots -> [type : Types, at : Pointers, size : Nat]]
      /\ \A i \in Slots : i # op.slot => ring'[i] = ring[i]
      /\ ring'[op.slot] = e
  BY <1>1, <1>2, <1>3 DEF HInv, HTyped
<1>5. /\ op.k = "clear" => op'.k = "cleared" /\ op'.slot = op.slot
      /\ op.k = "cleared" => op'.k = "idle"
      /\ op' \in [k : {"idle", "length", "enter", "entering", "account", "freed", "clear",
                       "cleared", "moved", "resized"},
                  type : Types, at : Pointers, slot : Slots, n : Nat]
  <2>1. Idle \in [k : {"idle", "length", "enter", "entering", "account", "freed", "clear",
                       "cleared", "moved", "resized"},
                  type : Types, at : Pointers, slot : Slots, n : Nat] /\ Idle.k = "idle"
    BY HeapAssumption DEF Idle, Types, Pointers, Slots
  <2> QED
    BY <1>1, <2>1 DEF HInv, HTyped
<1>6. /\ ~Allocating' /\ ~Resizing' /\ Settled' \subseteq Slots
      /\ op.k = "clear" => Settled' = Slots \ {op.slot}
      /\ ~Allocating /\ Freeing /\ ~Resizing /\ Settled = Slots \ {op.slot}
  BY <1>1, <1>5 DEF Allocating, Freeing, Resizing, Settled
<1>7. /\ Live' = Live
      /\ \A i \in Slots : EntrySerial(i)' = EntrySerial(i)
  BY <1>1, <1>5 DEF Live, EntrySerial, Age, Entered
<1>8. HTyped'
  BY <1>1, <1>4, <1>5, <1>7 DEF HInv, HTyped
<1>9. Serials'
  BY <1>1, <1>6, <1>7 DEF HInv, Serials
<1>10. RingInv'
  <2> SUFFICES ASSUME NEW i \in Settled'
               PROVE  /\ EntryRight(i)'
                      /\ \A b \in Live' : blocks'[b].serial = EntrySerial(i)' => ring'[i].at = b
    BY DEF RingInv
  <2>0. i \in Slots
    BY <1>6
  <2>1. CASE i # op.slot
    <3>1. /\ EntryRight(i)
          /\ \A b \in Live : blocks[b].serial = EntrySerial(i) => ring[i].at = b
      BY <1>6, <2>0, <2>1 DEF HInv, RingInv
    <3>2. EntryRight(i)'
      BY <1>1, <1>4, <1>7, <2>0, <2>1, <3>1 DEF EntryRight
    <3> QED
      BY <1>1, <1>4, <1>7, <2>0, <2>1, <3>1, <3>2
  <2>2. CASE i = op.slot
    <3>1. op.k = "cleared"
      BY <1>1, <1>6, <2>2
    <3>2. /\ ring[op.slot].type \notin Kinds
          /\ \A b \in Live : blocks[b].serial # EntrySerial(op.slot)
      BY <1>6, <3>1 DEF HInv, FreeInv
    <3>3. EntryRight(i)'
      BY <1>3, <1>4, <2>2, <3>1, <3>2 DEF EntryRight
    <3> QED
      BY <1>1, <1>2, <1>7, <2>2, <3>2, <3>3
  <2> QED
    BY <2>1, <2>2
<1>11. FreeInv'
  <2>1. CASE op.k = "clear"
    <3>1. EntrySerial(op.slot)' = EntrySerial(op.slot)
      BY <1>1, <1>5, <2>1 DEF EntrySerial, Age, Entered
    <3>2. ring'[op'.slot].type \notin Kinds
      BY <1>3, <1>4, <1>5, <2>1 DEF Kinds
    <3> QED
      BY <1>1, <1>6, <1>7, <3>1, <3>2 DEF HInv, FreeInv
  <2>2. CASE op.k = "cleared"
    BY <1>5, <2>2 DEF FreeInv, Freeing
  <2> QED
    BY <1>1, <2>1, <2>2
<1>12. AllocInv' /\ ResizeInv'
  BY <1>6 DEF AllocInv, ResizeInv
<1>13. CountInv' /\ BytesInv'
  <2>1. op.k # "freed" /\ op'.k # "freed"
    BY <1>1, <1>5
  <2> QED
    BY <1>1, <1>6, <1>7, <2>1 DEF HInv, CountInv, BytesInv, Pending, Unsettled
<1> QED
  BY <1>8, <1>9, <1>10, <1>11, <1>12, <1>13 DEF HInv

(* realloc leaves the block where it is or moves it; its entry still has   *)
(* the old address and the old size, and the block the old length.         *)
LEMMA ReallocLemma ==
    ASSUME HInv, NEW t \in Kinds, NEW a \in issued, NEW n \in Lengths, Realloc(t, a, n)
    PROVE  HInv'
<1>0. PICK i : i = Min(Entries(a))
  OBVIOUS
<1>1. PICK b \in (Addresses \ Live) \cup {a} :
        /\ blocks' = [c \in (Live \ {a}) \cup {b} |->
                        IF c = b THEN [blocks[a] EXCEPT !.room = n] ELSE blocks[c]]
        /\ op' = [k |-> "moved", type |-> t, at |-> b, slot |-> i, n |-> n]
  BY <1>0 DEF Realloc
<1>2. /\ op.k = "idle" /\ Entries(a) # {} /\ ring[i].type = t /\ resized' = resized + 1
      /\ UNCHANGED <<ring, heapIndex, issued, totals>>
  BY <1>0 DEF Realloc, At
<1>3. a \in Addresses /\ b \in Addresses /\ n \in Nat /\ b \notin Live \ {a}
  BY HeapAssumption DEF HInv, HTyped
<1>4. /\ i \in Slots /\ Entries(a) = {i} /\ ring[i].at = a /\ a \in Live
      /\ ring[i].type = blocks[a].type /\ blocks[a].length = blocks[a].room
      /\ blocks[a].serial = EntrySerial(i)
  BY <1>0, <1>2, <1>3, EntriesLemma
<1>5. /\ ~Allocating /\ ~Freeing /\ ~Resizing /\ Settled = Slots
      /\ Entered = totals.allocs
      /\ \A c \in Live : blocks[c].serial < totals.allocs
      /\ Cardinality(Live) = totals.allocs - totals.frees
  BY <1>2, IdleFacts, HFacts DEF CountInv, HInv
<1>6. /\ Live' = (Live \ {a}) \cup {b}
      /\ \A c \in Live \ {a} : blocks'[c] = blocks[c]
      /\ blocks'[b] = [blocks[a] EXCEPT !.room = n]
  BY <1>1, <1>3 DEF Live
<1>7. blocks[a] \in BlockRecords
  BY <1>4 DEF HInv, HTyped
<1>8. /\ blocks'[b] \in BlockRecords /\ blocks'[b].type = t /\ blocks'[b].room = n
      /\ blocks'[b].length = blocks[a].length /\ blocks'[b].length \in Nat
      /\ blocks'[b].serial = blocks[a].serial
  BY <1>2, <1>3, <1>4, <1>6, <1>7 DEF BlockRecords
<1>9. /\ op'.k = "moved" /\ op'.type = t /\ op'.at = b /\ op'.slot = i /\ op'.n = n
      /\ op' \in [k : {"idle", "length", "enter", "entering", "account", "freed", "clear",
                       "cleared", "moved", "resized"},
                  type : Types, at : Pointers, slot : Slots, n : Nat]
  BY <1>1, <1>3, <1>4 DEF Types, Pointers
<1>10. ~Allocating' /\ ~Freeing' /\ Resizing' /\ Settled' = Slots \ {i}
  BY <1>9 DEF Allocating, Freeing, Resizing, Settled
<1>11. /\ \A j \in Slots : EntrySerial(j)' = EntrySerial(j)
       /\ EntrySerial(op.slot)' = EntrySerial(i)
  BY <1>2, <1>9 DEF Entered, EntrySerial, Age
<1>12. IsFiniteSet(Live \ {a}) /\ Cardinality(Live \ {a}) = Cardinality(Live) - 1
  BY <1>4, FS_RemoveElement DEF HInv, HTyped
<1>13. IsFiniteSet(Live') /\ Cardinality(Live') = Cardinality(Live)
  <2>1. IsFiniteSet(Live') /\ Cardinality(Live') = Cardinality(Live \ {a}) + 1
    BY <1>3, <1>6, <1>12, FS_AddElement
  <2>2. Cardinality(Live) \in Nat
    BY HFacts DEF HInv
  <2> QED
    BY <1>12, <2>1, <2>2
<1>14. resized \in Nat /\ resized' \in Nat /\ resized' > 0
  BY <1>2 DEF HInv, HTyped
<1>15. HTyped'
  <2>1. blocks' \in [Live' -> BlockRecords]
    <3>1. blocks' = [c \in Live' |-> blocks'[c]]
      BY <1>1, <1>6
    <3>2. \A c \in Live' : blocks'[c] \in BlockRecords
      BY <1>6, <1>8 DEF HInv, HTyped
    <3> QED
      BY <3>1, <3>2
  <2>2. Live' \subseteq Addresses
    BY <1>3, <1>6 DEF HInv, HTyped
  <2> QED
    BY <1>2, <1>9, <1>13, <1>14, <2>1, <2>2 DEF HInv, HTyped
<1>16. Serials'
  <2>1. totals.allocs \in Nat /\ \A c \in Live : blocks[c].serial \in Nat
    BY HFacts DEF HInv
  <2>2. \A c, d \in Live : blocks[c].serial = blocks[d].serial => c = d
    BY DEF HInv, Serials
  <2>3. \A c \in Live' : blocks'[c].serial < totals.allocs /\ blocks'[c].serial \in Nat
    BY <1>4, <1>5, <1>6, <1>8, <2>1
  <2>4. \A c, d \in Live' : blocks'[c].serial = blocks'[d].serial => c = d
    <3>1. \A c \in Live \ {a} : blocks[c].serial # blocks[a].serial
      BY <1>4, <2>2
    <3>2. \A c \in Live' : c # b => c \in Live \ {a} /\ blocks'[c].serial = blocks[c].serial
      BY <1>6
    <3> QED
      BY <1>8, <2>2, <3>1, <3>2
  <2> QED
    BY <1>2, <2>1, <2>3, <2>4 DEF Serials
<1>17. RingInv'
  <2> SUFFICES ASSUME NEW j \in Slots, j # i
               PROVE  /\ EntryRight(j)'
                      /\ \A c \in Live' : blocks'[c].serial = EntrySerial(j)' => ring'[j].at = c
    BY <1>10 DEF RingInv
  <2>1. /\ EntryRight(j)
        /\ \A c \in Live : blocks[c].serial = EntrySerial(j) => ring[j].at = c
    BY <1>5 DEF HInv, RingInv
  <2>2. ring[j].at # a
    BY <1>4 DEF Entries
  <2>3. EntryRight(j)'
    BY <1>2, <1>6, <1>11, <2>1, <2>2 DEF EntryRight
  <2>4. ASSUME NEW c \in Live', blocks'[c].serial = EntrySerial(j) PROVE ring[j].at = c
    BY <1>4, <1>6, <1>8, <2>1, <2>2, <2>4
  <2> QED
    BY <1>2, <1>11, <2>3, <2>4
<1>18. ResizeInv'
  BY <1>2, <1>4, <1>6, <1>8, <1>9, <1>11, <1>14 DEF ResizeInv
<1>19. AllocInv' /\ FreeInv'
  BY <1>10 DEF AllocInv, FreeInv
<1>20. CountInv'
  <2>1. totals.allocs \in Nat /\ totals.frees \in Nat
    BY HFacts DEF HInv
  <2> QED
    BY <1>2, <1>5, <1>9, <1>10, <1>13, <2>1 DEF CountInv, Pending, Unsettled
<1>21. BytesInv'
  BY <1>14 DEF BytesInv
<1> QED
  BY <1>15, <1>16, <1>17, <1>18, <1>19, <1>20, <1>21 DEF HInv

(* The entry is given the address and the size.                            *)
LEMMA ResizeEntryLemma ==
    ASSUME HInv, ResizeEntry
    PROVE  HInv'
<1> DEFINE e == [ring[op.slot] EXCEPT !.at = op.at, !.size = TotalSize(op.type, op.n)]
<1>1. /\ op.k = "moved" /\ op' = [op EXCEPT !.k = "resized"]
      /\ ring' = [ring EXCEPT ![op.slot] = e]
      /\ UNCHANGED <<heapIndex, blocks, issued, totals, resized>>
  BY DEF ResizeEntry, At
<1>2. /\ Resizing /\ ~Allocating /\ ~Freeing /\ Settled = Slots \ {op.slot}
  BY <1>1 DEF Allocating, Freeing, Resizing, Settled
<1>3. /\ resized > 0 /\ op.at \in Live /\ op.type \in Kinds
      /\ blocks[op.at].type = op.type /\ blocks[op.at].room = op.n
      /\ blocks[op.at].length \in Nat
      /\ blocks[op.at].serial = EntrySerial(op.slot)
      /\ ring[op.slot].type = op.type
  BY <1>2 DEF HInv, ResizeInv
<1>4. /\ op'.k = "resized" /\ op'.at = op.at /\ op'.type = op.type /\ op'.slot = op.slot
      /\ op'.n = op.n
      /\ op' \in [k : {"idle", "length", "enter", "entering", "account", "freed", "clear",
                       "cleared", "moved", "resized"},
                  type : Types, at : Pointers, slot : Slots, n : Nat]
  BY <1>1 DEF HInv, HTyped
<1>5. /\ Resizing' /\ ~Allocating' /\ ~Freeing' /\ Settled' = Slots \ {op.slot}
  BY <1>4 DEF Allocating, Freeing, Resizing, Settled
<1>6. /\ op.slot \in Slots /\ op.at \in Pointers /\ op.n \in Nat
      /\ ring[op.slot] \in [type : Types, at : Pointers, size : Nat]
  BY DEF HInv, HTyped
<1>7. TotalSize(op.type, op.n) \in Nat
  BY <1>6, TotalSizeType
<1>8. /\ e \in [type : Types, at : Pointers, size : Nat] /\ e.type = op.type
      /\ e.at = op.at /\ e.size = TotalSize(op.type, op.n)
  BY <1>3, <1>6, <1>7
<1> HIDE DEF e
<1>9. /\ ring' \in [Slots -> [type : Types, at : Pointers, size : Nat]]
      /\ \A i \in Slots : i # op.slot => ring'[i] = ring[i]
      /\ ring'[op.slot] = e
  BY <1>1, <1>6, <1>8 DEF HInv, HTyped
<1>10. /\ Live' = Live
       /\ \A i \in Slots : EntrySerial(i)' = EntrySerial(i)
       /\ EntrySerial(op.slot)' = EntrySerial(op.slot)
  BY <1>1, <1>4 DEF Live, EntrySerial, Age, Entered
<1>11. HTyped'
  BY <1>1, <1>4, <1>9, <1>10 DEF HInv, HTyped
<1>12. Serials'
  BY <1>1, <1>2, <1>10 DEF HInv, Serials
<1>13. RingInv'
  <2> SUFFICES ASSUME NEW i \in Slots, i # op.slot
               PROVE  /\ EntryRight(i)'
                      /\ \A b \in Live' : blocks'[b].serial = EntrySerial(i)' => ring'[i].at = b
    BY <1>5 DEF RingInv
  <2>1. /\ EntryRight(i)
        /\ \A b \in Live : blocks[b].serial = EntrySerial(i) => ring[i].at = b
    BY <1>2 DEF HInv, RingInv
  <2>2. EntryRight(i)'
    BY <1>1, <1>9, <1>10, <2>1 DEF EntryRight
  <2> QED
    BY <1>1, <1>9, <1>10, <2>1, <2>2
<1>14. ResizeInv'
  BY <1>1, <1>3, <1>4, <1>8, <1>9, <1>10 DEF ResizeInv
<1>15. AllocInv' /\ FreeInv'
  BY <1>5 DEF AllocInv, FreeInv
<1>16. CountInv'
  <2>1. op.k # "freed" /\ op'.k # "freed"
    BY <1>1, <1>4
  <2> QED
    BY <1>1, <1>2, <1>5, <1>10, <2>1 DEF HInv, CountInv, Pending, Unsettled
<1>17. BytesInv'
  <2>1. resized' # 0
    BY <1>1, <1>3 DEF HInv, HTyped
  <2> QED
    BY <2>1 DEF BytesInv
<1> QED
  BY <1>11, <1>12, <1>13, <1>14, <1>15, <1>16, <1>17 DEF HInv

(* The length is written, and the entry describes its block again.         *)
LEMMA ResizeLengthLemma ==
    ASSUME HInv, ResizeLength
    PROVE  HInv'
<1>1. /\ op.k = "resized" /\ op' = Idle /\ issued' = issued \cup {op.at}
      /\ blocks' = [blocks EXCEPT ![op.at].length = op.n]
      /\ UNCHANGED <<ring, heapIndex, totals, resized>>
  BY DEF ResizeLength, At
<1>2. /\ Resizing /\ ~Allocating /\ ~Freeing /\ Settled = Slots \ {op.slot}
  BY <1>1 DEF Allocating, Freeing, Resizing, Settled
<1>3. /\ resized > 0 /\ op.at \in Live /\ op.type \in Kinds
      /\ blocks[op.at].type = op.type /\ blocks[op.at].room = op.n
      /\ blocks[op.at].serial = EntrySerial(op.slot)
      /\ ring[op.slot].type = op.type /\ ring[op.slot].at = op.at
      /\ ring[op.slot].size = TotalSize(op.type, op.n)
  BY <1>1, <1>2 DEF HInv, ResizeInv
<1>4. /\ op'.k = "idle"
      /\ op' \in [k : {"idle", "length", "enter", "entering", "account", "freed", "clear",
                       "cleared", "moved", "resized"},
                  type : Types, at : Pointers, slot : Slots, n : Nat]
  BY <1>1, HeapAssumption DEF Idle, Types, Pointers, Slots
<1>5. /\ ~Resizing' /\ ~Allocating' /\ ~Freeing' /\ Settled' = Slots
  BY <1>4 DEF Allocating, Freeing, Resizing, Settled
<1>6. op.slot \in Slots /\ op.n \in Nat /\ op.at \in Addresses /\ op.at # Null
  BY <1>3, HFacts DEF HInv
<1>7. blocks \in [Live -> BlockRecords]
  BY DEF HInv, HTyped
<1>8. /\ Live' = Live /\ blocks' \in [Live -> BlockRecords]
      /\ \A a \in Live : /\ blocks'[a].type = blocks[a].type
                         /\ blocks'[a].room = blocks[a].room
                         /\ blocks'[a].serial = blocks[a].serial
                         /\ a # op.at => blocks'[a] = blocks[a]
      /\ blocks'[op.at].length = op.n
  <2>1. blocks' = [blocks EXCEPT ![op.at] = [blocks[op.at] EXCEPT !.length = op.n]]
    BY <1>1
  <2>2. blocks[op.at] \in BlockRecords
    BY <1>3, <1>7
  <2> DEFINE c == [blocks[op.at] EXCEPT !.length = op.n]
  <2>3. /\ c \in BlockRecords /\ c.type = blocks[op.at].type /\ c.room = blocks[op.at].room
        /\ c.serial = blocks[op.at].serial /\ c.length = op.n
    BY <1>6, <2>2 DEF BlockRecords
  <2> HIDE DEF c
  <2>4. blocks' = [blocks EXCEPT ![op.at] = c]
    BY <2>1 DEF c
  <2>5. Live' = Live /\ DOMAIN blocks = Live
    BY <2>4 DEF Live
  <2> QED
    BY <1>3, <1>7, <2>3, <2>4, <2>5
<1>9. \A i \in Slots : EntrySerial(i)' = EntrySerial(i)
  BY <1>1, <1>4 DEF EntrySerial, Age, Entered
<1>10. HTyped'
  BY <1>1, <1>4, <1>6, <1>8 DEF HInv, HTyped
<1>11. Serials'
  BY <1>1, <1>2, <1>8 DEF HInv, Serials
<1>12. RingInv'
  <2> SUFFICES ASSUME NEW i \in Slots
               PROVE  /\ EntryRight(i)'
                      /\ \A b \in Live' : blocks'[b].serial = EntrySerial(i)' => ring'[i].at = b
    BY <1>5 DEF RingInv
  <2>1. CASE i = op.slot
    <3>1. EntryRight(i)'
      BY <1>1, <1>3, <1>6, <1>8, <1>9, <2>1 DEF EntryRight
    <3>2. \A b \in Live : blocks[b].serial = blocks[op.at].serial => b = op.at
      BY <1>3 DEF HInv, Serials
    <3> QED
      BY <1>1, <1>3, <1>8, <1>9, <2>1, <3>1, <3>2
  <2>2. CASE i # op.slot
    <3>1. /\ EntryRight(i)
          /\ \A b \in Live : blocks[b].serial = EntrySerial(i) => ring[i].at = b
      BY <1>2, <2>2 DEF HInv, RingInv
    <3>2. ring[i].at = op.at => blocks[op.at].length = op.n
      BY <1>3, <1>6, <3>1 DEF EntryRight
    <3>3. EntryRight(i)'
      BY <1>1, <1>8, <1>9, <3>1, <3>2 DEF EntryRight
    <3> QED
      BY <1>1, <1>8, <1>9, <3>1, <3>3
  <2> QED
    BY <2>1, <2>2
<1>13. AllocInv' /\ FreeInv' /\ ResizeInv'
  BY <1>5 DEF AllocInv, FreeInv, ResizeInv
<1>14. CountInv'
  <2>1. op.k # "freed" /\ op'.k # "freed"
    BY <1>1, <1>4
  <2> QED
    BY <1>1, <1>2, <1>5, <1>8, <2>1 DEF HInv, CountInv, Pending, Unsettled
<1>15. BytesInv'
  <2>1. resized' # 0
    BY <1>1, <1>3 DEF HInv, HTyped
  <2> QED
    BY <2>1 DEF BytesInv
<1> QED
  BY <1>10, <1>11, <1>12, <1>13, <1>14, <1>15 DEF HInv

-----------------------------------------------------------------------------
(* The theorems. *)

(* Every step of the program, and every signal, preserves the invariant.   *)
LEMMA NextHInv ==
    ASSUME HInv, [Next]_vars
    PROVE  HInv'
<1>1. ASSUME NEW t \in Kinds, NEW n \in Lengths, alloc(t, n) PROVE HInv'
  BY <1>1, AllocLemma
<1>2. CASE WriteLength
  BY <1>2, WriteLengthLemma
<1>3. CASE EnterHalf
  BY <1>3, EnterHalfLemma
<1>4. CASE Enter
  BY <1>4, EnterLemma
<1>5. CASE update_alloc_metrics
  BY <1>5, AllocMetricsLemma
<1>6. ASSUME NEW a \in issued, FreeUntracked(a) PROVE HInv'
  BY <1>6, SameHInv DEF FreeUntracked, Reply
<1>7. ASSUME NEW a \in issued, StdFree(a) PROVE HInv'
  BY <1>7, StdFreeLemma
<1>8. CASE update_free_metrics
  BY <1>8, FreeMetricsLemma
<1>9. CASE ClearType \/ ClearAddress
  BY <1>9, ClearLemma
<1>10. ASSUME NEW t \in Kinds, NEW a \in issued, ResizeRefused(t, a) PROVE HInv'
  <2>1. \E r : Reply(r)
    BY <1>10 DEF ResizeRefused
  <2> QED
    BY <2>1, SameHInv DEF Reply
<1>11. ASSUME NEW t \in Kinds, NEW a \in issued, NEW n \in Lengths, Realloc(t, a, n)
       PROVE  HInv'
  BY <1>11, ReallocLemma
<1>12. CASE ResizeEntry
  BY <1>12, ResizeEntryLemma
<1>13. CASE ResizeLength
  BY <1>13, ResizeLengthLemma
<1>14. CASE Signal \/ dumpHeapSignalSafe \/ UNCHANGED vars
  BY <1>14, SameHInv DEF Signal, dumpHeapSignalSafe, vars
<1> QED
  BY <1>1, <1>2, <1>3, <1>4, <1>5, <1>6, <1>7, <1>8, <1>9, <1>10, <1>11, <1>12, <1>13,
     <1>14 DEF Next

(* The inductive invariant holds in every reachable state.                 *)
THEOREM HInvInvariant == Spec => []HInv
<1>1. Init => HInv
  BY InitHInv
<1>2. HInv /\ [Next]_vars => HInv'
  BY NextHInv
<1> QED
  BY <1>1, <1>2, PTL DEF Spec

(* The report reads no more of a block than its length allows, and so no   *)
(* more than the block has when its length does not exceed its room.       *)
LEMMA ReadableLemma ==
    ASSUME HTyped, NEW i \in Slots, ring[i].type \in Kinds, ring[i].at \in Live,
           blocks[ring[i].at].type = ring[i].type,
           blocks[ring[i].at].length \in Nat,
           blocks[ring[i].at].length <= blocks[ring[i].at].room
    PROVE  Readable(i)
<1> DEFINE b == blocks[ring[i].at]
<1>1. b.room \in Nat /\ b.length \in Nat /\ b.length <= b.room /\ b.type = ring[i].type
  BY HFacts
<1>2. ASSUME NEW s \in Nat
      PROVE  Min({b.length, s}) \in Nat /\ Min({b.length, s}) <= b.length
  <2> DEFINE l == b.length
             m == CHOOSE x \in {l, s} : \A y \in {l, s} : x <= y
  <2>0. l \in Nat
    BY <1>1
  <2> HIDE DEF l
  <2>1. \E x \in {l, s} : \A y \in {l, s} : x <= y
    BY <2>0
  <2>2. m \in {l, s} /\ \A y \in {l, s} : m <= y
    BY <2>1
  <2>3. Min({l, s}) = m
    BY DEF Min
  <2>4. Min({l, s}) \in Nat /\ Min({l, s}) <= l
    BY <2>0, <2>2, <2>3
  <2> QED
    BY <2>4 DEF l
<1> HIDE DEF b
<1>3. ReadTo(ring[i].type, b.length) <= TotalSize(b.type, b.room)
  <2>1. CASE ring[i].type = "VEC"
    <3>1. Min({b.length, ShownWords}) \in Nat /\ Min({b.length, ShownWords}) <= b.length
      BY <1>2, HeapAssumption
    <3> QED
      BY <1>1, <2>1, <3>1 DEF ReadTo, TotalSize
  <2>2. CASE ring[i].type = "STRING"
    <3>1. Min({b.length, ShownChars}) \in Nat /\ Min({b.length, ShownChars}) <= b.length
      BY <1>2, HeapAssumption
    <3> QED
      BY <1>1, <2>2, <3>1 DEF ReadTo, TotalSize
  <2> QED
    BY <2>1, <2>2 DEF Kinds
<1> QED
  BY <1>1, <1>3 DEF Readable, b

(* A settled entry that the report looks at is readable.                   *)
LEMMA SettledReadable ==
    ASSUME HInv, NEW i \in Settled, i \in Slots, ring[i].type \in Kinds
    PROVE  Readable(i)
<1>1. EntryRight(i)
  BY DEF HInv, RingInv
<1>2. /\ ring[i].at \in Live /\ blocks[ring[i].at].type = ring[i].type
      /\ blocks[ring[i].at].length = blocks[ring[i].at].room
  BY <1>1 DEF EntryRight
<1>3. blocks[ring[i].at].room \in Nat
  BY <1>2, HFacts DEF HInv
<1> QED
  BY <1>2, <1>3, ReadableLemma DEF HInv

(* Only the entry of the operation in progress can be unreadable, and only *)
(* in the windows of Exposed.                                              *)
LEMMA HInvHandlerReads ==
    ASSUME HInv
    PROVE  HandlerReads
<1>1. ASSUME NEW i \in Slots, ring[i].type \in Kinds, ~Readable(i) PROVE i \in Exposed
  <2>1. i \notin Settled
    BY <1>1, SettledReadable
  <2>2. i = op.slot /\ (op.k = "entering" \/ Freeing \/ Resizing)
    BY <2>1 DEF Settled
  <2>3. CASE op.k \in {"freed", "clear"}
    BY <2>2, <2>3 DEF Exposed
  <2>4. CASE op.k = "cleared"
    BY <1>1, <2>2, <2>4 DEF HInv, FreeInv, Freeing
  <2>5. CASE Resizing
    <3>1. /\ op.at \in Live /\ blocks[op.at].type = op.type /\ blocks[op.at].room = op.n
          /\ blocks[op.at].length \in Nat /\ ring[op.slot].type = op.type
      BY <2>5 DEF HInv, ResizeInv
    <3>2. op.n \in Nat
      BY HFacts DEF HInv
    <3>3. ring[op.slot].at # op.at \/ blocks[op.at].length > op.n
      <4> SUFFICES ASSUME ring[op.slot].at = op.at, ~(blocks[op.at].length > op.n)
                   PROVE  FALSE
        OBVIOUS
      <4>1. blocks[op.at].length <= blocks[op.at].room
        BY <3>1, <3>2
      <4> QED
        BY <1>1, <2>2, <3>1, <4>1, ReadableLemma DEF HInv
    <3> QED
      BY <2>2, <2>5, <3>3 DEF Exposed, Resizing
  <2>6. CASE op.k = "entering"
    <3>1. SUFFICES ASSUME ring[op.slot].type = op.type, ring[op.slot].at # Null,
                          blocks[ring[op.slot].at].type = op.type
                   PROVE  FALSE
      BY <2>2, <2>6 DEF Exposed
    <3>2. /\ ring[op.slot].at \in Live
          /\ blocks[ring[op.slot].at].length = blocks[ring[op.slot].at].room
      BY <2>6, <3>1 DEF HInv, AllocInv, Allocating
    <3>3. blocks[ring[op.slot].at].room \in Nat
      BY <3>2, HFacts DEF HInv
    <3> QED
      BY <1>1, <2>2, <3>1, <3>2, <3>3, ReadableLemma DEF HInv
  <2> QED
    BY <2>2, <2>3, <2>4, <2>5, <2>6 DEF Freeing
<1>2. ASSUME op.k = "idle", NEW i \in Slots, ring[i].type = "VEC" PROVE Readable(i)
  <2>1. Settled = Slots
    BY <1>2, IdleFacts
  <2> QED
    BY <1>2, <2>1, SettledReadable DEF Kinds
<1> QED
  BY <1>1, <1>2 DEF HandlerReads, Reported, dumpHeap

(* Between operations the ring holds the live blocks among the last        *)
(* RingSize allocations, and the counters agree with the live blocks.      *)
LEMMA HInvLiveTracked ==
    ASSUME HInv
    PROVE  LiveTracked
<1> SUFFICES ASSUME op.k = "idle"
             PROVE  /\ {a \in Live : Entries(a) # {}} =
                          {a \in Live : blocks[a].serial + RingSize >= totals.allocs}
                    /\ \A a \in Live : Cardinality(Entries(a)) <= 1
                    /\ \A i \in Slots : ring[i].at # Null =>
                          /\ ring[i].at \in Live
                          /\ ring[i].type = blocks[ring[i].at].type
                          /\ ring[i].size = TotalSize(ring[i].type, blocks[ring[i].at].room)
                    /\ totals.allocs - totals.frees = Cardinality(Live)
                    /\ resized = 0 => totals.in - totals.out =
                          MapThenSumSet(LAMBDA a : TotalSize(blocks[a].type, blocks[a].room),
                                        Live)
  BY DEF LiveTracked
<1>1. /\ ~Allocating /\ ~Freeing /\ ~Resizing /\ Settled = Slots
      /\ Entered = totals.allocs
      /\ \A a \in Live : blocks[a].serial < totals.allocs
      /\ CountInv /\ Pending = 0 /\ Unsettled = 0
  BY IdleFacts
<1>2. /\ RingSize \in Nat /\ heapIndex \in Slots /\ Live \subseteq Addresses
      /\ totals.allocs \in Nat /\ totals.frees \in Nat
      /\ totals.in \in Nat /\ totals.out \in Nat /\ Cardinality(Live) \in Nat
      /\ \A a \in Live : blocks[a].serial \in Nat
  BY HFacts DEF HInv
<1>3. ASSUME NEW a \in Live, Entries(a) # {}
      PROVE  blocks[a].serial + RingSize >= totals.allocs
  <2>1. PICK i \in Slots : blocks[a].serial = EntrySerial(i)
    BY <1>2, <1>3, EntriesLemma
  <2>2. Age(i) \in 1 .. RingSize
    BY <1>2, AgeLemma
  <2> QED
    BY <1>1, <1>2, <2>1, <2>2 DEF EntrySerial
<1>4. ASSUME NEW a \in Live, blocks[a].serial + RingSize >= totals.allocs
      PROVE  Entries(a) # {}
  <2>1. totals.allocs - blocks[a].serial \in 1 .. RingSize
    <3>1. blocks[a].serial < totals.allocs /\ blocks[a].serial \in Nat
      BY <1>1, <1>2
    <3> QED
      BY <1>2, <1>4, <3>1
  <2>2. PICK i \in Slots : Age(i) = totals.allocs - blocks[a].serial
    BY <1>2, <2>1, AgeLemma
  <2>3. EntrySerial(i) = blocks[a].serial
    BY <1>1, <1>2, <2>2 DEF EntrySerial
  <2>4. ring[i].at = a
    BY <1>1, <2>3 DEF HInv, RingInv
  <2> QED
    BY <2>4 DEF Entries
<1>5. ASSUME NEW a \in Live PROVE Cardinality(Entries(a)) <= 1
  <2>1. CASE Entries(a) = {}
    BY <2>1, FS_EmptySet
  <2>2. CASE Entries(a) # {}
    <3>1. \E i : Entries(a) = {i}
      BY <1>2, <2>2, EntriesLemma
    <3>2. Cardinality(Entries(a)) = 1
      BY <3>1, FS_Singleton
    <3> QED
      BY <3>2
  <2> QED
    BY <2>1, <2>2
<1>6. ASSUME NEW i \in Slots, ring[i].at # Null
      PROVE  /\ ring[i].at \in Live
             /\ ring[i].type = blocks[ring[i].at].type
             /\ ring[i].size = TotalSize(ring[i].type, blocks[ring[i].at].room)
  <2>1. EntryRight(i)
    BY <1>1 DEF HInv, RingInv
  <2> QED
    BY <1>6, <2>1 DEF EntryRight
<1>7. totals.allocs - totals.frees = Cardinality(Live)
  BY <1>1, <1>2 DEF CountInv
<1>8. resized = 0 => totals.in - totals.out = BytesOf(blocks)
  BY <1>1, <1>2 DEF HInv, BytesInv
<1>9. BytesOf(blocks) =
        MapThenSumSet(LAMBDA a : TotalSize(blocks[a].type, blocks[a].room), Live)
  BY DEF BytesOf, Live
<1> QED
  BY <1>3, <1>4, <1>5, <1>6, <1>7, <1>8, <1>9

(* Wherever a signal interrupts an allocation, a free or a resize, the     *)
(* fatal signal handler reads live blocks only, and no more of them than   *)
(* they have, but by the one entry that Exposed names; dumpHeap never      *)
(* does.  For a ring of any size, with the entries overwritten in turn.    *)
THEOREM ReportReadsLiveBlocks == Spec => []HandlerReads
<1>1. HInv => HandlerReads
  BY HInvHandlerReads
<1> QED
  BY <1>1, HInvInvariant, PTL

(* Between operations the ring of HeapManager has exactly the live blocks  *)
(* among the last MAX_HEAP_BLOCKS allocations, each once, with its type    *)
(* and its size, and the metrics agree with the live blocks.               *)
THEOREM RingTracksLiveBlocks == Spec => []LiveTracked
<1>1. HInv => LiveTracked
  BY HInvLiveTracked
<1> QED
  BY <1>1, HInvInvariant, PTL
===============================================================================
