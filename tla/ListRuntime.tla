---------------------------- MODULE ListRuntime -----------------------------
(***************************************************************************)
(* The list runtime (runtime/heap_interface.cpp) and the code emitted for  *)
(* TL (generators/gen_UnaryOp.cpp).  List nodes and list headers live in   *)
(* two pools, each a free list threaded through its own cells.             *)
(*                                                                         *)
(*   heap.node      the cells of the node chunks: type, value, next        *)
(*   heap.header    the list headers: length, head, tail                   *)
(*   heap.free      g_free_list_head;  heap.count  g_freelist_node_count   *)
(*   heap.hfree     g_header_free_list_head, linked through "head"         *)
(*   heap.chunks, heap.hchunks   chunks that were taken from malloc        *)
(*   heap.literals  headers that BCPL_DEEP_COPY_LITERAL_LIST took from it  *)
(*   heap.strings   the strings malloc has handed out and not got back     *)
(*   heap.fault     "exit" when the runtime gives up for lack of memory,   *)
(*                  "null" after a write through the null pointer that     *)
(*                  malloc returned, "undefined" after a free or a read of *)
(*                  what is not allocated                                  *)
(*   owned          the lists the program holds and has not freed          *)
(*   lists          those lists as sequences of atoms                      *)
(*   careful        the program has so far kept clear of what makes two    *)
(*                  atoms share a string, of string literals in lists and  *)
(*                  of FREELIST CELLS                                      *)
(*                                                                         *)
(* A program never uses a list after it has freed it.  Lists hold integers *)
(* and strings; lists inside lists are left out.                           *)
(***************************************************************************)
EXTENDS Integers, Sequences, FiniteSets, SequencesExt

CONSTANTS INITIAL_FREELIST_CHUNK_SIZE, HEADER_FREELIST_CHUNK_SIZE,
          MaxChunks, MaxHeaderChunks,   \* how often malloc finds memory
          MaxLiterals,   \* how often it finds memory for a literal's header
          MaxLength,     \* bound on the length field
          Ints,          \* integers the program puts into lists
          Strings,       \* addresses of strings on the heap
          StaticString   \* the address of a string of the data segment

VARIABLES heap, owned, careful, lists

vars == <<heap, owned, careful, lists>>

NULL == 0
(* Addresses: the node chunks, then the header chunks, then the headers of *)
(* literals, all above any length.                                         *)
NodeAt(k) == MaxLength + k
HeaderAt(k) == NodeAt(INITIAL_FREELIST_CHUNK_SIZE * MaxChunks) + k
LiteralAt(k) == HeaderAt(HEADER_FREELIST_CHUNK_SIZE * MaxHeaderChunks) + k
Nodes == {NodeAt(k) : k \in 1 .. (INITIAL_FREELIST_CHUNK_SIZE * MaxChunks)}
Pooled == {HeaderAt(k) : k \in 1 .. (HEADER_FREELIST_CHUNK_SIZE * MaxHeaderChunks)}
LiteralHeaders == {LiteralAt(k) : k \in 1 .. MaxLiterals}
Headers == Pooled \cup LiteralHeaders

(* A chunk has room for something, and a string is not at address null.    *)
ASSUME ListAssumption ==
    /\ {INITIAL_FREELIST_CHUNK_SIZE, HEADER_FREELIST_CHUNK_SIZE, MaxLength} \subseteq Nat \ {0}
    /\ {MaxChunks, MaxHeaderChunks, MaxLiterals} \subseteq Nat
    /\ Strings \cup {StaticString} \subseteq Nat \ {NULL}
    /\ StaticString \notin Strings

Atom(type, value, next) == [type |-> type, value |-> value, next |-> next]
Header(length, head, tail) == [length |-> length, head |-> head, tail |-> tail]

-----------------------------------------------------------------------------
(* The pools.  replenishFreelist links the new chunk in address order and  *)
(* prepends it; without memory the process exits.                          *)
replenishFreelist(h) ==
    LET first == h.chunks * INITIAL_FREELIST_CHUNK_SIZE + 1
        last == first + INITIAL_FREELIST_CHUNK_SIZE - 1
    IN
    IF h.chunks = MaxChunks THEN [h EXCEPT !.fault = "exit"]
    ELSE [h EXCEPT
            !.node = [n \in Nodes |->
                        IF n = NodeAt(last) THEN [@[n] EXCEPT !.next = h.free]
                        ELSE IF n \in NodeAt(first) .. NodeAt(last)
                        THEN [@[n] EXCEPT !.next = n + 1] ELSE @[n]],
            !.free = NodeAt(first),
            !.count = @ + INITIAL_FREELIST_CHUNK_SIZE,
            !.chunks = @ + 1]

replenishHeaderFreelist(h) ==
    LET first == h.hchunks * HEADER_FREELIST_CHUNK_SIZE + 1
        last == first + HEADER_FREELIST_CHUNK_SIZE - 1
    IN
    IF h.hchunks = MaxHeaderChunks THEN [h EXCEPT !.fault = "exit"]
    ELSE [h EXCEPT
            !.header = [l \in Headers |->
                          IF l = HeaderAt(last) THEN [@[l] EXCEPT !.head = h.hfree]
                          ELSE IF l \in HeaderAt(first) .. HeaderAt(last)
                          THEN [@[l] EXCEPT !.head = l + 1] ELSE @[l]],
            !.hfree = HeaderAt(first),
            !.hchunks = @ + 1]

(* The first halves of getNodeFromFreelist and getHeaderFromFreelist. *)
WithNode(h) == IF h.fault = "none" /\ h.free = NULL THEN replenishFreelist(h) ELSE h
WithHeader(h) == IF h.fault = "none" /\ h.hfree = NULL THEN replenishHeaderFreelist(h) ELSE h

(* Of a cell on a free list only the link is kept here: the rest is        *)
(* overwritten before anything reads it.                                   *)
returnNodeToFreelist(h, n) ==
    [h EXCEPT !.node[n] = Atom("INT", NULL, h.free), !.free = n, !.count = @ + 1]

returnHeaderToFreelist(h, l) ==
    [h EXCEPT !.header[l] = Header(0, h.hfree, NULL), !.hfree = l]

(* initialize_freelist, before any chunk exists. *)
InitialHeap ==
    replenishHeaderFreelist(replenishFreelist(
      [node |-> [n \in Nodes |-> Atom("INT", NULL, NULL)],
       header |-> [l \in Headers |-> Header(0, NULL, NULL)],
       free |-> NULL, hfree |-> NULL, count |-> 0, chunks |-> 0, hchunks |-> 0,
       literals |-> 0, strings |-> {}, fault |-> "none"]))

(* The nodes from n on, cut off after more steps than there are nodes. *)
Chain(h, n) ==
    LET at[k \in 0 .. Cardinality(Nodes)] ==
          IF k = 0 THEN n
          ELSE IF at[k - 1] \in Nodes THEN h.node[at[k - 1]].next ELSE NULL
    IN  [k \in 1 .. Cardinality({i \in DOMAIN at : at[i] \in Nodes}) |-> at[k - 1]]

(* A loop over the members of s, one call of op for each. *)
ForEach(op(_, _), h, s) ==
    LET after[k \in 0 .. Len(s)] == IF k = 0 THEN h ELSE op(after[k - 1], s[k])
    IN  after[Len(s)]

NodesOf(l) == Chain(heap, heap.header[l].head)
StringsIn(l) == {heap.node[n].value :
                   n \in {m \in Range(NodesOf(l)) : heap.node[m].type = "STRING"}}

-----------------------------------------------------------------------------
(* Mutant: a list with one node is taken for an empty one.                 *)
AppendNode_Head(h, l, type, value) ==
    LET g == WithNode(h)
        n == g.free
        old == g.header[l]
    IN
    IF g.fault # "none" THEN g
    ELSE LET taken == [g EXCEPT !.free = g.node[n].next, !.count = @ - 1,
                                !.node[n] = Atom(type, value, NULL)] IN
         IF old.head = old.tail
         THEN [taken EXCEPT !.header[l] = Header(old.length + 1, n, n)]
         ELSE [taken EXCEPT !.node[old.tail].next = n,
                            !.header[l] = Header(old.length + 1, old.head, n)]

(* Mutant: the tail pointer is left behind.                                *)
AppendNode_KeepTail(h, l, type, value) ==
    LET g == WithNode(h)
        n == g.free
        old == g.header[l]
    IN
    IF g.fault # "none" THEN g
    ELSE LET taken == [g EXCEPT !.free = g.node[n].next, !.count = @ - 1,
                                !.node[n] = Atom(type, value, NULL)] IN
         IF old.head = NULL
         THEN [taken EXCEPT !.header[l] = Header(old.length + 1, n, n)]
         ELSE [taken EXCEPT !.node[old.tail].next = n,
                            !.header[l] = Header(old.length + 1, old.head, old.tail)]

(* The code that APPEND, the copies, FILTER and CONCAT share: a node from  *)
(* the pool is filled in and linked behind the tail.                       *)
AppendNode(h, l, type, value) ==
    LET g == WithNode(h)
        n == g.free
        old == g.header[l]
    IN
    IF g.fault # "none" THEN g
    ELSE LET taken == [g EXCEPT !.free = g.node[n].next, !.count = @ - 1,
                                !.node[n] = Atom(type, value, NULL)] IN
         IF old.head = NULL
         THEN [taken EXCEPT !.header[l] = Header(old.length + 1, n, n)]
         ELSE [taken EXCEPT !.node[old.tail].next = n,
                            !.header[l] = Header(old.length + 1, old.head, n)]

(* BCPL_REVERSE_LIST links in front of the head instead. *)
PrependNode(h, l, type, value) ==
    LET g == WithNode(h)
        n == g.free
        old == g.header[l]
    IN
    IF g.fault # "none" THEN g
    ELSE [g EXCEPT !.free = g.node[n].next, !.count = @ - 1,
                   !.node[n] = Atom(type, value, old.head),
                   !.header[l] = Header(old.length + 1, n,
                                        IF old.tail = NULL THEN n ELSE old.tail)]

(* BCPL_LIST_CREATE_EMPTY, and the header it returns. *)
NewHeader(h) == WithHeader(h).hfree

(* Mutant: the link of the pool stays in the new header.                   *)
BCPL_LIST_CREATE_EMPTY_KeepLink(h) ==
    LET g == WithHeader(h) IN
    IF g.fault # "none" THEN g
    ELSE [g EXCEPT !.hfree = g.header[g.hfree].head]

BCPL_LIST_CREATE_EMPTY(h) ==
    LET g == WithHeader(h) IN
    IF g.fault # "none" THEN g
    ELSE [g EXCEPT !.hfree = g.header[g.hfree].head,
                   !.header[g.hfree] = Header(0, NULL, NULL)]

CopyNodes(h, l, nodes) ==
    ForEach(LAMBDA g, n : AppendNode(g, l, heap.node[n].type, heap.node[n].value), h, nodes)

(* bcpl_alloc_chars: an address, or null when malloc has none.             *)
AllocChars(h) == IF Strings \ h.strings = {} THEN NULL
                 ELSE CHOOSE s \in Strings \ h.strings : \A t \in Strings \ h.strings : s <= t

Init ==
    /\ heap = InitialHeap
    /\ owned = {}
    /\ careful = TRUE
    /\ lists = << >>

Running == heap.fault = "none"

(* A call that returns the new list m; if it fails there is none. *)
Return(h, m) ==
    /\ heap' = h
    /\ owned' = IF h.fault = "none" THEN owned \cup {m} ELSE owned

Create ==
    /\ Running
    /\ Return(BCPL_LIST_CREATE_EMPTY(heap), NewHeader(heap))
    /\ UNCHANGED careful

(* BCPL_LIST_APPEND_INT; APPEND_FLOAT differs in the type of the atom only. *)
BCPL_LIST_APPEND_INT(l, i) ==
    /\ Running /\ heap.header[l].length < MaxLength
    /\ heap' = AppendNode(heap, l, "INT", i)
    /\ UNCHANGED <<owned, careful>>

(* BCPL_LIST_APPEND_STRING of a string that the program has just allocated *)
(* or that it holds already, perhaps in a list, or of a literal, which the *)
(* emitted code passes by its address in the data segment.                 *)
BCPL_LIST_APPEND_STRING(l, s) ==
    /\ Running /\ heap.header[l].length < MaxLength
    /\ heap' = AppendNode([heap EXCEPT !.strings = @ \cup ({s} \ {StaticString})],
                          l, "STRING", s)
    /\ careful' = (careful /\ s \notin heap.strings \cup {StaticString})
    /\ UNCHANGED owned

(* BCPL_DEEP_COPY_LITERAL_LIST: the header comes from malloc and is filled *)
(* in without a check; the nodes come from the pool, and strings stay in   *)
(* the data segment.                                                       *)
CopyLiteral(h, m, atoms) == ForEach(LAMBDA g, a : AppendNode(g, m, a[1], a[2]), h, atoms)

BCPL_DEEP_COPY_LITERAL_LIST(atoms) ==
    LET m == LiteralAt(heap.literals + 1) IN
    /\ Running
    /\ IF heap.literals = MaxLiterals
       THEN heap' = [heap EXCEPT !.fault = "null"] /\ UNCHANGED owned
       ELSE Return(CopyLiteral([heap EXCEPT !.literals = @ + 1], m, atoms), m)
    /\ careful' = (careful /\ \A i \in DOMAIN atoms : atoms[i][1] = "INT")

(* BCPL_SHALLOW_COPY_LIST, BCPL_CONCAT_LISTS, BCPL_REVERSE_LIST and        *)
(* BCPL_LIST_FILTER copy the pointers of strings.                          *)
BCPL_SHALLOW_COPY_LIST(l) ==
    /\ Running
    /\ Return(CopyNodes(BCPL_LIST_CREATE_EMPTY(heap), NewHeader(heap), NodesOf(l)),
              NewHeader(heap))
    /\ careful' = (careful /\ StringsIn(l) = {})

BCPL_CONCAT_LISTS(l, k) ==
    /\ Running
    /\ heap.header[l].length + heap.header[k].length <= MaxLength
    /\ Return(CopyNodes(BCPL_LIST_CREATE_EMPTY(heap), NewHeader(heap), NodesOf(l) \o NodesOf(k)),
              NewHeader(heap))
    /\ careful' = (careful /\ StringsIn(l) \cup StringsIn(k) = {})

BCPL_REVERSE_LIST(l) ==
    /\ Running
    /\ Return(ForEach(LAMBDA g, n : PrependNode(g, NewHeader(heap), heap.node[n].type,
                                               heap.node[n].value),
                      BCPL_LIST_CREATE_EMPTY(heap), NodesOf(l)),
              NewHeader(heap))
    /\ careful' = (careful /\ StringsIn(l) = {})

(* The predicate sees the value of an atom and nothing else: of a string,  *)
(* its address.  It matters only which values of the list it keeps.        *)
ValuesIn(l) == {heap.node[n].value : n \in Range(NodesOf(l))}

FilterNode(h, l, keep, n) ==
    IF heap.node[n].value \in keep
    THEN AppendNode(h, l, heap.node[n].type, heap.node[n].value) ELSE h

BCPL_LIST_FILTER(l, keep) ==
    /\ Running
    /\ Return(ForEach(LAMBDA g, n : FilterNode(g, NewHeader(heap), keep, n),
                      BCPL_LIST_CREATE_EMPTY(heap), NodesOf(l)),
              NewHeader(heap))
    /\ careful' = (careful /\ StringsIn(l) = {})

(* Mutant: the pointer of a string is copied.                              *)
DeepCopyNode_Shallow(h, l, n) ==
    AppendNode(h, l, heap.node[n].type, heap.node[n].value)

(* BCPL_DEEP_COPY_LIST, one node: a string is read and duplicated. *)
DeepCopyNode(h, l, n) ==
    LET a == heap.node[n]
        g == WithNode(h)
    IN
    IF g.fault # "none" \/ a.type = "INT" \/ a.value = NULL
    THEN AppendNode(h, l, a.type, a.value)
    ELSE IF a.value \notin g.strings \cup {StaticString} THEN [g EXCEPT !.fault = "undefined"]
    ELSE AppendNode([g EXCEPT !.strings = @ \cup ({AllocChars(g)} \ {NULL})],
                    l, "STRING", AllocChars(g))

BCPL_DEEP_COPY_LIST(l) ==
    /\ Running
    /\ Return(ForEach(LAMBDA g, n : DeepCopyNode(g, NewHeader(heap), n),
                      BCPL_LIST_CREATE_EMPTY(heap), NodesOf(l)),
              NewHeader(heap))
    /\ UNCHANGED careful

-----------------------------------------------------------------------------
(* bcpl_free_list, one node: bcpl_free on a string, whoever else has it.   *)
FreeNode(h, n) ==
    LET a == h.node[n] IN
    IF h.fault # "none" THEN h
    ELSE IF a.type = "INT" \/ a.value = NULL THEN returnNodeToFreelist(h, n)
    ELSE IF a.value \notin h.strings THEN [h EXCEPT !.fault = "undefined"]
    ELSE returnNodeToFreelist([h EXCEPT !.strings = @ \ {a.value}], n)

bcpl_free_list(l) ==
    LET emptied == ForEach(FreeNode, heap, NodesOf(l)) IN
    /\ Running
    /\ IF emptied.fault # "none"
       THEN heap' = [heap EXCEPT !.fault = emptied.fault] /\ UNCHANGED owned
       ELSE heap' = returnHeaderToFreelist(emptied, l) /\ owned' = owned \ {l}
    /\ UNCHANGED careful

(* BCPL_FREE_CELLS passes every free node to free(), which takes only the  *)
(* first of a chunk.                                                       *)
BCPL_FREE_CELLS ==
    /\ Running
    /\ heap' = IF heap.free = NULL THEN heap ELSE [heap EXCEPT !.fault = "undefined"]
    /\ careful' = FALSE
    /\ UNCHANGED owned

(* ListHeader at the offsets that the emitted code uses. *)
FieldAt(offset) == CASE offset = 8 -> "length" [] offset = 16 -> "head" [] offset = 24 -> "tail"

(* Mutant: the node goes back to the pool before its link is read.         *)
TL_ReturnFirst(l) ==
    LET old == heap.header[l].head
        returned == returnNodeToFreelist(heap, old)
    IN
    /\ Running
    /\ heap' = IF old = NULL THEN heap
               ELSE [returned EXCEPT !.header[l].head = returned.node[old].next]
    /\ UNCHANGED <<owned, careful>>

(* The code emitted for TL: the head moves on, the word at offset 8 is     *)
(* cleared if it is the old head, and the old node goes to the pool.       *)
TL(l) ==
    LET old == heap.header[l].head
        moved == [heap EXCEPT !.header[l].head = heap.node[old].next]
        cleared == IF heap.header[l][FieldAt(8)] = old
                   THEN [moved EXCEPT !.header[l][FieldAt(8)] = NULL] ELSE moved
    IN
    /\ Running
    /\ heap' = IF old = NULL THEN heap ELSE returnNodeToFreelist(cleared, old)
    /\ UNCHANGED <<owned, careful>>

Literals == {<<>>} \cup {<<a>> : a \in ({"INT"} \X Ints) \cup {<<"STRING", StaticString>>}}

(* exit(1), or undefined behaviour, ends the run. *)
Stopped == ~Running /\ UNCHANGED <<heap, owned, careful>>

(* The lists as the program sees them. *)
ListsOf ==
    [l \in owned |->
       LET s == NodesOf(l) IN
       [i \in DOMAIN s |-> <<heap.node[s[i]].type, heap.node[s[i]].value>>]]

Call ==
    \/ Create
    \/ \E atoms \in Literals : BCPL_DEEP_COPY_LITERAL_LIST(atoms)
    \/ \E l \in owned :
         \/ \E i \in Ints : BCPL_LIST_APPEND_INT(l, i)
         \/ \E s \in (heap.strings \cup {AllocChars(heap), StaticString}) \ {NULL} :
              BCPL_LIST_APPEND_STRING(l, s)
         \/ BCPL_SHALLOW_COPY_LIST(l) \/ BCPL_REVERSE_LIST(l) \/ BCPL_DEEP_COPY_LIST(l)
         \/ \E k \in owned : BCPL_CONCAT_LISTS(l, k)
         \/ \E keep \in SUBSET ValuesIn(l) : BCPL_LIST_FILTER(l, keep)
         \/ bcpl_free_list(l) \/ TL(l)
    \/ BCPL_FREE_CELLS
    \/ Stopped

Next == Call /\ lists' = ListsOf'

Spec == Init /\ [][Next]_vars

-----------------------------------------------------------------------------
(* The heap has the shape of the structures of ListDataTypes.h; the head   *)
(* field, which links free headers too, points to a node in a list.        *)
TypeOK ==
    /\ heap.node \in [Nodes -> [type : {"INT", "STRING"}, next : Nodes \cup {NULL},
                                value : Ints \cup Strings \cup {StaticString, NULL}]]
    /\ heap.header \in [Headers -> [length : 0 .. MaxLength,
                          head : Nodes \cup Headers \cup {NULL}, tail : Nodes \cup {NULL}]]
    /\ Running => \A l \in owned : heap.header[l].head \notin Headers
    /\ heap.free \in Nodes \cup {NULL} /\ heap.hfree \in Headers \cup {NULL}
    /\ heap.strings \in SUBSET Strings
    /\ heap.fault \in {"none", "exit", "null", "undefined"}
    /\ owned \in SUBSET Headers /\ careful \in BOOLEAN

FreeNodes == Chain(heap, heap.free)
FromMalloc == {NodeAt(k) : k \in 1 .. (INITIAL_FREELIST_CHUNK_SIZE * heap.chunks)}
IsPath(s) == \A i, j \in DOMAIN s : s[i] = s[j] => i = j

(* No node is lost, and none is in two places: every node of every chunk   *)
(* is either on the free list, whose length is g_freelist_node_count, or   *)
(* in exactly one list, whatever sequence of appends, copies, TL and frees *)
(* came before.                                                            *)
NodesAccounted ==
    Running =>
      /\ IsPath(FreeNodes) /\ Len(FreeNodes) = heap.count
      /\ \A l \in owned : IsPath(NodesOf(l)) /\ Range(NodesOf(l)) \cap Range(FreeNodes) = {}
      /\ \A l, k \in owned : l # k => Range(NodesOf(l)) \cap Range(NodesOf(k)) = {}
      /\ FromMalloc = Range(FreeNodes) \cup UNION {Range(NodesOf(l)) : l \in owned}

(* The tail pointer that an append writes through is the last node of the  *)
(* list: TL leaves it pointing at a returned node when it removes the last *)
(* one, but then the list is empty and the next append does not use it.    *)
TailIsLast ==
    Running => \A l \in owned : NodesOf(l) # <<>> => heap.header[l].tail = Last(NodesOf(l))

(* A program that shares no string between atoms, by SPND or by a copy     *)
(* that is not deep, and puts no string literal into a list never frees or *)
(* reads a string twice: no two atoms point to one string, a deep copy     *)
(* included, and the strings of its lists stay allocated until the list is *)
(* freed.  What is left to go wrong for it is the unchecked header of a    *)
(* copied literal, and that only when malloc has no memory.                *)
CarefulDefined ==
    careful =>
      /\ heap.fault # "undefined"
      /\ heap.fault = "null" => heap.literals = MaxLiterals
      /\ Running => \A l \in owned : StringsIn(l) \ {NULL} \subseteq heap.strings
      /\ \A l, k \in DOMAIN lists : \A i \in DOMAIN lists[l], j \in DOMAIN lists[k] :
           lists[l][i] = lists[k][j] /\ lists[l][i][1] = "STRING" /\ lists[l][i][2] # NULL
             => l = k /\ i = j

Abstract == INSTANCE ListSpec WITH Handles <- Headers,
                                   Strings <- Strings \cup {StaticString},
                                   NoString <- NULL

(* Every operation of the runtime does to the lists of the program what    *)
(* ListSpec says, and nothing to any other list.                           *)
ImplementsListSpec == Abstract!Spec
=============================================================================
