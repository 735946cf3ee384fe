----------------------------- MODULE HeapManager -----------------------------
(***************************************************************************)
(* Heap tracking: the ring of blocks that HeapManager keeps beside malloc, *)
(* and the report of it that the fatal signal handler prints.              *)
(*                                                                         *)
(* The program has one thread, but a signal may arrive between any two     *)
(* stores.  An operation is therefore a sequence of steps, one for each    *)
(* store that the report can tell apart; op says which step comes next.    *)
(* malloc is external: it gives out any free address, or none.  A block    *)
(* and its payload have the same name: the payload lies 8 bytes further.   *)
(***************************************************************************)
EXTENDS Integers, FiniteSets, FiniteSetsExt, Functions

CONSTANTS RingSize,     \* MAX_HEAP_BLOCKS
          Addresses,    \* the addresses malloc may give out
          Null,         \* the null pointer
          Lengths,      \* the elements or characters that are asked for
          ShownWords,   \* the words of a vector that the report shows
          ShownChars,   \* the characters of a string
          MaxAllocs,    \* bound on the allocations
          MaxResizes    \* bound on the resizes

ASSUME HeapAssumption == /\ RingSize \in Nat \ {0}
                         /\ Null \notin Addresses
                         /\ Lengths \subseteq Nat
                         /\ ShownWords \in Nat
                         /\ ShownChars \in Nat
                         /\ MaxAllocs \in Nat
                         /\ MaxResizes \in Nat

VARIABLES ring,       \* g_heap_blocks_array
          heapIndex,
          blocks,     \* the blocks malloc has given out, by address
          issued,     \* the addresses the program has been given
          op,         \* the operation in progress
          totals,     \* the counters of HeapManager and of the metrics
          result,     \* the outcome of the last free or resize
          resized,    \* how many blocks have been resized
          phase       \* "run", "handler", "exited" or "killed"

vars == <<ring, heapIndex, blocks, issued, op, totals, result, resized, phase>>

Kinds == {"VEC", "STRING"}
Slots == 0 .. (RingSize - 1)

Empty == [type |-> "UNKNOWN", at |-> Null, size |-> 0]

\* totalSize: an 8-byte length, then words, or characters and a terminator.
TotalSize(t, n) == IF t = "VEC" THEN 8 + n * 8 ELSE 8 + (n + 1) * 4

Idle == [k |-> "idle", type |-> "UNKNOWN", at |-> Null, slot |-> 0, n |-> 0]

\* A block: its kind, the elements it has room for, the length in its first
\* word (-1 before it is written) and the number of its allocation.
Block(t, n, s) == [type |-> t, room |-> n, length |-> -1, serial |-> s]

Live == DOMAIN blocks

Init ==
    /\ ring = [i \in Slots |-> Empty]
    /\ heapIndex = 0
    /\ blocks = [a \in {} |-> Block("VEC", 0, 0)]
    /\ issued = {}
    /\ op = Idle
    /\ totals = [allocs |-> 0, frees |-> 0, in |-> 0, out |-> 0,
                 VEC |-> 0, STRING |-> 0]
    /\ result = "none"
    /\ resized = 0
    /\ phase = "run"

At(k) == phase = "run" /\ op.k = k

-----------------------------------------------------------------------------
(* allocVec, allocString.                                                  *)

\* posix_memalign may fail: then nothing has changed.  bcpl_alloc_words asks
\* for at least one word.
alloc(t, n) ==
    /\ At("idle")
    /\ t = "VEC" => n > 0
    /\ totals.allocs < MaxAllocs
    /\ \E a \in Addresses \ Live :
          /\ blocks' = [b \in Live \cup {a} |->
                          IF b = a THEN Block(t, n, totals.allocs) ELSE blocks[b]]
          /\ op' = [k |-> "length", type |-> t, at |-> a,
                    slot |-> heapIndex % RingSize, n |-> n]
    /\ result' = "none"
    /\ UNCHANGED <<ring, heapIndex, issued, totals, resized, phase>>

WriteLength ==
    /\ At("length")
    /\ blocks' = [blocks EXCEPT ![op.at].length = op.n]
    /\ op' = [op EXCEPT !.k = "enter"]
    /\ UNCHANGED <<ring, heapIndex, issued, totals, result, resized, phase>>

\* The entry is overwritten whatever it holds.  It is assigned as a whole,
\* and the compiler chooses which of its words are stored first.
EnterHalf ==
    /\ At("enter")
    /\ \/ ring' = [ring EXCEPT ![op.slot].type = op.type]
       \/ ring' = [ring EXCEPT ![op.slot].at = op.at]
    /\ op' = [op EXCEPT !.k = "entering"]
    /\ UNCHANGED <<heapIndex, blocks, issued, totals, result, resized, phase>>

\* Mutation: the index is not advanced.
Enter_no_advance ==
    /\ At("entering")
    /\ ring' = [ring EXCEPT ![op.slot] =
                   [type |-> op.type, at |-> op.at,
                    size |-> TotalSize(op.type, op.n)]]
    /\ op' = [op EXCEPT !.k = "account"]
    /\ UNCHANGED <<heapIndex, blocks, issued, totals, result, resized, phase>>

Enter ==
    /\ At("entering")
    /\ ring' = [ring EXCEPT ![op.slot] =
                   [type |-> op.type, at |-> op.at,
                    size |-> TotalSize(op.type, op.n)]]
    /\ heapIndex' = (heapIndex + 1) % RingSize
    /\ op' = [op EXCEPT !.k = "account"]
    /\ UNCHANGED <<blocks, issued, totals, result, resized, phase>>

\* The totals of the object and update_alloc_metrics; the payload is returned.
update_alloc_metrics ==
    /\ At("account")
    /\ totals' = [totals EXCEPT !.allocs = @ + 1, ![op.type] = @ + 1,
                                !.in = @ + TotalSize(op.type, op.n)]
    /\ issued' = issued \cup {op.at}
    /\ op' = Idle
    /\ UNCHANGED <<ring, heapIndex, blocks, result, resized, phase>>

-----------------------------------------------------------------------------
(* free: the first entry with the address, and std::free before the entry  *)
(* is cleared.                                                             *)

Entries(a) == {i \in Slots : ring[i].at = a}

Reply(r) == result' = r /\ UNCHANGED <<ring, heapIndex, blocks, issued, op,
                                       totals, resized, phase>>

FreeUntracked(a) == At("idle") /\ Entries(a) = {} /\ Reply("untracked")

\* The program may pass any payload it has been given, a freed one included.
StdFree(a) ==
    /\ At("idle")
    /\ Entries(a) # {}
    /\ LET i == Min(Entries(a)) IN
         /\ blocks' = Restrict(blocks, Live \ {a})
         /\ op' = [k |-> "freed", type |-> ring[i].type, at |-> a, slot |-> i,
                   n |-> 0]
    /\ result' = "none"
    /\ UNCHANGED <<ring, heapIndex, issued, totals, resized, phase>>

\* The totals of the object and update_free_metrics.
update_free_metrics ==
    /\ At("freed")
    /\ totals' = [totals EXCEPT !.frees = @ + 1, !.out = @ + ring[op.slot].size]
    /\ op' = [op EXCEPT !.k = "clear"]
    /\ UNCHANGED <<ring, heapIndex, blocks, issued, result, resized, phase>>

\* Mutation: the type stays, as the address is thought to say it all.
ClearType_not ==
    /\ At("clear")
    /\ ring' = [ring EXCEPT ![op.slot].size = 0]
    /\ op' = [op EXCEPT !.k = "cleared"]
    /\ UNCHANGED <<heapIndex, blocks, issued, totals, result, resized, phase>>

ClearType ==
    /\ At("clear")
    /\ ring' = [ring EXCEPT ![op.slot].type = "FREE", ![op.slot].size = 0]
    /\ op' = [op EXCEPT !.k = "cleared"]
    /\ UNCHANGED <<heapIndex, blocks, issued, totals, result, resized, phase>>

ClearAddress ==
    /\ At("cleared")
    /\ ring' = [ring EXCEPT ![op.slot].at = Null]
    /\ op' = Idle
    /\ result' = "freed"
    /\ UNCHANGED <<heapIndex, blocks, issued, totals, resized, phase>>

-----------------------------------------------------------------------------
(* resizeVec, resizeString.  The metrics are not told.                     *)

\* Not in the ring, an entry of the other kind, or realloc fails.
ResizeRefused(t, a) ==
    /\ At("idle")
    /\ \/ Entries(a) = {} /\ Reply("untracked")
       \/ Entries(a) # {} /\ ring[Min(Entries(a))].type # t /\ Reply("mismatch")
       \/ Entries(a) # {} /\ ring[Min(Entries(a))].type = t /\ Reply("failed")

\* realloc keeps the block where it is or moves it, with its contents.
Realloc(t, a, n) ==
    /\ At("idle")
    /\ Entries(a) # {}
    /\ ring[Min(Entries(a))].type = t
    /\ \E b \in (Addresses \ Live) \cup {a} :
          /\ blocks' = [c \in (Live \ {a}) \cup {b} |->
                          IF c = b THEN [blocks[a] EXCEPT !.room = n]
                          ELSE blocks[c]]
          /\ op' = [k |-> "moved", type |-> t, at |-> b,
                    slot |-> Min(Entries(a)), n |-> n]
    /\ resized < MaxResizes
    /\ resized' = resized + 1
    /\ result' = "none"
    /\ UNCHANGED <<ring, heapIndex, issued, totals, phase>>

ResizeEntry ==
    /\ At("moved")
    /\ ring' = [ring EXCEPT ![op.slot].at = op.at,
                            ![op.slot].size = TotalSize(op.type, op.n)]
    /\ op' = [op EXCEPT !.k = "resized"]
    /\ UNCHANGED <<heapIndex, blocks, issued, totals, result, resized, phase>>

ResizeLength ==
    /\ At("resized")
    /\ blocks' = [blocks EXCEPT ![op.at].length = op.n]
    /\ issued' = issued \cup {op.at}
    /\ op' = Idle
    /\ result' = "resized"
    /\ UNCHANGED <<ring, heapIndex, totals, resized, phase>>

-----------------------------------------------------------------------------
(* fatal_signal_handler and dumpHeapSignalSafe.                            *)

\* The entries whose block the report reads; how far it reads, for the type
\* in the entry and the length in the block; and whether that is memory of a
\* block that is still there.
Reported == {i \in Slots : ring[i].type \in Kinds}
ReadTo(t, length) == IF t = "VEC" THEN 8 + Min({length, ShownWords}) * 8
                     ELSE 8 + Min({length, ShownChars}) * 4
Readable(i) ==
    /\ ring[i].at \in Live
    /\ LET b == blocks[ring[i].at]
       IN b.length >= 0 /\ ReadTo(ring[i].type, b.length) <= TotalSize(b.type, b.room)

\* dumpHeap, which the program may call, reads the vectors only.
dumpHeap == {i \in Slots : ring[i].type = "VEC"}

Signal == phase = "run" /\ phase' = "handler" /\
          UNCHANGED <<ring, heapIndex, blocks, issued, op, totals, result,
                      resized>>

\* A null pointer faults within the handler, with the signal blocked, and a
\* block that is gone may; otherwise the handler ends with _exit(1).
dumpHeapSignalSafe ==
    /\ phase = "handler"
    /\ \/ (\A i \in Reported : ring[i].at # Null) /\ phase' = "exited"
       \/ (\E i \in Reported : ~Readable(i)) /\ phase' = "killed"
    /\ UNCHANGED <<ring, heapIndex, blocks, issued, op, totals, result, resized>>

Next ==
    \/ \E t \in Kinds, n \in Lengths : alloc(t, n)
    \/ WriteLength \/ EnterHalf \/ Enter \/ update_alloc_metrics
    \/ \E a \in issued : FreeUntracked(a) \/ StdFree(a)
    \/ update_free_metrics \/ ClearType \/ ClearAddress
    \/ \E t \in Kinds, a \in issued : ResizeRefused(t, a)
    \/ \E t \in Kinds, a \in issued, n \in Lengths : Realloc(t, a, n)
    \/ ResizeEntry \/ ResizeLength
    \/ Signal \/ dumpHeapSignalSafe

Spec == Init /\ [][Next]_vars

-----------------------------------------------------------------------------
\* The entry that may name no readable block while an operation is under way:
\* from std::free to the store of ALLOC_FREE, from a realloc that moves or
\* shrinks the block to the store of its length, and between the stores of a
\* new entry where there was none, or one of the other type.
Exposed ==
    LET old == ring[op.slot]
        moves == old.at # op.at \/ blocks[op.at].length > op.n
        mixes == old.type # op.type \/ old.at = Null \/
                 blocks[old.at].type # op.type
    IN IF \/ op.k \in {"freed", "clear"}
          \/ op.k \in {"moved", "resized"} /\ moves
          \/ op.k = "entering" /\ mixes
       THEN {op.slot} ELSE {}

(***************************************************************************)
(* Wherever a signal interrupts the program, dumpHeapSignalSafe reads only *)
(* memory of live blocks, and no more of them than they have, except by    *)
(* the one entry whose block is being freed, moved, shrunk or entered, in  *)
(* the windows that Exposed lists; and dumpHeap, called between            *)
(* operations, reads live blocks only.                                     *)
(***************************************************************************)
HandlerReads ==
    /\ {i \in Reported : ~Readable(i)} \subseteq Exposed
    /\ op.k = "idle" => \A i \in dumpHeap : Readable(i)

(***************************************************************************)
(* Between operations the ring tracks exactly the live blocks that are     *)
(* among the last RingSize allocations, each by one entry with its type    *)
(* and size, so that free finds these and no others: an older block is     *)
(* reported as untracked and stays allocated for good.  The metrics count  *)
(* the live blocks and, unless a block was resized, their bytes.           *)
(***************************************************************************)
LiveTracked ==
    op.k = "idle" =>
        /\ {a \in Live : Entries(a) # {}} =
              {a \in Live : blocks[a].serial + RingSize >= totals.allocs}
        /\ \A a \in Live : Cardinality(Entries(a)) <= 1
        /\ \A i \in Slots : ring[i].at # Null =>
              /\ ring[i].at \in Live
              /\ ring[i].type = blocks[ring[i].at].type
              /\ ring[i].size = TotalSize(ring[i].type, blocks[ring[i].at].room)
        /\ totals.allocs - totals.frees = Cardinality(Live)
        /\ resized = 0 => totals.in - totals.out =
              MapThenSumSet(LAMBDA a : TotalSize(blocks[a].type, blocks[a].room),
                            Live)
=============================================================================
