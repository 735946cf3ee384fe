------------------------------ MODULE ListSpec ------------------------------
(***************************************************************************)
(* What the list runtime promises to a BCPL program: a list is a sequence  *)
(* of atoms behind a handle, and an operation changes the one list it is   *)
(* about or makes one new list out of others.                              *)
(***************************************************************************)
EXTENDS Sequences, SequencesExt

CONSTANTS Handles,   \* addresses of list headers
          Literals,  \* the lists the program writes down as constants
          Ints,      \* integers an atom may hold
          Strings,   \* addresses of strings an atom may hold
          NoString   \* the null pointer, where a string could not be copied

VARIABLE lists       \* the sequence of atoms of each list that exists

Atoms == ({"INT"} \X Ints) \cup ({"STRING"} \X Strings)

Init == lists = << >>

(* Operations on one list. *)
AppendAtom(l) == \E a \in Atoms : lists' = [lists EXCEPT ![l] = Append(@, a)]

(* TL: the first atom is gone; an empty list stays empty. *)
DropHead(l) == lists' = [lists EXCEPT ![l] = IF @ = <<>> THEN @ ELSE Tail(@)]

Free(l) == lists' = [k \in DOMAIN lists \ {l} |-> lists[k]]

(* Operations that make one list m and leave every other as it was. *)
Makes(m) ==
    /\ DOMAIN lists' = DOMAIN lists \cup {m}
    /\ \A l \in DOMAIN lists : lists'[l] = lists[l]

Create(m) == lists'[m] \in Literals
Copy(m, l) == lists'[m] = lists[l]
ReverseCopy(m, l) == lists'[m] = Reverse(lists[l])
Concat(m, l, k) == lists'[m] = lists[l] \o lists[k]

(* The atoms of s whose value is in keep, in their order. *)
Kept(s, keep) ==
    LET first[k \in 0 .. Len(s)] ==
          IF k = 0 THEN << >>
          ELSE IF s[k][2] \in keep THEN Append(first[k - 1], s[k]) ELSE first[k - 1]
    IN  first[Len(s)]

Filter(m, l) ==
    \E keep \in SUBSET (Ints \cup Strings \cup {NoString}) : lists'[m] = Kept(lists[l], keep)

(* A deep copy has a string, or null for lack of memory, where there was   *)
(* one.                                                                    *)
Duplicates(a) ==
    IF a[1] = "INT" THEN {a} ELSE {"STRING"} \X (Strings \cup {NoString})

DeepCopy(m, l) ==
    /\ Len(lists'[m]) = Len(lists[l])
    /\ \A i \in DOMAIN lists[l] : lists'[m][i] \in Duplicates(lists[l][i])

Next ==
    \/ \E l \in DOMAIN lists : AppendAtom(l) \/ DropHead(l) \/ Free(l)
    \/ \E m \in Handles \ DOMAIN lists :
         /\ Makes(m)
         /\ \/ Create(m)
            \/ \E l \in DOMAIN lists :
                 \/ Copy(m, l) \/ ReverseCopy(m, l) \/ Filter(m, l) \/ DeepCopy(m, l)
                 \/ \E k \in DOMAIN lists : Concat(m, l, k)

Spec == Init /\ [][Next]_lists
=============================================================================
