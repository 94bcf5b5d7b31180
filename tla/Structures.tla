----------------------------- MODULE Structures -----------------------------
(***************************************************************************)
(* The trees and the linked lists of tun2socks/structure, in the states a  *)
(* sequence of their operations reaches.  A behaviour uses one of them:    *)
(* a tree of keys, a tree of indices, a LinkedList1 or an SLinkedList.     *)
(***************************************************************************)
EXTENDS AvlTree, SequencesExt

CONSTANT FewEntries   \* bound: the entries of the structures without keys

VARIABLES kind,   \* the structure in use
          tree,   \* as in AvlTree
          list    \* first and last, and the links p and n of every entry

vars == <<kind, tree, list>>

-----------------------------------------------------------------------------
(* structure/LinkedList1.h *)

LinkedList1_Init == [first |-> Null, last |-> Null,
                     p |-> [x \in Entries |-> Null], n |-> [x \in Entries |-> Null]]

\* The links that follow an entry and precede one; at the ends, the list's.
SetNext(l, x, y) == IF x = Null THEN [l EXCEPT !.first = y] ELSE [l EXCEPT !.n[x] = y]
SetPrev(l, x, y) == IF x = Null THEN [l EXCEPT !.last = y] ELSE [l EXCEPT !.p[x] = y]

LinkedList1_Prepend(l, x) ==
    SetPrev([l EXCEPT !.p[x] = Null, !.n[x] = l.first, !.first = x], l.first, x)

LinkedList1_Append(l, x) ==
    SetNext([l EXCEPT !.p[x] = l.last, !.n[x] = Null, !.last = x], l.last, x)

LinkedList1_InsertBefore(l, x, target) ==
    [SetNext([l EXCEPT !.p[x] = l.p[target], !.n[x] = target], l.p[target], x)
        EXCEPT !.p[target] = x]

LinkedList1_InsertAfter(l, x, target) ==
    [SetPrev([l EXCEPT !.p[x] = target, !.n[x] = l.n[target]], l.n[target], x)
        EXCEPT !.n[target] = x]

LinkedList1_Remove(l, x) == SetPrev(SetNext(l, l.p[x], l.n[x]), l.n[x], l.p[x])

\* The entries from ins_first to ins_last are linked with each other.
LinkedList1_InsertListAfter(l, ins_first, ins_last, target) ==
    LET t_next == IF target # Null THEN l.n[target] ELSE l.first
        l1 == [l EXCEPT !.p[ins_first] = target, !.n[ins_last] = t_next]
    IN SetPrev(SetNext(l1, target, ins_first), t_next, ins_last)

-----------------------------------------------------------------------------
(* structure/SLinkedList_impl.h: the link before the first entry, and last *)
(* of an empty list, hold no value.                                        *)

SLinkedListMarkRemoved(l, x) == [l EXCEPT !.n[x] = x]
SLinkedListIsRemoved(l, x) == l.n[x] = x

SLinkedList_Prepend(l, x) ==
    LET l1 == [l EXCEPT !.n[x] = l.first, !.first = x]
    IN SetPrev(l1, l.first, x)

SLinkedList_Append(l, x) ==
    LET l1 == [l EXCEPT !.n[x] = Null, !.last = x]
    IN IF l.first = Null THEN [l1 EXCEPT !.first = x]
       ELSE [l1 EXCEPT !.p[x] = l.last, !.n[l.last] = x]

SLinkedList_InsertBefore(l, x, before) ==
    LET l1 == [l EXCEPT !.n[x] = before]
        l2 == IF before = l.first THEN [l1 EXCEPT !.first = x]
              ELSE [l1 EXCEPT !.p[x] = l.p[before], !.n[l.p[before]] = x]
    IN [l2 EXCEPT !.p[before] = x]

SLinkedList_InsertAfter(l, x, after) ==
    LET l1 == [l EXCEPT !.n[x] = l.n[after], !.p[x] = after]
    IN [SetPrev(l1, l.n[after], x) EXCEPT !.n[after] = x]

SLinkedList_Remove(l, x) ==
    IF x = l.first THEN [l EXCEPT !.first = l.n[x]]
    ELSE SetPrev([l EXCEPT !.n[l.p[x]] = l.n[x]], l.n[x], l.p[x])

SLinkedList_RemoveFirst(l) == [l EXCEPT !.first = l.n[l.first]]

SLinkedList_RemoveLast(l) ==
    IF l.last = l.first THEN [l EXCEPT !.first = Null]
    ELSE [l EXCEPT !.n[l.p[l.last]] = Null, !.last = l.p[l.last]]

SLinkedList_Prev(l, x) == IF x = l.first THEN Null ELSE l.p[x]
SLinkedList_Last(l) == IF l.first = Null THEN Null ELSE l.last

-----------------------------------------------------------------------------
(* The behaviours *)

RECURSIVE Forward(_, _), Backward(_, _), InOrder(_, _)
Forward(l, x) == IF x = Null THEN <<>> ELSE <<x>> \o Forward(l, l.n[x])
Backward(l, x) ==
    IF x = Null THEN <<>>
    ELSE Backward(l, IF kind = "slist" THEN SLinkedList_Prev(l, x) ELSE l.p[x]) \o <<x>>
InOrder(t, n) ==
    IF n = Null THEN <<>> ELSE InOrder(t, Link(t, n, 0)) \o <<n>> \o InOrder(t, Link(t, n, 1))

Content == IF kind \in {"keys", "indices"} THEN InOrder(tree, tree.root)
           ELSE Forward(list, list.first)
Outside == (IF kind = "keys" THEN Entries ELSE FewEntries) \ Range(Content)

Init == /\ kind \in {"keys", "indices", "list1", "slist"}
        /\ tree = CAvl_Init
        /\ list = LinkedList1_Init

InsertKey(x)   == kind = "keys" /\ tree' = CAvl_Insert(tree, x).t /\ UNCHANGED <<kind, list>>
InsertIndex(x) == /\ kind = "indices"
                  /\ \E i \in 0 .. CAvl_Count(tree) : tree' = CAvl_InsertAt(tree, x, i)
                  /\ UNCHANGED <<kind, list>>
RemoveTree(x)  == /\ kind \in {"keys", "indices"}
                  /\ tree' = CAvl_Remove(tree, x)
                  /\ UNCHANGED <<kind, list>>

Prepend(x) ==
    /\ \/ kind = "list1" /\ list' = LinkedList1_Prepend(list, x)
       \/ kind = "slist" /\ list' = SLinkedList_Prepend(list, x)
    /\ UNCHANGED <<kind, tree>>

AppendEntry(x) ==
    /\ \/ kind = "list1" /\ list' = LinkedList1_Append(list, x)
       \/ kind = "slist" /\ list' = SLinkedList_Append(list, x)
    /\ UNCHANGED <<kind, tree>>

\* Links of an entry outside of the list are never read.
Forgotten(l, x) == [l EXCEPT !.p[x] = Null]

RemoveList(x) ==
    /\ \/ kind = "list1" /\ list' = Forgotten([LinkedList1_Remove(list, x) EXCEPT !.n[x] = Null], x)
       \/ kind = "slist" /\ list' = Forgotten(SLinkedListMarkRemoved(SLinkedList_Remove(list, x), x), x)
    /\ UNCHANGED <<kind, tree>>

Next == \/ \E x \in Outside : InsertKey(x) \/ InsertIndex(x) \/ Prepend(x) \/ AppendEntry(x)
        \/ \E x \in Range(Content) : RemoveTree(x) \/ RemoveList(x)

Spec == Init /\ [][Next]_vars

-----------------------------------------------------------------------------
(* Properties *)

(* CAvl_Verify finds nothing wrong in any tree that insertions and         *)
(* removals in any order lead to, and no ASSERT of CAvl_impl.h has failed. *)
TreeVerified == CAvl_Verify(tree, kind = "keys") /\ ~tree.failed


At(s, i) == IF i \in DOMAIN s THEN s[i] ELSE Null
Least(S) == IF S = {} THEN Null ELSE CHOOSE x \in S : \A y \in S : x <= y
Greatest(S) == IF S = {} THEN Null ELSE CHOOSE x \in S : \A y \in S : x >= y
Without(s, x) == SelectSeq(s, LAMBDA y : y # x)

\* removed: the tree without x, c: its content with x.
RemovalRight(removed, c, x) ==
    InOrder(removed, removed.root) = Without(c, x) /\ BAVL_Remove(tree, x) = removed

PlaceRight(c, x, i) ==
    /\ CAvl_GetNext(tree, x) = At(c, i + 1)
    /\ CAvl_GetPrev(tree, x) = At(c, i - 1)
    /\ CAvl_IndexOf(tree, x) = i - 1 /\ CAvl_GetAt(tree, i - 1) = x
    /\ CAvl_ExclusiveAssocPrefixSum(tree, x) = SubSeq(c, 1, i - 1)
    /\ CAvl_FindLastExclusiveAssocPrefixSumLesserEqual(tree, i - 1) = x

InsertionRight(t, c, i, x) == InOrder(t, t.root) = InsertAt(c, i + 1, x)

(* Removing and inserting change the order of the entries by that entry    *)
(* alone, an index is the place in the order, and sums are those of the    *)
(* entries before.  BAVL_Remove leaves the same tree as CAvl_Remove.       *)
TreeOperations ==
    kind \in {"keys", "indices"} =>
    /\ CAvl_Count(tree) = Len(Content) /\ CAvl_AssocSum(tree) = Content
    /\ CAvl_GetFirst(tree) = At(Content, 1) /\ CAvl_GetLast(tree) = At(Content, Len(Content))
    /\ \A i \in DOMAIN Content :
         /\ RemovalRight(CAvl_Remove(tree, Content[i]), Content, Content[i])
         /\ PlaceRight(Content, Content[i], i)
    /\ kind = "indices" =>
         \A x \in Outside, i \in 0 .. Len(Content) :
            InsertionRight(CAvl_InsertAt(tree, x, i), Content, i, x)

(* What the lookups of a tree of keys promise: the nearest entries on      *)
(* either side of a key, present or not; an insertion reports one of them. *)
Lookups ==
    kind = "keys" =>
    \A k \in Entries :
        LET S == Range(Content)
            Less == {x \in S : x < k}
            More == {x \in S : x > k}
        IN /\ CAvl_GetFirstGreater(tree, k) = Least(More)
           /\ CAvl_GetLastLesser(tree, k) = Greatest(Less)
           /\ CAvl_GetFirstGreaterEqual(tree, k) = Least(S \ Less)
           /\ CAvl_GetLastLesserEqual(tree, k) = Greatest(S \ More)
           /\ CAvl_LookupExact(tree, k) = (IF k \in S THEN k ELSE Null)
           /\ CAvl_Insert(tree, k).res = (IF k \in S THEN 0 ELSE 1)
           /\ CAvl_Insert(tree, k).ref \in
                (IF k \in S THEN {k} ELSE {Least(More), Greatest(Less)})
           /\ S # {} => CAvl_Lookup(tree, k) # Null

Listed(l, s) ==
    /\ Forward(l, l.first) = s
    /\ Backward(l, IF kind = "slist" THEN SLinkedList_Last(l) ELSE l.last) = s

(* Both directions of a list show the same entries, and an operation adds  *)
(* or removes its entry where its name says, at the ends and in between.   *)
ListOperations ==
    /\ kind = "list1" =>
       /\ Listed(list, Content)
       /\ \A x \in Outside : \A i \in DOMAIN Content :
            /\ Listed(LinkedList1_InsertBefore(list, x, Content[i]), InsertAt(Content, i, x))
            /\ Listed(LinkedList1_InsertAfter(list, x, Content[i]), InsertAt(Content, i + 1, x))
       /\ \A x, y \in Outside : x # y =>
            LET l == [list EXCEPT !.n[x] = y, !.p[y] = x] IN
            \A i \in 0 .. Len(Content) :
               Listed(LinkedList1_InsertListAfter(l, x, y, At(Content, i)),
                      InsertAt(InsertAt(Content, i + 1, y), i + 1, x))
    /\ kind = "slist" =>
       /\ Listed(list, Content)
       /\ \A x \in Range(Content) : ~SLinkedListIsRemoved(list, x)
       /\ \A x \in Outside : \A i \in DOMAIN Content :
            /\ Listed(SLinkedList_InsertBefore(list, x, Content[i]), InsertAt(Content, i, x))
            /\ Listed(SLinkedList_InsertAfter(list, x, Content[i]), InsertAt(Content, i + 1, x))
       /\ Content # <<>> =>
            /\ Listed(SLinkedList_RemoveFirst(list), Tail(Content))
            /\ Listed(SLinkedList_RemoveLast(list), Front(Content))
=============================================================================
