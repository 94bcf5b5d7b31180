------------------------------ MODULE AvlTree ------------------------------
(***************************************************************************)
(* structure/CAvl_impl.h: the AVL tree under the timers of the reactor and *)
(* the fair queue, with counts and with the associative sums of subtrees.  *)
(* structure/SAvl_impl.h passes its arguments on to it, and BAVL.h holds   *)
(* the same algorithm for a fixed node type.                               *)
(*                                                                         *)
(* A tree is a record of the root and of the fields of every entry; 0 is   *)
(* the null link.  The value of an entry for the associative operation is  *)
(* the sequence with that entry and the operation is concatenation, which  *)
(* does not commute: the sum of a tree lists it in order.                  *)
(***************************************************************************)
EXTENDS Integers, Sequences, FiniteSets

CONSTANT Entries     \* the entries, numbers from 1; a number is its key

Null == 0
Side == {0, 1}

\* Fields of an entry outside of the tree are never read.
Blank == [parent |-> Null, link |-> [d \in Side |-> Null], balance |-> 0,
          count |-> 0, assoc |-> <<>>]

CAvl_Init == [root |-> Null, e |-> [n \in Entries |-> Blank], failed |-> FALSE]

Asserted(t, cond) == IF cond THEN t ELSE [t EXCEPT !.failed = TRUE]

Max2(a, b) == IF a > b THEN a ELSE b
OptNeg(a, neg) == IF neg = 1 THEN -a ELSE a

Link(t, n, d) == t.e[n].link[d]
Parent(t, n) == t.e[n].parent
Count(t, n) == IF n = Null THEN 0 ELSE t.e[n].count
Assoc(t, n) == IF n = Null THEN <<>> ELSE t.e[n].assoc
SideOf(t, p, n) == IF n = Link(t, p, 1) THEN 1 ELSE 0

CAvl_check_parent(t, p, c) ==
    p = Parent(t, c) /\ (p # Null => c \in {Link(t, p, 0), Link(t, p, 1)})

CAvl_compute_node_assoc(t, n) ==
    Assoc(t, Link(t, n, 0)) \o <<n>> \o Assoc(t, Link(t, n, 1))

CAvl_update_count_from_children(t, n) ==
    [t EXCEPT !.e[n].count = 1 + Count(t, Link(t, n, 0)) + Count(t, Link(t, n, 1))]

Recomputed(t, n) ==
    [CAvl_update_count_from_children(t, n)
        EXCEPT !.e[n].assoc = CAvl_compute_node_assoc(t, n)]

\* c becomes a child of p; the parent link of c follows unless c is null.
SetLink(t, p, d, c) ==
    LET t1 == [t EXCEPT !.e[p].link[d] = c]
    IN IF c = Null THEN t1 ELSE [t1 EXCEPT !.e[c].parent = p]

\* n takes the place of old below p, or as the root.
Hang(t, p, old, n) ==
    IF p = Null THEN [t EXCEPT !.root = n]
    ELSE [t EXCEPT !.e[p].link[SideOf(t, p, old)] = n]

(* Fault: the subtree that changes sides keeps its parent link. *)
CAvl_rotate_keeps_parent(t, r, dir, r_parent) ==
    LET nr == Link(t, r, 1 - dir)
        t1 == [t EXCEPT !.e[r].link[1 - dir] = Link(t, nr, dir)]
        t2 == [t1 EXCEPT !.e[nr].link[dir] = r, !.e[nr].parent = r_parent]
        t3 == [Hang(t2, r_parent, r, nr) EXCEPT !.e[r].parent = nr]
    IN Recomputed(Recomputed(t3, r), nr)

CAvl_rotate(t, r, dir, r_parent) ==
    LET nr == Link(t, r, 1 - dir)
        t1 == SetLink(Asserted(t, CAvl_check_parent(t, r_parent, r)),
                      r, 1 - dir, Link(t, nr, dir))
        t2 == [t1 EXCEPT !.e[nr].link[dir] = r, !.e[nr].parent = r_parent]
        t3 == [Hang(t2, r_parent, r, nr) EXCEPT !.e[r].parent = nr]
    IN Recomputed(Recomputed(t3, r), nr)

RECURSIVE CAvl_subtree_min(_, _), CAvl_subtree_max(_, _)
CAvl_subtree_min(t, n) ==
    IF Link(t, n, 0) = Null THEN n ELSE CAvl_subtree_min(t, Link(t, n, 0))
CAvl_subtree_max(t, n) ==
    IF Link(t, n, 1) = Null THEN n ELSE CAvl_subtree_max(t, Link(t, n, 1))

RECURSIVE FixUp(_, _, _, _)
FixUp(t, c, dest, n) ==
    IF c = Null THEN t
    ELSE LET t1 == [Asserted(t, Count(t, c) >= Count(t, dest))
                      EXCEPT !.e[c].count = @ - Count(t, dest) + Count(t, n)]
         IN FixUp([t1 EXCEPT !.e[c].assoc = CAvl_compute_node_assoc(t1, c)],
                  Parent(t, c), dest, n)

CAvl_replace_subtree_fix_assoc(t, dest, n, dest_parent) ==
    LET t1 == Hang(Asserted(t, CAvl_check_parent(t, dest_parent, dest)),
                   dest_parent, dest, n)
        t2 == IF n = Null THEN t1 ELSE [t1 EXCEPT !.e[n].parent = Parent(t, dest)]
    IN FixUp(t2, dest_parent, dest, n)

\* enode is the child of node.
SwapConnected(t, node, enode, node_parent) ==
    LET side == SideOf(t, node, enode)
        t1 == SetLink(SetLink(t, node, 0, Link(t, enode, 0)), node, 1, Link(t, enode, 1))
        t2 == Hang([t1 EXCEPT !.e[enode].parent = Parent(t, node)],
                   node_parent, node, enode)
    IN SetLink(SetLink(t2, enode, side, node), enode, 1 - side, Link(t, node, 1 - side))

SwapApart(t, node, enode, node_parent, enode_parent) ==
    LET t1 == Hang([t EXCEPT !.e[node].parent = enode_parent], enode_parent, enode, node)
        t2 == Hang([t1 EXCEPT !.e[enode].parent = node_parent], node_parent, node, enode)
        SwapChild(u, d) == SetLink(SetLink(u, node, d, Link(u, enode, d)),
                                   enode, d, Link(u, node, d))
    IN SwapChild(SwapChild(t2, 0), 1)

CAvl_swap_for_remove(t, node, enode, node_parent, enode_parent) ==
    LET t0 == Asserted(t, /\ CAvl_check_parent(t, node_parent, node)
                          /\ CAvl_check_parent(t, enode_parent, enode))
        t1 == IF enode_parent = node THEN SwapConnected(t0, node, enode, node_parent)
              ELSE SwapApart(t0, node, enode, node_parent, enode_parent)
    IN [t1 EXCEPT !.e[node].balance = t.e[enode].balance,
                  !.e[enode].balance = t.e[node].balance,
                  !.e[node].count = t.e[enode].count,
                  !.e[enode].count = t.e[node].count]

\* The balance of node is 2 or -2: one or two rotations, [t, top, delta].
Rotated(t, node, dir) == CAvl_rotate(t, node, dir, Parent(t, node))

Transformed(t, node, delta) ==
    LET bside  == IF t.e[node].balance = 2 THEN 1 ELSE 0
        bsidef == IF bside = 1 THEN 1 ELSE -1
        child  == Link(t, node, bside)
        gchild == Link(t, child, 1 - bside)
        heavy  == t.e[child].balance * bsidef
        g      == t.e[gchild].balance * bsidef
    IN IF heavy >= 0
       THEN [t |-> [Rotated(t, node, 1 - bside) EXCEPT
                      !.e[node].balance = IF heavy = 1 THEN 0 ELSE bsidef,
                      !.e[child].balance = IF heavy = 1 THEN 0 ELSE -bsidef],
             top |-> child, delta |-> delta - heavy]
       ELSE [t |-> [Rotated(CAvl_rotate(t, child, bside, node), node, 1 - bside) EXCEPT
                      !.e[node].balance = -Max2(0, g) * bsidef,
                      !.e[child].balance = Max2(0, -g) * bsidef,
                      !.e[gchild].balance = 0],
             top |-> gchild, delta |-> delta - 1]

Leveled(t, node, delta) ==
    IF t.e[node].balance \in {2, -2} THEN Transformed(t, node, delta)
    ELSE [t |-> t, top |-> node, delta |-> delta]

RECURSIVE CAvl_rebalance(_, _, _, _)

\* The loop goes on above the subtree r.top, whose height changed by r.delta.
Ascend(r) ==
    LET p == Parent(r.t, r.top)
        t == Asserted(r.t, r.delta \in -1 .. 1)
    IN IF p = Null THEN t ELSE CAvl_rebalance(t, p, SideOf(t, p, r.top), r.delta)

CAvl_rebalance(t, node, side, deltac) ==
    IF deltac = 0 THEN t
    ELSE LET heavier == OptNeg(t.e[node].balance, side)
             delta == Max2(deltac, heavier) - Max2(0, heavier)
         IN Ascend(Leveled(
                [Asserted(t, {deltac, delta, t.e[node].balance} \subseteq -1 .. 1)
                   EXCEPT !.e[node].balance = @ - OptNeg(deltac, side)], node, delta))

Fresh(p) == [parent |-> p, link |-> [d \in Side |-> Null], balance |-> 0,
             count |-> 1, assoc |-> <<>>]

\* The end of both insertions: node becomes a leaf below c.
InsertBelow(t, node, c, side) ==
    LET t1 == [t EXCEPT !.e[node] = [Fresh(c) EXCEPT !.assoc = <<node>>]]
    IN IF c = Null THEN [t1 EXCEPT !.root = node]
       ELSE CAvl_rebalance(FixUp([t1 EXCEPT !.e[c].link[side] = node], c, Null, node),
                           c, side, 1)

\* Where the search for a key ends: the entry with the key, or the entry
\* below which it would be inserted.
RECURSIVE Descend(_, _, _)
Descend(t, key, c) ==
    LET side == IF key > c THEN 1 ELSE 0
    IN IF key = c \/ Link(t, c, side) = Null THEN c
       ELSE Descend(t, key, Link(t, c, side))

CAvl_Lookup(t, key) == IF t.root = Null THEN Null ELSE Descend(t, key, t.root)

CAvl_LookupExact(t, key) == IF CAvl_Lookup(t, key) = key THEN key ELSE Null

CAvl_Insert(t, node) ==
    LET c == CAvl_Lookup(t, node)
    IN IF c = node THEN [t |-> t, res |-> 0, ref |-> c]
       ELSE [t |-> InsertBelow(t, node, c, IF node > c THEN 1 ELSE 0),
             res |-> 1, ref |-> c]

\* CAvl_child_count is Count of the child.
RECURSIVE DescendTo(_, _, _, _)
DescendTo(t, index, c, c_idx) ==
    LET side == IF index > c_idx THEN 1 ELSE 0
        next == Link(t, c, side)
    IN IF next = Null THEN [c |-> c, side |-> side]
       ELSE DescendTo(t, index, next,
              IF side = 0 THEN c_idx - 1 - Count(t, Link(t, next, 1))
              ELSE c_idx + 1 + Count(t, Link(t, next, 0)))

CAvl_InsertAt(t, node, index) ==
    IF t.root = Null THEN InsertBelow(t, node, Null, 0)
    ELSE LET d == DescendTo(t, index, t.root, Count(t, Link(t, t.root, 0)))
         IN InsertBelow(t, node, d.c, d.side)

Rebalanced(t, paren, side) == IF paren = Null THEN t ELSE CAvl_rebalance(t, paren, side, -1)

\* node has at most one child.
RemoveLeaf(t, node) ==
    LET paren == Parent(t, node)
        child == IF Link(t, node, 0) # Null THEN Link(t, node, 0) ELSE Link(t, node, 1)
    IN Rebalanced(CAvl_replace_subtree_fix_assoc(
                      Asserted(t, \E d \in Side : Link(t, node, d) = Null), node, child, paren),
                  paren, IF paren = Null THEN 0 ELSE SideOf(t, paren, node))

CAvl_Remove(t, node) ==
    LET max == CAvl_subtree_max(t, Link(t, node, 0))
    IN [RemoveLeaf(IF Link(t, node, 0) # Null /\ Link(t, node, 1) # Null
                   THEN CAvl_swap_for_remove(t, node, max, Parent(t, node), Parent(t, max))
                   ELSE t, node)
          EXCEPT !.e[node] = Blank]

CAvl_GetFirst(t) == IF t.root = Null THEN Null ELSE CAvl_subtree_min(t, t.root)
CAvl_GetLast(t)  == IF t.root = Null THEN Null ELSE CAvl_subtree_max(t, t.root)

\* The nearest entry above n that n is on side 1 - d of.
RECURSIVE Climb(_, _, _)
Climb(t, n, d) ==
    LET p == Parent(t, n)
    IN IF p # Null /\ n = Link(t, p, d) THEN Climb(t, p, d) ELSE p

CAvl_GetNext(t, n) ==
    IF Link(t, n, 1) # Null THEN CAvl_subtree_min(t, Link(t, n, 1)) ELSE Climb(t, n, 1)
CAvl_GetPrev(t, n) ==
    IF Link(t, n, 0) # Null THEN CAvl_subtree_max(t, Link(t, n, 0)) ELSE Climb(t, n, 0)

CAvl_GetFirstGreater(t, key) ==
    LET c == CAvl_Lookup(t, key)
    IN IF c # Null /\ key >= c THEN CAvl_GetNext(t, c) ELSE c
CAvl_GetLastLesser(t, key) ==
    LET c == CAvl_Lookup(t, key)
    IN IF c # Null /\ key <= c THEN CAvl_GetPrev(t, c) ELSE c
CAvl_GetFirstGreaterEqual(t, key) ==
    LET c == CAvl_Lookup(t, key)
    IN IF c # Null /\ key > c THEN CAvl_GetNext(t, c) ELSE c
CAvl_GetLastLesserEqual(t, key) ==
    LET c == CAvl_Lookup(t, key)
    IN IF c # Null /\ key < c THEN CAvl_GetPrev(t, c) ELSE c

CAvl_IsEmpty(t) == t.root = Null
CAvl_Count(t) == Count(t, t.root)
CAvl_AssocSum(t) == Assoc(t, t.root)

\* Both walks to the root add what lies on the left of the path.
RECURSIVE IndexAbove(_, _), SumAbove(_, _, _)
IndexAbove(t, c) ==
    LET p == Parent(t, c)
    IN IF p = Null THEN 0
       ELSE IndexAbove(t, p) + (IF c = Link(t, p, 1) THEN Count(t, p) - Count(t, c) ELSE 0)

CAvl_IndexOf(t, node) == Count(t, Link(t, node, 0)) + IndexAbove(t, node)

SumAbove(t, c, sum) ==
    LET p == Parent(t, c)
    IN IF p = Null THEN sum
       ELSE SumAbove(t, p, IF c = Link(t, p, 1)
                           THEN Assoc(t, Link(t, p, 0)) \o <<p>> \o sum ELSE sum)

CAvl_ExclusiveAssocPrefixSum(t, node) == SumAbove(t, node, Assoc(t, Link(t, node, 0)))

RECURSIVE GetAtBelow(_, _, _)
GetAtBelow(t, c, index) ==
    LET left_count == Count(t, Link(t, c, 0))
    IN CASE index = left_count -> c
         [] index < left_count -> GetAtBelow(t, Link(t, c, 0), index)
         [] index > left_count -> GetAtBelow(t, Link(t, c, 1), index - left_count - 1)

CAvl_GetAt(t, index) ==
    IF index >= CAvl_Count(t) THEN Null ELSE GetAtBelow(t, t.root, index)

\* sum_less compares the lengths of two sums.
RECURSIVE FindBelow(_, _, _, _, _)
FindBelow(t, c, len, result, sum_offset) ==
    IF c = Null THEN result
    ELSE LET c_prefixsum == sum_offset \o Assoc(t, Link(t, c, 0))
         IN IF len < Len(c_prefixsum)
            THEN FindBelow(t, Link(t, c, 0), len, result, sum_offset)
            ELSE FindBelow(t, Link(t, c, 1), len, c, c_prefixsum \o <<c>>)

CAvl_FindLastExclusiveAssocPrefixSumLesserEqual(t, len) ==
    FindBelow(t, t.root, len, Null, <<>>)

\* The height of the subtree, or -1 when a check of CAvl_verify_recurser fails.
RECURSIVE CAvl_verify_recurser(_, _, _)
CAvl_verify_recurser(t, n, keys) ==
    LET l == Link(t, n, 0)
        r == Link(t, n, 1)
        height(c) == IF c = Null THEN 0 ELSE CAvl_verify_recurser(t, c, keys)
        good == /\ t.e[n].balance \in -1 .. 1
                /\ l # Null => Parent(t, l) = n /\ (keys => l < n)
                /\ r # Null => Parent(t, r) = n /\ (keys => r > n)
                /\ height(l) >= 0 /\ height(r) >= 0
                /\ t.e[n].balance = height(r) - height(l)
                /\ t.e[n].count = 1 + Count(t, l) + Count(t, r)
                /\ t.e[n].assoc = CAvl_compute_node_assoc(t, n)
    IN IF good THEN Max2(height(l), height(r)) + 1 ELSE -1

CAvl_Verify(t, keys) ==
    t.root # Null => Parent(t, t.root) = Null /\ CAvl_verify_recurser(t, t.root, keys) > 0

-----------------------------------------------------------------------------
(* structure/BAVL.h.  It differs in the swap, which takes its two nodes in *)
(* either order.                                                           *)

BAVL_swap_nodes(t, n1, n2) ==
    IF Parent(t, n1) = n2 THEN CAvl_swap_for_remove(t, n2, n1, Parent(t, n2), n2)
    ELSE CAvl_swap_for_remove(t, n1, n2, Parent(t, n1), Parent(t, n2))

BAVL_rotate(t, r, dir) == CAvl_rotate(t, r, dir, Parent(t, r))
BAVL_replace_subtree(t, dest, n) ==
    CAvl_replace_subtree_fix_assoc(t, dest, n, Parent(t, dest))
BAVL_rebalance(t, node, side, deltac) == CAvl_rebalance(t, node, side, deltac)
BAVL_Insert(t, node) == CAvl_Insert(t, node)
BAVL_Lookup(t, val) == CAvl_Lookup(t, val)
BAVL_LookupExact(t, val) == CAvl_LookupExact(t, val)
BAVL_GetFirst(t) == CAvl_GetFirst(t)
BAVL_GetLast(t) == CAvl_GetLast(t)
BAVL_GetNext(t, n) == CAvl_GetNext(t, n)
BAVL_GetPrev(t, n) == CAvl_GetPrev(t, n)
BAVL_IndexOf(t, n) == CAvl_IndexOf(t, n)
BAVL_GetAt(t, index) == CAvl_GetAt(t, index)

BAVL_RemoveLeaf(t, node) ==
    LET paren == Parent(t, node)
        child == IF Link(t, node, 0) # Null THEN Link(t, node, 0) ELSE Link(t, node, 1)
        unlinked == BAVL_replace_subtree(t, node, child)
    IN IF paren = Null THEN unlinked
       ELSE BAVL_rebalance(unlinked, paren, SideOf(t, paren, node), -1)

BAVL_Remove(t, node) ==
    [BAVL_RemoveLeaf(IF Link(t, node, 0) # Null /\ Link(t, node, 1) # Null
                     THEN BAVL_swap_nodes(t, node, CAvl_subtree_max(t, Link(t, node, 0)))
                     ELSE t, node)
       EXCEPT !.e[node] = Blank]
=============================================================================
