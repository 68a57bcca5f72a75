----------------------------- MODULE RowSequence -----------------------------
(***************************************************************************)
(* The balanced tree in which the client stages a large delta              *)
(* (SequenceNode in client/live-query-state.ts): a window as a treap whose *)
(* nodes know their parents and the size of what is below them, so that a  *)
(* row is found by its position and a position by its row.                 *)
(*                                                                         *)
(* The nodes are kept by the key of their row, as in the map of            *)
(* stageStructuralBatch; positions count from 0 here.  The priorities are  *)
(* a hash of the order of creation in the code, any order here.            *)
(***************************************************************************)
EXTENDS Naturals, Sequences

CONSTANTS Keys, Rows,
          Priority(_),  \* of the n-th node
          NoNode

\* `id` tells the order of creation, and so the priority.
Node == [id : Nat, row : Rows, left : Keys \union {NoNode}, right : Keys \union {NoNode},
         parent : Keys \union {NoNode}, size : Nat]

NoNodes == [k \in Keys |-> NoNode]

Links(nodes) == {k \in Keys : nodes[k] # NoNode} \union {NoNode}

\* makeSequenceNode
NewNode(id, row) ==
    [id |-> id, row |-> row, left |-> NoNode, right |-> NoNode, parent |-> NoNode, size |-> 1]

SizeOf(nodes, k) == IF k = NoNode THEN 0 ELSE nodes[k].size

WithParent(nodes, k, parent) ==
    IF k = NoNode THEN nodes ELSE [nodes EXCEPT ![k].parent = parent]

AsRoot(nodes, k) == WithParent(nodes, k, NoNode)

\* updateSequenceNode: its size, and its children's parent.
Updated(nodes, n) ==
    LET sized == [nodes EXCEPT ![n].size = SizeOf(nodes, nodes[n].left)
                                             + SizeOf(nodes, nodes[n].right) + 1]
    IN  WithParent(WithParent(sized, nodes[n].left, n), nodes[n].right, n)

WithLeft(nodes, n, child) == AsRoot(Updated([nodes EXCEPT ![n].left = child], n), n)
WithRight(nodes, n, child) == AsRoot(Updated([nodes EXCEPT ![n].right = child], n), n)

\* mergeSequence
Merge(nodes, left, right) ==
    LET merge[pair \in Links(nodes) \X Links(nodes)] ==
            LET l == pair[1]
                r == pair[2]
            IN  IF l = NoNode \/ r = NoNode
                THEN LET root == IF l = NoNode THEN r ELSE l
                     IN  [nodes |-> AsRoot(nodes, root), root |-> root]
                ELSE IF Priority(nodes[l].id) < Priority(nodes[r].id)
                THEN LET below == merge[<<nodes[l].right, r>>]
                     IN  [nodes |-> WithRight(below.nodes, l, below.root), root |-> l]
                ELSE LET below == merge[<<l, nodes[r].left>>]
                     IN  [nodes |-> WithLeft(below.nodes, r, below.root), root |-> r]
    IN  merge[<<left, right>>]

\* splitSequence: the first so many rows, and the others.
Split(nodes, top, number) ==
    LET split[rest \in Links(nodes) \X Nat] ==
            LET root == rest[1]
                count == rest[2]
                leftSize == SizeOf(nodes, nodes[root].left)
            IN  IF root = NoNode THEN [nodes |-> nodes, left |-> NoNode, right |-> NoNode]
                ELSE IF count <= leftSize
                THEN LET below == split[<<nodes[root].left, count>>]
                         relinked == WithLeft(below.nodes, root, below.right)
                     IN  [nodes |-> AsRoot(relinked, below.left),
                          left |-> below.left, right |-> root]
                ELSE LET below == split[<<nodes[root].right, count - leftSize - 1>>]
                         relinked == WithRight(below.nodes, root, below.left)
                     IN  [nodes |-> AsRoot(relinked, below.right),
                          left |-> root, right |-> below.right]
    IN  split[<<top, number>>]

\* sequenceNodeAt
NodeAt(nodes, top, position) ==
    LET at[rest \in Links(nodes) \X Nat] ==
            LET root == rest[1]
                index == rest[2]
                leftSize == SizeOf(nodes, nodes[root].left)
            IN  IF root = NoNode \/ index = leftSize THEN root
                ELSE IF index < leftSize THEN at[<<nodes[root].left, index>>]
                ELSE at[<<nodes[root].right, index - leftSize - 1>>]
    IN  at[<<top, position>>]

\* sequenceNodeIndex: up the parents, past the rows to the left.
NodeIndex(nodes, k) ==
    LET before[n \in Links(nodes) \ {NoNode}] ==
            LET parent == nodes[n].parent
            IN  IF parent = NoNode THEN 0
                ELSE before[parent] + (IF nodes[parent].right = n
                                       THEN SizeOf(nodes, nodes[parent].left) + 1 ELSE 0)
    IN  SizeOf(nodes, nodes[k].left) + before[k]

\* materializeSequence
Materialized(nodes, top) ==
    LET rows[root \in Links(nodes)] ==
            IF root = NoNode THEN <<>>
            ELSE rows[nodes[root].left] \o <<[key |-> root, row |-> nodes[root].row]>>
                    \o rows[nodes[root].right]
    IN  rows[top]

-----------------------------------------------------------------------------
(* The operations of a batch *)

\* The trees `nodes`, the root, and how many nodes were made.
EmptyTree == [nodes |-> NoNodes, root |-> NoNode, made |-> 0]

Contains(tree, key) == tree.nodes[key] # NoNode

Length(tree) == SizeOf(tree.nodes, tree.root)

KeyAt(tree, index) == NodeAt(tree.nodes, tree.root, index)

Rooted(tree, merged) == [tree EXCEPT !.nodes = merged.nodes, !.root = merged.root]

\* The tree, and after it what hangs on another root.
FollowedBy(tree, root) == Rooted(tree, Merge(tree.nodes, tree.root, root))

\* A node between the first rows and the others.
Between(tree, parts, k) ==
    FollowedBy(FollowedBy([tree EXCEPT !.nodes = parts.nodes, !.root = parts.left], k),
               parts.right)

WithRow(tree, key, row) ==
    [tree EXCEPT !.nodes[key] = NewNode(tree.made + 1, row), !.made = @ + 1]

Grown(tree, key, row) == FollowedBy(WithRow(tree, key, row), key)

Inserted(tree, index, key, row) ==
    LET made == WithRow(tree, key, row)
    IN  Between(made, Split(made.nodes, made.root, index), key)

\* The row at a position, out of the tree.
Rejoined(tree, outer, inner) ==
    [tree |-> Rooted(tree, Merge(inner.nodes, outer.left, inner.right)), node |-> inner.left]

TakenFrom(tree, outer) == Rejoined(tree, outer, Split(outer.nodes, outer.right, 1))

TakenOut(tree, index) == TakenFrom(tree, Split(tree.nodes, tree.root, index))

PutBack(taken, to) ==
    Between(taken.tree, Split(taken.tree.nodes, taken.tree.root, to), taken.node)

MovedTo(tree, from, to) == PutBack(TakenOut(tree, from), to)

Without(tree, key) ==
    [TakenOut(tree, NodeIndex(tree.nodes, key)).tree EXCEPT !.nodes[key] = NoNode]

Replaced(tree, key, row) == [tree EXCEPT !.nodes[key].row = row]

=============================================================================
