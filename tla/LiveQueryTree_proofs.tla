------------------------ MODULE LiveQueryTree_proofs ------------------------
(***************************************************************************)
(* The tree a large delta is staged in (RowSequence): a tree over the keys *)
(* of a window, in its order, stays one under merge and split; so every    *)
(* operation in the tree is that operation in the window, and a staged     *)
(* batch does what the batch in place does (StagedIs).                     *)
(*                                                                         *)
(* A recursion of the code ends because sizes decrease from a node to      *)
(* those below it; its function is the value of one that is unfolded once  *)
(* (MergeIsRecursive and the like).                                        *)
(***************************************************************************)
EXTENDS LiveQueryDelta_proofs

-----------------------------------------------------------------------------
(* Nodes of the staging tree *)

\* The map of stageStructuralBatch.
Nodes == [Keys -> Tree!Node \union {NoNode}]

\* The keys that have a node.
Present(nodes) == {k \in Keys : nodes[k] # NoNode}

\* What a link may be in such a map.
LEMMA LinksAre ==
  ASSUME NEW nodes
  PROVE  Tree!Links(nodes) = Present(nodes) \union {NoNode}
BY DEF Tree!Links, Present

\* A link to nothing is no key.
LEMMA NoNodeIsNoKey == \A k \in Keys : k # NoNode
BY NoNodeIsNone

\* The fields of a node.
LEMMA NodeIs ==
  ASSUME NEW nodes \in Nodes, NEW k \in Present(nodes)
  PROVE  /\ nodes[k] \in Tree!Node /\ k \in Keys /\ k # NoNode
         /\ nodes[k].left \in Keys \union {NoNode} /\ nodes[k].right \in Keys \union {NoNode}
         /\ nodes[k].parent \in Keys \union {NoNode}
         /\ nodes[k].size \in Nat /\ nodes[k].row \in Rows
<1>1. nodes[k] \in Tree!Node /\ k \in Keys /\ k # NoNode
  BY NoNodeIsNoKey DEF Present, Nodes
<1>. QED
  BY <1>1 DEF Tree!Node

\* Two families of nodes that differ, if at all, in links and sizes of some keys.
Keeps(nodes, new, K) ==
    /\ new \in Nodes
    /\ Present(new) = Present(nodes)
    /\ \A k \in Present(nodes) : new[k].row = nodes[k].row
    /\ \A k \in Keys \ K : new[k] = nodes[k]

\* Nothing changed.
LEMMA KeepsAll ==
  ASSUME NEW nodes \in Nodes, NEW K
  PROVE  Keeps(nodes, nodes, K)
BY DEF Keeps

\* One change after the other.
LEMMA KeepsThen ==
  ASSUME NEW nodes, NEW new, NEW newer, NEW K, NEW L, NEW M,
         Keeps(nodes, new, K), Keeps(new, newer, L), K \subseteq M, L \subseteq M
  PROVE  Keeps(nodes, newer, M)
BY DEF Keeps

\* Some fields of one node.
IsSet(new, nodes, k, left, right, parent, size) ==
    /\ new \in Nodes
    /\ \A j \in Keys \ {k} : new[j] = nodes[j]
    /\ new[k] # NoNode
    /\ new[k].left = left /\ new[k].right = right /\ new[k].parent = parent
    /\ new[k].size = size /\ new[k].row = nodes[k].row

\* An assignment to the left child of a node.
LEMMA SetLeftField ==
  ASSUME NEW node \in Tree!Node, NEW x \in Keys \union {NoNode}
  PROVE  /\ [node EXCEPT !.left = x] \in Tree!Node
         /\ [node EXCEPT !.left = x].left = x
         /\ [node EXCEPT !.left = x].right = node.right
         /\ [node EXCEPT !.left = x].parent = node.parent
         /\ [node EXCEPT !.left = x].size = node.size
         /\ [node EXCEPT !.left = x].row = node.row
BY DEF Tree!Node

\* The same in the map.
LEMMA SetLeft ==
  ASSUME NEW nodes \in Nodes, NEW k \in Present(nodes), NEW x \in Keys \union {NoNode}
  PROVE  IsSet([nodes EXCEPT ![k].left = x], nodes, k, x, nodes[k].right, nodes[k].parent, nodes[k].size)
<1>. DEFINE node == [nodes[k] EXCEPT !.left = x]
            new == [nodes EXCEPT ![k] = node]
<1>1. nodes[k] \in Tree!Node /\ k \in Keys
  BY NodeIs
<1>2. /\ node \in Tree!Node /\ node.row = nodes[k].row
      /\ node.left = x
      /\ node.right = nodes[k].right
      /\ node.parent = nodes[k].parent
      /\ node.size = nodes[k].size
  BY <1>1, SetLeftField
<1>3. node # NoNode
  BY <1>2, NoNodeIsNone
<1>4. [nodes EXCEPT ![k].left = x] = new
  OBVIOUS
<1>. HIDE DEF node
<1>5. new \in Nodes /\ new[k] = node /\ \A j \in Keys \ {k} : new[j] = nodes[j]
  BY <1>1, <1>2 DEF Nodes
<1>. HIDE DEF new
<1>6. IsSet(new, nodes, k, x, nodes[k].right, nodes[k].parent, nodes[k].size)
  BY <1>2, <1>3, <1>5 DEF IsSet
<1>. QED
  BY <1>4, <1>6

\* An assignment to the right child.
LEMMA SetRightField ==
  ASSUME NEW node \in Tree!Node, NEW x \in Keys \union {NoNode}
  PROVE  /\ [node EXCEPT !.right = x] \in Tree!Node
         /\ [node EXCEPT !.right = x].left = node.left
         /\ [node EXCEPT !.right = x].right = x
         /\ [node EXCEPT !.right = x].parent = node.parent
         /\ [node EXCEPT !.right = x].size = node.size
         /\ [node EXCEPT !.right = x].row = node.row
BY DEF Tree!Node

\* The same in the map.
LEMMA SetRight ==
  ASSUME NEW nodes \in Nodes, NEW k \in Present(nodes), NEW x \in Keys \union {NoNode}
  PROVE  IsSet([nodes EXCEPT ![k].right = x], nodes, k, nodes[k].left, x, nodes[k].parent, nodes[k].size)
<1>. DEFINE node == [nodes[k] EXCEPT !.right = x]
            new == [nodes EXCEPT ![k] = node]
<1>1. nodes[k] \in Tree!Node /\ k \in Keys
  BY NodeIs
<1>2. /\ node \in Tree!Node /\ node.row = nodes[k].row
      /\ node.left = nodes[k].left
      /\ node.right = x
      /\ node.parent = nodes[k].parent
      /\ node.size = nodes[k].size
  BY <1>1, SetRightField
<1>3. node # NoNode
  BY <1>2, NoNodeIsNone
<1>4. [nodes EXCEPT ![k].right = x] = new
  OBVIOUS
<1>. HIDE DEF node
<1>5. new \in Nodes /\ new[k] = node /\ \A j \in Keys \ {k} : new[j] = nodes[j]
  BY <1>1, <1>2 DEF Nodes
<1>. HIDE DEF new
<1>6. IsSet(new, nodes, k, nodes[k].left, x, nodes[k].parent, nodes[k].size)
  BY <1>2, <1>3, <1>5 DEF IsSet
<1>. QED
  BY <1>4, <1>6

\* An assignment to the parent.
LEMMA SetParentField ==
  ASSUME NEW node \in Tree!Node, NEW x \in Keys \union {NoNode}
  PROVE  /\ [node EXCEPT !.parent = x] \in Tree!Node
         /\ [node EXCEPT !.parent = x].left = node.left
         /\ [node EXCEPT !.parent = x].right = node.right
         /\ [node EXCEPT !.parent = x].parent = x
         /\ [node EXCEPT !.parent = x].size = node.size
         /\ [node EXCEPT !.parent = x].row = node.row
BY DEF Tree!Node

\* The same in the map.
LEMMA SetParent ==
  ASSUME NEW nodes \in Nodes, NEW k \in Present(nodes), NEW x \in Keys \union {NoNode}
  PROVE  IsSet([nodes EXCEPT ![k].parent = x], nodes, k, nodes[k].left, nodes[k].right, x, nodes[k].size)
<1>. DEFINE node == [nodes[k] EXCEPT !.parent = x]
            new == [nodes EXCEPT ![k] = node]
<1>1. nodes[k] \in Tree!Node /\ k \in Keys
  BY NodeIs
<1>2. /\ node \in Tree!Node /\ node.row = nodes[k].row
      /\ node.left = nodes[k].left
      /\ node.right = nodes[k].right
      /\ node.parent = x
      /\ node.size = nodes[k].size
  BY <1>1, SetParentField
<1>3. node # NoNode
  BY <1>2, NoNodeIsNone
<1>4. [nodes EXCEPT ![k].parent = x] = new
  OBVIOUS
<1>. HIDE DEF node
<1>5. new \in Nodes /\ new[k] = node /\ \A j \in Keys \ {k} : new[j] = nodes[j]
  BY <1>1, <1>2 DEF Nodes
<1>. HIDE DEF new
<1>6. IsSet(new, nodes, k, nodes[k].left, nodes[k].right, x, nodes[k].size)
  BY <1>2, <1>3, <1>5 DEF IsSet
<1>. QED
  BY <1>4, <1>6

\* An assignment to the size.
LEMMA SetSizeField ==
  ASSUME NEW node \in Tree!Node, NEW x \in Nat
  PROVE  /\ [node EXCEPT !.size = x] \in Tree!Node
         /\ [node EXCEPT !.size = x].left = node.left
         /\ [node EXCEPT !.size = x].right = node.right
         /\ [node EXCEPT !.size = x].parent = node.parent
         /\ [node EXCEPT !.size = x].size = x
         /\ [node EXCEPT !.size = x].row = node.row
BY DEF Tree!Node

\* The same in the map.
LEMMA SetSize ==
  ASSUME NEW nodes \in Nodes, NEW k \in Present(nodes), NEW x \in Nat
  PROVE  IsSet([nodes EXCEPT ![k].size = x], nodes, k, nodes[k].left, nodes[k].right, nodes[k].parent, x)
<1>. DEFINE node == [nodes[k] EXCEPT !.size = x]
            new == [nodes EXCEPT ![k] = node]
<1>1. nodes[k] \in Tree!Node /\ k \in Keys
  BY NodeIs
<1>2. /\ node \in Tree!Node /\ node.row = nodes[k].row
      /\ node.left = nodes[k].left
      /\ node.right = nodes[k].right
      /\ node.parent = nodes[k].parent
      /\ node.size = x
  BY <1>1, SetSizeField
<1>3. node # NoNode
  BY <1>2, NoNodeIsNone
<1>4. [nodes EXCEPT ![k].size = x] = new
  OBVIOUS
<1>. HIDE DEF node
<1>5. new \in Nodes /\ new[k] = node /\ \A j \in Keys \ {k} : new[j] = nodes[j]
  BY <1>1, <1>2 DEF Nodes
<1>. HIDE DEF new
<1>6. IsSet(new, nodes, k, nodes[k].left, nodes[k].right, nodes[k].parent, x)
  BY <1>2, <1>3, <1>5 DEF IsSet
<1>. QED
  BY <1>4, <1>6

\* Only that node has changed, and not its row.
LEMMA SetIs ==
  ASSUME NEW nodes \in Nodes, NEW k \in Present(nodes), NEW new, NEW left, NEW right,
         NEW parent, NEW size, IsSet(new, nodes, k, left, right, parent, size)
  PROVE  Keeps(nodes, new, {k})
<1>1. k \in Keys /\ nodes[k] # NoNode
  BY DEF Present
<1>2. Present(new) = Present(nodes)
  BY <1>1 DEF Present, IsSet
<1>3. new \in Nodes /\ new[k].row = nodes[k].row /\ \A j \in Keys \ {k} : new[j] = nodes[j]
  BY DEF IsSet
<1>4. \A j \in Present(nodes) : new[j].row = nodes[j].row
  <2>1. \A j \in Present(nodes) : j = k \/ j \in Keys \ {k}
    BY DEF Present
  <2>. QED
    BY <1>3, <2>1
<1>. QED
  BY <1>2, <1>3, <1>4 DEF Keeps

\* A node's parent is set, if there is the node.
IsAdopted(new, nodes, k, parent) ==
    /\ Keeps(nodes, new, {k})
    /\ \A j \in Present(nodes) : /\ new[j].left = nodes[j].left
                                 /\ new[j].right = nodes[j].right
                                 /\ new[j].size = nodes[j].size
                                 /\ new[j].parent = IF j = k THEN parent ELSE nodes[j].parent

\* WithParent does that.
LEMMA WithParentIs ==
  ASSUME NEW nodes \in Nodes, NEW k \in Present(nodes) \union {NoNode},
         NEW parent \in Keys \union {NoNode}
  PROVE  IsAdopted(Tree!WithParent(nodes, k, parent), nodes, k, parent)
<1>. DEFINE new == Tree!WithParent(nodes, k, parent)
<1>1. CASE k = NoNode
  <2>1. new = nodes
    BY <1>1 DEF Tree!WithParent
  <2>2. \A j \in Present(nodes) : j # k
    BY <1>1, NoNodeIsNoKey DEF Present
  <2>3. IsAdopted(nodes, nodes, k, parent)
    BY <2>2, KeepsAll DEF IsAdopted
  <2>. QED
    BY <2>1, <2>3
<1>2. CASE k # NoNode
  <2>1. k \in Present(nodes)
    BY <1>2
  <2>2. new = [nodes EXCEPT ![k].parent = parent]
    BY <1>2 DEF Tree!WithParent
  <2>3. IsSet(new, nodes, k, nodes[k].left, nodes[k].right, parent, nodes[k].size)
    BY <2>1, <2>2, SetParent
  <2>. HIDE DEF new
  <2>4. Keeps(nodes, new, {k})
    BY <2>1, <2>3, SetIs
  <2>5. \A j \in Present(nodes) : j \in Keys /\ (j # k => new[j] = nodes[j])
    BY <2>3 DEF IsSet, Present
  <2>6. IsAdopted(new, nodes, k, parent)
    BY <2>3, <2>4, <2>5 DEF IsAdopted, IsSet
  <2>. QED
    BY <2>6 DEF new
<1>. QED
  BY <1>1, <1>2

\* A node's children are set, as updateSequenceNode leaves it, a root.
Relinked(new, nodes, n, left, right) ==
    /\ Keeps(nodes, new, {n, left, right})
    /\ \A k \in Present(nodes) \ {n} : /\ new[k].left = nodes[k].left
                                       /\ new[k].right = nodes[k].right
                                       /\ new[k].size = nodes[k].size
    /\ new[n].left = left /\ new[n].right = right /\ new[n].parent = NoNode
    /\ new[n].size = Tree!SizeOf(nodes, left) + Tree!SizeOf(nodes, right) + 1
    /\ \A c \in {left, right} : c # NoNode => new[c].parent = n

\* From a node whose children are set, but not its size nor their parent.
LEMMA UpdatedIs ==
  ASSUME NEW nodes \in Nodes, NEW n \in Present(nodes), NEW left, NEW right,
         left \in Present(nodes) \union {NoNode}, right \in Present(nodes) \union {NoNode},
         left # n, right # n, nodes[n].left = left, nodes[n].right = right
  PROVE  Relinked(Tree!AsRoot(Tree!Updated(nodes, n), n), nodes, n, left, right)
<1>. DEFINE size == Tree!SizeOf(nodes, left) + Tree!SizeOf(nodes, right) + 1
            b == [nodes EXCEPT ![n].size = size]
            c == Tree!WithParent(b, left, n)
            d == Tree!WithParent(c, right, n)
            e == Tree!WithParent(d, n, NoNode)
<1>1. Tree!AsRoot(Tree!Updated(nodes, n), n) = e
  BY DEF Tree!AsRoot, Tree!Updated
<1>2. size \in Nat /\ n \in Keys /\ n # NoNode
  BY NodeIs DEF Tree!SizeOf
<1>. HIDE DEF size
<1>3. IsSet(b, nodes, n, left, right, nodes[n].parent, size)
  BY <1>2, SetSize
<1>. HIDE DEF b
<1>4. Keeps(nodes, b, {n}) /\ b \in Nodes /\ Present(b) = Present(nodes)
  BY <1>3, SetIs DEF Keeps
<1>5. IsAdopted(c, b, left, n)
  BY <1>2, <1>4, WithParentIs
<1>. HIDE DEF c
<1>6. Keeps(b, c, {left}) /\ c \in Nodes /\ Present(c) = Present(nodes)
  BY <1>4, <1>5 DEF Keeps, IsAdopted
<1>7. IsAdopted(d, c, right, n)
  BY <1>2, <1>6, WithParentIs
<1>. HIDE DEF d
<1>8. Keeps(c, d, {right}) /\ d \in Nodes /\ Present(d) = Present(nodes)
  BY <1>6, <1>7 DEF Keeps, IsAdopted
<1>9. IsAdopted(e, d, n, NoNode)
  BY <1>2, <1>8, WithParentIs
<1>. HIDE DEF e
<1>10. Keeps(d, e, {n})
  BY <1>9 DEF IsAdopted
<1>. DEFINE M == {n, left, right}
<1>11. Keeps(nodes, e, M)
  <2>1. {n} \subseteq M /\ {left} \subseteq M /\ {right} \subseteq M
    OBVIOUS
  <2>. HIDE DEF M
  <2>2. Keeps(nodes, c, M)
    BY <1>4, <1>6, <2>1, KeepsThen
  <2>3. Keeps(nodes, d, M)
    BY <1>8, <2>1, <2>2, KeepsThen
  <2>. QED
    BY <1>10, <2>1, <2>3, KeepsThen
<1>12. ASSUME NEW k \in Present(nodes)
       PROVE  /\ e[k].left = b[k].left /\ e[k].right = b[k].right /\ e[k].size = b[k].size
              /\ e[k].parent = IF k = n THEN NoNode
                               ELSE IF k = right \/ k = left THEN n ELSE b[k].parent
  <2>1. /\ c[k].left = b[k].left /\ c[k].right = b[k].right /\ c[k].size = b[k].size
        /\ c[k].parent = IF k = left THEN n ELSE b[k].parent
    BY <1>4, <1>5 DEF IsAdopted
  <2>2. /\ d[k].left = c[k].left /\ d[k].right = c[k].right /\ d[k].size = c[k].size
        /\ d[k].parent = IF k = right THEN n ELSE c[k].parent
    BY <1>6, <1>7 DEF IsAdopted
  <2>3. /\ e[k].left = d[k].left /\ e[k].right = d[k].right /\ e[k].size = d[k].size
        /\ e[k].parent = IF k = n THEN NoNode ELSE d[k].parent
    BY <1>8, <1>9 DEF IsAdopted
  <2>. QED
    BY <2>1, <2>2, <2>3
<1>13. \A k \in Present(nodes) \ {n} : b[k] = nodes[k]
  BY <1>3 DEF IsSet, Present
<1>14. b[n].left = left /\ b[n].right = right /\ b[n].size = size
  BY <1>3 DEF IsSet
<1>15. \A k \in Present(nodes) \ {n} : /\ e[k].left = nodes[k].left
                                       /\ e[k].right = nodes[k].right
                                       /\ e[k].size = nodes[k].size
  BY <1>12, <1>13
<1>16. e[n].left = left /\ e[n].right = right /\ e[n].parent = NoNode /\ e[n].size = size
  BY <1>12, <1>14
<1>17. \A k \in {left, right} : k # NoNode => e[k].parent = n
  <2>1. \A k \in {left, right} : k # NoNode => k \in Present(nodes) /\ k # n /\ (k = left \/ k = right)
    OBVIOUS
  <2>. QED
    BY <1>12, <2>1
<1>18. Relinked(e, nodes, n, left, right)
  BY <1>11, <1>15, <1>16, <1>17 DEF Relinked, size
<1>. QED
  BY <1>1, <1>18

\* A field set before the children are does not matter.
LEMMA RelinkedThen ==
  ASSUME NEW nodes \in Nodes, NEW n \in Present(nodes), NEW set, NEW new,
         NEW left, NEW right, left # n, right # n, NEW parent, NEW size,
         IsSet(set, nodes, n, left, right, parent, size),
         left \in Present(nodes) \union {NoNode}, right \in Present(nodes) \union {NoNode},
         Relinked(new, set, n, left, right)
  PROVE  Relinked(new, nodes, n, left, right)
<1>1. Keeps(nodes, set, {n}) /\ Present(set) = Present(nodes)
  BY SetIs DEF Keeps
<1>2. \A k \in Present(nodes) \ {n} : set[k] = nodes[k]
  BY DEF IsSet, Present
<1>3. Tree!SizeOf(set, left) = Tree!SizeOf(nodes, left)
  BY <1>2 DEF Tree!SizeOf
<1>4. Tree!SizeOf(set, right) = Tree!SizeOf(nodes, right)
  BY <1>2 DEF Tree!SizeOf
<1>. DEFINE M == {n, left, right}
<1>5. Keeps(nodes, new, M)
  <2>1. {n} \subseteq M /\ Keeps(set, new, M)
    BY DEF Relinked
  <2>. HIDE DEF M
  <2>. QED
    BY <1>1, <2>1, KeepsThen
<1>6. \A k \in Present(nodes) \ {n} : /\ new[k].left = nodes[k].left
                                      /\ new[k].right = nodes[k].right
                                      /\ new[k].size = nodes[k].size
  BY <1>1, <1>2 DEF Relinked
<1>. QED
  BY <1>3, <1>4, <1>5, <1>6 DEF Relinked

\* A node with another left child.
LEMMA WithLeftIs ==
  ASSUME NEW nodes \in Nodes, NEW n \in Present(nodes), NEW child, NEW right,
         child # n, right # n, nodes[n].right = right,
         child \in Present(nodes) \union {NoNode}, right \in Present(nodes) \union {NoNode}
  PROVE  Relinked(Tree!WithLeft(nodes, n, child), nodes, n, child, right)
<1>. DEFINE set == [nodes EXCEPT ![n].left = child]
            new == Tree!AsRoot(Tree!Updated(set, n), n)
<1>1. Tree!WithLeft(nodes, n, child) = new
  BY DEF Tree!WithLeft
<1>2. child \in Keys \union {NoNode}
  BY DEF Present
<1>3. IsSet(set, nodes, n, child, right, nodes[n].parent, nodes[n].size)
  BY <1>2, SetLeft
<1>. HIDE DEF set
<1>4. set \in Nodes /\ Present(set) = Present(nodes) /\ set[n].left = child /\ set[n].right = right
  BY <1>3, SetIs DEF Keeps, IsSet
<1>5. Relinked(new, set, n, child, right)
  BY <1>4, UpdatedIs
<1>. HIDE DEF new
<1>6. Relinked(new, nodes, n, child, right)
  BY <1>3, <1>5, RelinkedThen
<1>. QED
  BY <1>1, <1>6

\* A node with another right child.
LEMMA WithRightIs ==
  ASSUME NEW nodes \in Nodes, NEW n \in Present(nodes), NEW child, NEW left,
         child # n, left # n, nodes[n].left = left,
         child \in Present(nodes) \union {NoNode}, left \in Present(nodes) \union {NoNode}
  PROVE  Relinked(Tree!WithRight(nodes, n, child), nodes, n, left, child)
<1>. DEFINE set == [nodes EXCEPT ![n].right = child]
            new == Tree!AsRoot(Tree!Updated(set, n), n)
<1>1. Tree!WithRight(nodes, n, child) = new
  BY DEF Tree!WithRight
<1>2. child \in Keys \union {NoNode}
  BY DEF Present
<1>3. IsSet(set, nodes, n, left, child, nodes[n].parent, nodes[n].size)
  BY <1>2, SetRight
<1>. HIDE DEF set
<1>4. set \in Nodes /\ Present(set) = Present(nodes) /\ set[n].left = left /\ set[n].right = child
  BY <1>3, SetIs DEF Keeps, IsSet
<1>5. Relinked(new, set, n, left, child)
  BY <1>4, UpdatedIs
<1>. HIDE DEF new
<1>6. Relinked(new, nodes, n, left, child)
  BY <1>3, <1>5, RelinkedThen
<1>. QED
  BY <1>1, <1>6

-----------------------------------------------------------------------------
(* Trees over an interval of a sequence of keys *)

\* A tree over x..y: nothing, or a root between two trees.
Unfolds(nodes, s, T, x, y, r) ==
    \/ r = NoNode /\ x = y + 1
    \/ /\ r \in Present(nodes) /\ nodes[r].size = y - x + 1
       /\ \E q \in x..y : /\ r = s[q]
                          /\ <<x, q - 1, nodes[r].left>> \in T
                          /\ <<q + 1, y, nodes[r].right>> \in T
       /\ \A c \in {nodes[r].left, nodes[r].right} : c # NoNode => nodes[c].parent = r

\* Triples of an interval and its root, each unfolding into others.
IsClosed(nodes, s, T) ==
    \A x, y, r : <<x, y, r>> \in T => x \in Int /\ y \in Int /\ Unfolds(nodes, s, T, x, y, r)

\* root is the root of a tree whose keys, in order, are those of s from a to b.
TreeOn(nodes, s, a, b, root) == \E T : IsClosed(nodes, s, T) /\ <<a, b, root>> \in T

\* The root of the tree is at q, between the trees of what is before and behind it.
IsCut(nodes, s, a, b, r, q) ==
    /\ a \in Int /\ b \in Int /\ q \in a..b
    /\ r = s[q] /\ r \in Present(nodes) /\ nodes[r].size = b - a + 1
    /\ TreeOn(nodes, s, a, q - 1, nodes[r].left)
    /\ TreeOn(nodes, s, q + 1, b, nodes[r].right)
    /\ \A c \in {nodes[r].left, nodes[r].right} : c # NoNode => nodes[c].parent = r

\* A node that is there is one.
LEMMA PresentIsNoNone ==
  ASSUME NEW nodes
  PROVE  NoNode \notin Present(nodes)
BY NoNodeIsNoKey DEF Present

\* A tree with a root is cut at it.
LEMMA Cut ==
  ASSUME NEW nodes, NEW s, NEW a, NEW b, NEW r, TreeOn(nodes, s, a, b, r), r # NoNode
  PROVE  \E q : IsCut(nodes, s, a, b, r, q)
<1>1. PICK T : IsClosed(nodes, s, T) /\ <<a, b, r>> \in T
  BY DEF TreeOn
<1>2. a \in Int /\ b \in Int /\ Unfolds(nodes, s, T, a, b, r)
  BY <1>1 DEF IsClosed
<1>3. /\ r \in Present(nodes) /\ nodes[r].size = b - a + 1
      /\ \A c \in {nodes[r].left, nodes[r].right} : c # NoNode => nodes[c].parent = r
  BY <1>2 DEF Unfolds
<1>4. PICK q \in a..b : /\ r = s[q]
                        /\ <<a, q - 1, nodes[r].left>> \in T
                        /\ <<q + 1, b, nodes[r].right>> \in T
  BY <1>2 DEF Unfolds
<1>5. TreeOn(nodes, s, a, q - 1, nodes[r].left)
  BY <1>1, <1>4 DEF TreeOn
<1>6. TreeOn(nodes, s, q + 1, b, nodes[r].right)
  BY <1>1, <1>4 DEF TreeOn
<1>7. IsCut(nodes, s, a, b, r, q)
  BY <1>2, <1>3, <1>4, <1>5, <1>6 DEF IsCut
<1>. QED
  BY <1>7

\* The empty tree.
LEMMA Bare ==
  ASSUME NEW nodes, NEW s, NEW a \in Int
  PROVE  TreeOn(nodes, s, a, a - 1, NoNode)
<1>. DEFINE T == {<<a, a - 1, NoNode>>}
<1>1. \A x, y, r : <<x, y, r>> \in T => x = a /\ y = a - 1 /\ r = NoNode
  OBVIOUS
<1>2. <<a, a - 1, NoNode>> \in T
  OBVIOUS
<1>. HIDE DEF T
<1>3. IsClosed(nodes, s, T)
  BY <1>1 DEF IsClosed, Unfolds
<1>. QED
  BY <1>2, <1>3 DEF TreeOn

\* The size of the root counts the interval, and there is no root only over no keys.
LEMMA RootIs ==
  ASSUME NEW nodes, NEW s, NEW a, NEW b, NEW r, TreeOn(nodes, s, a, b, r)
  PROVE  /\ a \in Int /\ b \in Int /\ a <= b + 1
         /\ r \in Present(nodes) \union {NoNode}
         /\ Tree!SizeOf(nodes, r) = b - a + 1
         /\ r = NoNode <=> a = b + 1
<1>1. CASE r = NoNode
  <2>1. PICK T : IsClosed(nodes, s, T) /\ <<a, b, r>> \in T
    BY DEF TreeOn
  <2>2. a \in Int /\ b \in Int /\ Unfolds(nodes, s, T, a, b, r)
    BY <2>1 DEF IsClosed
  <2>3. a = b + 1
    BY <1>1, <2>2, PresentIsNoNone DEF Unfolds
  <2>4. Tree!SizeOf(nodes, r) = 0
    BY <1>1 DEF Tree!SizeOf
  <2>. QED
    BY <1>1, <2>2, <2>3, <2>4
<1>2. CASE r # NoNode
  <2>1. PICK q : IsCut(nodes, s, a, b, r, q)
    BY <1>2, Cut
  <2>2. Tree!SizeOf(nodes, r) = b - a + 1
    BY <1>2, <2>1 DEF Tree!SizeOf, IsCut
  <2>. QED
    BY <1>2, <2>1, <2>2 DEF IsCut
<1>. QED
  BY <1>1, <1>2

\* Two trees and a root between them are a tree.
LEMMA Join ==
  ASSUME NEW nodes, NEW s, NEW a, NEW b, NEW r, NEW q, IsCut(nodes, s, a, b, r, q)
  PROVE  TreeOn(nodes, s, a, b, r)
<1>1. PICK L : IsClosed(nodes, s, L) /\ <<a, q - 1, nodes[r].left>> \in L
  BY DEF IsCut, TreeOn
<1>2. PICK R : IsClosed(nodes, s, R) /\ <<q + 1, b, nodes[r].right>> \in R
  BY DEF IsCut, TreeOn
<1>. DEFINE T == (L \union R) \union {<<a, b, r>>}
<1>3. L \subseteq T /\ R \subseteq T /\ <<a, b, r>> \in T
  OBVIOUS
<1>4. ASSUME NEW x, NEW y, NEW c, <<x, y, c>> \in T
      PROVE  <<x, y, c>> \in L \/ <<x, y, c>> \in R \/ (x = a /\ y = b /\ c = r)
  BY <1>4
<1>. HIDE DEF T
<1>5. \A x, y, c, U : U \subseteq T /\ Unfolds(nodes, s, U, x, y, c) => Unfolds(nodes, s, T, x, y, c)
  BY DEF Unfolds
<1>6. Unfolds(nodes, s, T, a, b, r)
  BY <1>1, <1>2, <1>3 DEF Unfolds, IsCut
<1>7. a \in Int /\ b \in Int
  BY DEF IsCut
<1>8. ASSUME NEW x, NEW y, NEW c, <<x, y, c>> \in T
      PROVE  x \in Int /\ y \in Int /\ Unfolds(nodes, s, T, x, y, c)
  <2>1. CASE <<x, y, c>> \in L
    <3>1. x \in Int /\ y \in Int /\ Unfolds(nodes, s, L, x, y, c)
      BY <1>1, <2>1 DEF IsClosed
    <3>. QED
      BY <1>3, <1>5, <3>1
  <2>2. CASE <<x, y, c>> \in R
    <3>1. x \in Int /\ y \in Int /\ Unfolds(nodes, s, R, x, y, c)
      BY <1>2, <2>2 DEF IsClosed
    <3>. QED
      BY <1>3, <1>5, <3>1
  <2>3. CASE x = a /\ y = b /\ c = r
    BY <1>6, <1>7, <2>3
  <2>. QED
    BY <1>4, <1>8, <2>1, <2>2, <2>3
<1>9. IsClosed(nodes, s, T)
  BY <1>8 DEF IsClosed
<1>. QED
  BY <1>3, <1>9 DEF TreeOn

\* Two families of nodes that agree on the links of the keys of an interval, the parent
\* of the interval's root apart.
Agrees(nodes, new, s, a, b, r) ==
    \A q \in a..b : s[q] \in Present(nodes) =>
        /\ s[q] \in Present(new)
        /\ new[s[q]].left = nodes[s[q]].left /\ new[s[q]].right = nodes[s[q]].right
        /\ new[s[q]].size = nodes[s[q]].size
        /\ s[q] # r => new[s[q]].parent = nodes[s[q]].parent

\* A tree stays one when other nodes change and when its interval is shifted.
LEMMA Transfer ==
  ASSUME NEW nodes, NEW new, NEW s, NEW t, NEW a, NEW b, NEW r, NEW d \in Int,
         TreeOn(nodes, s, a, b, r), Agrees(nodes, new, s, a, b, r),
         \A q \in a..b : t[q + d] = s[q]
  PROVE  TreeOn(new, t, a + d, b + d, r)
<1>1. PICK T : IsClosed(nodes, s, T) /\ <<a, b, r>> \in T
  BY DEF TreeOn
<1>2. a \in Int /\ b \in Int /\ (r # NoNode => nodes[r].size = b - a + 1)
  <2>1. r # NoNode => Tree!SizeOf(nodes, r) = nodes[r].size
    BY DEF Tree!SizeOf
  <2>. QED
    BY <2>1, RootIs
<1>. DEFINE In(x, y, c) == x \in Int /\ y \in Int /\ <<x - d, y - d, c>> \in T /\ a <= x - d /\ y - d <= b
            C == {r} \union {nodes[k].left : k \in Keys} \union {nodes[k].right : k \in Keys}
            N == {u \in (Int \X Int) \X C : In(u[1][1], u[1][2], u[2])}
            U == {<<u[1][1], u[1][2], u[2]>> : u \in N}
<1>3. \A x, y, c : <<x, y, c>> \in U => In(x, y, c)
  OBVIOUS
<1>4. ASSUME NEW x, NEW y, NEW c \in C, In(x, y, c)
      PROVE  <<x, y, c>> \in U
  <2>. DEFINE u == <<<<x, y>>, c>>
  <2>1. u[1][1] = x /\ u[1][2] = y /\ u[2] = c
    OBVIOUS
  <2>2. u \in (Int \X Int) \X C
    BY <1>4
  <2>. HIDE DEF u
  <2>3. u \in N
    BY <1>4, <2>1, <2>2
  <2>. QED
    BY <2>1, <2>3
<1>5. \A k \in Keys : nodes[k].left \in C /\ nodes[k].right \in C
  OBVIOUS
<1>6. r \in C
  OBVIOUS
<1>. HIDE DEF U, C
<1>7. ASSUME NEW x, NEW y, NEW c, In(x, y, c)
      PROVE  Unfolds(new, t, U, x, y, c)
  <2>. DEFINE v == x - d
              w == y - d
  <2>1. x \in Int /\ y \in Int /\ <<v, w, c>> \in T /\ a <= v /\ w <= b
    BY <1>7
  <2>2. Unfolds(nodes, s, T, v, w, c)
    BY <1>1, <2>1 DEF IsClosed
  <2>3. CASE c = NoNode /\ v = w + 1
    BY <2>1, <2>3 DEF Unfolds
  <2>4. CASE ~(c = NoNode /\ v = w + 1)
    <3>1. /\ c \in Present(nodes) /\ nodes[c].size = w - v + 1
          /\ \A e \in {nodes[c].left, nodes[c].right} : e # NoNode => nodes[e].parent = c
      BY <2>2, <2>4 DEF Unfolds
    <3>2. PICK q \in v..w : /\ c = s[q]
                            /\ <<v, q - 1, nodes[c].left>> \in T
                            /\ <<q + 1, w, nodes[c].right>> \in T
      BY <2>2, <2>4 DEF Unfolds
    <3>3. q \in a..b /\ q \in Int /\ v <= q /\ q <= w
      BY <1>2, <2>1, <3>2
    <3>4. /\ c \in Present(new)
          /\ new[c].left = nodes[c].left /\ new[c].right = nodes[c].right
          /\ new[c].size = nodes[c].size
      BY <3>1, <3>2, <3>3 DEF Agrees
    <3>5. t[q + d] = c /\ q + d \in x..y
      BY <2>1, <3>2, <3>3
    <3>6. c \in Keys
      BY <3>1 DEF Present
    <3>7. <<x, q + d - 1, nodes[c].left>> \in U
      <4>1. q + d - 1 \in Int /\ q + d - 1 - d = q - 1 /\ q - 1 <= b
        BY <1>2, <3>3
      <4>2. In(x, q + d - 1, nodes[c].left)
        BY <2>1, <3>2, <4>1
      <4>. HIDE DEF In
      <4>. QED
        BY <1>4, <1>5, <3>6, <4>2
    <3>8. <<q + d + 1, y, nodes[c].right>> \in U
      <4>1. q + d + 1 \in Int /\ q + d + 1 - d = q + 1 /\ a <= q + 1
        BY <1>2, <3>3
      <4>2. In(q + d + 1, y, nodes[c].right)
        BY <2>1, <3>2, <4>1
      <4>. HIDE DEF In
      <4>. QED
        BY <1>4, <1>5, <3>6, <4>2
    <3>9. ASSUME NEW e \in {nodes[c].left, nodes[c].right}, e # NoNode
          PROVE  new[e].parent = c
      <4>1. nodes[e].parent = c
        BY <3>1, <3>9
      <4>2. PICK i, j : <<i, j, e>> \in T /\ i \in Int /\ j \in Int /\ v <= i /\ j <= w /\ j - i < w - v
        <5>1. CASE e = nodes[c].left
          <6>1. q - 1 \in Int /\ v <= v /\ q - 1 <= w /\ q - 1 - v < w - v
            BY <2>1, <3>3
          <6>2. <<v, q - 1, e>> \in T /\ v \in Int
            BY <2>1, <3>2, <5>1
          <6>. DEFINE j == q - 1
          <6>. HIDE DEF j, v, w
          <6>. QED
            BY <6>1, <6>2 DEF j
        <5>2. CASE e = nodes[c].right
          <6>1. q + 1 \in Int /\ v <= q + 1 /\ w <= w /\ w - (q + 1) < w - v
            BY <2>1, <3>3
          <6>2. <<q + 1, w, e>> \in T /\ w \in Int
            BY <2>1, <3>2, <5>2
          <6>. DEFINE i == q + 1
          <6>. HIDE DEF i, v, w
          <6>. QED
            BY <6>1, <6>2 DEF i
        <5>. QED
          BY <3>9, <5>1, <5>2
      <4>3. Unfolds(nodes, s, T, i, j, e)
        BY <1>1, <4>2 DEF IsClosed
      <4>4. e \in Present(nodes) /\ nodes[e].size = j - i + 1
        BY <3>9, <4>3 DEF Unfolds
      <4>5. PICK p \in i..j : e = s[p]
        BY <3>9, <4>3 DEF Unfolds
      <4>6. p \in a..b
        BY <1>2, <2>1, <4>2, <4>5
      <4>7. e # r
        BY <1>2, <2>1, <3>9, <4>2, <4>4
      <4>. QED
        BY <4>1, <4>4, <4>5, <4>6, <4>7 DEF Agrees
    <3>10. new[c].size = y - x + 1
      BY <2>1, <3>1, <3>4
    <3>11. \E p \in x..y : /\ c = t[p]
                           /\ <<x, p - 1, new[c].left>> \in U
                           /\ <<p + 1, y, new[c].right>> \in U
      <4>. DEFINE p == q + d
      <4>1. p \in x..y /\ c = t[p]
        BY <3>5
      <4>2. <<x, p - 1, new[c].left>> \in U /\ <<p + 1, y, new[c].right>> \in U
        BY <3>4, <3>7, <3>8
      <4>. HIDE DEF p
      <4>. QED
        BY <4>1, <4>2
    <3>. QED
      BY <3>4, <3>9, <3>10, <3>11 DEF Unfolds
  <2>. QED
    BY <2>3, <2>4
<1>8. IsClosed(new, t, U)
  <2>1. \A x, y, c : <<x, y, c>> \in U => x \in Int /\ y \in Int /\ In(x, y, c)
    BY <1>3
  <2>. HIDE DEF In
  <2>. QED
    BY <1>7, <2>1 DEF IsClosed
<1>9. <<a + d, b + d, r>> \in U
  <2>1. a + d \in Int /\ b + d \in Int /\ a + d - d = a /\ b + d - d = b
    BY <1>2
  <2>2. In(a + d, b + d, r)
    BY <1>1, <1>2, <2>1
  <2>. HIDE DEF In
  <2>. QED
    BY <1>4, <1>6, <2>2
<1>. QED
  BY <1>8, <1>9 DEF TreeOn

\* The keys of an interval are those of a tree over it, each with the tree below it.
LEMMA Everywhere ==
  ASSUME NEW nodes, NEW s, NEW a, NEW b, NEW r, TreeOn(nodes, s, a, b, r), NEW p \in a..b
  PROVE  /\ s[p] \in Present(nodes)
         /\ \E x, y \in Int : a <= x /\ x <= p /\ p <= y /\ y <= b /\ TreeOn(nodes, s, x, y, s[p])
<1>. DEFINE Good(x, y, c) ==
                \A j \in x..y :
                    /\ s[j] \in Present(nodes)
                    /\ \E v, w \in Int : x <= v /\ v <= j /\ j <= w /\ w <= y /\ TreeOn(nodes, s, v, w, s[j])
            n == b - a + 1
            P == {i \in 0..n : \A x, y, c : TreeOn(nodes, s, x, y, c) /\ y - x + 1 <= i => Good(x, y, c)}
<1>0. a \in Int /\ b \in Int /\ n \in Nat
  BY RootIs
<1>1. 0 \in P
  <2>1. ASSUME NEW x, NEW y, NEW c, TreeOn(nodes, s, x, y, c), y - x + 1 <= 0
        PROVE  Good(x, y, c)
    <3>1. x \in Int /\ y \in Int /\ x = y + 1
      BY <2>1, RootIs
    <3>2. x..y = {}
      BY <3>1
    <3>. QED
      BY <3>2
  <2>. HIDE DEF Good
  <2>. QED
    BY <1>0, <2>1
<1>2. ASSUME NEW i \in 1..n, i - 1 \in P
      PROVE  i \in P
  <2>1. ASSUME NEW x, NEW y, NEW c, TreeOn(nodes, s, x, y, c), y - x + 1 <= i
        PROVE  Good(x, y, c)
    <3>0. x \in Int /\ y \in Int
      BY <2>1, RootIs
    <3>1. CASE c = NoNode
      <4>1. x..y = {}
        BY <2>1, <3>0, <3>1, RootIs
      <4>. QED
        BY <4>1
    <3>2. CASE c # NoNode
      <4>1. PICK q : IsCut(nodes, s, x, y, c, q)
        BY <2>1, <3>2, Cut
      <4>2. q \in x..y /\ q \in Int /\ c = s[q] /\ c \in Present(nodes)
        BY <3>0, <4>1 DEF IsCut
      <4>3. /\ TreeOn(nodes, s, x, q - 1, nodes[c].left)
            /\ TreeOn(nodes, s, q + 1, y, nodes[c].right)
        BY <4>1 DEF IsCut
      <4>4. q - 1 - x + 1 <= i - 1 /\ y - (q + 1) + 1 <= i - 1
        BY <1>0, <2>1, <3>0, <4>2
      <4>5. Good(x, q - 1, nodes[c].left)
        <5>. HIDE DEF Good
        <5>. QED
          BY <1>2, <4>3, <4>4
      <4>6. Good(q + 1, y, nodes[c].right)
        <5>. HIDE DEF Good
        <5>. QED
          BY <1>2, <4>3, <4>4
      <4>7. ASSUME NEW j \in x..y
            PROVE  /\ s[j] \in Present(nodes)
                   /\ \E v, w \in Int : x <= v /\ v <= j /\ j <= w /\ w <= y /\ TreeOn(nodes, s, v, w, s[j])
        <5>1. CASE j = q
          BY <2>1, <3>0, <4>2, <5>1
        <5>2. CASE j < q
          <6>1. j \in x..(q - 1)
            BY <3>0, <4>2, <5>2
          <6>2. PICK v \in Int, w \in Int :
                    x <= v /\ v <= j /\ j <= w /\ w <= q - 1 /\ TreeOn(nodes, s, v, w, s[j])
            BY <4>5, <6>1
          <6>3. w <= y
            BY <3>0, <4>2, <6>2
          <6>. QED
            BY <4>5, <6>1, <6>2, <6>3
        <5>3. CASE j > q
          <6>1. j \in (q + 1)..y
            BY <3>0, <4>2, <5>3
          <6>2. PICK v \in Int, w \in Int :
                    q + 1 <= v /\ v <= j /\ j <= w /\ w <= y /\ TreeOn(nodes, s, v, w, s[j])
            BY <4>6, <6>1
          <6>3. x <= v
            BY <3>0, <4>2, <6>2
          <6>. QED
            BY <4>6, <6>1, <6>2, <6>3
        <5>. QED
          BY <3>0, <4>2, <5>1, <5>2, <5>3
      <4>. QED
        BY <4>7
    <3>. QED
      BY <3>1, <3>2
  <2>. HIDE DEF Good
  <2>. QED
    BY <1>0, <2>1
<1>. HIDE DEF P
<1>3. n \in P
  <2>. HIDE DEF n
  <2>1. \A i \in 0..n : i \in P
    BY <1>0, <1>1, <1>2, Induction
  <2>. QED
    BY <1>0, <2>1
<1>4. Good(a, b, r)
  <2>1. b - a + 1 <= n
    BY <1>0
  <2>. HIDE DEF Good
  <2>. QED
    BY <1>3, <2>1 DEF P
<1>. QED
  BY <1>4

-----------------------------------------------------------------------------
(* Parts of a tree *)

\* The keys of an interval.
KeysOf(s, a, b) == {s[q] : q \in a..b}

\* No key is there twice.
Distinct(s, a, b) == \A i, j \in a..b : s[i] = s[j] => i = j

\* splitSequence and mergeSequence leave roots without a parent.
IsRoot(nodes, k) == k # NoNode => nodes[k].parent = NoNode

\* The root is one of the keys.
LEMMA RootAt ==
  ASSUME NEW nodes, NEW s, NEW a, NEW b, NEW r, TreeOn(nodes, s, a, b, r), r # NoNode
  PROVE  \E q \in a..b : r = s[q]
<1>1. PICK q : IsCut(nodes, s, a, b, r, q)
  BY Cut
<1>. QED
  BY <1>1 DEF IsCut

\* A tree whose links stay is the same tree.
LEMMA SameTree ==
  ASSUME NEW nodes, NEW new, NEW s, NEW a, NEW b, NEW r, TreeOn(nodes, s, a, b, r),
         Agrees(nodes, new, s, a, b, r)
  PROVE  TreeOn(new, s, a, b, r)
<1>1. a \in Int /\ b \in Int
  BY RootIs
<1>2. \A q \in a..b : s[q + 0] = s[q]
  BY <1>1
<1>3. TreeOn(new, s, a + 0, b + 0, r)
  BY <1>2, Transfer
<1>4. a + 0 = a /\ b + 0 = b
  BY <1>1
<1>. QED
  BY <1>3, <1>4

\* A tree none of whose keys changed.
LEMMA KeepsTree ==
  ASSUME NEW nodes, NEW s, NEW a, NEW b, NEW r, TreeOn(nodes, s, a, b, r),
         NEW K, NEW new, Keeps(nodes, new, K), \A q \in a..b : s[q] \notin K
  PROVE  TreeOn(new, s, a, b, r)
<1>1. a \in Int /\ b \in Int
  BY RootIs
<1>2. \A q \in a..b : s[q] \in Present(nodes) => s[q] \in Present(new) /\ new[s[q]] = nodes[s[q]]
  BY DEF Keeps, Present
<1>3. Agrees(nodes, new, s, a, b, r)
  BY <1>2 DEF Agrees
<1>. QED
  BY <1>3, SameTree

\* What holds of the keys of an interval holds of a part of it.
LEMMA PartOf ==
  ASSUME NEW s, NEW a \in Int, NEW b \in Int, Distinct(s, a, b), NEW x \in Int, NEW y \in Int,
         a <= x, y <= b
  PROVE  /\ Distinct(s, x, y)
         /\ KeysOf(s, x, y) \subseteq KeysOf(s, a, b)
         /\ \A q \in a..b : s[q] \in KeysOf(s, x, y) => q \in x..y
<1>1. \A q \in x..y : q \in a..b
  OBVIOUS
<1>. QED
  BY <1>1 DEF Distinct, KeysOf

\* A node over two trees whose keys are on its two sides.
LEMMA JoinAt ==
  ASSUME NEW nodes \in Nodes, NEW s, NEW a \in Int, NEW b \in Int, NEW q \in a..b,
         Distinct(s, a, b), s[q] \in Present(nodes),
         NEW x, TreeOn(nodes, s, a, q - 1, x), NEW y, TreeOn(nodes, s, q + 1, b, y),
         NEW new, Relinked(new, nodes, s[q], x, y)
  PROVE  /\ TreeOn(new, s, a, b, s[q]) /\ IsRoot(new, s[q])
         /\ Keeps(nodes, new, KeysOf(s, a, b))
<1>. DEFINE n == s[q]
<1>0. q \in Int /\ n \in Keys /\ n # NoNode
  BY PresentIsNoNone DEF Present
<1>1. x # NoNode => \E i \in a..(q - 1) : x = s[i]
  BY RootAt
<1>2. y # NoNode => \E i \in (q + 1)..b : y = s[i]
  BY RootAt
<1>. HIDE DEF n
<1>3. ASSUME NEW j \in a..b, j # q
      PROVE  s[j] # n
  BY <1>3 DEF Distinct, n
<1>4. ASSUME NEW j \in a..(q - 1)
      PROVE  j \in a..b /\ s[j] # n /\ (s[j] \in Keys => s[j] # y)
  <2>1. j \in a..b /\ j # q
    BY <1>0
  <2>2. y # NoNode => s[j] # y
    <3>1. ASSUME y # NoNode, s[j] = y
          PROVE  FALSE
      <4>1. PICK i \in (q + 1)..b : y = s[i]
        BY <1>2, <3>1
      <4>2. i \in a..b /\ i # j
        BY <1>0, <4>1
      <4>. QED
        BY <2>1, <3>1, <4>1, <4>2 DEF Distinct
    <3>. QED
      BY <3>1
  <2>. QED
    BY <1>3, <2>1, <2>2, NoNodeIsNoKey
<1>5. ASSUME NEW j \in (q + 1)..b
      PROVE  j \in a..b /\ s[j] # n /\ (s[j] \in Keys => s[j] # x)
  <2>1. j \in a..b /\ j # q
    BY <1>0
  <2>2. x # NoNode => s[j] # x
    <3>1. ASSUME x # NoNode, s[j] = x
          PROVE  FALSE
      <4>1. PICK i \in a..(q - 1) : x = s[i]
        BY <1>1, <3>1
      <4>2. i \in a..b /\ i # j
        BY <1>0, <4>1
      <4>. QED
        BY <2>1, <3>1, <4>1, <4>2 DEF Distinct
    <3>. QED
      BY <3>1
  <2>. QED
    BY <1>3, <2>1, <2>2, NoNodeIsNoKey
<1>6. /\ Keeps(nodes, new, {n, x, y})
      /\ \A k \in Present(nodes) \ {n} : /\ new[k].left = nodes[k].left
                                         /\ new[k].right = nodes[k].right
                                         /\ new[k].size = nodes[k].size
      /\ new[n].left = x /\ new[n].right = y /\ new[n].parent = NoNode
      /\ new[n].size = Tree!SizeOf(nodes, x) + Tree!SizeOf(nodes, y) + 1
      /\ \A c \in {x, y} : c # NoNode => new[c].parent = n
  BY DEF Relinked, n
<1>7. /\ Present(new) = Present(nodes)
      /\ \A k \in Present(nodes) \ {n, x, y} : new[k] = nodes[k]
  BY <1>6 DEF Keeps, Present
<1>8. Agrees(nodes, new, s, a, q - 1, x)
  <2>1. ASSUME NEW j \in a..(q - 1), s[j] \in Present(nodes)
        PROVE  /\ s[j] \in Present(new)
               /\ new[s[j]].left = nodes[s[j]].left /\ new[s[j]].right = nodes[s[j]].right
               /\ new[s[j]].size = nodes[s[j]].size
               /\ s[j] # x => new[s[j]].parent = nodes[s[j]].parent
    <3>1. s[j] \in Keys /\ s[j] # n /\ s[j] # y
      BY <1>4, <2>1 DEF Present
    <3>. QED
      BY <1>6, <1>7, <2>1, <3>1
  <2>. QED
    BY <2>1 DEF Agrees
<1>9. Agrees(nodes, new, s, q + 1, b, y)
  <2>1. ASSUME NEW j \in (q + 1)..b, s[j] \in Present(nodes)
        PROVE  /\ s[j] \in Present(new)
               /\ new[s[j]].left = nodes[s[j]].left /\ new[s[j]].right = nodes[s[j]].right
               /\ new[s[j]].size = nodes[s[j]].size
               /\ s[j] # y => new[s[j]].parent = nodes[s[j]].parent
    <3>1. s[j] \in Keys /\ s[j] # n /\ s[j] # x
      BY <1>5, <2>1 DEF Present
    <3>. QED
      BY <1>6, <1>7, <2>1, <3>1
  <2>. QED
    BY <2>1 DEF Agrees
<1>10. TreeOn(new, s, a, q - 1, x)
  BY <1>8, SameTree
<1>11. TreeOn(new, s, q + 1, b, y)
  BY <1>9, SameTree
<1>12. new[n].size = b - a + 1
  <2>1. Tree!SizeOf(nodes, x) = (q - 1) - a + 1 /\ Tree!SizeOf(nodes, y) = b - (q + 1) + 1
    BY RootIs
  <2>. QED
    BY <1>0, <1>6, <2>1
<1>13. n = s[q] /\ n \in Present(new)
  BY <1>7 DEF n
<1>14. IsCut(new, s, a, b, n, q)
  BY <1>6, <1>10, <1>11, <1>12, <1>13 DEF IsCut
<1>15. TreeOn(new, s, a, b, n)
  BY <1>14, Join
<1>16. Keeps(nodes, new, KeysOf(s, a, b))
  <2>1. \A i \in a..b : s[i] \in KeysOf(s, a, b)
    BY DEF KeysOf
  <2>2. n \in KeysOf(s, a, b)
    BY <2>1 DEF n
  <2>3. x # NoNode => x \in KeysOf(s, a, b)
    BY <1>1, <1>4, <2>1
  <2>4. y # NoNode => y \in KeysOf(s, a, b)
    BY <1>2, <1>5, <2>1
  <2>5. \A k \in Keys \ KeysOf(s, a, b) : k \notin {n, x, y}
    BY <2>2, <2>3, <2>4, NoNodeIsNoKey
  <2>. QED
    BY <1>6, <2>5 DEF Keeps
<1>17. IsRoot(new, n)
  BY <1>6 DEF IsRoot
<1>. QED
  BY <1>15, <1>16, <1>17 DEF n

-----------------------------------------------------------------------------
(* Merging *)

\* Below every node are nodes with smaller sizes.
Ranked(nodes, most) ==
    \A k \in Present(nodes) :
        /\ nodes[k].left \in Present(nodes) \union {NoNode}
        /\ nodes[k].right \in Present(nodes) \union {NoNode}
        /\ Tree!SizeOf(nodes, nodes[k].left) < nodes[k].size
        /\ Tree!SizeOf(nodes, nodes[k].right) < nodes[k].size
        /\ nodes[k].size <= most

\* The sizes of ranked nodes are bounded: recursions downwards end.
LEMMA SizesAre ==
  ASSUME NEW nodes \in Nodes, NEW most \in Nat, Ranked(nodes, most)
  PROVE  \A k \in Present(nodes) \union {NoNode} :
            Tree!SizeOf(nodes, k) \in Nat /\ Tree!SizeOf(nodes, k) <= most
BY NodeIs DEF Ranked, Tree!SizeOf

\* The body of mergeSequence, from what it returns further down.
MergeBelow(merge, nodes, pair) ==
    LET l == pair[1]
        r == pair[2]
    IN  IF l = NoNode \/ r = NoNode
        THEN LET root == IF l = NoNode THEN r ELSE l
             IN  [nodes |-> Tree!AsRoot(nodes, root), root |-> root]
        ELSE IF Priority(nodes[l].id) < Priority(nodes[r].id)
        THEN LET below == merge[<<nodes[l].right, r>>]
             IN  [nodes |-> Tree!WithRight(below.nodes, l, below.root), root |-> l]
        ELSE LET below == merge[<<l, nodes[r].left>>]
             IN  [nodes |-> Tree!WithLeft(below.nodes, r, below.root), root |-> r]

\* A function that is what mergeSequence computes.
IsMerge(merge, nodes) ==
    \A l, r \in Present(nodes) \union {NoNode} :
        merge[<<l, r>>] = MergeBelow(merge, nodes, <<l, r>>)

\* There is one, and Merge is its value: sizes decrease at each call.
LEMMA MergeIsRecursive ==
  ASSUME NEW nodes \in Nodes, NEW most \in Nat, Ranked(nodes, most), NEW left, NEW right
  PROVE  \E merge : IsMerge(merge, nodes) /\ Tree!Merge(nodes, left, right) = merge[<<left, right>>]
<1>. DEFINE D == Tree!Links(nodes) \X Tree!Links(nodes)
            Rank(x) == Tree!SizeOf(nodes, x[1]) + Tree!SizeOf(nodes, x[2])
            Then(f, x) == MergeBelow(f, nodes, x)
            M == most + most + 1
            Rec(f) == [x \in D |-> Then(f, x)]
            Solves(f, k) == \A x \in D : Rank(x) < k => f[x] = Then(f, x)
            P == {k \in 0..M : \E f : Solves(f, k)}
<1>0. Tree!Links(nodes) = Present(nodes) \union {NoNode}
  BY LinksAre
<1>a. \A x \in D : /\ x[1] \in Present(nodes) \union {NoNode}
                   /\ x[2] \in Present(nodes) \union {NoNode} /\ x = <<x[1], x[2]>>
  BY <1>0
<1>b. \A l, r \in Present(nodes) \union {NoNode} :
         <<l, r>> \in D /\ Rank(<<l, r>>) = Tree!SizeOf(nodes, l) + Tree!SizeOf(nodes, r)
  BY <1>0
<1>1. M \in Nat /\ \A x \in D : Rank(x) \in Nat /\ Rank(x) < M
  BY <1>a, SizesAre
<1>2. ASSUME NEW f, NEW h, NEW x \in D, \A y \in D : Rank(y) < Rank(x) => f[y] = h[y]
      PROVE  Then(f, x) = Then(h, x)
  <2>. DEFINE l == x[1]
              r == x[2]
              y == <<nodes[l].right, r>>
              z == <<l, nodes[r].left>>
  <2>1. l \in Present(nodes) \union {NoNode} /\ r \in Present(nodes) \union {NoNode}
    BY <1>a
  <2>2. CASE l = NoNode \/ r = NoNode
    BY <2>2 DEF MergeBelow
  <2>3. CASE ~(l = NoNode \/ r = NoNode)
    <3>0. l \in Present(nodes) /\ r \in Present(nodes)
      BY <2>1, <2>3
    <3>1. /\ nodes[l].right \in Present(nodes) \union {NoNode}
          /\ nodes[r].left \in Present(nodes) \union {NoNode}
          /\ Tree!SizeOf(nodes, nodes[l].right) < nodes[l].size
          /\ Tree!SizeOf(nodes, nodes[r].left) < nodes[r].size
      BY <3>0 DEF Ranked
    <3>2. Tree!SizeOf(nodes, l) = nodes[l].size /\ Tree!SizeOf(nodes, r) = nodes[r].size
      BY <2>3 DEF Tree!SizeOf
    <3>3. /\ Tree!SizeOf(nodes, l) \in Nat /\ Tree!SizeOf(nodes, r) \in Nat
          /\ Tree!SizeOf(nodes, nodes[l].right) \in Nat /\ Tree!SizeOf(nodes, nodes[r].left) \in Nat
      BY <2>1, <3>1, SizesAre
    <3>4. y \in D /\ Rank(y) < Rank(x)
      BY <1>b, <2>1, <3>1, <3>2, <3>3
    <3>5. z \in D /\ Rank(z) < Rank(x)
      BY <1>b, <2>1, <3>1, <3>2, <3>3
    <3>6. f[y] = h[y] /\ f[z] = h[z]
      <4>. HIDE DEF D, Rank, y, z
      <4>. QED
        BY <1>2, <3>4, <3>5
    <3>. QED
      BY <2>3, <3>6 DEF MergeBelow
  <2>. QED
    BY <2>2, <2>3
<1>. HIDE DEF D, Rank, Then, M
<1>3. 0 \in P
  <2>1. \A f : Solves(f, 0)
    BY <1>1
  <2>. HIDE DEF Solves
  <2>. QED
    BY <1>1, <2>1
<1>4. ASSUME NEW k \in 1..M, k - 1 \in P
      PROVE  k \in P
  <2>1. PICK f : Solves(f, k - 1)
    BY <1>4
  <2>. DEFINE h == [x \in D |-> IF Rank(x) < k - 1 THEN f[x] ELSE Then(f, x)]
  <2>2. \A x \in D : h[x] = IF Rank(x) < k - 1 THEN f[x] ELSE Then(f, x)
    OBVIOUS
  <2>. HIDE DEF h
  <2>3. ASSUME NEW x \in D, Rank(x) < k
        PROVE  h[x] = Then(h, x)
    <3>1. h[x] = Then(f, x)
      BY <2>1, <2>2
    <3>2. \A y \in D : Rank(y) < Rank(x) => f[y] = h[y]
      BY <1>1, <2>2, <2>3
    <3>3. Then(f, x) = Then(h, x)
      BY <1>2, <3>2
    <3>. QED
      BY <3>1, <3>3
  <2>4. Solves(h, k)
    BY <2>3
  <2>. HIDE DEF Solves
  <2>. QED
    BY <1>1, <2>4
<1>5. M \in P
  <2>. HIDE DEF P
  <2>1. \A i \in 0..M : i \in P
    BY <1>1, <1>3, <1>4, Induction
  <2>. QED
    BY <1>1, <2>1
<1>6. \E f : f = Rec(f)
  <2>1. PICK f : Solves(f, M)
    BY <1>5
  <2>. DEFINE g == [x \in D |-> Then(f, x)]
  <2>2. \A x \in D : g[x] = f[x]
    BY <1>1, <2>1
  <2>3. \A x \in D : Then(f, x) = Then(g, x)
    <3>. HIDE DEF g
    <3>. QED
      BY <1>2, <2>2
  <2>4. g = Rec(g)
    BY <2>3
  <2>. HIDE DEF Rec, g
  <2>. QED
    BY <2>4
<1>. DEFINE merge == CHOOSE f : f = Rec(f)
<1>7. merge = Rec(merge)
  <2>. HIDE DEF Rec
  <2>. QED
    BY <1>6
<1>8. Tree!Merge(nodes, left, right) = merge[<<left, right>>]
  BY DEF Tree!Merge, MergeBelow, D, Then
<1>. HIDE DEF merge
<1>9. \A x \in D : merge[x] = Then(merge, x)
  BY <1>7
<1>10. IsMerge(merge, nodes)
  BY <1>9, <1>b DEF IsMerge, Then
<1>. QED
  BY <1>8, <1>10

\* One tree over the keys of both, and no other node touched.
IsMerged(merged, nodes, s, a, b) ==
    /\ Keeps(nodes, merged.nodes, KeysOf(s, a, b))
    /\ TreeOn(merged.nodes, s, a, b, merged.root)
    /\ IsRoot(merged.nodes, merged.root)

\* A tree alone, as a root.
LEMMA AsRootIs ==
  ASSUME NEW nodes \in Nodes, NEW s, NEW a, NEW b, NEW r, TreeOn(nodes, s, a, b, r)
  PROVE  /\ Keeps(nodes, Tree!AsRoot(nodes, r), KeysOf(s, a, b))
         /\ TreeOn(Tree!AsRoot(nodes, r), s, a, b, r)
         /\ IsRoot(Tree!AsRoot(nodes, r), r)
<1>. DEFINE new == Tree!AsRoot(nodes, r)
<1>0. a \in Int /\ b \in Int /\ r \in Present(nodes) \union {NoNode}
  BY RootIs
<1>1. IsAdopted(new, nodes, r, NoNode)
  BY <1>0, WithParentIs DEF Tree!AsRoot
<1>. HIDE DEF new
<1>2. /\ Keeps(nodes, new, {r})
      /\ \A j \in Present(nodes) : /\ new[j].left = nodes[j].left
                                   /\ new[j].right = nodes[j].right
                                   /\ new[j].size = nodes[j].size
                                   /\ new[j].parent = IF j = r THEN NoNode ELSE nodes[j].parent
  BY <1>1 DEF IsAdopted
<1>3. r # NoNode => r \in KeysOf(s, a, b)
  BY RootAt DEF KeysOf
<1>4. Keeps(nodes, new, KeysOf(s, a, b))
  <2>1. \A k \in Keys \ KeysOf(s, a, b) : k # r
    BY <1>3, NoNodeIsNoKey
  <2>. QED
    BY <1>2, <2>1 DEF Keeps
<1>5. Agrees(nodes, new, s, a, b, r)
  BY <1>2 DEF Agrees, Keeps
<1>6. TreeOn(new, s, a, b, r)
  BY <1>5, SameTree
<1>7. IsRoot(new, r)
  BY <1>0, <1>2 DEF IsRoot
<1>. QED
  BY <1>4, <1>6, <1>7 DEF new

\* mergeSequence of two trees side by side is the tree of both, whatever the priorities.
LEMMA MergeIs ==
  ASSUME NEW nodes \in Nodes, NEW most \in Nat, Ranked(nodes, most),
         NEW s, NEW a, NEW m, NEW b, Distinct(s, a, b),
         NEW left, TreeOn(nodes, s, a, m, left), NEW right, TreeOn(nodes, s, m + 1, b, right)
  PROVE  IsMerged(Tree!Merge(nodes, left, right), nodes, s, a, b)
<1>0. a \in Int /\ m \in Int /\ b \in Int /\ a <= m + 1 /\ m <= b
  BY RootIs
<1>1. PICK merge : IsMerge(merge, nodes) /\ Tree!Merge(nodes, left, right) = merge[<<left, right>>]
  BY MergeIsRecursive
<1>. DEFINE n == b - a + 1
            Good(x, c, y, l, r) == IsMerged(merge[<<l, r>>], nodes, s, x, y)
            Apart(x, c, y, l, r) ==
                /\ TreeOn(nodes, s, x, c, l) /\ TreeOn(nodes, s, c + 1, y, r) /\ Distinct(s, x, y)
            P == {i \in 0..n : \A x, c, y, l, r :
                                  Apart(x, c, y, l, r) /\ y - x + 1 <= i => Good(x, c, y, l, r)}
<1>2. n \in Nat
  BY <1>0
<1>3. ASSUME NEW i \in 0..n, i # 0 => i - 1 \in P, NEW x, NEW c, NEW y, NEW l, NEW r,
             Apart(x, c, y, l, r), y - x + 1 <= i
      PROVE  Good(x, c, y, l, r)
  <2>0. /\ x \in Int /\ c \in Int /\ y \in Int /\ x <= c + 1 /\ c <= y
        /\ l \in Present(nodes) \union {NoNode} /\ r \in Present(nodes) \union {NoNode}
        /\ (l = NoNode <=> x = c + 1) /\ (r = NoNode <=> c = y)
    BY <1>3, RootIs
  <2>. DEFINE M == merge[<<l, r>>]
  <2>1. M = MergeBelow(merge, nodes, <<l, r>>)
    BY <1>1, <2>0 DEF IsMerge
  <2>2. CASE l = NoNode
    <3>1. M = [nodes |-> Tree!AsRoot(nodes, r), root |-> r]
      BY <2>1, <2>2 DEF MergeBelow
    <3>2. x = c + 1
      BY <2>0, <2>2
    <3>3. TreeOn(nodes, s, x, y, r)
      BY <1>3, <3>2
    <3>. HIDE DEF M
    <3>4. M.nodes = Tree!AsRoot(nodes, r) /\ M.root = r
      BY <3>1
    <3>5. IsMerged(M, nodes, s, x, y)
      BY <3>3, <3>4, AsRootIs DEF IsMerged
    <3>. QED
      BY <3>5 DEF M
  <2>3. CASE l # NoNode /\ r = NoNode
    <3>1. M = [nodes |-> Tree!AsRoot(nodes, l), root |-> l]
      BY <2>1, <2>3 DEF MergeBelow
    <3>2. y = c
      BY <2>0, <2>3
    <3>3. TreeOn(nodes, s, x, y, l)
      BY <1>3, <3>2
    <3>. HIDE DEF M
    <3>4. M.nodes = Tree!AsRoot(nodes, l) /\ M.root = l
      BY <3>1
    <3>5. IsMerged(M, nodes, s, x, y)
      BY <3>3, <3>4, AsRootIs DEF IsMerged
    <3>. QED
      BY <3>5 DEF M
  <2>4. CASE l # NoNode /\ r # NoNode /\ Priority(nodes[l].id) < Priority(nodes[r].id)
    <3>. DEFINE below == merge[<<nodes[l].right, r>>]
                N == below.nodes
                new == Tree!WithRight(N, l, below.root)
    <3>1. M = [nodes |-> new, root |-> l]
      BY <2>1, <2>4 DEF MergeBelow
    <3>2. PICK q : IsCut(nodes, s, x, c, l, q)
      BY <1>3, <2>4, Cut
    <3>3. /\ q \in x..c /\ q \in Int /\ l = s[q] /\ l \in Present(nodes) /\ l # NoNode
          /\ TreeOn(nodes, s, x, q - 1, nodes[l].left)
          /\ TreeOn(nodes, s, q + 1, c, nodes[l].right)
      BY <2>0, <2>4, <3>2 DEF IsCut
    <3>4. /\ Distinct(s, q + 1, y) /\ KeysOf(s, q + 1, y) \subseteq KeysOf(s, x, y)
          /\ \A j \in x..y : s[j] \in KeysOf(s, q + 1, y) => j \in (q + 1)..y
      <4>1. q + 1 \in Int /\ x <= q + 1 /\ y <= y
        BY <2>0, <3>3
      <4>. QED
        BY <1>3, <2>0, <4>1, PartOf
    <3>5. IsMerged(below, nodes, s, q + 1, y)
      <4>1. i # 0 /\ y - (q + 1) + 1 <= i - 1
        BY <1>2, <1>3, <2>0, <3>3
      <4>2. Apart(q + 1, c, y, nodes[l].right, r)
        BY <1>3, <3>3, <3>4
      <4>3. Good(q + 1, c, y, nodes[l].right, r)
        <5>. HIDE DEF Good, Apart
        <5>. QED
          BY <1>3, <4>1, <4>2
      <4>. QED
        BY <4>3
    <3>. HIDE DEF below, M
    <3>6. /\ Keeps(nodes, N, KeysOf(s, q + 1, y))
          /\ TreeOn(N, s, q + 1, y, below.root)
      BY <3>5 DEF IsMerged
    <3>7. \A j \in x..q : s[j] \notin KeysOf(s, q + 1, y)
      BY <2>0, <3>3, <3>4
    <3>8. N \in Nodes /\ Present(N) = Present(nodes) /\ N[l] = nodes[l]
      <4>1. l \in Keys /\ l \notin KeysOf(s, q + 1, y)
        BY <2>0, <3>3, <3>7 DEF Present
      <4>. QED
        BY <3>6, <4>1 DEF Keeps
    <3>. HIDE DEF N
    <3>9. TreeOn(N, s, x, q - 1, nodes[l].left)
      <4>1. \A j \in x..(q - 1) : s[j] \notin KeysOf(s, q + 1, y)
        BY <2>0, <3>3, <3>7
      <4>. QED
        BY <3>3, <3>6, <4>1, KeepsTree
    <3>10. nodes[l].left # l /\ nodes[l].left \in Present(N) \union {NoNode}
      <4>1. nodes[l].left = NoNode \/ \E j \in x..(q - 1) : nodes[l].left = s[j]
        BY <3>9, RootAt
      <4>2. \A j \in x..(q - 1) : s[j] # s[q]
        BY <1>3, <2>0, <3>3 DEF Distinct
      <4>3. nodes[l].left \in Present(N) \union {NoNode}
        BY <3>9, RootIs
      <4>. QED
        BY <3>3, <4>1, <4>2, <4>3
    <3>11. below.root # l /\ below.root \in Present(N) \union {NoNode}
      <4>1. below.root = NoNode \/ \E j \in (q + 1)..y : below.root = s[j]
        BY <3>6, RootAt
      <4>2. \A j \in (q + 1)..y : s[j] # s[q]
        BY <1>3, <2>0, <3>3 DEF Distinct
      <4>3. below.root \in Present(N) \union {NoNode}
        BY <3>6, RootIs
      <4>. QED
        BY <3>3, <4>1, <4>2, <4>3
    <3>12. Relinked(new, N, l, nodes[l].left, below.root)
      BY <3>3, <3>8, <3>10, <3>11, WithRightIs
    <3>. HIDE DEF new
    <3>13. q \in x..y
      BY <2>0, <3>3
    <3>14. /\ TreeOn(new, s, x, y, l) /\ IsRoot(new, l) /\ Keeps(N, new, KeysOf(s, x, y))
      BY <1>3, <2>0, <3>3, <3>6, <3>8, <3>9, <3>12, <3>13, JoinAt
    <3>15. Keeps(nodes, new, KeysOf(s, x, y))
      BY <3>4, <3>6, <3>14, KeepsThen
    <3>16. M.nodes = new /\ M.root = l
      BY <3>1
    <3>17. IsMerged(M, nodes, s, x, y)
      BY <3>14, <3>15, <3>16 DEF IsMerged
    <3>. QED
      BY <3>17 DEF M
  <2>5. CASE l # NoNode /\ r # NoNode /\ ~(Priority(nodes[l].id) < Priority(nodes[r].id))
    <3>. DEFINE below == merge[<<l, nodes[r].left>>]
                N == below.nodes
                new == Tree!WithLeft(N, r, below.root)
    <3>1. M = [nodes |-> new, root |-> r]
      BY <2>1, <2>5 DEF MergeBelow
    <3>2. PICK q : IsCut(nodes, s, c + 1, y, r, q)
      BY <1>3, <2>5, Cut
    <3>3. /\ q \in (c + 1)..y /\ q \in Int /\ r = s[q] /\ r \in Present(nodes) /\ r # NoNode
          /\ TreeOn(nodes, s, c + 1, q - 1, nodes[r].left)
          /\ TreeOn(nodes, s, q + 1, y, nodes[r].right)
      BY <2>0, <2>5, <3>2 DEF IsCut
    <3>4. /\ Distinct(s, x, q - 1) /\ KeysOf(s, x, q - 1) \subseteq KeysOf(s, x, y)
          /\ \A j \in x..y : s[j] \in KeysOf(s, x, q - 1) => j \in x..(q - 1)
      <4>1. q - 1 \in Int /\ x <= x /\ q - 1 <= y
        BY <2>0, <3>3
      <4>. QED
        BY <1>3, <2>0, <4>1, PartOf
    <3>5. IsMerged(below, nodes, s, x, q - 1)
      <4>1. i # 0 /\ (q - 1) - x + 1 <= i - 1
        BY <1>2, <1>3, <2>0, <3>3
      <4>2. Apart(x, c, q - 1, l, nodes[r].left)
        BY <1>3, <3>3, <3>4
      <4>3. Good(x, c, q - 1, l, nodes[r].left)
        <5>. HIDE DEF Good, Apart
        <5>. QED
          BY <1>3, <4>1, <4>2
      <4>. QED
        BY <4>3
    <3>. HIDE DEF below, M
    <3>6. /\ Keeps(nodes, N, KeysOf(s, x, q - 1))
          /\ TreeOn(N, s, x, q - 1, below.root)
      BY <3>5 DEF IsMerged
    <3>7. \A j \in q..y : s[j] \notin KeysOf(s, x, q - 1)
      BY <2>0, <3>3, <3>4
    <3>8. N \in Nodes /\ Present(N) = Present(nodes) /\ N[r] = nodes[r]
      <4>1. r \in Keys /\ r \notin KeysOf(s, x, q - 1)
        BY <2>0, <3>3, <3>7 DEF Present
      <4>. QED
        BY <3>6, <4>1 DEF Keeps
    <3>. HIDE DEF N
    <3>9. TreeOn(N, s, q + 1, y, nodes[r].right)
      <4>1. \A j \in (q + 1)..y : s[j] \notin KeysOf(s, x, q - 1)
        BY <2>0, <3>3, <3>7
      <4>. QED
        BY <3>3, <3>6, <4>1, KeepsTree
    <3>10. nodes[r].right # r /\ nodes[r].right \in Present(N) \union {NoNode}
      <4>1. nodes[r].right = NoNode \/ \E j \in (q + 1)..y : nodes[r].right = s[j]
        BY <3>9, RootAt
      <4>2. \A j \in (q + 1)..y : s[j] # s[q]
        BY <1>3, <2>0, <3>3 DEF Distinct
      <4>3. nodes[r].right \in Present(N) \union {NoNode}
        BY <3>9, RootIs
      <4>. QED
        BY <3>3, <4>1, <4>2, <4>3
    <3>11. below.root # r /\ below.root \in Present(N) \union {NoNode}
      <4>1. below.root = NoNode \/ \E j \in x..(q - 1) : below.root = s[j]
        BY <3>6, RootAt
      <4>2. \A j \in x..(q - 1) : s[j] # s[q]
        BY <1>3, <2>0, <3>3 DEF Distinct
      <4>3. below.root \in Present(N) \union {NoNode}
        BY <3>6, RootIs
      <4>. QED
        BY <3>3, <4>1, <4>2, <4>3
    <3>12. Relinked(new, N, r, below.root, nodes[r].right)
      BY <3>3, <3>8, <3>10, <3>11, WithLeftIs
    <3>. HIDE DEF new
    <3>13. q \in x..y
      BY <2>0, <3>3
    <3>14. /\ TreeOn(new, s, x, y, r) /\ IsRoot(new, r) /\ Keeps(N, new, KeysOf(s, x, y))
      BY <1>3, <2>0, <3>3, <3>6, <3>8, <3>9, <3>12, <3>13, JoinAt
    <3>15. Keeps(nodes, new, KeysOf(s, x, y))
      BY <3>4, <3>6, <3>14, KeepsThen
    <3>16. M.nodes = new /\ M.root = r
      BY <3>1
    <3>17. IsMerged(M, nodes, s, x, y)
      BY <3>14, <3>15, <3>16 DEF IsMerged
    <3>. QED
      BY <3>17 DEF M
  <2>. QED
    BY <2>2, <2>3, <2>4, <2>5
<1>4. \A i \in 0..n : (i # 0 => i - 1 \in P) => i \in P
  <2>. HIDE DEF Good, Apart, n
  <2>. QED
    BY <1>3
<1>. HIDE DEF P
<1>5. n \in P
  <2>. HIDE DEF n
  <2>1. 0 \in P
    BY <1>2, <1>4
  <2>2. \A i \in 1..n : i - 1 \in P => i \in P
    BY <1>2, <1>4
  <2>3. \A i \in 0..n : i \in P
    BY <1>2, <2>1, <2>2, Induction
  <2>. QED
    BY <1>2, <2>3
<1>6. Apart(a, m, b, left, right) /\ b - a + 1 <= n
  BY <1>2
<1>7. Good(a, m, b, left, right)
  <2>. HIDE DEF Good, Apart
  <2>. QED
    BY <1>5, <1>6 DEF P
<1>. QED
  BY <1>1, <1>7

-----------------------------------------------------------------------------
(* Splitting *)

\* The body of splitSequence, from what it returns further down.
SplitBelow(split, nodes, rest) ==
    LET root == rest[1]
        count == rest[2]
        leftSize == Tree!SizeOf(nodes, nodes[root].left)
    IN  IF root = NoNode THEN [nodes |-> nodes, left |-> NoNode, right |-> NoNode]
        ELSE IF count <= leftSize
        THEN LET below == split[<<nodes[root].left, count>>]
                 relinked == Tree!WithLeft(below.nodes, root, below.right)
             IN  [nodes |-> Tree!AsRoot(relinked, below.left),
                  left |-> below.left, right |-> root]
        ELSE LET below == split[<<nodes[root].right, count - leftSize - 1>>]
                 relinked == Tree!WithRight(below.nodes, root, below.left)
             IN  [nodes |-> Tree!AsRoot(relinked, below.right),
                  left |-> root, right |-> below.right]

\* A function that is what splitSequence computes.
IsSplitting(split, nodes) ==
    \A r \in Present(nodes) \union {NoNode}, number \in Nat :
        split[<<r, number>>] = SplitBelow(split, nodes, <<r, number>>)

\* There is one, and Split is its value.
LEMMA SplitIsRecursive ==
  ASSUME NEW nodes \in Nodes, NEW most \in Nat, Ranked(nodes, most), NEW top, NEW number
  PROVE  \E split : /\ IsSplitting(split, nodes)
                    /\ Tree!Split(nodes, top, number) = split[<<top, number>>]
<1>. DEFINE D == Tree!Links(nodes) \X Nat
            Rank(x) == Tree!SizeOf(nodes, x[1])
            Then(f, x) == SplitBelow(f, nodes, x)
            M == most + 1
            Rec(f) == [x \in D |-> Then(f, x)]
            Solves(f, k) == \A x \in D : Rank(x) < k => f[x] = Then(f, x)
            P == {k \in 0..M : \E f : Solves(f, k)}
<1>0. Tree!Links(nodes) = Present(nodes) \union {NoNode}
  BY LinksAre
<1>a. \A x \in D : x[1] \in Present(nodes) \union {NoNode} /\ x[2] \in Nat /\ x = <<x[1], x[2]>>
  BY <1>0
<1>b. \A r \in Present(nodes) \union {NoNode}, i \in Nat :
         <<r, i>> \in D /\ Rank(<<r, i>>) = Tree!SizeOf(nodes, r)
  BY <1>0
<1>1. M \in Nat /\ \A x \in D : Rank(x) \in Nat /\ Rank(x) < M
  BY <1>a, SizesAre
<1>2. ASSUME NEW f, NEW h, NEW x \in D, \A y \in D : Rank(y) < Rank(x) => f[y] = h[y]
      PROVE  Then(f, x) = Then(h, x)
  <2>. DEFINE r == x[1]
              count == x[2]
              leftSize == Tree!SizeOf(nodes, nodes[r].left)
              y == <<nodes[r].left, count>>
              z == <<nodes[r].right, count - leftSize - 1>>
  <2>1. r \in Present(nodes) \union {NoNode} /\ count \in Nat
    BY <1>a
  <2>2. CASE r = NoNode
    BY <2>2 DEF SplitBelow
  <2>3. CASE r # NoNode
    <3>0. r \in Present(nodes)
      BY <2>1, <2>3
    <3>1. /\ nodes[r].left \in Present(nodes) \union {NoNode}
          /\ nodes[r].right \in Present(nodes) \union {NoNode}
          /\ leftSize < nodes[r].size
          /\ Tree!SizeOf(nodes, nodes[r].right) < nodes[r].size
      BY <3>0 DEF Ranked
    <3>2. Tree!SizeOf(nodes, r) = nodes[r].size /\ Rank(x) = Tree!SizeOf(nodes, r)
      BY <2>3 DEF Tree!SizeOf
    <3>3. leftSize \in Nat
      BY <3>1, SizesAre
    <3>4. y \in D /\ Rank(y) < Rank(x)
      BY <1>b, <2>1, <3>1, <3>2
    <3>5. ~(count <= leftSize) => z \in D /\ Rank(z) < Rank(x)
      <4>1. ~(count <= leftSize) => count - leftSize - 1 \in Nat
        BY <2>1, <3>3
      <4>. QED
        BY <1>b, <2>1, <3>1, <3>2, <4>1
    <3>6. f[y] = h[y] /\ (~(count <= leftSize) => f[z] = h[z])
      <4>. HIDE DEF D, Rank, y, z
      <4>. QED
        BY <1>2, <3>4, <3>5
    <3>. QED
      BY <2>3, <3>6 DEF SplitBelow
  <2>. QED
    BY <2>2, <2>3
<1>. HIDE DEF D, Rank, Then, M
<1>3. 0 \in P
  <2>1. \A f : Solves(f, 0)
    BY <1>1
  <2>. HIDE DEF Solves
  <2>. QED
    BY <1>1, <2>1
<1>4. ASSUME NEW k \in 1..M, k - 1 \in P
      PROVE  k \in P
  <2>1. PICK f : Solves(f, k - 1)
    BY <1>4
  <2>. DEFINE h == [x \in D |-> IF Rank(x) < k - 1 THEN f[x] ELSE Then(f, x)]
  <2>2. \A x \in D : h[x] = IF Rank(x) < k - 1 THEN f[x] ELSE Then(f, x)
    OBVIOUS
  <2>. HIDE DEF h
  <2>3. ASSUME NEW x \in D, Rank(x) < k
        PROVE  h[x] = Then(h, x)
    <3>1. h[x] = Then(f, x)
      BY <2>1, <2>2
    <3>2. \A y \in D : Rank(y) < Rank(x) => f[y] = h[y]
      BY <1>1, <2>2, <2>3
    <3>3. Then(f, x) = Then(h, x)
      BY <1>2, <3>2
    <3>. QED
      BY <3>1, <3>3
  <2>4. Solves(h, k)
    BY <2>3
  <2>. HIDE DEF Solves
  <2>. QED
    BY <1>1, <2>4
<1>5. M \in P
  <2>. HIDE DEF P
  <2>1. \A i \in 0..M : i \in P
    BY <1>1, <1>3, <1>4, Induction
  <2>. QED
    BY <1>1, <2>1
<1>6. \E f : f = Rec(f)
  <2>1. PICK f : Solves(f, M)
    BY <1>5
  <2>. DEFINE g == [x \in D |-> Then(f, x)]
  <2>2. \A x \in D : g[x] = f[x]
    BY <1>1, <2>1
  <2>3. \A x \in D : Then(f, x) = Then(g, x)
    <3>. HIDE DEF g
    <3>. QED
      BY <1>2, <2>2
  <2>4. g = Rec(g)
    BY <2>3
  <2>. HIDE DEF Rec, g
  <2>. QED
    BY <2>4
<1>. DEFINE split == CHOOSE f : f = Rec(f)
<1>7. split = Rec(split)
  <2>. HIDE DEF Rec
  <2>. QED
    BY <1>6
<1>8. Tree!Split(nodes, top, number) = split[<<top, number>>]
  BY DEF Tree!Split, SplitBelow, D, Then
<1>. HIDE DEF split
<1>9. \A x \in D : split[x] = Then(split, x)
  BY <1>7
<1>10. IsSplitting(split, nodes)
  BY <1>9, <1>b DEF IsSplitting, Then
<1>. QED
  BY <1>8, <1>10

\* A tree over the first keys, one over the others, and no other node touched.
IsSplit(parts, nodes, s, a, c, b) ==
    /\ Keeps(nodes, parts.nodes, KeysOf(s, a, b))
    /\ TreeOn(parts.nodes, s, a, c, parts.left) /\ IsRoot(parts.nodes, parts.left)
    /\ TreeOn(parts.nodes, s, c + 1, b, parts.right) /\ IsRoot(parts.nodes, parts.right)

\* One of two trees side by side, as a root.
LEMMA AsideIs ==
  ASSUME NEW nodes \in Nodes, NEW s, NEW a, NEW b, Distinct(s, a, b),
         NEW x, NEW y, NEW r, TreeOn(nodes, s, x, y, r), a <= x, y <= b,
         NEW v, NEW w, NEW t, TreeOn(nodes, s, v, w, t), IsRoot(nodes, t), a <= v, w <= b,
         a \in Int, b \in Int, w < x \/ y < v
  PROVE  /\ Keeps(nodes, Tree!AsRoot(nodes, r), KeysOf(s, a, b))
         /\ TreeOn(Tree!AsRoot(nodes, r), s, x, y, r) /\ IsRoot(Tree!AsRoot(nodes, r), r)
         /\ TreeOn(Tree!AsRoot(nodes, r), s, v, w, t) /\ IsRoot(Tree!AsRoot(nodes, r), t)
<1>. DEFINE new == Tree!AsRoot(nodes, r)
            K == KeysOf(s, x, y)
<1>0. x \in Int /\ y \in Int /\ v \in Int /\ w \in Int
  BY RootIs
<1>1. Keeps(nodes, new, K) /\ TreeOn(new, s, x, y, r) /\ IsRoot(new, r)
  BY AsRootIs
<1>. HIDE DEF new
<1>2. K \subseteq KeysOf(s, a, b) /\ \A q \in a..b : s[q] \in K => q \in x..y
  BY <1>0, PartOf
<1>3. \A q \in v..w : s[q] \notin K
  BY <1>0, <1>2
<1>. HIDE DEF K
<1>4. TreeOn(new, s, v, w, t)
  BY <1>1, <1>3, KeepsTree
<1>5. Keeps(nodes, new, KeysOf(s, a, b))
  BY <1>1, <1>2 DEF Keeps
<1>6. IsRoot(new, t)
  <2>1. t # NoNode => \E q \in v..w : t = s[q]
    BY RootAt
  <2>2. t # NoNode => t \in Keys
    BY RootIs DEF Present
  <2>3. t # NoNode => new[t] = nodes[t]
    BY <1>1, <1>3, <2>1, <2>2 DEF Keeps
  <2>. QED
    BY <2>3 DEF IsRoot
<1>. QED
  BY <1>1, <1>4, <1>5, <1>6 DEF new

\* splitSequence cuts a tree after any number of its keys.
LEMMA SplitIs ==
  ASSUME NEW nodes \in Nodes, NEW most \in Nat, Ranked(nodes, most),
         NEW s, NEW a, NEW b, Distinct(s, a, b), NEW top, TreeOn(nodes, s, a, b, top),
         NEW number \in 0..(b - a + 1)
  PROVE  IsSplit(Tree!Split(nodes, top, number), nodes, s, a, a + number - 1, b)
<1>0. a \in Int /\ b \in Int /\ a <= b + 1
  BY RootIs
<1>1. PICK split : IsSplitting(split, nodes) /\ Tree!Split(nodes, top, number) = split[<<top, number>>]
  BY SplitIsRecursive
<1>. DEFINE n == b - a + 1
            Good(x, y, r, i) == IsSplit(split[<<r, i>>], nodes, s, x, x + i - 1, y)
            Whole(x, y, r, i) ==
                TreeOn(nodes, s, x, y, r) /\ Distinct(s, x, y) /\ i \in 0..(y - x + 1)
            P == {l \in 0..n : \A x, y, r, i : Whole(x, y, r, i) /\ y - x + 1 <= l => Good(x, y, r, i)}
<1>2. n \in Nat
  BY <1>0
<1>3. ASSUME NEW l \in 0..n, l # 0 => l - 1 \in P, NEW x, NEW y, NEW r, NEW i,
             Whole(x, y, r, i), y - x + 1 <= l
      PROVE  Good(x, y, r, i)
  <2>. DEFINE S == split[<<r, i>>]
              leftSize == Tree!SizeOf(nodes, nodes[r].left)
              c == x + i - 1
  <2>0. /\ x \in Int /\ y \in Int /\ x <= y + 1 /\ i \in Nat /\ i <= y - x + 1
        /\ r \in Present(nodes) \union {NoNode} /\ (r = NoNode <=> x = y + 1)
    BY <1>3, RootIs
  <2>1. S = SplitBelow(split, nodes, <<r, i>>)
    BY <1>1, <2>0 DEF IsSplitting
  <2>2. CASE r = NoNode
    <3>1. S = [nodes |-> nodes, left |-> NoNode, right |-> NoNode]
      BY <2>1, <2>2 DEF SplitBelow
    <3>2. c = x - 1 /\ c + 1 = x /\ y = x - 1
      BY <2>0, <2>2
    <3>3. TreeOn(nodes, s, x, x - 1, NoNode)
      BY <2>0, Bare
    <3>4. Keeps(nodes, nodes, KeysOf(s, x, y))
      BY KeepsAll
    <3>. HIDE DEF S, c
    <3>5. S.nodes = nodes /\ S.left = NoNode /\ S.right = NoNode
      BY <3>1
    <3>6. IsSplit(S, nodes, s, x, c, y)
      BY <3>2, <3>3, <3>4, <3>5 DEF IsSplit, IsRoot
    <3>. QED
      BY <3>6 DEF S, c
  <2>3. CASE r # NoNode
    <3>1. PICK q : IsCut(nodes, s, x, y, r, q)
      BY <1>3, <2>3, Cut
    <3>2. /\ q \in x..y /\ q \in Int /\ r = s[q] /\ r \in Present(nodes) /\ r \in Keys
          /\ TreeOn(nodes, s, x, q - 1, nodes[r].left)
          /\ TreeOn(nodes, s, q + 1, y, nodes[r].right)
      BY <2>0, <3>1 DEF IsCut, Present
    <3>3. leftSize = q - x
      BY <2>0, <3>2, RootIs
    <3>4. CASE i <= leftSize
      <4>. DEFINE below == split[<<nodes[r].left, i>>]
                  N == below.nodes
                  R == Tree!WithLeft(N, r, below.right)
                  new == Tree!AsRoot(R, below.left)
                  K == KeysOf(s, x, q - 1)
      <4>1. S = [nodes |-> new, left |-> below.left, right |-> r]
        BY <2>1, <2>3, <3>4 DEF SplitBelow
      <4>2. Distinct(s, x, q - 1) /\ K \subseteq KeysOf(s, x, y) /\ \A j \in x..y : s[j] \in K => j \in x..(q - 1)
        <5>1. q - 1 \in Int /\ x <= x /\ q - 1 <= y
          BY <2>0, <3>2
        <5>. QED
          BY <1>3, <2>0, <5>1, PartOf
      <4>3. IsSplit(below, nodes, s, x, c, q - 1)
        <5>1. l # 0 /\ (q - 1) - x + 1 <= l - 1
          BY <1>2, <1>3, <2>0, <3>2
        <5>2. i \in 0..((q - 1) - x + 1)
          BY <2>0, <3>2, <3>3, <3>4
        <5>3. Whole(x, q - 1, nodes[r].left, i)
          BY <3>2, <4>2, <5>2
        <5>4. Good(x, q - 1, nodes[r].left, i)
          <6>. HIDE DEF Good, Whole
          <6>. QED
            BY <1>3, <5>1, <5>3
        <5>. QED
          BY <5>4
      <4>4. c \in Int /\ x - 1 <= c /\ c <= q - 1 /\ c + 1 \in Int
        BY <2>0, <3>2, <3>3, <3>4
      <4>. HIDE DEF below, S, c, K
      <4>5. /\ Keeps(nodes, N, K) /\ TreeOn(N, s, x, c, below.left)
            /\ TreeOn(N, s, c + 1, q - 1, below.right)
        BY <4>3 DEF IsSplit, K
      <4>6. N \in Nodes /\ Present(N) = Present(nodes) /\ N[r] = nodes[r]
        <5>1. r \notin K
          BY <2>0, <3>2, <4>2
        <5>. QED
          BY <3>2, <4>5, <5>1 DEF Keeps
      <4>. HIDE DEF N
      <4>7. TreeOn(N, s, q + 1, y, nodes[r].right)
        <5>1. \A j \in (q + 1)..y : s[j] \notin K
          BY <2>0, <3>2, <4>2
        <5>. QED
          BY <3>2, <4>5, <5>1, KeepsTree
      <4>8. nodes[r].right # r /\ nodes[r].right \in Present(N) \union {NoNode}
        <5>1. nodes[r].right = NoNode \/ \E j \in (q + 1)..y : nodes[r].right = s[j]
          BY <4>7, RootAt
        <5>2. \A j \in (q + 1)..y : s[j] # s[q]
          BY <1>3, <2>0, <3>2 DEF Distinct
        <5>3. nodes[r].right \in Present(N) \union {NoNode}
          BY <4>7, RootIs
        <5>. QED
          BY <2>3, <3>2, <5>1, <5>2, <5>3
      <4>9. below.right # r /\ below.right \in Present(N) \union {NoNode}
        <5>1. below.right = NoNode \/ \E j \in (c + 1)..(q - 1) : below.right = s[j]
          BY <4>5, RootAt
        <5>2. \A j \in (c + 1)..(q - 1) : s[j] # s[q]
          BY <1>3, <2>0, <3>2, <4>4 DEF Distinct
        <5>3. below.right \in Present(N) \union {NoNode}
          BY <4>5, RootIs
        <5>. QED
          BY <2>3, <3>2, <5>1, <5>2, <5>3
      <4>10. Relinked(R, N, r, below.right, nodes[r].right)
        BY <3>2, <4>6, <4>8, <4>9, WithLeftIs
      <4>. HIDE DEF R
      <4>11. Distinct(s, c + 1, y) /\ KeysOf(s, c + 1, y) \subseteq KeysOf(s, x, y)
             /\ \A j \in x..y : s[j] \in KeysOf(s, c + 1, y) => j \in (c + 1)..y
        <5>1. x <= c + 1 /\ y <= y
          BY <2>0, <4>4
        <5>. QED
          BY <1>3, <2>0, <4>4, <5>1, PartOf
      <4>12. TreeOn(R, s, c + 1, y, r) /\ IsRoot(R, r) /\ Keeps(N, R, KeysOf(s, c + 1, y))
        <5>1. q \in (c + 1)..y
          BY <2>0, <3>2, <4>4
        <5>. QED
          BY <2>0, <3>2, <4>4, <4>5, <4>6, <4>7, <4>10, <4>11, <5>1, JoinAt
      <4>13. TreeOn(R, s, x, c, below.left)
        <5>1. \A j \in x..c : s[j] \notin KeysOf(s, c + 1, y)
          BY <2>0, <3>2, <4>4, <4>11
        <5>. QED
          BY <4>5, <4>12, <5>1, KeepsTree
      <4>14. R \in Nodes
        BY <4>12 DEF Keeps
      <4>15. c < c + 1 /\ x <= x /\ c <= y /\ x <= c + 1 /\ y <= y
        BY <2>0, <3>2, <4>4
      <4>16. /\ Keeps(R, new, KeysOf(s, x, y))
             /\ TreeOn(new, s, x, c, below.left) /\ IsRoot(new, below.left)
             /\ TreeOn(new, s, c + 1, y, r) /\ IsRoot(new, r)
        BY <1>3, <2>0, <4>12, <4>13, <4>14, <4>15, AsideIs
      <4>. HIDE DEF new
      <4>17. Keeps(nodes, new, KeysOf(s, x, y))
        <5>1. KeysOf(s, x, y) \subseteq KeysOf(s, x, y)
          OBVIOUS
        <5>2. Keeps(nodes, R, KeysOf(s, x, y))
          BY <4>2, <4>5, <4>11, <4>12, KeepsThen
        <5>. QED
          BY <4>16, <5>1, <5>2, KeepsThen
      <4>18. S.nodes = new /\ S.left = below.left /\ S.right = r
        BY <4>1
      <4>19. IsSplit(S, nodes, s, x, c, y)
        BY <4>16, <4>17, <4>18 DEF IsSplit
      <4>. QED
        BY <4>19 DEF S, c
    <3>5. CASE ~(i <= leftSize)
      <4>. DEFINE e == i - leftSize - 1
                  below == split[<<nodes[r].right, e>>]
                  N == below.nodes
                  R == Tree!WithRight(N, r, below.left)
                  new == Tree!AsRoot(R, below.right)
                  K == KeysOf(s, q + 1, y)
      <4>1. S = [nodes |-> new, left |-> r, right |-> below.right]
        BY <2>1, <2>3, <3>5 DEF SplitBelow
      <4>2. Distinct(s, q + 1, y) /\ K \subseteq KeysOf(s, x, y) /\ \A j \in x..y : s[j] \in K => j \in (q + 1)..y
        <5>1. q + 1 \in Int /\ x <= q + 1 /\ y <= y
          BY <2>0, <3>2
        <5>. QED
          BY <1>3, <2>0, <5>1, PartOf
      <4>3. IsSplit(below, nodes, s, q + 1, c, y)
        <5>1. l # 0 /\ y - (q + 1) + 1 <= l - 1
          BY <1>2, <1>3, <2>0, <3>2
        <5>2. e \in 0..(y - (q + 1) + 1) /\ (q + 1) + e - 1 = c
          BY <2>0, <3>2, <3>3, <3>5
        <5>3. Whole(q + 1, y, nodes[r].right, e)
          <6>. HIDE DEF e
          <6>. QED
            BY <3>2, <4>2, <5>2
        <5>4. Good(q + 1, y, nodes[r].right, e)
          <6>. HIDE DEF Good, Whole, e
          <6>. QED
            BY <1>3, <5>1, <5>3
        <5>. HIDE DEF e, c
        <5>. QED
          BY <5>2, <5>4
      <4>4. c \in Int /\ q <= c /\ c <= y /\ c + 1 \in Int
        BY <2>0, <3>2, <3>3, <3>5
      <4>. HIDE DEF below, S, c, K, e
      <4>5. /\ Keeps(nodes, N, K) /\ TreeOn(N, s, q + 1, c, below.left)
            /\ TreeOn(N, s, c + 1, y, below.right)
        BY <4>3 DEF IsSplit, K
      <4>6. N \in Nodes /\ Present(N) = Present(nodes) /\ N[r] = nodes[r]
        <5>1. r \notin K
          BY <2>0, <3>2, <4>2
        <5>. QED
          BY <3>2, <4>5, <5>1 DEF Keeps
      <4>. HIDE DEF N
      <4>7. TreeOn(N, s, x, q - 1, nodes[r].left)
        <5>1. \A j \in x..(q - 1) : s[j] \notin K
          BY <2>0, <3>2, <4>2
        <5>. QED
          BY <3>2, <4>5, <5>1, KeepsTree
      <4>8. nodes[r].left # r /\ nodes[r].left \in Present(N) \union {NoNode}
        <5>1. nodes[r].left = NoNode \/ \E j \in x..(q - 1) : nodes[r].left = s[j]
          BY <4>7, RootAt
        <5>2. \A j \in x..(q - 1) : s[j] # s[q]
          BY <1>3, <2>0, <3>2 DEF Distinct
        <5>3. nodes[r].left \in Present(N) \union {NoNode}
          BY <4>7, RootIs
        <5>. QED
          BY <2>3, <3>2, <5>1, <5>2, <5>3
      <4>9. below.left # r /\ below.left \in Present(N) \union {NoNode}
        <5>1. below.left = NoNode \/ \E j \in (q + 1)..c : below.left = s[j]
          BY <4>5, RootAt
        <5>2. \A j \in (q + 1)..c : s[j] # s[q]
          BY <1>3, <2>0, <3>2, <4>4 DEF Distinct
        <5>3. below.left \in Present(N) \union {NoNode}
          BY <4>5, RootIs
        <5>. QED
          BY <2>3, <3>2, <5>1, <5>2, <5>3
      <4>10. Relinked(R, N, r, nodes[r].left, below.left)
        BY <3>2, <4>6, <4>8, <4>9, WithRightIs
      <4>. HIDE DEF R
      <4>11. Distinct(s, x, c) /\ KeysOf(s, x, c) \subseteq KeysOf(s, x, y)
             /\ \A j \in x..y : s[j] \in KeysOf(s, x, c) => j \in x..c
        <5>1. x <= x /\ c <= y
          BY <2>0, <4>4
        <5>. QED
          BY <1>3, <2>0, <4>4, <5>1, PartOf
      <4>12. TreeOn(R, s, x, c, r) /\ IsRoot(R, r) /\ Keeps(N, R, KeysOf(s, x, c))
        <5>1. q \in x..c
          BY <2>0, <3>2, <4>4
        <5>. QED
          BY <2>0, <3>2, <4>4, <4>5, <4>6, <4>7, <4>10, <4>11, <5>1, JoinAt
      <4>13. TreeOn(R, s, c + 1, y, below.right)
        <5>1. \A j \in (c + 1)..y : s[j] \notin KeysOf(s, x, c)
          BY <2>0, <3>2, <4>4, <4>11
        <5>. QED
          BY <4>5, <4>12, <5>1, KeepsTree
      <4>14. R \in Nodes
        BY <4>12 DEF Keeps
      <4>15. c < c + 1 /\ x <= x /\ c <= y /\ x <= c + 1 /\ y <= y
        BY <2>0, <3>2, <4>4
      <4>16. /\ Keeps(R, new, KeysOf(s, x, y))
             /\ TreeOn(new, s, c + 1, y, below.right) /\ IsRoot(new, below.right)
             /\ TreeOn(new, s, x, c, r) /\ IsRoot(new, r)
        BY <1>3, <2>0, <4>12, <4>13, <4>14, <4>15, AsideIs
      <4>. HIDE DEF new
      <4>17. Keeps(nodes, new, KeysOf(s, x, y))
        <5>1. KeysOf(s, x, y) \subseteq KeysOf(s, x, y)
          OBVIOUS
        <5>2. Keeps(nodes, R, KeysOf(s, x, y))
          BY <4>2, <4>5, <4>11, <4>12, KeepsThen
        <5>. QED
          BY <4>16, <5>1, <5>2, KeepsThen
      <4>18. S.nodes = new /\ S.left = r /\ S.right = below.right
        BY <4>1
      <4>19. IsSplit(S, nodes, s, x, c, y)
        BY <4>16, <4>17, <4>18 DEF IsSplit
      <4>. QED
        BY <4>19 DEF S, c
    <3>. QED
      BY <3>4, <3>5
  <2>. QED
    BY <2>2, <2>3
<1>4. \A l \in 0..n : (l # 0 => l - 1 \in P) => l \in P
  <2>. HIDE DEF Good, Whole, n
  <2>. QED
    BY <1>3
<1>. HIDE DEF P
<1>5. n \in P
  <2>. HIDE DEF n
  <2>1. 0 \in P
    BY <1>2, <1>4
  <2>2. \A l \in 1..n : l - 1 \in P => l \in P
    BY <1>2, <1>4
  <2>3. \A l \in 0..n : l \in P
    BY <1>2, <2>1, <2>2, Induction
  <2>. QED
    BY <1>2, <2>3
<1>6. Whole(a, b, top, number) /\ b - a + 1 <= n
  BY <1>2
<1>7. Good(a, b, top, number)
  <2>. HIDE DEF Good, Whole
  <2>. QED
    BY <1>5, <1>6 DEF P
<1>. QED
  BY <1>1, <1>7

-----------------------------------------------------------------------------
(* Reading a tree *)

\* Every node is the root of a tree.
LEMMA RankedIs ==
  ASSUME NEW nodes, NEW most,
         \A k \in Present(nodes) : \E s, a, b : TreeOn(nodes, s, a, b, k) /\ b - a + 1 <= most
  PROVE  Ranked(nodes, most)
<1>1. ASSUME NEW k \in Present(nodes)
      PROVE  /\ nodes[k].left \in Present(nodes) \union {NoNode}
             /\ nodes[k].right \in Present(nodes) \union {NoNode}
             /\ Tree!SizeOf(nodes, nodes[k].left) < nodes[k].size
             /\ Tree!SizeOf(nodes, nodes[k].right) < nodes[k].size
             /\ nodes[k].size <= most
  <2>1. PICK s, a, b : TreeOn(nodes, s, a, b, k) /\ b - a + 1 <= most
    OBVIOUS
  <2>2. PICK q : IsCut(nodes, s, a, b, k, q)
    BY <2>1, Cut, PresentIsNoNone
  <2>3. /\ a \in Int /\ b \in Int /\ q \in a..b /\ nodes[k].size = b - a + 1
        /\ TreeOn(nodes, s, a, q - 1, nodes[k].left)
        /\ TreeOn(nodes, s, q + 1, b, nodes[k].right)
    BY <2>2 DEF IsCut
  <2>4. /\ nodes[k].left \in Present(nodes) \union {NoNode}
        /\ Tree!SizeOf(nodes, nodes[k].left) = (q - 1) - a + 1
    BY <2>3, RootIs
  <2>5. /\ nodes[k].right \in Present(nodes) \union {NoNode}
        /\ Tree!SizeOf(nodes, nodes[k].right) = b - (q + 1) + 1
    BY <2>3, RootIs
  <2>. QED
    BY <2>1, <2>3, <2>4, <2>5
<1>. QED
  BY <1>1 DEF Ranked

\* The body of sequenceNodeAt.
AtBelow(at, nodes, rest) ==
    LET root == rest[1]
        index == rest[2]
        leftSize == Tree!SizeOf(nodes, nodes[root].left)
    IN  IF root = NoNode \/ index = leftSize THEN root
        ELSE IF index < leftSize THEN at[<<nodes[root].left, index>>]
        ELSE at[<<nodes[root].right, index - leftSize - 1>>]

\* A function that is what sequenceNodeAt computes.
IsSearch(at, nodes) ==
    \A r \in Present(nodes) \union {NoNode}, index \in Nat :
        at[<<r, index>>] = AtBelow(at, nodes, <<r, index>>)

\* There is one, and NodeAt is its value.
LEMMA NodeAtIsRecursive ==
  ASSUME NEW nodes \in Nodes, NEW most \in Nat, Ranked(nodes, most), NEW top, NEW position
  PROVE  \E at : IsSearch(at, nodes) /\ Tree!NodeAt(nodes, top, position) = at[<<top, position>>]
<1>. DEFINE D == Tree!Links(nodes) \X Nat
            Rank(x) == Tree!SizeOf(nodes, x[1])
            Then(f, x) == AtBelow(f, nodes, x)
            M == most + 1
            Rec(f) == [x \in D |-> Then(f, x)]
            Solves(f, k) == \A x \in D : Rank(x) < k => f[x] = Then(f, x)
            P == {k \in 0..M : \E f : Solves(f, k)}
<1>0. Tree!Links(nodes) = Present(nodes) \union {NoNode}
  BY LinksAre
<1>a. \A x \in D : x[1] \in Present(nodes) \union {NoNode} /\ x[2] \in Nat /\ x = <<x[1], x[2]>>
  BY <1>0
<1>b. \A r \in Present(nodes) \union {NoNode}, i \in Nat :
         <<r, i>> \in D /\ Rank(<<r, i>>) = Tree!SizeOf(nodes, r)
  BY <1>0
<1>1. M \in Nat /\ \A x \in D : Rank(x) \in Nat /\ Rank(x) < M
  BY <1>a, SizesAre
<1>2. ASSUME NEW f, NEW h, NEW x \in D, \A y \in D : Rank(y) < Rank(x) => f[y] = h[y]
      PROVE  Then(f, x) = Then(h, x)
  <2>. DEFINE r == x[1]
              index == x[2]
              leftSize == Tree!SizeOf(nodes, nodes[r].left)
              y == <<nodes[r].left, index>>
              z == <<nodes[r].right, index - leftSize - 1>>
  <2>1. r \in Present(nodes) \union {NoNode} /\ index \in Nat
    BY <1>a
  <2>2. CASE r = NoNode
    BY <2>2 DEF AtBelow
  <2>3. CASE r # NoNode
    <3>0. r \in Present(nodes)
      BY <2>1, <2>3
    <3>1. /\ nodes[r].left \in Present(nodes) \union {NoNode}
          /\ nodes[r].right \in Present(nodes) \union {NoNode}
          /\ leftSize < nodes[r].size
          /\ Tree!SizeOf(nodes, nodes[r].right) < nodes[r].size
      BY <3>0 DEF Ranked
    <3>2. Tree!SizeOf(nodes, r) = nodes[r].size /\ Rank(x) = Tree!SizeOf(nodes, r)
      BY <2>3 DEF Tree!SizeOf
    <3>3. leftSize \in Nat
      BY <3>1, SizesAre
    <3>4. y \in D /\ Rank(y) < Rank(x)
      BY <1>b, <2>1, <3>1, <3>2
    <3>5. index > leftSize => z \in D /\ Rank(z) < Rank(x)
      <4>1. index > leftSize => index - leftSize - 1 \in Nat
        BY <2>1, <3>3
      <4>. QED
        BY <1>b, <2>1, <3>1, <3>2, <4>1
    <3>6. f[y] = h[y] /\ (index > leftSize => f[z] = h[z])
      <4>. HIDE DEF D, Rank, y, z
      <4>. QED
        BY <1>2, <3>4, <3>5
    <3>7. index = leftSize \/ index < leftSize \/ index > leftSize
      BY <2>1, <3>3
    <3>. QED
      BY <2>3, <3>6, <3>7 DEF AtBelow
  <2>. QED
    BY <2>2, <2>3
<1>. HIDE DEF D, Rank, Then, M
<1>3. 0 \in P
  <2>1. \A f : Solves(f, 0)
    BY <1>1
  <2>. HIDE DEF Solves
  <2>. QED
    BY <1>1, <2>1
<1>4. ASSUME NEW k \in 1..M, k - 1 \in P
      PROVE  k \in P
  <2>1. PICK f : Solves(f, k - 1)
    BY <1>4
  <2>. DEFINE h == [x \in D |-> IF Rank(x) < k - 1 THEN f[x] ELSE Then(f, x)]
  <2>2. \A x \in D : h[x] = IF Rank(x) < k - 1 THEN f[x] ELSE Then(f, x)
    OBVIOUS
  <2>. HIDE DEF h
  <2>3. ASSUME NEW x \in D, Rank(x) < k
        PROVE  h[x] = Then(h, x)
    <3>1. h[x] = Then(f, x)
      BY <2>1, <2>2
    <3>2. \A y \in D : Rank(y) < Rank(x) => f[y] = h[y]
      BY <1>1, <2>2, <2>3
    <3>3. Then(f, x) = Then(h, x)
      BY <1>2, <3>2
    <3>. QED
      BY <3>1, <3>3
  <2>4. Solves(h, k)
    BY <2>3
  <2>. HIDE DEF Solves
  <2>. QED
    BY <1>1, <2>4
<1>5. M \in P
  <2>. HIDE DEF P
  <2>1. \A i \in 0..M : i \in P
    BY <1>1, <1>3, <1>4, Induction
  <2>. QED
    BY <1>1, <2>1
<1>6. \E f : f = Rec(f)
  <2>1. PICK f : Solves(f, M)
    BY <1>5
  <2>. DEFINE g == [x \in D |-> Then(f, x)]
  <2>2. \A x \in D : g[x] = f[x]
    BY <1>1, <2>1
  <2>3. \A x \in D : Then(f, x) = Then(g, x)
    <3>. HIDE DEF g
    <3>. QED
      BY <1>2, <2>2
  <2>4. g = Rec(g)
    BY <2>3
  <2>. HIDE DEF Rec, g
  <2>. QED
    BY <2>4
<1>. DEFINE at == CHOOSE f : f = Rec(f)
<1>7. at = Rec(at)
  <2>. HIDE DEF Rec
  <2>. QED
    BY <1>6
<1>8. Tree!NodeAt(nodes, top, position) = at[<<top, position>>]
  BY DEF Tree!NodeAt, AtBelow, D, Then
<1>. HIDE DEF at
<1>9. \A x \in D : at[x] = Then(at, x)
  BY <1>7
<1>10. IsSearch(at, nodes)
  BY <1>9, <1>b DEF IsSearch, Then
<1>. QED
  BY <1>8, <1>10

\* sequenceNodeAt finds the key of a position, and nothing behind the last.
LEMMA NodeAtIs ==
  ASSUME NEW nodes \in Nodes, NEW most \in Nat, Ranked(nodes, most),
         NEW s, NEW a, NEW b, NEW top, TreeOn(nodes, s, a, b, top), NEW position \in Nat
  PROVE  Tree!NodeAt(nodes, top, position) = IF position <= b - a THEN s[a + position] ELSE NoNode
<1>0. a \in Int /\ b \in Int /\ a <= b + 1
  BY RootIs
<1>1. PICK at : IsSearch(at, nodes) /\ Tree!NodeAt(nodes, top, position) = at[<<top, position>>]
  BY NodeAtIsRecursive
<1>. DEFINE n == b - a + 1
            Good(x, y, r) == \A i \in Nat : at[<<r, i>>] = IF i <= y - x THEN s[x + i] ELSE NoNode
            P == {l \in 0..n : \A x, y, r : TreeOn(nodes, s, x, y, r) /\ y - x + 1 <= l => Good(x, y, r)}
<1>2. n \in Nat
  BY <1>0
<1>3. ASSUME NEW l \in 0..n, l # 0 => l - 1 \in P, NEW x, NEW y, NEW r,
             TreeOn(nodes, s, x, y, r), y - x + 1 <= l
      PROVE  Good(x, y, r)
  <2>0. /\ x \in Int /\ y \in Int /\ x <= y + 1
        /\ r \in Present(nodes) \union {NoNode} /\ (r = NoNode <=> x = y + 1)
    BY <1>3, RootIs
  <2>1. ASSUME NEW i \in Nat
        PROVE  at[<<r, i>>] = IF i <= y - x THEN s[x + i] ELSE NoNode
    <3>. DEFINE leftSize == Tree!SizeOf(nodes, nodes[r].left)
    <3>1. at[<<r, i>>] = AtBelow(at, nodes, <<r, i>>)
      BY <1>1, <2>0 DEF IsSearch
    <3>2. at[<<r, i>>] = IF r = NoNode \/ i = leftSize THEN r
                         ELSE IF i < leftSize THEN at[<<nodes[r].left, i>>]
                         ELSE at[<<nodes[r].right, i - leftSize - 1>>]
      BY <3>1 DEF AtBelow
    <3>3. CASE r = NoNode
      BY <2>0, <3>2, <3>3
    <3>4. CASE r # NoNode
      <4>1. PICK q : IsCut(nodes, s, x, y, r, q)
        BY <1>3, <3>4, Cut
      <4>2. /\ q \in x..y /\ q \in Int /\ r = s[q]
            /\ TreeOn(nodes, s, x, q - 1, nodes[r].left)
            /\ TreeOn(nodes, s, q + 1, y, nodes[r].right)
        BY <2>0, <4>1 DEF IsCut
      <4>3. leftSize = q - x
        BY <2>0, <4>2, RootIs
      <4>. HIDE DEF leftSize
      <4>4. l # 0 /\ (q - 1) - x + 1 <= l - 1 /\ y - (q + 1) + 1 <= l - 1
        BY <1>2, <1>3, <2>0, <4>2
      <4>5. Good(x, q - 1, nodes[r].left) /\ Good(q + 1, y, nodes[r].right)
        <5>. HIDE DEF Good
        <5>. QED
          BY <1>3, <4>2, <4>4
      <4>6. CASE i = leftSize
        <5>1. i <= y - x /\ x + i = q
          BY <2>0, <4>2, <4>3, <4>6
        <5>. QED
          BY <3>2, <3>4, <4>2, <4>6, <5>1
      <4>7. CASE i < leftSize
        <5>1. i <= y - x /\ i <= (q - 1) - x
          BY <2>0, <4>2, <4>3, <4>7
        <5>2. at[<<nodes[r].left, i>>] = s[x + i]
          BY <4>5, <5>1
        <5>3. i # leftSize
          BY <2>0, <4>2, <4>3, <4>7
        <5>. QED
          BY <3>2, <3>4, <4>7, <5>1, <5>2, <5>3
      <4>8. CASE i > leftSize
        <5>. DEFINE j == i - leftSize - 1
        <5>1. j \in Nat /\ (q + 1) + j = x + i /\ (j <= y - (q + 1) <=> i <= y - x)
          BY <2>0, <4>2, <4>3, <4>8
        <5>2. at[<<r, i>>] = at[<<nodes[r].right, j>>]
          BY <2>0, <3>2, <3>4, <4>2, <4>3, <4>8
        <5>. HIDE DEF j
        <5>3. at[<<nodes[r].right, j>>] = IF j <= y - (q + 1) THEN s[(q + 1) + j] ELSE NoNode
          BY <4>5, <5>1
        <5>. QED
          BY <5>1, <5>2, <5>3
      <4>. QED
        BY <2>0, <4>2, <4>3, <4>6, <4>7, <4>8
    <3>. QED
      BY <3>3, <3>4
  <2>. QED
    BY <2>1
<1>4. \A l \in 0..n : (l # 0 => l - 1 \in P) => l \in P
  <2>. HIDE DEF Good, n
  <2>. QED
    BY <1>3
<1>. HIDE DEF P
<1>5. n \in P
  <2>. HIDE DEF n
  <2>1. 0 \in P
    BY <1>2, <1>4
  <2>2. \A l \in 1..n : l - 1 \in P => l \in P
    BY <1>2, <1>4
  <2>3. \A l \in 0..n : l \in P
    BY <1>2, <2>1, <2>2, Induction
  <2>. QED
    BY <1>2, <2>3
<1>6. b - a + 1 <= n
  BY <1>2
<1>7. Good(a, b, top)
  <2>. HIDE DEF Good
  <2>. QED
    BY <1>5, <1>6 DEF P
<1>. QED
  BY <1>1, <1>7

-----------------------------------------------------------------------------
(* The rows of a tree *)

\* The entry of a node.
EntryOf(nodes, k) == [key |-> k, row |-> nodes[k].row]

\* The body of materializeSequence.
RowsBelow(rows, nodes, root) ==
    IF root = NoNode THEN <<>>
    ELSE rows[nodes[root].left] \o <<[key |-> root, row |-> nodes[root].row]>>
            \o rows[nodes[root].right]

\* A function that is what materializeSequence computes.
IsTraversal(rows, nodes) ==
    \A r \in Present(nodes) \union {NoNode} : rows[r] = RowsBelow(rows, nodes, r)

\* There is one, and Materialized is its value.
LEMMA MaterializedIsRecursive ==
  ASSUME NEW nodes \in Nodes, NEW most \in Nat, Ranked(nodes, most), NEW top
  PROVE  \E rows : IsTraversal(rows, nodes) /\ Tree!Materialized(nodes, top) = rows[top]
<1>. DEFINE D == Tree!Links(nodes)
            Rank(x) == Tree!SizeOf(nodes, x)
            Then(f, x) == RowsBelow(f, nodes, x)
            M == most + 1
            Rec(f) == [x \in D |-> Then(f, x)]
            Solves(f, k) == \A x \in D : Rank(x) < k => f[x] = Then(f, x)
            P == {k \in 0..M : \E f : Solves(f, k)}
<1>0. D = Present(nodes) \union {NoNode}
  BY LinksAre
<1>1. M \in Nat /\ \A x \in D : Rank(x) \in Nat /\ Rank(x) < M
  BY <1>0, SizesAre
<1>2. ASSUME NEW f, NEW h, NEW x \in D, \A y \in D : Rank(y) < Rank(x) => f[y] = h[y]
      PROVE  Then(f, x) = Then(h, x)
  <2>1. CASE x = NoNode
    BY <2>1 DEF RowsBelow
  <2>2. CASE x # NoNode
    <3>. DEFINE y == nodes[x].left
                z == nodes[x].right
    <3>1. y \in D /\ z \in D /\ Rank(y) < Rank(x) /\ Rank(z) < Rank(x)
      <4>1. x \in Present(nodes)
        BY <1>0, <2>2
      <4>2. /\ y \in Present(nodes) \union {NoNode} /\ z \in Present(nodes) \union {NoNode}
            /\ Tree!SizeOf(nodes, y) < nodes[x].size /\ Tree!SizeOf(nodes, z) < nodes[x].size
        BY <4>1 DEF Ranked
      <4>3. Tree!SizeOf(nodes, x) = nodes[x].size
        BY <2>2 DEF Tree!SizeOf
      <4>. QED
        BY <1>0, <4>2, <4>3
    <3>2. f[y] = h[y] /\ f[z] = h[z]
      <4>. HIDE DEF D, Rank, y, z
      <4>. QED
        BY <1>2, <3>1
    <3>. QED
      BY <2>2, <3>2 DEF RowsBelow
  <2>. QED
    BY <2>1, <2>2
<1>. HIDE DEF D, Rank, Then, M
<1>3. 0 \in P
  <2>1. \A f : Solves(f, 0)
    BY <1>1
  <2>. HIDE DEF Solves
  <2>. QED
    BY <1>1, <2>1
<1>4. ASSUME NEW k \in 1..M, k - 1 \in P
      PROVE  k \in P
  <2>1. PICK f : Solves(f, k - 1)
    BY <1>4
  <2>. DEFINE h == [x \in D |-> IF Rank(x) < k - 1 THEN f[x] ELSE Then(f, x)]
  <2>2. \A x \in D : h[x] = IF Rank(x) < k - 1 THEN f[x] ELSE Then(f, x)
    OBVIOUS
  <2>. HIDE DEF h
  <2>3. ASSUME NEW x \in D, Rank(x) < k
        PROVE  h[x] = Then(h, x)
    <3>1. h[x] = Then(f, x)
      BY <2>1, <2>2
    <3>2. \A y \in D : Rank(y) < Rank(x) => f[y] = h[y]
      BY <1>1, <2>2, <2>3
    <3>3. Then(f, x) = Then(h, x)
      BY <1>2, <3>2
    <3>. QED
      BY <3>1, <3>3
  <2>4. Solves(h, k)
    BY <2>3
  <2>. HIDE DEF Solves
  <2>. QED
    BY <1>1, <2>4
<1>5. M \in P
  <2>. HIDE DEF P
  <2>1. \A i \in 0..M : i \in P
    BY <1>1, <1>3, <1>4, Induction
  <2>. QED
    BY <1>1, <2>1
<1>6. \E f : f = Rec(f)
  <2>1. PICK f : Solves(f, M)
    BY <1>5
  <2>. DEFINE g == [x \in D |-> Then(f, x)]
  <2>2. \A x \in D : g[x] = f[x]
    BY <1>1, <2>1
  <2>3. \A x \in D : Then(f, x) = Then(g, x)
    <3>. HIDE DEF g
    <3>. QED
      BY <1>2, <2>2
  <2>4. g = Rec(g)
    BY <2>3
  <2>. HIDE DEF Rec, g
  <2>. QED
    BY <2>4
<1>. DEFINE rows == CHOOSE f : f = Rec(f)
<1>7. rows = Rec(rows)
  <2>. HIDE DEF Rec
  <2>. QED
    BY <1>6
<1>8. Tree!Materialized(nodes, top) = rows[top]
  BY DEF Tree!Materialized, RowsBelow, D, Then
<1>. HIDE DEF rows
<1>9. \A x \in D : rows[x] = Then(rows, x)
  BY <1>7
<1>10. IsTraversal(rows, nodes)
  BY <1>0, <1>9 DEF IsTraversal, Then
<1>. QED
  BY <1>8, <1>10

\* The entries of an interval, in its order.
IsRowsOf(rows, nodes, s, a, b) ==
    /\ rows \in Seq(Entry) /\ Len(rows) = b - a + 1
    /\ \A j \in 1..(b - a + 1) : rows[j] = EntryOf(nodes, s[a + j - 1])

\* materializeSequence lists the entries of a tree in order.
LEMMA MaterializedIs ==
  ASSUME NEW nodes \in Nodes, NEW most \in Nat, Ranked(nodes, most),
         NEW s, NEW a, NEW b, NEW top, TreeOn(nodes, s, a, b, top)
  PROVE  IsRowsOf(Tree!Materialized(nodes, top), nodes, s, a, b)
<1>0. a \in Int /\ b \in Int /\ a <= b + 1
  BY RootIs
<1>1. PICK rows : IsTraversal(rows, nodes) /\ Tree!Materialized(nodes, top) = rows[top]
  BY MaterializedIsRecursive
<1>. DEFINE n == b - a + 1
            Good(x, y, r) == IsRowsOf(rows[r], nodes, s, x, y)
            P == {l \in 0..n : \A x, y, r : TreeOn(nodes, s, x, y, r) /\ y - x + 1 <= l => Good(x, y, r)}
<1>2. n \in Nat
  BY <1>0
<1>3. ASSUME NEW l \in 0..n, l # 0 => l - 1 \in P, NEW x, NEW y, NEW r,
             TreeOn(nodes, s, x, y, r), y - x + 1 <= l
      PROVE  Good(x, y, r)
  <2>0. /\ x \in Int /\ y \in Int /\ x <= y + 1
        /\ r \in Present(nodes) \union {NoNode} /\ (r = NoNode <=> x = y + 1)
    BY <1>3, RootIs
  <2>1. rows[r] = RowsBelow(rows, nodes, r)
    BY <1>1, <2>0 DEF IsTraversal
  <2>2. CASE r = NoNode
    <3>1. rows[r] = <<>> /\ y - x + 1 = 0
      BY <2>0, <2>1, <2>2 DEF RowsBelow
    <3>2. <<>> \in Seq(Entry) /\ Len(<<>>) = 0
      BY EmptySeq
    <3>3. IsRowsOf(<<>>, nodes, s, x, y)
      BY <3>1, <3>2 DEF IsRowsOf
    <3>. QED
      BY <3>1, <3>3
  <2>3. CASE r # NoNode
    <3>1. PICK q : IsCut(nodes, s, x, y, r, q)
      BY <1>3, <2>3, Cut
    <3>2. /\ q \in x..y /\ q \in Int /\ r = s[q] /\ r \in Present(nodes)
          /\ TreeOn(nodes, s, x, q - 1, nodes[r].left)
          /\ TreeOn(nodes, s, q + 1, y, nodes[r].right)
      BY <2>0, <3>1 DEF IsCut
    <3>. DEFINE u == rows[nodes[r].left]
                v == rows[nodes[r].right]
                e == EntryOf(nodes, r)
    <3>3. rows[r] = (u \o <<e>>) \o v
      BY <2>1, <2>3 DEF RowsBelow, EntryOf
    <3>4. l # 0 /\ (q - 1) - x + 1 <= l - 1 /\ y - (q + 1) + 1 <= l - 1
      BY <1>2, <1>3, <2>0, <3>2
    <3>5. Good(x, q - 1, nodes[r].left) /\ Good(q + 1, y, nodes[r].right)
      <4>. HIDE DEF Good
      <4>. QED
        BY <1>3, <3>2, <3>4
    <3>. HIDE DEF u, v
    <3>6. /\ u \in Seq(Entry) /\ Len(u) = (q - 1) - x + 1
          /\ \A j \in 1..((q - 1) - x + 1) : u[j] = EntryOf(nodes, s[x + j - 1])
      BY <3>5 DEF IsRowsOf, u
    <3>7. /\ v \in Seq(Entry) /\ Len(v) = y - (q + 1) + 1
          /\ \A j \in 1..(y - (q + 1) + 1) : v[j] = EntryOf(nodes, s[(q + 1) + j - 1])
      BY <3>5 DEF IsRowsOf, v
    <3>8. e \in Entry
      BY <3>2, NodeIs DEF EntryOf, Entry
    <3>. HIDE DEF e
    <3>. DEFINE ue == u \o <<e>>
                all == ue \o v
    <3>9. <<e>> \in Seq(Entry) /\ Len(<<e>>) = 1 /\ <<e>>[1] = e
      BY <3>8
    <3>. DEFINE one == <<e>>
    <3>. HIDE DEF one
    <3>10. /\ ue \in Seq(Entry) /\ Len(ue) = Len(u) + 1
           /\ \A j \in 1..(Len(u) + 1) : ue[j] = IF j <= Len(u) THEN u[j] ELSE e
      <4>1. /\ u \o one \in Seq(Entry) /\ Len(u \o one) = Len(u) + Len(one)
            /\ \A j \in 1..(Len(u) + Len(one)) :
                  (u \o one)[j] = IF j <= Len(u) THEN u[j] ELSE one[j - Len(u)]
        BY <3>6, <3>9, ConcatProperties DEF one
      <4>2. Len(one) = 1 /\ one[1] = e
        BY <3>9 DEF one
      <4>3. Len(u) \in Nat
        BY <3>6, LenProperties
      <4>4. \A j \in 1..(Len(u) + 1) : ~(j <= Len(u)) => j - Len(u) = 1
        BY <4>3
      <4>5. ue = u \o one
        BY DEF one
      <4>. HIDE DEF ue
      <4>. QED
        BY <4>1, <4>2, <4>4, <4>5
    <3>. HIDE DEF ue
    <3>11. /\ all \in Seq(Entry) /\ Len(all) = Len(ue) + Len(v)
           /\ \A j \in 1..(Len(ue) + Len(v)) :
                 all[j] = IF j <= Len(ue) THEN ue[j] ELSE v[j - Len(ue)]
      BY <3>7, <3>10, ConcatProperties
    <3>. HIDE DEF all
    <3>12. Len(all) = y - x + 1 /\ Len(ue) = q - x + 1 /\ Len(u) = q - x
      BY <2>0, <3>2, <3>6, <3>7, <3>10, <3>11
    <3>13. ASSUME NEW j \in 1..(y - x + 1)
           PROVE  all[j] = EntryOf(nodes, s[x + j - 1])
      <4>0. j \in Int /\ j \in 1..(Len(ue) + Len(v))
        BY <2>0, <3>11, <3>12
      <4>1. CASE j <= q - x
        <5>1. all[j] = u[j] /\ j \in 1..((q - 1) - x + 1)
          BY <2>0, <3>2, <3>10, <3>11, <3>12, <4>0, <4>1
        <5>. QED
          BY <3>6, <5>1
      <4>2. CASE j = q - x + 1
        <5>1. all[j] = ue[j]
          BY <2>0, <3>2, <3>11, <3>12, <4>0, <4>2
        <5>2. ue[j] = e
          BY <2>0, <3>2, <3>10, <3>12, <4>0, <4>2
        <5>3. x + j - 1 = q
          BY <2>0, <3>2, <4>2
        <5>. QED
          BY <3>2, <5>1, <5>2, <5>3 DEF e
      <4>3. CASE j > q - x + 1
        <5>. DEFINE i == j - Len(ue)
        <5>1. all[j] = v[i]
          BY <2>0, <3>2, <3>11, <3>12, <4>0, <4>3
        <5>2. i \in 1..(y - (q + 1) + 1) /\ (q + 1) + i - 1 = x + j - 1
          BY <2>0, <3>2, <3>12, <4>0, <4>3
        <5>. HIDE DEF i
        <5>. QED
          BY <3>7, <5>1, <5>2
      <4>. QED
        BY <2>0, <3>2, <4>0, <4>1, <4>2, <4>3
    <3>14. IsRowsOf(all, nodes, s, x, y)
      BY <3>11, <3>12, <3>13 DEF IsRowsOf
    <3>. QED
      BY <3>3, <3>14 DEF all, ue
  <2>. QED
    BY <2>2, <2>3
<1>4. \A l \in 0..n : (l # 0 => l - 1 \in P) => l \in P
  <2>. HIDE DEF Good, n
  <2>. QED
    BY <1>3
<1>. HIDE DEF P
<1>5. n \in P
  <2>. HIDE DEF n
  <2>1. 0 \in P
    BY <1>2, <1>4
  <2>2. \A l \in 1..n : l - 1 \in P => l \in P
    BY <1>2, <1>4
  <2>3. \A l \in 0..n : l \in P
    BY <1>2, <2>1, <2>2, Induction
  <2>. QED
    BY <1>2, <2>3
<1>6. b - a + 1 <= n
  BY <1>2
<1>7. Good(a, b, top)
  <2>. HIDE DEF Good
  <2>. QED
    BY <1>5, <1>6 DEF P
<1>. QED
  BY <1>1, <1>7

-----------------------------------------------------------------------------
(* Positions, up the parents *)

\* Every node but the roots has a parent, with more nodes below.
Parented(nodes, most) ==
    \A k \in Present(nodes) :
        /\ nodes[k].size <= most
        /\ nodes[k].parent # NoNode => /\ nodes[k].parent \in Present(nodes)
                                       /\ nodes[k].size < nodes[nodes[k].parent].size

\* A parent, with more nodes below.
HasParent(nodes, k) ==
    /\ nodes[k].parent \in Present(nodes)
    /\ nodes[k].size < nodes[nodes[k].parent].size

\* All nodes of a tree but its root have one.
LEMMA ParentsUp ==
  ASSUME NEW nodes \in Nodes, NEW s, NEW a, NEW b, NEW r, TreeOn(nodes, s, a, b, r),
         NEW p \in a..b
  PROVE  s[p] = r \/ HasParent(nodes, s[p])
<1>. DEFINE Good(x, y, c) == \A j \in x..y : s[j] = c \/ HasParent(nodes, s[j])
            n == b - a + 1
            P == {l \in 0..n : \A x, y, c : TreeOn(nodes, s, x, y, c) /\ y - x + 1 <= l => Good(x, y, c)}
<1>0. a \in Int /\ b \in Int /\ a <= b + 1
  BY RootIs
<1>2. n \in Nat
  BY <1>0
<1>3. ASSUME NEW l \in 0..n, l # 0 => l - 1 \in P, NEW x, NEW y, NEW c,
             TreeOn(nodes, s, x, y, c), y - x + 1 <= l
      PROVE  Good(x, y, c)
  <2>0. /\ x \in Int /\ y \in Int /\ x <= y + 1
        /\ c \in Present(nodes) \union {NoNode} /\ (c = NoNode <=> x = y + 1)
    BY <1>3, RootIs
  <2>1. CASE c = NoNode
    <3>1. x..y = {}
      BY <2>0, <2>1
    <3>. QED
      BY <3>1
  <2>2. CASE c # NoNode
    <3>1. PICK q : IsCut(nodes, s, x, y, c, q)
      BY <1>3, <2>2, Cut
    <3>. DEFINE u == nodes[c].left
                v == nodes[c].right
    <3>2. /\ q \in x..y /\ q \in Int /\ c = s[q] /\ c \in Present(nodes)
          /\ TreeOn(nodes, s, x, q - 1, u)
          /\ TreeOn(nodes, s, q + 1, y, v)
          /\ nodes[c].size = y - x + 1
          /\ u # NoNode => nodes[u].parent = c
          /\ v # NoNode => nodes[v].parent = c
      BY <2>0, <3>1 DEF IsCut
    <3>. HIDE DEF u, v
    <3>4. l # 0 /\ (q - 1) - x + 1 <= l - 1 /\ y - (q + 1) + 1 <= l - 1
      BY <1>2, <1>3, <2>0, <3>2
    <3>5. Good(x, q - 1, u) /\ Good(q + 1, y, v)
      <4>. HIDE DEF Good
      <4>. QED
        BY <1>3, <3>2, <3>4
    <3>6. u # NoNode => HasParent(nodes, u)
      <4>1. Tree!SizeOf(nodes, u) = (q - 1) - x + 1
        BY <3>2, RootIs
      <4>2. u # NoNode => nodes[u].size = q - x
        BY <2>0, <3>2, <4>1 DEF Tree!SizeOf
      <4>. QED
        BY <2>0, <3>2, <4>2 DEF HasParent
    <3>7. v # NoNode => HasParent(nodes, v)
      <4>1. Tree!SizeOf(nodes, v) = y - (q + 1) + 1
        BY <3>2, RootIs
      <4>2. v # NoNode => nodes[v].size = y - q
        BY <2>0, <3>2, <4>1 DEF Tree!SizeOf
      <4>. QED
        BY <2>0, <3>2, <4>2 DEF HasParent
    <3>8. ASSUME NEW j \in x..y
          PROVE  s[j] = c \/ HasParent(nodes, s[j])
      <4>1. CASE j = q
        BY <3>2, <4>1
      <4>2. CASE j < q
        <5>1. j \in x..(q - 1)
          BY <2>0, <3>2, <4>2
        <5>2. s[j] \in Present(nodes)
          BY <3>2, <5>1, Everywhere
        <5>. QED
          BY <3>5, <3>6, <5>1, <5>2, PresentIsNoNone
      <4>3. CASE j > q
        <5>1. j \in (q + 1)..y
          BY <2>0, <3>2, <4>3
        <5>2. s[j] \in Present(nodes)
          BY <3>2, <5>1, Everywhere
        <5>. QED
          BY <3>5, <3>7, <5>1, <5>2, PresentIsNoNone
      <4>. QED
        BY <2>0, <3>2, <4>1, <4>2, <4>3
    <3>. QED
      BY <3>8
  <2>. QED
    BY <2>1, <2>2
<1>4. \A l \in 0..n : (l # 0 => l - 1 \in P) => l \in P
  <2>. HIDE DEF Good, n
  <2>. QED
    BY <1>3
<1>. HIDE DEF P
<1>5. n \in P
  <2>. HIDE DEF n
  <2>1. 0 \in P
    BY <1>2, <1>4
  <2>2. \A l \in 1..n : l - 1 \in P => l \in P
    BY <1>2, <1>4
  <2>3. \A l \in 0..n : l \in P
    BY <1>2, <2>1, <2>2, Induction
  <2>. QED
    BY <1>2, <2>3
<1>6. b - a + 1 <= n
  BY <1>2
<1>7. Good(a, b, r)
  <2>. HIDE DEF Good
  <2>. QED
    BY <1>5, <1>6 DEF P
<1>. QED
  BY <1>7

\* The body of sequenceNodeIndex: the rows to the left, from the parent's.
BeforeAt(before, nodes, k) ==
    LET parent == nodes[k].parent
    IN  IF parent = NoNode THEN 0
        ELSE before[parent] + (IF nodes[parent].right = k
                               THEN Tree!SizeOf(nodes, nodes[parent].left) + 1 ELSE 0)

\* A function that is what sequenceNodeIndex computes.
IsBefore(before, nodes) == \A k \in Present(nodes) : before[k] = BeforeAt(before, nodes, k)

\* There is one: sizes increase towards the root.
LEMMA NodeIndexIsRecursive ==
  ASSUME NEW nodes \in Nodes, NEW most \in Nat, Parented(nodes, most)
  PROVE  \E before : /\ IsBefore(before, nodes)
                     /\ \A k : Tree!NodeIndex(nodes, k) =
                                  Tree!SizeOf(nodes, nodes[k].left) + before[k]
<1>. DEFINE D == Tree!Links(nodes) \ {NoNode}
            Rank(x) == most - nodes[x].size
            Then(f, x) == BeforeAt(f, nodes, x)
            M == most + 1
            Rec(f) == [x \in D |-> Then(f, x)]
            Solves(f, k) == \A x \in D : Rank(x) < k => f[x] = Then(f, x)
            P == {k \in 0..M : \E f : Solves(f, k)}
<1>0. D = Present(nodes)
  BY LinksAre, PresentIsNoNone
<1>1. M \in Nat /\ \A x \in D : Rank(x) \in Nat /\ Rank(x) < M
  <2>1. \A x \in D : nodes[x].size \in Nat /\ nodes[x].size <= most
    BY <1>0, NodeIs DEF Parented
  <2>2. \A x \in D : Rank(x) \in Nat /\ Rank(x) < M
    BY <2>1
  <2>. QED
    BY <2>2
<1>2. ASSUME NEW f, NEW h, NEW x \in D, \A y \in D : Rank(y) < Rank(x) => f[y] = h[y]
      PROVE  Then(f, x) = Then(h, x)
  <2>. DEFINE y == nodes[x].parent
  <2>1. CASE y = NoNode
    BY <2>1 DEF BeforeAt
  <2>2. CASE y # NoNode
    <3>1. y \in Present(nodes) /\ nodes[x].size < nodes[y].size /\ nodes[y].size <= most
      BY <1>0, <2>2 DEF Parented
    <3>2. nodes[x].size \in Nat /\ nodes[y].size \in Nat
      BY <1>0, <3>1, NodeIs
    <3>3. y \in D /\ Rank(y) < Rank(x)
      BY <1>0, <3>1, <3>2
    <3>4. f[y] = h[y]
      <4>. HIDE DEF D, Rank, y
      <4>. QED
        BY <1>2, <3>3
    <3>. QED
      BY <2>2, <3>4 DEF BeforeAt
  <2>. QED
    BY <2>1, <2>2
<1>. HIDE DEF D, Rank, Then, M
<1>3. 0 \in P
  <2>1. \A f : Solves(f, 0)
    BY <1>1
  <2>. HIDE DEF Solves
  <2>. QED
    BY <1>1, <2>1
<1>4. ASSUME NEW k \in 1..M, k - 1 \in P
      PROVE  k \in P
  <2>1. PICK f : Solves(f, k - 1)
    BY <1>4
  <2>. DEFINE h == [x \in D |-> IF Rank(x) < k - 1 THEN f[x] ELSE Then(f, x)]
  <2>2. \A x \in D : h[x] = IF Rank(x) < k - 1 THEN f[x] ELSE Then(f, x)
    OBVIOUS
  <2>. HIDE DEF h
  <2>3. ASSUME NEW x \in D, Rank(x) < k
        PROVE  h[x] = Then(h, x)
    <3>1. h[x] = Then(f, x)
      BY <2>1, <2>2
    <3>2. \A y \in D : Rank(y) < Rank(x) => f[y] = h[y]
      BY <1>1, <2>2, <2>3
    <3>3. Then(f, x) = Then(h, x)
      BY <1>2, <3>2
    <3>. QED
      BY <3>1, <3>3
  <2>4. Solves(h, k)
    BY <2>3
  <2>. HIDE DEF Solves
  <2>. QED
    BY <1>1, <2>4
<1>5. M \in P
  <2>. HIDE DEF P
  <2>1. \A i \in 0..M : i \in P
    BY <1>1, <1>3, <1>4, Induction
  <2>. QED
    BY <1>1, <2>1
<1>6. \E f : f = Rec(f)
  <2>1. PICK f : Solves(f, M)
    BY <1>5
  <2>. DEFINE g == [x \in D |-> Then(f, x)]
  <2>2. \A x \in D : g[x] = f[x]
    BY <1>1, <2>1
  <2>3. \A x \in D : Then(f, x) = Then(g, x)
    <3>. HIDE DEF g
    <3>. QED
      BY <1>2, <2>2
  <2>4. g = Rec(g)
    BY <2>3
  <2>. HIDE DEF Rec, g
  <2>. QED
    BY <2>4
<1>. DEFINE before == CHOOSE f : f = Rec(f)
<1>7. before = Rec(before)
  <2>. HIDE DEF Rec
  <2>. QED
    BY <1>6
<1>8. \A k : Tree!NodeIndex(nodes, k) = Tree!SizeOf(nodes, nodes[k].left) + before[k]
  BY DEF Tree!NodeIndex, BeforeAt, D, Then
<1>. HIDE DEF before
<1>9. \A x \in D : before[x] = Then(before, x)
  BY <1>7
<1>10. IsBefore(before, nodes)
  BY <1>0, <1>9 DEF IsBefore, Then
<1>. QED
  BY <1>8, <1>10

\* sequenceNodeIndex finds the position of a key.
LEMMA NodeIndexIs ==
  ASSUME NEW nodes \in Nodes, NEW most \in Nat, Parented(nodes, most),
         NEW s, NEW a, NEW b, NEW root, TreeOn(nodes, s, a, b, root), IsRoot(nodes, root),
         Distinct(s, a, b), NEW p \in a..b
  PROVE  Tree!NodeIndex(nodes, s[p]) = p - a
<1>0. a \in Int /\ b \in Int /\ a <= b + 1
  BY RootIs
<1>1. PICK before : /\ IsBefore(before, nodes)
                    /\ \A k : Tree!NodeIndex(nodes, k) =
                                 Tree!SizeOf(nodes, nodes[k].left) + before[k]
  BY NodeIndexIsRecursive
<1>. DEFINE n == b - a + 1
            Rank(k) == Tree!SizeOf(nodes, nodes[k].left) + before[k]
            Good(x, y, r) == \A i \in x..y : Rank(s[i]) = before[r] + (i - x)
            P == {l \in 0..n : \A x, y, r :
                     /\ TreeOn(nodes, s, x, y, r) /\ y - x + 1 <= l
                     /\ a <= x /\ y <= b /\ r # NoNode /\ before[r] \in Int
                     => Good(x, y, r)}
<1>2. n \in Nat
  BY <1>0
<1>3. ASSUME NEW l \in 0..n, l # 0 => l - 1 \in P, NEW x, NEW y, NEW r,
             TreeOn(nodes, s, x, y, r), y - x + 1 <= l,
             a <= x, y <= b, r # NoNode, before[r] \in Int
      PROVE  Good(x, y, r)
  <2>0. /\ x \in Int /\ y \in Int /\ x <= y + 1 /\ r \in Present(nodes)
    BY <1>3, RootIs
  <2>1. PICK q : IsCut(nodes, s, x, y, r, q)
    BY <1>3, Cut
  <2>. DEFINE u == nodes[r].left
              v == nodes[r].right
  <2>2. /\ q \in x..y /\ q \in Int /\ r = s[q]
        /\ TreeOn(nodes, s, x, q - 1, u)
        /\ TreeOn(nodes, s, q + 1, y, v)
        /\ u # NoNode => nodes[u].parent = r
        /\ v # NoNode => nodes[v].parent = r
    BY <2>0, <2>1 DEF IsCut
  <2>3. Tree!SizeOf(nodes, u) = q - x
    BY <2>0, <2>2, RootIs
  <2>4. u \in Present(nodes) \union {NoNode} /\ v \in Present(nodes) \union {NoNode}
    BY <2>2, RootIs
  <2>5. u # NoNode => u # v
    <3>1. ASSUME u # NoNode, v # NoNode
          PROVE  u # v
      <4>1. PICK i \in x..(q - 1) : u = s[i]
        BY <2>2, <3>1, RootAt
      <4>2. PICK j \in (q + 1)..y : v = s[j]
        BY <2>2, <3>1, RootAt
      <4>3. i \in a..b /\ j \in a..b /\ i # j
        BY <1>0, <1>3, <2>0, <2>2, <4>1, <4>2
      <4>. QED
        BY <4>1, <4>2, <4>3 DEF Distinct
    <3>. QED
      BY <3>1
  <2>6. u # NoNode => before[u] = before[r]
    <3>1. ASSUME u # NoNode
          PROVE  before[u] = before[r]
      <4>1. before[u] = BeforeAt(before, nodes, u)
        BY <1>1, <2>4, <3>1 DEF IsBefore
      <4>2. nodes[u].parent = r /\ nodes[r].right # u
        BY <2>2, <2>5, <3>1
      <4>3. BeforeAt(before, nodes, u) = before[r] + 0
        BY <1>3, <4>2 DEF BeforeAt
      <4>. QED
        BY <1>3, <4>1, <4>3
    <3>. QED
      BY <3>1
  <2>7. v # NoNode => before[v] = before[r] + (q - x + 1)
    <3>1. ASSUME v # NoNode
          PROVE  before[v] = before[r] + (q - x + 1)
      <4>1. before[v] = BeforeAt(before, nodes, v)
        BY <1>1, <2>4, <3>1 DEF IsBefore
      <4>2. nodes[v].parent = r
        BY <2>2, <3>1
      <4>3. BeforeAt(before, nodes, v) = before[r] + (Tree!SizeOf(nodes, u) + 1)
        BY <1>3, <4>2 DEF BeforeAt
      <4>. QED
        BY <2>3, <4>1, <4>3
    <3>. QED
      BY <3>1
  <2>8. Rank(r) = before[r] + (q - x)
    BY <1>3, <2>0, <2>2, <2>3
  <2>. HIDE DEF Rank, u, v
  <2>9. l # 0 /\ (q - 1) - x + 1 <= l - 1 /\ y - (q + 1) + 1 <= l - 1
    BY <1>2, <1>3, <2>0, <2>2
  <2>10. a <= q + 1 /\ q - 1 <= b
    BY <1>0, <1>3, <2>0, <2>2
  <2>11. u # NoNode => Good(x, q - 1, u)
    <3>1. u # NoNode => before[u] \in Int
      BY <1>3, <2>6
    <3>. HIDE DEF Good
    <3>. QED
      BY <1>3, <2>2, <2>9, <2>10, <3>1
  <2>12. v # NoNode => Good(q + 1, y, v)
    <3>1. v # NoNode => before[v] \in Int
      BY <1>3, <2>0, <2>2, <2>7
    <3>. HIDE DEF Good
    <3>. QED
      BY <1>3, <2>2, <2>9, <2>10, <3>1
  <2>13. ASSUME NEW i \in x..y
         PROVE  Rank(s[i]) = before[r] + (i - x)
    <3>1. CASE i = q
      BY <2>2, <2>8, <3>1
    <3>2. CASE i < q
      <4>1. i \in x..(q - 1)
        BY <2>0, <2>2, <3>2
      <4>2. u # NoNode
        BY <2>0, <2>2, <4>1, RootIs
      <4>. QED
        BY <2>6, <2>11, <4>1, <4>2
    <3>3. CASE i > q
      <4>1. i \in (q + 1)..y
        BY <2>0, <2>2, <3>3
      <4>2. v # NoNode
        BY <2>0, <2>2, <4>1, RootIs
      <4>3. Rank(s[i]) = before[v] + (i - (q + 1))
        BY <2>12, <4>1, <4>2
      <4>. QED
        BY <1>3, <2>0, <2>2, <2>7, <4>1, <4>2, <4>3
    <3>. QED
      BY <2>0, <2>2, <3>1, <3>2, <3>3
  <2>. QED
    BY <2>13
<1>4. \A l \in 0..n : (l # 0 => l - 1 \in P) => l \in P
  <2>. HIDE DEF Good, n
  <2>. QED
    BY <1>3
<1>. HIDE DEF P
<1>5. n \in P
  <2>. HIDE DEF n
  <2>1. 0 \in P
    BY <1>2, <1>4
  <2>2. \A l \in 1..n : l - 1 \in P => l \in P
    BY <1>2, <1>4
  <2>3. \A l \in 0..n : l \in P
    BY <1>2, <2>1, <2>2, Induction
  <2>. QED
    BY <1>2, <2>3
<1>6. b - a + 1 <= n /\ a <= a /\ b <= b
  BY <1>0, <1>2
<1>7. root # NoNode /\ root \in Present(nodes)
  BY <1>0, RootIs
<1>8. before[root] = 0
  <2>1. before[root] = BeforeAt(before, nodes, root)
    BY <1>1, <1>7 DEF IsBefore
  <2>. QED
    BY <1>7, <2>1 DEF BeforeAt, IsRoot
<1>9. Good(a, b, root)
  <2>1. before[root] \in Int
    BY <1>8
  <2>. HIDE DEF Good
  <2>. QED
    BY <1>5, <1>6, <1>7, <2>1 DEF P
<1>10. Rank(s[p]) = 0 + (p - a)
  BY <1>8, <1>9
<1>. QED
  BY <1>0, <1>1, <1>10

-----------------------------------------------------------------------------
(* Trees that hold all the nodes *)

\* The nodes are those of the first n keys of s, in whatever trees.
IsSpan(nodes, s, n) ==
    /\ nodes \in Nodes /\ n \in Nat
    /\ Distinct(s, 1, n)
    /\ Present(nodes) = KeysOf(s, 1, n)

\* They are one tree.
IsWhole(nodes, root, s, n) ==
    /\ IsSpan(nodes, s, n)
    /\ TreeOn(nodes, s, 1, n, root) /\ IsRoot(nodes, root)

\* One node apart from the tree of the others.
IsApart(nodes, root, s, n, k) ==
    /\ IsSpan(nodes, s, n) /\ n # 0
    /\ TreeOn(nodes, s, 1, n - 1, root) /\ IsRoot(nodes, root)
    /\ TreeOn(nodes, s, n, n, k)

\* In at most three trees side by side every node is ranked.
LEMMA RankedOver ==
  ASSUME NEW nodes, NEW s, NEW n, IsSpan(nodes, s, n), NEW c, NEW d,
         NEW x, TreeOn(nodes, s, 1, c, x), NEW y, TreeOn(nodes, s, c + 1, d, y),
         NEW z, TreeOn(nodes, s, d + 1, n, z)
  PROVE  Ranked(nodes, n)
<1>0. n \in Nat /\ c \in Int /\ d \in Int /\ 0 <= c /\ c <= d /\ d <= n
  <2>1. n \in Nat
    BY DEF IsSpan
  <2>2. c \in Int /\ 1 <= c + 1
    BY RootIs
  <2>3. d \in Int /\ c + 1 <= d + 1
    BY RootIs
  <2>4. d + 1 <= n + 1
    BY RootIs
  <2>. QED
    BY <2>1, <2>2, <2>3, <2>4
<1>1. ASSUME NEW k \in Present(nodes)
      PROVE  \E t, a, b : TreeOn(nodes, t, a, b, k) /\ b - a + 1 <= n
  <2>1. PICK p \in 1..n : k = s[p]
    BY DEF IsSpan, KeysOf
  <2>2. CASE p \in 1..c
    <3>1. PICK a \in Int, b \in Int : 1 <= a /\ b <= c /\ TreeOn(nodes, s, a, b, s[p])
      BY <2>2, Everywhere
    <3>. QED
      BY <1>0, <2>1, <3>1
  <2>3. CASE p \in (c + 1)..d
    <3>1. PICK a \in Int, b \in Int : c + 1 <= a /\ b <= d /\ TreeOn(nodes, s, a, b, s[p])
      BY <2>3, Everywhere
    <3>. QED
      BY <1>0, <2>1, <3>1
  <2>4. CASE p \in (d + 1)..n
    <3>1. PICK a \in Int, b \in Int : d + 1 <= a /\ b <= n /\ TreeOn(nodes, s, a, b, s[p])
      BY <2>4, Everywhere
    <3>. QED
      BY <1>0, <2>1, <3>1
  <2>. QED
    BY <1>0, <2>1, <2>2, <2>3, <2>4
<1>. QED
  BY <1>1, RankedIs

\* In one tree every node is ranked and has its parent.
LEMMA WholeIsRanked ==
  ASSUME NEW nodes, NEW root, NEW s, NEW n, IsWhole(nodes, root, s, n)
  PROVE  Ranked(nodes, n) /\ Parented(nodes, n)
<1>0. /\ nodes \in Nodes /\ n \in Nat /\ Present(nodes) = KeysOf(s, 1, n)
      /\ TreeOn(nodes, s, 1, n, root) /\ IsRoot(nodes, root)
  BY DEF IsWhole, IsSpan
<1>1. Ranked(nodes, n)
  <2>1. \A p \in 1..n : \E a, b \in Int : 1 <= a /\ b <= n /\ TreeOn(nodes, s, a, b, s[p])
    BY <1>0, Everywhere
  <2>2. \A k \in Present(nodes) : \E t, a, b : TreeOn(nodes, t, a, b, k) /\ b - a + 1 <= n
    <3>1. \A a, b \in Int : 1 <= a /\ b <= n => b - a + 1 <= n
      BY <1>0
    <3>. QED
      BY <1>0, <2>1, <3>1 DEF KeysOf
  <2>. QED
    BY <2>2, RankedIs
<1>2. ASSUME NEW k \in Present(nodes)
      PROVE  k = root \/ HasParent(nodes, k)
  <2>1. PICK p \in 1..n : k = s[p]
    BY <1>0 DEF KeysOf
  <2>. QED
    BY <1>0, <2>1, ParentsUp
<1>3. Parented(nodes, n)
  BY <1>0, <1>1, <1>2, PresentIsNoNone DEF Parented, Ranked, HasParent, IsRoot
<1>. QED
  BY <1>1, <1>3

\* The same keys in another order.
LEMMA Rearranged ==
  ASSUME NEW nodes, NEW s, NEW n, IsSpan(nodes, s, n), NEW t, NEW from, NEW to,
         \A j \in 1..n : from[j] \in 1..n /\ to[from[j]] = j /\ t[j] = s[from[j]],
         \A j \in 1..n : to[j] \in 1..n /\ from[to[j]] = j
  PROVE  IsSpan(nodes, t, n)
<1>1. Distinct(t, 1, n)
  <2>1. ASSUME NEW i \in 1..n, NEW j \in 1..n, t[i] = t[j]
        PROVE  i = j
    <3>1. from[i] = from[j]
      BY <2>1 DEF IsSpan, Distinct
    <3>. QED
      BY <3>1
  <2>. QED
    BY <2>1 DEF Distinct
<1>2. ASSUME NEW j \in 1..n
      PROVE  \E i \in 1..n : s[j] = t[i]
  <2>1. to[j] \in 1..n /\ t[to[j]] = s[j]
    OBVIOUS
  <2>. QED
    BY <2>1
<1>3. ASSUME NEW j \in 1..n
      PROVE  \E i \in 1..n : t[j] = s[i]
  OBVIOUS
<1>4. KeysOf(t, 1, n) = KeysOf(s, 1, n)
  BY <1>2, <1>3 DEF KeysOf
<1>. QED
  BY <1>1, <1>4 DEF IsSpan

\* Links do not matter for that.
LEMMA SpanKept ==
  ASSUME NEW nodes, NEW s, NEW n, IsSpan(nodes, s, n), NEW new, NEW K, Keeps(nodes, new, K)
  PROVE  IsSpan(new, s, n)
BY DEF IsSpan, Keeps

\* The same tree, its keys listed from another position on.
LEMMA Shifted ==
  ASSUME NEW nodes, NEW s, NEW a, NEW b, NEW r, TreeOn(nodes, s, a, b, r),
         NEW t, NEW d \in Int, \A q \in a..b : t[q + d] = s[q], NEW x, NEW y, x = a + d, y = b + d
  PROVE  TreeOn(nodes, t, x, y, r)
<1>1. Agrees(nodes, nodes, s, a, b, r)
  BY DEF Agrees
<1>. QED
  BY <1>1, Transfer

-----------------------------------------------------------------------------
(* A node put between the others, and taken out *)

\* The last key, after the first i.
IsBetween(t, s, i, n) ==
    /\ \A j \in 1..i : t[j] = s[j]
    /\ t[i + 1] = s[n]
    /\ \A j \in (i + 2)..n : t[j] = s[j - 1]

\* The keys stay the same.
LEMMA BetweenSpans ==
  ASSUME NEW nodes, NEW s, NEW n, IsSpan(nodes, s, n), NEW i \in 0..(n - 1),
         NEW t, IsBetween(t, s, i, n)
  PROVE  IsSpan(nodes, t, n)
<1>0. n \in Nat
  BY DEF IsSpan
<1>. DEFINE from == [j \in 1..n |-> IF j <= i THEN j ELSE IF j = i + 1 THEN n ELSE j - 1]
            to == [j \in 1..n |-> IF j <= i THEN j ELSE IF j = n THEN i + 1 ELSE j + 1]
<1>1. ASSUME NEW j \in 1..n
      PROVE  from[j] \in 1..n /\ to[from[j]] = j /\ t[j] = s[from[j]]
  <2>1. CASE j <= i
    BY <1>0, <2>1 DEF IsBetween
  <2>2. CASE j = i + 1
    BY <1>0, <2>2 DEF IsBetween
  <2>3. CASE j > i + 1
    <3>1. j \in (i + 2)..n
      BY <1>0, <2>3
    <3>2. from[j] = j - 1 /\ j - 1 \in 1..n /\ ~(j - 1 <= i) /\ j - 1 # n
      BY <1>0, <2>3
    <3>. QED
      BY <3>1, <3>2 DEF IsBetween
  <2>. QED
    BY <1>0, <2>1, <2>2, <2>3
<1>2. ASSUME NEW j \in 1..n
      PROVE  to[j] \in 1..n /\ from[to[j]] = j
  BY <1>0
<1>. HIDE DEF from, to
<1>. QED
  BY <1>1, <1>2, Rearranged

\* Between
IsPutIn(merged, nodes, t, n) ==
    /\ IsWhole(merged.nodes, merged.root, t, n)
    /\ Keeps(nodes, merged.nodes, Keys)

\* A node merged between two trees is at its place.
LEMMA PutInIs ==
  ASSUME NEW nodes, NEW s, NEW n, IsSpan(nodes, s, n), n # 0, NEW i \in 0..(n - 1),
         NEW left, TreeOn(nodes, s, 1, i, left), NEW right, TreeOn(nodes, s, i + 1, n - 1, right),
         NEW k, TreeOn(nodes, s, n, n, k), NEW t, IsBetween(t, s, i, n),
         NEW first, first = Tree!Merge(nodes, left, k)
  PROVE  IsPutIn(Tree!Merge(first.nodes, first.root, right), nodes, t, n)
<1>0. nodes \in Nodes /\ n \in Nat /\ i \in Int
  BY DEF IsSpan
<1>1. IsSpan(nodes, t, n)
  BY <1>0, BetweenSpans
<1>2. TreeOn(nodes, t, 1, i, left)
  <2>1. \A q \in 1..i : t[q + 0] = s[q]
    BY <1>0 DEF IsBetween
  <2>2. 1 = 1 + 0 /\ i = i + 0
    BY <1>0
  <2>. QED
    BY <2>1, <2>2, Shifted
<1>3. TreeOn(nodes, t, i + 2, n, right)
  <2>1. \A q \in (i + 1)..(n - 1) : q + 1 \in (i + 2)..n /\ (q + 1) - 1 = q
    BY <1>0
  <2>2. \A q \in (i + 1)..(n - 1) : t[q + 1] = s[q]
    BY <2>1 DEF IsBetween
  <2>3. i + 2 = (i + 1) + 1 /\ n = (n - 1) + 1
    BY <1>0
  <2>. QED
    BY <2>2, <2>3, Shifted
<1>4. TreeOn(nodes, t, i + 1, i + 1, k)
  <2>. DEFINE d == i + 1 - n
  <2>1. d \in Int /\ i + 1 = n + d
    BY <1>0
  <2>2. \A q \in n..n : q + d = i + 1 /\ q = n
    BY <1>0
  <2>. HIDE DEF d
  <2>3. \A q \in n..n : t[q + d] = s[q]
    BY <2>2 DEF IsBetween
  <2>. QED
    BY <2>1, <2>3, Shifted
<1>5. (i + 1) + 1 = i + 2
  BY <1>0
<1>6. Ranked(nodes, n)
  BY <1>1, <1>2, <1>3, <1>4, <1>5, RankedOver
<1>7. IsMerged(first, nodes, t, 1, i + 1)
  <2>1. Distinct(t, 1, i + 1)
    BY <1>0, <1>1, PartOf DEF IsSpan
  <2>. QED
    BY <1>0, <1>2, <1>4, <1>6, <2>1, MergeIs
<1>8. /\ Keeps(nodes, first.nodes, KeysOf(t, 1, i + 1))
      /\ TreeOn(first.nodes, t, 1, i + 1, first.root)
  BY <1>7 DEF IsMerged
<1>9. first.nodes \in Nodes /\ IsSpan(first.nodes, t, n)
  BY <1>1, <1>8, SpanKept DEF Keeps
<1>10. TreeOn(first.nodes, t, i + 2, n, right)
  <2>1. \A q \in (i + 2)..n : q \in 1..n /\ q \notin 1..(i + 1)
    BY <1>0
  <2>2. \A q \in 1..n : t[q] \in KeysOf(t, 1, i + 1) => q \in 1..(i + 1)
    <3>1. 1 \in Int /\ n \in Int /\ i + 1 \in Int /\ 1 <= 1 /\ i + 1 <= n
      BY <1>0
    <3>2. Distinct(t, 1, n)
      BY <1>1 DEF IsSpan
    <3>. QED
      BY <3>1, <3>2, PartOf
  <2>3. \A q \in (i + 2)..n : t[q] \notin KeysOf(t, 1, i + 1)
    BY <2>1, <2>2
  <2>. QED
    BY <1>3, <1>8, <2>3, KeepsTree
<1>11. Ranked(first.nodes, n)
  <2>1. TreeOn(first.nodes, t, n + 1, n, NoNode)
    <3>1. (n + 1) - 1 = n /\ n + 1 \in Int
      BY <1>0
    <3>. DEFINE m == n + 1
    <3>2. TreeOn(first.nodes, t, m, m - 1, NoNode)
      BY <3>1, Bare
    <3>. QED
      BY <3>1, <3>2
  <2>. QED
    BY <1>5, <1>8, <1>9, <1>10, <2>1, RankedOver
<1>. DEFINE merged == Tree!Merge(first.nodes, first.root, right)
<1>12. IsMerged(merged, first.nodes, t, 1, n)
  <2>1. Distinct(t, 1, n)
    BY <1>1 DEF IsSpan
  <2>. QED
    BY <1>0, <1>5, <1>8, <1>9, <1>10, <1>11, <2>1, MergeIs
<1>. HIDE DEF merged
<1>13. /\ Keeps(first.nodes, merged.nodes, KeysOf(t, 1, n))
       /\ TreeOn(merged.nodes, t, 1, n, merged.root) /\ IsRoot(merged.nodes, merged.root)
  BY <1>12 DEF IsMerged
<1>14. KeysOf(t, 1, i + 1) \subseteq Keys /\ KeysOf(t, 1, n) \subseteq Keys
  <2>1. KeysOf(t, 1, n) \subseteq Keys
    BY <1>1 DEF IsSpan, Present
  <2>2. KeysOf(t, 1, i + 1) \subseteq KeysOf(t, 1, n)
    BY <1>0 DEF KeysOf
  <2>. QED
    BY <2>1, <2>2
<1>15. Keeps(nodes, merged.nodes, Keys)
  BY <1>8, <1>13, <1>14, KeepsThen
<1>16. IsSpan(merged.nodes, t, n)
  BY <1>9, <1>13, SpanKept
<1>17. IsPutIn(merged, nodes, t, n)
  BY <1>13, <1>15, <1>16 DEF IsPutIn, IsWhole
<1>. QED
  BY <1>17 DEF merged

\* Intervals that do not overlap have no key in common.
LEMMA NotAmong ==
  ASSUME NEW nodes, NEW s, NEW n, IsSpan(nodes, s, n), NEW a \in Int, NEW b \in Int, 1 <= a, b <= n,
         NEW x \in Int, NEW y \in Int, 1 <= x, y <= n, y < a \/ b < x
  PROVE  \A q \in x..y : s[q] \notin KeysOf(s, a, b)
<1>1. n \in Int /\ Distinct(s, 1, n)
  BY DEF IsSpan
<1>2. \A q \in 1..n : s[q] \in KeysOf(s, a, b) => q \in a..b
  BY <1>1, PartOf
<1>3. \A q \in x..y : q \in 1..n /\ q \notin a..b
  BY <1>1
<1>. QED
  BY <1>2, <1>3

\* The keys are distinct, and keys.
LEMMA SpanDistinct ==
  ASSUME NEW nodes, NEW s, NEW n, IsSpan(nodes, s, n), NEW a \in Int, NEW b \in Int, 1 <= a, b <= n
  PROVE  Distinct(s, a, b) /\ KeysOf(s, a, b) \subseteq Keys
<1>1. n \in Int /\ Distinct(s, 1, n) /\ KeysOf(s, 1, n) \subseteq Keys
  BY DEF IsSpan, Present
<1>2. Distinct(s, a, b) /\ KeysOf(s, a, b) \subseteq KeysOf(s, 1, n)
  BY <1>1, PartOf
<1>. QED
  BY <1>1, <1>2

\* Nothing after the last key.
LEMMA NothingAfter ==
  ASSUME NEW nodes, NEW s, NEW n \in Int
  PROVE  TreeOn(nodes, s, n + 1, n, NoNode)
<1>. DEFINE m == n + 1
<1>1. m - 1 = n /\ m \in Int
  OBVIOUS
<1>2. TreeOn(nodes, s, m, m - 1, NoNode)
  BY <1>1, Bare
<1>. QED
  BY <1>1, <1>2

\* The node apart, after the first i of the others.
LEMMA SplitAndPutIn ==
  ASSUME NEW nodes, NEW root, NEW s, NEW n, NEW k, IsApart(nodes, root, s, n, k),
         NEW i \in 0..(n - 1), NEW t, IsBetween(t, s, i, n),
         NEW parts, parts = Tree!Split(nodes, root, i),
         NEW first, first = Tree!Merge(parts.nodes, parts.left, k)
  PROVE  IsPutIn(Tree!Merge(first.nodes, first.root, parts.right), nodes, t, n)
<1>0. /\ nodes \in Nodes /\ n \in Nat /\ n # 0 /\ i \in Int
      /\ IsSpan(nodes, s, n) /\ TreeOn(nodes, s, 1, n - 1, root) /\ TreeOn(nodes, s, n, n, k)
  BY DEF IsApart, IsSpan
<1>1. Ranked(nodes, n)
  <2>1. (n - 1) + 1 = n
    BY <1>0
  <2>2. TreeOn(nodes, s, n + 1, n, NoNode)
    BY <1>0, NothingAfter
  <2>. QED
    BY <1>0, <2>1, <2>2, RankedOver
<1>2. IsSplit(parts, nodes, s, 1, 1 + i - 1, n - 1)
  <2>1. Distinct(s, 1, n - 1)
    BY <1>0, SpanDistinct
  <2>2. i \in 0..((n - 1) - 1 + 1)
    BY <1>0
  <2>. QED
    BY <1>0, <1>1, <2>1, <2>2, SplitIs
<1>3. 1 + i - 1 = i
  BY <1>0
<1>4. /\ Keeps(nodes, parts.nodes, KeysOf(s, 1, n - 1))
      /\ TreeOn(parts.nodes, s, 1, i, parts.left)
      /\ TreeOn(parts.nodes, s, i + 1, n - 1, parts.right)
  BY <1>2, <1>3 DEF IsSplit
<1>5. TreeOn(parts.nodes, s, n, n, k)
  <2>1. \A q \in n..n : s[q] \notin KeysOf(s, 1, n - 1)
    BY <1>0, NotAmong
  <2>. QED
    BY <1>0, <1>4, <2>1, KeepsTree
<1>6. IsSpan(parts.nodes, s, n)
  BY <1>0, <1>4, SpanKept
<1>. DEFINE merged == Tree!Merge(first.nodes, first.root, parts.right)
<1>7. IsPutIn(merged, parts.nodes, t, n)
  BY <1>0, <1>4, <1>5, <1>6, PutInIs
<1>. HIDE DEF merged
<1>8. KeysOf(s, 1, n - 1) \subseteq Keys
  BY <1>0, SpanDistinct
<1>9. IsPutIn(merged, nodes, t, n)
  BY <1>4, <1>7, <1>8, KeepsThen DEF IsPutIn
<1>. QED
  BY <1>9 DEF merged

\* The i-th key last.
IsLast(t, s, i, n) ==
    /\ \A j \in 1..(i - 1) : t[j] = s[j]
    /\ \A j \in i..(n - 1) : t[j] = s[j + 1]
    /\ t[n] = s[i]

\* The keys stay the same.
LEMMA LastSpans ==
  ASSUME NEW nodes, NEW s, NEW n, IsSpan(nodes, s, n), NEW i \in 1..n, NEW t, IsLast(t, s, i, n)
  PROVE  IsSpan(nodes, t, n)
<1>0. n \in Nat
  BY DEF IsSpan
<1>. DEFINE from == [j \in 1..n |-> IF j < i THEN j ELSE IF j = n THEN i ELSE j + 1]
            to == [j \in 1..n |-> IF j < i THEN j ELSE IF j = i THEN n ELSE j - 1]
<1>1. ASSUME NEW j \in 1..n
      PROVE  from[j] \in 1..n /\ to[from[j]] = j /\ t[j] = s[from[j]]
  <2>1. CASE j < i
    <3>1. j \in 1..(i - 1)
      BY <1>0, <2>1
    <3>. QED
      BY <1>0, <2>1, <3>1 DEF IsLast
  <2>2. CASE j = n
    BY <1>0, <2>2 DEF IsLast
  <2>3. CASE j >= i /\ j # n
    <3>1. j \in i..(n - 1) /\ ~(j < i)
      BY <1>0, <2>3
    <3>2. from[j] = j + 1 /\ j + 1 \in 1..n /\ ~(j + 1 < i) /\ j + 1 # i
      BY <1>0, <2>3
    <3>. QED
      BY <3>1, <3>2 DEF IsLast
  <2>. QED
    BY <1>0, <2>1, <2>2, <2>3
<1>2. ASSUME NEW j \in 1..n
      PROVE  to[j] \in 1..n /\ from[to[j]] = j
  BY <1>0
<1>. HIDE DEF from, to
<1>. QED
  BY <1>1, <1>2, Rearranged

\* TakenOut
IsOut(merged, node, nodes, s, i, t, n) ==
    /\ IsApart(merged.nodes, merged.root, t, n, node)
    /\ Keeps(nodes, merged.nodes, Keys)
    /\ node = s[i]

\* Two splits and a merge take the i-th node out of the tree.
LEMMA TakenOutIs ==
  ASSUME NEW nodes, NEW root, NEW s, NEW n, IsWhole(nodes, root, s, n), NEW i \in 1..n,
         NEW t, IsLast(t, s, i, n),
         NEW outer, outer = Tree!Split(nodes, root, i - 1),
         NEW inner, inner = Tree!Split(outer.nodes, outer.right, 1)
  PROVE  IsOut(Tree!Merge(inner.nodes, outer.left, inner.right), inner.left, nodes, s, i, t, n)
<1>0. /\ nodes \in Nodes /\ n \in Nat /\ i \in Int /\ n # 0
      /\ IsSpan(nodes, s, n) /\ TreeOn(nodes, s, 1, n, root)
  BY DEF IsWhole, IsSpan
<1>1. IsSplit(outer, nodes, s, 1, 1 + (i - 1) - 1, n)
  <2>1. Distinct(s, 1, n)
    BY <1>0, SpanDistinct
  <2>2. i - 1 \in 0..(n - 1 + 1)
    BY <1>0
  <2>3. Ranked(nodes, n)
    BY WholeIsRanked
  <2>. DEFINE number == i - 1
  <2>. HIDE DEF number
  <2>4. IsSplit(Tree!Split(nodes, root, number), nodes, s, 1, 1 + number - 1, n)
    <3>1. number \in 0..(n - 1 + 1)
      BY <2>2 DEF number
    <3>. QED
      BY <1>0, <2>1, <2>3, <3>1, SplitIs
  <2>. QED
    BY <2>4 DEF number
<1>2. 1 + (i - 1) - 1 = i - 1 /\ (i - 1) + 1 = i
  BY <1>0
<1>3. /\ Keeps(nodes, outer.nodes, KeysOf(s, 1, n))
      /\ TreeOn(outer.nodes, s, 1, i - 1, outer.left)
      /\ TreeOn(outer.nodes, s, i, n, outer.right)
  BY <1>1, <1>2 DEF IsSplit
<1>4. outer.nodes \in Nodes /\ IsSpan(outer.nodes, s, n)
  BY <1>0, <1>3, SpanKept DEF Keeps
<1>5. IsSplit(inner, outer.nodes, s, i, i + 1 - 1, n)
  <2>1. Distinct(s, i, n)
    BY <1>0, SpanDistinct
  <2>2. 1 \in 0..(n - i + 1)
    BY <1>0
  <2>3. Ranked(outer.nodes, n)
    <3>1. TreeOn(outer.nodes, s, n + 1, n, NoNode)
      BY <1>0, NothingAfter
    <3>. QED
      BY <1>2, <1>3, <1>4, <3>1, RankedOver
  <2>. QED
    BY <1>0, <1>3, <1>4, <2>1, <2>2, <2>3, SplitIs
<1>6. i + 1 - 1 = i
  BY <1>0
<1>7. /\ Keeps(outer.nodes, inner.nodes, KeysOf(s, i, n))
      /\ TreeOn(inner.nodes, s, i, i, inner.left)
      /\ TreeOn(inner.nodes, s, i + 1, n, inner.right)
  BY <1>5, <1>6 DEF IsSplit
<1>8. TreeOn(inner.nodes, s, 1, i - 1, outer.left)
  <2>1. \A q \in 1..(i - 1) : s[q] \notin KeysOf(s, i, n)
    BY <1>0, NotAmong
  <2>. QED
    BY <1>3, <1>7, <2>1, KeepsTree
<1>9. inner.nodes \in Nodes /\ IsSpan(inner.nodes, s, n) /\ IsSpan(inner.nodes, t, n)
  <2>1. IsSpan(inner.nodes, s, n)
    BY <1>4, <1>7, SpanKept
  <2>. QED
    BY <1>7, <2>1, LastSpans DEF Keeps
<1>10. inner.left = s[i]
  <2>1. inner.left # NoNode
    <3>1. i # i + 1
      BY <1>0
    <3>. QED
      BY <1>7, <3>1, RootIs
  <2>2. PICK q \in i..i : inner.left = s[q]
    BY <1>7, <2>1, RootAt
  <2>. QED
    BY <1>0, <2>2
<1>11. TreeOn(inner.nodes, t, 1, i - 1, outer.left)
  <2>1. \A q \in 1..(i - 1) : t[q + 0] = s[q]
    BY <1>0 DEF IsLast
  <2>2. 1 = 1 + 0 /\ i - 1 = (i - 1) + 0
    BY <1>0
  <2>. QED
    BY <1>8, <2>1, <2>2, Shifted
<1>12. TreeOn(inner.nodes, t, i, n - 1, inner.right)
  <2>. DEFINE d == 0 - 1
  <2>1. \A q \in (i + 1)..n : q + d \in i..(n - 1) /\ (q + d) + 1 = q
    BY <1>0
  <2>2. i = (i + 1) + d /\ n - 1 = n + d /\ d \in Int
    BY <1>0
  <2>. HIDE DEF d
  <2>3. \A q \in (i + 1)..n : t[q + d] = s[q]
    BY <2>1 DEF IsLast
  <2>. QED
    BY <1>7, <2>2, <2>3, Shifted
<1>13. TreeOn(inner.nodes, t, n, n, inner.left)
  <2>. DEFINE d == n - i
  <2>1. \A q \in i..i : q + d = n /\ q = i
    BY <1>0
  <2>2. n = i + d /\ d \in Int
    BY <1>0
  <2>. HIDE DEF d
  <2>3. \A q \in i..i : t[q + d] = s[q]
    BY <2>1 DEF IsLast
  <2>. QED
    BY <1>7, <2>2, <2>3, Shifted
<1>14. Ranked(inner.nodes, n)
  <2>1. (n - 1) + 1 = n
    BY <1>0
  <2>. QED
    BY <1>2, <1>9, <1>11, <1>12, <1>13, <2>1, RankedOver
<1>. DEFINE merged == Tree!Merge(inner.nodes, outer.left, inner.right)
<1>15. IsMerged(merged, inner.nodes, t, 1, n - 1)
  <2>1. Distinct(t, 1, n - 1)
    BY <1>0, <1>9, SpanDistinct
  <2>. QED
    BY <1>0, <1>2, <1>9, <1>11, <1>12, <1>14, <2>1, MergeIs
<1>. HIDE DEF merged
<1>16. /\ Keeps(inner.nodes, merged.nodes, KeysOf(t, 1, n - 1))
       /\ TreeOn(merged.nodes, t, 1, n - 1, merged.root) /\ IsRoot(merged.nodes, merged.root)
  BY <1>15 DEF IsMerged
<1>17. TreeOn(merged.nodes, t, n, n, inner.left)
  <2>1. \A q \in n..n : t[q] \notin KeysOf(t, 1, n - 1)
    BY <1>0, <1>9, NotAmong
  <2>. QED
    BY <1>13, <1>16, <2>1, KeepsTree
<1>18. IsApart(merged.nodes, merged.root, t, n, inner.left)
  BY <1>0, <1>9, <1>16, <1>17, SpanKept DEF IsApart
<1>19. Keeps(nodes, merged.nodes, Keys)
  <2>1. KeysOf(s, 1, n) \subseteq Keys /\ KeysOf(s, i, n) \subseteq Keys /\ KeysOf(t, 1, n - 1) \subseteq Keys
    BY <1>0, <1>9, SpanDistinct
  <2>2. Keeps(nodes, inner.nodes, Keys)
    BY <1>3, <1>7, <2>1, KeepsThen
  <2>. QED
    BY <1>16, <2>1, <2>2, KeepsThen
<1>20. IsOut(merged, inner.left, nodes, s, i, t, n)
  BY <1>10, <1>18, <1>19 DEF IsOut
<1>. QED
  BY <1>20 DEF merged

-----------------------------------------------------------------------------
(* The tree of a window *)

\* What EmptyTree and the operations of RowSequence return.
Trees == [nodes : Nodes, root : Keys \union {NoNode}, made : Nat]

\* The tree has the entries of a window, in its order.
Holds(tree, w) ==
    /\ tree \in Trees /\ IsWindow(w)
    /\ IsWhole(tree.nodes, tree.root, KeySeq(w), Len(w))
    /\ \A i \in 1..Len(w) : tree.nodes[w[i].key].row = w[i].row

\* The keys of a window.
LEMMA KeysAt ==
  ASSUME NEW w, IsWindow(w)
  PROVE  /\ \A i \in 1..Len(w) : KeySeq(w)[i] = w[i].key
         /\ KeysOf(KeySeq(w), 1, Len(w)) = KeySet(w)
<1>1. w \in Seq(Entry) /\ DOMAIN w = 1..Len(w)
  BY WindowIs
<1>2. \A i \in 1..Len(w) : KeySeq(w)[i] = w[i].key
  BY <1>1 DEF KeySeq
<1>3. \A k : k \in KeySet(w) <=> \E i \in 1..Len(w) : w[i].key = k
  BY <1>1, KeySetIs
<1>. QED
  BY <1>2, <1>3 DEF KeysOf

\* What the lemmas about trees ask for.
LEMMA HoldsIs ==
  ASSUME NEW tree, NEW w, Holds(tree, w)
  PROVE  /\ tree.nodes \in Nodes /\ tree.root \in Keys \union {NoNode} /\ tree.made \in Nat
         /\ tree = [nodes |-> tree.nodes, root |-> tree.root, made |-> tree.made]
         /\ Present(tree.nodes) = KeySet(w)
         /\ TreeOn(tree.nodes, KeySeq(w), 1, Len(w), tree.root)
         /\ Len(w) \in Nat
         /\ Ranked(tree.nodes, Len(w)) /\ Parented(tree.nodes, Len(w))
<1>1. tree \in Trees /\ IsWindow(w) /\ IsWhole(tree.nodes, tree.root, KeySeq(w), Len(w))
  BY DEF Holds
<1>2. /\ tree.nodes \in Nodes /\ tree.root \in Keys \union {NoNode} /\ tree.made \in Nat
      /\ tree = [nodes |-> tree.nodes, root |-> tree.root, made |-> tree.made]
  BY <1>1 DEF Trees
<1>3. Present(tree.nodes) = KeySet(w)
  BY <1>1, KeysAt DEF IsWhole, IsSpan
<1>4. TreeOn(tree.nodes, KeySeq(w), 1, Len(w), tree.root)
  BY <1>1 DEF IsWhole
<1>. QED
  BY <1>1, <1>2, <1>3, <1>4, WholeIsRanked, WindowIs

\* A record of the three fields.
LEMMA TreeMade ==
  ASSUME NEW nodes \in Nodes, NEW root \in Keys \union {NoNode}, NEW made \in Nat
  PROVE  [nodes |-> nodes, root |-> root, made |-> made] \in Trees
BY DEF Trees

\* Records with given fields are equal.
LEMMA RecordIs ==
  ASSUME NEW x, NEW y, NEW z, NEW e \in [nodes : {x}, root : {y}, made : {z}]
  PROVE  e = [nodes |-> x, root |-> y, made |-> z]
OBVIOUS

\* A record of the three fields, whatever they are.
IsRecord(tree) == \E A, B, C : tree \in [nodes : A, root : B, made : C]

\* Two fields set at once.
LEMMA WithRoot ==
  ASSUME NEW tree, IsRecord(tree), NEW x, NEW y
  PROVE  [tree EXCEPT !.nodes = x, !.root = y] = [nodes |-> x, root |-> y, made |-> tree.made]
<1>0. PICK A, B, C : tree \in [nodes : A, root : B, made : C]
  BY DEF IsRecord
<1>1. [tree EXCEPT !.nodes = x, !.root = y] \in [nodes : {x}, root : {y}, made : {tree.made}]
  BY <1>0
<1>. QED
  BY <1>1, RecordIs

\* Rooted sets the nodes and the root.
LEMMA RootedIs ==
  ASSUME NEW tree, IsRecord(tree), NEW merged
  PROVE  Tree!Rooted(tree, merged)
             = [nodes |-> merged.nodes, root |-> merged.root, made |-> tree.made]
BY WithRoot DEF Tree!Rooted

\* Two fields set at once.
LEMMA WithNodes ==
  ASSUME NEW tree, IsRecord(tree), NEW x, NEW z
  PROVE  [tree EXCEPT !.nodes = x, !.made = z] = [nodes |-> x, root |-> tree.root, made |-> z]
<1>0. PICK A, B, C : tree \in [nodes : A, root : B, made : C]
  BY DEF IsRecord
<1>1. [tree EXCEPT !.nodes = x, !.made = z] \in [nodes : {x}, root : {tree.root}, made : {z}]
  BY <1>0
<1>. QED
  BY <1>1, RecordIs

\* FollowedBy merges.
LEMMA FollowedByIs ==
  ASSUME NEW nodes, NEW root, NEW made, NEW k
  PROVE  Tree!FollowedBy([nodes |-> nodes, root |-> root, made |-> made], k)
             = [nodes |-> Tree!Merge(nodes, root, k).nodes,
                root |-> Tree!Merge(nodes, root, k).root, made |-> made]
<1>. DEFINE tree == [nodes |-> nodes, root |-> root, made |-> made]
<1>1. tree.nodes = nodes /\ tree.root = root /\ tree.made = made
  OBVIOUS
<1>2. IsRecord(tree)
  <2>1. tree \in [nodes : {nodes}, root : {root}, made : {made}]
    OBVIOUS
  <2>. HIDE DEF tree
  <2>. QED
    BY <2>1 DEF IsRecord
<1>. HIDE DEF tree
<1>. DEFINE m == Tree!Merge(nodes, root, k)
<1>3. Tree!FollowedBy(tree, k) = Tree!Rooted(tree, m)
  BY <1>1 DEF Tree!FollowedBy
<1>. HIDE DEF m
<1>4. Tree!Rooted(tree, m) = [nodes |-> m.nodes, root |-> m.root, made |-> tree.made]
  BY <1>2, RootedIs
<1>5. Tree!FollowedBy(tree, k) = [nodes |-> m.nodes, root |-> m.root, made |-> made]
  BY <1>1, <1>3, <1>4
<1>. QED
  BY <1>5 DEF tree, m

\* Between merges twice.
LEMMA BetweenOf ==
  ASSUME NEW tree \in Trees, NEW parts, NEW k,
         NEW first, first = Tree!Merge(parts.nodes, parts.left, k),
         NEW second, second = Tree!Merge(first.nodes, first.root, parts.right)
  PROVE  Tree!Between(tree, parts, k)
             = [nodes |-> second.nodes, root |-> second.root, made |-> tree.made]
<1>. DEFINE t1 == [nodes |-> parts.nodes, root |-> parts.left, made |-> tree.made]
            t2 == [nodes |-> first.nodes, root |-> first.root, made |-> tree.made]
<1>1. [tree EXCEPT !.nodes = parts.nodes, !.root = parts.left] = t1
  <2>1. IsRecord(tree)
    BY DEF Trees, IsRecord
  <2>. QED
    BY <2>1, WithRoot
<1>2. Tree!FollowedBy(t1, k) = t2
  BY FollowedByIs
<1>3. Tree!FollowedBy(t2, parts.right) = [nodes |-> second.nodes, root |-> second.root, made |-> tree.made]
  BY FollowedByIs
<1>. HIDE DEF t1, t2
<1>4. Tree!Between(tree, parts, k) = Tree!FollowedBy(Tree!FollowedBy(t1, k), parts.right)
  BY <1>1 DEF Tree!Between
<1>. QED
  BY <1>2, <1>3, <1>4

\* A node put between the others makes a window of the keys' order.
LEMMA PutInAt ==
  ASSUME NEW tree \in Trees, NEW s, NEW k, NEW v, IsWindow(v),
         IsApart(tree.nodes, tree.root, s, Len(v), k), NEW i \in 0..(Len(v) - 1),
         IsBetween(KeySeq(v), s, i, Len(v)),
         \A j \in 1..Len(v) : tree.nodes[v[j].key].row = v[j].row
  PROVE  Holds(Tree!Between(tree, Tree!Split(tree.nodes, tree.root, i), k), v)
<1>. DEFINE parts == Tree!Split(tree.nodes, tree.root, i)
            first == Tree!Merge(parts.nodes, parts.left, k)
            second == Tree!Merge(first.nodes, first.root, parts.right)
<1>1. Tree!Between(tree, parts, k) = [nodes |-> second.nodes, root |-> second.root, made |-> tree.made]
  BY BetweenOf
<1>2. IsPutIn(second, tree.nodes, KeySeq(v), Len(v))
  BY SplitAndPutIn
<1>. HIDE DEF parts, first, second
<1>3. /\ IsWhole(second.nodes, second.root, KeySeq(v), Len(v))
      /\ Keeps(tree.nodes, second.nodes, Keys)
  BY <1>2 DEF IsPutIn
<1>4. second.nodes \in Nodes /\ second.root \in Keys \union {NoNode}
  <2>1. TreeOn(second.nodes, KeySeq(v), 1, Len(v), second.root)
    BY <1>3 DEF IsWhole
  <2>2. second.root \in Present(second.nodes) \union {NoNode}
    BY <2>1, RootIs
  <2>. QED
    BY <1>3, <2>2 DEF IsWhole, IsSpan, Present
<1>5. ASSUME NEW j \in 1..Len(v)
      PROVE  second.nodes[v[j].key].row = v[j].row
  <2>1. v[j].key \in Present(second.nodes)
    BY <1>3, KeysAt DEF IsWhole, IsSpan, KeysOf
  <2>. QED
    BY <1>3, <2>1 DEF Keeps
<1>. DEFINE new == [nodes |-> second.nodes, root |-> second.root, made |-> tree.made]
<1>6. new.nodes = second.nodes /\ new.root = second.root /\ new \in Trees
  <2>1. tree.made \in Nat
    BY DEF Trees
  <2>. QED
    BY <1>4, <2>1, TreeMade
<1>. HIDE DEF new
<1>7. Holds(new, v)
  BY <1>3, <1>5, <1>6 DEF Holds
<1>. QED
  BY <1>1, <1>7 DEF parts, new

\* WithRow: the new node is a tree of its own.
IsWithRow(new, tree, w, key, row) ==
    /\ new \in Trees /\ new.root = tree.root
    /\ new.nodes[key].row = row
    /\ \A k \in Keys \ {key} : new.nodes[k] = tree.nodes[k]
    /\ \A s : /\ \A j \in 1..Len(w) : s[j] = w[j].key
              /\ s[Len(w) + 1] = key
              => IsApart(new.nodes, tree.root, s, Len(w) + 1, key)

\* makeSequenceNode: a node without links.
LEMMA NewNodeIs ==
  ASSUME NEW id \in Nat, NEW row \in Rows
  PROVE  /\ Tree!NewNode(id, row) \in Tree!Node /\ Tree!NewNode(id, row) # NoNode
         /\ Tree!NewNode(id, row).row = row /\ Tree!NewNode(id, row).size = 1
         /\ Tree!NewNode(id, row).left = NoNode /\ Tree!NewNode(id, row).right = NoNode
<1>1. Tree!NewNode(id, row) \in Tree!Node
  BY DEF Tree!NewNode, Tree!Node
<1>. QED
  BY <1>1, NoNodeIsNone DEF Tree!NewNode

\* It stands beside the tree.
LEMMA WithRowIs ==
  ASSUME NEW tree, NEW w, Holds(tree, w), NEW key \in Keys, key \notin KeySet(w), NEW row \in Rows
  PROVE  IsWithRow(Tree!WithRow(tree, key, row), tree, w, key, row)
<1>. DEFINE node == Tree!NewNode(tree.made + 1, row)
            nodes == [tree.nodes EXCEPT ![key] = node]
            new == [nodes |-> nodes, root |-> tree.root, made |-> tree.made + 1]
            n == Len(w)
<1>0. /\ tree.nodes \in Nodes /\ tree.root \in Keys \union {NoNode} /\ tree.made \in Nat
      /\ tree = [nodes |-> tree.nodes, root |-> tree.root, made |-> tree.made]
      /\ Present(tree.nodes) = KeySet(w) /\ n \in Nat
      /\ TreeOn(tree.nodes, KeySeq(w), 1, n, tree.root)
      /\ IsWindow(w) /\ IsRoot(tree.nodes, tree.root)
  BY HoldsIs DEF Holds, IsWhole
<1>1. /\ node \in Tree!Node /\ node # NoNode
      /\ node.row = row /\ node.size = 1 /\ node.left = NoNode /\ node.right = NoNode
  <2>1. tree.made + 1 \in Nat
    BY <1>0
  <2>. QED
    BY <2>1, NewNodeIs
<1>2. Tree!WithRow(tree, key, row) = new
  <2>1. Tree!WithRow(tree, key, row) = [tree EXCEPT !.nodes[key] = node, !.made = @ + 1]
    BY DEF Tree!WithRow
  <2>. HIDE DEF node
  <2>2. tree \in [nodes : Nodes, root : Keys \union {NoNode}, made : Nat]
    BY <1>0
  <2>3. [tree EXCEPT !.nodes[key] = node, !.made = @ + 1]
            = [tree EXCEPT !.nodes = nodes, !.made = tree.made + 1]
    BY <2>2
  <2>4. [tree EXCEPT !.nodes = nodes, !.made = tree.made + 1] = new
    <3>. HIDE DEF nodes
    <3>. QED
      BY <2>2, WithNodes DEF IsRecord
  <2>. HIDE DEF new
  <2>. QED
    BY <2>1, <2>3, <2>4
<1>. HIDE DEF node
<1>3. nodes \in Nodes /\ nodes[key] = node /\ \A k \in Keys \ {key} : nodes[k] = tree.nodes[k]
  BY <1>0, <1>1 DEF Nodes
<1>. HIDE DEF nodes
<1>4. Present(nodes) = KeySet(w) \union {key}
  BY <1>0, <1>1, <1>3 DEF Present
<1>5. ASSUME NEW s, \A j \in 1..n : s[j] = w[j].key, s[n + 1] = key
      PROVE  IsApart(nodes, tree.root, s, n + 1, key)
  <2>0. \A j \in 1..n : s[j] = KeySeq(w)[j] /\ s[j] \in KeySet(w)
    BY <1>0, <1>5, KeysAt, IndexesAre
  <2>1. IsSpan(nodes, s, n + 1)
    <3>1. Distinct(s, 1, n + 1)
      <4>1. ASSUME NEW i \in 1..(n + 1), NEW j \in 1..(n + 1), s[i] = s[j]
            PROVE  i = j
        <5>1. (i \in 1..n \/ i = n + 1) /\ (j \in 1..n \/ j = n + 1)
          BY <1>0
        <5>. QED
          BY <1>0, <1>5, <2>0, <4>1, <5>1 DEF IsWindow
      <4>. QED
        BY <4>1 DEF Distinct
    <3>2. KeysOf(s, 1, n + 1) = KeySet(w) \union {key}
      <4>1. KeySet(w) = KeysOf(KeySeq(w), 1, n)
        BY <1>0, KeysAt
      <4>2. \A i : i \in 1..(n + 1) <=> i \in 1..n \/ i = n + 1
        BY <1>0
      <4>3. \A k : k \in KeysOf(s, 1, n + 1) <=> k \in KeysOf(KeySeq(w), 1, n) \/ k = key
        BY <1>5, <2>0, <4>2 DEF KeysOf
      <4>. QED
        BY <4>1, <4>3
    <3>. QED
      BY <1>0, <1>3, <1>4, <3>1, <3>2 DEF IsSpan
  <2>2. Agrees(tree.nodes, nodes, KeySeq(w), 1, n, tree.root)
    <3>1. \A q \in 1..n : KeySeq(w)[q] \in Keys \ {key} /\ KeySeq(w)[q] \in Present(nodes)
      BY <1>0, <1>4, <2>0, WindowKeys
    <3>. QED
      BY <1>3, <3>1 DEF Agrees
  <2>3. TreeOn(nodes, KeySeq(w), 1, n, tree.root)
    BY <1>0, <2>2, SameTree
  <2>4. TreeOn(nodes, s, 1, (n + 1) - 1, tree.root)
    <3>1. \A q \in 1..n : s[q + 0] = KeySeq(w)[q]
      BY <1>0, <2>0
    <3>2. 1 = 1 + 0 /\ (n + 1) - 1 = n + 0
      BY <1>0
    <3>. QED
      BY <2>3, <3>1, <3>2, Shifted
  <2>5. TreeOn(nodes, s, n + 1, n + 1, key)
    <3>. DEFINE m == n + 1
    <3>0. m \in Int
      BY <1>0
    <3>1. m \in m..m /\ m - m + 1 = 1 /\ s[m] = key
      BY <1>0, <1>5
    <3>. HIDE DEF m
    <3>2. TreeOn(nodes, s, m, m - 1, NoNode) /\ TreeOn(nodes, s, m + 1, m, NoNode)
      BY <3>0, Bare, NothingAfter
    <3>3. key \in Present(nodes)
      BY <1>4
    <3>4. IsCut(nodes, s, m, m, key, m)
      BY <1>1, <1>3, <3>0, <3>1, <3>2, <3>3 DEF IsCut
    <3>5. TreeOn(nodes, s, m, m, key)
      BY <3>4, Join
    <3>. QED
      BY <3>5 DEF m
  <2>6. IsRoot(nodes, tree.root)
    <3>1. tree.root # NoNode => tree.root \in KeySet(w)
      BY <1>0, RootIs
    <3>2. tree.root # NoNode => nodes[tree.root] = tree.nodes[tree.root]
      BY <1>0, <1>3, <3>1
    <3>. QED
      BY <1>0, <3>2 DEF IsRoot
  <2>. QED
    BY <1>0, <2>1, <2>4, <2>5, <2>6 DEF IsApart
<1>6. new.nodes = nodes /\ new.root = tree.root /\ new \in Trees
  <2>1. tree.made + 1 \in Nat
    BY <1>0
  <2>. QED
    BY <1>0, <1>3, <2>1, TreeMade
<1>. HIDE DEF new
<1>7. IsWithRow(new, tree, w, key, row)
  BY <1>1, <1>3, <1>5, <1>6 DEF IsWithRow
<1>. QED
  BY <1>2, <1>7

\* An insertion in the tree is InsertAt of the window.
LEMMA InsertedHolds ==
  ASSUME NEW tree, NEW w, Holds(tree, w), NEW key \in Keys, key \notin KeySet(w), NEW row \in Rows,
         NEW index \in 1..(Len(w) + 1)
  PROVE  Holds(Tree!Inserted(tree, index - 1, key, row),
               InsertAt(w, index, [key |-> key, row |-> row]))
<1>. DEFINE new == Tree!WithRow(tree, key, row)
            n == Len(w)
            e == [key |-> key, row |-> row]
            v == InsertAt(w, index, e)
            s == [j \in 1..(n + 1) |-> IF j <= n THEN w[j].key ELSE key]
            i == index - 1
<1>0. IsWindow(w) /\ w \in Seq(Entry) /\ n \in Nat /\ e \in Entry
  BY WindowIs DEF Holds, Entry
<1>1. IsWithRow(new, tree, w, key, row)
  BY WithRowIs
<1>2. IsInserted(v, Entry, w, index, e) /\ IsWindow(v)
  BY <1>0, InsertAtIs, InsertedExact
<1>3. Tree!Inserted(tree, i, key, row)
          = Tree!Between(new, Tree!Split(new.nodes, new.root, i), key)
  BY DEF Tree!Inserted
<1>. HIDE DEF new
<1>4. (\A j \in 1..n : s[j] = w[j].key) /\ s[n + 1] = key
  BY <1>0
<1>. HIDE DEF s
<1>5. IsApart(new.nodes, new.root, s, n + 1, key) /\ new \in Trees
  BY <1>1, <1>4 DEF IsWithRow
<1>6. e.key = key /\ e.row = row
  OBVIOUS
<1>. HIDE DEF e, v
<1>7. /\ Len(v) = n + 1
      /\ \A j \in 1..(n + 1) : v[j] = IF j < index THEN w[j] ELSE IF j = index THEN e ELSE w[j - 1]
      /\ \A j \in 1..(n + 1) : KeySeq(v)[j] = v[j].key
  BY <1>2, KeysAt DEF IsInserted
<1>8. IsBetween(KeySeq(v), s, i, n + 1)
  <2>1. \A j \in 1..i : KeySeq(v)[j] = s[j]
    <3>1. \A j \in 1..i : j \in 1..n /\ j \in 1..(n + 1) /\ j < index
      BY <1>0
    <3>. QED
      BY <1>4, <1>7, <3>1
  <2>2. KeySeq(v)[i + 1] = s[n + 1]
    <3>1. i + 1 = index /\ ~(index < index)
      BY <1>0
    <3>. QED
      BY <1>4, <1>6, <1>7, <3>1
  <2>3. ASSUME NEW j \in (i + 2)..(n + 1)
        PROVE  KeySeq(v)[j] = s[j - 1]
    <3>1. j - 1 \in 1..n /\ j \in 1..(n + 1) /\ ~(j < index) /\ j # index
      BY <1>0
    <3>. QED
      BY <1>4, <1>7, <3>1
  <2>. QED
    BY <2>1, <2>2, <2>3 DEF IsBetween
<1>9. ASSUME NEW j \in 1..(n + 1)
      PROVE  new.nodes[v[j].key].row = v[j].row
  <2>1. CASE j = index
    BY <1>1, <1>6, <1>7, <2>1 DEF IsWithRow
  <2>2. CASE j # index
    <3>1. PICK q \in 1..n : v[j] = w[q]
      <4>1. j < index => j \in 1..n
        BY <1>0
      <4>2. ~(j < index) => j - 1 \in 1..n
        BY <1>0, <2>2
      <4>. QED
        BY <1>7, <2>2, <4>1, <4>2
    <3>2. w[q].key \in KeySet(w) /\ w[q].key \in Keys
      BY <1>0, IndexesAre, WindowIs
    <3>3. new.nodes[w[q].key] = tree.nodes[w[q].key]
      BY <1>1, <3>2 DEF IsWithRow
    <3>. QED
      BY <3>1, <3>3 DEF Holds
  <2>. QED
    BY <2>1, <2>2
<1>10. i \in 0..(Len(v) - 1)
  BY <1>0, <1>7
<1>11. Holds(Tree!Between(new, Tree!Split(new.nodes, new.root, i), key), v)
  <2>. HIDE DEF i
  <2>1. /\ IsApart(new.nodes, new.root, s, Len(v), key)
        /\ IsBetween(KeySeq(v), s, i, Len(v))
        /\ \A j \in 1..Len(v) : new.nodes[v[j].key].row = v[j].row
    BY <1>5, <1>7, <1>8, <1>9
  <2>. QED
    BY <1>2, <1>5, <1>10, <2>1, PutInAt
<1>. QED
  BY <1>3, <1>11 DEF v, e

-----------------------------------------------------------------------------
(* Rows moved, removed and replaced in the tree *)

\* What TakenOut returns.
IsTaken(taken, tree, w, i, t) ==
    /\ taken.tree \in Trees
    /\ IsApart(taken.tree.nodes, taken.tree.root, t, Len(w), taken.node)
    /\ Keeps(tree.nodes, taken.tree.nodes, Keys)
    /\ taken.node = w[i].key

\* Trees are such records.
LEMMA TreeIsRecord ==
  ASSUME NEW tree \in Trees
  PROVE  IsRecord(tree)
BY DEF Trees, IsRecord

\* A root is a key or none.
LEMMA RootIsLink ==
  ASSUME NEW nodes, NEW s, NEW a, NEW b, NEW r, TreeOn(nodes, s, a, b, r)
  PROVE  r \in Keys \union {NoNode}
<1>1. r \in Present(nodes) \union {NoNode}
  BY RootIs
<1>. QED
  BY <1>1 DEF Present

\* A row taken out of the tree of a window stands beside the tree of the others.
LEMMA TakenOutOf ==
  ASSUME NEW tree, NEW w, Holds(tree, w), NEW i \in 1..Len(w),
         NEW t, IsLast(t, KeySeq(w), i, Len(w))
  PROVE  IsTaken(Tree!TakenOut(tree, i - 1), tree, w, i, t)
<1>. DEFINE outer == Tree!Split(tree.nodes, tree.root, i - 1)
            inner == Tree!Split(outer.nodes, outer.right, 1)
            merged == Tree!Merge(inner.nodes, outer.left, inner.right)
            new == [nodes |-> merged.nodes, root |-> merged.root, made |-> tree.made]
            taken == [tree |-> new, node |-> inner.left]
<1>0. tree \in Trees /\ IsWhole(tree.nodes, tree.root, KeySeq(w), Len(w)) /\ tree.made \in Nat
  BY HoldsIs DEF Holds
<1>1. IsOut(merged, inner.left, tree.nodes, KeySeq(w), i, t, Len(w))
  BY <1>0, TakenOutIs
<1>. HIDE DEF merged
<1>2. Tree!Rooted(tree, merged) = new
  BY <1>0, TreeIsRecord, RootedIs
<1>3. Tree!TakenOut(tree, i - 1) = taken
  <2>1. Tree!TakenOut(tree, i - 1)
            = [tree |-> Tree!Rooted(tree, merged), node |-> inner.left]
    BY DEF Tree!TakenOut, Tree!TakenFrom, Tree!Rejoined, merged
  <2>. QED
    BY <1>2, <2>1
<1>. DEFINE node == inner.left
<1>4. /\ IsApart(merged.nodes, merged.root, t, Len(w), node)
      /\ Keeps(tree.nodes, merged.nodes, Keys) /\ node = KeySeq(w)[i]
  BY <1>1 DEF IsOut
<1>. HIDE DEF node, inner, outer
<1>5. merged.nodes \in Nodes /\ merged.root \in Keys \union {NoNode}
  BY <1>4, RootIsLink DEF IsApart, Keeps
<1>6. new \in Trees
  BY <1>0, <1>5, TreeMade
<1>7. KeySeq(w)[i] = w[i].key
  BY KeysAt DEF Holds
<1>8. taken.tree = new /\ taken.node = node /\ new.nodes = merged.nodes /\ new.root = merged.root
  BY DEF node
<1>. HIDE DEF new, taken
<1>9. IsTaken(taken, tree, w, i, t)
  BY <1>4, <1>6, <1>7, <1>8 DEF IsTaken
<1>. QED
  BY <1>3, <1>9

\* Such an order of the keys.
LEMMA LastExists ==
  ASSUME NEW s, NEW n \in Nat, NEW i \in 1..n
  PROVE  \E t : IsLast(t, s, i, n)
<1>. DEFINE t == [j \in 1..n |-> IF j < i THEN s[j] ELSE IF j = n THEN s[i] ELSE s[j + 1]]
<1>1. IsLast(t, s, i, n)
  BY DEF IsLast
<1>. HIDE DEF t
<1>. QED
  BY <1>1

\* The tree has each row.
LEMMA HeldRow ==
  ASSUME NEW tree, NEW w, Holds(tree, w), NEW i \in 1..Len(w)
  PROVE  w[i].key \in Present(tree.nodes) /\ tree.nodes[w[i].key].row = w[i].row
<1>1. IsWindow(w)
  BY DEF Holds
<1>2. w[i].key \in KeySet(w)
  BY <1>1, IndexesAre
<1>3. Present(tree.nodes) = KeySet(w)
  BY HoldsIs
<1>. QED
  BY <1>2, <1>3 DEF Holds

\* A move in the tree, taken out and put back, is Moved of the window.
LEMMA MovedHolds ==
  ASSUME NEW tree, NEW w, Holds(tree, w), NEW from \in 1..Len(w), NEW to \in 1..Len(w)
  PROVE  Holds(Tree!MovedTo(tree, from - 1, to - 1), Moved(w, from, to))
<1>. DEFINE n == Len(w)
            v == Moved(w, from, to)
            taken == Tree!TakenOut(tree, from - 1)
            i == to - 1
<1>0. IsWindow(w) /\ w \in Seq(Entry) /\ n \in Nat
  BY WindowIs DEF Holds
<1>1. PICK t : IsLast(t, KeySeq(w), from, n)
  BY <1>0, LastExists
<1>2. IsTaken(taken, tree, w, from, t)
  BY <1>1, TakenOutOf
<1>3. Tree!MovedTo(tree, from - 1, i)
          = Tree!Between(taken.tree, Tree!Split(taken.tree.nodes, taken.tree.root, i), taken.node)
  BY DEF Tree!MovedTo, Tree!PutBack
<1>. HIDE DEF taken
<1>4. IsMoved(v, Entry, w, from, to) /\ IsWindow(v)
  BY <1>0, MovedIs, MovedExact
<1>. HIDE DEF v
<1>5. /\ Len(v) = n
      /\ \A j \in 1..n : Origin(from, to, j) \in 1..n /\ v[j] = w[Origin(from, to, j)]
  BY <1>4 DEF IsMoved
<1>6. \A j \in 1..n : KeySeq(v)[j] = v[j].key /\ KeySeq(w)[j] = w[j].key
  BY <1>0, <1>4, <1>5, KeysAt
<1>7. /\ \A j \in 1..(from - 1) : t[j] = w[j].key
      /\ \A j \in from..(n - 1) : t[j] = w[j + 1].key
      /\ t[n] = w[from].key
  <2>1. /\ \A j \in 1..(from - 1) : j \in 1..n
        /\ \A j \in from..(n - 1) : j + 1 \in 1..n
    BY <1>0
  <2>. QED
    BY <1>1, <1>6, <2>1 DEF IsLast
<1>8. IsBetween(KeySeq(v), t, i, n)
  <2>1. ASSUME NEW j \in 1..i
        PROVE  KeySeq(v)[j] = t[j]
    <3>1. j \in 1..n /\ j < to
      BY <1>0
    <3>2. CASE from <= j
      <4>1. Origin(from, to, j) = j + 1 /\ j \in from..(n - 1)
        BY <1>0, <3>1, <3>2 DEF Origin
      <4>2. v[j] = w[j + 1] /\ t[j] = w[j + 1].key
        BY <1>5, <1>7, <3>1, <4>1
      <4>. QED
        BY <1>6, <3>1, <4>2
    <3>3. CASE j < from
      <4>1. Origin(from, to, j) = j /\ j \in 1..(from - 1)
        BY <1>0, <3>1, <3>3 DEF Origin
      <4>2. v[j] = w[j] /\ t[j] = w[j].key
        BY <1>5, <1>7, <3>1, <4>1
      <4>. QED
        BY <1>6, <3>1, <4>2
    <3>. QED
      BY <1>0, <3>1, <3>2, <3>3
  <2>2. KeySeq(v)[i + 1] = t[n]
    <3>1. i + 1 = to /\ Origin(from, to, to) = from
      BY <1>0 DEF Origin
    <3>. QED
      BY <1>5, <1>6, <1>7, <3>1
  <2>3. ASSUME NEW j \in (i + 2)..n
        PROVE  KeySeq(v)[j] = t[j - 1]
    <3>1. j \in 1..n /\ to < j
      BY <1>0
    <3>2. CASE j <= from
      <4>1. Origin(from, to, j) = j - 1 /\ j - 1 \in 1..(from - 1)
        BY <1>0, <3>1, <3>2 DEF Origin
      <4>2. v[j] = w[j - 1] /\ t[j - 1] = w[j - 1].key
        BY <1>5, <1>7, <3>1, <4>1
      <4>. QED
        BY <1>6, <3>1, <4>2
    <3>3. CASE from < j
      <4>1. Origin(from, to, j) = j /\ j - 1 \in from..(n - 1)
        BY <1>0, <3>1, <3>3 DEF Origin
      <4>2. v[j] = w[j]
        BY <1>5, <3>1, <4>1
      <4>3. t[j - 1] = w[(j - 1) + 1].key
        BY <1>7, <4>1
      <4>4. (j - 1) + 1 = j
        BY <1>0
      <4>. QED
        BY <1>6, <3>1, <4>2, <4>3, <4>4
    <3>. QED
      BY <1>0, <3>1, <3>2, <3>3
  <2>. QED
    BY <2>1, <2>2, <2>3 DEF IsBetween
<1>9. ASSUME NEW j \in 1..n
      PROVE  taken.tree.nodes[v[j].key].row = v[j].row
  <2>1. PICK q \in 1..n : v[j] = w[q]
    BY <1>5
  <2>2. w[q].key \in Present(tree.nodes) /\ tree.nodes[w[q].key].row = w[q].row
    BY HeldRow
  <2>. QED
    BY <1>2, <2>1, <2>2 DEF IsTaken, Keeps
<1>10. i \in 0..(Len(v) - 1)
  BY <1>0, <1>5
<1>11. /\ taken.tree \in Trees
       /\ IsApart(taken.tree.nodes, taken.tree.root, t, Len(v), taken.node)
       /\ IsBetween(KeySeq(v), t, i, Len(v))
       /\ \A j \in 1..Len(v) : taken.tree.nodes[v[j].key].row = v[j].row
  BY <1>2, <1>5, <1>8, <1>9 DEF IsTaken
<1>12. Holds(Tree!Between(taken.tree, Tree!Split(taken.tree.nodes, taken.tree.root, i), taken.node), v)
  <2>. HIDE DEF i
  <2>. QED
    BY <1>4, <1>10, <1>11, PutInAt
<1>. QED
  BY <1>3, <1>12 DEF v

\* The position of a row, found up the parents, is that in the window.
LEMMA IndexInTree ==
  ASSUME NEW tree, NEW w, Holds(tree, w), NEW i \in 1..Len(w)
  PROVE  Tree!NodeIndex(tree.nodes, w[i].key) = i - 1
<1>1. /\ tree.nodes \in Nodes /\ Len(w) \in Nat /\ Parented(tree.nodes, Len(w))
      /\ TreeOn(tree.nodes, KeySeq(w), 1, Len(w), tree.root)
      /\ IsRoot(tree.nodes, tree.root) /\ Distinct(KeySeq(w), 1, Len(w))
  BY HoldsIs DEF Holds, IsWhole, IsSpan
<1>2. Tree!NodeIndex(tree.nodes, KeySeq(w)[i]) = i - 1
  BY <1>1, NodeIndexIs
<1>. QED
  BY <1>2, KeysAt DEF Holds

\* A removal in the tree is RemoveAt of the window.
LEMMA RemovedHolds ==
  ASSUME NEW tree, NEW w, Holds(tree, w), NEW i \in 1..Len(w)
  PROVE  Holds(Tree!Without(tree, w[i].key), RemoveAt(w, i))
<1>. DEFINE n == Len(w)
            v == RemoveAt(w, i)
            key == w[i].key
            taken == Tree!TakenOut(tree, i - 1)
            old == taken.tree
            nodes == [old.nodes EXCEPT ![key] = NoNode]
            new == [nodes |-> nodes, root |-> old.root, made |-> old.made]
<1>0. IsWindow(w) /\ w \in Seq(Entry) /\ n \in Nat /\ key \in Keys
  BY WindowIs DEF Holds
<1>1. PICK t : IsLast(t, KeySeq(w), i, n)
  BY <1>0, LastExists
<1>2. IsTaken(taken, tree, w, i, t)
  BY <1>1, TakenOutOf
<1>3. Tree!Without(tree, key) = [old EXCEPT !.nodes[key] = NoNode]
  BY IndexInTree DEF Tree!Without
<1>. HIDE DEF taken
<1>4. /\ old \in Trees /\ IsApart(old.nodes, old.root, t, n, key)
      /\ Keeps(tree.nodes, old.nodes, Keys)
  BY <1>2 DEF IsTaken
<1>. HIDE DEF old, key
<1>5. Tree!Without(tree, key) = new
  BY <1>3, <1>4 DEF Trees
<1>6. /\ old.nodes \in Nodes /\ old.root \in Keys \union {NoNode} /\ old.made \in Nat
      /\ IsSpan(old.nodes, t, n) /\ TreeOn(old.nodes, t, 1, n - 1, old.root)
      /\ IsRoot(old.nodes, old.root) /\ t[n] = key
  <2>1. t[n] = KeySeq(w)[i]
    BY <1>1 DEF IsLast
  <2>2. KeySeq(w)[i] = key
    BY <1>0, KeysAt DEF key
  <2>. QED
    BY <1>4, <2>1, <2>2 DEF Trees, IsApart
<1>7. nodes \in Nodes /\ nodes[key] = NoNode /\ \A k \in Keys \ {key} : nodes[k] = old.nodes[k]
  BY <1>0, <1>6 DEF Nodes
<1>. HIDE DEF nodes
<1>8. Present(nodes) = Present(old.nodes) \ {key}
  BY <1>7 DEF Present
<1>9. \A q \in 1..(n - 1) : t[q] \in Keys \ {key} /\ t[q] \in Present(nodes)
  <2>1. \A q \in 1..(n - 1) : q \in 1..n /\ n \in 1..n /\ q # n
    BY <1>0
  <2>2. \A q \in 1..n : t[q] \in Present(old.nodes)
    BY <1>6 DEF IsSpan, KeysOf
  <2>3. \A q \in 1..n : t[q] = t[n] => q = n
    BY <1>0, <1>6 DEF IsSpan, Distinct
  <2>. QED
    BY <1>6, <1>8, <2>1, <2>2, <2>3 DEF Present
<1>10. IsRemoved(v, Entry, w, i) /\ IsWindow(v)
  BY <1>0, RemoveAtIs, RemovedExact
<1>. HIDE DEF v
<1>11. /\ Len(v) = n - 1
       /\ \A j \in 1..(n - 1) : v[j] = IF j < i THEN w[j] ELSE w[j + 1]
  BY <1>10 DEF IsRemoved
<1>12. \A j \in 1..(n - 1) : KeySeq(v)[j] = t[j] /\ v[j].key = t[j]
  <2>1. ASSUME NEW j \in 1..(n - 1)
        PROVE  v[j].key = t[j]
    <3>1. CASE j < i
      <4>1. j \in 1..(i - 1) /\ j \in 1..n
        BY <1>0, <3>1
      <4>. QED
        BY <1>0, <1>1, <1>11, <3>1, <4>1, KeysAt DEF IsLast
    <3>2. CASE ~(j < i)
      <4>1. j \in i..(n - 1) /\ j + 1 \in 1..n
        BY <1>0, <3>2
      <4>. QED
        BY <1>0, <1>1, <1>11, <3>2, <4>1, KeysAt DEF IsLast
    <3>. QED
      BY <3>1, <3>2
  <2>. QED
    BY <1>10, <1>11, <2>1, KeysAt
<1>13. TreeOn(nodes, KeySeq(v), 1, n - 1, old.root)
  <2>1. Agrees(old.nodes, nodes, t, 1, n - 1, old.root)
    BY <1>7, <1>9 DEF Agrees
  <2>2. TreeOn(nodes, t, 1, n - 1, old.root)
    BY <1>6, <2>1, SameTree
  <2>. DEFINE m == n - 1
  <2>3. \A q \in 1..m : KeySeq(v)[q + 0] = t[q]
    BY <1>0, <1>12
  <2>4. 1 = 1 + 0 /\ m = m + 0
    BY <1>0
  <2>. HIDE DEF m
  <2>5. TreeOn(nodes, t, 1, m, old.root) => TreeOn(nodes, KeySeq(v), 1, m, old.root)
    BY <2>3, <2>4, Shifted
  <2>. QED
    BY <2>2, <2>5 DEF m
<1>14. IsSpan(nodes, KeySeq(v), n - 1)
  <2>1. n - 1 \in Nat /\ Distinct(t, 1, n - 1)
    <3>1. n - 1 \in Nat
      BY <1>0
    <3>. QED
      BY <1>0, <1>6, <3>1, SpanDistinct
  <2>2. Distinct(KeySeq(v), 1, n - 1)
    BY <1>12, <2>1 DEF Distinct
  <2>3. KeysOf(KeySeq(v), 1, n - 1) = Present(nodes)
    <3>1. ASSUME NEW k \in Present(nodes)
          PROVE  \E q \in 1..(n - 1) : k = KeySeq(v)[q]
      <4>1. PICK q \in 1..n : k = t[q]
        BY <1>6, <1>8 DEF IsSpan, KeysOf
      <4>2. q # n
        BY <1>6, <1>8, <4>1
      <4>3. q \in 1..(n - 1)
        BY <1>0, <4>2
      <4>. QED
        BY <1>12, <4>1, <4>3
    <3>2. \A q \in 1..(n - 1) : KeySeq(v)[q] \in Present(nodes)
      BY <1>9, <1>12
    <3>. QED
      BY <3>1, <3>2 DEF KeysOf
  <2>. QED
    BY <1>7, <2>1, <2>2, <2>3 DEF IsSpan
<1>15. IsRoot(nodes, old.root)
  <2>1. old.root # NoNode => \E q \in 1..(n - 1) : old.root = t[q]
    BY <1>6, RootAt
  <2>2. old.root # NoNode => nodes[old.root] = old.nodes[old.root]
    BY <1>7, <1>9, <2>1
  <2>. QED
    BY <1>6, <2>2 DEF IsRoot
<1>16. ASSUME NEW j \in 1..(n - 1)
       PROVE  nodes[v[j].key].row = v[j].row
  <2>1. PICK q \in 1..n : v[j] = w[q]
    <3>1. j \in 1..n /\ j + 1 \in 1..n
      BY <1>0
    <3>. QED
      BY <1>11, <3>1
  <2>2. w[q].key \in Present(tree.nodes) /\ tree.nodes[w[q].key].row = w[q].row
    BY HeldRow
  <2>3. nodes[v[j].key] = old.nodes[v[j].key]
    BY <1>7, <1>9, <1>12
  <2>. QED
    BY <1>4, <2>1, <2>2, <2>3 DEF Keeps
<1>17. new \in Trees /\ new.nodes = nodes /\ new.root = old.root
  BY <1>6, <1>7, TreeMade
<1>. HIDE DEF new
<1>18. IsWhole(nodes, old.root, KeySeq(v), Len(v))
  BY <1>11, <1>13, <1>14, <1>15 DEF IsWhole
<1>19. Holds(new, v)
  BY <1>10, <1>11, <1>16, <1>17, <1>18 DEF Holds
<1>. QED
  BY <1>5, <1>19 DEF v, key

\* An assignment to the row of a node.
LEMMA SetRowField ==
  ASSUME NEW node \in Tree!Node, NEW x \in Rows
  PROVE  /\ [node EXCEPT !.row = x] \in Tree!Node
         /\ [node EXCEPT !.row = x].left = node.left
         /\ [node EXCEPT !.row = x].right = node.right
         /\ [node EXCEPT !.row = x].parent = node.parent
         /\ [node EXCEPT !.row = x].size = node.size
         /\ [node EXCEPT !.row = x].row = x
BY DEF Tree!Node

\* A row replaced in the tree is an update of the window.
LEMMA ReplacedHolds ==
  ASSUME NEW tree, NEW w, Holds(tree, w), NEW i \in 1..Len(w), NEW row \in Rows
  PROVE  Holds(Tree!Replaced(tree, w[i].key, row), [w EXCEPT ![i].row = row])
<1>. DEFINE n == Len(w)
            v == [w EXCEPT ![i].row = row]
            key == w[i].key
            node == [tree.nodes[key] EXCEPT !.row = row]
            nodes == [tree.nodes EXCEPT ![key] = node]
            new == [nodes |-> nodes, root |-> tree.root, made |-> tree.made]
<1>0. /\ IsWindow(w) /\ n \in Nat
      /\ tree.nodes \in Nodes /\ tree.root \in Keys \union {NoNode} /\ tree.made \in Nat
      /\ TreeOn(tree.nodes, KeySeq(w), 1, n, tree.root) /\ IsRoot(tree.nodes, tree.root)
      /\ IsSpan(tree.nodes, KeySeq(w), n) /\ tree \in Trees
  BY HoldsIs DEF Holds, IsWhole
<1>1. key \in Present(tree.nodes) /\ key \in Keys /\ tree.nodes[key] \in Tree!Node
  <2>1. key \in Present(tree.nodes)
    BY HeldRow
  <2>. QED
    BY <1>0, <2>1, NodeIs
<1>2. /\ node \in Tree!Node /\ node.row = row
      /\ node.left = tree.nodes[key].left /\ node.right = tree.nodes[key].right
      /\ node.parent = tree.nodes[key].parent /\ node.size = tree.nodes[key].size
  BY <1>1, SetRowField
<1>3. Tree!Replaced(tree, key, row) = new
  <2>1. [tree EXCEPT !.nodes[key].row = row] = [tree EXCEPT !.nodes = nodes]
    BY <1>0 DEF Trees
  <2>. HIDE DEF nodes
  <2>2. [tree EXCEPT !.nodes = nodes] = new
    BY <1>0 DEF Trees
  <2>. QED
    BY <2>1, <2>2 DEF Tree!Replaced
<1>4. node # NoNode
  BY <1>2, NoNodeIsNone
<1>. HIDE DEF node, key
<1>5. nodes \in Nodes /\ nodes[key] = node /\ \A k \in Keys \ {key} : nodes[k] = tree.nodes[k]
  BY <1>0, <1>1, <1>2 DEF Nodes
<1>. HIDE DEF nodes
<1>6. Present(nodes) = Present(tree.nodes)
  BY <1>1, <1>4, <1>5 DEF Present
<1>7. IsUpdated(v, w, i, row) /\ IsWindow(v)
  BY <1>0, UpdateIs, UpdatedExact
<1>. HIDE DEF v
<1>8. /\ Len(v) = n
      /\ \A j \in 1..n : v[j] = IF j = i THEN [key |-> w[i].key, row |-> row] ELSE w[j]
  BY <1>7 DEF IsUpdated
<1>9. \A j \in 1..n : v[j].key = w[j].key /\ v[j].row = IF j = i THEN row ELSE w[j].row
  BY <1>8
<1>10. \A j \in 1..n : KeySeq(v)[j] = KeySeq(w)[j]
  BY <1>0, <1>7, <1>8, <1>9, KeysAt
<1>11. TreeOn(nodes, KeySeq(v), 1, n, tree.root)
  <2>1. \A q \in 1..n : KeySeq(w)[q] \in Keys
    BY <1>0, KeysAt, WindowIs
  <2>2. Agrees(tree.nodes, nodes, KeySeq(w), 1, n, tree.root)
    BY <1>2, <1>5, <1>6, <2>1 DEF Agrees
  <2>3. TreeOn(nodes, KeySeq(w), 1, n, tree.root)
    BY <1>0, <2>2, SameTree
  <2>4. \A q \in 1..n : KeySeq(v)[q + 0] = KeySeq(w)[q]
    BY <1>0, <1>10
  <2>5. 1 = 1 + 0 /\ n = n + 0
    BY <1>0
  <2>. HIDE DEF n
  <2>. QED
    BY <2>3, <2>4, <2>5, Shifted
<1>12. IsSpan(nodes, KeySeq(v), n)
  BY <1>0, <1>5, <1>6, <1>10 DEF IsSpan, Distinct, KeysOf
<1>13. IsRoot(nodes, tree.root)
  BY <1>0, <1>2, <1>5 DEF IsRoot
<1>14. ASSUME NEW j \in 1..n
       PROVE  nodes[v[j].key].row = v[j].row
  <2>1. CASE j = i
    BY <1>2, <1>5, <1>9, <2>1 DEF key
  <2>2. CASE j # i
    <3>1. w[j].key \in Keys /\ w[j].key # key
      BY <1>0, <2>2, WindowIs DEF IsWindow, key
    <3>2. tree.nodes[w[j].key].row = w[j].row
      BY HeldRow
    <3>. QED
      BY <1>5, <1>9, <2>2, <3>1, <3>2
  <2>. QED
    BY <2>1, <2>2
<1>15. new \in Trees /\ new.nodes = nodes /\ new.root = tree.root
  BY <1>0, <1>5, TreeMade
<1>. HIDE DEF new
<1>16. Holds(new, v)
  BY <1>7, <1>8, <1>11, <1>12, <1>13, <1>14, <1>15 DEF Holds, IsWhole
<1>. QED
  BY <1>3, <1>16 DEF v, key

\* A row added behind the others.
LEMMA GrownHolds ==
  ASSUME NEW tree, NEW w, Holds(tree, w), NEW v, IsWindow(v), Len(v) = Len(w) + 1,
         \A j \in 1..Len(w) : v[j] = w[j]
  PROVE  Holds(Tree!Grown(tree, v[Len(v)].key, v[Len(v)].row), v)
<1>. DEFINE n == Len(w)
            m == n + 1
            key == v[m].key
            row == v[m].row
            new == Tree!WithRow(tree, key, row)
            s == KeySeq(v)
            merged == Tree!Merge(new.nodes, new.root, key)
            result == [nodes |-> merged.nodes, root |-> merged.root, made |-> new.made]
<1>0. IsWindow(w) /\ n \in Nat /\ m \in Nat /\ m # 0 /\ m - 1 = n /\ Len(v) = m
  BY WindowIs DEF Holds
<1>1. key \in Keys /\ row \in Rows /\ key \notin KeySet(w)
  <2>1. m \in 1..Len(v) /\ \A i \in 1..n : i \in 1..Len(v) /\ i # m
    BY <1>0
  <2>2. key \in Keys /\ row \in Rows
    BY <2>1, WindowIs
  <2>3. w \in Seq(Entry)
    BY <1>0, WindowIs
  <2>4. key \in KeySet(w) <=> \E i \in 1..n : w[i].key = key
    <3>. HIDE DEF key
    <3>. QED
      BY <2>3, KeySetIs
  <2>5. \A i \in 1..n : w[i].key # key
    BY <2>1 DEF IsWindow
  <2>. QED
    BY <2>2, <2>4, <2>5
<1>2. IsWithRow(new, tree, w, key, row)
  <2>. HIDE DEF key, row
  <2>. QED
    BY <1>1, WithRowIs
<1>3. Tree!Grown(tree, key, row) = Tree!Rooted(new, merged)
  BY DEF Tree!Grown, Tree!FollowedBy
<1>. HIDE DEF new
<1>4. \A j \in 1..m : s[j] = v[j].key
  BY <1>0, KeysAt
<1>5. IsApart(new.nodes, tree.root, s, m, key) /\ new \in Trees /\ new.root = tree.root
  <2>1. (\A j \in 1..n : s[j] = w[j].key) /\ s[m] = key
    <3>1. m \in 1..m /\ \A j \in 1..n : j \in 1..m
      BY <1>0
    <3>. QED
      BY <1>4, <3>1
  <2>. HIDE DEF s, key
  <2>. QED
    BY <1>2, <2>1 DEF IsWithRow
<1>. HIDE DEF s, key
<1>6. /\ IsSpan(new.nodes, s, m) /\ TreeOn(new.nodes, s, 1, n, new.root)
      /\ TreeOn(new.nodes, s, n + 1, m, key) /\ new.nodes \in Nodes
  BY <1>0, <1>5 DEF IsApart, IsSpan
<1>7. Ranked(new.nodes, m) /\ Distinct(s, 1, m)
  <2>0. m \in Int
    BY <1>0
  <2>. HIDE DEF m
  <2>1. TreeOn(new.nodes, s, m + 1, m, NoNode)
    BY <2>0, NothingAfter
  <2>2. Ranked(new.nodes, m)
    BY <1>6, <2>1, RankedOver
  <2>. QED
    BY <1>6, <2>2 DEF IsSpan
<1>8. IsMerged(merged, new.nodes, s, 1, m)
  BY <1>0, <1>6, <1>7, MergeIs
<1>. HIDE DEF merged
<1>9. /\ Keeps(new.nodes, merged.nodes, KeysOf(s, 1, m))
      /\ TreeOn(merged.nodes, s, 1, m, merged.root) /\ IsRoot(merged.nodes, merged.root)
  BY <1>8 DEF IsMerged
<1>10. IsWhole(merged.nodes, merged.root, s, m)
  BY <1>6, <1>9, SpanKept DEF IsWhole
<1>11. ASSUME NEW j \in 1..m
       PROVE  merged.nodes[v[j].key].row = v[j].row
  <2>1. v[j].key \in Present(new.nodes)
    <3>1. s[j] \in KeysOf(s, 1, m)
      BY DEF KeysOf
    <3>2. Present(new.nodes) = KeysOf(s, 1, m)
      BY <1>6 DEF IsSpan
    <3>. QED
      BY <1>4, <3>1, <3>2
  <2>2. merged.nodes[v[j].key].row = new.nodes[v[j].key].row
    BY <1>9, <2>1 DEF Keeps
  <2>3. CASE j = m
    BY <1>2, <2>2, <2>3 DEF IsWithRow, key
  <2>4. CASE j # m
    <3>1. j \in 1..n /\ v[j] = w[j]
      BY <1>0, <2>4
    <3>2. w[j].key \in Keys /\ w[j].key # key
      <4>1. w[j].key \in Keys
        BY <1>0, <3>1, WindowIs
      <4>2. j \in 1..Len(v) /\ m \in 1..Len(v)
        BY <1>0
      <4>. QED
        BY <2>4, <3>1, <4>1, <4>2 DEF IsWindow, key
    <3>3. new.nodes[w[j].key] = tree.nodes[w[j].key]
      BY <1>2, <3>2 DEF IsWithRow
    <3>4. tree.nodes[w[j].key].row = w[j].row
      BY <3>1, HeldRow
    <3>. QED
      BY <2>2, <3>1, <3>3, <3>4
  <2>. QED
    BY <2>3, <2>4
<1>12. merged.nodes \in Nodes /\ merged.root \in Keys \union {NoNode} /\ new.made \in Nat
  BY <1>5, <1>9, RootIsLink DEF Keeps, Trees
<1>13. result \in Trees /\ result.nodes = merged.nodes /\ result.root = merged.root
  BY <1>12, TreeMade
<1>14. Tree!Rooted(new, merged) = result
  BY <1>5, TreeIsRecord, RootedIs
<1>. HIDE DEF result
<1>15. Holds(result, v)
  BY <1>0, <1>10, <1>11, <1>13 DEF Holds, s
<1>. QED
  BY <1>0, <1>3, <1>14, <1>15 DEF key

\* The empty tree has the empty window.
LEMMA EmptyHolds == Holds(Tree!EmptyTree, <<>>)
<1>. DEFINE nodes == Tree!NoNodes
<1>1. nodes \in Nodes /\ Present(nodes) = {}
  BY DEF Tree!NoNodes, Nodes, Present
<1>2. Tree!EmptyTree = [nodes |-> nodes, root |-> NoNode, made |-> 0]
  BY DEF Tree!EmptyTree
<1>. HIDE DEF nodes
<1>. DEFINE tree == [nodes |-> nodes, root |-> NoNode, made |-> 0]
<1>3. tree \in Trees /\ tree.nodes = nodes /\ tree.root = NoNode
  BY <1>1, TreeMade
<1>. HIDE DEF tree
<1>4. IsWindow(<<>>) /\ Len(<<>>) = 0
  BY EmptyIsWindow
<1>5. TreeOn(nodes, KeySeq(<<>>), 1, 0, NoNode)
  <2>1. TreeOn(nodes, KeySeq(<<>>), 0 + 1, 0, NoNode)
    BY NothingAfter
  <2>2. 0 + 1 = 1
    OBVIOUS
  <2>. QED
    BY <2>1, <2>2
<1>6. IsSpan(nodes, KeySeq(<<>>), 0)
  <2>1. 1..0 = {}
    OBVIOUS
  <2>. QED
    BY <1>1, <2>1 DEF IsSpan, Distinct, KeysOf
<1>7. Holds(tree, <<>>)
  <2>1. IsWhole(nodes, NoNode, KeySeq(<<>>), 0)
    BY <1>5, <1>6 DEF IsWhole, IsRoot
  <2>2. \A i \in 1..0 : tree.nodes[<<>>[i].key].row = <<>>[i].row
    OBVIOUS
  <2>. QED
    BY <1>3, <1>4, <2>1, <2>2 DEF Holds
<1>. QED
  BY <1>2, <1>7 DEF tree

-----------------------------------------------------------------------------
(* The staged batch *)

\* What TreeOf has after each entry.
IsGrowth(tree, w) ==
    /\ tree[0] = Tree!EmptyTree
    /\ \A i \in 1..Len(w) : tree[i] = Tree!Grown(tree[i - 1], w[i].key, w[i].row)

\* TreeOf is the last of them.
LEMMA TreeOfIsLast ==
  ASSUME NEW w, IsWindow(w)
  PROVE  \E tree : IsGrowth(tree, w) /\ TreeOf(w) = tree[Len(w)]
<1>. DEFINE n == Len(w)
            base == Tree!EmptyTree
            Then(x, i) == Tree!Grown(x, w[i].key, w[i].row)
            Rec(f, k) == [i \in 0..k |-> IF i = 0 THEN base ELSE Then(f[i - 1], i)]
            P == {k \in 0..n : \E f : f = Rec(f, k)}
<1>0. n \in Nat
  BY WindowIs
<1>8. ASSUME NEW f, NEW k \in Nat, f = Rec(f, k)
      PROVE  f[0] = base /\ \A i \in 1..k : f[i] = Then(f[i - 1], i)
  <2>. HIDE DEF Then, base
  <2>. QED
    BY <1>8
<1>1. 0 \in P
  <2>. DEFINE f == [i \in 0..0 |-> base]
  <2>. HIDE DEF base, Then
  <2>1. f = Rec(f, 0)
    OBVIOUS
  <2>. HIDE DEF Rec, f
  <2>. QED
    BY <1>0, <2>1
<1>2. ASSUME NEW k \in 1..n, k - 1 \in P
      PROVE  k \in P
  <2>1. PICK f : f = Rec(f, k - 1)
    BY <1>2
  <2>. DEFINE h == [i \in 0..k |-> IF i = k THEN Then(f[k - 1], k) ELSE f[i]]
  <2>2. f[0] = base /\ \A i \in 1..(k - 1) : f[i] = Then(f[i - 1], i)
    <3>1. k - 1 \in Nat
      BY <1>0
    <3>. HIDE DEF Rec
    <3>. QED
      BY <1>8, <2>1, <3>1
  <2>. HIDE DEF Then, base
  <2>3. \A i \in 0..k : h[i] = IF i = 0 THEN base ELSE Then(h[i - 1], i)
    BY <1>0, <2>2
  <2>4. h = Rec(h, k)
    <3>1. h = [i \in 0..k |-> h[i]]
      OBVIOUS
    <3>. HIDE DEF h
    <3>. QED
      BY <2>3, <3>1
  <2>. HIDE DEF Rec, h
  <2>. QED
    BY <1>0, <2>4
<1>3. n \in P
  <2>. HIDE DEF P, n
  <2>1. \A i \in 0..n : i \in P
    BY <1>0, <1>1, <1>2, Induction
  <2>. QED
    BY <1>0, <2>1
<1>. DEFINE tree == CHOOSE f : f = Rec(f, n)
<1>4. tree = Rec(tree, n)
  <2>. HIDE DEF Rec, n
  <2>. QED
    BY <1>3
<1>5. TreeOf(w) = tree[n]
  BY DEF TreeOf, n
<1>. HIDE DEF tree
<1>6. tree[0] = base /\ \A i \in 1..n : tree[i] = Then(tree[i - 1], i)
  <2>. HIDE DEF Rec, n, Then, base
  <2>. QED
    BY <1>0, <1>4, <1>8
<1>. QED
  BY <1>5, <1>6 DEF IsGrowth, n, base, Then

\* stageStructuralBatch begins with a tree that has the client's window.
LEMMA TreeOfHolds ==
  ASSUME NEW w, IsWindow(w)
  PROVE  Holds(TreeOf(w), w)
<1>. DEFINE n == Len(w)
            First(i) == [j \in 1..i |-> w[j]]
<1>0. w \in Seq(Entry) /\ n \in Nat /\ DOMAIN w = 1..n /\ \A j \in 1..n : w[j] \in Entry
  BY WindowIs
<1>1. PICK tree : IsGrowth(tree, w) /\ TreeOf(w) = tree[n]
  BY TreeOfIsLast
<1>2. ASSUME NEW i \in 0..n
      PROVE  /\ IsWindow(First(i)) /\ Len(First(i)) = i
             /\ \A j \in 1..i : First(i)[j] = w[j]
  <2>0. i \in Nat /\ \A j \in 1..i : j \in 1..n
    BY <1>0
  <2>1. First(i) \in Seq(Entry) /\ Len(First(i)) = i
    <3>1. First(i) \in [1..i -> Entry]
      BY <1>0, <2>0
    <3>. HIDE DEF First
    <3>2. First(i) \in Seq(Entry)
      BY <2>0, <3>1, IsASeq
    <3>3. DOMAIN First(i) = 1..i
      BY <3>1
    <3>. QED
      BY <2>0, <3>2, <3>3, LenProperties
  <2>2. \A j \in 1..i : First(i)[j] = w[j]
    OBVIOUS
  <2>. HIDE DEF First
  <2>. QED
    BY <2>0, <2>1, <2>2 DEF IsWindow
<1>3. First(n) = w
  BY <1>0
<1>. DEFINE P == {i \in 0..n : Holds(tree[i], First(i))}
<1>4. 0 \in P
  <2>1. First(0) = <<>>
    <3>1. First(0) \in Seq(Entry) /\ Len(First(0)) = 0
      BY <1>0, <1>2 DEF IsWindow
    <3>. HIDE DEF First
    <3>. QED
      BY <3>1, EmptySeq
  <2>2. tree[0] = Tree!EmptyTree
    BY <1>1 DEF IsGrowth
  <2>3. Holds(tree[0], First(0))
    <3>. HIDE DEF First
    <3>. QED
      BY <2>1, <2>2, EmptyHolds
  <2>. QED
    BY <1>0, <2>3
<1>. HIDE DEF First
<1>5. ASSUME NEW i \in 1..n, i - 1 \in P
      PROVE  i \in P
  <2>. DEFINE u == First(i - 1)
              v == First(i)
  <2>0. i - 1 \in 0..n /\ i \in 0..n /\ (i - 1) + 1 = i /\ i \in 1..i /\ \A j \in 1..(i - 1) : j \in 1..i
    BY <1>0
  <2>1. tree[i] = Tree!Grown(tree[i - 1], w[i].key, w[i].row)
    BY <1>1 DEF IsGrowth
  <2>2. /\ IsWindow(v) /\ Len(v) = Len(u) + 1 /\ Len(v) = i /\ v[i] = w[i]
        /\ \A j \in 1..Len(u) : v[j] = u[j]
    BY <1>2, <2>0
  <2>3. Holds(tree[i - 1], u)
    BY <1>5
  <2>. HIDE DEF u, v
  <2>4. Holds(Tree!Grown(tree[i - 1], v[Len(v)].key, v[Len(v)].row), v)
    BY <2>2, <2>3, GrownHolds
  <2>5. Holds(tree[i], v)
    BY <2>1, <2>2, <2>4
  <2>. QED
    BY <2>0, <2>5 DEF v
<1>6. n \in P
  <2>. HIDE DEF P, n
  <2>1. \A i \in 0..n : i \in P
    BY <1>0, <1>4, <1>5, Induction
  <2>. QED
    BY <1>0, <2>1
<1>. QED
  BY <1>1, <1>3, <1>6

\* What the tree tells of a window.
LEMMA TreeTells ==
  ASSUME NEW tree, NEW w, Holds(tree, w)
  PROVE  /\ Tree!Length(tree) = Len(w)
         /\ \A k \in Keys : Tree!Contains(tree, k) <=> k \in KeySet(w)
         /\ \A i \in Nat : i >= 1 => Tree!KeyAt(tree, i - 1) = IF i <= Len(w) THEN w[i].key ELSE NoNode
<1>0. /\ tree.nodes \in Nodes /\ Present(tree.nodes) = KeySet(w)
      /\ TreeOn(tree.nodes, KeySeq(w), 1, Len(w), tree.root)
      /\ Len(w) \in Nat /\ Ranked(tree.nodes, Len(w)) /\ IsWindow(w)
  BY HoldsIs DEF Holds
<1>1. Tree!Length(tree) = Len(w)
  <2>1. Tree!SizeOf(tree.nodes, tree.root) = Len(w) - 1 + 1
    BY <1>0, RootIs
  <2>. QED
    BY <1>0, <2>1 DEF Tree!Length
<1>2. \A k \in Keys : Tree!Contains(tree, k) <=> k \in KeySet(w)
  <2>1. \A k \in Keys : tree.nodes[k] # NoNode <=> k \in KeySet(w)
    BY <1>0 DEF Present
  <2>. QED
    BY <2>1 DEF Tree!Contains
<1>3. ASSUME NEW i \in Nat, i >= 1
      PROVE  Tree!KeyAt(tree, i - 1) = IF i <= Len(w) THEN w[i].key ELSE NoNode
  <2>. DEFINE q == i - 1
  <2>1. q \in Nat /\ 1 + q = i /\ (q <= Len(w) - 1 <=> i <= Len(w))
    BY <1>0, <1>3
  <2>2. Tree!KeyAt(tree, q) = Tree!NodeAt(tree.nodes, tree.root, q)
    BY DEF Tree!KeyAt
  <2>. HIDE DEF q
  <2>3. Tree!NodeAt(tree.nodes, tree.root, q)
            = IF q <= Len(w) - 1 THEN KeySeq(w)[1 + q] ELSE NoNode
    BY <1>0, <2>1, NodeAtIs
  <2>4. i <= Len(w) => KeySeq(w)[i] = w[i].key
    BY <1>0, <1>3, KeysAt
  <2>5. Tree!KeyAt(tree, q) = IF i <= Len(w) THEN w[i].key ELSE NoNode
    BY <2>1, <2>2, <2>3, <2>4
  <2>. QED
    BY <2>5 DEF q
<1>. QED
  BY <1>1, <1>2, <1>3

\* The tree refuses what the window refuses.
LEMMA FitsTreeIs ==
  ASSUME NEW tree, NEW w, Holds(tree, w), NEW op \in Operations
  PROVE  FitsTree(tree, op) <=> FitsWindow(w, op)
<1>0. /\ Tree!Length(tree) = Len(w) /\ Len(w) \in Nat
      /\ op.key \in Keys => (Tree!Contains(tree, op.key) <=> op.key \in KeySet(w))
      /\ \A i \in Nat : i >= 1 => Tree!KeyAt(tree, i - 1) = IF i <= Len(w) THEN w[i].key ELSE NoNode
  BY TreeTells, HoldsIs
<1>1. CASE op.type = "insert"
  <2>1. op.key \in Keys
    BY <1>1, OperationIs
  <2>. QED
    BY <1>0, <1>1, <2>1 DEF FitsTree, FitsWindow
<1>2. CASE op.type = "update"
  <2>1. op.key \in Keys /\ op.key # NoNode /\ op.index \in Nat
    BY <1>2, OperationIs, NoNodeIsNoKey
  <2>2. FitsTree(tree, op) <=> op.index >= 1 /\ Tree!KeyAt(tree, op.index - 1) = op.key
    BY <1>2 DEF FitsTree
  <2>3. FitsWindow(w, op) <=> op.index \in 1..Len(w) /\ w[op.index].key = op.key
    BY <1>2 DEF FitsWindow
  <2>4. op.index \in 1..Len(w) <=> op.index >= 1 /\ op.index <= Len(w)
    BY <1>0, <2>1
  <2>5. op.index >= 1 => Tree!KeyAt(tree, op.index - 1)
                             = IF op.index <= Len(w) THEN w[op.index].key ELSE NoNode
    BY <1>0, <2>1
  <2>. QED
    BY <2>1, <2>2, <2>3, <2>4, <2>5
<1>3. CASE op.type = "move"
  <2>1. op.key \in Keys /\ op.key # NoNode /\ op.fromIndex \in Nat /\ op.toIndex \in Nat
    BY <1>3, OperationIs, NoNodeIsNoKey
  <2>2. FitsTree(tree, op) <=> /\ op.fromIndex >= 1 /\ Tree!KeyAt(tree, op.fromIndex - 1) = op.key
                               /\ op.toIndex \in 1..Tree!Length(tree)
    BY <1>3 DEF FitsTree
  <2>3. FitsWindow(w, op) <=> /\ op.fromIndex \in 1..Len(w) /\ op.toIndex \in 1..Len(w)
                              /\ w[op.fromIndex].key = op.key
    BY <1>3 DEF FitsWindow
  <2>4. op.fromIndex \in 1..Len(w) <=> op.fromIndex >= 1 /\ op.fromIndex <= Len(w)
    BY <1>0, <2>1
  <2>5. op.fromIndex >= 1 => Tree!KeyAt(tree, op.fromIndex - 1)
                                 = IF op.fromIndex <= Len(w) THEN w[op.fromIndex].key ELSE NoNode
    BY <1>0, <2>1
  <2>. QED
    BY <1>0, <2>1, <2>2, <2>3, <2>4, <2>5
<1>4. CASE op.type = "remove"
  <2>1. op.key \in Keys
    BY <1>4, OperationIs
  <2>. QED
    BY <1>0, <1>4, <2>1 DEF FitsTree, FitsWindow
<1>. QED
  BY <1>1, <1>2, <1>3, <1>4, OperationIs

\* The batch that has led to a tree.
StagedAs(tree, touched, throughEnd, fits) ==
    [tree |-> tree, touched |-> touched, throughEnd |-> throughEnd, fits |-> fits]

\* A batch staged so far, whose tree holds a window.
IsStagedAs(st, v, touched, throughEnd, fits) ==
    \E tree : Holds(tree, v) /\ st = StagedAs(tree, touched, throughEnd, fits)

\* A batch staged so far, with its tree changed.
Grafted(st, more, x) == [Touch(st, more) EXCEPT !.tree = x]

\* The same for an operation after which every row behind may be another.
GraftedThroughEnd(st, more, x, end) == [Touch(st, more) EXCEPT !.tree = x, !.throughEnd = end]

\* The other fields stay.
LEMMA GraftedIs ==
  ASSUME NEW tree, NEW touched, NEW throughEnd, NEW fits, NEW more, NEW x
  PROVE  Grafted(StagedAs(tree, touched, throughEnd, fits), more, x)
             = StagedAs(x, touched \union more, throughEnd, fits)
<1>. DEFINE all == touched \union more
<1>1. Touch(StagedAs(tree, touched, throughEnd, fits), more) = StagedAs(tree, all, throughEnd, fits)
  BY DEF StagedAs, Touch
<1>. HIDE DEF all
<1>2. [StagedAs(tree, all, throughEnd, fits) EXCEPT !.tree = x] = StagedAs(x, all, throughEnd, fits)
  BY DEF StagedAs
<1>3. Grafted(StagedAs(tree, touched, throughEnd, fits), more, x) = StagedAs(x, all, throughEnd, fits)
  BY <1>1, <1>2 DEF Grafted
<1>. QED
  BY <1>3 DEF all

\* The other fields stay.
LEMMA GraftedThroughEndIs ==
  ASSUME NEW tree, NEW touched, NEW throughEnd, NEW fits, NEW more, NEW x, NEW end
  PROVE  GraftedThroughEnd(StagedAs(tree, touched, throughEnd, fits), more, x, end)
             = StagedAs(x, touched \union more, end, fits)
<1>. DEFINE all == touched \union more
<1>1. Touch(StagedAs(tree, touched, throughEnd, fits), more) = StagedAs(tree, all, throughEnd, fits)
  BY DEF StagedAs, Touch
<1>. HIDE DEF all
<1>2. [StagedAs(tree, all, throughEnd, fits) EXCEPT !.tree = x, !.throughEnd = end]
          = StagedAs(x, all, end, fits)
  <2>1. \A e : e \in [tree : {x}, touched : {all}, throughEnd : {end}, fits : {fits}]
               => e = StagedAs(x, all, end, fits)
    BY DEF StagedAs
  <2>2. StagedAs(tree, all, throughEnd, fits)
            \in [tree : {tree}, touched : {all}, throughEnd : {throughEnd}, fits : {fits}]
    BY DEF StagedAs
  <2>3. [StagedAs(tree, all, throughEnd, fits) EXCEPT !.tree = x, !.throughEnd = end]
            \in [tree : {x}, touched : {all}, throughEnd : {end}, fits : {fits}]
    BY <2>2
  <2>. QED
    BY <2>1, <2>3
<1>4. GraftedThroughEnd(StagedAs(tree, touched, throughEnd, fits), more, x, end) = StagedAs(x, all, end, fits)
  BY <1>1, <1>2 DEF GraftedThroughEnd
<1>. QED
  BY <1>4 DEF all

\* An operation in the tree is that operation in the window.
LEMMA ChangeTreeIs ==
  ASSUME NEW st, NEW v, NEW touched, NEW throughEnd, NEW fits,
         IsStagedAs(st, v, touched, throughEnd, fits),
         NEW op \in Operations, FitsWindow(v, op)
  PROVE  IsStagedAs(ChangeTree(st, op), Edit(v, op), touched \union TouchedBy(v, op),
                    Ends(throughEnd, op), fits)
<1>0. PICK tree : Holds(tree, v) /\ st = StagedAs(tree, touched, throughEnd, fits)
  BY DEF IsStagedAs
<1>1. IsWindow(v) /\ st.tree = tree
  BY <1>0 DEF Holds, StagedAs
<1>. DEFINE t(x) == StagedAs(x, touched \union TouchedBy(v, op), Ends(throughEnd, op), fits)
<1>2. ASSUME NEW x, Holds(x, Edit(v, op)), ChangeTree(st, op) = t(x)
      PROVE  IsStagedAs(ChangeTree(st, op), Edit(v, op), touched \union TouchedBy(v, op),
                        Ends(throughEnd, op), fits)
  BY <1>2 DEF IsStagedAs
<1>3. CASE op.type = "insert"
  <2>. DEFINE x == Tree!Inserted(tree, op.index - 1, op.key, op.row)
  <2>1. ChangeTree(st, op) = GraftedThroughEnd(st, {op.index}, x, TRUE)
    BY <1>1, <1>3 DEF ChangeTree, GraftedThroughEnd
  <2>2. TouchedBy(v, op) = {op.index} /\ Ends(throughEnd, op) = TRUE
    BY <1>3 DEF TouchedBy, Ends, Shifts
  <2>3. /\ op.key \in Keys /\ op.row \in Rows
        /\ op.index \in 1..(Len(v) + 1) /\ op.key \notin KeySet(v)
    BY <1>3, OperationIs DEF FitsWindow
  <2>4. Edit(v, op) = InsertAt(v, op.index, [key |-> op.key, row |-> op.row])
    BY <1>3 DEF Edit
  <2>5. Holds(x, Edit(v, op))
    BY <1>0, <2>3, <2>4, InsertedHolds
  <2>. HIDE DEF x
  <2>6. ASSUME NEW end
        PROVE  GraftedThroughEnd(st, {op.index}, x, end)
                   = StagedAs(x, touched \union {op.index}, end, fits)
    BY <1>0, GraftedThroughEndIs
  <2>7. ChangeTree(st, op) = t(x)
    BY <2>1, <2>2, <2>6
  <2>. QED
    BY <1>2, <2>5, <2>7
<1>4. CASE op.type = "update"
  <2>. DEFINE x == Tree!Replaced(tree, op.key, op.row)
  <2>1. ChangeTree(st, op) = Grafted(st, {op.index}, x)
    BY <1>1, <1>4 DEF ChangeTree, Grafted
  <2>2. TouchedBy(v, op) = {op.index} /\ Ends(throughEnd, op) = throughEnd
    BY <1>4 DEF TouchedBy, Ends, Shifts
  <2>3. op.row \in Rows /\ op.index \in 1..Len(v) /\ v[op.index].key = op.key
    BY <1>4, OperationIs DEF FitsWindow
  <2>4. Edit(v, op) = [v EXCEPT ![op.index].row = op.row]
    BY <1>4 DEF Edit
  <2>5. Holds(Tree!Replaced(tree, v[op.index].key, op.row), [v EXCEPT ![op.index].row = op.row])
    BY <1>0, <2>3, ReplacedHolds
  <2>8. Holds(x, Edit(v, op))
    BY <2>3, <2>4, <2>5
  <2>. HIDE DEF x
  <2>6. Grafted(st, {op.index}, x)
            = StagedAs(x, touched \union {op.index}, throughEnd, fits)
    BY <1>0, GraftedIs
  <2>7. ChangeTree(st, op) = t(x)
    BY <2>1, <2>2, <2>6
  <2>. QED
    BY <1>2, <2>7, <2>8
<1>5. CASE op.type = "move"
  <2>. DEFINE x == Tree!MovedTo(tree, op.fromIndex - 1, op.toIndex - 1)
  <2>1. ChangeTree(st, op) = Grafted(st, {op.fromIndex, op.toIndex}, x)
    BY <1>1, <1>5 DEF ChangeTree, Grafted
  <2>2. TouchedBy(v, op) = {op.fromIndex, op.toIndex} /\ Ends(throughEnd, op) = throughEnd
    BY <1>5 DEF TouchedBy, Ends, Shifts
  <2>3. op.fromIndex \in 1..Len(v) /\ op.toIndex \in 1..Len(v)
    BY <1>5 DEF FitsWindow
  <2>4. Edit(v, op) = Moved(v, op.fromIndex, op.toIndex)
    BY <1>5 DEF Edit
  <2>5. Holds(x, Edit(v, op))
    BY <1>0, <2>3, <2>4, MovedHolds
  <2>. HIDE DEF x
  <2>6. Grafted(st, {op.fromIndex, op.toIndex}, x)
            = StagedAs(x, touched \union {op.fromIndex, op.toIndex}, throughEnd, fits)
    BY <1>0, GraftedIs
  <2>7. ChangeTree(st, op) = t(x)
    BY <2>1, <2>2, <2>6
  <2>. QED
    BY <1>2, <2>5, <2>7
<1>6. CASE op.type = "remove"
  <2>. DEFINE x == Tree!Without(tree, op.key)
              i == PositionOf(v, op.key)
              p == Tree!NodeIndex(tree.nodes, op.key) + 1
  <2>1. ChangeTree(st, op) = GraftedThroughEnd(st, {p}, x, TRUE)
    BY <1>1, <1>6 DEF ChangeTree, GraftedThroughEnd
  <2>2. TouchedBy(v, op) = {i} /\ Ends(throughEnd, op) = TRUE
    BY <1>6 DEF TouchedBy, Ends, Shifts
  <2>3. i \in 1..Len(v) /\ v[i].key = op.key
    BY <1>1, <1>6, PositionIs DEF FitsWindow
  <2>4. Edit(v, op) = RemoveAt(v, i)
    BY <1>6 DEF Edit
  <2>. HIDE DEF i
  <2>5. Holds(x, Edit(v, op))
    BY <1>0, <2>3, <2>4, RemovedHolds
  <2>6. p = i
    <3>1. Tree!NodeIndex(tree.nodes, op.key) = i - 1
      BY <1>0, <2>3, IndexInTree
    <3>. QED
      BY <2>3, <3>1
  <2>. HIDE DEF x, p
  <2>8. ASSUME NEW end
        PROVE  GraftedThroughEnd(st, {p}, x, end)
                   = StagedAs(x, touched \union {p}, end, fits)
    BY <1>0, GraftedThroughEndIs
  <2>9. ChangeTree(st, op) = t(x)
    BY <2>1, <2>2, <2>6, <2>8
  <2>. QED
    BY <1>2, <2>5, <2>9
<1>. QED
  BY <1>3, <1>4, <1>5, <1>6, OperationIs

\* The staged batch and the one in place are at the same point.
Alike(st, a) ==
    \E v, undo, touched, throughEnd, fits :
        /\ a = Batch(v, undo, touched, throughEnd, fits) /\ fits \in BOOLEAN
        /\ IsStagedAs(st, v, touched, throughEnd, fits)

\* They stay so with each operation, whether it fits or not.
LEMMA StepTreeIs ==
  ASSUME NEW st, NEW a, Alike(st, a), NEW op \in Operations
  PROVE  Alike(StepTree(st, op), Step(a, op))
<1>0. PICK v, undo, touched, throughEnd, fits :
        /\ a = Batch(v, undo, touched, throughEnd, fits) /\ fits \in BOOLEAN
        /\ IsStagedAs(st, v, touched, throughEnd, fits)
  BY DEF Alike
<1>1. PICK tree : Holds(tree, v) /\ st = StagedAs(tree, touched, throughEnd, fits)
  BY <1>0 DEF IsStagedAs
<1>2. IsWindow(v) /\ st.tree = tree /\ st.fits = fits
  BY <1>1 DEF Holds, StagedAs
<1>3. FitsTree(st.tree, op) <=> FitsWindow(v, op)
  BY <1>1, <1>2, FitsTreeIs
<1>4. Step(a, op) = IF fits /\ FitsWindow(v, op)
                    THEN Batch(Edit(v, op), Append(undo, UndoOf(v, op)),
                               touched \union TouchedBy(v, op), Ends(throughEnd, op), fits)
                    ELSE Batch(v, undo, touched, throughEnd, FALSE)
  BY <1>0, <1>2, StepIs
<1>5. CASE fits /\ FitsWindow(v, op)
  <2>1. StepTree(st, op) = ChangeTree(st, op)
    BY <1>2, <1>3, <1>5 DEF StepTree
  <2>2. IsStagedAs(ChangeTree(st, op), Edit(v, op), touched \union TouchedBy(v, op),
                   Ends(throughEnd, op), fits)
    BY <1>0, <1>5, ChangeTreeIs
  <2>3. Step(a, op) = Batch(Edit(v, op), Append(undo, UndoOf(v, op)),
                            touched \union TouchedBy(v, op), Ends(throughEnd, op), fits)
    BY <1>4, <1>5
  <2>. QED
    BY <1>0, <2>1, <2>2, <2>3 DEF Alike
<1>6. CASE ~(fits /\ FitsWindow(v, op))
  <2>1. StepTree(st, op) = [st EXCEPT !.fits = FALSE]
    BY <1>2, <1>3, <1>6 DEF StepTree
  <2>2. ASSUME NEW x
        PROVE  [st EXCEPT !.fits = x] = StagedAs(tree, touched, throughEnd, x)
    BY <1>1 DEF StagedAs
  <2>3. [st EXCEPT !.fits = FALSE] = StagedAs(tree, touched, throughEnd, FALSE)
    BY <2>2
  <2>4. IsStagedAs(StepTree(st, op), v, touched, throughEnd, FALSE)
    BY <1>1, <2>1, <2>3 DEF IsStagedAs
  <2>5. Step(a, op) = Batch(v, undo, touched, throughEnd, FALSE)
    BY <1>4, <1>6
  <2>. QED
    BY <2>4, <2>5 DEF Alike
<1>. QED
  BY <1>5, <1>6

\* What Staged has computed after each operation.
Beginning(w) == [tree |-> TreeOf(w), touched |-> {}, throughEnd |-> FALSE, fits |-> TRUE]

\* A function that is what Staged computes.
IsStaging(staged, w, operations) ==
    /\ staged[0] = Beginning(w)
    /\ \A i \in 1..Len(operations) : staged[i] = StepTree(staged[i - 1], operations[i])

\* The last step: the rows, and their index.
Finish(st) == Replacement(st, Tree!Materialized(st.tree.nodes, st.tree.root))

\* Staged finishes the last of them.
LEMMA StagedIsLast ==
  ASSUME NEW w, NEW operations \in Seq(Operations)
  PROVE  \E staged : /\ IsStaging(staged, w, operations)
                     /\ Staged(w, operations) = Finish(staged[Len(operations)])
<1>. DEFINE n == Len(operations)
            base == Beginning(w)
            Then(x, i) == StepTree(x, operations[i])
            Rec(f, k) == [i \in 0..k |-> IF i = 0 THEN base ELSE Then(f[i - 1], i)]
            P == {k \in 0..n : \E f : f = Rec(f, k)}
<1>0. n \in Nat
  BY LenProperties
<1>8. ASSUME NEW f, NEW k \in Nat, f = Rec(f, k)
      PROVE  f[0] = base /\ \A i \in 1..k : f[i] = Then(f[i - 1], i)
  <2>. HIDE DEF Then, base
  <2>. QED
    BY <1>8
<1>1. 0 \in P
  <2>. DEFINE f == [i \in 0..0 |-> base]
  <2>. HIDE DEF base, Then
  <2>1. f = Rec(f, 0)
    OBVIOUS
  <2>. HIDE DEF Rec, f
  <2>. QED
    BY <1>0, <2>1
<1>2. ASSUME NEW k \in 1..n, k - 1 \in P
      PROVE  k \in P
  <2>1. PICK f : f = Rec(f, k - 1)
    BY <1>2
  <2>. DEFINE h == [i \in 0..k |-> IF i = k THEN Then(f[k - 1], k) ELSE f[i]]
  <2>2. f[0] = base /\ \A i \in 1..(k - 1) : f[i] = Then(f[i - 1], i)
    <3>1. k - 1 \in Nat
      BY <1>0
    <3>. HIDE DEF Rec
    <3>. QED
      BY <1>8, <2>1, <3>1
  <2>. HIDE DEF Then, base
  <2>3. \A i \in 0..k : h[i] = IF i = 0 THEN base ELSE Then(h[i - 1], i)
    BY <1>0, <2>2
  <2>4. h = Rec(h, k)
    <3>1. h = [i \in 0..k |-> h[i]]
      OBVIOUS
    <3>. HIDE DEF h
    <3>. QED
      BY <2>3, <3>1
  <2>. HIDE DEF Rec, h
  <2>. QED
    BY <1>0, <2>4
<1>3. n \in P
  <2>. HIDE DEF P, n
  <2>1. \A i \in 0..n : i \in P
    BY <1>0, <1>1, <1>2, Induction
  <2>. QED
    BY <1>0, <2>1
<1>. DEFINE staged == CHOOSE f : f = Rec(f, n)
<1>4. staged = Rec(staged, n)
  <2>. HIDE DEF Rec, n
  <2>. QED
    BY <1>3
<1>5. Staged(w, operations) = Finish(staged[n])
  BY DEF Staged, Finish, Beginning, n
<1>. HIDE DEF staged
<1>6. staged[0] = base /\ \A i \in 1..n : staged[i] = Then(staged[i - 1], i)
  <2>. HIDE DEF Rec, n, Then, base
  <2>. QED
    BY <1>0, <1>4, <1>8
<1>. QED
  BY <1>5, <1>6 DEF IsStaging, n, base, Then

\* The rows of a tree that holds a window are that window.
LEMMA MaterializedHolds ==
  ASSUME NEW tree, NEW w, Holds(tree, w)
  PROVE  Tree!Materialized(tree.nodes, tree.root) = w
<1>. DEFINE rows == Tree!Materialized(tree.nodes, tree.root)
            n == Len(w)
<1>0. /\ tree.nodes \in Nodes /\ TreeOn(tree.nodes, KeySeq(w), 1, n, tree.root)
      /\ n \in Nat /\ Ranked(tree.nodes, n) /\ IsWindow(w) /\ w \in Seq(Entry)
  BY HoldsIs, WindowIs DEF Holds
<1>1. IsRowsOf(rows, tree.nodes, KeySeq(w), 1, n)
  BY <1>0, MaterializedIs
<1>. HIDE DEF rows
<1>2. /\ rows \in Seq(Entry) /\ Len(rows) = n - 1 + 1
      /\ \A j \in 1..(n - 1 + 1) : rows[j] = EntryOf(tree.nodes, KeySeq(w)[1 + j - 1])
  BY <1>1 DEF IsRowsOf
<1>3. Len(rows) = n
  BY <1>0, <1>2
<1>4. ASSUME NEW j \in 1..n
      PROVE  rows[j] = w[j]
  <2>1. j \in 1..(n - 1 + 1) /\ 1 + j - 1 = j
    BY <1>0
  <2>2. rows[j] = EntryOf(tree.nodes, KeySeq(w)[j])
    BY <1>2, <2>1
  <2>3. KeySeq(w)[j] = w[j].key
    BY <1>0, KeysAt
  <2>4. tree.nodes[w[j].key].row = w[j].row
    BY HeldRow
  <2>5. w[j] = [key |-> w[j].key, row |-> w[j].row]
    BY <1>0, WindowIs
  <2>. QED
    BY <2>2, <2>3, <2>4, <2>5 DEF EntryOf
<1>5. rows = w
  BY <1>0, <1>2, <1>3, <1>4, SeqEqual
<1>. QED
  BY <1>5 DEF rows

\* Staged, a batch does what it does in place: the same window, index and range, and
\* the same refusal.
IsStagedOf(r, a) ==
    /\ r.window = a.window /\ r.indexes = a.indexes
    /\ r.touched = a.touched /\ r.throughEnd = a.throughEnd /\ r.fits = a.fits

\* It has the window that the batch in place has, and its index.
LEMMA FinishIs ==
  ASSUME NEW st, NEW a, Alike(st, a)
  PROVE  IsStagedOf(Finish(st), a)
<1>0. PICK v, undo, touched, throughEnd, fits :
        /\ a = Batch(v, undo, touched, throughEnd, fits)
        /\ IsStagedAs(st, v, touched, throughEnd, fits)
  BY DEF Alike
<1>1. PICK tree : Holds(tree, v) /\ st = StagedAs(tree, touched, throughEnd, fits)
  BY <1>0 DEF IsStagedAs
<1>2. Tree!Materialized(tree.nodes, tree.root) = v /\ IsWindow(v)
  BY <1>1, MaterializedHolds DEF Holds
<1>3. st.tree = tree /\ st.touched = touched /\ st.throughEnd = throughEnd /\ st.fits = fits
  BY <1>1 DEF StagedAs
<1>4. Reindexed(NoIndexes, v, 1) = IndexesOf(v)
  BY <1>2, IndexedFromNothing
<1>5. Finish(st) = [window |-> v, indexes |-> IndexesOf(v), touched |-> touched,
                    throughEnd |-> throughEnd, fits |-> fits]
  BY <1>2, <1>3, <1>4 DEF Finish, Replacement
<1>. QED
  BY <1>0, <1>5 DEF IsStagedOf, Batch

\* A batch staged in the tree has the outcome of the batch applied in place: the same
\* window and index, the same range, and it is refused in the same cases
\* (stageStructuralBatch against the loop of makeIncrementalClientState).
THEOREM StagedIs ==
  ASSUME NEW w, IsWindow(w), NEW operations \in Seq(Operations)
  PROVE  IsStagedOf(Staged(w, operations), Applied(w, IndexesOf(w), operations))
<1>. DEFINE n == Len(operations)
<1>0. n \in Nat /\ \A i \in 1..n : operations[i] \in Operations
  BY LenProperties, ElementOfSeq
<1>1. PICK staged : /\ IsStaging(staged, w, operations)
                    /\ Staged(w, operations) = Finish(staged[n])
  BY StagedIsLast
<1>2. PICK apply : IsRun(apply, w, operations) /\ Applied(w, IndexesOf(w), operations) = apply[n]
  BY AppliedIsLast
<1>3. /\ staged[0] = Beginning(w)
      /\ \A i \in 1..n : staged[i] = StepTree(staged[i - 1], operations[i])
  BY <1>1 DEF IsStaging
<1>4. /\ apply[0] = Opening(w, IndexesOf(w))
      /\ \A i \in 1..n : apply[i] = Step(apply[i - 1], operations[i])
  BY <1>2 DEF IsRun
<1>. DEFINE P == {i \in 0..n : Alike(staged[i], apply[i])}
<1>. HIDE DEF n
<1>5. 0 \in P
  <2>1. Beginning(w) = StagedAs(TreeOf(w), {}, FALSE, TRUE)
    BY DEF Beginning, StagedAs
  <2>2. Holds(TreeOf(w), w)
    BY TreeOfHolds
  <2>3. IsStagedAs(Beginning(w), w, {}, FALSE, TRUE)
    BY <2>1, <2>2 DEF IsStagedAs
  <2>4. Opening(w, IndexesOf(w)) = Batch(w, <<>>, {}, FALSE, TRUE)
    BY OpeningIs
  <2>5. Alike(Beginning(w), Opening(w, IndexesOf(w)))
    BY <2>3, <2>4 DEF Alike
  <2>. QED
    BY <1>0, <1>3, <1>4, <2>5
<1>6. ASSUME NEW i \in 1..n, i - 1 \in P
      PROVE  i \in P
  <2>1. Alike(StepTree(staged[i - 1], operations[i]), Step(apply[i - 1], operations[i]))
    BY <1>0, <1>6, StepTreeIs
  <2>. QED
    BY <1>0, <1>3, <1>4, <2>1
<1>7. n \in P
  <2>. HIDE DEF P
  <2>1. \A i \in 0..n : i \in P
    BY <1>0, <1>5, <1>6, Induction
  <2>. QED
    BY <1>0, <2>1
<1>. QED
  BY <1>1, <1>2, <1>7, FinishIs

=============================================================================
