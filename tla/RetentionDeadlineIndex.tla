------------------------ MODULE RetentionDeadlineIndex ------------------------
(***************************************************************************)
(* The immutable height-balanced tree in which a Kafka source keeps the    *)
(* deadlines of its rows in order of time                                  *)
(* (kafka/retention-deadline-index.ts).  Identifiers are numbers here;     *)
(* the code compares them as strings.                                      *)
(***************************************************************************)
EXTENDS Integers, Sequences

Leaf == [height |-> 0, size |-> 0]

Higher(m, n) == IF m > n THEN m ELSE n

\* makeNode
Node(deadline, left, right) ==
    [deadline |-> deadline, left |-> left, right |-> right,
     height |-> Higher(left.height, right.height) + 1,
     size |-> left.size + right.size + 1]

\* compareDeadline, when it is negative
Precedes(d, e) ==
    \/ d.deadlineNanos < e.deadlineNanos
    \/ d.deadlineNanos = e.deadlineNanos /\ d.id < e.id

SamePlace(d, e) == d.deadlineNanos = e.deadlineNanos /\ d.id = e.id

RotateRight(node, left) ==
    Node(left.deadline, left.left, Node(node.deadline, left.right, node.right))

RotateLeft(node, right) ==
    Node(right.deadline, Node(node.deadline, node.left, right.left), right.right)

\* A child that leans to the inside is rotated first.
Rebalance(node) ==
    CASE node.left.height - node.right.height > 1 ->
            LET left == IF node.left.right.height > node.left.left.height
                        THEN RotateLeft(node.left, node.left.right) ELSE node.left
            IN  RotateRight(Node(node.deadline, left, node.right), left)
      [] node.right.height - node.left.height > 1 ->
            LET right == IF node.right.left.height > node.right.right.height
                         THEN RotateRight(node.right, node.right.left) ELSE node.right
            IN  RotateLeft(Node(node.deadline, node.left, right), right)
      [] OTHER -> node

\* insertDeadline: a deadline in the same place is replaced.
RECURSIVE Set(_, _)
Set(node, d) ==
    CASE node = Leaf -> Node(d, Leaf, Leaf)
      [] node # Leaf /\ SamePlace(d, node.deadline) -> Node(d, node.left, node.right)
      [] node # Leaf /\ Precedes(d, node.deadline) ->
            Rebalance(Node(node.deadline, Set(node.left, d), node.right))
      [] OTHER -> Rebalance(Node(node.deadline, node.left, Set(node.right, d)))

RECURSIVE FirstDeadline(_)
FirstDeadline(node) == IF node.left = Leaf THEN node.deadline ELSE FirstDeadline(node.left)

\* removeDeadline: a node with two children gets its successor's deadline.
RECURSIVE Removed(_, _)
Removed(node, d) ==
    CASE node = Leaf -> Leaf
      [] node # Leaf /\ SamePlace(d, node.deadline) ->
            CASE node.left = Leaf -> node.right
              [] node.left # Leaf /\ node.right = Leaf -> node.left
              [] OTHER ->
                    LET successor == FirstDeadline(node.right)
                    IN  Rebalance(Node(successor, node.left, Removed(node.right, successor)))
      [] node # Leaf /\ Precedes(d, node.deadline) ->
            Rebalance(Node(node.deadline, Removed(node.left, d), node.right))
      [] OTHER -> Rebalance(Node(node.deadline, node.left, Removed(node.right, d)))

\* orderedDeadlines
RECURSIVE Values(_)
Values(node) ==
    IF node = Leaf THEN <<>> ELSE Values(node.left) \o <<node.deadline>> \o Values(node.right)

-----------------------------------------------------------------------------
\* The heights of the two subtrees of a node differ by at most one, and every
\* node has the height and the size of what is below it.
RECURSIVE Balanced(_)
Balanced(node) ==
    \/ node = Leaf
    \/ /\ Balanced(node.left) /\ Balanced(node.right)
       /\ node = Node(node.deadline, node.left, node.right)
       /\ node.left.height - node.right.height \in -1..1

\* The index has the deadlines of a set, in order, and is balanced, so that a
\* sweep finds all that is due in a prefix of it.
IndexOf(node, deadlines) ==
    /\ Balanced(node)
    /\ {Values(node)[i] : i \in 1..node.size} = deadlines
    /\ Len(Values(node)) = node.size
    /\ \A i, j \in 1..node.size : i < j => Precedes(Values(node)[i], Values(node)[j])

=============================================================================
