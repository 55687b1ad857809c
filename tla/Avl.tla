-------------------------------- MODULE Avl ---------------------------------
(***************************************************************************)
(* The balanced trees of katcp/avltree.c, in which sensors, regions and    *)
(* database entries are looked up by name.  Nodes know their parents, and  *)
(* carry a balance (height on the right less height on the left) that is   *)
(* updated, never computed.                                                *)
(*                                                                         *)
(* A name is an integer, and also the address of its node.  Code that is   *)
(* written out twice, for left and for right, is written once here, with   *)
(* the side as a parameter.                                                *)
(***************************************************************************)
EXTENDS Integers, Sequences

CONSTANTS
    Names,  \* names that may be in the tree
    Nil     \* no node

ASSUME AvlAssumption == Names \subseteq Int /\ Nil \notin Names

VARIABLES
    node,   \* the nodes allocated
    root    \* t_root

avars == <<node, root>>

AvlInit == node = [n \in Names |-> Nil] /\ root = Nil

Present == {n \in Names : node[n] # Nil}

\* The other side, and the direction in which a side weighs.
Opposite(side) == IF side = "left" THEN "right" ELSE "left"
Weight(side) == IF side = "left" THEN -1 ELSE 1

\* The side on which a node hangs on its parent.
SideOf(t, n) == IF t[t[n].parent].left = n THEN "left" ELSE "right"

\* Whatever a is to its parent becomes b, which may be no node.
Replaced(t, a, b) ==
    LET u == IF t[a].parent = Nil THEN t ELSE [t EXCEPT ![t[a].parent][SideOf(t, a)] = b]
    IN  IF b = Nil THEN u ELSE [u EXCEPT ![b].parent = t[a].parent]

Hung(t, a, side, b) ==
    LET u == [t EXCEPT ![a][side] = b]
    IN  IF b = Nil THEN u ELSE [u EXCEPT ![b].parent = a]

-----------------------------------------------------------------------------
(* Rotations, after which another node is at the top.                      *)

\* Mutant: as after an insertion, where the child is never level.
RotatedOnceLeaning(t, a, side) ==
    LET b == t[a][side]
        u == Hung(Replaced(t, a, b), a, side, t[b][Opposite(side)])
    IN  [Hung(u, b, Opposite(side), a) EXCEPT ![a].balance = 0, ![b].balance = 0]

\* rotate_rightright_avltree, rotate_leftleft_avltree
RotatedOnce(t, a, side) ==
    LET b == t[a][side]
        u == Hung(Replaced(t, a, b), a, side, t[b][Opposite(side)])
        level == t[b].balance = 0
    IN  [Hung(u, b, Opposite(side), a) EXCEPT
            ![a].balance = IF level THEN Weight(side) ELSE 0,
            ![b].balance = IF level THEN -Weight(side) ELSE 0]

\* rotate_leftright_avltree, rotate_rightleft_avltree
RotatedTwice(t, a, side) ==
    LET b == t[a][side]
        c == t[b][Opposite(side)]
        u == Hung(Replaced(t, a, c), a, side, t[c][Opposite(side)])
        v == Hung(u, b, Opposite(side), t[c][side])
        w == Hung(Hung(v, c, Opposite(side), a), c, side, b)
    IN  [w EXCEPT ![a].balance = IF t[c].balance = Weight(side) THEN -Weight(side) ELSE 0,
                  ![b].balance = IF t[c].balance = -Weight(side) THEN Weight(side) ELSE 0,
                  ![c].balance = 0]

Heavy(t, n) == IF t[n].balance = -2 THEN "left" ELSE "right"

Rebalanced(t, n) ==
    LET side == Heavy(t, n)
    IN  IF t[t[n][side]].balance = -Weight(side) THEN RotatedTwice(t, n, side) ELSE RotatedOnce(t, n, side)

Leans(t, n) == t[n].balance \notin -1 .. 1

\* The top, going up from a node.
RECURSIVE Top(_, _)
Top(t, n) == IF n = Nil \/ t[n].parent = Nil THEN n ELSE Top(t, t[n].parent)

-----------------------------------------------------------------------------
(* Insertion.                                                              *)

\* The node a name hangs under, if it is not in the tree.
RECURSIVE Place(_, _, _)
Place(t, n, c) ==
    LET side == IF n < c THEN "left" ELSE "right"
    IN  IF t[c][side] = Nil THEN <<c, side>> ELSE Place(t, n, t[c][side])

\* The tree below c has grown: its parents learn of it until one is level
\* or has to be rebalanced.
RECURSIVE Taller(_, _)
Taller(t, c) ==
    IF t[c].parent = Nil THEN t
    ELSE LET p == t[c].parent
             u == [t EXCEPT ![p].balance = @ + Weight(SideOf(t, c))]
         IN  IF u[p].balance = 0 THEN u
             ELSE IF Leans(u, p) THEN Rebalanced(u, p)
             ELSE Taller(u, p)

Leaf == [parent |-> Nil, left |-> Nil, right |-> Nil, balance |-> 0]

\* add_node_avltree, store_exposed_node_avltree: a name that is in the tree
\* already is refused, and the node freed.
AddNode(n) ==
    /\ node[n] = Nil
    /\ LET t == [node EXCEPT ![n] = Leaf]
           at == Place(node, n, root)
           u == IF root = Nil THEN t ELSE Taller(Hung(t, at[1], at[2], n), n)
       IN  node' = u /\ root' = Top(u, n)

-----------------------------------------------------------------------------
(* Deletion.                                                               *)

\* The tree below c has become lower, or c leans and has to be rebalanced
\* first.  A rotation about a child that is level does not change the height.
RECURSIVE Lower(_, _)
Lower(t, c) ==
    IF Leans(t, c)
    THEN LET u == Rebalanced(t, c)
         IN  IF t[t[c][Heavy(t, c)]].balance = 0 THEN u ELSE Lower(u, u[c].parent)
    ELSE IF t[c].parent = Nil THEN t
    ELSE LET p == t[c].parent
             u == [t EXCEPT ![p].balance = @ - Weight(SideOf(t, c))]
         IN  IF t[p].balance = 0 THEN u ELSE Lower(u, p)

RECURSIVE Leftmost(_, _)
Leftmost(t, n) == IF t[n].left = Nil THEN n ELSE Leftmost(t, t[n].left)

\* Without a right child, the left one takes the place of the node.
DelWithoutRight(n) ==
    LET p == node[n].parent
        t == Replaced(node, n, node[n].left)
        u == [t EXCEPT ![p].balance = @ - Weight(SideOf(node, n))]
        v == IF p = Nil THEN t ELSE IF node[p].balance = 0 THEN u ELSE Lower(u, p)
    IN  /\ node[n].right = Nil
        /\ node' = [v EXCEPT ![n] = Nil]
        /\ root' = Top(v, IF p = Nil THEN node[n].left ELSE p)

\* A right child without a left one takes it.
DelWithRight(n) ==
    LET c == node[n].right
        t == Hung(Replaced(node, n, c), c, "left", node[n].left)
        u == [t EXCEPT ![c].balance = node[n].balance - 1]
        v == IF node[n].balance = 0 /\ node[n].parent # Nil THEN u ELSE Lower(u, c)
    IN  /\ c # Nil /\ node[c].left = Nil
        /\ node' = [v EXCEPT ![n] = Nil]
        /\ root' = Top(v, c)

\* Mutant: what hangs on the right of the successor is lost.
DelWithSuccessorBare(n) ==
    LET s == Leftmost(node, node[n].right)
        c == node[s].parent
        t == Hung(Replaced(node, n, s), s, "left", node[n].left)
        u == Hung(Hung(t, c, "left", Nil), s, "right", node[n].right)
        v == [u EXCEPT ![s].balance = node[n].balance, ![c].balance = @ + 1]
        w == IF node[c].balance = 0 THEN v ELSE Lower(v, c)
    IN  /\ node[n].right # Nil /\ s # node[n].right
        /\ node' = [w EXCEPT ![n] = Nil]
        /\ root' = Top(w, c)

\* Otherwise the next name does, the leftmost one on the right.
DelWithSuccessor(n) ==
    LET s == Leftmost(node, node[n].right)
        c == node[s].parent
        t == Hung(Replaced(node, n, s), s, "left", node[n].left)
        u == Hung(Hung(t, c, "left", node[s].right), s, "right", node[n].right)
        v == [u EXCEPT ![s].balance = node[n].balance, ![c].balance = @ + 1]
        w == IF node[c].balance = 0 THEN v ELSE Lower(v, c)
    IN  /\ node[n].right # Nil /\ s # node[n].right
        /\ node' = [w EXCEPT ![n] = Nil]
        /\ root' = Top(w, c)

\* del_node_complex_avltree
DelNode(n) ==
    /\ node[n] # Nil
    /\ DelWithoutRight(n) \/ DelWithRight(n) \/ DelWithSuccessor(n)

AvlNext == \E n \in Names : AddNode(n) \/ DelNode(n)

AvlSpec == AvlInit /\ [][AvlNext]_avars

-----------------------------------------------------------------------------
(* Looking things up.                                                      *)

\* find_name_node_avltree
RECURSIVE FindFrom(_, _)
FindFrom(c, n) ==
    IF c = Nil \/ c = n THEN c
    ELSE FindFrom(IF n < c THEN node[c].left ELSE node[c].right, n)

\* complex_inorder_traverse_avltree, with its stack of nodes still to visit.
RECURSIVE LeftSpine(_)
LeftSpine(c) == IF c = Nil THEN << >> ELSE Append(LeftSpine(node[c].left), c)

Pushed(stack) == LeftSpine(node[Head(stack)].right) \o Tail(stack)

RECURSIVE Traverse(_)
Traverse(stack) ==
    IF stack = << >> THEN << >>
    ELSE <<Head(stack)>> \o Traverse(Pushed(stack))

-----------------------------------------------------------------------------
(* Properties.                                                             *)

RECURSIVE Height(_)
Height(c) ==
    IF c = Nil THEN 0
    ELSE LET l == Height(node[c].left)
             r == Height(node[c].right)
         IN  1 + (IF l > r THEN l ELSE r)

\* The balances, which are only ever adjusted, are those of the tree, and
\* the tree stays balanced, whatever is added and removed in which order.
Balanced ==
    \A n \in Present :
        /\ node[n].balance = Height(node[n].right) - Height(node[n].left)
        /\ node[n].balance \in -1 .. 1

ParentsExact ==
    /\ root # Nil => root \in Present /\ node[root].parent = Nil
    /\ \A n \in Present \ {root} : node[n].parent \in Present /\ n \in {node[node[n].parent].left, node[node[n].parent].right}
    /\ \A n \in Present : \A c \in {node[n].left, node[n].right} \ {Nil} : c \in Present /\ node[c].parent = n

VisitsInOrder ==
    LET visited == Traverse(LeftSpine(root))
    IN  /\ {visited[i] : i \in 1 .. Len(visited)} = Present
        /\ \A i \in 1 .. Len(visited) - 1 : visited[i] < visited[i + 1]

\* However the tree has been rotated, nodes and their parents agree; what is in
\* the tree is found, and what has been removed is not; and a traversal visits
\* every name once, in order.
FindsExact ==
    /\ ParentsExact
    /\ \A n \in Names : FindFrom(root, n) = IF n \in Present THEN n ELSE Nil
    /\ VisitsInOrder

\* The tree is one to search in.
SearchTree == Balanced /\ FindsExact

=============================================================================
