---------------------------- MODULE SplayTree ----------------------------
(* The splay tree of picosplay.c, in which contexts wait for their wake    *)
(* time, and ranges of packets, streams and data are kept.  A node is a     *)
(* number, 0 stands for NULL; key is what the owner of the node compares.   *)
EXTENDS Integers, Sequences, SequencesExt

CONSTANTS
  Nodes,     (* positive numbers                                            *)
  Keys,      (* of 0..(2^Width - 1)                                         *)
  Width      (* bits of a key                                               *)

VARIABLES tree, key

treeVars == <<tree, key>>

Empty == [root |-> 0, node |-> [n \in Nodes |-> [left |-> 0, right |-> 0, parent |-> 0]]]

(* A comparison: the difference of two unsigned numbers, taken as signed.   *)
Compare(l, r) ==
  LET difference == (l - r) % 2^Width
  IN IF difference < 2^(Width - 1) THEN difference ELSE difference - 2^Width

Other(side) == IF side = "left" THEN "right" ELSE "left"
Side(t, p, x) == IF t.node[p].left = x THEN "left" ELSE "right"

(* x takes the place of its parent p below its grandparent g.               *)
Raised(t, x, p, g, side, inner) ==
  [t EXCEPT !.node =
     [n \in Nodes |->
        IF n = x THEN [@[n] EXCEPT !.parent = g, ![Other(side)] = p]
        ELSE IF n = p THEN [@[n] EXCEPT !.parent = x, ![side] = inner]
        ELSE IF n = g THEN [@[n] EXCEPT ![Side(t, g, p)] = x]
        ELSE IF n = inner THEN [@[n] EXCEPT !.parent = p]
        ELSE @[n]]]

(* rotate, mark_gp.                                                         *)
RotateAt(t, x, p, side) == Raised(t, x, p, t.node[p].parent, side, t.node[x][Other(side)])
Rotate(t, x) == RotateAt(t, x, t.node[x].parent, Side(t, t.node[x].parent, x))

(* zig, zigzig, zigzag.                                                     *)
Zig(t, x, p, g) ==
  IF g = 0 THEN Rotate(t, x)
  ELSE Rotate(Rotate(t, IF Side(t, p, x) = Side(t, g, p) THEN p ELSE x), x)

(* splay: until x is the root.                                              *)
RECURSIVE Splay(_, _)
Splay(t, x) ==
  LET p == t.node[x].parent
  IN IF p = 0 THEN [t EXCEPT !.root = x] ELSE Splay(Zig(t, x, p, t.node[p].parent), x)

RECURSIVE Most(_, _, _)
Most(t, n, side) ==     (* leftmost, rightmost                              *)
  IF n = 0 \/ t.node[n][side] = 0 THEN n ELSE Most(t, t.node[n][side], side)

Lowest(t) == Most(t, t.root, "left")
Highest(t) == Most(t, t.root, "right")

(* A mutant: equal ones come after the new node.                            *)
RECURSIVE PlaceBefore(_, _, _, _)
PlaceBefore(t, keys, k, n) ==
  LET side == IF Compare(k, keys[n]) <= 0 THEN "left" ELSE "right"
  IN IF t.node[n][side] = 0 THEN [parent |-> n, side |-> side]
     ELSE PlaceBefore(t, keys, k, t.node[n][side])

(* The node whose child a new node with key k becomes: equal ones come      *)
(* before it.                                                               *)
RECURSIVE Place(_, _, _, _)
Place(t, keys, k, n) ==
  LET side == IF Compare(k, keys[n]) < 0 THEN "left" ELSE "right"
  IN IF t.node[n][side] = 0 THEN [parent |-> n, side |-> side]
     ELSE Place(t, keys, k, t.node[n][side])

(* picosplay_insert.                                                        *)
Insert(t, keys, n) ==
  IF t.root = 0 THEN [t EXCEPT !.root = n, !.node[n] = [left |-> 0, right |-> 0, parent |-> 0]]
  ELSE LET at == Place(t, keys, keys[n], t.root)
       IN Splay([t EXCEPT !.node[n] = [left |-> 0, right |-> 0, parent |-> at.parent],
                          !.node[at.parent][at.side] = n], n)

(* A pointer to the parent of a node, when there is a node.                 *)
Below(t, n, p) == IF n = 0 THEN t ELSE [t EXCEPT !.node[n].parent = p]

(* x leaves its right subtree to its parent and gets n's.                   *)
Lifted(t, x, right, p, inner) ==
  [Below(t, inner, p) EXCEPT !.node[p].left = inner, !.node[x].right = right,
                             !.node[right].parent = x]

Joined(t, x, left) == [t EXCEPT !.node[x].left = left, !.node[left].parent = x]

Rooted(t, n, x) == [Below(t, x, 0) EXCEPT !.root = x, !.node[n] = Empty.node[n]]

(* The next node x replaces n, which is the root with two subtrees.         *)
Replaced(t, n, x, left, right) ==
  LET p == t.node[x].parent
  IN Rooted(Joined(IF p = n THEN t ELSE Lifted(t, x, right, p, t.node[x].right), x, left), n, x)

Removed(t, n, left, right) ==
  IF left = 0 THEN Rooted(t, n, right)
  ELSE IF right = 0 THEN Rooted(t, n, left)
  ELSE Replaced(t, n, Most(t, right, "left"), left, right)

RemovedRoot(t, n) == Removed(t, n, t.node[n].left, t.node[n].right)

(* picosplay_delete_hint.                                                   *)
Delete(t, n) == RemovedRoot(Splay(t, n), n)

(* picosplay_next, picosplay_previous.                                      *)
RECURSIVE Up(_, _, _)
Up(t, n, side) ==
  LET p == t.node[n].parent
  IN IF p = 0 \/ t.node[p][side] # n THEN p ELSE Up(t, p, side)

Following(t, n) == IF t.node[n].right # 0 THEN Most(t, t.node[n].right, "left") ELSE Up(t, n, "right")
Preceding(t, n) == IF t.node[n].left # 0 THEN Most(t, t.node[n].left, "right") ELSE Up(t, n, "left")

(* picosplay_find and picosplay_find_previous, before the splay of the      *)
(* first: a node with the key, or the last one on the way with a lower key. *)
RECURSIVE Search(_, _, _, _, _)
Search(t, keys, k, n, last) ==
  IF n = 0 THEN last
  ELSE LET relation == Compare(k, keys[n])
       IN IF relation = 0 THEN n
          ELSE IF relation < 0 THEN Search(t, keys, k, t.node[n].left, last)
          ELSE Search(t, keys, k, t.node[n].right, n)

FindPrevious(t, keys, k) == Search(t, keys, k, t.root, 0)
FindNode(t, keys, k) ==
  LET n == FindPrevious(t, keys, k)
  IN IF n # 0 /\ keys[n] = k THEN n ELSE 0

-----------------------------------------------------------------------------
(* The nodes in the order of the tree. *)

RECURSIVE InOrder(_, _)
InOrder(t, n) ==
  IF n = 0 THEN <<>> ELSE InOrder(t, t.node[n].left) \o <<n>> \o InOrder(t, t.node[n].right)

Members(t) == ToSet(InOrder(t, t.root))

-----------------------------------------------------------------------------
(* The life of a tree by itself: what is done with sets of ranges, of       *)
(* streams and of data.                                                     *)

TreeInit == tree = Empty /\ key = [n \in Nodes |-> 0]

AddNode(n, k) ==
  /\ n \notin Members(tree)
  /\ key' = [key EXCEPT ![n] = k]
  /\ tree' = Insert(tree, key', n)

RemoveNode(n) ==
  /\ n \in Members(tree)
  /\ tree' = Delete(tree, n)
  /\ key' = [key EXCEPT ![n] = 0]

Find(k) ==
  LET n == FindNode(tree, key, k)
  IN /\ n # 0
     /\ tree' = Splay(tree, n)
     /\ UNCHANGED key

TreeNext ==
  \/ \E n \in Nodes : RemoveNode(n) \/ \E k \in Keys : AddNode(n, k)
  \/ \E k \in Keys : Find(k)

-----------------------------------------------------------------------------
(* Properties *)

(* The tree keeps its nodes in order, each with the parent that has it as a *)
(* child, whatever rotations came before; the way from a node to the next   *)
(* and back is that order, and a search finds the node of a key, or the     *)
(* last one below.                                                          *)
TreeSound ==
  LET order == InOrder(tree, tree.root)
  IN /\ tree.root # 0 => tree.node[tree.root].parent = 0
     /\ \A n \in ToSet(order), side \in {"left", "right"} :
          tree.node[n][side] # 0 => tree.node[tree.node[n][side]].parent = n
     /\ \A i \in 1..(Len(order) - 1) :
          /\ Compare(key[order[i]], key[order[i + 1]]) <= 0
          /\ Following(tree, order[i]) = order[i + 1]
          /\ Preceding(tree, order[i + 1]) = order[i]
     /\ order # <<>> =>
          /\ Lowest(tree) = order[1] /\ Preceding(tree, order[1]) = 0
          /\ Highest(tree) = order[Len(order)] /\ Following(tree, Highest(tree)) = 0
     /\ \A k \in Keys :
          LET n == FindPrevious(tree, key, k)
          IN IF n = 0 THEN \A m \in ToSet(order) : Compare(key[m], k) > 0
             ELSE /\ Compare(key[n], k) <= 0
                  /\ \A m \in ToSet(order) :
                       Compare(key[m], k) <= 0 => Compare(key[m], key[n]) <= 0

(* No node is lost or left behind: the tree changes by the node that comes  *)
(* or goes.                                                                 *)
TreeComplete == \A n \in Nodes \ Members(tree) : tree.node[n] = Empty.node[n] /\ key[n] = 0
=============================================================================
