------------------------------- MODULE RbTree -------------------------------
(***************************************************************************)
(* The red-black tree of core/ngx_rbtree.c: insertion and deletion with    *)
(* their rebalancing, as operators on a tree.  left and right are a side,  *)
(* so that each mirrored pair of branches is one definition.               *)
(***************************************************************************)
EXTENDS Integers

Sentinel == "sentinel"
Null == "null"

Sides == {"left", "right"}
Other(d) == IF d = "left" THEN "right" ELSE "left"

\* A tree over a set of nodes: the root, and of every node its key, children,
\* parent and colour.  The sentinel is a node too: deletion sets its parent.
EmptyNode == [key |-> 0, kid |-> [d \in Sides |-> Sentinel], up |-> Null, red |-> FALSE]
EmptyTree(nodes) == [root |-> Sentinel, node |-> [x \in nodes \cup {Sentinel} |-> EmptyNode]]

Kid(t, x, d) == t.node[x].kid[d]
Up(t, x) == t.node[x].up
Red(t, x) == t.node[x].red
SetKid(t, x, d, y) == [t EXCEPT !.node[x].kid[d] = y]
SetUp(t, x, y) == [t EXCEPT !.node[x].up = y]
Paint(t, x, red) == [t EXCEPT !.node[x].red = red]

\* Which child of its parent x is.
SideOf(t, x) == IF x = Kid(t, Up(t, x), "left") THEN "left" ELSE "right"

\* The place of x, at the root or under its parent, goes to y.
Replace(t, x, y) == IF x = t.root THEN [t EXCEPT !.root = y]
                    ELSE SetKid(t, Up(t, x), SideOf(t, x), y)

Rotate(t, x, d) ==
    LET y  == Kid(t, x, Other(d))
        b  == Kid(t, y, d)
        t1 == SetKid(t, x, Other(d), b)
        t2 == SetUp(IF b # Sentinel THEN SetUp(t1, b, x) ELSE t1, y, Up(t, x))
    IN  SetUp(SetKid(Replace(t2, x, y), y, d, x), x, y)

\* ngx_rbtree_min.
RECURSIVE MinNode(_, _)
MinNode(t, x) == IF Kid(t, x, "left") = Sentinel THEN x ELSE MinNode(t, Kid(t, x, "left"))

\* The loop of ngx_rbtree_insert that repairs a red node under a red parent.
InsertFixNoTurn(t, x) ==
    LET p == Up(t, x)
    IN  IF x = t.root \/ ~Red(t, p) THEN Paint(t, t.root, FALSE)
        ELSE Paint(Rotate(Paint(Paint(t, p, FALSE), Up(t, p), TRUE), Up(t, p), Other(SideOf(t, p))),
                   t.root, FALSE)
RECURSIVE InsertFix(_, _)
InsertFix(t, x) ==
    LET p == Up(t, x)
        g == Up(t, p)
        d == SideOf(t, p)
        u == Kid(t, g, Other(d))
        inner == x = Kid(t, p, Other(d))
        y  == IF inner THEN p ELSE x
        t1 == IF inner THEN Rotate(t, p, d) ELSE t
        q  == Up(t1, y)
        t2 == Paint(Paint(t1, q, FALSE), Up(t1, q), TRUE)
    IN  IF x = t.root \/ ~Red(t, p) THEN Paint(t, t.root, FALSE)
        ELSE IF Red(t, u)
        THEN InsertFix(Paint(Paint(Paint(t, p, FALSE), u, FALSE), g, TRUE), g)
        ELSE InsertFix(Rotate(t2, Up(t2, q), Other(d)), y)

\* ngx_rbtree_insert with an insert handler that descends to the left of the nodes of
\* later and to the right of the others.
Insert(t, x, key, later) ==
    LET RECURSIVE Descend(_)
        Descend(y) == LET d == IF y \in later THEN "left" ELSE "right"
                      IN  IF Kid(t, y, d) = Sentinel THEN <<y, d>> ELSE Descend(Kid(t, y, d))
        at == Descend(t.root)
        leaf == [EmptyNode EXCEPT !.key = key, !.up = at[1], !.red = TRUE]
    IN  IF t.root = Sentinel
        THEN [t EXCEPT !.root = x, !.node[x] = [EmptyNode EXCEPT !.key = key]]
        ELSE InsertFix(SetKid([t EXCEPT !.node[x] = leaf], at[1], at[2], x), x)

\* The loop of ngx_rbtree_delete that makes up for a black node missing above x.
RECURSIVE DeleteFix(_, _)
DeleteFix(t, x) ==
    LET p  == Up(t, x)
        d  == SideOf(t, x)
        w0 == Kid(t, p, Other(d))
        t1 == IF Red(t, w0) THEN Rotate(Paint(Paint(t, w0, FALSE), p, TRUE), p, d) ELSE t
        w1 == Kid(t1, p, Other(d))
        near == Kid(t1, w1, d)
        far  == Kid(t1, w1, Other(d))
        t2 == IF Red(t1, far) THEN t1
              ELSE Rotate(Paint(Paint(t1, near, FALSE), w1, TRUE), w1, Other(d))
        w2 == Kid(t2, p, Other(d))
        t3 == Paint(Paint(t2, w2, Red(t2, p)), p, FALSE)
    IN  IF x = t.root \/ Red(t, x) THEN Paint(t, x, FALSE)
        ELSE IF ~Red(t1, near) /\ ~Red(t1, far) THEN DeleteFix(Paint(t1, w1, TRUE), p)
        ELSE LET t4 == Rotate(Paint(t3, Kid(t3, w2, Other(d)), FALSE), p, d)
             IN  DeleteFix(t4, t4.root)

\* ngx_rbtree_delete: the node, or the smallest one to its right in its stead, is
\* unlinked; then the colours are repaired unless that one was red.  The parent of the
\* sentinel is left over: it is set again before it is read.
Unlink(t, x, subst, temp) ==
    LET t1 == SetKid(t, Up(t, subst), SideOf(t, subst), temp)
        t2 == SetUp(t1, temp, IF subst # x /\ Up(t, subst) = x THEN subst ELSE Up(t, subst))
        t3 == [t2 EXCEPT !.node[subst] = [t2.node[x] EXCEPT !.key = t2.node[subst].key]]
        t4 == Replace(t3, x, subst)
        kid(d) == Kid(t4, subst, d)
        t5 == IF kid("left") # Sentinel THEN SetUp(t4, kid("left"), subst) ELSE t4
        t6 == IF kid("right") # Sentinel THEN SetUp(t5, kid("right"), subst) ELSE t5
    IN  IF subst = x THEN t2 ELSE t6

Delete(t, x) ==
    LET one   == {d \in Sides : Kid(t, x, d) = Sentinel}
        subst == IF one # {} THEN x ELSE MinNode(t, Kid(t, x, "right"))
        temp  == IF Kid(t, subst, "left") # Sentinel THEN Kid(t, subst, "left")
                 ELSE Kid(t, subst, "right")
        t1    == Unlink(t, x, subst, temp)
        t2    == IF subst = t.root THEN Paint([t EXCEPT !.root = temp], temp, FALSE)
                 ELSE IF Red(t, subst) THEN t1 ELSE DeleteFix(t1, temp)
    IN  [t2 EXCEPT !.node[x] = EmptyNode, !.node[Sentinel].up = Null]

-----------------------------------------------------------------------------
(* What a tree should be *)

\* The nodes below x, x included.
RECURSIVE Below(_, _)
Below(t, x) == IF x = Sentinel THEN {}
               ELSE {x} \cup Below(t, Kid(t, x, "left")) \cup Below(t, Kid(t, x, "right"))

\* The number of black nodes on every path down from x; -1 if the paths differ.
RECURSIVE BlackHeight(_, _)
BlackHeight(t, x) ==
    IF x = Sentinel THEN 0
    ELSE LET l == BlackHeight(t, Kid(t, x, "left"))
             r == BlackHeight(t, Kid(t, x, "right"))
         IN  IF l # r \/ l = -1 THEN -1 ELSE l + IF Red(t, x) THEN 0 ELSE 1

IsRedBlack(t) ==
    /\ ~Red(t, t.root) /\ ~Red(t, Sentinel)
    /\ BlackHeight(t, t.root) # -1
    /\ \A x \in Below(t, t.root), d \in Sides :
         LET y == Kid(t, x, d)
         IN  y # Sentinel => Up(t, y) = x /\ ~(Red(t, x) /\ Red(t, y))

\* No node comes after one to its right, by the order the tree is kept in.
IsOrdered(t, Before(_, _)) ==
    \A x \in Below(t, t.root) :
      /\ \A y \in Below(t, Kid(t, x, "left")) : ~Before(t.node[x].key, t.node[y].key)
      /\ \A y \in Below(t, Kid(t, x, "right")) : ~Before(t.node[y].key, t.node[x].key)
=============================================================================
