----------------------------- MODULE ResourceTree -----------------------------
(***************************************************************************)
(* The resource hierarchy: every resource but the root has a parent, and   *)
(* the lineage of a resource is the path from it to the root               *)
(* (pyramid.location.lineage, used all over adhocracy_core).  A resource   *)
(* stands for its path: both name a place in the tree, whether or not a    *)
(* resource exists there at the moment.                                    *)
(***************************************************************************)
CONSTANTS Resource,  \* the places of the tree, by path
          Root,      \* the application root, path "/"
          Parent     \* Parent[r]: the place of r.__parent__, for r # Root

NonRoot == Resource \ {Root}

\* S holds, with each of its members, the members' parents.
ParentClosed(S) == \A x \in S \ {Root} : Parent[x] \in S

\* r and its ancestors: the least parent-closed set around r.
LineageOf ==
    [r \in Resource |->
        {a \in Resource :
            \A S \in SUBSET Resource : r \in S /\ ParentClosed(S) => a \in S}]

Lineage(r) == LineageOf[r]

\* The ancestors of r, r itself left out (lineage of r.__parent__).
Ancestors(r) == IF r = Root THEN {} ELSE Lineage(Parent[r])

\* r and its descendants.
Subtree(r) == {d \in Resource : r \in Lineage(d)}

\* The parent function is a tree with Root at the top.
ASSUME TreeAssumption ==
    /\ Root \in Resource
    /\ Parent \in [NonRoot -> Resource]
    /\ \A r \in Resource : Root \in Lineage(r)
===============================================================================
