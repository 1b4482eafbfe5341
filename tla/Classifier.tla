------------------------------- MODULE Classifier -------------------------------
(***************************************************************************)
(* ClassifyCodexError (classifier.go) looks for an error code in the tree  *)
(* that an error and the errors it wraps make.  The nodes of a tree are    *)
(* numbered in the order of a walk from its root, node 1, that takes each  *)
(* error before those it wraps and these in their order; a joined error    *)
(* (Unwrap() []error) wraps any number of them, another at most one.       *)
(***************************************************************************)
EXTENDS Naturals, FiniteSetsExt

CONSTANTS
  Node,      \* the nodes of a tree, 1..n
  NoCode     \* of an error without a Code field, or with an empty one

Code == {"usage_not_included", "insufficient_quota", "server_error", NoCode}

ASSUME ClassifierAssumption ==
  /\ IsFiniteSet(Node) /\ Node # {} /\ Node = 1..Cardinality(Node)
  /\ NoCode \notin {"usage_not_included", "insufficient_quota", "server_error"}

(* A tree: for each node the one that wraps it (0 for the root), whether   *)
(* it is joined, and its code.                                             *)
Wrapped(t, e) == {k \in Node : t.parent[k] = e}

IsTree(parent, joined) ==
  /\ parent[1] = 0
  /\ \A k \in Node \ {1} : parent[k] \in 1..k-1
  /\ \A j, k \in Node : j < k => parent[k] \notin parent[j]+1..j-1
  /\ \A j, k \in Node : j # k /\ parent[j] = parent[k] => joined[parent[k]]

(* errors.As(err, &multi): the first joined error on the way down from e,  *)
(* which passes errors that wrap a single one, their codes unread; 0 if    *)
(* there is none.                                                          *)
FirstJoined(t) ==
  LET As[e \in Node] ==
        IF t.joined[e] THEN e
        ELSE IF Wrapped(t, e) = {} THEN 0
        ELSE As[Min(Wrapped(t, e))]
  IN As

(* Operators named Bad... are the next definition with a plausible bug.    *)
BadfindErrorCode(t) ==
  LET multi == FirstJoined(t)
      Found[e \in Node] ==
        IF t.code[e] # NoCode THEN t.code[e]
        ELSE LET below == Wrapped(t, IF multi[e] = 0 THEN e ELSE multi[e])
             IN IF below = {} THEN NoCode ELSE Found[Min(below)]
  IN Found[1]

findErrorCode(t) ==
  LET multi == FirstJoined(t)
      Found[e \in Node] ==
        IF t.code[e] # NoCode THEN t.code[e]
        ELSE LET below == Wrapped(t, IF multi[e] = 0 THEN e ELSE multi[e])
                 coded == {k \in below : Found[k] # NoCode}
             IN IF coded = {} THEN NoCode ELSE Found[Min(coded)]
  IN Found[1]

Sentinel(c) ==
  CASE c = "usage_not_included" -> "ErrPlanNotIncluded"
    [] c = "insufficient_quota" -> "ErrQuotaExceeded"
    [] OTHER                    -> "generic"

ClassifyCodexError(t) == Sentinel(findErrorCode(t))
-----------------------------------------------------------------------------
(* The errors whose code is not read: wrapped by one that wraps nothing    *)
(* else, and joined or with a joined error further down.                   *)
PassedOver(t) ==
  {e \in Node \ {1} : ~t.joined[t.parent[e]] /\ FirstJoined(t)[e] # 0}

(* The class of a tree is that of the first coded error in it, in the      *)
(* order of the walk, errors that are passed over left out.                *)
ClassOf(t) ==
  LET coded == {e \in Node \ PassedOver(t) : t.code[e] # NoCode}
  IN IF coded = {} THEN "generic" ELSE Sentinel(t.code[Min(coded)])
=============================================================================
