----------------------------- MODULE CatalogAnswer -----------------------------
(***************************************************************************)
(* decodeModelCatalogResponse (catalog.go): the answer of the models route *)
(* and what ListModels makes of its entries.  An entry's flaw names the    *)
(* required field that convertModelCatalogEntry misses first, "" for none. *)
(***************************************************************************)
EXTENDS Integers, SequencesExt

(* A slug stands for the place of the entry.                               *)
modelCatalogWireEntry ==
  [slug : Nat, flaw : STRING, visibility : STRING, priority : Int]

(* Why an answer is refused before its entries are looked at, or "".       *)
Unreadable(resp) ==
  CASE resp.status # "2xx"         -> "HTTP status"
    [] resp.status = "2xx" /\ resp.body # "models" -> resp.body
    [] OTHER                       -> ""

convertModelCatalogEntry(wire) ==
  [err |-> wire.flaw, visible |-> wire.visibility = "list"]

(* The entries of the result, one appended for each that is visible.       *)
Shown(models) ==
  FoldLeft(LAMBDA result, wire : IF convertModelCatalogEntry(wire).visible
                                   THEN Append(result, wire) ELSE result,
           <<>>, models)

(* Operators named Bad... are the next definition with a plausible bug.    *)
BadPlaced(sorted, entry) ==
  LET before == {k \in DOMAIN sorted : sorted[k].priority < entry.priority}
  IN InsertAt(sorted, Max(before \cup {0}) + 1, entry)

(* sort.SliceStable: an entry comes behind those of its own priority.      *)
Placed(sorted, entry) ==
  LET before == {k \in DOMAIN sorted : sorted[k].priority <= entry.priority}
  IN InsertAt(sorted, Max(before \cup {0}) + 1, entry)

SliceStable(entries) == FoldLeft(Placed, <<>>, entries)

decodeModelCatalogResponse(resp) ==
  LET flawed == {i \in DOMAIN resp.models :
                   convertModelCatalogEntry(resp.models[i]).err # ""}
  IN CASE Unreadable(resp) # "" -> [err |-> Unreadable(resp), models |-> <<>>]
       [] Unreadable(resp) = "" /\ flawed # {} ->
            [err |-> resp.models[Min(flawed)].flaw, models |-> <<>>]
       [] OTHER ->
            [err |-> "", models |-> SliceStable(Shown(resp.models))]
=============================================================================
