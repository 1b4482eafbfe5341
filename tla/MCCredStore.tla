----------------------------- MODULE MCCredStore -----------------------------
(* Small instances of CredStore: two threads of one process and one of     *)
(* another.                                                                *)
EXTENDS CredStore, TLC

CONSTANTS p1, p2, t1, t2, t3, e1

MCProcess == {p1, p2}
MCThread == {t1, t2, t3}
MCProcessOf == (t1 :> p1) @@ (t2 :> p1) @@ (t3 :> p2)

SaveRequest(p, e) ==
  [kind |-> "save", set |-> [Empty EXCEPT ![p] = e], provider |-> "other"]
DeleteRequest(p) == [kind |-> "delete", set |-> Empty, provider |-> p]

(* One provider is saved and the other deleted: that two edits of one      *)
(* provider meet differs in nothing, the file being replaced as a whole.   *)
MCRequests == {LoadRequest, SaveRequest("anthropic", e1), DeleteRequest("openai")}
=============================================================================
