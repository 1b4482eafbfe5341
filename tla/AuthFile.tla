------------------------------- MODULE AuthFile -------------------------------
(***************************************************************************)
(* What auth.json holds (diskAuthFile, AuthFile in credstore.go) and what  *)
(* one request does to it.  A provider's entry is opaque here: no step of  *)
(* the store looks inside one.                                             *)
(***************************************************************************)
CONSTANTS
  Entry,    \* the entries a provider can have (storedCreds, RawMessage)
  None,     \* a nil pointer: no entry for the provider
  NoFile,   \* auth.json does not exist
  Corrupt   \* auth.json exists and json.Unmarshal rejects it

Provider == {"openai", "anthropic"}

Contents == [Provider -> Entry \cup {None}]

Empty == [p \in Provider |-> None]

ASSUME AuthFileAssumption ==
  /\ None \notin Entry
  /\ NoFile # Corrupt
  /\ {NoFile, Corrupt} \cap Contents = {}

(* Load, Save(af) and Delete(provider).  "other" is an unrecognised name.  *)
Request == [kind : {"load", "save", "delete"},
            set : Contents,
            provider : Provider \cup {"other"}]

LoadRequest == [kind |-> "load", set |-> Empty, provider |-> "other"]

(* Save and Delete start afresh from a file they cannot parse.             *)
Parsed(f) == IF f \in {NoFile, Corrupt} THEN Empty ELSE f

(* The contents a request leaves behind when it finds c: Save overwrites   *)
(* the providers it sets and keeps the others, Delete clears one.          *)
Edited(r, c) ==
  [p \in Provider |->
     CASE r.kind = "save" /\ r.set[p] # None    -> r.set[p]
       [] r.kind = "delete" /\ p = r.provider   -> None
       [] OTHER                                 -> c[p]]
=============================================================================
