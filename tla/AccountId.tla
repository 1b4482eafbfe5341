------------------------------- MODULE AccountId -------------------------------
(***************************************************************************)
(* ExtractAccountID (jwt.go).  An ID token is a number of segments; of the *)
(* second the length of its base64url text, the number of "=" behind it,   *)
(* whether its characters are base64url, and its claims, "" for one that   *)
(* is absent or empty; json is FALSE if they cannot be unmarshalled.       *)
(***************************************************************************)
EXTENDS Naturals, Sequences, FiniteSetsExt

IDToken ==
  [segments : Nat, text : Nat, pad : Nat, base64 : BOOLEAN, json : BOOLEAN,
   claims : [chatgpt_account_id : STRING, auth_account_id : STRING,
             organization_id : STRING, organizations : Seq(STRING)]]

(* encoding/base64 (external).                                             *)
RawURLEncoding(text, pad) == pad = 0 /\ text % 4 # 1
URLEncoding(text, pad) == pad <= 2 /\ text % 4 # 1 /\ (text + pad) % 4 = 0

(* Operators named Bad... are the next definition with a plausible bug.    *)
BaddecodeBase64URLTolerant(text, pad) ==
  \/ RawURLEncoding(text, pad)
  \/ URLEncoding(text, CASE text % 4 = 2 -> pad + 2
                         [] text % 4 = 3 -> pad + 1
                         [] OTHER        -> pad)

(* Whether the segment can be decoded: its length counts the "=" it has.   *)
decodeBase64URLTolerant(text, pad) ==
  \/ RawURLEncoding(text, pad)
  \/ URLEncoding(text, CASE (text + pad) % 4 = 2 -> pad + 2
                         [] (text + pad) % 4 = 3 -> pad + 1
                         [] OTHER                -> pad)

(* The claims that may name the account, in the order they are tried.      *)
Claims(c) ==
  <<c.chatgpt_account_id, c.auth_account_id, c.organization_id>>
  \o SubSeq(c.organizations, 1, Min({1, Len(c.organizations)}))

ExtractAccountID(t) ==
  LET ids   == Claims(t.claims)
      named == {i \in DOMAIN ids : ids[i] # ""}
  IN IF /\ t.segments >= 2
        /\ t.base64 /\ decodeBase64URLTolerant(t.text, t.pad)
        /\ t.json
        /\ named # {}
     THEN ids[Min(named)]
     ELSE ""
=============================================================================
