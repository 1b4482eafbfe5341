---------------------------------- MODULE Pkce ----------------------------------
(***************************************************************************)
(* GenerateVerifier (pkce.go): characters of the verifier are sampled from *)
(* random bytes, those that would favour some characters being rejected.   *)
(* A state is what the loop has filled and how much of buf is unread.      *)
(***************************************************************************)
EXTENDS Naturals, Sequences

CONSTANTS
  Bytes,      \* the values of a byte (256)
  alphabetN,  \* the characters of the alphabet (66)
  length      \* the characters of a verifier (43)

ASSUME PkceAssumption ==
  /\ Bytes \in Nat /\ alphabetN \in 1..Bytes
  /\ length \in Nat \ {0}

Byte == 0..Bytes-1
Character == 0..alphabetN-1

NoVerifier == [out |-> <<>>, unread |-> 0]

(* Operators named Bad... are the next definition with a plausible bug.    *)
Badthreshold == Bytes

threshold == (Bytes \div alphabetN) * alphabetN

Complete(v) == Len(v.out) = length

(* rand.Read fills a buffer twice as long as what is missing.              *)
ReadRandom(v) == [v EXCEPT !.unread = 2 * (length - Len(v.out))]

(* The next byte of the buffer gives a character or is rejected.           *)
TakeByte(v, b) ==
  [out |-> IF b < threshold THEN Append(v.out, b % alphabetN) ELSE v.out,
   unread |-> v.unread - 1]
=============================================================================
