------------------------------- MODULE Allowlist -------------------------------
(***************************************************************************)
(* IsCodexAllowed (models.go).  A model name is "gpt-", the digits of two  *)
(* numbers with a dot between them, and the rest; names of any other form  *)
(* are refused by the regular expression and left out.                     *)
(***************************************************************************)
EXTENDS Naturals, SequencesExt

CONSTANT MaxInt   \* the largest int

Digits == Seq(0..9) \ {<<>>}
Model == [major : Digits, minor : Digits, rest : STRING]

(* The models that are named whatever their version is. *)
Licensed ==
  {[major |-> <<5>>, minor |-> <<3>>, rest |-> "-codex"],
   [major |-> <<5>>, minor |-> <<3>>, rest |-> "-codex-spark"],
   [major |-> <<5>>, minor |-> <<4>>, rest |-> ""],
   [major |-> <<5>>, minor |-> <<4>>, rest |-> "-mini"],
   [major |-> <<5>>, minor |-> <<5>>, rest |-> ""]}

(* strconv.Atoi of a sequence of digits; it fails beyond MaxInt.           *)
Atoi(digits) == FoldLeft(LAMBDA n, d : 10 * n + d, 0, digits)
Fits(digits) == Atoi(digits) <= MaxInt

(* Operators named Bad... are the next definition with a plausible bug.    *)
BadIsCodexAllowed(m) ==
  \/ m \in Licensed
  \/ /\ Fits(m.major) /\ Fits(m.minor)
     /\ \/ Atoi(m.major) > 5
        \/ Atoi(m.major) = 5 /\ Head(m.minor) > 4

IsCodexAllowed(m) ==
  \/ m \in Licensed
  \/ /\ Fits(m.major) /\ Fits(m.minor)
     /\ \/ Atoi(m.major) > 5
        \/ Atoi(m.major) = 5 /\ Atoi(m.minor) > 4
-----------------------------------------------------------------------------
(* Numbers compared by their digits alone: without leading zeros the       *)
(* longer one is greater, and of two as long the first digit to differ     *)
(* decides.                                                                *)
Significant(s) ==
  LET zeros == {i \in 0..Len(s) : \A j \in 1..i : s[j] = 0}
  IN SubSeq(s, Max(zeros) + 1, Len(s))

Greater(s, t) ==
  LET a == Significant(s)  b == Significant(t) IN
  \/ Len(a) > Len(b)
  \/ /\ Len(a) = Len(b)
     /\ \E i \in 1..Len(a) : a[i] > b[i] /\ \A j \in 1..i-1 : a[j] = b[j]

(* m is a later version than n. *)
Later(m, n) ==
  \/ Greater(m.major, n.major)
  \/ ~Greater(n.major, m.major) /\ Greater(m.minor, n.minor)
=============================================================================
