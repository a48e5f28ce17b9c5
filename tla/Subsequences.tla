---------------------------- MODULE Subsequences ----------------------------
(***************************************************************************)
(* The part of a sequence that a condition on its places leaves, in order, *)
(* the sorted sequence, and a sum: what SelectSeq, SortSeq and a fold      *)
(* return, said without recursion. The k-th place is the one that has      *)
(* k - 1 places before it.                                                 *)
(***************************************************************************)
EXTENDS Integers, FiniteSets

Nth(S, k) == CHOOSE x \in S : Cardinality({y \in S : y < x}) = k - 1

(* The members of a finite set of integers, in order.                      *)
Ascending(S) == [k \in 1 .. Cardinality(S) |-> Nth(S, k)]

(* The members of s at the places in S.                                    *)
Picked(s, S) == [k \in 1 .. Cardinality(S) |-> s[Nth(S, k)]]

(* The members of s, the smallest first and equal ones in their order.     *)
Sorted(s) ==
  LET Before(i) == {j \in DOMAIN s : s[j] < s[i] \/ (s[j] = s[i] /\ j < i)}
  IN [k \in DOMAIN s |-> s[CHOOSE i \in DOMAIN s : Cardinality(Before(i)) = k - 1]]

(* The sum of a function of naturals: as many as it has units.             *)
Units(f) == UNION {{c} \X (1 .. f[c]) : c \in DOMAIN f}
Total(f) == Cardinality(Units(f))
=============================================================================
