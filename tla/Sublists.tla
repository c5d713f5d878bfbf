------------------------------- MODULE Sublists -------------------------------
(***************************************************************************)
(* The sublist of a list whose elements are of a set, in their order, as   *)
(* erase and remove_if leave it, and lists read from left to right.        *)
(***************************************************************************)
EXTENDS Integers, Sequences

Those(s, S) ==
  LET f[i \in 0..Len(s)] ==
        IF i = 0 THEN <<>> ELSE IF s[i] \in S THEN Append(f[i - 1], s[i]) ELSE f[i - 1]
  IN f[Len(s)]
=============================================================================
