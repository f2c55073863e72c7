-------------------------------- MODULE Lists --------------------------------
(***************************************************************************)
(* The loops of the library that go over a QList and keep some of its      *)
(* elements in their order, and the sum of a list.  Keep is SelectSeq of   *)
(* the standard modules by the membership in a set.  Both are written as   *)
(* recursive functions so that their results can be proved                 *)
(* (SequenceLemmas).                                                       *)
(***************************************************************************)
EXTENDS Naturals, Sequences

\* The elements of s that are in S, in their order.
Keep(s, S) ==
    LET kept[i \in 0 .. Len(s)] ==
          IF i = 0 THEN << >>
          ELSE IF s[i] \in S THEN Append(kept[i - 1], s[i])
          ELSE kept[i - 1]
    IN  kept[Len(s)]

\* The sum of the numbers in s.
Total(s) ==
    LET total[i \in 0 .. Len(s)] == IF i = 0 THEN 0 ELSE total[i - 1] + s[i]
    IN  total[Len(s)]
=============================================================================
