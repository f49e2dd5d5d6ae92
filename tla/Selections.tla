------------------------------- MODULE Selections -------------------------------
(***************************************************************************)
(* What several components do with their lists and deques: keep some of    *)
(* the elements, in their order (a filter, a comprehension with a          *)
(* condition, the removal of an element).  It is written as a recursive    *)
(* function, with the elements that stay given as a set, so that theorems  *)
(* can be proved about it.                                                 *)
(***************************************************************************)
EXTENDS Integers, Sequences

Selected(s, S) ==
  LET upTo[i \in 0..Len(s)] ==
        IF i = 0 THEN <<>>
        ELSE IF s[i] \in S THEN Append(upTo[i - 1], s[i]) ELSE upTo[i - 1]
  IN upTo[Len(s)]

================================================================================
