---------------------------- MODULE Subsequences ----------------------------
(***************************************************************************)
(* What a comprehension with a condition does to a list: the elements that *)
(* satisfy it, in their order.  It is SelectSeq with the condition given   *)
(* as a set, written as a function so that it can be reasoned about.       *)
(***************************************************************************)
EXTENDS Naturals, Sequences, Functions

\* The elements of s that are in keep.
Only(s, keep) ==
    LET kept[i \in 0..Len(s)] ==
            IF i = 0 THEN <<>>
            ELSE IF s[i] \in keep THEN Append(kept[i - 1], s[i]) ELSE kept[i - 1]
    IN kept[Len(s)]
=============================================================================
