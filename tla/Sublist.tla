------------------------------- MODULE Sublist -------------------------------
(***************************************************************************)
(* The elements of a sequence that are in a set, in their order: what      *)
(* SelectSeq returns for the test "is in the set".  It is written as a     *)
(* recursive function, about which one can reason (Sublist_proofs).        *)
(***************************************************************************)
EXTENDS Naturals, Sequences

Sublist(seq, set) ==
  LET kept[i \in 0 .. Len(seq)] ==
        IF i = 0 THEN <<>>
        ELSE IF seq[i] \in set THEN Append(kept[i - 1], seq[i])
        ELSE kept[i - 1]
  IN  kept[Len(seq)]
==============================================================================
