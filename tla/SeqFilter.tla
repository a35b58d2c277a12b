------------------------------ MODULE SeqFilter ------------------------------
(***************************************************************************)
(* Deleting from a list: the elements of a sequence that are not in a set, *)
(* in their order.  It is SelectSeq, written as a recursive function so    *)
(* that what it does can be proved of sequences of any length (module      *)
(* SeqFilterProofs).                                                       *)
(***************************************************************************)
EXTENDS Naturals, Sequences

\* What is left of each prefix of s.
Kept(s, gone) ==
  LET kept[n \in 0 .. Len(s)] ==
        IF n = 0 THEN <<>>
        ELSE IF s[n] \in gone THEN kept[n - 1] ELSE Append(kept[n - 1], s[n])
  IN  kept

Filter(s, gone) == Kept(s, gone)[Len(s)]
=============================================================================
