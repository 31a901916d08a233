-------------------------------- MODULE Stack --------------------------------
(* Stacks of windows as sequences, back to front.                          *)
EXTENDS SequencesExt

\* The elements of the sequence that are in S (Vec::retain, Iterator::filter).
Within(seq, S) ==
  LET kept[n \in 0..Len(seq)] ==
        IF n = 0 THEN <<>>
        ELSE IF seq[n] \in S THEN Append(kept[n - 1], seq[n]) ELSE kept[n - 1]
  IN  kept[Len(seq)]

Without(seq, S) == Within(seq, ToSet(seq) \ S)
=============================================================================
