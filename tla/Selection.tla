------------------------------ MODULE Selection ------------------------------
(* filter: the elements of a sequence that are kept, in their order         *)
(* (src/src/eval-builtins.ts; JavaScript's is the same).  It is SelectSeq,  *)
(* written out with a function because the provers take SelectSeq as it is. *)
EXTENDS Integers, Sequences

(* What has been selected after the first n elements.                      *)
SelectedUpTo(seq, kept) ==
  LET upTo[n \in 0 .. Len(seq)] ==
        IF n = 0 THEN << >>
        ELSE IF seq[n] \in kept THEN Append(upTo[n - 1], seq[n])
        ELSE upTo[n - 1]
  IN  upTo

Selected(seq, kept) == SelectedUpTo(seq, kept)[Len(seq)]
=============================================================================
