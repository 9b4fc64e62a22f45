------------------------------ MODULE Selection ------------------------------
(* What std::copy_if and std::remove_if do to a vector.                    *)
EXTENDS Naturals, Sequences

\* The elements of s that are in S, in their order: copy_if of these, or remove_if of
\* the others
Those(s, S) ==
  LET those[n \in 0 .. Len(s)] ==
        IF n = 0 THEN <<>>
        ELSE IF s[n] \in S THEN Append(those[n - 1], s[n]) ELSE those[n - 1]
  IN  those[Len(s)]
=============================================================================
