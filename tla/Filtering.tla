----------------------------- MODULE Filtering -----------------------------
(***************************************************************************)
(* The rows of a query set that a filter keeps, in their order. It is what *)
(* SelectSeq gives, defined by a recursive function over a set of the rows *)
(* to keep, so that proofs can say what it returns.                        *)
(***************************************************************************)
EXTENDS Naturals, Sequences

Filter(s, kept) ==
  LET Upto[n \in 0..Len(s)] ==
        IF n = 0 THEN <<>>
        ELSE IF s[n] \in kept THEN Append(Upto[n - 1], s[n]) ELSE Upto[n - 1]
  IN  Upto[Len(s)]
=============================================================================
