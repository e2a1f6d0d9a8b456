------------------------------- MODULE Lists --------------------------------
(***************************************************************************)
(* SelectSeq has no definition that a proof can use.  Here what is kept is *)
(* a set, of indices or of elements, so that facts hold for every test.    *)
(***************************************************************************)
EXTENDS Naturals, Sequences

\* The elements of s at the indices I, in their order
Pick(s, I) ==
  LET picked[i \in 0 .. Len(s)] ==
        IF i = 0 THEN <<>>
        ELSE IF i \in I THEN Append(picked[i - 1], s[i]) ELSE picked[i - 1]
  IN  picked[Len(s)]

\* The elements of s that are in S, in their order
Keep(s, S) == Pick(s, {i \in DOMAIN s : s[i] \in S})

=============================================================================
