------------------------------ MODULE Sublists ------------------------------
(* Loops that keep some elements of a list and skip the others.            *)
EXTENDS Integers, Sequences

\* The elements of s that are in S, in their order; f[i] has those before i.
Kept(s, S) ==
  LET f[i \in 1 .. Len(s) + 1] ==
        IF i = 1 THEN <<>>
        ELSE IF s[i - 1] \in S THEN Append(f[i - 1], s[i - 1]) ELSE f[i - 1]
  IN f[Len(s) + 1]

Elements(s) == {s[i] : i \in DOMAIN s}
Without(s, S) == Kept(s, Elements(s) \ S)
=============================================================================
