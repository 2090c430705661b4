-------------------------- MODULE OrderedSequences ---------------------------
(* Sequences of request numbers: ordered, and losing a member; and tuples of  *)
(* numbers compared as in a dictionary.                                       *)
EXTENDS Naturals, Sequences

Increasing(s) == \A i, j \in 1..Len(s) : i < j => s[i] < s[j]

OrderedBelow(s, n) == Increasing(s) /\ \A i \in 1..Len(s) : s[i] < n

\* Numbering the members of s from a gives none of them more than itself.
NumberedFrom(s, a) == \A i \in 1..Len(s) : a + (i - 1) <= s[i]

\* t comes before s: the first number where they differ is smaller.  No tuple of
\* naturals has an endless descent from it.
Lower(t, s) ==
    \E i \in 1..Len(s) : t[i] < s[i] /\ \A j \in 1..(i - 1) : t[j] = s[j]

NotHigher(t, s) == t = s \/ Lower(t, s)

\* s without its i-th member
Without(s, i) == SubSeq(s, 1, i - 1) \o SubSeq(s, i + 1, Len(s))
=============================================================================
