---------------------------- MODULE SequenceFilter ----------------------------
(***************************************************************************)
(* The elements of a sequence that are in a set, in their order, and       *)
(* sequences one after the other: what the code writes as a comprehension  *)
(* with a condition, and as one with two loops.                            *)
(***************************************************************************)
EXTENDS Naturals, Sequences

\* What is kept of the first i elements of s, for every i.
Kept(s, S) ==
    LET F[i \in 0..Len(s)] ==
          IF i = 0 THEN <<>> ELSE IF s[i] \in S THEN Append(F[i - 1], s[i]) ELSE F[i - 1]
    IN  F

Filter(s, S) == Kept(s, S)[Len(s)]

\* The first n sequences of ss one after the other, for every n.
JoinedUpTo(ss) ==
    LET F[n \in 0..Len(ss)] == IF n = 0 THEN <<>> ELSE F[n - 1] \o ss[n]
    IN  F

Joined(ss) == JoinedUpTo(ss)[Len(ss)]
=============================================================================
