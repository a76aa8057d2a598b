------------------------------- MODULE Queues -------------------------------
(* Queues as sequences: the part of a queue that lies in a set, and how many     *)
(* items of a queue, or of a family of queues, do. Written so that TLC evaluates  *)
(* them and a proof can unfold them: the recursion is a function on positions,     *)
(* and items are counted by their positions.                                        *)
EXTENDS Naturals, Sequences, FiniteSets

\* The items of s that are in S, in their order: SelectSeq(s, LAMBDA m : m \in S).
Only(s, S) ==
  LET f[i \in 0..Len(s)] ==
        IF i = 0 THEN <<>> ELSE IF s[i] \in S THEN Append(f[i - 1], s[i]) ELSE f[i - 1]
  IN f[Len(s)]

\* How many items of s are in T.
Num(s, T) == Cardinality({i \in DOMAIN s : s[i] \in T})

\* How many items of all the queues q[x] are in T.
NumIn(q, T) == Cardinality(UNION {{x} \X {i \in DOMAIN q[x] : q[x][i] \in T} : x \in DOMAIN q})
=============================================================================
