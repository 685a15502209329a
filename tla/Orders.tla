--------------------------------- MODULE Orders --------------------------------
(* Order by counting, what SelectSeq of Sequences does by recursion: TLC       *)
(* evaluates these definitions, and the provers can reason about them.         *)
EXTENDS Naturals, FiniteSets

\* Where n stands among the numbers of S.
Rank(n, S) == Cardinality({m \in S : m <= n})

\* The elements of a list at the positions in P, in their order.
Selected(list, P) == [r \in 1 .. Cardinality(P) |-> list[CHOOSE n \in P : Rank(n, P) = r]]

===============================================================================
