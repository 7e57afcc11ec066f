------------------------------- MODULE Common -------------------------------
(* What the component models of the library database share: the books of an *)
(* instance and the absent value, an SQL NULL or a Rust None.               *)
EXTENDS Integers, FiniteSets, Sequences

CONSTANTS Books, Nothing

ASSUME CommonAssumption == IsFiniteSet(Books) /\ Nothing \notin Books

OptionOf(S) == S \cup {Nothing}
(* Where each file of a book ends in book time, after no file at 0.          *)
RunningSum(fs) == LET at[n \in 0 .. Len(fs)] == IF n = 0 THEN 0 ELSE at[n - 1] + fs[n] IN at
SumSeq(fs) == RunningSum(fs)[Len(fs)]
(* The members of a list that are in a set, in their order.                  *)
Sifted(s, S) ==
  LET at[n \in 0 .. Len(s)] ==
        IF n = 0 THEN <<>> ELSE IF s[n] \in S THEN Append(at[n - 1], s[n]) ELSE at[n - 1]
  IN  at[Len(s)]
(* ORDER BY: of the rows of a finite set, the nth has n - 1 before it.       *)
OrderedBy(S, before(_, _)) ==
  LET rank == [x \in S |-> Cardinality({y \in S : before(y, x)})]
  IN  [n \in 1 .. Cardinality(S) |-> CHOOSE x \in S : rank[x] = n - 1]
=============================================================================
