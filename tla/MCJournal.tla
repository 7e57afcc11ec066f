------------------------------ MODULE MCJournal ------------------------------
(* Small instances of Journal: one or two columns of one target, two values. *)
EXTENDS Journal, TLC

CONSTANTS x, y, u, v, c1, c2

MCInitial == [f \in Fields |-> u]
To(f, value) == [field |-> f, value |-> value]
MCOneField == {<<To(x, u)>>, <<To(x, v)>>}
MCMixed == {<<To(x, v)>>, <<To(x, u), To(y, v)>>}
MCTwoFields == {<<To(x, v)>>, <<To(x, u)>>, <<To(x, v), To(y, v)>>}
=============================================================================
