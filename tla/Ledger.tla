------------------------------- MODULE Ledger --------------------------------
(***************************************************************************)
(* What the operation journal promises whoever reads it, whatever handlers, *)
(* retries and recovery passes do: rows are only added and settled, a       *)
(* settled row is final, and 'done' is never said of a mutation that has    *)
(* not been written.                                                        *)
(***************************************************************************)
EXTENDS Naturals, Sequences

VARIABLES
  log,      \* progress of every row
  written   \* ops whose mutation has been written

Init == log = <<>> /\ written = {}

Record == log' = Append(log, "pending") /\ UNCHANGED written

\* A mutation lands: for the rows of one request at once
Write(ops) ==
  /\ ops \subseteq DOMAIN log
  /\ written' = written \cup ops
  /\ UNCHANGED log

Settle(o, progress) ==
  /\ log[o] = "pending"
  /\ progress = "done" => o \in written
  /\ log' = [log EXCEPT ![o] = progress]
  /\ UNCHANGED written

Next ==
  \/ Record
  \/ \E ops \in SUBSET DOMAIN log : Write(ops)
  \/ \E o \in DOMAIN log, progress \in {"done", "failed"} : Settle(o, progress)

Spec == Init /\ [][Next]_<<log, written>>
=============================================================================
