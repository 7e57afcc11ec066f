------------------------------ MODULE MCSpeech ------------------------------
(* Two books: one German, one whose tags read as German or French. *)
EXTENDS Speech, TLC

CONSTANTS b1, b2, de, fr, head, samples

MCLocalesOf == (b1 :> {de}) @@ (b2 :> {de, fr})
MCGerman == [b \in Books |-> {de}]
=============================================================================
