---------------------------- MODULE MCCatalogue ----------------------------
(* Small instances of the three catalog models.  They share the books and   *)
(* nothing else, so a behaviour explores one of them, chosen at the start.  *)
EXTENDS Identity, Provenance, Chapters, TLC

CONSTANTS
  Parts,  \* the models an instance explores
  b1, b2, p1, x1, q1, a1, a2, g1, g2, t1, t2, t2s

VARIABLE part

ASSUME MCCatalogueAssumption == b1 \in Books

(* Identity: two spellings of one name, one name with an Audible id.        *)
MCNames == {"Ann", "ann", "Bob"}
MCFolded == [n \in MCNames |-> IF n = "Bob" THEN "bob" ELSE "ann"]
Candidate(n, e) == [name |-> n, ext |-> e]
MCLists == {<<Candidate("Ann", Nothing)>>,
            <<Candidate("Ann", Nothing), Candidate("Bob", x1)>>}
MCOtherLists == MCLists \cup {<<>>, <<Candidate("Bob", x1)>>}
MCPrefix == [b \in Books |-> q1]

(* Provenance: the tags' title t1; the catalog's t2s is t2 with a suffix.   *)
MCTags == [b \in Books |-> {<<"title", t1>>, <<"genre", g1>>, <<"series", "album">>}]
MCOnAudible == (t1 :> a1) @@ (t2 :> a2) @@ (t2s :> Nothing)
MCAudnexus == (a1 :> [title |-> t2s, genres |-> {g1}, series |-> {"wrong"}])
              @@ (a2 :> [title |-> t1, genres |-> {g1, g2}, series |-> {}])
MCCleaned == (t1 :> t1) @@ (t2 :> t2) @@ (t2s :> t2)

(* Chapters: two files, each with none, ordered or unordered chapters, or   *)
(* of unknown length; two EPUB titles; or a cue sheet beside the files.     *)
File(d, s) == [dur |-> d, starts |-> s]
Whole == File(4, <<>>)
MCFiles == {Whole, File(4, <<0, 2>>), File(4, <<2, 0>>), File(0, <<0, 2>>)}
MCLayouts ==
  {[files |-> <<f, g>>, cue |-> <<Whole, Whole>>, epub |-> 2, duration |-> 8] : f, g \in MCFiles}
    \cup {[files |-> <<Whole, File(4, <<0, 2>>)>>, cue |-> <<File(4, <<0, 1>>), Whole>>, epub |-> 0,
          duration |-> 5]}
MCCatalog == <<[start |-> 0, end |-> 3, title |-> "title"],
               [start |-> 3, end |-> 8, title |-> "placeholder"]>>

OneOf(S) == CHOOSE x \in S : TRUE
Init ==
  /\ part \in Parts
  /\ IdInit /\ PrInit /\ ChInit
  /\ part # "identity" => imprint = [b \in Books |-> Nothing]
  /\ part # "chapters" => layout = [b \in Books |-> OneOf(Layouts)]
  /\ part = "chapters" => \A b \in Books \ {b1} : layout[b] = OneOf(Layouts)

(* Books meet in names; a book's columns and chapters are its own.          *)
Next ==
  \/ part = "identity" /\ IdNext /\ UNCHANGED <<part, prVars, chVars>>
  \/ part = "provenance" /\ PrStep(b1) /\ UNCHANGED <<part, idVars, chVars>>
  \/ part = "chapters" /\ ChStep(b1) /\ UNCHANGED <<part, idVars, prVars>>

Spec == Init /\ [][Next]_<<part, idVars, prVars, chVars>>

TypeOK == part \in Parts /\ IdTypeOK /\ PrTypeOK /\ ChTypeOK
=============================================================================
