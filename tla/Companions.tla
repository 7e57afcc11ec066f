----------------------------- MODULE Companions -----------------------------
(* E-books beside audiobooks: the scan that finds and pairs them             *)
(* (companion/, scan/companion_scan, db/companions), and the stage that      *)
(* reads a paired EPUB (transcript/c4_epub_name_dict_stage).  A directory is *)
(* the sequence of its names, a file is one of a fixed set of paths.         *)
EXTENDS Common, Sequences, SequencesExt

CONSTANTS
  Parent,      \* companion -> its directory
  AudioFiles,  \* audio file -> [book, dir]
  Heads,       \* what a companion may begin with
  MaxTurns,    \* bound: changes of the disk and of audio files
  MaxScans     \* bound: scans

VARIABLES
  disk,     \* companion -> its content, Nothing if it is not there
  inUse,    \* audio files with is_active = 1
  counts,   \* companion_paired_count of an audio file
  found,    \* companion -> row of book_companions
  nearby,   \* companion -> its rows of companion_nearby_books
  scanning, \* the scan under way
  reading,  \* the EPUB that the stage holds for a book
  dict,     \* ai_cache row epub_name_dict of a book: what it was made of
  steady,   \* audio files that never changed is_active; a history variable
  turns, scans

coVars == <<disk, inUse, counts, found, nearby, scanning, reading, dict, steady, turns, scans>>

Files == DOMAIN Parent
Audio == DOMAIN AudioFiles
CompanionFormats ==
  {"pdf", "cbr", "cb7", "kfx", "lit", "mobi", "cbt", "epub", "cbz", "fb2", "djvu"}
ParseTiers == {"text_extractable", "document", "ebook_opaque", "comic"}
CompanionRows ==
  [format : CompanionFormats, tier : ParseTiers, text : {1, 2}, book : OptionOf(Books), parsed : BOOLEAN]
ASSUME CompanionsAssumption ==
  /\ IsFiniteSet(Files) /\ IsFiniteSet(Audio) /\ MaxTurns \in Nat /\ MaxScans \in Nat
  /\ \A a \in Audio : AudioFiles[a].book \in Books
  /\ Nothing \notin CompanionRows /\ Nothing \notin Files

-----------------------------------------------------------------------------
(* companion/detect, companion/lib                                           *)

(* The extension opens the file, what it begins with decides.  A ZIP is an   *)
(* EPUB if its marker lies in the first 256 bytes, a comic if not.           *)
DetectFormat(head) ==
  CASE head = "%PDF" -> "pdf" [] head = "Rar!" -> "cbr" [] head = "7z" -> "cb7"
    [] head = "DRMION" -> "kfx" [] head = "ITOLITLS" -> "lit" [] head = "BOOKMOBI" -> "mobi"
    [] head = "ustar" -> "cbt" [] head = "PK mimetype" -> "epub" [] head = "PK" -> "cbz"
    [] head = "FictionBook" -> "fb2" [] head = "DJVU" -> "djvu" [] OTHER -> Nothing
ParseTierFor(format) ==
  CASE format = "epub" -> "text_extractable" [] format = "pdf" -> "document"
    [] format \in {"mobi", "kfx", "fb2", "lit", "djvu"} -> "ebook_opaque"
    [] OTHER -> "comic"

Content == [head : Heads, text : {1, 2}]
Discoverable == {p \in Files : disk[p] # Nothing /\ DetectFormat(disk[p].head) # Nothing}

-----------------------------------------------------------------------------
(* companion/pair                                                            *)

IsAncestorOrEqual(dir, path) == IsPrefix(dir, path)
(* A book has one directory, that of whichever of its files is read first.   *)
LoadAudiobookDirectories ==
  {f \in [Books -> OptionOf({AudioFiles[a].dir : a \in Audio})] :
     \A b \in Books :
       LET dirs == {AudioFiles[a].dir : a \in {x \in inUse : AudioFiles[x].book = b}}
       IN  IF dirs = {} THEN f[b] = Nothing ELSE f[b] \in dirs}
\* Mutant: a directory beside counts too.
AutoPairAnywhere(p, candidates) == {b \in Books : candidates[b] # Nothing}
AutoPair(p, candidates) ==
  {b \in Books : candidates[b] # Nothing /\ IsAncestorOrEqual(candidates[b], Parent[p])}

CoInit ==
  /\ disk = [p \in Files |-> Nothing] /\ inUse = Audio /\ steady = Audio
  /\ counts = [a \in Audio |-> 0] /\ found = [p \in Files |-> Nothing]
  /\ nearby = [p \in Files |-> {}] /\ scanning = Nothing
  /\ reading = [b \in Books |-> Nothing] /\ dict = [b \in Books |-> Nothing]
  /\ turns = 0 /\ scans = 0

DiskTurns(p) ==
  /\ turns < MaxTurns /\ turns' = turns + 1
  /\ \E c \in OptionOf(Content) : c # disk[p] /\ disk' = [disk EXCEPT ![p] = c]
  /\ UNCHANGED <<inUse, counts, found, nearby, scanning, reading, dict, steady, scans>>
(* Conversion, cleanup or a scan takes an audio file out of use or back.     *)
AudioTurns(a) ==
  /\ turns < MaxTurns /\ turns' = turns + 1
  /\ inUse' = IF a \in inUse THEN inUse \ {a} ELSE inUse \cup {a}
  /\ steady' = steady \ {a}
  /\ UNCHANGED <<disk, counts, found, nearby, scanning, reading, dict, scans>>

-----------------------------------------------------------------------------
(* scan_companions                                                           *)

ScanBegins ==
  /\ scanning = Nothing /\ scans < MaxScans /\ scans' = scans + 1
  /\ \E candidates \in LoadAudiobookDirectories :
       scanning' = [todo |-> Discoverable, at |-> Nothing, seen |-> disk, candidates |-> candidates]
  /\ UNCHANGED <<disk, inUse, counts, found, nearby, reading, dict, steady, turns>>
(* upsert_companion: a row that is there keeps its pair and its parsed_at.   *)
PersistOne(p) ==
  /\ scanning # Nothing /\ scanning.at = Nothing /\ p \in scanning.todo
  /\ LET format == DetectFormat(scanning.seen[p].head)
         noted == [format |-> format, tier |-> ParseTierFor(format), text |-> scanning.seen[p].text,
                   book |-> IF found[p] = Nothing THEN Nothing ELSE found[p].book,
                   parsed |-> found[p] # Nothing /\ found[p].parsed]
     IN  found' = [found EXCEPT ![p] = noted]
  /\ scanning' = [scanning EXCEPT !.at = p, !.todo = @ \ {p}]
  /\ UNCHANGED <<disk, inUse, counts, nearby, reading, dict, steady, turns, scans>>

Changed(new, b, by) ==
  [a \in Audio |-> IF a \in inUse /\ AudioFiles[a].book = b
                   THEN (IF new[a] + by < 0 THEN 0 ELSE new[a] + by) ELSE new[a]]
\* Mutant: the counter goes up also for the book that has the companion already.
CountsAfterAgain(p, b) ==
  LET prev == found[p].book
      down == IF prev \in {Nothing, b} THEN counts ELSE Changed(counts, prev, -1)
  IN  Changed(down, b, 1)
CountsAfter(p, b) ==
  LET prev == found[p].book
      down == IF prev = Nothing THEN counts ELSE Changed(counts, prev, -1)
  IN  IF prev = b THEN counts ELSE Changed(down, b, 1)
SetPair(p, b) ==
  /\ counts' = CountsAfter(p, b) /\ found' = [found EXCEPT ![p].book = b]
  /\ nearby' = [nearby EXCEPT ![p] = {}]
ReplaceNearby(p, books) == nearby' = [nearby EXCEPT ![p] = books] /\ UNCHANGED <<counts, found>>
(* A companion that no book claims any more keeps the pair it has.           *)
PairOne ==
  /\ scanning # Nothing /\ scanning.at # Nothing
  /\ LET claims == AutoPair(scanning.at, scanning.candidates)
     IN  \/ Cardinality(claims) = 1 /\ \E b \in claims : SetPair(scanning.at, b)
         \/ Cardinality(claims) > 1 /\ ReplaceNearby(scanning.at, claims)
         \/ claims = {} /\ UNCHANGED <<counts, found, nearby>>
  /\ scanning' = [scanning EXCEPT !.at = Nothing]
  /\ UNCHANGED <<disk, inUse, reading, dict, steady, turns, scans>>
(* The end of it, a failing statement, or a crash.                           *)
ScanStops ==
  /\ scanning # Nothing /\ scanning' = Nothing
  /\ UNCHANGED <<disk, inUse, counts, found, nearby, reading, dict, steady, turns, scans>>
(* clear_pair, for an operator                                               *)
ClearPair(p) ==
  /\ turns < MaxTurns /\ turns' = turns + 1 /\ found[p] # Nothing /\ found[p].book # Nothing
  /\ counts' = Changed(counts, found[p].book, -1) /\ found' = [found EXCEPT ![p].book = Nothing]
  /\ UNCHANGED <<disk, inUse, nearby, scanning, reading, dict, steady, scans>>

-----------------------------------------------------------------------------
(* extract-epub-name-dict                                                    *)

(* The row with the lowest id; ids follow the order of discovery.            *)
PairedEpubs(b) ==
  {p \in Files : found[p] # Nothing /\ found[p].book = b /\ found[p].format = "epub"
                   /\ found[p].tier = "text_extractable"}
(* A row of the current version ends it, whatever it was made of.            *)
ReadEpub(b) ==
  /\ dict[b] = Nothing /\ reading[b] = Nothing
  /\ \E p \in PairedEpubs(b) :
       /\ disk[p] # Nothing /\ DetectFormat(disk[p].head) = "epub"
       /\ reading' = [reading EXCEPT ![b] = [file |-> p, text |-> disk[p].text]]
  /\ UNCHANGED <<disk, inUse, counts, found, nearby, scanning, dict, steady, turns, scans>>
(* The cache row and parsed_at, one transaction.                             *)
WriteNameDict(b) ==
  /\ reading[b] # Nothing
  /\ dict' = [dict EXCEPT ![b] = reading[b]]
  /\ found' = [found EXCEPT ![reading[b].file].parsed = TRUE]
  /\ reading' = [reading EXCEPT ![b] = Nothing]
  /\ UNCHANGED <<disk, inUse, counts, nearby, scanning, steady, turns, scans>>

CoStep ==
  \/ \E p \in Files : DiskTurns(p) \/ PersistOne(p) \/ ClearPair(p)
  \/ \E a \in Audio : AudioTurns(a)
  \/ \E b \in Books : ReadEpub(b) \/ WriteNameDict(b)
  \/ ScanBegins \/ PairOne \/ ScanStops
CoSpec == CoInit /\ [][CoStep]_coVars

-----------------------------------------------------------------------------
CoTypeOK ==
  /\ disk \in [Files -> OptionOf(Content)] /\ inUse \subseteq Audio /\ steady \subseteq inUse
  /\ counts \in [Audio -> Nat] /\ nearby \in [Files -> SUBSET Books]
  /\ \A a \in steady : counts[a] <= Cardinality(Files)
  /\ found \in [Files -> OptionOf(CompanionRows)]

PairedWith(b) == {p \in Files : found[p] # Nothing /\ found[p].book = b}
(* The number that a book's file carries is the number of companions that    *)
(* are paired with the book, however scans, new pairs and an operator meet:  *)
(* as long as the file stays in use.                                         *)
CountsKept == \A a \in steady : counts[a] = Cardinality(PairedWith(AudioFiles[a].book))

(* Observed: a file that was out of use while pairs were made carries a      *)
(* number of its own.                                                        *)
CountsSumUp == \A a \in inUse : counts[a] = Cardinality(PairedWith(AudioFiles[a].book))
(* Observed: a dictionary stays when its EPUB is another one, or another     *)
(* book's.                                                                   *)
DictIsOfPair ==
  \A b \in Books : dict[b] # Nothing => found[dict[b].file].book = b
=============================================================================
