-------------------------------- MODULE Shelf --------------------------------
(* The shelf that players of other makes read from (shelf/items, files,      *)
(* cover): the files of a book, and their bytes, asked for in ranges.  A     *)
(* byte is the revision of its file and its place.                           *)
EXTENDS Common, Sequences, SequencesExt

CONSTANTS
  BookOf,     \* file id -> its book
  Lengths,    \* lengths of a file
  Ranges,     \* headers: none, malformed, from one byte on, or a number of last bytes
  MaxRewrites \* bound: changes of files and rows

VARIABLES
  onDisk,   \* file -> its revision and length, Nothing if it is gone
  fileRow,  \* file -> its row of book_files: size and is_active
  known,    \* the files of the item that the player has read
  playing,  \* the file it plays: the bytes it has, and the total it was told
  even,     \* whether file and row agreed and stood still while it was played; a history variable
  rewrites

shVars == <<onDisk, fileRow, known, playing, even, rewrites>>

FileIds == DOMAIN BookOf
ASSUME ShelfAssumption ==
  /\ FileIds \subseteq Nat /\ IsFiniteSet(FileIds) /\ Lengths \subseteq Nat /\ MaxRewrites \in Nat
  /\ Nothing \notin Nat /\ Nothing \notin [first : Nat, last : Int] /\ Nothing \notin [rev : Nat, len : Lengths]
  /\ \A range \in Ranges :
       /\ range.kind \in {"none", "malformed", "from", "suffix"}
       /\ range.first \in Nat /\ range.last \in OptionOf(Nat)

Bytes(content, from, to) == [n \in 1 .. to - from + 1 |-> [rev |-> content.rev, at |-> from + n - 1]]
-----------------------------------------------------------------------------
(* parse_range_header: from first to last, both taken in.  Units other than  *)
(* bytes, several ranges, and numbers beyond 64 bits are malformed.          *)
\* Mutant: an end behind the file is not cut.
ParseRangeHeaderLong(range, total) ==
  CASE range.kind = "suffix" ->
         IF range.first = 0 \/ total = 0 THEN Nothing
         ELSE [first |-> IF range.first > total THEN 0 ELSE total - range.first, last |-> total - 1]
    [] range.kind = "from" ->
         IF range.first >= total \/ (range.last # Nothing /\ range.last < range.first) THEN Nothing
         ELSE [first |-> range.first, last |-> IF range.last = Nothing THEN total - 1 ELSE range.last]
    [] OTHER -> Nothing
ParseRangeHeader(range, total) ==
  CASE range.kind = "suffix" ->
         IF range.first = 0 \/ total = 0 THEN Nothing
         ELSE [first |-> IF range.first > total THEN 0 ELSE total - range.first, last |-> total - 1]
    [] range.kind = "from" ->
         IF range.first >= total \/ (range.last # Nothing /\ range.last < range.first) THEN Nothing
         ELSE [first |-> range.first, last |-> IF range.last = Nothing \/ range.last > total - 1 THEN total - 1 ELSE range.last]
    [] OTHER -> Nothing

(* stream_file: the size is that of the row, if it has one.  Fewer bytes than*)
(* announced are sent when the file is shorter.                              *)
TotalOf(f) == IF fileRow[f].size # Nothing /\ fileRow[f].size > 0 THEN fileRow[f].size ELSE onDisk[f].len
Upto(f, last) == IF last < onDisk[f].len THEN last ELSE onDisk[f].len - 1
StreamFile(f, range) ==
  IF ~fileRow[f].active THEN [code |-> 404]
  ELSE IF onDisk[f] = Nothing THEN [code |-> 500]
  ELSE IF range.kind = "none"
       THEN [code |-> 200, total |-> TotalOf(f), body |-> Bytes(onDisk[f], 0, Upto(f, TotalOf(f) - 1))]
  ELSE LET part == ParseRangeHeader(range, TotalOf(f))
       IN  IF part = Nothing THEN [code |-> 416, total |-> TotalOf(f)]
           ELSE [code |-> 206, total |-> TotalOf(f), from |-> part.first,
                 body |-> Bytes(onDisk[f], part.first, Upto(f, part.last))]

(* get_item: the files in use, in the order of their ids; get_cover, by a    *)
(* query of its own, the first of them.  Deleted books are served like any   *)
(* other.                                                                    *)
ActiveFiles(b) == {f \in FileIds : BookOf[f] = b /\ fileRow[f].active}
GetItem(b) == OrderedBy(ActiveFiles(b), <)
FirstFile(files) == CHOOSE f \in files : \A g \in files : f <= g
\* Mutant: the query has lost its is_active = 1.
GetCoverOfAny(b) ==
  LET files == {f \in FileIds : BookOf[f] = b}
  IN  IF ActiveFiles(b) = {} THEN Nothing ELSE onDisk[FirstFile(files)]
GetCover(b) == IF ActiveFiles(b) = {} THEN Nothing ELSE onDisk[FirstFile(ActiveFiles(b))]

-----------------------------------------------------------------------------
ShInit ==
  /\ onDisk \in [FileIds -> [rev : {1}, len : Lengths]]
  /\ fileRow \in [FileIds -> [size : OptionOf(Lengths), active : {TRUE}]]
  /\ \A f \in FileIds : fileRow[f].size \in {Nothing, onDisk[f].len}
  /\ known = <<>> /\ playing = Nothing /\ even = TRUE /\ rewrites = 0

ItemRead(b) ==
  /\ known' = GetItem(b) /\ playing' = Nothing /\ even' = TRUE /\ UNCHANGED <<onDisk, fileRow, rewrites>>
PlayBegins(f) ==
  /\ f \in ToSet(known) /\ playing = Nothing
  /\ playing' = [file |-> f, got |-> <<>>, total |-> Nothing]
  /\ even' = (onDisk[f] # Nothing /\ fileRow[f].size \in {Nothing, onDisk[f].len})
  /\ UNCHANGED <<onDisk, fileRow, known, rewrites>>
(* The player asks for what comes next; the connection may break anywhere.   *)
PlayOn(range) ==
  /\ playing # Nothing /\ playing.total # Len(playing.got)
  /\ range.kind \in {"none", "from"}
  /\ IF range.kind = "none" THEN playing.got = <<>> ELSE range.first = Len(playing.got)
  /\ LET reply == StreamFile(playing.file, range)
     IN  /\ reply.code \in {200, 206}
         /\ \E cut \in 0 .. Len(reply.body) :
              playing' = [playing EXCEPT !.got = @ \o SubSeq(reply.body, 1, cut), !.total = reply.total]
  /\ UNCHANGED <<onDisk, fileRow, known, even, rewrites>>

Uneven(f) == even' = (even /\ (playing # Nothing => playing.file # f))
(* A tag is written, a jingle is cut: the file is another one, its row is as *)
(* it was until a scan looks at it.                                          *)
FileRewritten(f) ==
  /\ rewrites < MaxRewrites /\ rewrites' = rewrites + 1
  /\ onDisk[f] # Nothing
  /\ \E len \in Lengths : onDisk' = [onDisk EXCEPT ![f] = [rev |-> @.rev + 1, len |-> len]]
  /\ Uneven(f) /\ UNCHANGED <<fileRow, known, playing>>
ScanSees(f) ==
  /\ onDisk[f] # Nothing /\ fileRow' = [fileRow EXCEPT ![f].size = onDisk[f].len] /\ fileRow' # fileRow
  /\ Uneven(f) /\ UNCHANGED <<onDisk, known, playing, rewrites>>
(* A conversion takes the file out of use, and a cleanup off the disk.       *)
FileRetired(f) ==
  /\ rewrites < MaxRewrites /\ rewrites' = rewrites + 1
  /\ \/ fileRow[f].active /\ fileRow' = [fileRow EXCEPT ![f].active = FALSE] /\ UNCHANGED onDisk
     \/ onDisk[f] # Nothing /\ onDisk' = [onDisk EXCEPT ![f] = Nothing] /\ UNCHANGED fileRow
  /\ Uneven(f) /\ UNCHANGED <<known, playing>>
ShStep ==
  \/ \E b \in Books : ItemRead(b)
  \/ \E f \in FileIds : PlayBegins(f) \/ FileRewritten(f) \/ ScanSees(f) \/ FileRetired(f)
  \/ \E range \in Ranges : PlayOn(range)
ShSpec == ShInit /\ [][ShStep]_shVars

-----------------------------------------------------------------------------
ShTypeOK ==
  /\ \A f \in FileIds : fileRow[f].size \in OptionOf(Lengths) /\ fileRow[f].active \in BOOLEAN
  /\ ToSet(known) \subseteq FileIds /\ rewrites \in 0 .. MaxRewrites /\ even \in BOOLEAN
  /\ playing # Nothing => playing.file \in FileIds /\ playing.total \in OptionOf(Lengths)

(* What a player has put together, piece by piece and over broken            *)
(* connections, is the beginning of the file, all of it at the total that it *)
(* was told; and a range is what RFC 7233 makes of it: the bytes of the file *)
(* that it names, or refused if there is none.  As long as file and row are  *)
(* of one mind.                                                              *)
PlayedWhole ==
  /\ playing # Nothing /\ even =>
       LET content == onDisk[playing.file]
       IN  /\ playing.got = Bytes(content, 0, Len(playing.got) - 1)
           /\ playing.total = Len(playing.got) => Len(playing.got) = content.len
  /\ \A f \in FileIds : \A range \in {r \in Ranges : r.kind \in {"from", "suffix"}} :
       LET total == IF onDisk[f] = Nothing THEN 0 ELSE onDisk[f].len
           part == ParseRangeHeader(range, total)
           named == {n \in 0 .. total - 1 :
                       IF range.kind = "suffix" THEN n >= total - range.first
                       ELSE n >= range.first /\ (range.last # Nothing => n <= range.last)}
       IN  IF named = {} THEN part = Nothing ELSE part # Nothing /\ part.first .. part.last = named

(* The cover of an item is that of the file which the item lists first       *)
(* (cover.rs:61-63): two queries, one order.                                 *)
CoverOfItem ==
  \A b \in Books : GetCover(b) = IF GetItem(b) = <<>> THEN Nothing ELSE onDisk[GetItem(b)[1]]

(* Observed: a file that a tag write has made longer ends, for a player, at  *)
(* its old size; one that a cut has made shorter never ends.                 *)
TotalIsTrue ==
  \A f \in FileIds : fileRow[f].active /\ onDisk[f] # Nothing => TotalOf(f) = onDisk[f].len
=============================================================================
