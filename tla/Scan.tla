-------------------------------- MODULE Scan --------------------------------
(***************************************************************************)
(* The library scan (crates/scan/src/lib.rs): a walk of the directory tree, *)
(* grouped by directory, then one transaction per audio file that finds,   *)
(* moves or inserts its book_files row, then the box-set heuristic.        *)
(*                                                                         *)
(* Scans are HTTP requests: several may run at once, one may be dropped    *)
(* half way, and the files change while they run.  A directory is a        *)
(* sequence of names, a file's content stands for its (size, mtime, head)  *)
(* hash.  A file is hashed before its transaction begins: the disk may have *)
(* changed, and another scan have been there, when the transaction runs.   *)
(***************************************************************************)
EXTENDS Naturals, Sequences, FiniteSets

CONSTANTS
  Paths,       \* records [dir, name, ext]
  Ignored,     \* paths that are excluded or have no audio extension
  Contents,
  Nothing,     \* no file; the hash of a file that is gone (SQL NULL)
  Library,     \* the library root, a directory
  Roots,       \* the directories a request may scan
  DirOrder,    \* the directories in path order (a BTreeMap's)
  Scanners,    \* scan requests that may be in progress at once
  MaxScans,    \* bound: scan requests; one that overlaps another counts twice
  MaxChanges   \* bound: changes by others (files and deleted books), overlaps

Dirs == {DirOrder[i] : i \in DOMAIN DirOrder}
Under(root) == {d \in Dirs : /\ Len(root) <= Len(d)
                             /\ SubSeq(d, 1, Len(root)) = root}
Parent(d) == SubSeq(d, 1, Len(d) - 1)
Row == [book : Nat, path : Paths, hash : Contents \cup {Nothing}]
File == [path : Paths, hash : Contents \cup {Nothing}]
NoBook == 0

ASSUME ScanAssumption ==
  /\ Nothing \notin Contents
  /\ Ignored \subseteq Paths
  /\ DirOrder \in Seq(Seq(STRING))
  /\ IsFiniteSet(Paths) /\ \A p \in Paths : p.dir \in Under(Library)
  /\ Roots \subseteq Dirs /\ Library \in Roots
  /\ MaxScans \in Nat /\ MaxChanges \in Nat

VARIABLES
  disk,     \* the content at each path
  books,    \* the scan that created each book; an id is a position
  purged,   \* books deleted by force, with their rows
  rows,     \* book_files
  boxSets,  \* book_collections the scanner wrote: [name, members]
  scans,    \* the scan requests in progress or just answered
  begun,    \* scan requests so far
  changes,  \* changes so far
  quiet     \* history: whole, error-free scans of the library, one after the
            \* other, since the last change and the last row moved by a hash
            \* that was read before it

vars == <<disk, books, purged, rows, boxSets, scans, begun, changes, quiet>>
tables == <<books, purged, rows, boxSets>>

\* A request: its walk (directories unread, files seen), the group in hand
\* (files left, the one that has been hashed, book_id, idx == 0) and the new
\* books of its report.
Scan == [phase : {"idle", "scanning", "boxing", "done"},
         id : Nat, root : Dirs, unread : SUBSET Dirs, seen : SUBSET Paths,
         group : SUBSET Paths, hashed : SUBSET File,
         multi : BOOLEAN, first : BOOLEAN, book : Nat,
         candidates : SUBSET [name : STRING, members : SUBSET Nat],
         new : Seq(Nat), clean : BOOLEAN]

Idle == [phase |-> "idle", id |-> 0, root |-> Library, unread |-> {},
         seen |-> {}, group |-> {}, hashed |-> {}, multi |-> FALSE, first |-> FALSE,
         book |-> NoBook, candidates |-> {}, new |-> <<>>, clean |-> FALSE]

Init ==
  /\ disk \in [Paths -> Contents \cup {Nothing}]
  /\ books = <<>> /\ purged = {} /\ rows = {} /\ boxSets = {}
  /\ scans = [s \in Scanners |-> Idle]
  /\ begun = 0 /\ changes = 0 /\ quiet = 0

Books == (1 .. Len(books)) \ purged
AtPath(p) == {r \in rows : r.path = p}
WithHash(h) == {r \in rows : r.hash = h /\ h # Nothing}
Visible == {p \in Paths \ Ignored : disk[p] # Nothing}

(***************************************************************************)
(* The world: files come, go, are moved and rewritten (by their owner or   *)
(* by the tag writer), and a book is deleted by force.                     *)
(***************************************************************************)
Change(n) == changes + n <= MaxChanges /\ changes' = changes + n

Disturbed == /\ scans' = [s \in Scanners |-> [scans[s] EXCEPT !.clean = FALSE]]
             /\ quiet' = 0
             /\ Change(1)
             /\ UNCHANGED <<begun, boxSets, books>>

Put(p, c) == /\ disk[p] # c
             /\ disk' = [disk EXCEPT ![p] = c]
             /\ Disturbed /\ UNCHANGED <<purged, rows>>

Rename(p, q) == /\ disk[p] # Nothing /\ p # q
                /\ disk' = [disk EXCEPT ![q] = disk[p], ![p] = Nothing]
                /\ Disturbed /\ UNCHANGED <<purged, rows>>

\* ON DELETE CASCADE takes the book's files and its collection memberships;
\* the latter are of no concern here.
Purge(b) == /\ b \in Books
            /\ purged' = purged \cup {b}
            /\ rows' = {r \in rows : r.book # b}
            /\ Disturbed /\ UNCHANGED disk

(***************************************************************************)
(* The walk.  Each directory is read at some moment of its own.            *)
(***************************************************************************)
Overlaps(s) == \E t \in Scanners \ {s} : scans[t].phase \notin {"idle", "done"}

Begin(s, root) ==
  /\ scans[s].phase \in {"idle", "done"}
  /\ begun' = begun + (IF Overlaps(s) THEN 2 ELSE 1) /\ begun' <= MaxScans
  /\ Change(IF Overlaps(s) THEN 1 ELSE 0)
  /\ scans' = [scans EXCEPT ![s] =
       [Idle EXCEPT !.phase = "scanning", !.id = begun', !.root = root,
                    !.unread = {d \in Under(root) : \E p \in Paths : p.dir = d},
                    !.clean = (root = Library)]]
  /\ UNCHANGED <<tables, disk, quiet>>

Walk(s, d) ==
  /\ scans[s].phase = "scanning" /\ d \in scans[s].unread
  /\ scans' = [scans EXCEPT ![s].unread = @ \ {d},
                            ![s].seen = @ \cup {p \in Visible : p.dir = d}]
  /\ UNCHANGED <<tables, disk, begun, changes, quiet>>

(***************************************************************************)
(* process_group: the directories in order, the files of one in the order  *)
(* the walk met them, which is the file system's.                          *)
(***************************************************************************)
SameExtension(files) == \A p, q \in files : p.ext = q.ext
MultiFile(files) == Cardinality(files) >= 2 /\ SameExtension(files)

\* The first directory, in path order, with files of the walk left.
NextDir(s) ==
  LET here(i) == {p \in scans[s].seen : p.dir = DirOrder[i]}
  IN  CHOOSE i \in DOMAIN DirOrder :
        /\ here(i) # {}
        /\ \A j \in 1 .. i - 1 : here(j) = {}

OpenGroup(s) ==
  /\ scans[s].phase = "scanning" /\ scans[s].unread = {}
  /\ scans[s].group = {} /\ scans[s].seen # {}
  /\ LET files == {p \in scans[s].seen : p.dir = DirOrder[NextDir(s)]}
     IN  scans' = [scans EXCEPT ![s].group = files,
                                ![s].seen = @ \ files,
                                ![s].multi = MultiFile(files),
                                ![s].first = TRUE,
                                ![s].book = NoBook]
  /\ UNCHANGED <<tables, disk, begun, changes, quiet>>

\* compute_file_hash: of the file as it is now, before the transaction begins.
HashFile(s, p) ==
  /\ scans[s].phase = "scanning" /\ p \in scans[s].group /\ scans[s].hashed = {}
  /\ scans' = [scans EXCEPT ![s].hashed = {[path |-> p, hash |-> disk[p]]}]
  /\ UNCHANGED <<tables, disk, begun, changes, quiet>>

\* What a file's outcome leaves behind: the hint for the rest of a multi-file
\* group, and idx > 0.
\* Mutant: the loop ends at the first file that needed nothing or one write
CarryReturns(scan, p, b) == [scan EXCEPT !.group = {}, !.hashed = {}, !.first = FALSE]
Carry(scan, p, b) ==
  [scan EXCEPT !.group = @ \ {p}, !.hashed = {}, !.first = FALSE,
               !.book = IF scan.multi THEN b ELSE NoBook]

\* Path-known shortcut.  The row's hash is not looked at.
PathKnown(s, f) ==
  /\ f \in scans[s].hashed
  /\ \E r \in AtPath(f.path) :
       scans' = [scans EXCEPT ![s] = Carry(@, f.path, r.book)]
  /\ UNCHANGED <<tables, disk, begun, changes, quiet>>

\* Hash-known: the row follows the content, wherever its old path leads now.
\* Mutant: UPDATE ... WHERE book_id
SetPathOfBook(r, p) == {x \in rows : x.book # r.book} \cup {[r EXCEPT !.path = p]}
SetPath(r, p) == (rows \ {r}) \cup {[r EXCEPT !.path = p]}
\* A row that follows a hash the file no longer has: what scans have settled
\* so far may be undone, so that quiet and clean begin again.
Stale(f) == disk[f.path] # f.hash
Moved(s, f) ==
  /\ f \in scans[s].hashed /\ AtPath(f.path) = {}
  /\ \E r \in WithHash(f.hash) :
       /\ rows' = SetPath(r, f.path)
       /\ scans' = [t \in Scanners |->
            [(IF t = s THEN Carry(scans[s], f.path, r.book) ELSE scans[t])
               EXCEPT !.clean = @ /\ ~Stale(f)]]
  /\ quiet' = IF Stale(f) THEN 0 ELSE quiet
  /\ UNCHANGED <<books, purged, boxSets, disk, begun, changes>>

\* A multi-file group reports the book of its first insert only.
\* Mutant: without the idx == 0 test
ReportsEach(scan) == TRUE
Reports(scan) == scan.multi => scan.first
\* Mutant: the hash is looked up for new books only
HashKnownFirst(scan, h) == scan.book = NoBook /\ WithHash(h) # {}
HashKnown(scan, h) == WithHash(h) # {}

\* book_files.book_id REFERENCES books.
\* Mutant: without foreign keys
BookExistsUnchecked(b) == TRUE
BookExists(b) == b \notin purged

Inserted(s, f) ==
  LET scan == scans[s]
      fresh == scan.book = NoBook
      b == IF fresh THEN Len(books) + 1 ELSE scan.book
  IN  /\ f \in scan.hashed /\ AtPath(f.path) = {} /\ ~HashKnown(scan, f.hash)
      /\ BookExists(b)
      /\ books' = IF fresh THEN Append(books, scan.id) ELSE books
      /\ rows' = rows \cup {[book |-> b, path |-> f.path, hash |-> f.hash]}
      /\ scans' = [scans EXCEPT ![s] =
           [Carry(scan, f.path, b) EXCEPT
              !.new = IF Reports(scan) THEN Append(@, b) ELSE @]]
      /\ UNCHANGED <<purged, boxSets, disk, begun, changes, quiet>>

\* A statement fails (a busy database; a foreign key when the hint's book was
\* purged): the rest of the group is given up, what is committed stays.
GroupFails(s) ==
  /\ scans[s].phase = "scanning" /\ scans[s].group # {}
  /\ scans' = [scans EXCEPT ![s].group = {}, ![s].hashed = {}, ![s].clean = FALSE]
  /\ UNCHANGED <<tables, disk, begun, changes, quiet>>

(***************************************************************************)
(* detect_and_persist_box_sets.                                            *)
(***************************************************************************)
\* dir: a directory for every book with files below the root.
Below(root) == {r \in rows : r.path.dir \in Under(root)}
Samples(root) ==
  LET held(b) == {r.path.dir : r \in {x \in Below(root) : x.book = b}}
      found == {r.book : r \in Below(root)}
  IN  {dir \in [found -> Dirs] : \A b \in found : dir[b] \in held(b)}

Nested(dir, grand) ==
  \E b \in DOMAIN dir : /\ dir[b] \in Under(grand)
                        /\ dir[b] # grand /\ Parent(dir[b]) # grand

BoxSetsOf(root, dir) ==
  LET children(g) == {b \in DOMAIN dir : dir[b] # <<>> /\ Parent(dir[b]) = g}
      grands == {Parent(dir[b]) : b \in {x \in DOMAIN dir : dir[x] # <<>>}}
      kept == {g \in grands : /\ Cardinality(children(g)) >= 2
                              /\ g # root /\ g # <<>>
                              /\ ~Nested(dir, g)}
  IN  {[name |-> g[Len(g)], members |-> children(g)] : g \in kept}

DetectBoxSets(s) ==
  /\ scans[s].phase = "scanning"
  /\ scans[s].unread = {} /\ scans[s].seen = {} /\ scans[s].group = {}
  /\ \E dir \in Samples(scans[s].root) :
       scans' = [scans EXCEPT ![s].phase = "boxing",
                   ![s].multi = FALSE, ![s].first = FALSE, ![s].book = NoBook,
                   ![s].candidates = BoxSetsOf(scans[s].root, dir)]
  /\ UNCHANGED <<tables, disk, begun, changes, quiet>>

\* A name that is taken is left alone; a member that is gone rolls back.
PersistBoxSet(s, x) ==
  /\ scans[s].phase = "boxing" /\ x \in scans[s].candidates
  /\ scans' = [scans EXCEPT ![s].candidates = @ \ {x}]
  /\ boxSets' = IF /\ \A y \in boxSets : y.name # x.name
                   /\ x.members \subseteq Books
                THEN boxSets \cup {x} ELSE boxSets
  /\ UNCHANGED <<books, purged, rows, disk, begun, changes, quiet>>

\* quiet counts scans that do not overlap.
Finish(s) ==
  /\ scans[s].phase = "boxing" /\ scans[s].candidates = {}
  /\ scans' = [t \in Scanners |->
       [scans[t] EXCEPT !.phase = IF t = s THEN "done" ELSE @,
                        !.clean = @ /\ (t # s => ~scans[s].clean)]]
  /\ quiet' = IF scans[s].clean THEN quiet + 1 ELSE quiet
  /\ UNCHANGED <<tables, disk, begun, changes>>

\* The client goes away and its request is dropped, its report with it.
Drop(s) ==
  /\ scans[s].phase \notin {"idle", "done"}
  /\ scans' = [scans EXCEPT ![s] = Idle]
  /\ UNCHANGED <<tables, disk, begun, changes, quiet>>

World == \/ \E p \in Paths, c \in Contents \cup {Nothing} : Put(p, c)
         \/ \E p, q \in Paths : Rename(p, q)
         \/ \E b \in Books : Purge(b)

Request(s) == \/ \E root \in Roots : Begin(s, root)
              \/ \E d \in Dirs : Walk(s, d)
              \/ OpenGroup(s)
              \/ \E p \in Paths : HashFile(s, p)
              \/ \E f \in scans[s].hashed : PathKnown(s, f) \/ Moved(s, f) \/ Inserted(s, f)
              \/ GroupFails(s)
              \/ DetectBoxSets(s)
              \/ \E x \in scans[s].candidates : PersistBoxSet(s, x)
              \/ Finish(s)
              \/ Drop(s)

Next == World \/ \E s \in Scanners : Request(s)
Spec == Init /\ [][Next]_vars

(***************************************************************************)
(* Properties.                                                             *)
(***************************************************************************)
\* The types, and every row belongs to a book that exists.
TypeOK ==
  /\ disk \in [Paths -> Contents \cup {Nothing}]
  /\ books \in Seq(Nat) /\ purged \subseteq 1 .. Len(books)
  /\ rows \subseteq Row /\ \A r \in rows : r.book \in Books
  /\ scans \in [Scanners -> Scan]
  /\ begun \in 0 .. MaxScans /\ changes \in 0 .. MaxChanges
  /\ quiet \in Nat

\* However scans and file operations interleave, no content is recorded twice
\* ("doesn't double-insert") and no path has two rows (the UNIQUE column is
\* never what stops an insert).
NoTwins ==
  \A r1, r2 \in rows :
    r1 # r2 => /\ r1.path # r2.path
               /\ r1.hash # Nothing => r1.hash # r2.hash

\* A book is announced to the pipeline exactly once: it is in the report of
\* the request that created it, once, and in no other; else its stages are
\* never queued, or queued twice.
ReportedOnce ==
  \A s \in Scanners : \A b \in 1 .. Len(books) :
    /\ Cardinality({i \in DOMAIN scans[s].new : scans[s].new[i] = b})
         = IF books[b] = scans[s].id THEN 1 ELSE 0

Distinct == \A p, q \in Visible : p # q => disk[p] # disk[q]
Covered == \A p \in Visible : AtPath(p) # {}

\* While the disk rests and no two files have the same hash, a row that tells
\* the truth is taken from its file only by a scan that hashed a file before
\* the disk changed, whatever the scans do.
TellsTruth(r) == r.path \in Visible /\ disk[r.path] = r.hash
TrueRowsStay ==
  [][disk' = disk /\ purged' = purged /\ Distinct =>
       \A r \in rows :
         TellsTruth(r) => \/ r \in rows'
                          \/ \E s \in Scanners : \E f \in scans[s].hashed :
                               Stale(f) /\ scans'[s].hashed = {}]_vars

\* Observed: between the hash and the transaction the file may be renamed and
\* another scan have recorded it; the row goes back to the path it came from.
TrueRowsAlwaysStay ==
  [][disk' = disk /\ purged' = purged /\ Distinct =>
       \A r \in rows : TellsTruth(r) => r \in rows']_vars

\* Renaming files along a chain makes one scan take a row from a path it has
\* already passed; still, as many undisturbed scans as there are files always
\* leave a row at every path.
Converges ==
  Distinct /\ quiet >= Cardinality(Visible) => Covered

\* lib.rs:10: "a directory containing >=2 audio files of the same extension
\* is treated as one book".
DirectoryIsOneBook ==
  \A s \in Scanners : \A d \in Dirs :
    LET files == {p \in Visible : p.dir = d}
    IN  /\ scans[s].phase = "done" /\ scans[s].clean /\ Distinct
        /\ MultiFile(files)
        => \A r1, r2 \in rows : {r1.path, r2.path} \subseteq files
             => r1.book = r2.book
=============================================================================
