----------------------------- MODULE ScanProofs -----------------------------
(* Proofs about Scan, for any set of files, tree, scanners and bounds.       *)
EXTENDS Scan, FiniteSetTheorems, TLAPS

\* What the typing of a request needs beyond its type: the files in hand were
\* taken from the walk, the one that has been hashed is one of them, a request
\* that has left its groups holds none, and the hint is a book that was created.
Shape ==
  \A s \in Scanners :
    /\ scans[s].seen \subseteq Paths \ Ignored
    /\ scans[s].group \subseteq Paths \ Ignored
    /\ scans[s].phase # "scanning" =>
         scans[s].unread = {} /\ scans[s].seen = {} /\ scans[s].group = {}
    /\ \A f \in scans[s].hashed : f.path \in scans[s].group
    /\ scans[s].book <= Len(books)

\* The files whose row tells the truth.
Truthful == {p \in Visible : \E r \in rows : r.path = p /\ r.hash = disk[p]}

\* Every file the request has been at, it has left with a row.
PassedCovered(s) ==
  \A p \in Visible : \/ p.dir \in scans[s].unread
                     \/ p \in scans[s].seen \/ p \in scans[s].group
                     \/ AtPath(p) # {}

\* Either no file lacks a row, or every undisturbed scan has made one more row
\* truthful; one that has not yet has passed covered files only.
Gains ==
  Distinct =>
    /\ Covered \/ Cardinality(Truthful) >= quiet
    /\ \A s \in Scanners :
         scans[s].clean /\ scans[s].phase \in {"scanning", "boxing"} =>
           \/ Covered \/ Cardinality(Truthful) >= quiet + 1
           \/ PassedCovered(s)

\* What ScanAssumption says of the files.
LEMMA Files ==
  /\ IsFiniteSet(Paths)
  /\ \A p \in Paths : p.dir \in Under(Library) /\ p.dir \in Dirs
  /\ Nothing \notin Contents /\ Library \in Dirs /\ Roots \subseteq Dirs
  BY ScanAssumption DEF Under

LEMMA IdleType == Idle \in Scan
<1>1. <<>> \in Seq(Nat)
  OBVIOUS
<1>2. QED
  BY <1>1, Files DEF Idle, Scan, NoBook

\* Under and Carry stay in their types.
LEMMA CarryType ==
  ASSUME NEW scan \in Scan, NEW p, NEW b \in Nat
  PROVE  /\ Carry(scan, p, b) \in Scan
         /\ Carry(scan, p, b).seen = scan.seen
         /\ Carry(scan, p, b).unread = scan.unread
         /\ Carry(scan, p, b).phase = scan.phase
         /\ Carry(scan, p, b).clean = scan.clean
         /\ Carry(scan, p, b).group = scan.group \ {p}
         /\ Carry(scan, p, b).hashed = {}
         /\ Carry(scan, p, b).new = scan.new
         /\ Carry(scan, p, b).book \in {0, b}
  BY DEF Carry, Scan, NoBook

\* The box sets a detection pass finds are named sets of books.
LEMMA BoxSetType ==
  ASSUME rows \subseteq Row, NEW root, NEW dir \in Samples(root)
  PROVE  BoxSetsOf(root, dir) \subseteq [name : STRING, members : SUBSET Nat]
<1>1. Dirs \subseteq Seq(STRING)
  BY ScanAssumption DEF Dirs
<1> DEFINE found == {r.book : r \in Below(root)}
<1>2. dir \in [found -> Dirs]
  BY DEF Samples
<1>3. found \subseteq Nat
  BY DEF Below, Row
<1>4. DOMAIN dir \subseteq Nat
  BY <1>2, <1>3
<1>5. ASSUME NEW b \in DOMAIN dir, dir[b] # <<>>, Parent(dir[b]) # <<>>
      PROVE  Parent(dir[b])[Len(Parent(dir[b]))] \in STRING
  <2>1. dir[b] \in Seq(STRING)
    BY <1>1, <1>2
  <2>2. Parent(dir[b]) \in Seq(STRING)
    BY <2>1 DEF Parent
  <2>3. Len(Parent(dir[b])) \in DOMAIN Parent(dir[b])
    BY <2>2, <1>5
  <2>4. QED
    BY <2>2, <2>3
<1> DEFINE children(g) == {b \in DOMAIN dir : dir[b] # <<>> /\ Parent(dir[b]) = g}
<1>6. ASSUME NEW x \in BoxSetsOf(root, dir)
      PROVE  \E b \in DOMAIN dir :
               /\ dir[b] # <<>> /\ Parent(dir[b]) # <<>>
               /\ x = [name |-> Parent(dir[b])[Len(Parent(dir[b]))],
                       members |-> children(Parent(dir[b]))]
  BY Zenon DEF BoxSetsOf
<1>7. ASSUME NEW g PROVE children(g) \in SUBSET Nat
  BY <1>4
<1> HIDE DEF children
<1>8. ASSUME NEW x \in BoxSetsOf(root, dir)
      PROVE  x \in [name : STRING, members : SUBSET Nat]
  <2>1. PICK b \in DOMAIN dir :
          /\ dir[b] # <<>> /\ Parent(dir[b]) # <<>>
          /\ x = [name |-> Parent(dir[b])[Len(Parent(dir[b]))],
                  members |-> children(Parent(dir[b]))]
    BY <1>6
  <2>2. Parent(dir[b])[Len(Parent(dir[b]))] \in STRING
    BY <1>5, <2>1
  <2>3. children(Parent(dir[b])) \in SUBSET Nat
    BY <1>7
  <2>4. QED
    BY <2>1, <2>2, <2>3
<1>9. QED
  BY <1>8

-----------------------------------------------------------------------------
(* Types, shape and the uniqueness of rows.                                  *)

ScanInv == TypeOK /\ Shape /\ NoTwins

ShapeOf(scan, n) ==
  /\ scan.seen \subseteq Paths \ Ignored
  /\ scan.group \subseteq Paths \ Ignored
  /\ scan.phase # "scanning" =>
       scan.unread = {} /\ scan.seen = {} /\ scan.group = {}
  /\ \A f \in scan.hashed : f.path \in scan.group
  /\ scan.book <= n

LEMMA ShapeIs == Shape <=> \A s \in Scanners : ShapeOf(scans[s], Len(books))
  BY DEF Shape, ShapeOf

LEMMA ReplaceScan ==
  ASSUME scans \in [Scanners -> Scan], NEW s \in Scanners, NEW scan \in Scan,
         scans' = [scans EXCEPT ![s] = scan]
  PROVE  /\ scans' \in [Scanners -> Scan]
         /\ scans'[s] = scan
         /\ \A t \in Scanners : t # s => scans'[t] = scans[t]
  OBVIOUS

\* A step of one request that leaves book_files alone.
LEMMA RequestOnly ==
  ASSUME ScanInv, NEW s \in Scanners, NEW scan \in Scan,
         scans' = [scans EXCEPT ![s] = scan],
         ShapeOf(scan, Len(books)),
         UNCHANGED <<books, purged, rows, disk>>,
         begun' \in 0 .. MaxScans, changes' \in 0 .. MaxChanges, quiet' \in Nat
  PROVE  ScanInv'
<1>1. /\ scans' \in [Scanners -> Scan]
      /\ scans'[s] = scan
      /\ \A t \in Scanners : t # s => scans'[t] = scans[t]
  BY ReplaceScan DEF ScanInv, TypeOK
<1>2. TypeOK'
  BY <1>1 DEF ScanInv, TypeOK, Books
<1>3. \A t \in Scanners : ShapeOf(scans[t], Len(books))
  BY ShapeIs DEF ScanInv
<1>4. \A t \in Scanners : ShapeOf(scans'[t], Len(books'))
  BY <1>1, <1>3
<1>5. Shape'
  BY <1>4 DEF Shape, ShapeOf
<1>6. NoTwins'
  BY DEF ScanInv, NoTwins
<1>7. QED
  BY <1>2, <1>5, <1>6 DEF ScanInv

LEMMA InitInv == Init => ScanInv
<1> SUFFICES ASSUME Init PROVE ScanInv
  OBVIOUS
<1>1. TypeOK
  <2>1. scans \in [Scanners -> Scan]
    BY IdleType DEF Init
  <2>2. begun \in 0 .. MaxScans /\ changes \in 0 .. MaxChanges /\ quiet \in Nat
    BY ScanAssumption DEF Init
  <2>3. books \in Seq(Nat) /\ purged \subseteq 1 .. Len(books)
    BY DEF Init
  <2>4. rows \subseteq Row /\ \A r \in rows : r.book \in Books
    BY DEF Init
  <2>5. QED
    BY <2>1, <2>2, <2>3, <2>4 DEF TypeOK, Init
<1>2. Shape
  BY DEF Init, Shape, Idle, NoBook
<1>3. NoTwins
  BY DEF Init, NoTwins
<1>4. QED
  BY <1>1, <1>2, <1>3 DEF ScanInv

\* What others do to the files and books.
LEMMA WorldInv == ASSUME ScanInv, World PROVE ScanInv'
<1>1. ASSUME Disturbed
      PROVE  /\ scans' \in [Scanners -> Scan]
             /\ \A t \in Scanners : ShapeOf(scans'[t], Len(books'))
             /\ begun' \in 0 .. MaxScans /\ changes' \in 0 .. MaxChanges
             /\ quiet' \in Nat /\ books' = books
  <2>1. ASSUME NEW t \in Scanners
        PROVE  /\ [scans[t] EXCEPT !.clean = FALSE] \in Scan
               /\ ShapeOf([scans[t] EXCEPT !.clean = FALSE], Len(books))
    <3>1. scans[t] \in Scan /\ ShapeOf(scans[t], Len(books))
      BY ShapeIs DEF ScanInv, TypeOK
    <3>2. QED
      BY <3>1 DEF Scan, ShapeOf
  <2>2. scans' \in [Scanners -> Scan]
    BY <1>1, <2>1 DEF Disturbed
  <2>3. \A t \in Scanners : ShapeOf(scans'[t], Len(books))
    BY <1>1, <2>1 DEF Disturbed
  <2>4. changes' \in 0 .. MaxChanges /\ begun' = begun /\ quiet' = 0 /\ books' = books
    BY <1>1, ScanAssumption DEF Disturbed, Change, ScanInv, TypeOK
  <2>5. QED
    BY <2>2, <2>3, <2>4 DEF ScanInv, TypeOK
<1>2. ASSUME NEW p \in Paths, NEW c \in Contents \cup {Nothing}, Put(p, c)
      PROVE  ScanInv'
  <2>1. disk' \in [Paths -> Contents \cup {Nothing}]
    BY <1>2 DEF Put, ScanInv, TypeOK
  <2>2. Disturbed /\ purged' = purged /\ rows' = rows
    BY <1>2 DEF Put
  <2>3. TypeOK' /\ NoTwins'
    BY <1>1, <2>1, <2>2 DEF ScanInv, TypeOK, Books, NoTwins
  <2>4. QED
    BY <1>1, <2>2, <2>3 DEF ScanInv, Shape, ShapeOf
<1>3. ASSUME NEW p \in Paths, NEW q \in Paths, Rename(p, q)
      PROVE  ScanInv'
  <2>1. disk' \in [Paths -> Contents \cup {Nothing}]
    BY <1>3 DEF Rename, ScanInv, TypeOK
  <2>2. Disturbed /\ purged' = purged /\ rows' = rows
    BY <1>3 DEF Rename
  <2>3. TypeOK' /\ NoTwins'
    BY <1>1, <2>1, <2>2 DEF ScanInv, TypeOK, Books, NoTwins
  <2>4. QED
    BY <1>1, <2>2, <2>3 DEF ScanInv, Shape, ShapeOf
<1>4. ASSUME NEW b \in Books, Purge(b)
      PROVE  ScanInv'
  <2>1. /\ Disturbed /\ disk' = disk
        /\ purged' = purged \cup {b}
        /\ rows' = {r \in rows : r.book # b}
    BY <1>4 DEF Purge
  <2>2. purged' \subseteq 1 .. Len(books')
    BY <1>1, <2>1 DEF ScanInv, TypeOK, Books
  <2>3. rows' \subseteq Row /\ \A r \in rows' : r.book \in Books'
    BY <1>1, <2>1 DEF ScanInv, TypeOK, Books
  <2>4. TypeOK'
    BY <1>1, <2>1, <2>2, <2>3 DEF ScanInv, TypeOK
  <2>5. NoTwins'
    BY <2>1 DEF ScanInv, NoTwins
  <2>6. QED
    BY <1>1, <2>1, <2>4, <2>5 DEF ScanInv, Shape, ShapeOf
<1>5. QED
  BY <1>2, <1>3, <1>4 DEF World

\* Steps of a request that only change the request itself.
LEMMA BeginInv ==
  ASSUME ScanInv, NEW s \in Scanners, NEW root \in Roots, Begin(s, root)
  PROVE  ScanInv'
<1> DEFINE scan == [Idle EXCEPT !.phase = "scanning", !.id = begun', !.root = root,
                      !.unread = {d \in Under(root) : \E p \in Paths : p.dir = d},
                      !.clean = (root = Library)]
<1>1. begun' \in 0 .. MaxScans
  BY ScanAssumption DEF Begin, ScanInv, TypeOK
<1>2. changes' \in 0 .. MaxChanges
  BY ScanAssumption DEF Begin, Change, ScanInv, TypeOK
<1>3. scan \in Scan /\ scan.seen = {} /\ scan.group = {} /\ scan.hashed = {} /\ scan.book = 0
      /\ scan.phase = "scanning"
  <2>1. begun' \in Nat /\ root \in Dirs
    BY <1>1, Files
  <2>2. {d \in Under(root) : \E p \in Paths : p.dir = d} \subseteq Dirs
    BY DEF Under
  <2>3. QED
    BY <2>1, <2>2, IdleType DEF Scan, Idle, NoBook
<1>4. scans' = [scans EXCEPT ![s] = scan]
  BY DEF Begin
<1>5. ShapeOf(scan, Len(books))
  BY <1>3 DEF ShapeOf, ScanInv, TypeOK
<1>6. UNCHANGED <<books, purged, rows, disk>> /\ quiet' \in Nat
  BY DEF Begin, tables, ScanInv, TypeOK
<1> HIDE DEF scan
<1>7. QED
  BY <1>1, <1>2, <1>3, <1>4, <1>5, <1>6, RequestOnly

LEMMA WalkInv ==
  ASSUME ScanInv, NEW s \in Scanners, NEW d \in Dirs, Walk(s, d)
  PROVE  ScanInv'
<1> DEFINE scan == [scans[s] EXCEPT !.unread = @ \ {d},
                      !.seen = @ \cup {p \in Visible : p.dir = d}]
<1>1. scans[s] \in Scan /\ ShapeOf(scans[s], Len(books))
  BY ShapeIs DEF ScanInv, TypeOK
<1>2. {p \in Visible : p.dir = d} \subseteq Paths \ Ignored
  BY DEF Visible
<1>3. scan \in Scan
  BY <1>1, <1>2 DEF Scan
<1>4. ShapeOf(scan, Len(books))
  BY <1>1, <1>2 DEF ShapeOf, Scan, Walk
<1>5. scans' = [scans EXCEPT ![s] = scan]
  BY DEF Walk
<1>6. /\ UNCHANGED <<books, purged, rows, disk>> /\ quiet' \in Nat
      /\ begun' \in 0 .. MaxScans /\ changes' \in 0 .. MaxChanges
  BY DEF Walk, tables, ScanInv, TypeOK
<1> HIDE DEF scan
<1>7. QED
  BY <1>3, <1>4, <1>5, <1>6, RequestOnly

LEMMA OpenGroupInv ==
  ASSUME ScanInv, NEW s \in Scanners, OpenGroup(s)
  PROVE  ScanInv'
<1> DEFINE files == {p \in scans[s].seen : p.dir = DirOrder[NextDir(s)]}
           scan == [scans[s] EXCEPT !.group = files, !.seen = @ \ files,
                      !.multi = MultiFile(files), !.first = TRUE, !.book = NoBook]
<1>1. scans[s] \in Scan /\ ShapeOf(scans[s], Len(books)) /\ Len(books) \in Nat
  BY ShapeIs DEF ScanInv, TypeOK
<1>2. files \subseteq scans[s].seen
  OBVIOUS
<1>3. scans' = [scans EXCEPT ![s] = scan]
  BY DEF OpenGroup
<1>4. scans[s].phase = "scanning" /\ scans[s].hashed = {}
  BY <1>1 DEF OpenGroup, ShapeOf
<1>5. MultiFile(files) \in BOOLEAN
  BY DEF MultiFile
<1> HIDE DEF files
<1>6. scan \in Scan
  BY <1>1, <1>2, <1>5 DEF Scan, NoBook
<1>7. ShapeOf(scan, Len(books))
  BY <1>1, <1>2, <1>4 DEF ShapeOf, Scan, NoBook
<1>8. /\ UNCHANGED <<books, purged, rows, disk>> /\ quiet' \in Nat
      /\ begun' \in 0 .. MaxScans /\ changes' \in 0 .. MaxChanges
  BY DEF OpenGroup, tables, ScanInv, TypeOK
<1> HIDE DEF scan
<1>9. QED
  BY <1>3, <1>6, <1>7, <1>8, RequestOnly

\* A file is read, and with it what it is now.
LEMMA HashFileInv ==
  ASSUME ScanInv, NEW s \in Scanners, NEW p \in Paths, HashFile(s, p)
  PROVE  ScanInv'
<1> DEFINE scan == [scans[s] EXCEPT !.hashed = {[path |-> p, hash |-> disk[p]]}]
<1>1. scans[s] \in Scan /\ ShapeOf(scans[s], Len(books)) /\ p \in scans[s].group
  BY ShapeIs DEF ScanInv, TypeOK, HashFile
<1>2. [path |-> p, hash |-> disk[p]] \in File
  BY DEF File, ScanInv, TypeOK
<1>3. scan \in Scan
  BY <1>1, <1>2 DEF Scan
<1>4. ShapeOf(scan, Len(books))
  BY <1>1 DEF ShapeOf, Scan, HashFile
<1>5. scans' = [scans EXCEPT ![s] = scan]
  BY DEF HashFile
<1>6. /\ UNCHANGED <<books, purged, rows, disk>> /\ quiet' \in Nat
      /\ begun' \in 0 .. MaxScans /\ changes' \in 0 .. MaxChanges
  BY DEF HashFile, tables, ScanInv, TypeOK
<1> HIDE DEF scan
<1>7. QED
  BY <1>3, <1>4, <1>5, <1>6, RequestOnly

LEMMA PathKnownInv ==
  ASSUME ScanInv, NEW s \in Scanners, NEW f \in scans[s].hashed, PathKnown(s, f)
  PROVE  ScanInv'
<1>1. PICK r \in AtPath(f.path) : scans' = [scans EXCEPT ![s] = Carry(scans[s], f.path, r.book)]
  BY DEF PathKnown
<1>2. scans[s] \in Scan /\ ShapeOf(scans[s], Len(books)) /\ Len(books) \in Nat
  BY ShapeIs DEF ScanInv, TypeOK
<1>3. r.book \in Nat /\ r.book <= Len(books)
  BY DEF AtPath, ScanInv, TypeOK, Books, Row
<1>4. Carry(scans[s], f.path, r.book) \in Scan
  BY <1>2, <1>3, CarryType
<1>5. ShapeOf(Carry(scans[s], f.path, r.book), Len(books))
  BY <1>2, <1>3, CarryType DEF ShapeOf
<1>6. /\ UNCHANGED <<books, purged, rows, disk>> /\ quiet' \in Nat
      /\ begun' \in 0 .. MaxScans /\ changes' \in 0 .. MaxChanges
  BY DEF PathKnown, tables, ScanInv, TypeOK
<1>7. QED
  BY <1>1, <1>4, <1>5, <1>6, RequestOnly

LEMMA GroupFailsInv ==
  ASSUME ScanInv, NEW s \in Scanners, GroupFails(s)
  PROVE  ScanInv'
<1> DEFINE scan == [scans[s] EXCEPT !.group = {}, !.hashed = {}, !.clean = FALSE]
<1>1. scans[s] \in Scan /\ ShapeOf(scans[s], Len(books))
  BY ShapeIs DEF ScanInv, TypeOK
<1>2. scan \in Scan /\ ShapeOf(scan, Len(books))
  BY <1>1 DEF Scan, ShapeOf
<1>3. scans' = [scans EXCEPT ![s] = scan]
  BY DEF GroupFails
<1>4. /\ UNCHANGED <<books, purged, rows, disk>> /\ quiet' \in Nat
      /\ begun' \in 0 .. MaxScans /\ changes' \in 0 .. MaxChanges
  BY DEF GroupFails, tables, ScanInv, TypeOK
<1> HIDE DEF scan
<1>5. QED
  BY <1>2, <1>3, <1>4, RequestOnly

LEMMA DetectBoxSetsInv ==
  ASSUME ScanInv, NEW s \in Scanners, DetectBoxSets(s)
  PROVE  ScanInv'
<1>1. PICK dir \in Samples(scans[s].root) :
        scans' = [scans EXCEPT ![s].phase = "boxing",
                    ![s].multi = FALSE, ![s].first = FALSE, ![s].book = NoBook,
                    ![s].candidates = BoxSetsOf(scans[s].root, dir)]
  BY DEF DetectBoxSets
<1> DEFINE found == BoxSetsOf(scans[s].root, dir)
           scan == [scans[s] EXCEPT !.phase = "boxing", !.multi = FALSE,
                      !.first = FALSE, !.book = NoBook, !.candidates = found]
<1>2. scans[s] \in Scan /\ ShapeOf(scans[s], Len(books)) /\ Len(books) \in Nat
  BY ShapeIs DEF ScanInv, TypeOK
<1>3. found \in SUBSET [name : STRING, members : SUBSET Nat]
  BY BoxSetType DEF ScanInv, TypeOK
<1>4. scans' = [scans EXCEPT ![s] = scan]
  BY <1>1
<1> HIDE DEF found
<1>5. scan \in Scan
  BY <1>2, <1>3 DEF Scan, NoBook
<1>6. ShapeOf(scan, Len(books))
  BY <1>2 DEF ShapeOf, Scan, NoBook, DetectBoxSets
<1>7. /\ UNCHANGED <<books, purged, rows, disk>> /\ quiet' \in Nat
      /\ begun' \in 0 .. MaxScans /\ changes' \in 0 .. MaxChanges
  BY DEF DetectBoxSets, tables, ScanInv, TypeOK
<1> HIDE DEF scan
<1>8. QED
  BY <1>4, <1>5, <1>6, <1>7, RequestOnly

LEMMA PersistBoxSetInv ==
  ASSUME ScanInv, NEW s \in Scanners, NEW x \in scans[s].candidates,
         PersistBoxSet(s, x)
  PROVE  ScanInv'
<1> DEFINE scan == [scans[s] EXCEPT !.candidates = @ \ {x}]
<1>1. scans[s] \in Scan /\ ShapeOf(scans[s], Len(books))
  BY ShapeIs DEF ScanInv, TypeOK
<1>2. scan \in Scan /\ ShapeOf(scan, Len(books))
  BY <1>1 DEF Scan, ShapeOf
<1>3. scans' = [scans EXCEPT ![s] = scan]
  BY DEF PersistBoxSet
<1>4. /\ UNCHANGED <<books, purged, rows, disk>> /\ quiet' \in Nat
      /\ begun' \in 0 .. MaxScans /\ changes' \in 0 .. MaxChanges
  BY DEF PersistBoxSet, ScanInv, TypeOK
<1> HIDE DEF scan
<1>5. QED
  BY <1>2, <1>3, <1>4, RequestOnly

LEMMA FinishInv ==
  ASSUME ScanInv, NEW s \in Scanners, Finish(s)
  PROVE  ScanInv'
<1> DEFINE scan(t) == [scans[t] EXCEPT !.phase = IF t = s THEN "done" ELSE @,
                         !.clean = @ /\ (t # s => ~scans[s].clean)]
<1>1. \A t \in Scanners : scans[t] \in Scan /\ ShapeOf(scans[t], Len(books))
  BY ShapeIs DEF ScanInv, TypeOK
<1>2. ASSUME NEW t \in Scanners PROVE scan(t) \in Scan
  <2>1. scans[t].clean \in BOOLEAN /\ scans[t].phase \in {"idle", "scanning", "boxing", "done"}
    BY <1>1 DEF Scan
  <2>2. (scans[t].clean /\ (t # s => ~scans[s].clean)) \in BOOLEAN
    OBVIOUS
  <2>3. ASSUME NEW clean \in BOOLEAN,
               NEW phase \in {"idle", "scanning", "boxing", "done"}
        PROVE  [scans[t] EXCEPT !.phase = phase, !.clean = clean] \in Scan
    BY <1>1 DEF Scan
  <2>4. QED
    BY <2>1, <2>2, <2>3
<1>3. \A t \in Scanners : ShapeOf(scan(t), Len(books))
  BY <1>1 DEF Scan, ShapeOf, Finish
<1>4. scans' = [t \in Scanners |-> scan(t)]
  BY DEF Finish
<1> HIDE DEF scan
<1>5. scans' \in [Scanners -> Scan] /\ \A t \in Scanners : scans'[t] = scan(t)
  BY <1>2, <1>4
<1>6. UNCHANGED <<books, purged, rows, disk, begun, changes>>
  BY DEF Finish, tables
<1>7. quiet' \in Nat
  <2>1. quiet \in Nat
    BY DEF ScanInv, TypeOK
  <2>2. quiet' = quiet + 1 \/ quiet' = quiet
    BY Zenon DEF Finish
  <2>3. QED
    BY <2>1, <2>2
<1>8. NoTwins'
  BY <1>6 DEF ScanInv, NoTwins
<1>81. Books' = Books
  BY <1>6 DEF Books
<1>82. TypeOK'
  <2>1. \A r \in rows' : r.book \in Books'
    BY <1>6, <1>81 DEF ScanInv, TypeOK
  <2>2. books' \in Seq(Nat) /\ purged' \subseteq 1 .. Len(books')
    BY <1>6 DEF ScanInv, TypeOK
  <2>3. /\ disk' \in [Paths -> Contents \cup {Nothing}] /\ rows' \subseteq Row
        /\ begun' \in 0 .. MaxScans /\ changes' \in 0 .. MaxChanges
    BY <1>6 DEF ScanInv, TypeOK
  <2>4. QED
    BY <1>5, <1>7, <2>1, <2>2, <2>3, Zenon DEF TypeOK
<1>9. Shape'
  BY <1>3, <1>5, <1>6 DEF Shape, ShapeOf
<1>10. QED
  BY <1>8, <1>82, <1>9 DEF ScanInv

LEMMA DropInv ==
  ASSUME ScanInv, NEW s \in Scanners, Drop(s)
  PROVE  ScanInv'
<1>1. ShapeOf(Idle, Len(books))
  BY DEF ShapeOf, Idle, NoBook, ScanInv, TypeOK
<1>2. /\ UNCHANGED <<books, purged, rows, disk>> /\ quiet' \in Nat
      /\ begun' \in 0 .. MaxScans /\ changes' \in 0 .. MaxChanges
  BY DEF Drop, tables, ScanInv, TypeOK
<1>3. QED
  BY <1>1, <1>2, IdleType, RequestOnly DEF Drop

\* The row that follows its content: the path it takes had no row.
LEMMA MovedInv ==
  ASSUME ScanInv, NEW s \in Scanners, NEW f \in scans[s].hashed, Moved(s, f)
  PROVE  ScanInv'
<1> DEFINE p == f.path
           after(t, r) == [(IF t = s THEN Carry(scans[s], p, r.book) ELSE scans[t])
                             EXCEPT !.clean = @ /\ ~Stale(f)]
<1>1. PICK r \in WithHash(f.hash) :
        /\ rows' = (rows \ {r}) \cup {[r EXCEPT !.path = p]}
        /\ scans' = [t \in Scanners |-> after(t, r)]
  BY DEF Moved, SetPath
<1>2. /\ \A t \in Scanners : scans[t] \in Scan /\ ShapeOf(scans[t], Len(books))
      /\ Len(books) \in Nat /\ p \in Paths
  BY ShapeIs DEF ScanInv, TypeOK, Scan, File
<1>3. r \in rows /\ r \in Row /\ r.book \in Nat /\ r.book <= Len(books)
  BY DEF WithHash, ScanInv, TypeOK, Books, Row
<1>4. /\ Carry(scans[s], p, r.book) \in Scan
      /\ ShapeOf(Carry(scans[s], p, r.book), Len(books))
  BY <1>2, <1>3, CarryType DEF ShapeOf
<1>5. /\ UNCHANGED <<books, purged, disk>> /\ quiet' \in Nat
      /\ begun' \in 0 .. MaxScans /\ changes' \in 0 .. MaxChanges
  BY DEF Moved, ScanInv, TypeOK
<1>6. /\ scans' \in [Scanners -> Scan]
      /\ \A t \in Scanners : ShapeOf(scans'[t], Len(books'))
  <2>1. ASSUME NEW scan \in Scan, ShapeOf(scan, Len(books)), NEW c \in BOOLEAN
        PROVE  /\ [scan EXCEPT !.clean = c] \in Scan
               /\ ShapeOf([scan EXCEPT !.clean = c], Len(books))
    BY <2>1 DEF Scan, ShapeOf
  <2>2. ASSUME NEW t \in Scanners PROVE after(t, r) \in Scan /\ ShapeOf(after(t, r), Len(books))
    <3>1. PICK scan : scan = IF t = s THEN Carry(scans[s], p, r.book) ELSE scans[t]
      OBVIOUS
    <3>2. scan \in Scan /\ ShapeOf(scan, Len(books))
      BY <1>2, <1>4, <3>1
    <3>3. PICK c : c = (scan.clean /\ ~Stale(f))
      OBVIOUS
    <3>4. c \in BOOLEAN /\ after(t, r) = [scan EXCEPT !.clean = c]
      BY <3>1, <3>3, Zenon
    <3>5. QED
      BY <2>1, <3>2, <3>4
  <2> HIDE DEF after
  <2>3. QED
    BY <1>1, <1>5, <2>2
<1>7. Shape'
  BY <1>6 DEF Shape, ShapeOf
<1> HIDE DEF p, after
<1> DEFINE m == [r EXCEPT !.path = p]
<1>8. m \in Row /\ m.book = r.book /\ m.path = p /\ m.hash = r.hash
  BY <1>2, <1>3 DEF Row
<1>9. rows' = (rows \ {r}) \cup {m}
  BY <1>1
<1> HIDE DEF m
<1>10. rows' \subseteq Row /\ \A x \in rows' : x.book \in Books'
  BY <1>3, <1>5, <1>8, <1>9 DEF ScanInv, TypeOK, Books
<1>11. TypeOK'
  BY <1>5, <1>6, <1>10 DEF ScanInv, TypeOK
<1>12. \A x \in rows : x.path # p
  BY DEF Moved, AtPath, p
<1>13. NoTwins'
  BY <1>3, <1>8, <1>9, <1>12 DEF NoTwins, ScanInv
<1>14. QED
  BY <1>7, <1>11, <1>13 DEF ScanInv

\* The new row: neither its path nor its hash was there.
LEMMA InsertedInv ==
  ASSUME ScanInv, NEW s \in Scanners, NEW f \in scans[s].hashed, Inserted(s, f)
  PROVE  ScanInv'
<1> DEFINE b == IF scans[s].book = NoBook THEN Len(books) + 1 ELSE scans[s].book
           row == [book |-> b, path |-> f.path, hash |-> f.hash]
           carried == Carry(scans[s], f.path, b)
           new == IF Reports(scans[s]) THEN Append(carried.new, b) ELSE carried.new
           scan == [carried EXCEPT !.new = new]
<1>1. /\ AtPath(f.path) = {} /\ WithHash(f.hash) = {} /\ b \notin purged
      /\ rows' = rows \cup {row}
      /\ books' = IF scans[s].book = NoBook THEN Append(books, scans[s].id) ELSE books
      /\ scans' = [scans EXCEPT ![s] = scan]
  BY DEF Inserted, HashKnown, BookExists
<1>2. /\ scans[s] \in Scan /\ ShapeOf(scans[s], Len(books)) /\ Len(books) \in Nat
      /\ f \in File
  BY ShapeIs DEF ScanInv, TypeOK, Scan
<1>3. scans[s].book \in Nat /\ scans[s].id \in Nat /\ scans[s].book <= Len(books)
  BY <1>2 DEF Scan, ShapeOf
<1>4. /\ books' \in Seq(Nat) /\ Len(books') >= Len(books)
      /\ b \in 1 .. Len(books') /\ Len(books') \in Nat
  <2>1. CASE scans[s].book = NoBook
    <3>1. books' = Append(books, scans[s].id) /\ b = Len(books) + 1
      BY <1>1, <2>1
    <3>2. books \in Seq(Nat)
      BY DEF ScanInv, TypeOK
    <3>3. books' \in Seq(Nat) /\ Len(books') = Len(books) + 1
      BY <1>3, <3>1, <3>2
    <3>4. QED
      BY <1>2, <3>1, <3>3
  <2>2. CASE scans[s].book # NoBook
    BY <1>1, <1>2, <1>3, <2>2 DEF NoBook, ScanInv, TypeOK
  <2>3. QED
    BY <2>1, <2>2
<1>5. b \in Nat
  BY <1>4
<1> HIDE DEF b
<1>6. /\ carried \in Scan /\ carried.book \in {0, b}
      /\ carried.seen = scans[s].seen /\ carried.unread = scans[s].unread
      /\ carried.phase = scans[s].phase /\ carried.group = scans[s].group \ {f.path}
      /\ carried.hashed = {}
  BY <1>2, <1>5, CarryType
<1> HIDE DEF carried
<1>7. new \in Seq(Nat)
  <2>1. carried.new \in Seq(Nat)
    BY <1>6 DEF Scan
  <2>2. Append(carried.new, b) \in Seq(Nat)
    BY <1>5, <2>1
  <2>3. QED
    BY <2>1, <2>2, Zenon
<1> HIDE DEF new
<1>8. scan \in Scan
  BY <1>6, <1>7 DEF Scan
<1>9. ShapeOf(scan, Len(books'))
  BY <1>2, <1>4, <1>6 DEF ShapeOf, Scan
<1> HIDE DEF scan
<1>10. UNCHANGED <<purged, disk, quiet, begun, changes>>
  BY DEF Inserted
<1>11. scans' \in [Scanners -> Scan]
  BY <1>1, <1>8, ReplaceScan DEF ScanInv, TypeOK
<1>12. \A t \in Scanners : ShapeOf(scans'[t], Len(books'))
  <2>1. ASSUME NEW t \in Scanners, t # s
        PROVE  ShapeOf(scans'[t], Len(books'))
    <3>1. scans'[t] = scans[t]
      BY <1>1, <1>8, <2>1, ReplaceScan DEF ScanInv, TypeOK
    <3>2. scans[t] \in Scan /\ ShapeOf(scans[t], Len(books))
      BY ShapeIs DEF ScanInv, TypeOK
    <3>3. QED
      BY <1>2, <1>4, <3>1, <3>2 DEF ShapeOf, Scan
  <2>2. scans'[s] = scan
    BY <1>1, <1>8, ReplaceScan DEF ScanInv, TypeOK
  <2>3. QED
    BY <1>9, <2>1, <2>2
<1>13. Shape'
  BY <1>12 DEF Shape, ShapeOf
<1>14. row \in Row /\ row.path = f.path /\ row.hash = f.hash /\ row.book = b
  BY <1>2, <1>5 DEF Row, File
<1> HIDE DEF row
<1>15. \A x \in rows' : x \in Row /\ x.book \in Books'
  <2>1. b \in Books'
    BY <1>1, <1>4, <1>10 DEF Books
  <2>2. \A x \in rows : x \in Row /\ x.book \in Books'
    BY <1>2, <1>4, <1>10 DEF ScanInv, TypeOK, Books
  <2>3. QED
    BY <1>1, <1>14, <2>1, <2>2
<1>16. purged' \subseteq 1 .. Len(books')
  BY <1>2, <1>4, <1>10 DEF ScanInv, TypeOK
<1>17. TypeOK'
  BY <1>4, <1>10, <1>11, <1>15, <1>16 DEF ScanInv, TypeOK
<1>18. \A x \in rows : x.path # f.path /\ (f.hash # Nothing => x.hash # f.hash)
  BY <1>1 DEF AtPath, WithHash
<1>19. NoTwins'
  BY <1>1, <1>14, <1>18 DEF NoTwins, ScanInv
<1>20. QED
  BY <1>13, <1>17, <1>19 DEF ScanInv

\* The invariant is inductive.
LEMMA StepInv == ScanInv /\ [Next]_vars => ScanInv'
<1> SUFFICES ASSUME ScanInv, [Next]_vars PROVE ScanInv'
  OBVIOUS
<1>1. CASE World
  BY <1>1, WorldInv
<1>2. ASSUME NEW s \in Scanners, Request(s) PROVE ScanInv'
  <2>1. ASSUME NEW root \in Roots, Begin(s, root) PROVE ScanInv'
    BY <2>1, BeginInv
  <2>2. ASSUME NEW d \in Dirs, Walk(s, d) PROVE ScanInv'
    BY <2>2, WalkInv
  <2>3. ASSUME NEW f \in scans[s].hashed, PathKnown(s, f) \/ Moved(s, f) \/ Inserted(s, f)
        PROVE  ScanInv'
    BY <2>3, PathKnownInv, MovedInv, InsertedInv
  <2>4. ASSUME NEW x \in scans[s].candidates, PersistBoxSet(s, x) PROVE ScanInv'
    BY <2>4, PersistBoxSetInv
  <2>5. QED
    BY <1>2, <2>1, <2>2, <2>3, <2>4, OpenGroupInv, HashFileInv, GroupFailsInv,
       DetectBoxSetsInv, FinishInv, DropInv DEF Request
<1>3. CASE UNCHANGED vars
  BY <1>3 DEF vars, ScanInv, TypeOK, Shape, NoTwins, Books
<1>4. QED
  BY <1>1, <1>2, <1>3 DEF Next

\* For any library, scanners and faults: no path and no content has two rows,
\* and every row's book exists.
THEOREM ScanSound == Spec => []ScanInv
  BY InitInv, StepInv, PTL DEF Spec

THEOREM ScanTypeCorrect == Spec => []TypeOK
<1>1. ScanInv => TypeOK
  BY DEF ScanInv
<1>2. QED
  BY <1>1, ScanSound, PTL

THEOREM RowsUnique == Spec => []NoTwins
<1>1. ScanInv => NoTwins
  BY DEF ScanInv
<1>2. QED
  BY <1>1, ScanSound, PTL

-----------------------------------------------------------------------------
(* What a scan may do to the rows of files that rest.                        *)

\* The steps that change book_files.
LEMMA RowSteps ==
  ASSUME ScanInv, [Next]_vars
  PROVE  \/ rows' = rows
         \/ purged' # purged
         \/ \E s \in Scanners : \E f \in scans[s].hashed : Moved(s, f) \/ Inserted(s, f)
<1>1. CASE World
  <2>1. ASSUME NEW p \in Paths, NEW c, Put(p, c) PROVE rows' = rows
    BY <2>1 DEF Put
  <2>2. ASSUME NEW p \in Paths, NEW q \in Paths, Rename(p, q) PROVE rows' = rows
    BY <2>2 DEF Rename
  <2>3. ASSUME NEW b \in Books, Purge(b) PROVE purged' # purged
    BY <2>3 DEF Purge, Books
  <2>4. QED
    BY <1>1, <2>1, <2>2, <2>3 DEF World
<1>2. ASSUME NEW s \in Scanners, Request(s)
      PROVE  rows' = rows \/ \E f \in scans[s].hashed : Moved(s, f) \/ Inserted(s, f)
  BY <1>2 DEF Request, Begin, Walk, OpenGroup, HashFile, PathKnown, GroupFails, DetectBoxSets,
              PersistBoxSet, Finish, Drop, tables
<1>3. CASE UNCHANGED vars
  BY <1>3 DEF vars
<1>4. QED
  BY <1>1, <1>2, <1>3 DEF Next

\* A file that has been hashed is a visible one, if it is still there.
LEMMA InHandVisible ==
  ASSUME ScanInv, NEW s \in Scanners, NEW f \in scans[s].hashed, disk[f.path] # Nothing
  PROVE  f.path \in Visible
  BY DEF ScanInv, Shape, Visible

\* A row that moves was not telling the truth, if the file still is what it was
\* when it was hashed.
LEMMA MovedRowWasFalse ==
  ASSUME ScanInv, Distinct, NEW s \in Scanners, NEW f \in scans[s].hashed, ~Stale(f),
         AtPath(f.path) = {}, NEW r \in WithHash(f.hash), r.path \in Visible
  PROVE  disk[r.path] # r.hash
<1>1. r \in rows /\ r.hash = disk[f.path] /\ disk[f.path] # Nothing
  BY DEF WithHash, Stale
<1>2. f.path \in Visible
  BY <1>1, InHandVisible
<1>3. r.path # f.path
  BY <1>1 DEF AtPath
<1>4. QED
  BY <1>1, <1>2, <1>3 DEF Distinct

\* The step of a request that moves a row by a hash that is out of date.
MovesByStale == \E s \in Scanners : \E f \in scans[s].hashed : Moved(s, f) /\ Stale(f)

LEMMA TrueRowsKept ==
  ASSUME ScanInv, [Next]_vars, disk' = disk, purged' = purged, Distinct, ~MovesByStale,
         NEW r \in rows, TellsTruth(r)
  PROVE  r \in rows'
<1>1. ASSUME NEW s \in Scanners, NEW f \in scans[s].hashed, Moved(s, f) PROVE r \in rows'
  <2>1. PICK m \in WithHash(f.hash) :
          rows' = (rows \ {m}) \cup {[m EXCEPT !.path = f.path]}
    BY <1>1 DEF Moved, SetPath
  <2>2. ~Stale(f) /\ AtPath(f.path) = {}
    BY <1>1 DEF Moved, MovesByStale
  <2>3. r # m
    BY <2>2, MovedRowWasFalse DEF TellsTruth
  <2>4. QED
    BY <2>1, <2>3
<1>2. ASSUME NEW s \in Scanners, NEW f \in scans[s].hashed, Inserted(s, f) PROVE r \in rows'
  BY <1>2 DEF Inserted
<1>3. QED
  BY <1>1, <1>2, RowSteps

\* The request that moves a row has used its hash up.
LEMMA MovedUses ==
  ASSUME ScanInv, NEW s \in Scanners, NEW f \in scans[s].hashed, Moved(s, f)
  PROVE  scans'[s].hashed = {}
<1>1. PICK r \in WithHash(f.hash) :
        scans' = [t \in Scanners |->
          [(IF t = s THEN Carry(scans[s], f.path, r.book) ELSE scans[t])
             EXCEPT !.clean = @ /\ ~Stale(f)]]
  BY DEF Moved
<1>2. scans[s] \in Scan /\ r.book \in Nat
  BY DEF WithHash, ScanInv, TypeOK, Row
<1>3. PICK c \in Scan : c = Carry(scans[s], f.path, r.book) /\ c.hashed = {}
  BY <1>2, CarryType
<1>4. scans'[s] = [c EXCEPT !.clean = @ /\ ~Stale(f)]
  BY <1>1, <1>3
<1>5. QED
  BY <1>3, <1>4 DEF Scan

\* For any library and any number of scans at once: while the disk rests and
\* its hashes differ, no scan takes a truthful row from its file but by a hash
\* that it read before the disk changed.
THEOREM TruthKept == Spec => TrueRowsStay
<1>1. ASSUME ScanInv, [Next]_vars, disk' = disk, purged' = purged, Distinct,
             NEW r \in rows, TellsTruth(r)
      PROVE  \/ r \in rows'
             \/ \E s \in Scanners : \E f \in scans[s].hashed : Stale(f) /\ scans'[s].hashed = {}
  <2>1. CASE ~MovesByStale
    BY <1>1, <2>1, TrueRowsKept
  <2>2. CASE MovesByStale
    BY <1>1, <2>2, MovedUses DEF MovesByStale
  <2>3. QED
    BY <2>1, <2>2
<1>2. ScanInv /\ [Next]_vars =>
        (disk' = disk /\ purged' = purged /\ Distinct =>
           \A r \in rows :
             TellsTruth(r) => \/ r \in rows'
                              \/ \E s \in Scanners : \E f \in scans[s].hashed :
                                   Stale(f) /\ scans'[s].hashed = {})
  BY <1>1
<1>3. QED
  BY <1>2, ScanSound, PTL DEF Spec, TrueRowsStay

-----------------------------------------------------------------------------
(* How many scans it takes.                                                  *)

LEMMA TruthfulFinite ==
  /\ IsFiniteSet(Visible) /\ IsFiniteSet(Truthful) /\ Truthful \subseteq Visible
  /\ Cardinality(Visible) \in Nat /\ Cardinality(Truthful) \in Nat
  /\ Cardinality(Truthful) <= Cardinality(Visible)
<1>1. Visible \subseteq Paths /\ Truthful \subseteq Visible
  BY DEF Visible, Truthful
<1>2. IsFiniteSet(Visible) /\ IsFiniteSet(Truthful)
  BY <1>1, Files, FS_Subset
<1>3. QED
  BY <1>1, <1>2, FS_Subset, FS_CardinalityType

LEMMA AllTruthfulMeansCovered ==
  ASSUME Cardinality(Truthful) >= Cardinality(Visible)
  PROVE  Covered
<1>1. Truthful = Visible
  BY TruthfulFinite, FS_Subset
<1>2. QED
  BY <1>1 DEF Truthful, Covered, AtPath

\* The rows change under a disk that rests, by hashes that are true: truth only
\* grows ...
LEMMA TruthGrows ==
  ASSUME ScanInv, [Next]_vars, disk' = disk, purged' = purged, Distinct, ~MovesByStale
  PROVE  /\ Visible' = Visible /\ Distinct' /\ Truthful \subseteq Truthful'
         /\ Cardinality(Truthful') \in Nat
         /\ Cardinality(Truthful) <= Cardinality(Truthful')
<1>1. Visible' = Visible /\ Distinct'
  BY DEF Visible, Distinct
<1>2. Truthful \subseteq Truthful'
  BY <1>1, TrueRowsKept DEF Truthful, TellsTruth
<1>3. IsFiniteSet(Truthful')
  <2>1. Truthful' \subseteq Paths
    BY <1>1 DEF Truthful, Visible
  <2>2. QED
    BY <2>1, Files, FS_Subset
<1>4. QED
  BY <1>1, <1>2, <1>3, FS_Subset, FS_CardinalityType

\* ... and by one when a row is made for a file that is there.
LEMMA TruthGrowsByOne ==
  ASSUME ScanInv, [Next]_vars, disk' = disk, purged' = purged, Distinct, ~MovesByStale,
         NEW p \in Visible, AtPath(p) = {},
         \E r \in rows' : r.path = p /\ r.hash = disk[p]
  PROVE  Cardinality(Truthful') >= Cardinality(Truthful) + 1
<1>1. p \notin Truthful
  BY DEF Truthful, AtPath
<1>2. p \in Truthful'
  BY TruthGrows DEF Truthful
<1>3. Truthful \cup {p} \subseteq Truthful'
  BY <1>2, TruthGrows
<1>4. IsFiniteSet(Truthful')
  <2>1. Truthful' \subseteq Paths
    BY TruthGrows DEF Truthful, Visible
  <2>2. QED
    BY <2>1, Files, FS_Subset
<1>5. Cardinality(Truthful \cup {p}) = Cardinality(Truthful) + 1
  BY <1>1, TruthfulFinite, FS_AddElement
<1>6. QED
  BY <1>3, <1>4, <1>5, FS_Subset, FS_CardinalityType, TruthfulFinite

\* An undisturbed request in progress.
Running(s) == scans[s].clean /\ scans[s].phase \in {"scanning", "boxing"}
Gained(s) == \/ Covered \/ Cardinality(Truthful) >= quiet + 1
             \/ PassedCovered(s)

LEMMA GainsIs ==
  Gains <=> (Distinct => /\ Covered \/ Cardinality(Truthful) >= quiet
                         /\ \A s \in Scanners : Running(s) => Gained(s))
  BY DEF Gains, Running, Gained

\* Nothing is counted while files change hands.
LEMMA GainsReset ==
  ASSUME quiet' = 0, \A s \in Scanners : ~scans'[s].clean
  PROVE  Gains'
<1>1. Truthful' \subseteq Paths
  BY DEF Truthful, Visible
<1>2. Cardinality(Truthful') \in Nat
  BY <1>1, Files, FS_Subset, FS_CardinalityType
<1>3. QED
  BY <1>2 DEF Gains

\* A step of one request that leaves the rows alone and passes covered files.
LEMMA GainsSame ==
  ASSUME Gains, NEW s \in Scanners, UNCHANGED <<disk, rows, quiet>>,
         \A t \in Scanners : t # s => scans'[t] = scans[t],
         Running(s)' => PassedCovered(s)' \/ (Running(s) /\ (PassedCovered(s) => PassedCovered(s)'))
  PROVE  Gains'
<1>1. /\ Visible' = Visible /\ (Distinct' <=> Distinct) /\ (Covered' <=> Covered)
      /\ Truthful' = Truthful
  BY DEF Visible, Distinct, Covered, AtPath, Truthful
<1>2. SUFFICES ASSUME Distinct
               PROVE  /\ Covered' \/ Cardinality(Truthful') >= quiet'
                      /\ \A t \in Scanners : Running(t)' => Gained(t)'
  BY <1>1 DEF Gains, Running, Gained
<1>3. Covered' \/ Cardinality(Truthful') >= quiet'
  BY <1>1, <1>2 DEF Gains
<1>4. ASSUME NEW t \in Scanners, t # s, Running(t)' PROVE Gained(t)'
  <2>1. scans'[t] = scans[t]
    BY <1>4
  <2>2. Running(t) /\ Gained(t)
    BY <1>2, <1>4, <2>1, GainsIs DEF Running
  <2>3. PassedCovered(t) => PassedCovered(t)'
    BY <1>1, <2>1 DEF PassedCovered, AtPath
  <2>4. QED
    BY <1>1, <2>2, <2>3 DEF Gained
<1>5. ASSUME Running(s)' PROVE Gained(s)'
  <2>1. CASE PassedCovered(s)'
    BY <2>1 DEF Gained
  <2>2. CASE Running(s) /\ (PassedCovered(s) => PassedCovered(s)')
    <3>1. Gained(s)
      BY <1>2, <2>2, GainsIs
    <3>2. QED
      BY <1>1, <2>2, <3>1 DEF Gained
  <2>3. QED
    BY <1>5, <2>1, <2>2
<1>6. QED
  BY <1>3, <1>4, <1>5

\* A row is moved by a hash that is out of date: the count begins again.
LEMMA GainsStale ==
  ASSUME ScanInv, NEW s \in Scanners, NEW f \in scans[s].hashed, Moved(s, f), Stale(f)
  PROVE  Gains'
<1>1. ASSUME NEW t \in Scanners PROVE ~scans'[t].clean
  <2>1. PICK scan : scans'[t] = [scan EXCEPT !.clean = @ /\ ~Stale(f)] /\ scan \in Scan
    <3>1. PICK r \in WithHash(f.hash) :
            scans' = [u \in Scanners |->
              [(IF u = s THEN Carry(scans[s], f.path, r.book) ELSE scans[u])
                 EXCEPT !.clean = @ /\ ~Stale(f)]]
      BY DEF Moved
    <3>2. scans[s] \in Scan /\ scans[t] \in Scan /\ r.book \in Nat
      BY DEF WithHash, ScanInv, TypeOK, Row
    <3>3. Carry(scans[s], f.path, r.book) \in Scan
      BY <3>2, CarryType
    <3>4. QED
      BY <3>1, <3>2, <3>3
  <2>2. QED
    BY <2>1 DEF Scan
<1>2. quiet' = 0
  BY DEF Moved
<1>3. QED
  BY <1>1, <1>2, GainsReset

\* A row is made or moved.
LEMMA GainsUpsert ==
  ASSUME ScanInv, Gains, [Next]_vars, NEW s \in Scanners, NEW f \in scans[s].hashed,
         Inserted(s, f) \/ (Moved(s, f) /\ ~Stale(f)), ~MovesByStale
  PROVE  Gains'
<1> DEFINE p == f.path
<1>1. /\ AtPath(p) = {} /\ p \in Paths /\ f \in File
      /\ UNCHANGED <<disk, purged, quiet>>
  BY DEF Moved, Inserted, ScanInv, TypeOK, Scan, File
<1>2. \E r \in rows' : r.path = p /\ r.hash = f.hash
  <2>1. CASE Moved(s, f)
    <3>1. PICK m \in WithHash(f.hash) : [m EXCEPT !.path = p] \in rows'
      BY <2>1 DEF Moved, SetPath
    <3>2. m \in Row /\ m.hash = f.hash
      BY DEF WithHash, ScanInv, TypeOK
    <3>3. QED
      BY <3>1, <3>2 DEF Row
  <2>2. CASE Inserted(s, f)
    <3>1. PICK b : [book |-> b, path |-> p, hash |-> f.hash] \in rows'
      BY <2>2 DEF Inserted
    <3>2. QED
      BY <3>1
  <2>3. QED
    BY <2>1, <2>2
<1>3. /\ Visible' = Visible /\ (Distinct' <=> Distinct)
  BY <1>1 DEF Visible, Distinct
<1>4. SUFFICES ASSUME Distinct
               PROVE  /\ Covered' \/ Cardinality(Truthful') >= quiet'
                      /\ \A t \in Scanners : Running(t)' => Gained(t)'
  BY <1>3 DEF Gains, Running, Gained
<1>5. CASE p \in Visible /\ ~Stale(f)
  <2>1. Cardinality(Truthful') >= Cardinality(Truthful) + 1
    <3>1. \E r \in rows' : r.path = p /\ r.hash = disk[p]
      BY <1>2, <1>5 DEF Stale
    <3>2. QED
      BY <1>1, <1>4, <1>5, <3>1, TruthGrowsByOne
  <2>2. ~Covered
    BY <1>1, <1>5 DEF Covered
  <2>3. Cardinality(Truthful) >= quiet
    BY <1>4, <2>2, GainsIs
  <2>4. Cardinality(Truthful') >= quiet' + 1
    BY <1>1, <2>1, <2>3, TruthfulFinite, TruthGrows, <1>4 DEF ScanInv, TypeOK
  <2>5. Cardinality(Truthful') >= quiet'
    BY <1>1, <2>4, <1>4, TruthGrows DEF ScanInv, TypeOK
  <2>6. QED
    BY <2>4, <2>5 DEF Gained
<1>6. CASE p \notin Visible \/ Stale(f)
  <2>2. Inserted(s, f)
    <3>1. CASE Stale(f)
      BY <3>1
    <3>2. CASE ~Stale(f) /\ p \notin Visible
      <4>1. f.hash = Nothing
        BY <3>2, InHandVisible DEF Stale
      <4>2. QED
        BY <4>1 DEF Moved, WithHash
    <3>3. QED
      BY <1>6, <3>1, <3>2
  <2>3. rows \subseteq rows'
    BY <2>2 DEF Inserted
  <2>4. \A q \in Paths : AtPath(q) # {} => AtPath(q)' # {}
    BY <2>3 DEF AtPath
  <2>5. Covered => Covered'
    BY <1>3, <2>4 DEF Covered, Visible
  <2>6. Cardinality(Truthful) <= Cardinality(Truthful') /\ Cardinality(Truthful') \in Nat
    BY <1>1, <1>4, TruthGrows
  <2>7. Covered' \/ Cardinality(Truthful') >= quiet'
    BY <1>1, <1>4, <2>5, <2>6, GainsIs, TruthfulFinite DEF ScanInv, TypeOK
  <2>8. ASSUME NEW t \in Scanners, Running(t)' PROVE Gained(t)'
    <3>1. /\ scans[t].clean = scans'[t].clean /\ scans[t].phase = scans'[t].phase
          /\ scans[t].unread = scans'[t].unread /\ scans[t].seen = scans'[t].seen
          /\ \A q \in scans[t].group : q \in scans'[t].group \/ q = p
      <4>1. PICK b, new : scans' = [scans EXCEPT ![s] = [Carry(scans[s], p, b) EXCEPT !.new = new]]
        BY <2>2 DEF Inserted
      <4>2. scans \in [Scanners -> Scan]
        BY DEF ScanInv, TypeOK
      <4>3. CASE t # s
        BY <4>1, <4>2, <4>3
      <4>4. CASE t = s
        BY <4>1, <4>2, <4>4 DEF Carry, Scan
      <4>5. QED
        BY <4>3, <4>4
    <3>2. Gained(t)
      BY <1>4, <2>8, <3>1, GainsIs DEF Running
    <3>3. PassedCovered(t) => PassedCovered(t)'
      <4>1. SUFFICES ASSUME PassedCovered(t), NEW q \in Visible,
                            AtPath(q)' = {}
                     PROVE  q.dir \in scans'[t].unread \/ q \in scans'[t].seen
                              \/ q \in scans'[t].group
        BY <1>3 DEF PassedCovered
      <4>2. AtPath(q) = {} /\ q # p
        BY <1>2, <2>4, <4>1 DEF Visible, AtPath
      <4>3. QED
        BY <3>1, <4>1, <4>2 DEF PassedCovered
    <3>4. QED
      BY <1>1, <2>5, <2>6, <3>2, <3>3, TruthfulFinite DEF Gained, ScanInv, TypeOK
  <2>9. QED
    BY <2>7, <2>8
<1>7. QED
  BY <1>5, <1>6

\* The request counts itself when it ends, and no other that ran beside it.
LEMMA GainsFinish ==
  ASSUME ScanInv, Gains, NEW s \in Scanners, Finish(s)
  PROVE  Gains'
<1>1. /\ Visible' = Visible /\ (Distinct' <=> Distinct) /\ (Covered' <=> Covered)
      /\ Truthful' = Truthful /\ \A p \in Paths : AtPath(p)' = AtPath(p)
  BY DEF Finish, tables, Visible, Distinct, Covered, AtPath, Truthful
<1>2. SUFFICES ASSUME Distinct
               PROVE  /\ Covered' \/ Cardinality(Truthful') >= quiet'
                      /\ \A t \in Scanners : Running(t)' => Gained(t)'
  BY <1>1 DEF Gains, Running, Gained
<1>3. /\ scans[s].phase = "boxing"
      /\ scans[s].unread = {} /\ scans[s].seen = {} /\ scans[s].group = {}
  BY DEF Finish, ScanInv, Shape
<1>4. ASSUME NEW t \in Scanners
      PROVE  /\ scans'[t].phase = IF t = s THEN "done" ELSE scans[t].phase
             /\ scans'[t].clean <=> scans[t].clean /\ (t # s => ~scans[s].clean)
             /\ scans'[t].unread = scans[t].unread /\ scans'[t].seen = scans[t].seen
             /\ scans'[t].group = scans[t].group
  <2>1. scans[t] \in Scan
    BY DEF ScanInv, TypeOK
  <2>2. scans'[t] = [scans[t] EXCEPT !.phase = IF t = s THEN "done" ELSE @,
                       !.clean = @ /\ (t # s => ~scans[s].clean)]
    BY DEF Finish
  <2>3. QED
    BY <2>1, <2>2 DEF Scan
<1>5. CASE scans[s].clean
  <2>1. Running(s)
    BY <1>3, <1>5 DEF Running
  <2>2. PassedCovered(s) => Covered
    BY <1>3 DEF PassedCovered, Covered
  <2>3. Covered \/ Cardinality(Truthful) >= quiet + 1
    BY <1>2, <2>1, <2>2, GainsIs DEF Gained
  <2>4. quiet' = quiet + 1
    BY <1>5 DEF Finish
  <2>5. \A t \in Scanners : ~Running(t)'
    BY <1>4, <1>5 DEF Running
  <2>6. QED
    BY <1>1, <2>3, <2>4, <2>5
<1>6. CASE ~scans[s].clean
  <2>1. quiet' = quiet
    BY <1>6 DEF Finish
  <2>2. ASSUME NEW t \in Scanners, Running(t)' PROVE Gained(t)'
    <3>1. t # s /\ Running(t)
      BY <1>4, <2>2 DEF Running
    <3>2. PassedCovered(t) => PassedCovered(t)'
      BY <1>1, <1>4 DEF PassedCovered, Visible
    <3>3. QED
      BY <1>1, <1>2, <2>1, <3>1, <3>2, GainsIs DEF Gained
  <2>3. QED
    BY <1>1, <1>2, <2>1, <2>2, GainsIs
<1>7. QED
  BY <1>5, <1>6

LEMMA GainsRequest ==
  ASSUME ScanInv, Gains, [Next]_vars, NEW s \in Scanners, Request(s)
  PROVE  Gains'
<1> USE DEF tables
<1>1. scans \in [Scanners -> Scan] /\ scans[s] \in Scan
  BY DEF ScanInv, TypeOK
<1>2. ASSUME NEW root \in Roots, Begin(s, root) PROVE Gains'
  <2>1. scans'[s] = [Idle EXCEPT !.phase = "scanning", !.id = begun', !.root = root,
                       !.unread = {d \in Under(root) : \E p \in Paths : p.dir = d},
                       !.clean = (root = Library)]
    BY <1>1, <1>2 DEF Begin
  <2>2. /\ scans'[s].unread = {d \in Under(root) : \E p \in Paths : p.dir = d}
        /\ scans'[s].clean <=> root = Library
    BY <2>1 DEF Idle
  <2>3. Running(s)' => PassedCovered(s)'
    BY <2>2, Files DEF Running, PassedCovered, Visible
  <2>4. /\ UNCHANGED <<disk, rows, quiet>>
        /\ \A t \in Scanners : t # s => scans'[t] = scans[t]
    BY <1>1, <1>2 DEF Begin
  <2>5. QED
    BY <2>3, <2>4, GainsSame
<1>3. ASSUME NEW d \in Dirs, Walk(s, d) PROVE Gains'
  <2>1. /\ scans'[s].unread = scans[s].unread \ {d}
        /\ scans'[s].seen = scans[s].seen \cup {p \in Visible : p.dir = d}
        /\ scans'[s].group = scans[s].group
        /\ scans'[s].clean = scans[s].clean /\ scans'[s].phase = scans[s].phase
    BY <1>1, <1>3 DEF Walk, Scan
  <2>2. /\ UNCHANGED <<disk, rows, quiet>>
        /\ \A t \in Scanners : t # s => scans'[t] = scans[t]
    BY <1>1, <1>3 DEF Walk
  <2>3. Visible' = Visible /\ \A p \in Paths : AtPath(p)' = AtPath(p)
    BY <2>2 DEF Visible, AtPath
  <2>4. PassedCovered(s) => PassedCovered(s)'
    BY <2>1, <2>3 DEF PassedCovered, Visible
  <2>5. Running(s)' => Running(s)
    BY <2>1 DEF Running
  <2>6. QED
    BY <2>2, <2>4, <2>5, GainsSame
<1>4. CASE OpenGroup(s)
  <2> DEFINE files == {p \in scans[s].seen : p.dir = DirOrder[NextDir(s)]}
  <2>1. /\ scans'[s].unread = scans[s].unread
        /\ scans'[s].seen = scans[s].seen \ files
        /\ scans'[s].group = files /\ scans[s].group = {}
        /\ scans'[s].clean = scans[s].clean /\ scans'[s].phase = scans[s].phase
    BY <1>1, <1>4 DEF OpenGroup, Scan
  <2> HIDE DEF files
  <2>2. /\ UNCHANGED <<disk, rows, quiet>>
        /\ \A t \in Scanners : t # s => scans'[t] = scans[t]
    BY <1>1, <1>4 DEF OpenGroup
  <2>3. Visible' = Visible /\ \A p \in Paths : AtPath(p)' = AtPath(p)
    BY <2>2 DEF Visible, AtPath
  <2>4. PassedCovered(s) => PassedCovered(s)'
    BY <2>1, <2>3 DEF PassedCovered, Visible
  <2>5. Running(s)' => Running(s)
    BY <2>1 DEF Running
  <2>6. QED
    BY <2>2, <2>4, <2>5, GainsSame
<1>5. ASSUME NEW f \in scans[s].hashed, PathKnown(s, f) PROVE Gains'
  <2>1. PICK r \in AtPath(f.path) : scans' = [scans EXCEPT ![s] = Carry(scans[s], f.path, r.book)]
    BY <1>5 DEF PathKnown
  <2>2. r.book \in Nat
    BY DEF AtPath, ScanInv, TypeOK, Row
  <2>3. /\ scans'[s].unread = scans[s].unread
        /\ scans'[s].seen = scans[s].seen
        /\ scans'[s].group = scans[s].group \ {f.path}
        /\ scans'[s].clean = scans[s].clean /\ scans'[s].phase = scans[s].phase
    BY <1>1, <2>1, <2>2, CarryType
  <2>4. /\ UNCHANGED <<disk, rows, quiet>>
        /\ \A t \in Scanners : t # s => scans'[t] = scans[t]
    BY <1>1, <1>5, <2>1 DEF PathKnown
  <2>5. Visible' = Visible /\ (\A q \in Paths : AtPath(q)' = AtPath(q)) /\ AtPath(f.path) # {}
    BY <2>4 DEF Visible, AtPath
  <2>6. PassedCovered(s) => PassedCovered(s)'
    BY <2>3, <2>5 DEF PassedCovered, Visible
  <2>7. Running(s)' => Running(s)
    BY <2>3 DEF Running
  <2>8. QED
    BY <2>4, <2>6, <2>7, GainsSame
<1>6. ASSUME NEW f \in scans[s].hashed, Moved(s, f) \/ Inserted(s, f) PROVE Gains'
  <2>1. CASE MovesByStale
    BY <2>1, GainsStale DEF MovesByStale
  <2>2. CASE ~MovesByStale
    <3>1. Inserted(s, f) \/ (Moved(s, f) /\ ~Stale(f))
      BY <1>6, <2>2 DEF MovesByStale
    <3>2. QED
      BY <2>2, <3>1, GainsUpsert
  <2>3. QED
    BY <2>1, <2>2
<1>61. ASSUME NEW p \in Paths, HashFile(s, p) PROVE Gains'
  <2>1. /\ scans'[s].unread = scans[s].unread /\ scans'[s].seen = scans[s].seen
        /\ scans'[s].group = scans[s].group
        /\ scans'[s].clean = scans[s].clean /\ scans'[s].phase = scans[s].phase
    BY <1>1, <1>61 DEF HashFile, Scan
  <2>2. /\ UNCHANGED <<disk, rows, quiet>>
        /\ \A t \in Scanners : t # s => scans'[t] = scans[t]
    BY <1>1, <1>61 DEF HashFile
  <2>3. Visible' = Visible /\ \A q \in Paths : AtPath(q)' = AtPath(q)
    BY <2>2 DEF Visible, AtPath
  <2>4. PassedCovered(s) => PassedCovered(s)'
    BY <2>1, <2>3 DEF PassedCovered, Visible
  <2>5. Running(s)' => Running(s)
    BY <2>1 DEF Running
  <2>6. QED
    BY <2>2, <2>4, <2>5, GainsSame
<1>7. CASE GroupFails(s) \/ Drop(s)
  <2>1. ~Running(s)'
    BY <1>1, <1>7 DEF GroupFails, Drop, Running, Idle, Scan
  <2>2. /\ UNCHANGED <<disk, rows, quiet>>
        /\ \A t \in Scanners : t # s => scans'[t] = scans[t]
    BY <1>1, <1>7 DEF GroupFails, Drop
  <2>3. QED
    BY <2>1, <2>2, GainsSame
<1>8. CASE DetectBoxSets(s) \/ \E x \in scans[s].candidates : PersistBoxSet(s, x)
  <2>1. /\ scans'[s].unread = scans[s].unread
        /\ scans'[s].seen = scans[s].seen
        /\ scans'[s].group = scans[s].group
        /\ scans'[s].clean = scans[s].clean
        /\ scans[s].phase \in {"scanning", "boxing"}
    BY <1>1, <1>8 DEF DetectBoxSets, PersistBoxSet, Scan
  <2>2. /\ UNCHANGED <<disk, rows, quiet>>
        /\ \A t \in Scanners : t # s => scans'[t] = scans[t]
    BY <1>1, <1>8 DEF DetectBoxSets, PersistBoxSet
  <2>3. Visible' = Visible /\ \A p \in Paths : AtPath(p)' = AtPath(p)
    BY <2>2 DEF Visible, AtPath
  <2>4. PassedCovered(s) => PassedCovered(s)'
    BY <2>1, <2>3 DEF PassedCovered, Visible
  <2>5. Running(s)' => Running(s)
    BY <2>1 DEF Running
  <2>6. QED
    BY <2>2, <2>4, <2>5, GainsSame
<1>9. QED
  BY <1>2, <1>3, <1>4, <1>5, <1>6, <1>61, <1>7, <1>8, GainsFinish DEF Request

LEMMA GainsInit == Init => Gains
  BY TruthfulFinite DEF Init, Gains, Idle

LEMMA GainsStep == ScanInv /\ Gains /\ [Next]_vars => Gains'
<1> SUFFICES ASSUME ScanInv, Gains, [Next]_vars PROVE Gains'
  OBVIOUS
<1>1. CASE World
  <2>1. Disturbed
    BY <1>1 DEF World, Put, Rename, Purge
  <2>2. quiet' = 0 /\ \A s \in Scanners : ~scans'[s].clean
    BY <2>1 DEF Disturbed, ScanInv, TypeOK, Scan
  <2>3. QED
    BY <2>2, GainsReset
<1>2. ASSUME NEW s \in Scanners, Request(s) PROVE Gains'
  BY <1>2, GainsRequest
<1>3. CASE UNCHANGED vars
  <2>1. UNCHANGED <<disk, rows, quiet, scans>>
    BY <1>3 DEF vars
  <2>2. /\ Visible' = Visible /\ (Distinct' <=> Distinct) /\ (Covered' <=> Covered)
        /\ Truthful' = Truthful
    BY <2>1 DEF Visible, Distinct, Covered, AtPath, Truthful
  <2>3. ASSUME NEW s \in Scanners PROVE PassedCovered(s)' <=> PassedCovered(s)
    BY <2>1 DEF PassedCovered, Visible, AtPath
  <2>4. QED
    BY <2>1, <2>2, <2>3 DEF Gains
<1>4. QED
  BY <1>1, <1>2, <1>3 DEF Next

\* For any number of files, scanners and interleavings: as many undisturbed
\* scans as there are files leave no file without a row.
THEOREM ScansConverge == Spec => []Converges
<1>1. ScanInv /\ Gains => Converges
  <2> SUFFICES ASSUME ScanInv, Gains, Distinct, quiet >= Cardinality(Visible), ~Covered
               PROVE  FALSE
    BY DEF Converges
  <2>1. Cardinality(Truthful) >= quiet
    BY DEF Gains
  <2>2. QED
    BY <2>1, AllTruthfulMeansCovered, TruthfulFinite DEF ScanInv, TypeOK
<1>2. Spec => [](ScanInv /\ Gains)
  <2>1. Init => ScanInv /\ Gains
    BY InitInv, GainsInit
  <2>2. ScanInv /\ Gains /\ [Next]_vars => (ScanInv /\ Gains)'
    BY StepInv, GainsStep
  <2>3. QED
    BY <2>1, <2>2, PTL DEF Spec
<1>3. QED
  BY <1>1, <1>2, PTL

-----------------------------------------------------------------------------
(* The report of the new books.                                              *)

\* What process_group's hint tells: a book in hand is one that a multi-file
\* group has already met, and after its first file such a group has one.
Hinted(scan) ==
  /\ scan.book # NoBook => scan.multi /\ ~scan.first
  /\ scan.group # {} /\ scan.multi /\ ~scan.first => scan.book # NoBook
  /\ scan.phase = "scanning" => scan.id # 0

\* The report lists the books that the request made, each once.
Lists(new, id, made) ==
  /\ \A i \in DOMAIN new : new[i] \in DOMAIN made /\ made[new[i]] = id
  /\ \A i, j \in DOMAIN new : new[i] = new[j] => i = j
  /\ \A b \in DOMAIN made : made[b] = id => \E i \in DOMAIN new : new[i] = b

Announced ==
  /\ \A b \in DOMAIN books : books[b] \in 1 .. begun
  /\ \A s \in Scanners : scans[s].id <= begun /\ Hinted(scans[s])
  /\ \A s, t \in Scanners :
       s # t /\ scans[s].id # 0 => scans[s].id # scans[t].id
  /\ \A s \in Scanners : Lists(scans[s].new, scans[s].id, books)

LEMMA ListsNothing ==
  ASSUME NEW made \in Seq(Nat), NEW id, \A b \in DOMAIN made : made[b] # id
  PROVE  Lists(<<>>, id, made)
  BY DEF Lists

\* A book made and reported by one request ...
LEMMA ListsOwn ==
  ASSUME NEW made \in Seq(Nat), NEW new \in Seq(Nat), NEW id \in Nat,
         Lists(new, id, made)
  PROVE  Lists(Append(new, Len(made) + 1), id, Append(made, id))
<1> DEFINE m == Append(made, id)
           n == Append(new, Len(made) + 1)
<1>1. /\ DOMAIN m = 1 .. Len(made) + 1 /\ DOMAIN made = 1 .. Len(made)
      /\ m[Len(made) + 1] = id
      /\ \A b \in 1 .. Len(made) : m[b] = made[b]
  OBVIOUS
<1>2. /\ DOMAIN n = 1 .. Len(new) + 1 /\ DOMAIN new = 1 .. Len(new)
      /\ n[Len(new) + 1] = Len(made) + 1
      /\ \A i \in 1 .. Len(new) : n[i] = new[i]
  OBVIOUS
<1>3. Len(made) \in Nat /\ Len(new) \in Nat
  OBVIOUS
<1> HIDE DEF m, n
<1>4. \A i \in DOMAIN n : n[i] \in DOMAIN m /\ m[n[i]] = id
  BY <1>1, <1>2, <1>3 DEF Lists
<1>5. \A i \in 1 .. Len(new) : n[i] \in 1 .. Len(made)
  BY <1>1, <1>2 DEF Lists
<1>6. ASSUME NEW i \in DOMAIN n, NEW j \in DOMAIN n, n[i] = n[j] PROVE i = j
  <2>1. \A k \in 1 .. Len(new) : n[k] # Len(made) + 1
    BY <1>3, <1>5
  <2>2. CASE i \in 1 .. Len(new) /\ j \in 1 .. Len(new)
    BY <1>2, <1>6, <2>2 DEF Lists
  <2>3. CASE i \notin 1 .. Len(new) \/ j \notin 1 .. Len(new)
    <3>1. \A k \in DOMAIN n : k \in 1 .. Len(new) \/ k = Len(new) + 1
      BY <1>2, <1>3
    <3>2. QED
      BY <1>2, <1>6, <2>1, <2>3, <3>1
  <2>4. QED
    BY <2>2, <2>3
<1>7. ASSUME NEW b \in DOMAIN m, m[b] = id PROVE \E i \in DOMAIN n : n[i] = b
  <2>1. CASE b = Len(made) + 1
    <3>1. Len(new) + 1 \in DOMAIN n
      BY <1>2, <1>3
    <3>2. QED
      BY <1>2, <2>1, <3>1
  <2>2. CASE b \in 1 .. Len(made)
    <3>1. PICK i \in DOMAIN new : new[i] = b
      BY <1>1, <1>7, <2>2 DEF Lists
    <3>2. i \in DOMAIN n /\ n[i] = b
      BY <1>2, <1>3, <3>1
    <3>3. QED
      BY <3>2
  <2>3. QED
    BY <1>1, <1>3, <2>1, <2>2
<1>8. QED
  BY <1>4, <1>6, <1>7 DEF Lists, m, n

\* ... is none of another's.
LEMMA ListsOthers ==
  ASSUME NEW made \in Seq(Nat), NEW new \in Seq(Nat), NEW id \in Nat,
         NEW other \in Nat, other # id, Lists(new, other, made)
  PROVE  Lists(new, other, Append(made, id))
<1>1. /\ DOMAIN Append(made, id) = 1 .. Len(made) + 1 /\ DOMAIN made = 1 .. Len(made)
      /\ Append(made, id)[Len(made) + 1] = id
      /\ \A b \in 1 .. Len(made) : Append(made, id)[b] = made[b]
  OBVIOUS
<1>2. Len(made) \in Nat
  OBVIOUS
<1>3. \A b \in DOMAIN Append(made, id) :
        Append(made, id)[b] = other => b \in DOMAIN made /\ made[b] = other
  BY <1>1, <1>2
<1>4. QED
  BY <1>1, <1>2, <1>3 DEF Lists

LEMMA AnnouncedOnce == ScanInv /\ Announced => ReportedOnce
<1> SUFFICES ASSUME ScanInv, Announced, NEW s \in Scanners, NEW b \in 1 .. Len(books)
             PROVE  Cardinality({i \in DOMAIN scans[s].new : scans[s].new[i] = b})
                      = IF books[b] = scans[s].id THEN 1 ELSE 0
  BY DEF ReportedOnce
<1> DEFINE places == {i \in DOMAIN scans[s].new : scans[s].new[i] = b}
<1>1. Lists(scans[s].new, scans[s].id, books) /\ b \in DOMAIN books
  BY DEF Announced, ScanInv, TypeOK
<1>2. CASE books[b] = scans[s].id
  <2>1. PICK i \in DOMAIN scans[s].new : scans[s].new[i] = b
    BY <1>1, <1>2 DEF Lists
  <2>2. places = {i}
    BY <1>1, <2>1 DEF Lists
  <2>3. QED
    BY <1>2, <2>2, FS_Singleton
<1>3. CASE books[b] # scans[s].id
  <2>1. places = {}
    BY <1>1, <1>3 DEF Lists
  <2>2. QED
    BY <1>3, <2>1, FS_EmptySet
<1>4. QED
  BY <1>2, <1>3

\* Steps that make no book and begin no request.
LEMMA AnnouncedSame ==
  ASSUME Announced, UNCHANGED <<books, begun>>,
         \A t \in Scanners : /\ scans'[t].id = scans[t].id
                             /\ scans'[t].new = scans[t].new
                             /\ Hinted(scans'[t])
  PROVE  Announced'
<1>1. \A t \in Scanners : Hinted(scans[t])'
  BY DEF Hinted
<1>2. \A t \in Scanners : Lists(scans[t].new, scans[t].id, books)'
  BY DEF Announced, Lists
<1>3. QED
  BY <1>1, <1>2 DEF Announced

\* The same, of one request.
LEMMA AnnouncedRequest ==
  ASSUME ScanInv, Announced, UNCHANGED <<books, begun>>, NEW s \in Scanners,
         NEW scan, scans' = [scans EXCEPT ![s] = scan],
         scan.id = scans[s].id, scan.new = scans[s].new, Hinted(scan)
  PROVE  Announced'
<1>1. /\ scans'[s] = scan /\ \A t \in Scanners : t # s => scans'[t] = scans[t]
  BY DEF ScanInv, TypeOK
<1>2. \A t \in Scanners : Hinted(scans[t])
  BY DEF Announced
<1>3. QED
  BY <1>1, <1>2, AnnouncedSame

LEMMA WorldAnnounced == ASSUME ScanInv, Announced, World PROVE Announced'
<1>1. Disturbed /\ books' = books /\ begun' = begun
  BY DEF World, Put, Rename, Purge, Disturbed
<1>2. ASSUME NEW t \in Scanners
      PROVE  /\ scans'[t].id = scans[t].id
             /\ scans'[t].new = scans[t].new
             /\ Hinted(scans'[t])
  <2>1. scans[t] \in Scan /\ Hinted(scans[t])
    BY DEF ScanInv, TypeOK, Announced
  <2>2. scans'[t] = [scans[t] EXCEPT !.clean = FALSE]
    BY <1>1 DEF Disturbed
  <2>3. QED
    BY <2>1, <2>2 DEF Scan, Hinted
<1>3. QED
  BY <1>1, <1>2, AnnouncedSame

\* A new request has a number of its own, and nothing to report yet.
LEMMA BeginAnnounced ==
  ASSUME ScanInv, Announced, NEW s \in Scanners, NEW root \in Roots, Begin(s, root)
  PROVE  Announced'
<1>1. begun \in Nat /\ begun' \in Nat /\ begun' > begun /\ books' = books
  BY ScanAssumption DEF Begin, tables, ScanInv, TypeOK
<1>2. /\ scans'[s].id = begun' /\ scans'[s].new = <<>> /\ Hinted(scans'[s])
      /\ \A t \in Scanners : t # s => scans'[t] = scans[t]
  BY <1>1 DEF Begin, ScanInv, TypeOK, Idle, Hinted, NoBook
<1>3. \A t \in Scanners : scans[t].id \in Nat /\ scans[t].id <= begun /\ Hinted(scans[t])
  BY DEF Announced, ScanInv, TypeOK, Scan
<1>4. books \in Seq(Nat) /\ \A b \in DOMAIN books : books[b] \in 1 .. begun
  BY DEF Announced, ScanInv, TypeOK
<1>5. \A b \in DOMAIN books : books[b] \in 1 .. begun' /\ books[b] # begun'
  BY <1>1, <1>4
<1>6. \A t \in Scanners : scans'[t].id <= begun' /\ Hinted(scans'[t])
  BY <1>1, <1>2, <1>3
<1>7. ASSUME NEW t \in Scanners, NEW u \in Scanners, t # u, scans'[t].id # 0
      PROVE  scans'[t].id # scans'[u].id
  BY <1>1, <1>2, <1>3, <1>7 DEF Announced
<1>8. ASSUME NEW t \in Scanners PROVE Lists(scans'[t].new, scans'[t].id, books)
  <2>1. CASE t = s
    BY <1>2, <1>4, <1>5, <2>1, ListsNothing
  <2>2. CASE t # s
    BY <1>2, <2>2 DEF Announced
  <2>3. QED
    BY <2>1, <2>2
<1>9. QED
  BY <1>1, <1>5, <1>6, <1>7, <1>8 DEF Announced, Lists, Hinted

LEMMA DropAnnounced ==
  ASSUME ScanInv, Announced, NEW s \in Scanners, Drop(s)
  PROVE  Announced'
<1>1. begun' = begun /\ begun \in Nat /\ books' = books
  BY ScanAssumption DEF Drop, tables, ScanInv, TypeOK
<1>2. /\ scans'[s].id = 0 /\ scans'[s].new = <<>> /\ Hinted(scans'[s])
      /\ \A t \in Scanners : t # s => scans'[t] = scans[t]
  BY DEF Drop, ScanInv, TypeOK, Idle, Hinted, NoBook
<1>3. books \in Seq(Nat) /\ \A b \in DOMAIN books : books[b] \in 1 .. begun
  BY DEF Announced, ScanInv, TypeOK
<1>4. \A b \in DOMAIN books : books[b] # 0
  BY <1>1, <1>3
<1>5. \A t \in Scanners : scans'[t].id <= begun /\ Hinted(scans'[t])
  BY <1>1, <1>2 DEF Announced
<1>6. ASSUME NEW t \in Scanners PROVE Lists(scans'[t].new, scans'[t].id, books)
  <2>1. CASE t = s
    BY <1>2, <1>3, <1>4, <2>1, ListsNothing
  <2>2. CASE t # s
    BY <1>2, <2>2 DEF Announced
  <2>3. QED
    BY <2>1, <2>2
<1>7. ASSUME NEW t \in Scanners, NEW u \in Scanners, t # u, scans'[t].id # 0
      PROVE  scans'[t].id # scans'[u].id
  BY <1>2, <1>7 DEF Announced
<1>8. QED
  BY <1>1, <1>3, <1>5, <1>6, <1>7 DEF Announced, Lists, Hinted

\* A file that has its row: a multi-file group goes on with the row's book.
LEMMA CarryHinted ==
  ASSUME NEW scan \in Scan, NEW p, NEW b \in Nat, b # 0, Hinted(scan)
  PROVE  /\ Hinted(Carry(scan, p, b))
         /\ Carry(scan, p, b).id = scan.id /\ Carry(scan, p, b).new = scan.new
  BY DEF Scan, Hinted, Carry, NoBook

LEMMA KnownAnnounced ==
  ASSUME ScanInv, Announced, NEW s \in Scanners, NEW f \in scans[s].hashed,
         PathKnown(s, f) \/ Moved(s, f)
  PROVE  Announced'
<1>1. PICK r \in rows, c \in BOOLEAN :
        scans' = [t \in Scanners |->
          [(IF t = s THEN Carry(scans[s], f.path, r.book) ELSE scans[t]) EXCEPT !.clean = @ /\ c]]
  <2>1. CASE Moved(s, f)
    BY <2>1, Zenon DEF Moved, WithHash
  <2>2. CASE PathKnown(s, f)
    <3>1. PICK r \in rows : scans' = [scans EXCEPT ![s] = Carry(scans[s], f.path, r.book)]
      BY <2>2 DEF PathKnown, AtPath
    <3>2. \A t \in Scanners : scans[t] \in Scan /\ r.book \in Nat
      BY DEF ScanInv, TypeOK, Row
    <3>3. \A x \in Scan : [x EXCEPT !.clean = @ /\ TRUE] = x
      BY DEF Scan
    <3>4. Carry(scans[s], f.path, r.book) \in Scan
      BY <3>2, CarryType
    <3>5. \A t \in Scanners : scans'[t] = IF t = s THEN Carry(scans[s], f.path, r.book) ELSE scans[t]
      BY <3>1 DEF ScanInv, TypeOK
    <3>6. scans' = [t \in Scanners |-> scans'[t]]
      BY <3>1 DEF ScanInv, TypeOK
    <3>7. scans' = [t \in Scanners |->
            [(IF t = s THEN Carry(scans[s], f.path, r.book) ELSE scans[t]) EXCEPT !.clean = @ /\ TRUE]]
      BY <3>2, <3>3, <3>4, <3>5, <3>6
    <3>8. QED
      BY <3>7
  <2>3. QED
    BY <2>1, <2>2
<1>2. r.book \in Nat /\ r.book # 0
  BY DEF ScanInv, TypeOK, Books, Row
<1>3. ASSUME NEW t \in Scanners
      PROVE  /\ scans'[t].id = scans[t].id
             /\ scans'[t].new = scans[t].new
             /\ Hinted(scans'[t])
  <2>1. scans[t] \in Scan /\ Hinted(scans[t]) /\ scans[s] \in Scan
    BY DEF ScanInv, TypeOK, Announced
  <2>2. PICK x : x = IF t = s THEN Carry(scans[s], f.path, r.book) ELSE scans[t]
    OBVIOUS
  <2>3. x \in Scan /\ Hinted(x) /\ x.id = scans[t].id /\ x.new = scans[t].new
    BY <1>2, <2>1, <2>2, CarryHinted, CarryType
  <2>4. scans'[t] = [x EXCEPT !.clean = @ /\ c]
    BY <1>1, <2>2
  <2>5. QED
    BY <2>3, <2>4 DEF Scan, Hinted
<1>4. UNCHANGED <<books, begun>>
  BY DEF PathKnown, Moved, tables
<1>5. QED
  BY <1>3, <1>4, AnnouncedSame

\* A row is inserted: of a new book, which is reported, or of the group's book,
\* which was.
LEMMA InsertedAnnounced ==
  ASSUME ScanInv, Announced, NEW s \in Scanners, NEW f \in scans[s].hashed, Inserted(s, f)
  PROVE  Announced'
<1> DEFINE scan == scans[s]
<1>1. /\ scan \in Scan /\ Hinted(scan) /\ scan.phase = "scanning" /\ f.path \in scan.group
      /\ begun' = begun /\ books \in Seq(Nat)
  BY DEF Inserted, Shape, ScanInv, TypeOK, Announced
<1>2. CASE scan.book # NoBook
  <2>1. ~Reports(scan) /\ scan.book \in Nat /\ scan.book # 0
    BY <1>1, <1>2 DEF Reports, Hinted, Scan, NoBook
  <2>2. /\ books' = books
        /\ scans' = [scans EXCEPT ![s] = [Carry(scan, f.path, scan.book) EXCEPT !.new = @]]
    BY <1>2, <2>1 DEF Inserted
  <2>3. [Carry(scan, f.path, scan.book) EXCEPT !.new = @] = Carry(scan, f.path, scan.book)
    BY <1>1 DEF Carry, Scan
  <2>4. scans' = [scans EXCEPT ![s] = Carry(scan, f.path, scan.book)]
    BY <2>2, <2>3
  <2>5. /\ Hinted(Carry(scan, f.path, scan.book))
        /\ Carry(scan, f.path, scan.book).id = scan.id /\ Carry(scan, f.path, scan.book).new = scan.new
    BY <1>1, <2>1, CarryHinted
  <2>6. QED
    BY <1>1, <2>2, <2>4, <2>5, AnnouncedRequest
<1>3. CASE scan.book = NoBook
  <2> DEFINE b == Len(books) + 1
             after == [Carry(scan, f.path, b) EXCEPT !.new = Append(@, b)]
  <2>1. Reports(scan)
    BY <1>1, <1>3 DEF Reports, Hinted, NoBook
  <2>2. books' = Append(books, scan.id) /\ scans' = [scans EXCEPT ![s] = after]
    BY <1>3, <2>1 DEF Inserted
  <2>3. b \in Nat /\ b # 0 /\ scan.id \in Nat /\ scan.id # 0 /\ scan.new \in Seq(Nat)
    BY <1>1 DEF Hinted, Scan
  <2>4. Hinted(after) /\ after.id = scan.id /\ after.new = Append(scan.new, b)
    <3> DEFINE carried == Carry(scan, f.path, b)
    <3>1. /\ carried \in Scan /\ Hinted(carried)
          /\ carried.id = scan.id /\ carried.new = scan.new
      BY <1>1, <2>3, CarryHinted, CarryType
    <3>2. after = [carried EXCEPT !.new = Append(@, b)]
      OBVIOUS
    <3> HIDE DEF carried, after
    <3>3. QED
      BY <3>1, <3>2 DEF Hinted, Scan
  <2>5. scans'[s] = after /\ \A t \in Scanners : t # s => scans'[t] = scans[t]
    BY <2>2 DEF ScanInv, TypeOK
  <2> HIDE DEF after
  <2>6. ASSUME NEW t \in Scanners
        PROVE  /\ Lists(scans'[t].new, scans'[t].id, Append(books, scan.id))
               /\ scans'[t].id = scans[t].id /\ Hinted(scans'[t])
    <3>1. /\ Lists(scans[t].new, scans[t].id, books) /\ Hinted(scans[t])
          /\ scans[t].new \in Seq(Nat) /\ scans[t].id \in Nat
      BY DEF Announced, ScanInv, TypeOK, Scan
    <3>2. CASE t = s
      BY <1>1, <2>3, <2>4, <2>5, <3>1, <3>2, ListsOwn
    <3>3. CASE t # s
      <4>1. scans[t].id # scan.id
        BY <2>3, <3>3 DEF Announced
      <4>2. QED
        BY <1>1, <2>3, <2>5, <3>1, <3>3, <4>1, ListsOthers
    <3>4. QED
      BY <3>2, <3>3
  <2>7. \A n \in DOMAIN books' : books'[n] \in 1 .. begun'
    <3>1. \A n \in DOMAIN books : books[n] \in 1 .. begun
      BY DEF Announced
    <3>2. scan.id \in 1 .. begun
      BY <2>3, ScanAssumption DEF Announced, ScanInv, TypeOK
    <3>3. QED
      BY <1>1, <2>2, <2>3, <3>1, <3>2
  <2>8. QED
    BY <1>1, <2>2, <2>6, <2>7 DEF Announced, Lists, Hinted
<1>4. QED
  BY <1>2, <1>3

\* Steps that touch neither the number of a request nor its report.
LEMMA QuietAnnounced ==
  ASSUME ScanInv, Announced, NEW s \in Scanners,
         \/ OpenGroup(s) \/ GroupFails(s) \/ DetectBoxSets(s)
         \/ \E d \in Dirs : Walk(s, d)
         \/ \E p \in Paths : HashFile(s, p)
         \/ \E x \in scans[s].candidates : PersistBoxSet(s, x)
  PROVE  Announced'
<1>1. scans[s] \in Scan /\ Hinted(scans[s])
  BY DEF ScanInv, TypeOK, Announced
<1>2. UNCHANGED <<books, begun>>
  BY DEF OpenGroup, GroupFails, DetectBoxSets, Walk, HashFile, PersistBoxSet, tables
<1>3. CASE OpenGroup(s)
  <2>1. PICK files, multi, seen :
          scans' = [scans EXCEPT ![s] = [scans[s] EXCEPT !.group = files,
             !.seen = seen, !.multi = multi, !.first = TRUE, !.book = NoBook]]
    BY <1>3 DEF OpenGroup
  <2>2. QED
    BY <1>1, <1>2, <2>1, AnnouncedRequest DEF Scan, Hinted
<1>4. CASE GroupFails(s)
  <2>1. scans' = [scans EXCEPT ![s] =
                    [scans[s] EXCEPT !.group = {}, !.hashed = {}, !.clean = FALSE]]
    BY <1>4 DEF GroupFails
  <2>2. QED
    BY <1>1, <1>2, <2>1, AnnouncedRequest DEF Scan, Hinted
<1>5. CASE DetectBoxSets(s)
  <2>1. scans[s].group = {}
    BY <1>5 DEF DetectBoxSets
  <2>2. PICK found :
          scans' = [scans EXCEPT ![s] = [scans[s] EXCEPT !.phase = "boxing",
             !.multi = FALSE, !.first = FALSE, !.book = NoBook,
             !.candidates = found]]
    BY <1>5, Zenon DEF DetectBoxSets
  <2>3. QED
    BY <1>1, <1>2, <2>1, <2>2, AnnouncedRequest DEF Scan, Hinted
<1>6. ASSUME NEW d \in Dirs, Walk(s, d) PROVE Announced'
  <2>1. PICK unread, seen :
          scans' = [scans EXCEPT ![s] =
                      [scans[s] EXCEPT !.unread = unread, !.seen = seen]]
    BY <1>6 DEF Walk
  <2>2. QED
    BY <1>1, <1>2, <2>1, AnnouncedRequest DEF Scan, Hinted
<1>7. ASSUME NEW x \in scans[s].candidates, PersistBoxSet(s, x) PROVE Announced'
  <2>1. PICK left : scans' = [scans EXCEPT ![s] = [scans[s] EXCEPT !.candidates = left]]
    BY <1>7 DEF PersistBoxSet
  <2>2. QED
    BY <1>1, <1>2, <2>1, AnnouncedRequest DEF Scan, Hinted
<1>8. ASSUME NEW p \in Paths, HashFile(s, p) PROVE Announced'
  <2>1. PICK read : scans' = [scans EXCEPT ![s] = [scans[s] EXCEPT !.hashed = read]]
    BY <1>8 DEF HashFile
  <2>2. QED
    BY <1>1, <1>2, <2>1, AnnouncedRequest DEF Scan, Hinted
<1>9. QED
  BY <1>3, <1>4, <1>5, <1>6, <1>7, <1>8

LEMMA FinishAnnounced ==
  ASSUME ScanInv, Announced, NEW s \in Scanners, Finish(s)
  PROVE  Announced'
<1>1. UNCHANGED <<books, begun>>
  BY DEF Finish, tables
<1>2. ASSUME NEW t \in Scanners
      PROVE  /\ scans'[t].id = scans[t].id
             /\ scans'[t].new = scans[t].new
             /\ Hinted(scans'[t])
  <2>1. scans[t] \in Scan /\ Hinted(scans[t])
    BY DEF ScanInv, TypeOK, Announced
  <2>2. scans'[t] = [scans[t] EXCEPT !.phase = IF t = s THEN "done" ELSE @,
                       !.clean = @ /\ (t # s => ~scans[s].clean)]
    BY DEF Finish
  <2>3. QED
    BY <2>1, <2>2 DEF Scan, Hinted
<1>3. QED
  BY <1>1, <1>2, AnnouncedSame

\* For any files, requests and interleavings, purges and dropped requests
\* included: the report of a request lists each book it made once, and no
\* book of another.
THEOREM BooksReportedOnce == Spec => []ReportedOnce
<1>1. Init => Announced
  <2> SUFFICES ASSUME Init PROVE Announced
    OBVIOUS
  <2>1. books = <<>> /\ begun = 0 /\ \A s \in Scanners : scans[s] = Idle
    BY DEF Init
  <2>2. Hinted(Idle) /\ Idle.id = 0 /\ Idle.new = <<>>
    BY DEF Idle, Hinted, NoBook
  <2>3. QED
    BY <2>1, <2>2 DEF Announced, Lists
<1>2. ScanInv /\ Announced /\ [Next]_vars => Announced'
  <2> SUFFICES ASSUME ScanInv, Announced, [Next]_vars PROVE Announced'
    OBVIOUS
  <2>1. ASSUME NEW s \in Scanners, Request(s) PROVE Announced'
    BY <2>1, BeginAnnounced, KnownAnnounced, InsertedAnnounced, QuietAnnounced,
       FinishAnnounced, DropAnnounced DEF Request
  <2>2. CASE UNCHANGED vars
    <3>1. UNCHANGED <<books, begun, scans>>
      BY <2>2 DEF vars
    <3>2. QED
      BY <3>1, AnnouncedSame DEF Announced
  <2>3. QED
    BY <2>1, <2>2, WorldAnnounced DEF Next
<1>3. Spec => [](ScanInv /\ Announced)
  BY InitInv, StepInv, <1>1, <1>2, PTL DEF Spec
<1>4. QED
  BY <1>3, AnnouncedOnce, PTL
=============================================================================
