------------------------------- MODULE Sounds -------------------------------
(* What is heard in a recording: windows that tell two copies of a recording *)
(* (fingerprint, api/router: library_duplicates), publishers' jingles found  *)
(* by their hashes (fingerprint, audiologo/stage), and jingles that are      *)
(* spoken (audiologo/transcript_aided, audiologo/phrases).  Windows, jingles *)
(* and transcripts grow step by step, so that every small one is met.        *)
EXTENDS Common, Sequences, SequencesExt

CONSTANTS
  Bits,         \* bits of a hash word, 32 in the code
  MaxHashes,    \* bound: words of a window
  Threshold,    \* match_threshold of a jingle, in percent
  NeedleHashes, \* words of either bookend
  MaxGap,       \* words between the bookends
  Letters,      \* what a transcript is written in, "I" among them
  PhraseLists,  \* PHRASES, then the names of publishers, of authors and of narrators,
                \* trimmed as a catalogue's are (one that an operator resolves to is
                \* stored as sent)
  ScanSecs,     \* TRANSCRIPT_SCAN_HEAD_SECS
  WindowSecs,   \* WINDOW_SECS
  Durations,    \* lengths of a file
  MaxRuns       \* bound: runs of fingerprint-book, and new files

VARIABLES
  heard,    \* the hashes of a window, and of two jingles
  said,     \* segments of a transcript, each with its text
  recorded, \* book -> its first active file: length and recording
  printing, \* book -> windows that fingerprint-book still has to write
  prints,   \* book -> offset -> row of book_fingerprints
  whole,    \* books whose last run wrote all windows of their file; a history variable
  runs

soVars == <<heard, said, recorded, printing, prints, whole, runs>>

SlideMatches == [offset : Nat, hamming : Nat]
Space == " "
AllPhrases == UNION {ToSet(phrases) : phrases \in ToSet(PhraseLists)}
PhraseHits == [at : Nat, phrase : AllPhrases]
Spans == [from : Nat, to : Nat]
JingleHits == [from : Nat, to : Nat, sure : [num : Nat, den : Nat]]
ASSUME SoundsAssumption ==
  /\ IsFiniteSet(Bits) /\ Threshold \in 0 .. 100 /\ NeedleHashes \in Nat \ {0} /\ MaxGap \in Nat
  /\ ScanSecs \in Nat /\ WindowSecs \in Nat \ {0} /\ MaxHashes \in Nat /\ MaxRuns \in Nat
  /\ \A d \in Durations : d \in Nat /\ d >= WindowSecs
  /\ Nothing \notin Nat \cup SlideMatches \cup JingleHits \cup PhraseHits \cup Spans
  /\ PhraseLists \in Seq(Seq(AllPhrases))
  /\ \A p \in AllPhrases : p \in Seq(ToSet(p)) /\ p # <<>> /\ p[1] # Space /\ p[Len(p)] # Space

Width == Cardinality(Bits)
Gap(m, n) == IF m < n THEN n - m ELSE m - n
-----------------------------------------------------------------------------
(* Jingles by their hashes                                                   *)

Differing(x, y) == Cardinality((x \ y) \cup (y \ x))
Hamming(a, b) ==
  LET shared == 1 .. (IF Len(a) < Len(b) THEN Len(a) ELSE Len(b))
  IN  Width * Gap(Len(a), Len(b)) + SumSeq([n \in shared |-> Differing(a[n], b[n])])

Slice(s, offset, len) == SubSeq(s, offset + 1, offset + len)
Better(best, at, distance) ==
  IF best = Nothing \/ distance < best.hamming THEN [offset |-> at, hamming |-> distance] ELSE best
\* Mutant: a later match that is as good wins.
SlideMatchLate(haystack, needle) ==
  LET at[n \in 0 .. Len(haystack) - Len(needle) + 1] ==
        LET h == Hamming(Slice(haystack, n - 1, Len(needle)), needle)
            best == at[n - 1]
        IN  IF n = 0 THEN Nothing
            ELSE IF best = Nothing \/ h <= best.hamming THEN [offset |-> n - 1, hamming |-> h] ELSE best
  IN  IF needle = <<>> \/ Len(haystack) < Len(needle) THEN Nothing
      ELSE at[Len(haystack) - Len(needle) + 1]
SlideMatch(haystack, needle) ==
  LET at[n \in 0 .. Len(haystack) - Len(needle) + 1] ==
        IF n = 0 THEN Nothing
        ELSE Better(at[n - 1], n - 1, Hamming(Slice(haystack, n - 1, Len(needle)), needle))
  IN  IF needle = <<>> \/ Len(haystack) < Len(needle) THEN Nothing
      ELSE at[Len(haystack) - Len(needle) + 1]

(* The tail is looked for behind the best match of the head.                 *)
SlideMatchBookend(haystack, head, tail, cap) ==
  LET first == SlideMatch(haystack, head)
      from == first.offset + Len(head)
      last == SlideMatch(SubSeq(haystack, from + 1, Len(haystack)), tail)
  IN  IF first = Nothing \/ from >= Len(haystack) \/ last = Nothing \/ last.offset > cap THEN Nothing
      ELSE <<first, [last EXCEPT !.offset = @ + from]>>

(* A confidence is a fraction.                                               *)
Confidence(hamming, needle) ==
  [num |-> IF hamming > Width * Len(needle) THEN 0 ELSE Width * Len(needle) - hamming,
   den |-> Width * Len(needle)]
Higher(a, b) == a.num * b.den > b.num * a.den
Enough(c) == 100 * c.num >= Threshold * c.den
FullHit(window, jingle) ==
  LET pos == SlideMatch(window, jingle)
  IN  IF pos = Nothing THEN Nothing
      ELSE [from |-> pos.offset, to |-> pos.offset + Len(jingle), sure |-> Confidence(pos.hamming, jingle)]
BookendHit(window, jingle) ==
  LET head == SubSeq(jingle, 1, NeedleHashes)
      tail == SubSeq(jingle, Len(jingle) - NeedleHashes + 1, Len(jingle))
      pair == SlideMatchBookend(window, head, tail, MaxGap)
      sure == <<Confidence(pair[1].hamming, head), Confidence(pair[2].hamming, tail)>>
  IN  IF Len(jingle) < 2 * NeedleHashes \/ pair = Nothing THEN Nothing
      ELSE [from |-> pair[1].offset, to |-> pair[2].offset + NeedleHashes,
            sure |-> IF Higher(sure[1], sure[2]) THEN sure[2] ELSE sure[1]]
Surer(best, hit) ==
  IF hit # Nothing /\ Enough(hit.sure) /\ (best # Nothing => Higher(hit.sure, best.sure)) THEN hit ELSE best
Surest(hits) ==
  LET at[n \in 0 .. Len(hits)] == IF n = 0 THEN Nothing ELSE Surer(at[n - 1], hits[n]) IN at[Len(hits)]
(* The bookends are tried when no jingle is found in full.                   *)
DetectJingle(window, jingles) ==
  LET full == Surest([n \in DOMAIN jingles |-> FullHit(window, jingles[n])])
  IN  IF full # Nothing THEN full ELSE Surest([n \in DOMAIN jingles |-> BookendHit(window, jingles[n])])

-----------------------------------------------------------------------------
(* Jingles that are spoken: segment n is said from 2n - 2 to 2n - 1 seconds  *)

Start(n) == 2 * n - 2
End(n) == 2 * n - 1
InWindow == {n \in DOMAIN said : Start(n) < ScanSecs}
(* The texts, a blank before each but the first that says something; with    *)
(* the place where each begins.                                              *)
Join(j, n) ==
  LET text == IF j.text = <<>> THEN j.text ELSE Append(j.text, Space)
  IN  [text |-> text \o said[n], ranges |-> Append(j.ranges, [seg |-> n, at |-> Len(text)])]
Joining ==
  LET at[n \in 0 .. Cardinality(InWindow)] == IF n = 0 THEN [text |-> <<>>, ranges |-> <<>>] ELSE Join(at[n - 1], n)
  IN  at
Joined == Joining[Cardinality(InWindow)]
(* The lower case of a letter may be longer than the letter.                 *)
Lower(text) == FlattenSeq([n \in DOMAIN text |-> IF text[n] = "I" THEN <<"i", "'">> ELSE <<text[n]>>])
PlaceOf(text, phrase) ==
  LET at == {n \in 0 .. Len(text) - Len(phrase) : Slice(text, n, Len(phrase)) = phrase}
  IN  IF at = {} THEN Nothing ELSE CHOOSE n \in at : \A m \in at : n <= m
Earlier(best, at, phrase) ==
  IF at # Nothing /\ (best # Nothing => at < best.at) THEN [at |-> at, phrase |-> phrase] ELSE best
FirstPhraseHit(text, phrases) ==
  LET hit[n \in 0 .. Len(phrases)] ==
        IF n = 0 THEN Nothing ELSE Earlier(hit[n - 1], PlaceOf(text, phrases[n]), phrases[n])
  IN  hit[Len(phrases)]
\* Mutant: the end is that of the segment in which the phrase begins.
LocalizeHitStart(ranges, at, len) ==
  LET begun == {n \in DOMAIN ranges : ranges[n].at <= at}
      first == IF begun = {} THEN 1 ELSE CHOOSE n \in begun : \A m \in begun : m <= n
  IN  [from |-> Start(ranges[first].seg), to |-> End(ranges[first].seg)]
LocalizeHit(ranges, at, len) ==
  LET LastBegun(where) ==
        LET begun == {n \in DOMAIN ranges : ranges[n].at <= where}
        IN  IF begun = {} THEN 1 ELSE CHOOSE n \in begun : \A m \in begun : m <= n
  IN  [from |-> Start(ranges[LastBegun(at)].seg), to |-> End(ranges[LastBegun(at + len)].seg)]
(* A phrase comes before any name, and a publisher before an author.         *)
ScanForPhrase ==
  LET text == Lower(Joined.text)
      hits == {t \in DOMAIN PhraseLists : FirstPhraseHit(text, PhraseLists[t]) # Nothing}
      hit == FirstPhraseHit(text, PhraseLists[CHOOSE t \in hits : \A u \in hits : t <= u])
  IN  IF hits = {} THEN Nothing ELSE LocalizeHit(Joined.ranges, hit.at, Len(hit.phrase))

-----------------------------------------------------------------------------
(* fingerprint-book                                                          *)

Offsets(secs) == {o \in {(k * secs) \div 4 : k \in 0 .. 3} : o + WindowSecs <= secs}
(* fingerprint_file: a window that cannot be decoded is left out.            *)
Windows(file) ==
  {[o \in decoded |-> file.sound] : decoded \in SUBSET Offsets(file.secs)}

SoInit ==
  /\ heard = [window |-> <<>>, jingles |-> << <<>>, <<>> >>] /\ said = <<>>
  /\ recorded \in [Books -> [secs : Durations, sound : {1, 2}]]
  /\ printing = [b \in Books |-> Nothing] /\ prints = [b \in Books |-> <<>>]
  /\ whole = {} /\ runs = 0

MoreHeard ==
  /\ \/ /\ Len(heard.window) < MaxHashes
        /\ \E w \in SUBSET Bits : heard' = [heard EXCEPT !.window = Append(@, w)]
     \/ \E j \in 1 .. 2 :
          /\ Len(heard.jingles[j]) < 3
          /\ \E w \in SUBSET Bits : heard' = [heard EXCEPT !.jingles[j] = Append(@, w)]
  /\ UNCHANGED <<said, recorded, printing, prints, whole, runs>>
MoreSaid ==
  /\ \/ Len(said) < 3 /\ said' = Append(said, <<>>)
     \/ /\ said # <<>> /\ Len(FlattenSeq(said)) < 5
        /\ \E l \in Letters : said' = [said EXCEPT ![Len(said)] = Append(@, l)]
  /\ UNCHANGED <<heard, recorded, printing, prints, whole, runs>>
(* A conversion, or a trim: another file becomes the first.                  *)
FileTurns(b) ==
  /\ runs < MaxRuns /\ runs' = runs + 1
  /\ \E secs \in Durations, sound \in {1, 2} :
       /\ [secs |-> secs, sound |-> sound] # recorded[b]
       /\ recorded' = [recorded EXCEPT ![b] = [secs |-> secs, sound |-> sound]]
  /\ whole' = whole \ {b} /\ UNCHANGED <<heard, said, printing, prints>>
FingerprintRuns(b) ==
  /\ runs < MaxRuns /\ runs' = runs + 1 /\ printing[b] = Nothing
  /\ \E w \in Windows(recorded[b]) :
       w # <<>> /\ printing' = [printing EXCEPT ![b] = [left |-> w, all |-> w, of |-> recorded[b]]]
  /\ whole' = whole \ {b}
  /\ UNCHANGED <<heard, said, recorded, prints>>
\* Mutant: INSERT OR IGNORE.
WriteFingerprintOnce(b) ==
  /\ printing[b] # Nothing
  /\ LET left == printing[b].left
     IN  \E o \in DOMAIN left :
           /\ prints' = [prints EXCEPT ![b] = @ @@ (o :> left[o])]
           /\ printing' = [printing EXCEPT ![b] =
                IF DOMAIN left = {o} THEN Nothing ELSE [@ EXCEPT !.left = [q \in DOMAIN left \ {o} |-> left[q]]]]
           /\ whole' = IF DOMAIN left = {o} /\ DOMAIN printing[b].all = Offsets(printing[b].of.secs)
                            /\ printing[b].of = recorded[b]
                       THEN whole \cup {b} ELSE whole
  /\ UNCHANGED <<heard, said, recorded, runs>>
WriteFingerprint(b) ==
  /\ printing[b] # Nothing
  /\ LET left == printing[b].left
     IN  \E o \in DOMAIN left :
           /\ \A p \in DOMAIN left : o <= p
           /\ prints' = [prints EXCEPT ![b] =
                [q \in DOMAIN @ \cup {o} |-> IF q = o THEN left[o] ELSE @[q]]]
           /\ printing' = [printing EXCEPT ![b] =
                IF DOMAIN left = {o} THEN Nothing ELSE [@ EXCEPT !.left = [q \in DOMAIN left \ {o} |-> left[q]]]]
           /\ whole' = IF DOMAIN left = {o} /\ DOMAIN printing[b].all = Offsets(printing[b].of.secs)
                            /\ printing[b].of = recorded[b]
                       THEN whole \cup {b} ELSE whole
  /\ UNCHANGED <<heard, said, recorded, runs>>
FingerprintFails(b) ==
  /\ printing[b] # Nothing /\ printing' = [printing EXCEPT ![b] = Nothing]
  /\ UNCHANGED <<heard, said, recorded, prints, whole, runs>>
SoStep ==
  \/ MoreHeard \/ MoreSaid
  \/ \E b \in Books : FileTurns(b) \/ FingerprintRuns(b) \/ WriteFingerprint(b) \/ FingerprintFails(b)

(* GET /library/duplicates: for each set of books that shares a window, at   *)
(* how many offsets it is the set of all that have it.                       *)
Sharing(o, sound) == {b \in Books : o \in DOMAIN prints[b] /\ prints[b][o] = sound}
LibraryDuplicates ==
  LET keys == {k \in (UNION {DOMAIN prints[b] : b \in Books}) \X {1, 2} : Cardinality(Sharing(k[1], k[2])) >= 2}
      groups == {Sharing(k[1], k[2]) : k \in keys}
  IN  [g \in groups |-> Cardinality({k \in keys : Sharing(k[1], k[2]) = g})]

-----------------------------------------------------------------------------
SoTypeOK ==
  /\ Len(heard.window) <= MaxHashes /\ Len(said) <= 3 /\ runs \in 0 .. MaxRuns
  /\ \A b \in Books : \A o \in DOMAIN prints[b] : prints[b][o] \in {1, 2}
  /\ \A b \in Books : printing[b] # Nothing => DOMAIN printing[b].left \subseteq DOMAIN printing[b].all

(* A jingle is looked for as its documentation has it: at the earliest of    *)
(* the closest places; and what detection reports is a jingle that is sure   *)
(* enough, in full if one is, and none is surer.                             *)
JinglesFound ==
  LET win == heard.window
      Places(j) == {o \in 0 .. Len(win) - Len(j) : j # <<>>}
      Distance(o, j) == Hamming(Slice(win, o, Len(j)), j)
      Hits(Hit(_, _)) == {Hit(win, heard.jingles[n]) : n \in {1, 2}} \ {Nothing}
  IN  /\ \A n \in {1, 2} :
           \A j \in {heard.jingles[n]}, m \in {SlideMatch(win, heard.jingles[n])} :
             IF Places(j) = {} THEN m = Nothing
             ELSE /\ m.offset \in Places(j) /\ m.hamming = Distance(m.offset, j)
                  /\ \A o \in Places(j) : m.hamming <= Distance(o, j)
                  /\ \A o \in Places(j) : o < m.offset => m.hamming < Distance(o, j)
      /\ \A hit \in {DetectJingle(win, heard.jingles)}, fulls \in {Hits(FullHit)}, ends \in {Hits(BookendHit)} :
           /\ \A h \in ends : h.from + 2 * NeedleHashes <= h.to /\ h.to <= h.from + 2 * NeedleHashes + MaxGap
           /\ hit = Nothing <=> \A h \in fulls \cup ends : ~Enough(h.sure)
           /\ hit # Nothing =>
                /\ Enough(hit.sure) /\ hit.from >= 0 /\ hit.to <= Len(win)
                /\ \A h \in (IF \E f \in fulls : Enough(f.sure) THEN fulls ELSE ends) : ~Higher(h.sure, hit.sure)

SegmentAt(n) == CHOOSE r \in ToSet(Joined.ranges) : r.at <= n /\ n < r.at + Len(said[r.seg])
(* The segments that say a phrase, from where the first of them begins to    *)
(* where the last ends, whatever empty segments lie between.                 *)
Saying(at, phrase) == [from |-> Start(SegmentAt(at).seg), to |-> End(SegmentAt(at + Len(phrase) - 1).seg)]
(* The first list of which a phrase is said has the last word, with the      *)
(* phrase that is said first.                                                *)
SpokenPlaced ==
  LET text == Joined.text
      heeded == {t \in DOMAIN PhraseLists : \E p \in ToSet(PhraseLists[t]) : PlaceOf(text, p) # Nothing}
  IN  "I" \notin ToSet(text) =>
        /\ ScanForPhrase = Nothing <=> heeded = {}
        /\ \A t \in heeded :
             (\A u \in heeded : t <= u) =>
               \E p \in ToSet(PhraseLists[t]) :
                 /\ PlaceOf(text, p) # Nothing /\ ScanForPhrase = Saying(PlaceOf(text, p), p)
                 /\ \A q \in ToSet(PhraseLists[t]) : PlaceOf(text, q) # Nothing => PlaceOf(text, p) <= PlaceOf(text, q)

(* Two copies of one recording are listed together at every offset, once     *)
(* each has been fingerprinted in full.                                      *)
CopiesListed ==
  \A b, c \in whole :
    b # c /\ recorded[b] = recorded[c]
      => \A o \in Offsets(recorded[b].secs) :
           \E g \in DOMAIN LibraryDuplicates : g = Sharing(o, recorded[b].sound) /\ {b, c} \subseteq g
SoundsFound == JinglesFound /\ SpokenPlaced /\ CopiesListed

(* Observed: a trimmed book keeps the windows of the file it was, at offsets *)
(* that the new one does not have, and is listed beside a copy of that one.  *)
OnlyCopiesListed ==
  \A g \in DOMAIN LibraryDuplicates :
    g \subseteq whole => \A b, c \in g : recorded[b].sound = recorded[c].sound
=============================================================================
