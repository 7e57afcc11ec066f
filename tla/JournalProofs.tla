---------------------------- MODULE JournalProofs ----------------------------
(* Proofs about Journal, for any clients, fields, requests and bounds: what   *)
(* the handlers, the retry endpoint and the recovery pass do to the journal   *)
(* is what Ledger allows.                                                     *)
EXTENDS Journal, SequenceTheorems, TLAPS

\* What a request in progress knows, of a journal of n rows and the operations
\* w written: how far its capture is, that its rows are in the journal, and
\* that its mutation has landed when it says so.
HandlerTracked(h, n, w) ==
  /\ h.pc \in {"read", "record"} => Len(h.ops) < Len(h.edits)
  /\ h.pc = "apply" => Len(h.ops) = Len(h.edits) /\ h.ops # <<>>
  /\ h.pc = "settle" => h.ops # <<>>
  /\ \A i \in 1 .. Len(h.ops) : h.ops[i] \in 1 .. n
  /\ h.landed => /\ h.pc = "settle"
                  /\ \A i \in 1 .. Len(h.ops) : h.ops[i] \in w

\* A replay works on rows of the journal, and decides 'done' only after it has
\* written.
ReplayTracked(r, n, w) ==
  /\ r.todo \subseteq 1 .. n
  /\ r.pc \in {"read", "apply", "mark"} => r.op \in 1 .. n
  /\ r.pc = "apply" => r.verdict = "failed"
  /\ r.pc = "mark" /\ r.verdict = "done" => r.op \in w

\* What the journal itself and its history are
JournalType ==
  /\ journal \in Seq(Entry)
  /\ written \subseteq Nat
  /\ refused \subseteq Nat

HandlersInv ==
  /\ handler \in [Clients -> HandlerType]
  /\ \A c \in Clients : HandlerTracked(handler[c], Len(journal), written)

ReplayInv ==
  /\ replay \in ReplayType
  /\ ReplayTracked(replay, Len(journal), written)

WorldType ==
  /\ phase \in {"up", "down", "recovering"}
  /\ exists \in BOOLEAN
  /\ target \in [Fields -> Values]
  /\ author \in [Fields -> Nat]

CountersType ==
  /\ begun \in 0 .. MaxRequests
  /\ crashes \in 0 .. MaxCrashes
  /\ errors \in 0 .. MaxErrors

JournalInv == JournalType /\ HandlersInv /\ ReplayInv /\ WorldType /\ CountersType

Log == [o \in DOMAIN journal |-> journal[o].progress]

\* Appending to a sequence and taking its tail, element by element
LEMMA Appended ==
  ASSUME NEW S, NEW s \in Seq(S), NEW x \in S
  PROVE  /\ Append(s, x) \in Seq(S) /\ Append(s, x) # <<>>
         /\ Len(Append(s, x)) = Len(s) + 1
         /\ \A i \in 1 .. Len(s) : Append(s, x)[i] = s[i]
         /\ \A i : i = Len(s) + 1 => Append(s, x)[i] = x
<1>1. Append(s, x)[Len(s) + 1] = x
  BY AppendProperties
<1>2. \A i : i = Len(s) + 1 => Append(s, x)[i] = x
  BY <1>1, Zenon
<1>3. QED
  BY <1>2, AppendProperties

LEMMA Rest ==
  ASSUME NEW S, NEW s \in Seq(S), Len(s) > 1
  PROVE  /\ Tail(s) \in Seq(S) /\ Tail(s) # <<>>
         /\ Len(Tail(s)) = Len(s) - 1
         /\ \A i \in 1 .. Len(Tail(s)) : Tail(s)[i] = s[i + 1]
<1>1. Len(s) \in Nat /\ s # <<>>
  OBVIOUS
<1>2. Tail(s) \in Seq(S) /\ Len(Tail(s)) = Len(s) - 1
  BY <1>1
<1>3. Tail(s) # <<>>
  <2>1. Len(Tail(s)) # 0
    BY <1>1, <1>2
  <2>2. Len(<<>>) = 0
    OBVIOUS
  <2>3. QED
    BY <2>1, <2>2, Zenon
<1>4. \A i \in 1 .. Len(Tail(s)) : Tail(s)[i] = s[i + 1]
  BY <1>1, <1>2
<1>5. QED
  BY <1>2, <1>3, <1>4

LEMMA Idle ==
  /\ AnyValue \in Values
  /\ Resting \in HandlerType /\ Resting.pc = "idle" /\ Resting.ops = <<>>
  /\ Resting.landed = FALSE
  /\ NoReplay \in ReplayType /\ NoReplay.pc = "idle" /\ NoReplay.todo = {}
<1>1. AnyValue \in Values
  BY JournalAssumption DEF AnyValue
<1>2. QED
  BY <1>1 DEF Resting, HandlerType, NoReplay, ReplayType

\* Settling a row keeps the journal's type and length, and changes nothing but
\* the progress of a row that was pending.
LEMMA MarkType ==
  ASSUME journal \in Seq(Entry), NEW o \in 1 .. Len(journal),
         NEW p \in {"done", "failed"}, Mark(o, p)
  PROVE  /\ journal' \in Seq(Entry) /\ Len(journal') = Len(journal)
         /\ \/ journal' = journal
            \/ /\ journal[o].progress = "pending"
               /\ journal' = [journal EXCEPT ![o].progress = p]
<1>1. journal[o] \in Entry
  OBVIOUS
<1>2. [journal[o] EXCEPT !.progress = p] \in Entry
  BY <1>1 DEF Entry, Progress
<1>3. [journal EXCEPT ![o] = [journal[o] EXCEPT !.progress = p]] \in Seq(Entry)
      /\ Len([journal EXCEPT ![o] = [journal[o] EXCEPT !.progress = p]])
           = Len(journal)
  BY <1>2
<1>4. QED
  BY <1>3 DEF Mark

\* A row more, or an operation more written, takes nothing from the others.
LEMMA HandlersStay ==
  ASSUME HandlersInv, JournalType, JournalType', Len(journal) <= Len(journal'),
         written \subseteq written', UNCHANGED handler
  PROVE  HandlersInv'
<1>1. Len(journal) \in Nat /\ Len(journal') \in Nat
  BY DEF JournalType
<1>2. ASSUME NEW c \in Clients
      PROVE  HandlerTracked(handler[c], Len(journal'), written')
  BY <1>1 DEF HandlersInv, HandlerTracked
<1>3. QED
  BY <1>2 DEF HandlersInv

LEMMA HandlerMoves ==
  ASSUME HandlersInv, JournalType, JournalType', Len(journal) <= Len(journal'),
         written \subseteq written',
         NEW c \in Clients, NEW g \in HandlerType,
         handler' = [handler EXCEPT ![c] = g],
         HandlerTracked(g, Len(journal'), written')
  PROVE  HandlersInv'
<1>1. Len(journal) \in Nat /\ Len(journal') \in Nat
  BY DEF JournalType
<1>2. handler \in [Clients -> HandlerType]
  BY DEF HandlersInv
<1>3. ASSUME NEW d \in Clients
      PROVE  HandlerTracked(handler'[d], Len(journal'), written')
  <2>1. CASE d = c
    BY <1>2, <2>1
  <2>2. CASE d # c
    <3>1. handler'[d] = handler[d]
      BY <1>2, <2>2
    <3>2. HandlerTracked(handler[d], Len(journal'), written')
      BY <1>1 DEF HandlersInv, HandlerTracked
    <3>3. QED
      BY <3>1, <3>2
  <2>3. QED
    BY <2>1, <2>2
<1>4. handler' \in [Clients -> HandlerType]
  BY <1>2
<1>5. QED
  BY <1>3, <1>4 DEF HandlersInv

LEMMA ReplayStays ==
  ASSUME ReplayInv, JournalType, JournalType', Len(journal) <= Len(journal'),
         written \subseteq written', UNCHANGED replay
  PROVE  ReplayInv'
<1>1. Len(journal) \in Nat /\ Len(journal') \in Nat
  BY DEF JournalType
<1>2. QED
  BY <1>1 DEF ReplayInv, ReplayTracked

\* A handler at rest has nothing to track, however it got there.
LEMMA RestingTracked ==
  ASSUME NEW n \in Nat, NEW w PROVE HandlerTracked(Resting, n, w)
  BY Idle DEF HandlerTracked

LEMMA NoReplayTracked ==
  ASSUME NEW n \in Nat, NEW w PROVE ReplayTracked(NoReplay, n, w)
  BY Idle DEF ReplayTracked

\* The rows of a request that is refused are rows.
LEMMA AbandonStep ==
  ASSUME HandlersInv, JournalType, NEW c \in Clients, Abandon(c),
         UNCHANGED <<journal, written>>
  PROVE  HandlersInv' /\ JournalType'
<1>1. handler[c] \in HandlerType /\ handler[c].ops \in Seq(Nat \ {0})
  BY DEF HandlersInv, HandlerType
<1>2. {handler[c].ops[i] : i \in DOMAIN handler[c].ops} \subseteq Nat
  BY <1>1
<1>3. JournalType'
  BY <1>2 DEF JournalType, Abandon
<1>4. Len(journal) \in Nat
  BY DEF JournalType
<1>5. HandlersInv'
  <2>1. HandlerTracked(Resting, Len(journal'), written')
    BY <1>4, RestingTracked
  <2>2. handler' = [handler EXCEPT ![c] = Resting] /\ Resting \in HandlerType
    BY Idle DEF Abandon
  <2>3. Len(journal) <= Len(journal') /\ written \subseteq written'
    BY <1>4
  <2>4. QED
    BY <1>3, <2>1, <2>2, <2>3, HandlerMoves
<1>6. QED
  BY <1>3, <1>5

\* The row a handler works for is a row with an edit of its own.
LEMMA EditType ==
  ASSUME HandlersInv, NEW c \in Clients, handler[c].pc \in {"read", "record"}
  PROVE  NextEdit(handler[c]) \in Edit
<1>1. /\ handler[c] \in HandlerType
      /\ Len(handler[c].ops) < Len(handler[c].edits)
  BY DEF HandlersInv, HandlerTracked
<1>2. handler[c].edits \in Seq(Edit) /\ handler[c].ops \in Seq(Nat \ {0})
  BY <1>1 DEF HandlerType
<1>3. Len(handler[c].ops) + 1 \in 1 .. Len(handler[c].edits)
  BY <1>1, <1>2
<1>4. QED
  BY <1>2, <1>3 DEF NextEdit

LEMMA BeginStep ==
  ASSUME JournalInv, NEW c \in Clients, NEW edits \in Requests, Begin(c, edits)
  PROVE  JournalInv'
<1>1. JournalType' /\ Len(journal') = Len(journal) /\ Len(journal) \in Nat
  BY DEF JournalInv, JournalType, Begin, world
<1>2. ReplayInv'
  BY <1>1, ReplayStays DEF JournalInv, Begin, world
<1>3. WorldType'
  BY DEF JournalInv, WorldType, Begin, world
<1>4. CountersType'
  BY JournalAssumption DEF JournalInv, CountersType, Begin
<1>5. HandlersInv'
  <2> DEFINE g == [Resting EXCEPT !.pc = "read", !.edits = edits]
  <2>1. edits \in Seq(Edit) /\ edits # <<>>
    BY JournalAssumption
  <2>2. Len(edits) \in Nat /\ 0 < Len(edits)
    BY <2>1
  <2>3. /\ g \in HandlerType /\ g.pc = "read" /\ g.ops = <<>>
        /\ g.edits = edits /\ g.landed = FALSE
    BY <2>1, Idle DEF HandlerType, Resting
  <2>4. HandlerTracked(g, Len(journal'), written')
    BY <2>2, <2>3 DEF HandlerTracked
  <2>5. handler' = [handler EXCEPT ![c] = g] \/ handler' = handler
    BY DEF Begin
  <2>6. written \subseteq written' /\ Len(journal) <= Len(journal')
    BY <1>1 DEF Begin, world
  <2> HIDE DEF g
  <2>7. QED
    BY <1>1, <2>3, <2>4, <2>5, <2>6, HandlerMoves, HandlersStay DEF JournalInv
<1>6. QED
  BY <1>1, <1>2, <1>3, <1>4, <1>5 DEF JournalInv

LEMMA ReadCurrentStep ==
  ASSUME JournalInv, NEW c \in Clients, ReadCurrent(c)
  PROVE  JournalInv'
<1>1. Len(journal') = Len(journal) /\ Len(journal) \in Nat
      /\ written' = written /\ journal' = journal
  BY DEF JournalInv, JournalType, ReadCurrent, world
<1>2. WorldType' /\ CountersType'
  BY DEF JournalInv, WorldType, CountersType, ReadCurrent, world, counters
<1>3. HandlersInv' /\ JournalType'
  <2>1. CASE Abandon(c)
    BY <1>1, <2>1, AbandonStep DEF JournalInv
  <2>2. CASE /\ exists /\ UNCHANGED refused
             /\ handler' = [handler EXCEPT
                  ![c].pc = "record",
                  ![c].current = target[NextEdit(handler[c]).field]]
    <3> DEFINE g == [handler[c] EXCEPT
                       !.pc = "record",
                       !.current = target[NextEdit(handler[c]).field]]
    <3>1. handler[c] \in HandlerType /\ handler[c].pc = "read"
          /\ HandlerTracked(handler[c], Len(journal), written)
          /\ handler \in [Clients -> HandlerType]
      BY DEF JournalInv, HandlersInv, ReadCurrent
    <3>2. NextEdit(handler[c]).field \in Fields
      BY <3>1, EditType DEF Edit, JournalInv
    <3>3. target[NextEdit(handler[c]).field] \in Values
      BY <3>2 DEF JournalInv, WorldType
    <3>4. /\ g \in HandlerType /\ g.pc = "record" /\ g.ops = handler[c].ops
          /\ g.edits = handler[c].edits /\ g.landed = handler[c].landed
      BY <3>1, <3>3 DEF HandlerType
    <3>5. handler' = [handler EXCEPT ![c] = g]
      BY <2>2, <3>1
    <3> HIDE DEF g
    <3>6. HandlerTracked(g, Len(journal'), written')
      BY <1>1, <3>1, <3>4 DEF HandlerTracked
    <3>7. JournalType'
      BY <1>1, <2>2 DEF JournalInv, JournalType
    <3>8. written \subseteq written' /\ Len(journal) <= Len(journal')
      BY <1>1
    <3>9. QED
      BY <3>4, <3>5, <3>6, <3>7, <3>8, HandlerMoves DEF JournalInv
  <2>3. QED
    BY <2>1, <2>2 DEF ReadCurrent
<1>4. ReplayInv'
  BY <1>1, <1>3, ReplayStays DEF JournalInv, ReadCurrent
<1>5. QED
  BY <1>2, <1>3, <1>4 DEF JournalInv

LEMMA RecordStep ==
  ASSUME JournalInv, NEW c \in Clients, Record(c)
  PROVE  JournalInv'
<1>1. written' = written /\ Len(journal) \in Nat
  BY DEF JournalInv, JournalType, Record, world
<1>2. WorldType'
  BY DEF JournalInv, WorldType, Record, world
<1>3. CountersType'
  BY JournalAssumption DEF JournalInv, CountersType, Record, Fault
<1>4. HandlersInv' /\ JournalType' /\ Len(journal) <= Len(journal')
  <2>1. CASE Abandon(c) /\ UNCHANGED journal
    BY <1>1, <2>1, AbandonStep DEF JournalInv
  <2>2. CASE ~(Abandon(c) /\ UNCHANGED journal)
    <3> DEFINE edit == NextEdit(handler[c])
               row == [field |-> edit.field, current |-> handler[c].current,
                       intent |-> edit.value, progress |-> "pending"]
               g == [handler[c] EXCEPT
                       !.ops = Append(@, Len(journal) + 1),
                       !.pc = IF Len(handler[c].ops) + 1 < Len(handler[c].edits)
                              THEN "read" ELSE "apply"]
    <3>1. /\ handler[c] \in HandlerType /\ handler[c].pc = "record"
          /\ HandlerTracked(handler[c], Len(journal), written)
          /\ handler \in [Clients -> HandlerType]
      BY DEF JournalInv, HandlersInv, Record
    <3>2. row \in Entry
      BY <3>1, EditType DEF Edit, JournalInv, Entry, Progress, HandlerType
    <3>3. journal' = Append(journal, row) /\ UNCHANGED refused
      BY <2>2 DEF Record
    <3>4. JournalType' /\ Len(journal') = Len(journal) + 1
      BY <1>1, <3>2, <3>3 DEF JournalInv, JournalType
    <3>5. handler[c].ops \in Seq(Nat \ {0}) /\ handler[c].edits \in Seq(Edit)
      BY <3>1 DEF HandlerType
    <3>6. Append(handler[c].ops, Len(journal) + 1) \in Seq(Nat \ {0})
      BY <1>1, <3>5
    <3>7. /\ g \in HandlerType /\ g.ops = Append(handler[c].ops, Len(journal) + 1)
          /\ g.edits = handler[c].edits /\ g.landed = handler[c].landed
          /\ g.pc = IF Len(handler[c].ops) + 1 < Len(handler[c].edits)
                    THEN "read" ELSE "apply"
      BY <3>1, <3>6 DEF HandlerType
    <3>8. handler' = [handler EXCEPT ![c] = g]
      BY <2>2, <3>1 DEF Record, InsertedRowid
    <3>9. HandlerTracked(g, Len(journal'), written')
      <4> HIDE DEF g
      <4>1. /\ Len(g.ops) = Len(handler[c].ops) + 1
            /\ \A i \in 1 .. Len(handler[c].ops) : g.ops[i] = handler[c].ops[i]
            /\ \A i : i = Len(handler[c].ops) + 1 => g.ops[i] = Len(journal) + 1
            /\ g.ops # <<>>
        <5> DEFINE s == Append(handler[c].ops, Len(journal) + 1)
        <5>1. Len(journal) + 1 \in Nat \ {0}
          BY <1>1
        <5>2. /\ Len(s) = Len(handler[c].ops) + 1
              /\ \A i \in 1 .. Len(handler[c].ops) : s[i] = handler[c].ops[i]
              /\ \A i : i = Len(handler[c].ops) + 1 => s[i] = Len(journal) + 1
              /\ s # <<>>
          BY <3>5, <5>1, Appended
        <5>3. g.ops = s
          BY <3>7
        <5> HIDE DEF s
        <5>4. QED
          BY <5>2, <5>3, Zenon
      <4>2. Len(handler[c].ops) \in Nat /\ Len(handler[c].edits) \in Nat
            /\ Len(handler[c].ops) < Len(handler[c].edits)
        BY <3>1, <3>5 DEF HandlerTracked
      <4>3. handler[c].landed = FALSE
        BY <3>1 DEF HandlerTracked, HandlerType
      <4>4. \A i \in 1 .. Len(g.ops) : g.ops[i] \in 1 .. Len(journal')
        <5>1. ASSUME NEW i \in 1 .. Len(g.ops)
              PROVE  g.ops[i] \in 1 .. Len(journal')
          <6>1. CASE i \in 1 .. Len(handler[c].ops)
            <7>1. g.ops[i] = handler[c].ops[i]
              BY <4>1, <6>1
            <7>2. handler[c].ops[i] \in 1 .. Len(journal)
              BY <3>1, <6>1 DEF HandlerTracked
            <7>3. QED
              BY <1>1, <3>4, <7>1, <7>2
          <6>2. CASE i = Len(handler[c].ops) + 1
            <7>1. g.ops[i] = Len(journal) + 1
              BY <4>1, <6>2
            <7>2. QED
              BY <1>1, <3>4, <7>1
          <6>3. QED
            BY <4>1, <4>2, <6>1, <6>2
        <5>2. QED
          BY <5>1
      <4>5. g.ops # <<>> /\ g.landed = FALSE
        BY <3>7, <4>1, <4>3
      <4>6. CASE Len(handler[c].ops) + 1 < Len(handler[c].edits)
        <5>1. g.pc = "read" /\ Len(g.ops) < Len(g.edits)
          BY <3>7, <4>1, <4>6
        <5>2. QED
          BY <4>4, <4>5, <5>1 DEF HandlerTracked
      <4>7. CASE ~(Len(handler[c].ops) + 1 < Len(handler[c].edits))
        <5>1. g.pc = "apply"
          BY <3>7, <4>7
        <5>2. Len(g.ops) = Len(g.edits)
          BY <3>7, <4>1, <4>2, <4>7
        <5>3. QED
          BY <4>4, <4>5, <5>1, <5>2 DEF HandlerTracked
      <4>8. QED
        BY <4>6, <4>7
    <3> HIDE DEF g
    <3>10. written \subseteq written' /\ Len(journal) <= Len(journal')
      BY <1>1, <3>4
    <3>11. QED
      BY <3>4, <3>7, <3>8, <3>9, <3>10, HandlerMoves DEF JournalInv
  <2>3. QED
    BY <2>1, <2>2
<1>5. ReplayInv'
  BY <1>1, <1>4, ReplayStays DEF JournalInv, Record
<1>6. QED
  BY <1>2, <1>3, <1>4, <1>5 DEF JournalInv

LEMMA ApplyStep ==
  ASSUME JournalInv, NEW c \in Clients, Apply(c)
  PROVE  JournalInv'
<1> DEFINE ops == {handler[c].ops[i] : i \in DOMAIN handler[c].ops}
<1>1. journal' = journal /\ Len(journal) \in Nat /\ Len(journal) <= Len(journal')
  BY DEF JournalInv, JournalType, Apply
<1>2. /\ handler[c] \in HandlerType /\ handler[c].pc = "apply"
      /\ HandlerTracked(handler[c], Len(journal), written)
      /\ handler \in [Clients -> HandlerType]
  BY DEF JournalInv, HandlersInv, Apply
<1>3. /\ handler[c].ops \in Seq(Nat \ {0}) /\ handler[c].edits \in Seq(Edit)
      /\ Len(handler[c].ops) = Len(handler[c].edits)
  BY <1>2 DEF HandlerType, HandlerTracked
<1>4. ops \subseteq Nat
  BY <1>3
<1>5. written \subseteq written' /\ JournalType'
  BY <1>1, <1>4 DEF JournalInv, JournalType, Apply, Abandon
<1>6. WorldType'
  <2>1. CASE UNCHANGED <<target, author>>
    BY <2>1 DEF JournalInv, WorldType, Apply
  <2>2. CASE ~UNCHANGED <<target, author>>
    <3> DEFINE edited(f) == \E i \in DOMAIN handler[c].edits :
                              handler[c].edits[i].field = f
               at(f) == CHOOSE i \in DOMAIN handler[c].edits :
                          handler[c].edits[i].field = f
    <3>1. /\ target' = [f \in Fields |-> IF edited(f)
                          THEN handler[c].edits[at(f)].value ELSE target[f]]
          /\ author' = [f \in Fields |-> IF edited(f)
                          THEN handler[c].ops[at(f)] ELSE author[f]]
      BY <2>2 DEF Apply
    <3>2. ASSUME NEW f \in Fields, edited(f)
          PROVE  /\ handler[c].edits[at(f)].value \in Values
                 /\ handler[c].ops[at(f)] \in Nat
      <4>1. at(f) \in DOMAIN handler[c].edits
        BY <3>2
      <4>2. ASSUME NEW i \in DOMAIN handler[c].edits
            PROVE  /\ handler[c].edits[i].value \in Values
                   /\ handler[c].ops[i] \in Nat
        <5>1. handler[c].edits[i] \in Edit
          BY <1>3
        <5>2. i \in DOMAIN handler[c].ops
          BY <1>3
        <5>3. handler[c].ops[i] \in Nat \ {0}
          BY <1>3, <5>2
        <5>4. QED
          BY <5>1, <5>3 DEF Edit
      <4> HIDE DEF at
      <4>3. QED
        BY <4>1, <4>2
    <3>3. target' \in [Fields -> Values] /\ author' \in [Fields -> Nat]
      <4> HIDE DEF edited, at
      <4>1. QED
        BY <3>1, <3>2 DEF JournalInv, WorldType
    <3>4. QED
      BY <3>3 DEF JournalInv, WorldType, Apply
  <2>3. QED
    BY <2>1, <2>2
<1>7. CountersType'
  BY JournalAssumption DEF JournalInv, CountersType, Apply, Fault
<1>8. HandlersInv'
  <2>1. CASE Abandon(c) /\ UNCHANGED written
    BY <1>1, <2>1, AbandonStep DEF JournalInv
  <2>2. CASE ~(Abandon(c) /\ UNCHANGED written)
    <3> DEFINE g == [handler[c] EXCEPT !.pc = "settle"]
               l == [handler[c] EXCEPT !.pc = "settle", !.landed = TRUE]
    <3>1. handler[c].ops # <<>>
      BY <1>2 DEF HandlerTracked
    <3>2. /\ g \in HandlerType /\ g.ops = handler[c].ops /\ g.pc = "settle"
          /\ g.landed = handler[c].landed
      BY <1>2 DEF HandlerType
    <3>3. /\ l \in HandlerType /\ l.ops = handler[c].ops /\ l.pc = "settle"
      BY <1>2 DEF HandlerType
    <3>4. handler[c].landed = FALSE
      BY <1>2 DEF HandlerTracked, HandlerType
    <3>5. \/ handler' = [handler EXCEPT ![c] = g]
          \/ handler' = [handler EXCEPT ![c] = l] /\ written' = written \cup ops
      BY <1>2, <2>2 DEF Apply
    <3> HIDE DEF g, l
    <3>6. HandlerTracked(g, Len(journal'), written')
      BY <1>1, <1>2, <3>1, <3>2, <3>4 DEF HandlerTracked
    <3>7. ASSUME written' = written \cup ops
          PROVE  HandlerTracked(l, Len(journal'), written')
      <4>1. \A i \in 1 .. Len(l.ops) : l.ops[i] \in written'
        BY <1>3, <3>3, <3>7
      <4>2. QED
        BY <1>1, <1>2, <3>1, <3>3, <4>1 DEF HandlerTracked
    <3>8. QED
      BY <1>1, <1>5, <3>2, <3>3, <3>5, <3>6, <3>7, HandlerMoves DEF JournalInv
  <2>3. QED
    BY <2>1, <2>2
<1>9. ReplayInv'
  BY <1>1, <1>5, ReplayStays DEF JournalInv, Apply
<1>10. QED
  BY <1>5, <1>6, <1>7, <1>8, <1>9 DEF JournalInv

LEMMA SettleStep ==
  ASSUME JournalInv, NEW c \in Clients, Settle(c)
  PROVE  JournalInv'
<1>1. /\ handler[c] \in HandlerType /\ handler[c].pc = "settle"
      /\ HandlerTracked(handler[c], Len(journal), written)
      /\ handler \in [Clients -> HandlerType]
  BY DEF JournalInv, HandlersInv, Settle
<1>2. handler[c].ops \in Seq(Nat \ {0}) /\ handler[c].ops # <<>>
  BY <1>1 DEF HandlerType, HandlerTracked
<1>3. Head(handler[c].ops) \in 1 .. Len(journal)
  BY <1>1, <1>2 DEF HandlerTracked
<1>4. Verdict(handler[c].landed) \in {"done", "failed"}
  BY DEF Verdict
<1>5. journal \in Seq(Entry) /\ Len(journal) \in Nat
  BY DEF JournalInv, JournalType
<1>6. journal' \in Seq(Entry) /\ Len(journal') = Len(journal)
  <2>1. CASE Mark(Head(handler[c].ops), Verdict(handler[c].landed))
    BY <1>3, <1>4, <1>5, <2>1, MarkType
  <2>2. CASE UNCHANGED journal
    BY <1>5, <2>2
  <2>3. QED
    BY <2>1, <2>2 DEF Settle
<1>7. JournalType' /\ written' = written /\ Len(journal) <= Len(journal')
  BY <1>5, <1>6 DEF JournalInv, JournalType, Settle, world
<1>8. WorldType'
  BY DEF JournalInv, WorldType, Settle, world
<1>9. CountersType'
  BY JournalAssumption DEF JournalInv, CountersType, Settle, Fault
<1>10. HandlersInv'
  <2> DEFINE g == [handler[c] EXCEPT !.ops = Tail(@)]
  <2>1. CASE Len(handler[c].ops) > 1
    <3>1. Tail(handler[c].ops) \in Seq(Nat \ {0}) /\ Tail(handler[c].ops) # <<>>
          /\ Len(Tail(handler[c].ops)) = Len(handler[c].ops) - 1
          /\ \A i \in 1 .. Len(Tail(handler[c].ops)) :
               Tail(handler[c].ops)[i] = handler[c].ops[i + 1]
      BY <1>2, <2>1, Rest
    <3>2. /\ g \in HandlerType /\ g.ops = Tail(handler[c].ops)
          /\ g.pc = "settle" /\ g.landed = handler[c].landed
      BY <1>1, <3>1 DEF HandlerType
    <3>3. handler' = [handler EXCEPT ![c] = g]
      BY <2>1 DEF Settle
    <3> HIDE DEF g
    <3>4. \A i \in 1 .. Len(g.ops) :
            /\ g.ops[i] \in 1 .. Len(journal)
            /\ handler[c].landed => g.ops[i] \in written
      BY <1>1, <1>2, <3>1, <3>2 DEF HandlerTracked
    <3>5. HandlerTracked(g, Len(journal'), written')
      BY <1>6, <1>7, <3>1, <3>2, <3>4 DEF HandlerTracked
    <3>6. QED
      BY <1>7, <3>2, <3>3, <3>5, HandlerMoves DEF JournalInv
  <2>2. CASE ~(Len(handler[c].ops) > 1)
    <3>1. handler' = [handler EXCEPT ![c] = Resting]
      BY <2>2 DEF Settle
    <3>2. HandlerTracked(Resting, Len(journal'), written')
      BY <1>5, <1>6, RestingTracked
    <3>3. QED
      BY <1>7, <3>1, <3>2, Idle, HandlerMoves DEF JournalInv
  <2>3. QED
    BY <2>1, <2>2
<1>11. ReplayInv'
  BY <1>7, ReplayStays DEF JournalInv, Settle
<1>12. QED
  BY <1>7, <1>8, <1>9, <1>10, <1>11 DEF JournalInv

LEMMA DeleteStep ==
  ASSUME JournalInv, Delete
  PROVE  JournalInv'
<1>1. JournalType' /\ WorldType' /\ CountersType'
  BY DEF JournalInv, JournalType, WorldType, CountersType, Delete, counters
<1>2. HandlersInv'
  BY DEF JournalInv, HandlersInv, Delete
<1>3. ReplayInv'
  BY DEF JournalInv, ReplayInv, Delete
<1>4. QED
  BY <1>1, <1>2, <1>3 DEF JournalInv

\* A replay that moves on, over a journal that keeps its rows
LEMMA ReplayMoves ==
  ASSUME JournalInv, WorldType', CountersType', JournalType',
         Len(journal') = Len(journal), written \subseteq written',
         UNCHANGED handler,
         replay' \in ReplayType, ReplayTracked(replay', Len(journal), written')
  PROVE  JournalInv'
<1>1. Len(journal) \in Nat /\ Len(journal) <= Len(journal')
  BY DEF JournalInv, JournalType
<1>2. HandlersInv'
  BY <1>1, HandlersStay DEF JournalInv
<1>3. ReplayInv'
  BY DEF ReplayInv
<1>4. QED
  BY <1>2, <1>3 DEF JournalInv

LEMMA RetryStep ==
  ASSUME JournalInv, NEW o \in Ops, Retry(o)
  PROVE  JournalInv'
<1>1. o \in 1 .. Len(journal) /\ Len(journal) \in Nat
  BY DEF Ops, JournalInv, JournalType
<1>2. WorldType' /\ CountersType' /\ JournalType'
  BY DEF JournalInv, JournalType, WorldType, CountersType, Retry, world, counters
<1>3. replay' \in ReplayType /\ replay'.pc = "read" /\ replay'.op = o
      /\ replay'.todo = {}
  <2>1. o \in Nat
    BY <1>1
  <2>2. replay' = [NoReplay EXCEPT !.pc = "read", !.op = o]
    BY DEF Retry
  <2>3. NoReplay \in ReplayType /\ NoReplay.todo = {}
    BY Idle
  <2>4. QED
    BY <2>1, <2>2, <2>3 DEF ReplayType
<1>4. ReplayTracked(replay', Len(journal), written')
  BY <1>1, <1>3 DEF ReplayTracked
<1>5. QED
  BY <1>2, <1>3, <1>4, ReplayMoves DEF Retry, world

LEMMA ReplayReadsStep ==
  ASSUME JournalInv, ReplayReads
  PROVE  JournalInv'
<1>1. WorldType' /\ CountersType' /\ JournalType'
  BY DEF JournalInv, JournalType, WorldType, CountersType, ReplayReads, world,
         counters
<1>2. replay \in ReplayType /\ ReplayTracked(replay, Len(journal), written)
      /\ replay.pc = "read"
  BY DEF JournalInv, ReplayInv, ReplayReads
<1>3. /\ replay' \in ReplayType /\ replay'.pc \in {"apply", "mark"}
      /\ replay'.op = replay.op /\ replay'.todo = replay.todo
      /\ replay'.verdict = "failed"
  BY <1>2 DEF ReplayReads, ReplayType
<1>4. ReplayTracked(replay', Len(journal), written')
  BY <1>2, <1>3 DEF ReplayTracked
<1>5. QED
  BY <1>1, <1>3, <1>4, ReplayMoves DEF ReplayReads, world

LEMMA ReplayAppliesStep ==
  ASSUME JournalInv, ReplayApplies
  PROVE  JournalInv'
<1>1. /\ replay \in ReplayType /\ ReplayTracked(replay, Len(journal), written)
      /\ replay.pc = "apply"
  BY DEF JournalInv, ReplayInv, ReplayApplies
<1>2. Len(journal) \in Nat /\ journal \in Seq(Entry)
  BY DEF JournalInv, JournalType
<1>3. replay.op \in 1 .. Len(journal) /\ replay.op \in Nat
  BY <1>1, <1>2 DEF ReplayTracked, ReplayType
<1>4. journal[replay.op].intent \in Values
  <2>1. journal[replay.op] \in Entry
    BY <1>2, <1>3
  <2>2. QED
    BY <2>1 DEF Entry
<1>5. WorldType'
  BY <1>3, <1>4 DEF JournalInv, WorldType, ReplayApplies
<1>6. CountersType'
  BY JournalAssumption DEF JournalInv, CountersType, ReplayApplies, Fault
<1>7. JournalType' /\ written \subseteq written' /\ journal' = journal
  BY <1>3 DEF JournalInv, JournalType, ReplayApplies
<1>8. /\ replay' \in ReplayType
      /\ ReplayTracked(replay', Len(journal), written')
  <2>1. CASE replay' = NoReplay
    BY <1>2, <2>1, Idle, NoReplayTracked
  <2>2. CASE replay' = [replay EXCEPT !.pc = "mark", !.verdict = "done"]
             /\ written' = written \cup {replay.op}
    <3>1. /\ replay' \in ReplayType /\ replay'.pc = "mark"
          /\ replay'.op = replay.op /\ replay'.todo = replay.todo
      BY <1>1, <2>2 DEF ReplayType
    <3>2. replay'.op \in written'
      BY <2>2, <3>1
    <3>3. ReplayTracked(replay', Len(journal), written')
      BY <1>1, <1>3, <3>1, <3>2 DEF ReplayTracked
    <3>4. QED
      BY <3>1, <3>3
  <2>3. CASE replay' = [replay EXCEPT !.pc = "mark"]
    <3>1. /\ replay' \in ReplayType /\ replay'.pc = "mark"
          /\ replay'.op = replay.op /\ replay'.todo = replay.todo
          /\ replay'.verdict = replay.verdict
      BY <1>1, <2>3 DEF ReplayType
    <3>2. replay.verdict = "failed"
      BY <1>1 DEF ReplayTracked
    <3>3. ReplayTracked(replay', Len(journal), written')
      BY <1>1, <1>3, <3>1, <3>2 DEF ReplayTracked
    <3>4. QED
      BY <3>1, <3>3
  <2>4. QED
    BY <2>1, <2>2, <2>3 DEF ReplayApplies
<1>9. QED
  BY <1>5, <1>6, <1>7, <1>8, ReplayMoves DEF ReplayApplies

LEMMA ReplayMarksStep ==
  ASSUME JournalInv, ReplayMarks
  PROVE  JournalInv'
<1>1. /\ replay \in ReplayType /\ ReplayTracked(replay, Len(journal), written)
      /\ replay.pc = "mark"
  BY DEF JournalInv, ReplayInv, ReplayMarks
<1>2. journal \in Seq(Entry) /\ Len(journal) \in Nat
  BY DEF JournalInv, JournalType
<1>3. replay.op \in 1 .. Len(journal) /\ replay.verdict \in {"done", "failed"}
  BY <1>1 DEF ReplayTracked, ReplayType
<1>4. journal' \in Seq(Entry) /\ Len(journal') = Len(journal)
  <2>1. CASE Mark(replay.op, replay.verdict)
    BY <1>2, <1>3, <2>1, MarkType
  <2>2. CASE UNCHANGED journal
    BY <1>2, <2>2
  <2>3. QED
    BY <2>1, <2>2 DEF ReplayMarks
<1>5. JournalType' /\ written' = written /\ UNCHANGED handler
  BY <1>4 DEF JournalInv, JournalType, ReplayMarks, world
<1>6. WorldType'
  BY DEF JournalInv, WorldType, ReplayMarks, world
<1>7. CountersType'
  BY JournalAssumption DEF JournalInv, CountersType, ReplayMarks, Fault
<1>8. /\ replay' \in ReplayType
      /\ ReplayTracked(replay', Len(journal), written')
  <2>1. CASE replay' = NoReplay
    BY <1>2, <2>1, Idle, NoReplayTracked
  <2>2. CASE replay' = [replay EXCEPT !.pc = "next"]
    <3>1. /\ replay' \in ReplayType /\ replay'.pc = "next"
          /\ replay'.todo = replay.todo
      BY <1>1, <2>2 DEF ReplayType
    <3>2. QED
      BY <1>1, <3>1 DEF ReplayTracked
  <2>3. QED
    BY <2>1, <2>2 DEF ReplayMarks
<1>9. QED
  BY <1>4, <1>5, <1>6, <1>7, <1>8, ReplayMoves

LEMMA CrashStep ==
  ASSUME JournalInv, Crash
  PROVE  JournalInv'
<1>1. Len(journal) \in Nat /\ journal' = journal /\ written' = written
  BY DEF JournalInv, JournalType, Crash, world
<1>2. JournalType' /\ WorldType'
  BY DEF JournalInv, JournalType, WorldType, Crash, world
<1>3. CountersType'
  BY JournalAssumption DEF JournalInv, CountersType, Crash
<1>4. HandlersInv'
  BY <1>1, Idle, RestingTracked DEF HandlersInv, Crash
<1>5. ReplayInv'
  BY <1>1, Idle, NoReplayTracked DEF ReplayInv, Crash
<1>6. QED
  BY <1>2, <1>3, <1>4, <1>5 DEF JournalInv

LEMMA RecoveryStep ==
  ASSUME JournalInv,
         RecoveryBegins \/ (\E o \in replay.todo : RecoveryTakes(o)) \/ RecoveryEnds
  PROVE  JournalInv'
<1>1. /\ replay \in ReplayType /\ ReplayTracked(replay, Len(journal), written)
      /\ Len(journal) \in Nat
  BY DEF JournalInv, JournalType, ReplayInv
<1>2. /\ UNCHANGED <<world, journal, handler, counters, refused>>
      /\ phase' \in {phase, "up", "recovering"}
  BY DEF RecoveryBegins, RecoveryTakes, RecoveryEnds
<1>3. JournalType' /\ WorldType' /\ CountersType'
  BY <1>2 DEF JournalInv, JournalType, WorldType, CountersType, world, counters
<1>4. /\ replay' \in ReplayType
      /\ ReplayTracked(replay', Len(journal), written')
  <2>1. CASE RecoveryBegins
    <3>1. PendingBatches(journal) \subseteq 1 .. Len(journal)
      BY DEF PendingBatches, Pending, JournalInv, JournalType
    <3>2. /\ replay' \in ReplayType /\ replay'.pc = "next"
          /\ replay'.todo = PendingBatches(journal)
      <4>1. PendingBatches(journal) \subseteq Nat
        BY <1>1, <3>1
      <4>2. replay' = [NoReplay EXCEPT !.pc = "next",
                                       !.todo = PendingBatches(journal)]
        BY <2>1 DEF RecoveryBegins
      <4>3. NoReplay \in ReplayType
        BY Idle
      <4>4. QED
        BY <4>1, <4>2, <4>3 DEF ReplayType
    <3>3. QED
      BY <3>1, <3>2 DEF ReplayTracked
  <2>2. CASE \E o \in replay.todo : RecoveryTakes(o)
    <3>1. PICK o \in replay.todo : RecoveryTakes(o)
      BY <2>2
    <3>2. o \in 1 .. Len(journal) /\ o \in Nat
      BY <1>1 DEF ReplayTracked
    <3>3. /\ replay' \in ReplayType /\ replay'.pc = "read"
          /\ replay'.todo = replay.todo \ {o} /\ replay'.op = o
      BY <1>1, <3>1, <3>2 DEF RecoveryTakes, ReplayType
    <3>4. QED
      BY <1>1, <3>2, <3>3 DEF ReplayTracked
  <2>3. CASE RecoveryEnds
    BY <1>1, <2>3, Idle, NoReplayTracked DEF RecoveryEnds
  <2>4. QED
    BY <2>1, <2>2, <2>3
<1>5. QED
  BY <1>2, <1>3, <1>4, ReplayMoves DEF world

LEMMA JournalInit ==
  ASSUME Init PROVE JournalInv
<1>1. JournalType /\ Len(journal) = 0
  BY DEF Init, JournalType
<1>2. HandlersInv
  BY <1>1, Idle, RestingTracked DEF Init, HandlersInv
<1>3. ReplayInv
  BY <1>1, Idle, NoReplayTracked DEF Init, ReplayInv
<1>4. WorldType /\ CountersType
  BY JournalAssumption DEF Init, WorldType, CountersType
<1>5. QED
  BY <1>1, <1>2, <1>3, <1>4 DEF JournalInv

LEMMA JournalStep ==
  ASSUME JournalInv, [Next]_vars PROVE JournalInv'
<1>1. CASE UNCHANGED vars
  BY <1>1 DEF vars, JournalInv, JournalType, HandlersInv, ReplayInv, WorldType,
              CountersType
<1>2. ASSUME NEW c \in Clients, NEW edits \in Requests, Begin(c, edits)
      PROVE  JournalInv'
  BY <1>2, BeginStep
<1>3. ASSUME NEW c \in Clients, HandlerStep(c) PROVE JournalInv'
  BY <1>3, ReadCurrentStep, RecordStep, ApplyStep, SettleStep DEF HandlerStep
<1>4. CASE Delete
  BY <1>4, DeleteStep
<1>5. ASSUME NEW o \in Ops, Retry(o) PROVE JournalInv'
  BY <1>5, RetryStep
<1>6. CASE ReplayStep
  BY <1>6, ReplayReadsStep, ReplayAppliesStep, ReplayMarksStep, RecoveryStep
     DEF ReplayStep
<1>7. CASE Crash
  BY <1>7, CrashStep
<1>8. QED
  BY <1>1, <1>2, <1>3, <1>4, <1>5, <1>6, <1>7 DEF Next

\* In every reachable state, for any clients, requests and bounds: the journal
\* and the requests in progress have their types, a request's rows are in the
\* journal, and what it or a replay calls done has been written.
THEOREM JournalTracked == Spec => []JournalInv
<1>1. Init => JournalInv
  BY JournalInit
<1>2. JournalInv /\ [Next]_vars => JournalInv'
  BY JournalStep
<1>3. QED
  BY <1>1, <1>2, PTL DEF Spec

\* Every variable of the journal's model stays in its type.
THEOREM JournalTypeCorrect == Spec => []TypeOK
<1>1. JournalInv => TypeOK
  BY DEF JournalInv, JournalType, HandlersInv, ReplayInv, WorldType,
         CountersType, TypeOK
<1>2. QED
  BY <1>1, JournalTracked, PTL

-----------------------------------------------------------------------------
(* The journal implements the ledger *)

\* Seen from the ledger a journal is a sequence of progresses.
LEMMA ProgressLog ==
  ASSUME NEW j \in Seq(Entry)
  PROVE  LET log == [o \in DOMAIN j |-> j[o].progress]
         IN  /\ log \in Seq(Progress) /\ Len(log) = Len(j)
             /\ DOMAIN log = 1 .. Len(j) /\ DOMAIN j = 1 .. Len(j)
             /\ \A o \in 1 .. Len(j) : log[o] = j[o].progress
<1>1. Len(j) \in Nat /\ DOMAIN j = 1 .. Len(j)
  OBVIOUS
<1>2. ASSUME NEW o \in 1 .. Len(j) PROVE j[o].progress \in Progress
  <2>1. j[o] \in Entry
    BY ElementOfSeq
  <2>2. QED
    BY <2>1 DEF Entry
<1>3. QED
  BY <1>1, <1>2

LEMMA LogType ==
  ASSUME journal \in Seq(Entry)
  PROVE  /\ Log \in Seq(Progress) /\ Len(Log) = Len(journal)
         /\ DOMAIN Log = 1 .. Len(journal)
         /\ \A o \in 1 .. Len(journal) : Log[o] = journal[o].progress
  BY ProgressLog DEF Log

\* A new row is a new pending entry.
LEMMA LogAppend ==
  ASSUME journal \in Seq(Entry), NEW row \in Entry, row.progress = "pending",
         journal' = Append(journal, row)
  PROVE  Log' = Append(Log, "pending")
<1>1. /\ journal' \in Seq(Entry) /\ Len(journal') = Len(journal) + 1
      /\ \A i \in 1 .. Len(journal) : journal'[i] = journal[i]
      /\ \A i : i = Len(journal) + 1 => journal'[i] = row
  BY Appended
<1>2. /\ Log' \in Seq(Progress) /\ Len(Log') = Len(journal')
      /\ \A o \in 1 .. Len(journal') : Log'[o] = journal'[o].progress
  BY <1>1, ProgressLog DEF Log
<1>3. "pending" \in Progress /\ Len(journal) \in Nat
  BY DEF Progress
<1>4. /\ Append(Log, "pending") \in Seq(Progress)
      /\ Len(Append(Log, "pending")) = Len(journal) + 1
      /\ \A i \in 1 .. Len(journal) : Append(Log, "pending")[i] = Log[i]
      /\ \A i : i = Len(journal) + 1 => Append(Log, "pending")[i] = "pending"
  BY <1>3, LogType, Appended
<1>5. ASSUME NEW i \in 1 .. Len(journal) + 1
      PROVE  Log'[i] = Append(Log, "pending")[i]
  <2>1. CASE i \in 1 .. Len(journal)
    BY <1>1, <1>2, <1>4, <2>1, LogType
  <2>2. CASE i = Len(journal) + 1
    <3>1. i \in 1 .. Len(journal') /\ journal'[i] = row
      BY <1>1, <1>3, <2>2
    <3>2. Log'[i] = row.progress
      BY <1>2, <3>1
    <3>3. QED
      BY <1>4, <2>2, <3>2
  <2>3. i \in 1 .. Len(journal) \/ i = Len(journal) + 1
    BY <1>3
  <2>4. QED
    BY <2>1, <2>2, <2>3, Zenon
<1>6. QED
  BY <1>1, <1>2, <1>4, <1>5, SeqEqual

\* Settling a row settles its entry.
LEMMA LogSettle ==
  ASSUME journal \in Seq(Entry), NEW o \in 1 .. Len(journal),
         NEW p \in {"done", "failed"}, Mark(o, p)
  PROVE  \/ Log' = Log
         \/ Log[o] = "pending" /\ Log' = [Log EXCEPT ![o] = p]
<1>1. CASE journal' = journal
  BY <1>1 DEF Log
<1>2. CASE /\ journal[o].progress = "pending"
           /\ journal' = [journal EXCEPT ![o].progress = p]
  <2>1. DOMAIN journal' = DOMAIN journal /\ DOMAIN journal = 1 .. Len(journal)
    BY <1>2
  <2>2. journal[o] \in Entry
    OBVIOUS
  <2>3. \A q \in 1 .. Len(journal) :
          journal'[q].progress = IF q = o THEN p ELSE journal[q].progress
    BY <1>2, <2>2 DEF Entry
  <2>4. Log' = [Log EXCEPT ![o] = p]
    BY <2>1, <2>3 DEF Log
  <2>5. Log[o] = "pending"
    BY <1>2, <2>1 DEF Log
  <2>6. QED
    BY <2>4, <2>5
<1>3. QED
  BY <1>1, <1>2, MarkType

\* A settled row is a step of the ledger.
LEMMA SettleIsStep ==
  ASSUME journal \in Seq(Entry), NEW o \in 1 .. Len(journal),
         NEW p \in {"done", "failed"}, Mark(o, p), UNCHANGED written,
         p = "done" => o \in written
  PROVE  UNCHANGED <<Log, written>> \/ Promise!Next
<1>1. CASE Log' = Log
  BY <1>1
<1>2. CASE Log[o] = "pending" /\ Log' = [Log EXCEPT ![o] = p]
  <2>1. o \in DOMAIN Log
    BY LogType
  <2>2. Promise!Settle(o, p)
    BY <1>2 DEF Promise!Settle, Log
  <2>3. QED
    BY <2>1, <2>2 DEF Promise!Next, Log
<1>3. QED
  BY <1>1, <1>2, LogSettle

\* Writes of operations that are in the journal
LEMMA LogWrite ==
  ASSUME journal \in Seq(Entry), UNCHANGED journal,
         NEW ops \in SUBSET (1 .. Len(journal)), written' = written \cup ops
  PROVE  \E s \in SUBSET DOMAIN Log : Promise!Write(s)
<1>1. ops \in SUBSET DOMAIN Log /\ UNCHANGED Log
  BY DEF Log
<1>2. QED
  BY <1>1 DEF Promise!Write, Log

LEMMA LedgerStep ==
  ASSUME JournalInv, [Next]_vars
  PROVE  UNCHANGED <<Log, written>> \/ Promise!Next
<1>1. journal \in Seq(Entry) /\ Len(journal) \in Nat
  BY DEF JournalInv, JournalType
<1>2. CASE UNCHANGED <<journal, written>>
  BY <1>2 DEF Log
<1>3. ASSUME NEW c \in Clients, Record(c)
      PROVE  UNCHANGED <<Log, written>> \/ Promise!Next
  <2>1. CASE UNCHANGED journal
    BY <1>2, <1>3, <2>1 DEF Record, world
  <2>2. CASE ~UNCHANGED journal
    <3> DEFINE edit == NextEdit(handler[c])
               row == [field |-> edit.field, current |-> handler[c].current,
                       intent |-> edit.value, progress |-> "pending"]
    <3>1. handler[c] \in HandlerType /\ handler[c].pc = "record"
      BY <1>3 DEF JournalInv, HandlersInv, Record
    <3>2. row \in Entry
      BY <3>1, EditType DEF Edit, JournalInv, Entry, Progress, HandlerType
    <3>3. journal' = Append(journal, row) /\ UNCHANGED written
      BY <1>3, <2>2 DEF Record, world
    <3>4. Log' = Append(Log, "pending")
      BY <1>1, <3>2, <3>3, LogAppend
    <3>5. Promise!Record
      BY <3>3, <3>4 DEF Promise!Record, Log
    <3>6. QED
      BY <3>5 DEF Promise!Next
  <2>3. QED
    BY <2>1, <2>2
<1>4. ASSUME NEW c \in Clients, Apply(c)
      PROVE  UNCHANGED <<Log, written>> \/ Promise!Next
  <2> DEFINE ops == {handler[c].ops[i] : i \in DOMAIN handler[c].ops}
  <2>1. handler[c].ops \in Seq(Nat \ {0})
        /\ \A i \in 1 .. Len(handler[c].ops) :
             handler[c].ops[i] \in 1 .. Len(journal)
    BY DEF JournalInv, HandlersInv, HandlerTracked, HandlerType
  <2>2. ops \in SUBSET (1 .. Len(journal))
    BY <2>1
  <2>3. UNCHANGED journal /\ (UNCHANGED written \/ written' = written \cup ops)
    BY <1>4 DEF Apply
  <2> HIDE DEF ops
  <2>4. CASE written' = written \cup ops
    BY <1>1, <2>2, <2>3, <2>4, LogWrite DEF Promise!Next, Log
  <2>5. QED
    BY <1>2, <2>3, <2>4
<1>5. ASSUME NEW c \in Clients, Settle(c)
      PROVE  UNCHANGED <<Log, written>> \/ Promise!Next
  <2> DEFINE o == Head(handler[c].ops)
             p == Verdict(handler[c].landed)
  <2>1. /\ handler[c] \in HandlerType /\ handler[c].pc = "settle"
        /\ HandlerTracked(handler[c], Len(journal), written)
    BY <1>5 DEF JournalInv, HandlersInv, Settle
  <2>2. handler[c].ops \in Seq(Nat \ {0}) /\ handler[c].ops # <<>>
    BY <2>1 DEF HandlerType, HandlerTracked
  <2>3. /\ o \in 1 .. Len(journal) /\ p \in {"done", "failed"}
        /\ p = "done" => o \in written
    BY <2>1, <2>2 DEF HandlerTracked, Verdict
  <2>4. UNCHANGED written /\ (Mark(o, p) \/ UNCHANGED journal)
    BY <1>5 DEF Settle, world
  <2> HIDE DEF o, p
  <2>5. CASE Mark(o, p)
    BY <1>1, <2>3, <2>4, <2>5, SettleIsStep
  <2>6. QED
    BY <1>2, <2>4, <2>5
<1>6. CASE ReplayApplies
  <2>1. replay.op \in 1 .. Len(journal)
    BY <1>1, <1>6 DEF JournalInv, ReplayInv, ReplayTracked, ReplayApplies
  <2>2. {replay.op} \in SUBSET (1 .. Len(journal))
    BY <2>1
  <2>3. /\ UNCHANGED journal
        /\ UNCHANGED written \/ written' = written \cup {replay.op}
    BY <1>6 DEF ReplayApplies
  <2>4. CASE written' = written \cup {replay.op}
    BY <1>1, <2>2, <2>3, <2>4, LogWrite DEF Promise!Next, Log
  <2>5. QED
    BY <1>2, <2>3, <2>4
<1>7. CASE ReplayMarks
  <2>1. /\ replay.op \in 1 .. Len(journal)
        /\ replay.verdict \in {"done", "failed"}
        /\ replay.verdict = "done" => replay.op \in written
    BY <1>1, <1>7 DEF JournalInv, ReplayInv, ReplayTracked, ReplayType,
                      ReplayMarks
  <2>2. UNCHANGED written /\ (Mark(replay.op, replay.verdict) \/ UNCHANGED journal)
    BY <1>7 DEF ReplayMarks, world
  <2>3. CASE Mark(replay.op, replay.verdict)
    BY <1>1, <2>1, <2>2, <2>3, SettleIsStep
  <2>4. QED
    BY <1>2, <2>2, <2>3
<1>8. CASE UNCHANGED vars
  BY <1>2, <1>8 DEF vars
<1>9. CASE Crash \/ Delete \/ ReplayReads \/ RecoveryBegins \/ RecoveryEnds
           \/ \E o \in replay.todo : RecoveryTakes(o)
  BY <1>2, <1>9 DEF Crash, Delete, ReplayReads, RecoveryBegins, RecoveryEnds,
                    RecoveryTakes, world
<1>10. ASSUME NEW o \in Ops, Retry(o)
       PROVE  UNCHANGED <<Log, written>> \/ Promise!Next
  BY <1>2, <1>10 DEF Retry, world
<1>11. ASSUME NEW c \in Clients,
              ReadCurrent(c) \/ \E edits \in Requests : Begin(c, edits)
       PROVE  UNCHANGED <<Log, written>> \/ Promise!Next
  BY <1>2, <1>11 DEF ReadCurrent, Begin, world
<1>12. QED
  BY <1>3, <1>4, <1>5, <1>6, <1>7, <1>8, <1>9, <1>10, <1>11
     DEF Next, HandlerStep, ReplayStep

\* Whatever handlers, retries, recovery passes and crashes do, the journal only
\* adds rows and settles pending ones, and calls done only what was written.
THEOREM LedgerRefined == Spec => LedgerKept
<1>1. Init => Promise!Init
  BY LogType DEF Init, Promise!Init, Log
<1>2. JournalInv /\ [Next]_vars
        => [Promise!Next]_<<[o \in DOMAIN journal |-> journal[o].progress], written>>
  BY LedgerStep DEF Log
<1>3. QED
  BY <1>1, <1>2, JournalTracked, PTL DEF Spec, LedgerKept, Promise!Spec

-----------------------------------------------------------------------------

(* A recovery pass leaves nothing pending                                    *)

\* While a recovery pass runs, or the daemon is down, no request is being
\* served; and what is pending during the pass is still to be taken, or is the
\* row in hand.  Outside a pass there is none to end.
RecoveryInv ==
  /\ phase # "up" => \A c \in Clients : handler[c].pc = "idle"
  /\ phase = "down" => replay.pc = "idle"
  /\ phase = "up" => replay.pc # "next"
  /\ phase = "recovering" =>
       /\ replay.pc # "idle"
       /\ Pending(journal) \subseteq replay.todo \cup {o \in {replay.op} : replay.pc # "next"}

\* Settling a row takes it from the pending ones, and changes no other.
LEMMA MarkPending ==
  ASSUME journal \in Seq(Entry), NEW o \in 1 .. Len(journal),
         NEW p \in {"done", "failed"}, Mark(o, p)
  PROVE  /\ Pending(journal') = Pending(journal) \ {o}
         /\ Len(journal') = Len(journal)
         /\ \A i \in 1 .. Len(journal) :
              /\ journal'[i].field = journal[i].field
              /\ journal'[i].current = journal[i].current
              /\ journal'[i].intent = journal[i].intent
<1>1. /\ journal' \in Seq(Entry) /\ Len(journal') = Len(journal)
      /\ \/ journal' = journal
         \/ /\ journal[o].progress = "pending"
            /\ journal' = [journal EXCEPT ![o].progress = p]
  BY MarkType
<1>2. journal[o].progress # "pending" => journal' = journal
  BY DEF Mark
<1>3. DOMAIN journal = 1 .. Len(journal) /\ DOMAIN journal' = 1 .. Len(journal)
  BY <1>1
<1>4. CASE journal' = journal /\ journal[o].progress # "pending"
  BY <1>3, <1>4 DEF Pending
<1>5. CASE journal[o].progress = "pending" /\ journal' = [journal EXCEPT ![o].progress = p]
  <2>1. journal[o] \in Entry
    OBVIOUS
  <2>2. /\ journal'[o].progress = p /\ journal'[o].field = journal[o].field
        /\ journal'[o].current = journal[o].current /\ journal'[o].intent = journal[o].intent
    BY <2>1, <1>5 DEF Entry
  <2>3. \A i \in 1 .. Len(journal) : i # o => journal'[i] = journal[i]
    BY <1>5
  <2>4. Pending(journal') = Pending(journal) \ {o}
    BY <1>3, <2>2, <2>3 DEF Pending
  <2>5. QED
    BY <1>1, <2>2, <2>3, <2>4
<1>6. CASE journal[o].progress = "pending" /\ journal' = journal
  <2>1. journal'[o].progress = p
    <3>1. journal' = [journal EXCEPT ![o].progress = p] BY <1>6 DEF Mark
    <3>2. journal[o] \in Entry OBVIOUS
    <3>3. QED BY <3>1, <3>2 DEF Entry
  <2>2. QED
    BY <1>6, <2>1
<1>7. QED
  BY <1>1, <1>2, <1>4, <1>5, <1>6

\* A request moves only while the daemon is up.
LEMMA ServedWhenUp ==
  ASSUME JournalInv, RecoveryInv, NEW c \in Clients, HandlerStep(c)
  PROVE  phase = "up" /\ UNCHANGED <<phase, replay>>
<1>1. handler[c].pc \in {"read", "record", "apply", "settle"} /\ UNCHANGED <<phase, replay>>
  BY DEF HandlerStep, ReadCurrent, Record, Apply, Settle
<1>2. QED
  BY <1>1 DEF RecoveryInv

LEMMA RecoveryStays ==
  ASSUME RecoveryInv, UNCHANGED <<phase, replay>>, phase # "up" => UNCHANGED <<handler, journal>>
  PROVE  RecoveryInv'
BY DEF RecoveryInv, Pending

LEMMA ReplayKeepsRecovery ==
  ASSUME JournalInv, RecoveryInv, ReplayStep PROVE RecoveryInv'
<1>1. /\ replay \in ReplayType /\ ReplayTracked(replay, Len(journal), written)
      /\ journal \in Seq(Entry)
  BY DEF JournalInv, JournalType, ReplayInv
<1>2. UNCHANGED handler
  BY DEF ReplayStep, ReplayReads, ReplayApplies, ReplayMarks, RecoveryBegins, RecoveryTakes, RecoveryEnds
<1>3. NoReplay.pc = "idle"
  BY Idle
<1>4. CASE ReplayReads
  <2>1. UNCHANGED <<phase, journal>> /\ replay.pc = "read"
    BY <1>4 DEF ReplayReads
  <2>2. replay'.pc \in {"apply", "mark"} /\ replay'.op = replay.op /\ replay'.todo = replay.todo
    BY <1>1, <1>4 DEF ReplayReads, ReplayType
  <2>3. QED
    BY <1>2, <2>1, <2>2 DEF RecoveryInv, Pending
<1>5. CASE ReplayApplies
  <2>1. UNCHANGED <<phase, journal>> /\ replay.pc = "apply"
    BY <1>5 DEF ReplayApplies
  <2>2. \/ replay'.pc = "mark" /\ replay'.op = replay.op /\ replay'.todo = replay.todo
        \/ phase # "recovering" /\ replay' = NoReplay
    BY <1>1, <1>5 DEF ReplayApplies, ReplayType
  <2>3. QED
    BY <1>2, <1>3, <2>1, <2>2 DEF RecoveryInv, Pending
<1>6. CASE ReplayMarks
  <2>1. replay.pc = "mark" /\ replay.op \in 1 .. Len(journal) /\ replay.verdict \in {"done", "failed"}
    BY <1>1, <1>6 DEF ReplayMarks, ReplayTracked, ReplayType
  <2>2. CASE phase' = "up" /\ replay' = NoReplay
    <3>1. phase # "down"
      BY <2>1 DEF RecoveryInv
    <3>2. QED
      BY <2>2, <1>3 DEF RecoveryInv
  <2>3. CASE /\ Mark(replay.op, replay.verdict) /\ UNCHANGED phase
             /\ replay' = IF phase = "recovering" THEN [replay EXCEPT !.pc = "next"] ELSE NoReplay
    <3>1. phase # "down"
      BY <2>1 DEF RecoveryInv
    <3>2. Pending(journal') = Pending(journal) \ {replay.op}
      BY <1>1, <2>1, <2>3, MarkPending
    <3>3. CASE phase = "recovering"
      <4>1. replay'.pc = "next" /\ replay'.todo = replay.todo
        BY <1>1, <2>3, <3>3 DEF ReplayType
      <4>2. QED
        BY <1>2, <2>3, <3>2, <3>3, <4>1 DEF RecoveryInv
    <3>4. CASE phase = "up"
      BY <1>3, <2>3, <3>4 DEF RecoveryInv
    <3>5. QED
      BY <3>1, <3>3, <3>4 DEF JournalInv, WorldType
  <2>4. QED
    BY <1>6, <2>2, <2>3 DEF ReplayMarks
<1>7. CASE RecoveryBegins
  <2>1. /\ phase = "down" /\ phase' = "recovering" /\ UNCHANGED journal
        /\ replay' = [NoReplay EXCEPT !.pc = "next", !.todo = Pending(journal)]
    BY <1>7 DEF RecoveryBegins, PendingBatches
  <2>2. replay'.pc = "next" /\ replay'.todo = Pending(journal)
    BY <2>1 DEF NoReplay
  <2>3. QED
    BY <1>2, <2>1, <2>2 DEF RecoveryInv
<1>8. ASSUME NEW o \in replay.todo, RecoveryTakes(o) PROVE RecoveryInv'
  <2>1. replay.pc = "next" /\ UNCHANGED <<phase, journal>>
    BY <1>8 DEF RecoveryTakes
  <2>2. replay'.pc = "read" /\ replay'.op = o /\ replay'.todo = replay.todo \ {o}
    BY <1>1, <1>8 DEF RecoveryTakes, ReplayType
  <2>3. QED
    BY <1>2, <2>1, <2>2 DEF RecoveryInv, Pending
<1>9. CASE RecoveryEnds
  BY <1>3, <1>9 DEF RecoveryEnds, RecoveryInv
<1>10. QED
  BY <1>4, <1>5, <1>6, <1>7, <1>8, <1>9 DEF ReplayStep

LEMMA RecoveryKept ==
  ASSUME JournalInv, RecoveryInv, [Next]_vars PROVE RecoveryInv'
<1>1. CASE UNCHANGED vars
  BY <1>1, RecoveryStays DEF vars
<1>2. ASSUME NEW c \in Clients, NEW edits \in Requests, Begin(c, edits) PROVE RecoveryInv'
  BY <1>2, RecoveryStays DEF Begin
<1>3. ASSUME NEW c \in Clients, HandlerStep(c) PROVE RecoveryInv'
  BY <1>3, ServedWhenUp, RecoveryStays
<1>4. CASE Delete
  BY <1>4, RecoveryStays DEF Delete
<1>5. ASSUME NEW o \in Ops, Retry(o) PROVE RecoveryInv'
  <2>1. phase = "up" /\ phase' = "up" /\ replay'.pc = "read"
    BY <1>5 DEF Retry, NoReplay
  <2>2. QED
    BY <2>1 DEF RecoveryInv
<1>6. CASE ReplayStep
  BY <1>6, ReplayKeepsRecovery
<1>7. CASE Crash
  BY <1>7, Idle DEF Crash, RecoveryInv
<1>8. QED
  BY <1>1, <1>2, <1>3, <1>4, <1>5, <1>6, <1>7 DEF Next

LEMMA RecoveryStarts == ASSUME Init PROVE RecoveryInv
BY Idle DEF Init, RecoveryInv

\* A pass ends when nothing is left to take, or with a statement that failed.
LEMMA EndsClear ==
  ASSUME JournalInv, RecoveryInv, [Next]_vars, phase = "recovering", phase' = "up", UNCHANGED errors
  PROVE  RecoveryEnds /\ Pending(journal') = {}
<1>1. errors \in Nat
  BY JournalAssumption DEF JournalInv, CountersType
<1>2. \A c \in Clients : ~HandlerStep(c)
  BY DEF RecoveryInv, HandlerStep, ReadCurrent, Record, Apply, Settle
<1>3. ReplayStep
  BY <1>2 DEF Next, vars, Begin, Delete, Retry, Crash
<1>4. ~ReplayMarks
  BY <1>1 DEF ReplayMarks, Fault
<1>5. RecoveryEnds
  BY <1>3, <1>4 DEF ReplayStep, ReplayReads, ReplayApplies, RecoveryBegins, RecoveryTakes
<1>6. Pending(journal) \subseteq {} /\ UNCHANGED journal
  BY <1>5 DEF RecoveryEnds, RecoveryInv
<1>7. QED
  BY <1>5, <1>6

\* A recovery pass that reaches its end leaves no row pending, also when an
\* earlier pass crashed in the middle (recover_pending_with).
THEOREM RecoveryIsComplete == Spec => RecoveryClears
<1>1. Init => RecoveryInv
  BY RecoveryStarts
<1>2. JournalInv /\ RecoveryInv /\ [Next]_vars => RecoveryInv'
  BY RecoveryKept
<1>3. JournalInv /\ RecoveryInv /\ [Next]_vars
        => [phase = "recovering" /\ phase' = "up" /\ UNCHANGED errors => Pending(journal') = {}]_vars
  BY EndsClear
<1>4. QED
  BY <1>1, <1>2, <1>3, JournalTracked, PTL DEF Spec, RecoveryClears
-----------------------------------------------------------------------------
(* One client, no failed statement, no retry: nothing is lost by a crash     *)

OneClient == (\A c, d \in Clients : c = d) /\ MaxErrors = 0 /\ ~Retries

\* What row o asks for is what its column says.
LandedRow(o) == target[journal[o].field] = journal[o].intent

\* A pending row is the only one for its column among the pending ones and the
\* last, and the column says what was there before it or what it asks for.
PendingApart ==
  \A o \in Pending(journal) :
    /\ target[journal[o].field] \in {journal[o].current, journal[o].intent}
    /\ \A p \in Pending(journal) \cup {Len(journal)} : journal[p].field = journal[o].field => p = o

LastLanded ==
  \A n \in 1 .. Len(journal) :
    n = Len(journal) /\ n \notin Pending(journal) /\ journal[n].field \in Replayable => LandedRow(n)

\* What is pending while the daemon is up is what the request at hand recorded.
RequestHolds(h) ==
  /\ \A o \in Pending(journal) : \E i \in 1 .. Len(h.ops) : h.ops[i] = o
  /\ h.pc \in {"read", "record", "apply"} =>
       /\ \A i, j \in 1 .. Len(h.edits) : h.edits[i].field = h.edits[j].field => i = j
       /\ \A i \in 1 .. Len(h.ops) :
            journal[h.ops[i]].field = h.edits[i].field /\ journal[h.ops[i]].intent = h.edits[i].value
       /\ h.ops # <<>> => h.ops[Len(h.ops)] = Len(journal)
  /\ h.pc = "record" => h.current = target[NextEdit(h).field]
  /\ h.pc = "settle" => h.landed /\ \A i \in 1 .. Len(h.ops) : LandedRow(h.ops[i])

\* What a recovery pass has to do is pending, and what it has decided is true:
\* a row that it is about to write has not been written, and one that it is
\* about to settle has, if it can be replayed.
ReplayHolds ==
  /\ phase # "recovering" => replay.pc = "idle"
  /\ phase = "recovering" =>
       /\ replay.todo \subseteq Pending(journal)
       /\ replay.pc # "next" => replay.op \in Pending(journal) /\ replay.op \notin replay.todo
       /\ replay.pc = "mark" /\ journal[replay.op].field \in Replayable => LandedRow(replay.op)

IntentHolds ==
  /\ PendingApart /\ LastLanded /\ ReplayHolds
  /\ \A c \in Clients : handler[c].pc = "idle" => handler[c].ops = <<>>
  /\ phase = "up" => \A c \in Clients : RequestHolds(handler[c])
IntentInv == exists => IntentHolds

LEMMA NoFault == ASSUME OneClient, JournalInv PROVE ~Fault
<1>1. errors = 0
  BY DEF OneClient, JournalInv, CountersType
<1>2. QED
  BY <1>1 DEF Fault, OneClient

LEMMA RowsStay ==
  ASSUME PendingApart, LastLanded, UNCHANGED <<journal, target>>
  PROVE  PendingApart' /\ LastLanded'
BY DEF PendingApart, LastLanded, LandedRow, Pending

\* One client: the request that moves is the only one.
LEMMA OnlyRequest ==
  ASSUME OneClient, JournalInv, NEW c \in Clients, NEW g, handler' = [handler EXCEPT ![c] = g]
  PROVE  \A d \in Clients : handler'[d] = g
BY DEF OneClient, JournalInv, HandlersInv

LEMMA BeginIntent ==
  ASSUME OneClient, JournalInv, IntentHolds, exists,
         NEW c \in Clients, NEW edits \in Requests, Begin(c, edits)
  PROVE  IntentHolds'
<1>1. /\ phase = "up" /\ handler[c].pc = "idle"
      /\ UNCHANGED <<phase, target, journal, replay>>
      /\ handler' = [handler EXCEPT ![c] = [Resting EXCEPT !.pc = "read", !.edits = edits]]
  BY DEF Begin, world
<1>2. PICK g : g = [Resting EXCEPT !.pc = "read", !.edits = edits] OBVIOUS
<1>3. g.pc = "read" /\ g.edits = edits /\ g.ops = <<>>
  BY <1>2 DEF Resting
<1>4. \A d \in Clients : handler'[d] = g
  BY <1>1, <1>2, OnlyRequest
<1>5. Pending(journal) = {}
  <2>1. handler[c].ops = <<>> /\ RequestHolds(handler[c])
    BY <1>1 DEF IntentHolds
  <2>2. QED
    BY <2>1 DEF RequestHolds
<1>6. \A i, j \in 1 .. Len(edits) : edits[i].field = edits[j].field => i = j
  <2>1. edits \in Seq(Edit) /\ \A i, j \in DOMAIN edits : edits[i].field = edits[j].field => i = j
    BY JournalAssumption
  <2>2. QED
    BY <2>1
<1>7. RequestHolds(g)'
  BY <1>1, <1>3, <1>5, <1>6 DEF RequestHolds, Pending
<1>8. PendingApart' /\ LastLanded' /\ ReplayHolds'
  BY <1>1, RowsStay DEF IntentHolds, ReplayHolds, LandedRow, Pending
<1>9. QED
  BY <1>3, <1>4, <1>7, <1>8 DEF IntentHolds

LEMMA ReadIntent ==
  ASSUME OneClient, JournalInv, RecoveryInv, IntentHolds, exists, NEW c \in Clients, ReadCurrent(c)
  PROVE  IntentHolds'
<1>1. /\ phase = "up" /\ handler[c].pc = "read"
      /\ UNCHANGED <<phase, target, journal, replay>>
      /\ handler' = [handler EXCEPT ![c].pc = "record", ![c].current = target[NextEdit(handler[c]).field]]
  BY DEF ReadCurrent, world, RecoveryInv
<1>2. PICK h : h = handler[c] OBVIOUS
<1>3. PICK g : g = [h EXCEPT !.pc = "record", !.current = target[NextEdit(h).field]] OBVIOUS
<1>4. h \in HandlerType /\ RequestHolds(h)
  BY <1>1, <1>2 DEF IntentHolds, JournalInv, HandlersInv
<1>5. g.pc = "record" /\ g.current = target[NextEdit(h).field] /\ g.ops = h.ops /\ g.edits = h.edits
  BY <1>3, <1>4 DEF HandlerType
<1>6. handler' = [handler EXCEPT ![c] = g]
  BY <1>1, <1>2, <1>3 DEF JournalInv, HandlersInv
<1>7. \A d \in Clients : handler'[d] = g
  BY <1>6, OnlyRequest
<1>8. RequestHolds(g)'
  <2>1. NextEdit(g) = NextEdit(h)
    BY <1>5 DEF NextEdit
  <2>2. QED
    BY <1>1, <1>2, <1>4, <1>5, <2>1 DEF RequestHolds, Pending
<1>9. PendingApart' /\ LastLanded' /\ ReplayHolds'
  BY <1>1, RowsStay DEF IntentHolds, ReplayHolds, LandedRow, Pending
<1>10. QED
  BY <1>5, <1>7, <1>8, <1>9 DEF IntentHolds

LEMMA RecordIntent ==
  ASSUME OneClient, JournalInv, RecoveryInv, IntentHolds, exists, NEW c \in Clients, Record(c)
  PROVE  IntentHolds'
<1>1. PICK h : h = handler[c] OBVIOUS
<1>2. PICK n : n = Len(journal) + 1 OBVIOUS
<1>3. PICK edit : edit = NextEdit(h) OBVIOUS
<1>4. PICK row : row = [field |-> edit.field, current |-> h.current, intent |-> edit.value, progress |-> "pending"]
  OBVIOUS
<1>5. PICK g : g = [h EXCEPT !.ops = Append(h.ops, n),
                             !.pc = IF Len(h.ops) + 1 < Len(h.edits) THEN "read" ELSE "apply"]
  OBVIOUS
<1>6. /\ phase = "up" /\ h.pc = "record" /\ UNCHANGED <<phase, target, replay>>
  BY <1>1 DEF Record, world, RecoveryInv
<1>7. /\ h \in HandlerType /\ RequestHolds(h) /\ HandlerTracked(h, Len(journal), written)
      /\ handler \in [Clients -> HandlerType] /\ journal \in Seq(Entry) /\ Len(journal) \in Nat
  BY <1>1, <1>6 DEF IntentHolds, JournalInv, HandlersInv, JournalType
<1>8. journal' = Append(journal, row) /\ handler' = [handler EXCEPT ![c] = g]
  <2>1. /\ journal' = Append(journal, row)
        /\ handler' = [handler EXCEPT
             ![c].ops = Append(@, n),
             ![c].pc = IF Len(h.ops) + 1 < Len(h.edits) THEN "read" ELSE "apply"]
    BY <1>1, <1>2, <1>3, <1>4, NoFault DEF Record, InsertedRowid
  <2>2. QED
    BY <2>1, <1>1, <1>5, <1>7
<1>9. edit \in Edit
  BY <1>1, <1>3, <1>6, EditType DEF JournalInv
<1>10. row \in Entry
  BY <1>4, <1>7, <1>9 DEF Entry, Edit, Progress, HandlerType
<1>11. /\ journal' \in Seq(Entry) /\ Len(journal') = n /\ journal'[n] = row
       /\ \A i \in 1 .. Len(journal) : journal'[i] = journal[i]
  BY <1>2, <1>7, <1>8, <1>10, Appended
<1>12. n \in Nat /\ n \notin 1 .. Len(journal) /\ 1 .. n = 1 .. Len(journal) \cup {n}
  BY <1>2, <1>7
<1>13. Pending(journal') = Pending(journal) \cup {n} /\ Pending(journal) \subseteq 1 .. Len(journal)
  <2>1. DOMAIN journal' = 1 .. n /\ DOMAIN journal = 1 .. Len(journal)
    BY <1>7, <1>11
  <2>2. row.progress = "pending"
    BY <1>4
  <2>3. QED
    BY <1>11, <1>12, <2>1, <2>2 DEF Pending
<1>14. /\ g.pc \in {"read", "apply"} /\ g.edits = h.edits /\ g.ops = Append(h.ops, n)
  BY <1>5, <1>7 DEF HandlerType
<1>15. /\ h.ops \in Seq(Nat \ {0}) /\ h.edits \in Seq(Edit) /\ Len(h.ops) < Len(h.edits)
       /\ Len(h.ops) \in Nat /\ Len(h.edits) \in Nat /\ n \in Nat \ {0}
  BY <1>2, <1>6, <1>7 DEF HandlerType, HandlerTracked
<1>16. /\ Len(g.ops) = Len(h.ops) + 1 /\ g.ops # <<>>
       /\ \A i \in 1 .. Len(h.ops) : g.ops[i] = h.ops[i]
       /\ g.ops[Len(h.ops) + 1] = n
  BY <1>14, <1>15, Appended
<1>17. edit = h.edits[Len(h.ops) + 1] /\ Len(h.ops) + 1 \in 1 .. Len(h.edits)
  BY <1>3, <1>15 DEF NextEdit
<1>18. ASSUME NEW o \in Pending(journal) PROVE o \in 1 .. Len(journal) /\ journal[o].field # row.field
  <2>1. PICK i \in 1 .. Len(h.ops) : h.ops[i] = o
    BY <1>7 DEF RequestHolds
  <2>2. journal[o].field = h.edits[i].field
    BY <1>6, <1>7, <2>1 DEF RequestHolds
  <2>3. h.edits[i].field # h.edits[Len(h.ops) + 1].field
    <3>1. i \in 1 .. Len(h.edits) /\ i # Len(h.ops) + 1
      BY <1>15, <2>1
    <3>2. QED
      BY <1>6, <1>7, <1>17, <3>1 DEF RequestHolds
  <2>4. row.field = edit.field
    BY <1>4
  <2>5. QED
    BY <1>13, <1>17, <2>2, <2>3, <2>4
<1>19. PendingApart'
  <2>1. ASSUME NEW o \in Pending(journal')
        PROVE  /\ target'[journal'[o].field] \in {journal'[o].current, journal'[o].intent}
               /\ \A p \in Pending(journal') \cup {Len(journal')} : journal'[p].field = journal'[o].field => p = o
    <3>1. CASE o = n
      <4>1. target[edit.field] = h.current
        BY <1>3, <1>6, <1>7 DEF RequestHolds
      <4>2. journal'[o].field = edit.field /\ journal'[o].current = h.current
        BY <3>1, <1>4, <1>11
      <4>3. ASSUME NEW p \in Pending(journal') \cup {Len(journal')}, p # n PROVE journal'[p].field # row.field
        BY <1>11, <1>13, <1>18, <4>3
      <4>4. row.field = journal'[o].field
        BY <3>1, <1>11
      <4>5. QED
        BY <3>1, <1>6, <4>1, <4>2, <4>3, <4>4
    <3>2. CASE o # n
      <4>1. o \in Pending(journal) /\ o \in 1 .. Len(journal) /\ journal'[o] = journal[o]
        BY <3>2, <1>11, <1>13, <2>1
      <4>2. target[journal[o].field] \in {journal[o].current, journal[o].intent}
        BY <4>1 DEF IntentHolds, PendingApart
      <4>3. ASSUME NEW p \in Pending(journal') \cup {Len(journal')}, journal'[p].field = journal'[o].field PROVE p = o
        <5>1. CASE p = n
          BY <5>1, <1>11, <1>18, <4>1, <4>3
        <5>2. CASE p # n
          <6>1. p \in Pending(journal) /\ journal'[p] = journal[p]
            BY <5>2, <1>11, <1>13, <4>3
          <6>2. QED
            BY <4>1, <4>3, <6>1 DEF IntentHolds, PendingApart
        <5>3. QED
          BY <5>1, <5>2
      <4>4. QED
        BY <1>6, <4>1, <4>2, <4>3
    <3>3. QED
      BY <3>1, <3>2
  <2>2. QED
    BY <2>1 DEF PendingApart
<1>20. LastLanded'
  BY <1>11, <1>13 DEF LastLanded
<1>21. ReplayHolds'
  BY <1>6 DEF IntentHolds, ReplayHolds
<1>22. RequestHolds(g)'
  <2>1. \A o \in Pending(journal') : \E i \in 1 .. Len(g.ops) : g.ops[i] = o
    <3>1. ASSUME NEW o \in Pending(journal') PROVE \E i \in 1 .. Len(g.ops) : g.ops[i] = o
      <4>1. CASE o = n
        <5>1. Len(h.ops) + 1 \in 1 .. Len(g.ops)
          BY <1>15, <1>16
        <5>2. QED
          BY <4>1, <1>16, <5>1
      <4>2. CASE o # n
        <5>1. PICK i \in 1 .. Len(h.ops) : h.ops[i] = o
          BY <4>2, <1>7, <1>13 DEF RequestHolds
        <5>2. i \in 1 .. Len(g.ops)
          BY <1>15, <1>16
        <5>3. QED
          BY <1>16, <5>1, <5>2
      <4>3. QED
        BY <4>1, <4>2
    <3>2. QED
      BY <3>1
  <2>2. ASSUME NEW i \in 1 .. Len(g.ops)
        PROVE  journal'[g.ops[i]].field = g.edits[i].field /\ journal'[g.ops[i]].intent = g.edits[i].value
    <3>1. CASE i = Len(h.ops) + 1
      BY <3>1, <1>4, <1>11, <1>14, <1>16, <1>17
    <3>2. CASE i # Len(h.ops) + 1
      <4>1. i \in 1 .. Len(h.ops) /\ g.ops[i] = h.ops[i]
        BY <3>2, <1>15, <1>16
      <4>2. h.ops[i] \in 1 .. Len(journal)
        BY <4>1, <1>7 DEF HandlerTracked
      <4>3. QED
        BY <4>1, <4>2, <1>6, <1>7, <1>11, <1>14 DEF RequestHolds
    <3>3. QED
      BY <3>1, <3>2
  <2>3. \A i, j \in 1 .. Len(g.edits) : g.edits[i].field = g.edits[j].field => i = j
    BY <1>6, <1>7, <1>14 DEF RequestHolds
  <2>4. g.ops[Len(g.ops)] = Len(journal')
    BY <1>11, <1>16
  <2>5. QED
    BY <1>14, <2>1, <2>2, <2>3, <2>4 DEF RequestHolds
<1>23. \A d \in Clients : handler'[d] = g
  BY <1>8, OnlyRequest
<1>24. QED
  BY <1>14, <1>19, <1>20, <1>21, <1>22, <1>23 DEF IntentHolds
LEMMA ApplyIntent ==
  ASSUME OneClient, JournalInv, RecoveryInv, IntentHolds, exists, NEW c \in Clients, Apply(c)
  PROVE  IntentHolds'
<1>1. PICK h : h = handler[c] OBVIOUS
<1>2. PICK at : at = [f \in Fields |-> CHOOSE i \in DOMAIN h.edits : h.edits[i].field = f] OBVIOUS
<1>3. PICK g : g = [h EXCEPT !.pc = "settle", !.landed = TRUE] OBVIOUS
<1>4. /\ phase = "up" /\ h.pc = "apply" /\ UNCHANGED <<phase, journal, replay>>
      /\ h \in HandlerType /\ RequestHolds(h) /\ HandlerTracked(h, Len(journal), written)
      /\ handler \in [Clients -> HandlerType] /\ journal \in Seq(Entry) /\ Len(journal) \in Nat
  <2>1. handler[c].pc = "apply" /\ UNCHANGED <<phase, journal, replay>>
    BY DEF Apply
  <2>2. phase = "up"
    BY <2>1 DEF RecoveryInv
  <2>3. QED
    BY <1>1, <2>1, <2>2 DEF IntentHolds, JournalInv, HandlersInv, JournalType
<1>5. /\ target' = [f \in Fields |-> IF \E i \in DOMAIN h.edits : h.edits[i].field = f
                                     THEN h.edits[CHOOSE i \in DOMAIN h.edits : h.edits[i].field = f].value
                                     ELSE target[f]]
      /\ handler' = [handler EXCEPT ![c].pc = "settle", ![c].landed = TRUE]
  <2>1. ~Fault
    BY NoFault
  <2>2. /\ target' = [f \in Fields |-> IF \E i \in DOMAIN handler[c].edits : handler[c].edits[i].field = f
                        THEN handler[c].edits[CHOOSE i \in DOMAIN handler[c].edits : handler[c].edits[i].field = f].value
                        ELSE target[f]]
        /\ handler' = [handler EXCEPT ![c].pc = "settle", ![c].landed = TRUE]
    BY <2>1, Zenon DEF Apply
  <2>3. QED
    BY <1>1, <2>2
<1>6. handler' = [handler EXCEPT ![c] = g]
  BY <1>1, <1>3, <1>4, <1>5
<1>7. g.pc = "settle" /\ g.landed = TRUE /\ g.ops = h.ops
  BY <1>3, <1>4 DEF HandlerType
<1>8. /\ h.ops \in Seq(Nat \ {0}) /\ h.edits \in Seq(Edit) /\ Len(h.ops) = Len(h.edits) /\ h.ops # <<>>
      /\ Len(h.ops) \in Nat
  BY <1>4 DEF HandlerType, HandlerTracked
<1>9. ASSUME NEW i \in 1 .. Len(h.ops) PROVE LandedRow(h.ops[i])'
  <2>1. /\ i \in DOMAIN h.edits /\ h.edits[i] \in Edit
        /\ journal[h.ops[i]].field = h.edits[i].field /\ journal[h.ops[i]].intent = h.edits[i].value
    BY <1>4, <1>8 DEF RequestHolds
  <2>2. PICK f : f = h.edits[i].field OBVIOUS
  <2>3. PICK j : j = CHOOSE k \in DOMAIN h.edits : h.edits[k].field = f OBVIOUS
  <2>4. j \in DOMAIN h.edits /\ h.edits[j].field = f
    BY <2>1, <2>2, <2>3
  <2>5. j = i
    BY <1>4, <1>8, <2>1, <2>2, <2>4 DEF RequestHolds
  <2>6. f \in Fields
    BY <2>1, <2>2 DEF Edit
  <2>7. target'[f] = h.edits[j].value
    BY <1>5, <2>1, <2>2, <2>3, <2>6
  <2>8. QED
    BY <1>4, <2>1, <2>2, <2>5, <2>7 DEF LandedRow
<1>10. PendingApart'
  <2>1. ASSUME NEW o \in Pending(journal) PROVE target'[journal[o].field] = journal[o].intent
    <3>1. PICK i \in 1 .. Len(h.ops) : h.ops[i] = o
      BY <1>4 DEF RequestHolds
    <3>2. QED
      BY <1>4, <1>9, <3>1 DEF LandedRow
  <2>2. QED
    BY <1>4, <2>1 DEF IntentHolds, PendingApart, Pending
<1>11. LastLanded'
  <2>1. h.ops[Len(h.ops)] = Len(journal) /\ Len(h.ops) \in 1 .. Len(h.ops)
    <3>1. Len(h.ops) # 0
      BY <1>8
    <3>2. QED
      BY <1>4, <1>8, <3>1 DEF RequestHolds
  <2>2. LandedRow(h.ops[Len(h.ops)])'
    BY <1>9, <2>1
  <2>3. QED
    BY <1>4, <2>1, <2>2 DEF LastLanded, LandedRow
<1>12. ReplayHolds'
  BY <1>4 DEF IntentHolds, ReplayHolds
<1>13. RequestHolds(g)'
  BY <1>4, <1>7, <1>9 DEF RequestHolds, LandedRow, Pending
<1>14. \A d \in Clients : handler'[d] = g
  BY <1>6, OnlyRequest
<1>15. QED
  BY <1>7, <1>10, <1>11, <1>12, <1>13, <1>14 DEF IntentHolds

\* A row that is settled leaves the pending ones; when it is the last, its
\* column says what it asks for.
LEMMA SettledApart ==
  ASSUME PendingApart, LastLanded, journal \in Seq(Entry), NEW o \in 1 .. Len(journal),
         NEW p \in {"done", "failed"}, Mark(o, p), UNCHANGED target,
         o = Len(journal) /\ journal[o].field \in Replayable => LandedRow(o)
  PROVE  PendingApart' /\ LastLanded'
<1>1. /\ Pending(journal') = Pending(journal) \ {o} /\ Len(journal') = Len(journal)
      /\ \A i \in 1 .. Len(journal) :
           /\ journal'[i].field = journal[i].field
           /\ journal'[i].current = journal[i].current
           /\ journal'[i].intent = journal[i].intent
  BY MarkPending
<1>2. Pending(journal) \subseteq 1 .. Len(journal) /\ Len(journal) \in Nat /\ Len(journal) \in 1 .. Len(journal)
  BY DEF Pending
<1>3. PendingApart'
  <2>1. ASSUME NEW q \in Pending(journal')
        PROVE  /\ target'[journal'[q].field] \in {journal'[q].current, journal'[q].intent}
               /\ \A r \in Pending(journal') \cup {Len(journal')} : journal'[r].field = journal'[q].field => r = q
    <3>1. q \in Pending(journal) /\ q \in 1 .. Len(journal)
      BY <1>1, <1>2
    <3>2. target'[journal'[q].field] \in {journal'[q].current, journal'[q].intent}
      BY <1>1, <3>1 DEF PendingApart
    <3>3. ASSUME NEW r \in Pending(journal') \cup {Len(journal')}, journal'[r].field = journal'[q].field PROVE r = q
      <4>1. r \in Pending(journal) \cup {Len(journal)} /\ r \in 1 .. Len(journal)
        BY <1>1, <1>2
      <4>2. journal[r].field = journal[q].field
        BY <1>1, <3>1, <3>3, <4>1
      <4>3. QED
        BY <3>1, <4>1, <4>2 DEF PendingApart
    <3>4. QED
      BY <3>2, <3>3
  <2>2. QED
    BY <2>1 DEF PendingApart
<1>4. LastLanded'
  <2>1. ASSUME Len(journal) \notin Pending(journal'), journal[Len(journal)].field \in Replayable
        PROVE  LandedRow(Len(journal))
    BY <1>1, <1>2, <2>1 DEF LastLanded
  <2>2. LandedRow(Len(journal)) => target'[journal'[Len(journal)].field] = journal'[Len(journal)].intent
    BY <1>1, <1>2 DEF LandedRow
  <2>3. QED
    BY <1>1, <1>2, <2>1, <2>2 DEF LastLanded, LandedRow
<1>5. QED
  BY <1>3, <1>4

LEMMA SettleIntent ==
  ASSUME OneClient, JournalInv, RecoveryInv, IntentHolds, exists, NEW c \in Clients, Settle(c)
  PROVE  IntentHolds'
<1>1. PICK h : h = handler[c] OBVIOUS
<1>2. PICK o : o = Head(h.ops) OBVIOUS
<1>3. PICK g : g = IF Len(h.ops) > 1 THEN [h EXCEPT !.ops = Tail(h.ops)] ELSE Resting OBVIOUS
<1>4. /\ phase = "up" /\ h.pc = "settle" /\ UNCHANGED <<phase, target, replay>>
      /\ h \in HandlerType /\ RequestHolds(h) /\ HandlerTracked(h, Len(journal), written)
      /\ handler \in [Clients -> HandlerType] /\ journal \in Seq(Entry) /\ Len(journal) \in Nat
  <2>1. handler[c].pc = "settle" /\ UNCHANGED <<phase, target, replay>>
    BY DEF Settle, world
  <2>2. phase = "up"
    BY <2>1 DEF RecoveryInv
  <2>3. QED
    BY <1>1, <2>1, <2>2 DEF IntentHolds, JournalInv, HandlersInv, JournalType
<1>5. Mark(o, Verdict(h.landed)) /\ handler' = [handler EXCEPT ![c] = g]
  BY <1>1, <1>2, <1>3, <1>4, NoFault DEF Settle
<1>6. h.landed /\ Verdict(h.landed) = "done"
  BY <1>4 DEF RequestHolds, Verdict
<1>7. /\ h.ops \in Seq(Nat \ {0}) /\ h.ops # <<>> /\ Len(h.ops) \in Nat /\ 1 \in 1 .. Len(h.ops)
      /\ o = h.ops[1] /\ o \in 1 .. Len(journal)
  <2>1. h.ops \in Seq(Nat \ {0}) /\ h.ops # <<>>
    BY <1>4 DEF HandlerType, HandlerTracked
  <2>2. 1 \in 1 .. Len(h.ops) /\ o = h.ops[1]
    BY <1>2, <2>1
  <2>3. QED
    BY <1>4, <2>1, <2>2 DEF HandlerTracked
<1>8. LandedRow(o)
  BY <1>4, <1>7 DEF RequestHolds
<1>9. /\ Pending(journal') = Pending(journal) \ {o} /\ Len(journal') = Len(journal)
      /\ \A i \in 1 .. Len(journal) : journal'[i].field = journal[i].field /\ journal'[i].intent = journal[i].intent
  BY <1>4, <1>5, <1>6, <1>7, MarkPending
<1>10. PendingApart' /\ LastLanded'
  BY <1>4, <1>5, <1>6, <1>7, <1>8, SettledApart DEF IntentHolds
<1>11. ReplayHolds'
  BY <1>4 DEF IntentHolds, ReplayHolds
<1>12. \A d \in Clients : handler'[d] = g
  BY <1>5, OnlyRequest
<1>13. CASE Len(h.ops) > 1
  <2>1. /\ g.ops = Tail(h.ops) /\ g.pc = "settle" /\ g.landed = h.landed
    BY <1>3, <1>4, <1>13 DEF HandlerType
  <2>2. Len(g.ops) = Len(h.ops) - 1 /\ \A i \in 1 .. Len(g.ops) : g.ops[i] = h.ops[i + 1] /\ i + 1 \in 1 .. Len(h.ops)
    BY <1>7, <1>13, <2>1, Rest
  <2>3. ASSUME NEW q \in Pending(journal') PROVE \E i \in 1 .. Len(g.ops) : g.ops[i] = q
    <3>1. PICK i \in 1 .. Len(h.ops) : h.ops[i] = q
      BY <1>4, <1>9 DEF RequestHolds
    <3>2. i # 1
      BY <1>7, <1>9, <3>1
    <3>3. i - 1 \in 1 .. Len(g.ops) /\ (i - 1) + 1 = i
      BY <1>7, <2>2, <3>1, <3>2
    <3>4. g.ops[i - 1] = q
      BY <2>2, <3>1, <3>3
    <3>5. QED
      BY <3>3, <3>4
  <2>4. ASSUME NEW i \in 1 .. Len(g.ops) PROVE LandedRow(g.ops[i])'
    <3>1. g.ops[i] = h.ops[i + 1] /\ i + 1 \in 1 .. Len(h.ops)
      BY <2>2
    <3>2. LandedRow(g.ops[i]) /\ g.ops[i] \in 1 .. Len(journal)
      BY <1>4, <3>1 DEF RequestHolds, HandlerTracked
    <3>3. QED
      BY <1>4, <1>9, <3>2 DEF LandedRow
  <2>5. RequestHolds(g)'
    BY <1>6, <2>1, <2>3, <2>4 DEF RequestHolds
  <2>6. QED
    BY <1>10, <1>11, <1>12, <2>1, <2>5 DEF IntentHolds
<1>14. CASE ~(Len(h.ops) > 1)
  <2>1. g = Resting /\ g.pc = "idle" /\ g.ops = <<>>
    BY <1>3, <1>14, Idle
  <2>2. Pending(journal') = {}
    <3>1. ASSUME NEW q \in Pending(journal) PROVE q = o
      <4>1. PICK i \in 1 .. Len(h.ops) : h.ops[i] = q
        BY <1>4 DEF RequestHolds
      <4>2. i = 1
        BY <1>7, <1>14, <4>1
      <4>3. QED
        BY <1>7, <4>1, <4>2
    <3>2. QED
      BY <1>9, <3>1
  <2>3. RequestHolds(g)'
    BY <2>1, <2>2 DEF RequestHolds
  <2>4. QED
    BY <1>10, <1>11, <1>12, <2>1, <2>3 DEF IntentHolds
<1>15. QED
  BY <1>13, <1>14

\* The steps of a recovery pass, while nothing else runs.
LEMMA ReplayIntent ==
  ASSUME OneClient, JournalInv, RecoveryInv, IntentHolds, exists, ReplayStep
  PROVE  IntentHolds'
<1>1. /\ replay \in ReplayType /\ ReplayTracked(replay, Len(journal), written)
      /\ journal \in Seq(Entry) /\ Len(journal) \in Nat /\ target \in [Fields -> Values]
  BY DEF JournalInv, JournalType, ReplayInv, WorldType
<1>2. /\ UNCHANGED handler
      /\ \A c \in Clients : handler[c].pc = "idle" => handler[c].ops = <<>>
  BY DEF ReplayStep, ReplayReads, ReplayApplies, ReplayMarks, RecoveryBegins, RecoveryTakes, RecoveryEnds, IntentHolds
<1>3. phase # "up"
  BY DEF IntentHolds, ReplayHolds, ReplayStep, ReplayReads, ReplayApplies, ReplayMarks, RecoveryBegins,
         RecoveryTakes, RecoveryEnds
<1>4. \A c \in Clients : handler[c].pc = "idle"
  BY <1>3 DEF RecoveryInv
<1>5. Pending(journal) \subseteq 1 .. Len(journal)
  BY <1>1 DEF Pending
<1>6. CASE ReplayReads
  <2>1. PICK e : e = journal[replay.op] OBVIOUS
  <2>2. /\ replay.pc = "read" /\ UNCHANGED <<phase, target, journal>> /\ phase = "recovering"
        /\ replay.op \in Pending(journal) /\ replay.op \notin replay.todo /\ replay.todo \subseteq Pending(journal)
    BY <1>6 DEF ReplayReads, world, IntentHolds, ReplayHolds
  <2>3. /\ replay'.op = replay.op /\ replay'.todo = replay.todo
        /\ replay'.pc = IF e.field \in Replayable /\ NotDrifted(replay.op) /\ target[e.field] # e.intent
                        THEN "apply" ELSE "mark"
    BY <1>1, <1>6, <2>1 DEF ReplayReads, ReplayType
  <2>4. replay'.pc = "mark" /\ e.field \in Replayable => LandedRow(replay.op)
    BY <2>1, <2>2, <2>3 DEF NotDrifted, LandedRow, IntentHolds, PendingApart
  <2>5. ReplayHolds'
    BY <2>1, <2>2, <2>3, <2>4 DEF ReplayHolds, LandedRow, Pending
  <2>6. QED
    BY <1>2, <1>3, <2>2, <2>5, RowsStay DEF IntentHolds
<1>7. CASE ReplayApplies
  <2>1. PICK o : o = replay.op OBVIOUS
  <2>2. PICK f : f = journal[o].field OBVIOUS
  <2>3. /\ replay.pc = "apply" /\ UNCHANGED <<phase, journal>> /\ phase = "recovering"
        /\ o \in Pending(journal) /\ o \notin replay.todo /\ replay.todo \subseteq Pending(journal)
    BY <1>7, <2>1 DEF ReplayApplies, IntentHolds, ReplayHolds
  <2>4. target' = [target EXCEPT ![f] = journal[o].intent]
        /\ replay' = [replay EXCEPT !.pc = "mark", !.verdict = "done"]
    BY <1>7, <2>1, <2>2, NoFault DEF ReplayApplies
  <2>5. replay'.op = o /\ replay'.todo = replay.todo /\ replay'.pc = "mark"
    BY <1>1, <2>1, <2>4 DEF ReplayType
  <2>6. f \in Fields
    <3>1. journal[o] \in Entry
      BY <1>1, <1>5, <2>3
    <3>2. QED
      BY <2>2, <3>1 DEF Entry
  <2>7. target'[f] = journal[o].intent /\ \A x \in Fields \ {f} : target'[x] = target[x]
    BY <1>1, <2>4, <2>6
  <2>8. LandedRow(o)'
    BY <2>2, <2>3, <2>7 DEF LandedRow
  <2>9. PendingApart'
    <3>1. ASSUME NEW q \in Pending(journal)
          PROVE  target'[journal[q].field] \in {journal[q].current, journal[q].intent}
      <4>1. CASE q = o
        BY <4>1, <2>2, <2>7
      <4>2. CASE q # o
        <5>1. journal[q].field # f
          BY <2>2, <2>3, <4>2 DEF IntentHolds, PendingApart
        <5>2. journal[q].field \in Fields
          <6>1. journal[q] \in Entry
            BY <1>1, <1>5
          <6>2. QED
            BY <6>1 DEF Entry
        <5>3. QED
          BY <2>7, <5>1, <5>2 DEF IntentHolds, PendingApart
      <4>3. QED
        BY <4>1, <4>2
    <3>2. QED
      BY <2>3, <3>1 DEF IntentHolds, PendingApart, Pending
  <2>10. LastLanded'
    <3>1. ASSUME NEW n \in 1 .. Len(journal), n = Len(journal), n \notin Pending(journal),
                 journal[n].field \in Replayable
          PROVE  target'[journal[n].field] = journal[n].intent
      <4>1. journal[n].field # f
        BY <2>2, <2>3, <3>1 DEF IntentHolds, PendingApart
      <4>2. journal[n].field \in Fields
        <5>1. journal[n] \in Entry
          BY <1>1
        <5>2. QED
          BY <5>1 DEF Entry
      <4>3. QED
        BY <2>7, <3>1, <4>1, <4>2 DEF IntentHolds, LastLanded, LandedRow
    <3>2. QED
      BY <2>3, <3>1 DEF LastLanded, LandedRow, Pending
  <2>11. ReplayHolds'
    BY <2>3, <2>5, <2>8 DEF ReplayHolds, Pending
  <2>12. QED
    BY <1>2, <1>3, <2>3, <2>9, <2>10, <2>11 DEF IntentHolds
<1>8. CASE ReplayMarks
  <2>1. PICK o : o = replay.op OBVIOUS
  <2>2. /\ replay.pc = "mark" /\ phase = "recovering" /\ UNCHANGED target
        /\ o \in Pending(journal) /\ o \notin replay.todo /\ replay.todo \subseteq Pending(journal)
        /\ journal[o].field \in Replayable => LandedRow(o)
    BY <1>8, <2>1 DEF ReplayMarks, world, IntentHolds, ReplayHolds
  <2>3. /\ Mark(o, replay.verdict) /\ UNCHANGED phase /\ replay' = [replay EXCEPT !.pc = "next"]
    BY <1>8, <2>1, <2>2, NoFault DEF ReplayMarks
  <2>4. replay.verdict \in {"done", "failed"} /\ replay'.pc = "next" /\ replay'.todo = replay.todo
    BY <1>1, <2>3 DEF ReplayType
  <2>5. o \in 1 .. Len(journal)
    BY <1>5, <2>2
  <2>6. Pending(journal') = Pending(journal) \ {o}
    BY <1>1, <2>3, <2>4, <2>5, MarkPending
  <2>7. PendingApart' /\ LastLanded'
    BY <1>1, <2>2, <2>3, <2>4, <2>5, SettledApart DEF IntentHolds
  <2>8. ReplayHolds'
    BY <2>2, <2>3, <2>4, <2>6 DEF ReplayHolds
  <2>9. QED
    BY <1>2, <1>3, <2>3, <2>7, <2>8 DEF IntentHolds
<1>9. CASE RecoveryBegins
  <2>1. /\ phase' = "recovering" /\ UNCHANGED <<target, journal>>
        /\ replay' = [NoReplay EXCEPT !.pc = "next", !.todo = Pending(journal)]
    BY <1>9 DEF RecoveryBegins, PendingBatches, world
  <2>2. replay'.pc = "next" /\ replay'.todo = Pending(journal)
    BY <2>1 DEF NoReplay
  <2>3. ReplayHolds'
    BY <2>1, <2>2 DEF ReplayHolds, Pending
  <2>4. QED
    BY <1>2, <2>1, <2>3, RowsStay DEF IntentHolds
<1>10. ASSUME NEW o \in replay.todo, RecoveryTakes(o) PROVE IntentHolds'
  <2>1. /\ replay.pc = "next" /\ UNCHANGED <<phase, target, journal>> /\ phase = "recovering"
        /\ replay.todo \subseteq Pending(journal)
    BY <1>10 DEF RecoveryTakes, world, IntentHolds, ReplayHolds
  <2>2. replay'.pc = "read" /\ replay'.op = o /\ replay'.todo = replay.todo \ {o}
    BY <1>1, <1>10 DEF RecoveryTakes, ReplayType
  <2>3. ReplayHolds'
    BY <2>1, <2>2 DEF ReplayHolds, Pending
  <2>4. QED
    BY <1>2, <1>3, <2>1, <2>3, RowsStay DEF IntentHolds
<1>11. CASE RecoveryEnds
  <2>1. /\ replay.pc = "next" /\ replay.todo = {} /\ phase' = "up" /\ replay' = NoReplay
        /\ UNCHANGED <<target, journal>> /\ phase = "recovering"
    BY <1>11 DEF RecoveryEnds, world, IntentHolds, ReplayHolds
  <2>2. Pending(journal') = {}
    BY <2>1 DEF RecoveryInv, Pending
  <2>3. \A c \in Clients : RequestHolds(handler[c])'
    BY <1>2, <1>4, <2>2 DEF RequestHolds
  <2>4. ReplayHolds'
    BY <2>1, Idle DEF ReplayHolds
  <2>5. QED
    BY <1>2, <2>1, <2>3, <2>4, RowsStay DEF IntentHolds
<1>12. QED
  BY <1>6, <1>7, <1>8, <1>9, <1>10, <1>11 DEF ReplayStep

LEMMA CrashIntent == ASSUME JournalInv, IntentHolds, Crash PROVE IntentHolds'
<1>1. /\ phase' = "down" /\ UNCHANGED <<target, journal>> /\ replay' = NoReplay
      /\ handler' = [c \in Clients |-> Resting]
  BY DEF Crash, world
<1>2. QED
  BY <1>1, Idle, RowsStay DEF IntentHolds, ReplayHolds

LEMMA IntentKept ==
  ASSUME OneClient, JournalInv, RecoveryInv, IntentInv, [Next]_vars PROVE IntentInv'
<1>1. SUFFICES ASSUME exists' PROVE IntentHolds'
  BY DEF IntentInv
<1>2. CASE UNCHANGED vars
  <2>1. UNCHANGED <<phase, exists, target, journal, handler, replay>>
    BY <1>2 DEF vars
  <2>2. IntentHolds
    BY <1>1, <2>1 DEF IntentInv
  <2>3. PendingApart' /\ LastLanded'
    BY <2>1, <2>2, RowsStay DEF IntentHolds
  <2>4. ReplayHolds'
    BY <2>1, <2>2 DEF IntentHolds, ReplayHolds, LandedRow, Pending
  <2>5. phase' = "up" => \A c \in Clients : RequestHolds(handler[c])'
    BY <2>1, <2>2 DEF IntentHolds, RequestHolds, LandedRow, Pending
  <2>6. QED
    BY <2>1, <2>2, <2>3, <2>4, <2>5 DEF IntentHolds
<1>3. CASE Next
  <2>1. exists /\ IntentHolds /\ ~Delete
    <3>1. ~Delete
      BY <1>1 DEF Delete
    <3>2. exists
      BY <1>1, <1>3, <3>1 DEF Next, Begin, HandlerStep, ReadCurrent, Record, Apply, Settle, Retry, ReplayStep,
         ReplayReads, ReplayApplies, ReplayMarks, RecoveryBegins, RecoveryTakes, RecoveryEnds, Crash, world
    <3>3. QED
      BY <3>1, <3>2 DEF IntentInv
  <2>2. \A o \in Ops : ~Retry(o)
    BY DEF OneClient, Retry
  <2>3. ASSUME NEW c \in Clients, NEW edits \in Requests, Begin(c, edits) PROVE IntentHolds'
    BY <2>1, <2>3, BeginIntent
  <2>4. ASSUME NEW c \in Clients, HandlerStep(c) PROVE IntentHolds'
    BY <2>1, <2>4, ReadIntent, RecordIntent, ApplyIntent, SettleIntent DEF HandlerStep
  <2>5. CASE ReplayStep
    BY <2>1, <2>5, ReplayIntent
  <2>6. CASE Crash
    BY <2>1, <2>6, CrashIntent
  <2>7. QED
    BY <1>3, <2>1, <2>2, <2>3, <2>4, <2>5, <2>6 DEF Next
<1>4. QED
  BY <1>2, <1>3

LEMMA IntentStarts == ASSUME Init PROVE IntentInv
<1>1. Pending(journal) = {} /\ Len(journal) = 0
  BY DEF Init, Pending
<1>2. PendingApart /\ LastLanded
  BY <1>1 DEF PendingApart, LastLanded
<1>3. ReplayHolds
  BY Idle DEF Init, ReplayHolds
<1>4. \A c \in Clients : handler[c].ops = <<>> /\ RequestHolds(handler[c])
  BY <1>1, Idle DEF Init, RequestHolds
<1>5. QED
  BY <1>2, <1>3, <1>4 DEF IntentInv, IntentHolds

\* After the recovery the last operation of the journal is in effect, if its
\* column can be replayed: of one client's requests none is lost, and no older
\* one is replayed over a newer, wherever the daemon died, in a handler or in
\* the recovery itself.  A second client, a retry beside the requests, or a
\* statement that fails can take that away, and the hypotheses exclude them.
THEOREM LastIntentKept == ASSUME OneClient PROVE Spec => LastIntentSurvives
<1>1. Init => RecoveryInv /\ IntentInv
  BY RecoveryStarts, IntentStarts
<1>2. JournalInv /\ RecoveryInv /\ IntentInv /\ [Next]_vars => RecoveryInv' /\ IntentInv'
  BY RecoveryKept, IntentKept
<1>3. JournalInv /\ RecoveryInv /\ IntentInv /\ [Next]_vars
        => [phase = "recovering" /\ phase' = "up" /\ journal # <<>>
              => LET e == journal[Len(journal)]
                 IN  e.field \in Replayable /\ exists => target[e.field] = e.intent]_vars
  <2> SUFFICES ASSUME JournalInv, RecoveryInv, IntentInv, [Next]_vars, phase = "recovering", phase' = "up",
                        journal # <<>>, journal[Len(journal)].field \in Replayable, exists
                 PROVE  LandedRow(Len(journal))
    BY DEF LandedRow
  <2>2. RecoveryEnds
    <3>1. \A c \in Clients : ~HandlerStep(c)
      BY DEF RecoveryInv, HandlerStep, ReadCurrent, Record, Apply, Settle
    <3>2. ReplayStep
      BY <3>1 DEF Next, vars, Begin, Delete, Retry, Crash
    <3>3. ~ReplayMarks
      BY NoFault DEF ReplayMarks
    <3>4. QED
      BY <3>2, <3>3 DEF ReplayStep, ReplayReads, ReplayApplies, RecoveryBegins, RecoveryTakes
  <2>3. Pending(journal) = {}
    BY <2>2 DEF RecoveryEnds, RecoveryInv
  <2>4. Len(journal) \in 1 .. Len(journal)
    <3>1. journal \in Seq(Entry)
      BY DEF JournalInv, JournalType
    <3>2. QED
      BY <3>1
  <2>5. QED
    BY <2>3, <2>4 DEF IntentInv, IntentHolds, LastLanded
<1>4. QED
  BY <1>1, <1>2, <1>3, JournalTracked, PTL DEF Spec, LastIntentSurvives
=============================================================================
