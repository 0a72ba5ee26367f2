----------------------------- MODULE SinkProofs -----------------------------
(***************************************************************************)
(* Theorems about FileSink, for any sinks, paths, options and buffer sizes *)
(* and any number of events, faults of the disk and deaths of the process. *)
(***************************************************************************)
EXTENDS FileSink, CountingLemmas, SequenceTheorems

-----------------------------------------------------------------------------
(* FileSink: what a write may do to the file and to the buffer.            *)
DiskCell == [mark : {"header", "footer", "separator", "hole", "event"},
             event : Nat, half : 0..2]
Fields == [held : BOOLEAN, buffer : Seq(DiskCell), broken : BOOLEAN, offset : Nat,
           closed : BOOLEAN, started : BOOLEAN, count : Nat]
Views == [disk : Seq(DiskCell), room : Nat, at : Fields, ok : BOOLEAN]

(* The file and behind it what the buffer still holds.                     *)
Stream(w) == w.disk \o w.at.buffer
AtEnd(s, w) == Option[s].append \/ w.at.offset = Len(w.disk)
Roomy(s, w) == /\ Buffered(s) => Len(w.at.buffer) <= Option[s].buffer
               /\ ~Buffered(s) => w.at.buffer = <<>>
SameSession(w, x) == /\ x.at.held = w.at.held /\ x.at.closed = w.at.closed
                     /\ x.at.started = w.at.started /\ x.at.count = w.at.count
Extends(d, c) == Len(c) <= Len(d) /\ \A i \in 1..Len(c) : d[i] = c[i]

(* x is w after some writes at the end of the file.                        *)
Grows(s, w, x) == /\ x \in Views /\ Roomy(s, x)
                  /\ AtEnd(s, w) => /\ AtEnd(s, x)
                                    /\ Extends(x.disk, w.disk)
                                    /\ Extends(Stream(x), Stream(w))

LEMMA LargerOfTwo ==
    ASSUME NEW a \in Nat, NEW b \in Nat
    PROVE  Max({a, b}) = IF a >= b THEN a ELSE b
<1>1. \A x \in {a, b} : (\A y \in {a, b} : x >= y) => x = IF a >= b THEN a ELSE b
  OBVIOUS
<1>2. \E x \in {a, b} : \A y \in {a, b} : x >= y
  OBVIOUS
<1> QED
  BY <1>1, <1>2 DEF Max

LEMMA SmallerOfTwo ==
    ASSUME NEW a \in Nat, NEW b \in Nat
    PROVE  Min({a, b}) = IF a <= b THEN a ELSE b
<1>1. \A x \in {a, b} : (\A y \in {a, b} : x <= y) => x = IF a <= b THEN a ELSE b
  OBVIOUS
<1>2. \E x \in {a, b} : \A y \in {a, b} : x <= y
  OBVIOUS
<1> QED
  BY <1>1, <1>2 DEF Min

LEMMA ConcatCells == \A a, b, c \in Seq(DiskCell) : (a \o b) \o c = a \o (b \o c)
BY ConcatAssociative

LEMMA CellsAlone == \A a \in Seq(DiskCell) : a \o <<>> = a
OBVIOUS

LEMMA CellsTogether ==
    \A a, b \in Seq(DiskCell) : a \o b \in Seq(DiskCell) /\ Len(a \o b) = Len(a) + Len(b)
OBVIOUS

LEMMA CellsLength == \A c \in Seq(DiskCell) : Len(c) \in Nat /\ DOMAIN c = 1..Len(c)
OBVIOUS

LEMMA ExtendsItself == \A c \in Seq(DiskCell) : Extends(c, c)
BY DEF Extends

LEMMA ExtendsByMore == \A c, x \in Seq(DiskCell) : Extends(c \o x, c)
BY DEF Extends

LEMMA ExtendsFurther ==
    \A c, d, e \in Seq(DiskCell) : Extends(d, c) /\ Extends(e, d) => Extends(e, c)
BY DEF Extends

LEMMA SplitCells ==
    \A c \in Seq(DiskCell) : \A n \in 0..Len(c) :
      /\ SubSeq(c, 1, n) \in Seq(DiskCell) /\ Len(SubSeq(c, 1, n)) = n
      /\ SubSeq(c, n + 1, Len(c)) \in Seq(DiskCell)
      /\ Len(SubSeq(c, n + 1, Len(c))) = Len(c) - n
      /\ c = SubSeq(c, 1, n) \o SubSeq(c, n + 1, Len(c))
      /\ n = Len(c) => SubSeq(c, 1, n) = c /\ SubSeq(c, n + 1, Len(c)) = <<>>
<1> SUFFICES ASSUME NEW c \in Seq(DiskCell), NEW n \in 0..Len(c)
             PROVE  /\ SubSeq(c, 1, n) \in Seq(DiskCell) /\ Len(SubSeq(c, 1, n)) = n
                    /\ SubSeq(c, n + 1, Len(c)) \in Seq(DiskCell)
                    /\ Len(SubSeq(c, n + 1, Len(c))) = Len(c) - n
                    /\ c = SubSeq(c, 1, n) \o SubSeq(c, n + 1, Len(c))
                    /\ n = Len(c) => SubSeq(c, 1, n) = c /\ SubSeq(c, n + 1, Len(c)) = <<>>
  OBVIOUS
<1>1. Len(c) \in Nat /\ n \in Nat /\ n <= Len(c)
  OBVIOUS
<1>2. SubSeq(c, 1, n) \in Seq(DiskCell) /\ Len(SubSeq(c, 1, n)) = n
  BY <1>1
<1>3. /\ SubSeq(c, n + 1, Len(c)) \in Seq(DiskCell)
      /\ Len(SubSeq(c, n + 1, Len(c))) = Len(c) - n
  BY <1>1
<1>4. c = SubSeq(c, 1, n) \o SubSeq(c, n + 1, Len(c))
  <2>1. 1 \in 1..Len(c) + 1 /\ n \in (1 - 1)..Len(c) /\ Len(c) \in n..Len(c)
    BY <1>1
  <2> QED
    BY <2>1, ConcatAdjacentSubSeq, SubSeqFull
<1>5. n = Len(c) => SubSeq(c, 1, n) = c /\ SubSeq(c, n + 1, Len(c)) = <<>>
  BY <1>1
<1> QED
  BY <1>2, <1>3, <1>4, <1>5

(* Cells put behind the last one follow it; put anywhere they are cells.   *)
LEMMA PutCells ==
    ASSUME NEW c \in Seq(DiskCell), NEW x \in Seq(DiskCell), NEW from \in Nat
    PROVE  /\ Put(c, from, x) \in Seq(DiskCell)
           /\ from = Len(c) => Put(c, from, x) = c \o x
<1>1. Hole \in DiskCell
  BY DEF Hole, DiskCell
<1>2. Len(c) \in Nat /\ Len(x) \in Nat
  OBVIOUS
<1> DEFINE total == Max({Len(c), from + Len(x)})
           cell(i) == IF i > from /\ i <= from + Len(x) THEN x[i - from]
                      ELSE IF i <= Len(c) THEN c[i] ELSE Hole
<1>3. total = IF Len(c) >= from + Len(x) THEN Len(c) ELSE from + Len(x)
  BY <1>2, LargerOfTwo
<1>4. total \in Nat
  BY <1>2, <1>3
<1> HIDE DEF total
<1>5. ASSUME NEW i \in 1..total PROVE cell(i) \in DiskCell
  BY <1>1, <1>2, <1>4
<1>6. Put(c, from, x) = [i \in 1..total |-> cell(i)]
  BY DEF Put, total
<1>7. [i \in 1..total |-> cell(i)] \in Seq(DiskCell)
  <2>1. [i \in 1..total |-> cell(i)] \in [1..total -> DiskCell]
    BY <1>5
  <2> QED
    BY <1>4, <2>1, SeqDef
<1>8. ASSUME from = Len(c) PROVE [i \in 1..total |-> cell(i)] = c \o x
  <2>1. total = Len(c) + Len(x)
    BY <1>2, <1>3, <1>8
  <2> DEFINE p == [i \in 1..total |-> cell(i)]
  <2>2. ASSUME NEW i \in 1..Len(p) PROVE p[i] = (c \o x)[i]
    <3>1. i \in 1..(Len(c) + Len(x)) /\ p[i] = cell(i)
      BY <1>7, <2>1
    <3> QED
      BY <1>2, <1>8, <3>1
  <2>3. p \in Seq(DiskCell) /\ c \o x \in Seq(DiskCell) /\ Len(p) = Len(c \o x)
    BY <1>2, <1>4, <1>7, <2>1
  <2> HIDE DEF p
  <2>4. p = c \o x
    BY <2>2, <2>3, SeqEqual
  <2> QED
    BY <2>4 DEF p
<1> QED
  BY <1>6, <1>7, <1>8

LEMMA SinkOptions ==
    ASSUME NEW s \in Sinks
    PROVE  /\ Option[s].buffer \in Nat /\ Buffered(s) \in BOOLEAN
           /\ Buffered(s) => Owns(s)
           /\ Option[s].path \in Paths /\ Option[s].append \in BOOLEAN
           /\ Option[s].flushOnWrite \in BOOLEAN
           /\ Option[s].kind \in {"file", "json", "writer", "console"}
           /\ Option[s].kind # "file" => Option[s].append
BY SinkAssumption DEF Buffered

LEMMA OsWriteAppends ==
    ASSUME NEW s \in Sinks, NEW w \in Views, NEW cells \in Seq(DiskCell)
    PROVE  LET o == OsWrite(s, w, cells)
               n == Taken(w, cells)
           IN  /\ n \in 0..Len(cells)
               /\ o \in Views /\ SameSession(w, o)
               /\ o.at.buffer = w.at.buffer /\ o.at.broken = w.at.broken
               /\ o.ok = (n = Len(cells))
               /\ AtEnd(s, w) => /\ AtEnd(s, o)
                                 /\ o.disk = w.disk \o SubSeq(cells, 1, n)
<1> DEFINE o == OsWrite(s, w, cells)
           n == Taken(w, cells)
           from == IF Option[s].append THEN Len(w.disk) ELSE w.at.offset
           part == SubSeq(cells, 1, n)
<1>1. /\ w.disk \in Seq(DiskCell) /\ w.room \in Nat /\ w.at \in Fields /\ w.at.offset \in Nat
      /\ w.ok \in BOOLEAN /\ Len(w.disk) \in Nat /\ Len(cells) \in Nat
  BY DEF Views, Fields
<1>2. n \in 0..Len(cells) /\ n \in Nat /\ n <= w.room
  BY <1>1, SmallerOfTwo DEF Taken
<1>3. part \in Seq(DiskCell) /\ Len(part) = n
  BY <1>2, SplitCells
<1>4. from \in Nat
  BY <1>1
<1>5. /\ Put(w.disk, from, part) \in Seq(DiskCell)
      /\ from = Len(w.disk) => Put(w.disk, from, part) = w.disk \o part
  BY <1>1, <1>3, <1>4, PutCells
<1>6. Plenty \in Nat
  BY SinkAssumption
<1> HIDE DEF n, part
<1>7. o = [w EXCEPT !.disk = Put(@, from, part),
                    !.room = IF @ = Plenty THEN @ ELSE @ - n,
                    !.at.offset = from + n,
                    !.ok = n = Len(cells)]
  BY DEF OsWrite, n, part
<1> HIDE DEF from, o
<1>8. /\ o.disk = Put(w.disk, from, part) /\ o.ok = (n = Len(cells))
      /\ o.room = IF w.room = Plenty THEN w.room ELSE w.room - n
      /\ o.at = [w.at EXCEPT !.offset = from + n]
      /\ o = [disk |-> o.disk, room |-> o.room, at |-> o.at, ok |-> o.ok]
  BY <1>7 DEF Views
<1>9. /\ o.at \in Fields /\ o.at.offset = from + n /\ SameSession(w, o)
      /\ o.at.buffer = w.at.buffer /\ o.at.broken = w.at.broken
  <2>1. from + n \in Nat
    BY <1>2, <1>4
  <2>2. o.at \in Fields
    BY <1>1, <1>8, <2>1 DEF Fields
  <2>3. o.at.offset = from + n
    BY <1>1, <1>8 DEF Fields
  <2> QED
    BY <1>1, <1>8, <2>2, <2>3 DEF Fields, SameSession
<1>10. o \in Views
  <2>1. o.room \in Nat
    BY <1>1, <1>2, <1>8
  <2>2. o.ok \in BOOLEAN
    BY <1>8
  <2>3. o.disk \in Seq(DiskCell)
    BY <1>5, <1>8
  <2> QED
    BY <1>8, <1>9, <2>1, <2>2, <2>3 DEF Views
<1>11. ASSUME AtEnd(s, w) PROVE AtEnd(s, o) /\ o.disk = w.disk \o part
  <2>1. from = Len(w.disk)
    BY <1>11 DEF AtEnd, from
  <2>2. o.disk = w.disk \o part
    BY <1>5, <1>8, <2>1
  <2>3. Len(o.disk) = Len(w.disk) + n
    BY <1>1, <1>3, <2>2, CellsTogether
  <2> QED
    BY <1>9, <2>1, <2>2, <2>3 DEF AtEnd
<1> QED
  BY <1>2, <1>8, <1>9, <1>10, <1>11 DEF o, n, part

LEMMA FlushKeepsStream ==
    ASSUME NEW s \in Sinks, NEW w \in Views
    PROVE  LET f == FlushWriter(s, w)
           IN  /\ f \in Views /\ SameSession(w, f)
               /\ Len(f.at.buffer) <= Len(w.at.buffer)
               /\ f.ok /\ Buffered(s) /\ w.at.held => f.at.buffer = <<>>
               /\ AtEnd(s, w) => /\ AtEnd(s, f)
                                 /\ Extends(f.disk, w.disk)
                                 /\ Stream(f) = Stream(w)
<1> DEFINE f == FlushWriter(s, w)
           b == w.at.buffer
<1>1. /\ w.disk \in Seq(DiskCell) /\ w.at \in Fields /\ b \in Seq(DiskCell) /\ Len(b) \in Nat
      /\ w = [disk |-> w.disk, room |-> w.room, at |-> w.at, ok |-> w.ok]
      /\ w.at.broken \in BOOLEAN /\ w.at.held \in BOOLEAN
  BY DEF Views, Fields
<1>2. Buffered(s) \in BOOLEAN
  BY SinkOptions
<1>3. CASE \/ ~Buffered(s) \/ ~w.at.held
           \/ w.at.broken \/ b = <<>>
  <2>1. /\ f.disk = w.disk /\ f.at = w.at /\ f.room = w.room /\ f \in Views
        /\ f.ok /\ Buffered(s) /\ w.at.held => b = <<>>
    <3>1. CASE ~Buffered(s) \/ ~w.at.held
      <4>1. f = [w EXCEPT !.ok = TRUE]
        BY <3>1 DEF FlushWriter
      <4> QED
        BY <3>1, <4>1 DEF Views
    <3>2. CASE Buffered(s) /\ w.at.held
      <4>1. f = [w EXCEPT !.ok = ~w.at.broken]
        BY <1>3, <3>2 DEF FlushWriter
      <4>2. f \in Views /\ f.disk = w.disk /\ f.at = w.at /\ f.room = w.room
        BY <1>1, <4>1 DEF Views
      <4>3. f.ok = ~w.at.broken
        BY <1>1, <4>1 DEF Views
      <4> QED
        BY <1>3, <3>2, <4>2, <4>3
    <3> QED
      BY <1>1, <1>2, <3>1, <3>2
  <2> HIDE DEF f
  <2>2. AtEnd(s, w) => AtEnd(s, f) /\ Extends(f.disk, w.disk) /\ Stream(f) = Stream(w)
    BY <1>1, <2>1 DEF AtEnd, Extends, Stream
  <2> QED
    BY <1>1, <2>1, <2>2 DEF SameSession, f
<1>4. CASE Buffered(s) /\ w.at.held /\ ~w.at.broken /\ b # <<>>
  <2> DEFINE o == OsWrite(s, w, b)
             n == Taken(w, b)
             rest == SubSeq(b, n + 1, Len(b))
  <2>1. /\ n \in 0..Len(b) /\ o \in Views /\ SameSession(w, o)
        /\ o.at.buffer = b /\ o.ok = (n = Len(b))
        /\ AtEnd(s, w) => AtEnd(s, o) /\ o.disk = w.disk \o SubSeq(b, 1, n)
    BY <1>1, OsWriteAppends
  <2>2. f = [o EXCEPT !.at.buffer = SubSeq(@, Taken(w, @) + 1, Len(@)), !.at.broken = ~o.ok]
    BY <1>4 DEF FlushWriter
  <2> HIDE DEF f, o, n
  <2>3. /\ f.disk = o.disk /\ f.ok = o.ok /\ f.room = o.room
        /\ f.at = [o.at EXCEPT !.buffer = SubSeq(@, Taken(w, @) + 1, Len(@)),
                               !.broken = ~o.ok]
        /\ f = [disk |-> f.disk, room |-> f.room, at |-> f.at, ok |-> f.ok]
    BY <2>1, <2>2 DEF Views
  <2> HIDE DEF b
  <2>4. /\ SubSeq(b, 1, n) \in Seq(DiskCell) /\ rest \in Seq(DiskCell) /\ Len(rest) = Len(b) - n
        /\ b = SubSeq(b, 1, n) \o rest /\ (n = Len(b) => rest = <<>>)
    <3>1. b \in Seq(DiskCell) /\ n \in 0..Len(b)
      BY <1>1, <2>1
    <3> QED
      BY <3>1, SplitCells DEF rest
  <2>5. f.at = [o.at EXCEPT !.buffer = rest, !.broken = ~o.ok]
    BY <2>1, <2>3 DEF n
  <2> HIDE DEF rest
  <2>6. o.at \in Fields /\ o.disk \in Seq(DiskCell) /\ o.ok \in BOOLEAN /\ o.room \in Nat
    BY <2>1 DEF Views
  <2>7. /\ f.at \in Fields /\ f.at.buffer = rest /\ f.at.offset = o.at.offset
        /\ f.at.held = o.at.held /\ f.at.closed = o.at.closed
        /\ f.at.started = o.at.started /\ f.at.count = o.at.count
    BY <2>4, <2>5, <2>6 DEF Fields
  <2>8. f \in Views /\ SameSession(w, f)
    BY <2>1, <2>3, <2>6, <2>7 DEF Views, SameSession
  <2>9. ASSUME AtEnd(s, w)
        PROVE  AtEnd(s, f) /\ Extends(f.disk, w.disk) /\ Stream(f) = Stream(w)
    <3>1. f.disk = w.disk \o SubSeq(b, 1, n)
      BY <2>1, <2>3, <2>9
    <3>2. Stream(f) = Stream(w)
      <4>1. (w.disk \o SubSeq(b, 1, n)) \o rest = w.disk \o (SubSeq(b, 1, n) \o rest)
        <5>1. /\ w.disk \in Seq(DiskCell) /\ SubSeq(b, 1, n) \in Seq(DiskCell)
              /\ rest \in Seq(DiskCell)
          BY <1>1, <2>4
        <5> QED
          BY <5>1, ConcatCells
      <4>2. Stream(f) = (w.disk \o SubSeq(b, 1, n)) \o rest
        BY <2>7, <3>1 DEF Stream
      <4> QED
        BY <2>4, <4>1, <4>2 DEF Stream, b
    <3>3. Extends(f.disk, w.disk)
      BY <1>1, <2>4, <3>1, ExtendsByMore
    <3> QED
      BY <2>1, <2>3, <2>7, <2>9, <3>2, <3>3 DEF AtEnd
  <2>10. Len(f.at.buffer) <= Len(b) /\ (f.ok => f.at.buffer = <<>>)
    <3>1. n \in Nat /\ Len(b) \in Nat
      BY <1>1, <2>1
    <3>2. Len(rest) <= Len(b)
      BY <2>1, <2>4, <3>1
    <3> QED
      BY <2>1, <2>3, <2>4, <2>7, <3>2
  <2> QED
    BY <2>8, <2>9, <2>10 DEF f, b
<1> QED
  BY <1>2, <1>3, <1>4

(* Growing twice is growing.                                               *)
LEMMA GrowsFurther ==
    ASSUME NEW s \in Sinks, NEW w \in Views, NEW x \in Views, NEW y,
           Grows(s, w, x), Grows(s, x, y)
    PROVE  Grows(s, w, y)
<1>1. /\ w.disk \in Seq(DiskCell) /\ x.disk \in Seq(DiskCell) /\ y.disk \in Seq(DiskCell)
      /\ Stream(w) \in Seq(DiskCell) /\ Stream(x) \in Seq(DiskCell) /\ Stream(y) \in Seq(DiskCell)
  BY DEF Grows, Views, Fields, Stream
<1> QED
  BY <1>1, ExtendsFurther DEF Grows

LEMMA FlushGrows ==
    ASSUME NEW s \in Sinks, NEW w \in Views, Roomy(s, w)
    PROVE  Grows(s, w, FlushWriter(s, w))
<1> DEFINE f == FlushWriter(s, w)
<1>1. /\ f \in Views /\ Len(f.at.buffer) <= Len(w.at.buffer)
      /\ AtEnd(s, w) => AtEnd(s, f) /\ Extends(f.disk, w.disk) /\ Stream(f) = Stream(w)
  BY FlushKeepsStream
<1> HIDE DEF f
<1>2. /\ w.at.buffer \in Seq(DiskCell) /\ f.at.buffer \in Seq(DiskCell)
      /\ Stream(w) \in Seq(DiskCell)
      /\ Option[s].buffer \in Nat
  BY <1>1, SinkOptions DEF Views, Fields, Stream
<1>3. Roomy(s, f)
  <2>1. w.at.buffer = <<>> => f.at.buffer = <<>>
    BY <1>1, <1>2
  <2> QED
    BY <1>1, <1>2, <2>1 DEF Roomy
<1> QED
  BY <1>1, <1>2, <1>3, ExtendsItself DEF Grows, f

(* What c has behind the length of b is taken from cells.                  *)
Only(c, b, cells) ==
    /\ Len(c) <= Len(b) + Len(cells)
    /\ \A i \in DOMAIN c : i > Len(b) => \E j \in DOMAIN cells : c[i] = cells[j]

LEMMA OnlyNone == \A b, x \in Seq(DiskCell) : Only(b, b, x)
BY DEF Only

LEMMA OnlyPart ==
    ASSUME NEW b \in Seq(DiskCell), NEW x \in Seq(DiskCell), NEW n \in 0..Len(x)
    PROVE  Only(b \o SubSeq(x, 1, n), b, x)
<1> DEFINE part == SubSeq(x, 1, n)
<1>1. /\ part \in Seq(DiskCell) /\ Len(part) = n
      /\ \A j \in 1..n : part[j] = x[j] /\ j \in DOMAIN x
  BY SplitCells
<1> HIDE DEF part
<1>2. ASSUME NEW i \in DOMAIN (b \o part), i > Len(b)
      PROVE  \E j \in DOMAIN x : (b \o part)[i] = x[j]
  <2>1. i - Len(b) \in 1..n /\ (b \o part)[i] = part[i - Len(b)]
    BY <1>1, <1>2
  <2> QED
    BY <1>1, <2>1
<1> QED
  BY <1>1, <1>2, CellsTogether DEF Only, part

LEMMA OnlyMore ==
    ASSUME NEW b \in Seq(DiskCell), NEW x \in Seq(DiskCell)
    PROVE  Only(b \o x, b, x)
<1>1. Len(x) \in 0..Len(x)
  OBVIOUS
<1> QED
  BY <1>1, OnlyPart, SplitCells

LEMMA OnlyFurther ==
    ASSUME NEW b \in Seq(DiskCell), NEW c \in Seq(DiskCell), NEW d \in Seq(DiskCell),
           NEW x \in Seq(DiskCell), NEW y \in Seq(DiskCell),
           Only(c, b, x), Only(d, c, y), Extends(d, c)
    PROVE  Only(d, b, x \o y) /\ Only(c, b, x \o y)
<1>1. /\ \A j \in DOMAIN x : j \in DOMAIN (x \o y) /\ (x \o y)[j] = x[j]
      /\ \A j \in DOMAIN y : j + Len(x) \in DOMAIN (x \o y) /\ (x \o y)[j + Len(x)] = y[j]
  <2>1. DOMAIN x = 1..Len(x) /\ DOMAIN y = 1..Len(y) /\ DOMAIN (x \o y) = 1..(Len(x) + Len(y))
    OBVIOUS
  <2>2. \A j \in DOMAIN x : j \in DOMAIN (x \o y) /\ (x \o y)[j] = x[j]
    BY <2>1
  <2>3. \A j \in DOMAIN y : j + Len(x) \in DOMAIN (x \o y) /\ (x \o y)[j + Len(x)] = y[j]
    BY <2>1
  <2> QED
    BY <2>2, <2>3
<1> DEFINE z == x \o y
<1> HIDE DEF z
<1>2. ASSUME NEW i \in DOMAIN c, i > Len(b) PROVE \E j \in DOMAIN z : c[i] = z[j]
  BY <1>1, <1>2 DEF Only, z
<1>3. ASSUME NEW i \in DOMAIN d, i > Len(b) PROVE \E j \in DOMAIN z : d[i] = z[j]
  <2>1. CASE i > Len(c)
    <3>1. PICK j \in DOMAIN y : d[i] = y[j]
      BY <2>1 DEF Only
    <3> QED
      BY <1>1, <3>1 DEF z
  <2>2. CASE ~(i > Len(c))
    <3>1. DOMAIN d = 1..Len(d) /\ DOMAIN c = 1..Len(c) /\ Len(c) \in Nat /\ Len(d) \in Nat
      OBVIOUS
    <3>2. i \in 1..Len(c)
      BY <1>3, <2>2, <3>1
    <3>3. i \in DOMAIN c /\ d[i] = c[i]
      BY <3>1, <3>2 DEF Extends
    <3> QED
      BY <1>2, <1>3, <3>3
  <2> QED
    BY <2>1, <2>2
<1>4. Len(c) <= Len(b) + Len(z) /\ Len(d) <= Len(b) + Len(z)
  BY CellsTogether, CellsLength DEF Only, z
<1> QED
  BY <1>2, <1>3, <1>4 DEF Only, z

(* x is w after a write of cells: all of them when it answered nil, and    *)
(* nothing else behind the stream.                                         *)
Adds(s, w, x, cells) ==
    /\ Grows(s, w, x) /\ SameSession(w, x)
    /\ x.ok /\ AtEnd(s, w) => Stream(x) = Stream(w) \o cells
    /\ AtEnd(s, w) => Only(Stream(x), Stream(w), cells)

LEMMA ViewFields ==
    ASSUME NEW w \in Views
    PROVE  /\ w.disk \in Seq(DiskCell) /\ w.room \in Nat /\ w.at \in Fields /\ w.ok \in BOOLEAN
           /\ w.at.buffer \in Seq(DiskCell) /\ w.at.held \in BOOLEAN /\ w.at.broken \in BOOLEAN
           /\ w.at.offset \in Nat /\ w.at.closed \in BOOLEAN /\ w.at.started \in BOOLEAN
           /\ w.at.count \in Nat /\ Stream(w) \in Seq(DiskCell)
           /\ Len(w.disk) \in Nat /\ Len(w.at.buffer) \in Nat
BY DEF Views, Fields, Stream

(* An appender's flags and what it counts stand beside its stream.         *)
LEMMA HeldAside ==
    ASSUME NEW w \in Views, NEW held \in BOOLEAN
    PROVE  LET v == [w EXCEPT !.at.held = held]
           IN  /\ v \in Views /\ v.disk = w.disk /\ v.at.buffer = w.at.buffer /\ v.ok = w.ok
               /\ v.at.closed = w.at.closed
<1> DEFINE v == [w EXCEPT !.at.held = held]
           at == [w.at EXCEPT !.held = held]
<1>1. v = [w EXCEPT !.at = at] /\ w.at \in Fields
  BY DEF Views
<1>2. at \in Fields /\ at.buffer = w.at.buffer /\ at.closed = w.at.closed
  BY <1>1 DEF Fields
<1> HIDE DEF v, at
<1>3. v \in Views /\ v.disk = w.disk /\ v.at = at /\ v.ok = w.ok
  BY <1>1, <1>2 DEF Views
<1> QED
  BY <1>2, <1>3 DEF v

LEMMA StartedAside ==
    ASSUME NEW w \in Views, NEW started \in BOOLEAN
    PROVE  LET v == [w EXCEPT !.at.started = started]
           IN  /\ v \in Views /\ v.disk = w.disk /\ v.at.buffer = w.at.buffer
               /\ v.at.offset = w.at.offset /\ v.at.held = w.at.held
               /\ v.at.closed = w.at.closed
<1> DEFINE v == [w EXCEPT !.at.started = started]
           at == [w.at EXCEPT !.started = started]
<1>1. v = [w EXCEPT !.at = at] /\ w.at \in Fields
  BY DEF Views
<1>2. /\ at \in Fields /\ at.buffer = w.at.buffer /\ at.closed = w.at.closed
      /\ at.offset = w.at.offset /\ at.held = w.at.held
  BY <1>1 DEF Fields
<1> HIDE DEF v, at
<1>3. v \in Views /\ v.disk = w.disk /\ v.at = at
  BY <1>1, <1>2 DEF Views
<1> QED
  BY <1>2, <1>3 DEF v

(* What goes to the buffer only.                                           *)
LEMMA BufferAdds ==
    ASSUME NEW s \in Sinks, NEW w \in Views, NEW cells \in Seq(DiskCell), NEW x,
           x \in Views, SameSession(w, x), x.disk = w.disk, x.at.offset = w.at.offset,
           x.at.buffer = w.at.buffer \o cells, Roomy(s, x)
    PROVE  Adds(s, w, x, cells)
<1>1. /\ w.disk \in Seq(DiskCell) /\ w.at.buffer \in Seq(DiskCell) /\ Stream(w) \in Seq(DiskCell)
  BY ViewFields
<1>2. Stream(x) = Stream(w) \o cells
  <2>1. (w.disk \o w.at.buffer) \o cells = w.disk \o (w.at.buffer \o cells)
    BY <1>1, ConcatCells
  <2> QED
    BY <2>1 DEF Stream
<1> QED
  BY <1>1, <1>2, ExtendsItself, ExtendsByMore, OnlyMore DEF Adds, Grows, AtEnd

LEMMA OsWriteAdds ==
    ASSUME NEW s \in Sinks, NEW w \in Views, NEW cells \in Seq(DiskCell), w.at.buffer = <<>>
    PROVE  /\ Adds(s, w, OsWrite(s, w, cells), cells)
           /\ Adds(s, w, Direct(s, w, cells), cells)
<1> DEFINE o == OsWrite(s, w, cells)
           d == Direct(s, w, cells)
           n == Taken(w, cells)
<1>1. /\ n \in 0..Len(cells) /\ o \in Views /\ SameSession(w, o)
      /\ o.at.buffer = <<>> /\ o.ok = (n = Len(cells))
      /\ AtEnd(s, w) => AtEnd(s, o) /\ o.disk = w.disk \o SubSeq(cells, 1, n)
  BY OsWriteAppends
<1>2. d = [o EXCEPT !.at.broken = ~o.ok]
  BY DEF Direct
<1> HIDE DEF o, d, n
<1>3. /\ o.at \in Fields /\ o.ok \in BOOLEAN /\ o.disk \in Seq(DiskCell) /\ w.disk \in Seq(DiskCell)
      /\ Stream(w) \in Seq(DiskCell)
  BY <1>1, ViewFields
<1>4. /\ d.disk = o.disk /\ d.ok = o.ok /\ d.room = o.room
      /\ d.at = [o.at EXCEPT !.broken = ~o.ok]
      /\ d = [disk |-> d.disk, room |-> d.room, at |-> d.at, ok |-> d.ok]
  BY <1>1, <1>2 DEF Views
<1>5. /\ d.at \in Fields /\ d.at.buffer = <<>> /\ d.at.offset = o.at.offset
      /\ d.at.held = o.at.held /\ d.at.closed = o.at.closed
      /\ d.at.started = o.at.started /\ d.at.count = o.at.count
  BY <1>1, <1>3, <1>4 DEF Fields
<1>6. d \in Views /\ SameSession(w, d)
  <2>1. o.room \in Nat
    BY <1>1, ViewFields
  <2> QED
    BY <1>1, <1>3, <1>4, <1>5, <2>1 DEF Views, SameSession
<1>7. Roomy(s, o) /\ Roomy(s, d)
  BY <1>1, <1>5, SinkOptions DEF Roomy
<1>8. ASSUME AtEnd(s, w)
      PROVE  /\ Extends(o.disk, w.disk) /\ Extends(Stream(o), Stream(w))
             /\ o.ok => Stream(o) = Stream(w) \o cells
             /\ Only(Stream(o), Stream(w), cells)
  <2>1. SubSeq(cells, 1, n) \in Seq(DiskCell) /\ (n = Len(cells) => SubSeq(cells, 1, n) = cells)
    BY <1>1, SplitCells
  <2>2. o.disk = w.disk \o SubSeq(cells, 1, n)
    BY <1>1, <1>8
  <2>3. Stream(o) = o.disk /\ Stream(w) = w.disk
    BY <1>1, <1>3 DEF Stream
  <2>4. Extends(o.disk, w.disk)
    BY <1>3, <2>1, <2>2, ExtendsByMore
  <2>5. Only(o.disk, w.disk, cells)
    BY <1>1, <1>3, <2>2, OnlyPart
  <2> QED
    BY <1>1, <2>1, <2>2, <2>3, <2>4, <2>5
<1>9. Stream(d) = Stream(o) /\ (AtEnd(s, d) <=> AtEnd(s, o))
  BY <1>1, <1>4, <1>5 DEF Stream, AtEnd
<1> QED
  BY <1>1, <1>4, <1>6, <1>7, <1>8, <1>9 DEF Adds, Grows, o, d

(* Two writes, one after the other.                                        *)
LEMMA AddsFurther ==
    ASSUME NEW s \in Sinks, NEW w \in Views, NEW x \in Views, NEW y,
           NEW a \in Seq(DiskCell), NEW b \in Seq(DiskCell),
           Adds(s, w, x, a), AtEnd(s, w) => Stream(x) = Stream(w) \o a, Adds(s, x, y, b)
    PROVE  Adds(s, w, y, a \o b) /\ (AtEnd(s, w) => Only(Stream(x), Stream(w), a \o b))
<1>1. Grows(s, w, y)
  BY GrowsFurther DEF Adds
<1>2. SameSession(w, y)
  BY DEF Adds, SameSession
<1>3. ASSUME y.ok, AtEnd(s, w) PROVE Stream(y) = Stream(w) \o (a \o b)
  <2>1. AtEnd(s, x) /\ Stream(x) = Stream(w) \o a /\ Stream(y) = Stream(x) \o b
    BY <1>3 DEF Adds, Grows
  <2>2. Stream(w) \in Seq(DiskCell)
    BY ViewFields
  <2> QED
    BY <2>1, <2>2, ConcatCells
<1>4. ASSUME AtEnd(s, w)
      PROVE  Only(Stream(y), Stream(w), a \o b) /\ Only(Stream(x), Stream(w), a \o b)
  <2>1. /\ AtEnd(s, x) /\ Only(Stream(x), Stream(w), a) /\ Only(Stream(y), Stream(x), b)
        /\ Extends(Stream(y), Stream(x)) /\ y \in Views
    BY <1>4 DEF Adds, Grows
  <2>2. Stream(w) \in Seq(DiskCell) /\ Stream(x) \in Seq(DiskCell) /\ Stream(y) \in Seq(DiskCell)
    BY <2>1, ViewFields
  <2> QED
    BY <2>1, <2>2, OnlyFurther
<1> QED
  BY <1>1, <1>2, <1>3, <1>4 DEF Adds

LEMMA WriteAdds ==
    ASSUME NEW s \in Sinks, NEW w \in Views, NEW cells \in Seq(DiskCell),
           Roomy(s, w), Buffered(s) => w.at.held
    PROVE  Adds(s, w, Write(s, w, cells), cells)
<1> DEFINE x == Write(s, w, cells)
           b == w.at.buffer
           free == Option[s].buffer - Len(b)
<1>1. /\ w.disk \in Seq(DiskCell) /\ w.at \in Fields /\ b \in Seq(DiskCell) /\ Len(b) \in Nat
      /\ Len(cells) \in Nat /\ Stream(w) \in Seq(DiskCell) /\ w.room \in Nat
      /\ w.at.broken \in BOOLEAN
  BY ViewFields
<1>2. Option[s].buffer \in Nat /\ Buffered(s) \in BOOLEAN
  BY SinkOptions
<1>3. ASSUME NEW ok \in BOOLEAN
      PROVE  LET v == [w EXCEPT !.ok = ok]
             IN  /\ v \in Views /\ SameSession(w, v) /\ v.disk = w.disk /\ v.at = w.at
                 /\ v.ok = ok
  BY <1>1 DEF Views, SameSession
<1> DEFINE Refilled(v, more) == [v EXCEPT !.at.buffer = more]
<1>4. ASSUME NEW more \in Seq(DiskCell), NEW v \in Views
      PROVE  /\ Refilled(v, more) \in Views /\ SameSession(v, Refilled(v, more))
             /\ Refilled(v, more).disk = v.disk /\ Refilled(v, more).ok = v.ok
             /\ Refilled(v, more).at.offset = v.at.offset
             /\ Refilled(v, more).at.buffer = more
  BY DEF Views, Fields, SameSession
<1>5. CASE cells = <<>>
  <2>1. x = [w EXCEPT !.ok = TRUE]
    BY <1>5 DEF Write
  <2>2. x \in Views /\ SameSession(w, x) /\ x.disk = w.disk /\ x.at = w.at
    BY <1>3, <2>1
  <2>3. b \o cells = b
    BY <1>1, <1>5
  <2> QED
    BY <2>2, <2>3, BufferAdds DEF Roomy
<1>6. CASE cells # <<>> /\ ~Buffered(s)
  BY <1>6, OsWriteAdds DEF Write, Roomy
<1>7. CASE cells # <<>> /\ Buffered(s)
  <2>1. x = BufWrite(s, w, cells) /\ free \in Nat /\ Len(b) <= Option[s].buffer
    BY <1>1, <1>2, <1>7 DEF Write, Roomy
  <2>2. CASE w.at.broken
    <3>1. x = [w EXCEPT !.ok = FALSE]
      BY <2>1, <2>2 DEF BufWrite
    <3>2. /\ x \in Views /\ SameSession(w, x) /\ x.disk = w.disk /\ x.at = w.at
          /\ x.ok = FALSE
      BY <1>3, <3>1
    <3>3. Extends(w.disk, w.disk) /\ Extends(Stream(w), Stream(w))
      BY <1>1, ExtendsItself
    <3>4. Stream(x) = Stream(w)
      BY <3>2 DEF Stream
    <3> QED
      BY <1>1, <3>2, <3>3, <3>4, OnlyNone DEF Adds, Grows, Roomy, AtEnd
  <2>3. CASE ~w.at.broken /\ Len(cells) <= free
    <3>1. x = [w EXCEPT !.at.buffer = @ \o cells, !.ok = TRUE]
      BY <2>1, <2>3 DEF BufWrite
    <3>2. b \o cells \in Seq(DiskCell) /\ Len(b \o cells) = Len(b) + Len(cells)
      BY <1>1, CellsTogether
    <3> DEFINE v == [w EXCEPT !.ok = TRUE]
    <3>3. x = Refilled(v, b \o cells)
      BY <1>1, <3>1 DEF Views, Fields
    <3>4. /\ x \in Views /\ SameSession(w, x) /\ x.disk = w.disk
          /\ x.at.offset = w.at.offset /\ x.at.buffer = b \o cells
      <4>1. v \in Views /\ SameSession(w, v) /\ v.disk = w.disk /\ v.at = w.at
        BY <1>3
      <4> HIDE DEF v, x, Refilled
      <4>2. /\ x \in Views /\ SameSession(v, x) /\ x.disk = v.disk
            /\ x.at.offset = v.at.offset /\ x.at.buffer = b \o cells
        BY <1>4, <3>2, <3>3, <4>1
      <4> QED
        BY <4>1, <4>2 DEF SameSession
    <3>5. Roomy(s, x)
      BY <1>1, <1>2, <1>7, <2>1, <2>3, <3>2, <3>4 DEF Roomy
    <3> QED
      BY <3>4, <3>5, BufferAdds
  <2>4. CASE ~w.at.broken /\ ~(Len(cells) <= free) /\ b = <<>>
    <3>1. x = Direct(s, w, cells)
      BY <1>1, <1>2, <2>1, <2>4 DEF BufWrite
    <3> QED
      BY <2>4, <3>1, OsWriteAdds
  <2>5. CASE ~w.at.broken /\ ~(Len(cells) <= free) /\ b # <<>>
    <3> DEFINE first == SubSeq(cells, 1, free)
               rest == SubSeq(cells, free + 1, Len(cells))
               fill == [w EXCEPT !.at.buffer = @ \o first]
               full == FlushWriter(s, fill)
    <3>1. free \in 0..Len(cells)
      BY <1>1, <2>1, <2>5
    <3>2. /\ first \in Seq(DiskCell) /\ Len(first) = free /\ rest \in Seq(DiskCell)
          /\ cells = first \o rest
      BY <3>1, SplitCells
    <3>3. x = IF ~full.ok THEN full
              ELSE IF Len(rest) > Option[s].buffer THEN Direct(s, full, rest)
              ELSE [full EXCEPT !.at.buffer = rest]
      BY <1>1, <1>2, <2>1, <2>5 DEF BufWrite
    <3> HIDE DEF free, first, rest
    <3>4. b \o first \in Seq(DiskCell) /\ Len(b \o first) = Len(b) + free
      BY <1>1, <3>2, CellsTogether
    <3>5. /\ fill \in Views /\ SameSession(w, fill) /\ fill.disk = w.disk
          /\ fill.at.offset = w.at.offset /\ fill.at.buffer = b \o first
      BY <1>4, <3>4
    <3>6. Roomy(s, fill)
      BY <1>1, <1>2, <1>7, <3>4, <3>5 DEF Roomy, free
    <3>7. /\ Adds(s, w, fill, first)
          /\ AtEnd(s, w) => Stream(fill) = Stream(w) \o first
      <4>1. Adds(s, w, fill, first)
        BY <3>2, <3>5, <3>6, BufferAdds
      <4>2. Stream(fill) = w.disk \o (b \o first)
        BY <3>5 DEF Stream
      <4>3. (w.disk \o b) \o first = w.disk \o (b \o first)
        <5>1. w.disk \in Seq(DiskCell) /\ b \in Seq(DiskCell) /\ first \in Seq(DiskCell)
          BY <1>1, <3>2
        <5> QED
          BY <5>1, ConcatCells
      <4> QED
        BY <4>1, <4>2, <4>3 DEF Stream
    <3> HIDE DEF fill
    <3>8. /\ full \in Views /\ SameSession(fill, full) /\ Grows(s, fill, full)
          /\ full.ok => full.at.buffer = <<>>
          /\ AtEnd(s, fill) => AtEnd(s, full) /\ Stream(full) = Stream(fill)
      BY <1>7, <3>5, <3>6, FlushKeepsStream, FlushGrows DEF SameSession
    <3> HIDE DEF full
    <3>9. /\ Adds(s, w, full, first)
          /\ AtEnd(s, w) => Stream(full) = Stream(w) \o first
      <4>1. Grows(s, w, full)
        BY <3>5, <3>7, <3>8, GrowsFurther DEF Adds
      <4>2. SameSession(w, full)
        BY <3>5, <3>8 DEF SameSession
      <4>3. AtEnd(s, w) => Stream(full) = Stream(w) \o first
        BY <3>7, <3>8 DEF Adds, Grows
      <4>4. AtEnd(s, w) => Only(Stream(full), Stream(w), first)
        BY <1>1, <3>2, <4>3, OnlyMore
      <4> QED
        BY <4>1, <4>2, <4>3, <4>4 DEF Adds
    <3>10. CASE ~full.ok
      <4>1. AtEnd(s, w) => Only(Stream(x), Stream(w), cells)
        <5>1. Stream(w) \in Seq(DiskCell) /\ Stream(full) \in Seq(DiskCell)
          BY <3>8, ViewFields
        <5> QED
          BY <3>2, <3>3, <3>9, <3>10, <5>1, OnlyNone, OnlyFurther, ExtendsItself DEF Adds
      <4> QED
        BY <3>3, <3>9, <3>10, <4>1 DEF Adds
    <3>11. CASE full.ok /\ Len(rest) > Option[s].buffer
      <4>1. x = Direct(s, full, rest)
        BY <3>3, <3>11
      <4>2. Adds(s, full, x, rest)
        BY <3>2, <3>8, <3>11, <4>1, OsWriteAdds
      <4> QED
        BY <3>2, <3>8, <3>9, <4>2, AddsFurther
    <3>12. CASE full.ok /\ ~(Len(rest) > Option[s].buffer)
      <4>1. x = Refilled(full, rest)
        BY <3>3, <3>12
      <4> HIDE DEF Refilled
      <4>2. /\ x \in Views /\ SameSession(full, x) /\ x.disk = full.disk
            /\ x.at.offset = full.at.offset /\ x.at.buffer = rest
        BY <1>4, <3>2, <3>8, <4>1
      <4>3. rest = full.at.buffer \o rest
        <5>1. full.at.buffer = <<>>
          BY <3>8, <3>12
        <5>2. \A c \in Seq(DiskCell) : c = <<>> \o c
          OBVIOUS
        <5> QED
          BY <3>2, <5>1, <5>2
      <4>4. Roomy(s, x)
        <5>1. Len(rest) \in Nat
          BY <3>2
        <5> QED
          BY <1>2, <1>7, <3>12, <4>2, <5>1 DEF Roomy
      <4>5. Adds(s, full, x, rest)
        BY <3>2, <3>8, <4>2, <4>3, <4>4, BufferAdds
      <4> QED
        BY <3>2, <3>8, <3>9, <4>5, AddsFurther
    <3> QED
      BY <3>10, <3>11, <3>12
  <2> QED
    BY <1>1, <2>2, <2>3, <2>4, <2>5
<1> QED
  BY <1>2, <1>5, <1>6, <1>7

(* The halves of event e stand in c, one behind the other where only one   *)
(* sink at a time writes to p.                                             *)
Kept(c, p, e) == \E i, j \in 1..Len(c) : /\ i < j /\ (p \notin Shared => j = i + 1)
                                        /\ <<c[i], c[j]>> = Halves(e)

LEMMA TwoCells ==
    \A f \in [1..2 -> DiskCell] : f \in Seq(DiskCell) /\ Len(f) = 2 /\ f = <<f[1], f[2]>>
<1> SUFFICES ASSUME NEW f \in [1..2 -> DiskCell]
             PROVE  f \in Seq(DiskCell) /\ Len(f) = 2 /\ f = <<f[1], f[2]>>
  OBVIOUS
<1>1. 2 \in Nat /\ f \in Seq(DiskCell) /\ Len(f) = 2
  <2>1. \A n \in Nat : [1..n -> DiskCell] \subseteq Seq(DiskCell)
    BY SeqDef
  <2>2. f \in Seq(DiskCell) /\ DOMAIN f = 1..2
    BY <2>1
  <2>3. Len(f) \in Nat /\ DOMAIN f = 1..Len(f)
    BY <2>2, CellsLength
  <2>4. Len(f) = 2
    BY <2>2, <2>3
  <2> QED
    BY <2>2, <2>4
<1> DEFINE t == <<f[1], f[2]>>
<1>2. t \in Seq(DiskCell) /\ Len(t) = 2 /\ t[1] = f[1] /\ t[2] = f[2]
  OBVIOUS
<1>3. \A k \in 1..Len(f) : f[k] = t[k]
  BY <1>1, <1>2
<1> HIDE DEF t
<1>4. f = t
  BY <1>1, <1>2, <1>3, SeqEqual
<1> QED
  BY <1>1, <1>4 DEF t

LEMMA CellsBehind ==
    \A a, b \in Seq(DiskCell) : \A k \in 1..Len(b) : (a \o b)[Len(a) + k] = b[k]
OBVIOUS

LEMMA EventCells ==
    /\ \A e \in Nat : /\ Halves(e) \in Seq(DiskCell) /\ Len(Halves(e)) = 2
                      /\ Halves(e) = <<Halves(e)[1], Halves(e)[2]>>
    /\ Header \in DiskCell /\ Footer \in DiskCell /\ Separator \in DiskCell
<1>1. ASSUME NEW e \in Nat PROVE /\ Halves(e) \in Seq(DiskCell) /\ Len(Halves(e)) = 2
                               /\ Halves(e) = <<Halves(e)[1], Halves(e)[2]>>
  <2>1. \A h \in 1..2 : [mark |-> "event", event |-> e, half |-> h] \in DiskCell
    BY DEF DiskCell
  <2>2. Halves(e) \in [1..2 -> DiskCell]
    BY <2>1 DEF Halves
  <2> QED
    BY <2>2, TwoCells
<1> QED
  BY <1>1 DEF Header, Footer, Separator, DiskCell

LEMMA KeptExtends ==
    \A c, d \in Seq(DiskCell) : \A p, e : Extends(d, c) /\ Kept(c, p, e) => Kept(d, p, e)
<1> SUFFICES ASSUME NEW c \in Seq(DiskCell), NEW d \in Seq(DiskCell), NEW p, NEW e,
                    Extends(d, c), Kept(c, p, e)
             PROVE  Kept(d, p, e)
  OBVIOUS
<1>1. PICK i, j \in 1..Len(c) : /\ i < j /\ (p \notin Shared => j = i + 1)
                                /\ <<c[i], c[j]>> = Halves(e)
  BY DEF Kept
<1>2. i \in 1..Len(d) /\ j \in 1..Len(d) /\ d[i] = c[i] /\ d[j] = c[j]
  BY DEF Extends
<1> QED
  BY <1>1, <1>2 DEF Kept

(* What another sink appends to a shared path comes between the file and   *)
(* the buffer.                                                             *)
LEMMA KeptAround ==
    \A c, d, b \in Seq(DiskCell) : \A p \in Shared : \A e :
      Extends(d, c) /\ Kept(c \o b, p, e) => Kept(d \o b, p, e)
<1> SUFFICES ASSUME NEW c \in Seq(DiskCell), NEW d \in Seq(DiskCell), NEW b \in Seq(DiskCell),
                    NEW p \in Shared, NEW e, Extends(d, c), Kept(c \o b, p, e)
             PROVE  Kept(d \o b, p, e)
  OBVIOUS
<1>1. PICK i, j \in 1..Len(c \o b) : i < j /\ <<(c \o b)[i], (c \o b)[j]>> = Halves(e)
  BY DEF Kept
<1> DEFINE more == Len(d) - Len(c)
           Moved(k) == IF k <= Len(c) THEN k ELSE k + more
<1>2. more \in Nat /\ Len(c) \in Nat /\ Len(d) = Len(c) + more /\ Len(b) \in Nat
  BY DEF Extends
<1> HIDE DEF more
<1>3. /\ Len(c \o b) = Len(c) + Len(b) /\ Len(d \o b) = Len(c) + more + Len(b)
  <2>1. Len(c \o b) = Len(c) + Len(b)
    OBVIOUS
  <2>2. Len(d \o b) = Len(d) + Len(b)
    OBVIOUS
  <2> QED
    BY <1>2, <2>1, <2>2
<1>4. ASSUME NEW k \in 1..Len(c \o b)
      PROVE  Moved(k) \in 1..Len(d \o b) /\ (d \o b)[Moved(k)] = (c \o b)[k]
  <2>1. CASE k <= Len(c)
    BY <1>2, <1>3, <2>1 DEF Extends
  <2>2. CASE ~(k <= Len(c))
    <3>1. k \in Nat /\ Moved(k) = k + more /\ k + more \in 1..Len(d \o b)
      BY <1>2, <1>3, <2>2
    <3>2. (c \o b)[k] = b[k - Len(c)]
      BY <1>2, <1>3, <2>2
    <3>3. (d \o b)[k + more] = b[(k + more) - Len(d)]
      BY <1>2, <1>3, <2>2, <3>1
    <3>4. (k + more) - Len(d) = k - Len(c)
      BY <1>2, <3>1
    <3> QED
      BY <3>1, <3>2, <3>3, <3>4
  <2> QED
    BY <2>1, <2>2
<1>5. Moved(i) < Moved(j)
  BY <1>1, <1>2, <1>3
<1> HIDE DEF Moved
<1> QED
  BY <1>1, <1>4, <1>5 DEF Kept

LEMMA KeptLast ==
    \A c, x \in Seq(DiskCell) : \A p : \A e \in Nat : Kept(c \o (x \o Halves(e)), p, e)
<1> SUFFICES ASSUME NEW c \in Seq(DiskCell), NEW x \in Seq(DiskCell), NEW p, NEW e \in Nat
             PROVE  Kept(c \o (x \o Halves(e)), p, e)
  OBVIOUS
<1> DEFINE h == Halves(e)
           d == c \o (x \o h)
           i == Len(c) + Len(x) + 1
<1>1. h \in Seq(DiskCell) /\ Len(h) = 2 /\ Len(c) \in Nat /\ Len(x) \in Nat
  BY EventCells
<1>2. h = <<h[1], h[2]>>
  BY EventCells
<1> HIDE DEF h
<1>3. /\ Len(d) = Len(c) + Len(x) + 2 /\ i \in 1..Len(d) /\ i + 1 \in 1..Len(d)
      /\ d[i] = h[1] /\ d[i + 1] = h[2]
  <2> DEFINE y == x \o h
  <2>1. /\ y \in Seq(DiskCell) /\ Len(y) = Len(x) + 2
        /\ y[Len(x) + 1] = h[1] /\ y[Len(x) + 2] = h[2]
    <3>1. 1 \in 1..Len(h) /\ 2 \in 1..Len(h)
      BY <1>1
    <3> QED
      BY <1>1, <3>1, CellsTogether, CellsBehind
  <2> HIDE DEF y
  <2>2. /\ Len(c \o y) = Len(c) + Len(x) + 2
        /\ (c \o y)[Len(c) + (Len(x) + 1)] = y[Len(x) + 1]
        /\ (c \o y)[Len(c) + (Len(x) + 2)] = y[Len(x) + 2]
    <3>1. Len(x) + 1 \in 1..Len(y) /\ Len(x) + 2 \in 1..Len(y)
      BY <1>1, <2>1
    <3>2. Len(c \o y) = Len(c) + Len(y)
      BY <2>1, CellsTogether
    <3>3. /\ (c \o y)[Len(c) + (Len(x) + 1)] = y[Len(x) + 1]
          /\ (c \o y)[Len(c) + (Len(x) + 2)] = y[Len(x) + 2]
      BY <2>1, <3>1, CellsBehind
    <3>4. Len(c) + Len(y) = Len(c) + Len(x) + 2
      BY <1>1, <2>1
    <3> QED
      BY <3>2, <3>3, <3>4
  <2>3. d = c \o y
    BY DEF y
  <2> HIDE DEF d
  <2> QED
    BY <1>1, <2>1, <2>2, <2>3
<1>4. i < i + 1 /\ <<d[i], d[i + 1]>> = h
  BY <1>1, <1>2, <1>3
<1> HIDE DEF d, i
<1>5. Kept(d, p, e)
  BY <1>3, <1>4 DEF Kept, h
<1> QED
  BY <1>5 DEF d, h

(* The calls.  Only the file, the buffer and the session change in them.   *)
Continues(s, w, x) ==
    Grows(s, w, x) /\ x.at.held = w.at.held /\ x.at.closed = w.at.closed

LEMMA ContinuesFurther ==
    ASSUME NEW s \in Sinks, NEW w \in Views, NEW x, NEW y,
           Continues(s, w, x), Continues(s, x, y)
    PROVE  Continues(s, w, y)
BY GrowsFurther DEF Continues, Grows

LEMMA WriteContinues ==
    ASSUME NEW s \in Sinks, NEW w \in Views, NEW cells \in Seq(DiskCell),
           Roomy(s, w), Buffered(s) => w.at.held
    PROVE  Continues(s, w, Write(s, w, cells))
BY WriteAdds DEF Adds, SameSession, Continues

LEMMA FlushContinues ==
    ASSUME NEW s \in Sinks, NEW w \in Views, Roomy(s, w)
    PROVE  Continues(s, w, FlushWriter(s, w))
BY FlushGrows, FlushKeepsStream DEF SameSession, Continues

(* The counter of the layout, the answer and started are beside the cells. *)
LEMMA AsideContinues ==
    ASSUME NEW s \in Sinks, NEW w \in Views, NEW x \in Views, Roomy(s, w),
           x.disk = w.disk, x.at.buffer = w.at.buffer, x.at.offset = w.at.offset,
           x.at.held = w.at.held, x.at.closed = w.at.closed
    PROVE  Continues(s, w, x)
<1>1. w.disk \in Seq(DiskCell) /\ Stream(w) \in Seq(DiskCell) /\ Stream(x) = Stream(w)
  BY ViewFields DEF Stream
<1> QED
  BY <1>1, ExtendsItself DEF Continues, Grows, Roomy, AtEnd

LEMMA CountAside ==
    ASSUME NEW s \in Sinks, NEW w \in Views, NEW k \in Nat, Roomy(s, w)
    PROVE  LET v == [w EXCEPT !.at.count = k]
           IN  /\ v \in Views /\ v.at.held = w.at.held /\ v.at.count = k
               /\ v.disk = w.disk /\ v.at.buffer = w.at.buffer /\ v.ok = w.ok
               /\ Roomy(s, v) /\ Continues(s, w, v)
<1> DEFINE v == [w EXCEPT !.at.count = k]
<1>1. /\ v \in Views /\ v.disk = w.disk /\ v.at.buffer = w.at.buffer /\ v.ok = w.ok
      /\ v.at.offset = w.at.offset /\ v.at.held = w.at.held /\ v.at.closed = w.at.closed
      /\ v.at.count = k
  BY DEF Views, Fields
<1> HIDE DEF v
<1>2. Roomy(s, v) /\ Continues(s, w, v)
  BY <1>1, AsideContinues DEF Roomy
<1> QED
  BY <1>1, <1>2 DEF v

LEMMA AnswerAside ==
    ASSUME NEW s \in Sinks, NEW w \in Views, NEW ok \in BOOLEAN, Roomy(s, w)
    PROVE  LET v == [w EXCEPT !.ok = ok] IN v.ok = ok /\ v.at = w.at /\ Continues(s, w, v)
<1> DEFINE v == [w EXCEPT !.ok = ok]
<1>1. v \in Views /\ v.disk = w.disk /\ v.at = w.at /\ v.ok = ok
  BY DEF Views
<1> HIDE DEF v
<1> QED
  BY <1>1, AsideContinues DEF v

LEMMA FrameContinues ==
    ASSUME NEW s \in Sinks, NEW w \in Views, Roomy(s, w), Buffered(s) => w.at.held
    PROVE  Continues(s, w, WriteHeader(s, w)) /\ Continues(s, w, WriteFooter(s, w))
<1> DEFINE v == [w EXCEPT !.at.count = 0]
<1>1. v \in Views /\ v.at.held = w.at.held /\ Roomy(s, v) /\ Continues(s, w, v)
  BY CountAside
<1>2. /\ <<>> \in Seq(DiskCell) /\ <<Header>> \in Seq(DiskCell) /\ <<Footer>> \in Seq(DiskCell)
  BY EventCells
<1> DEFINE head == IF Framed(s) THEN <<Header>> ELSE <<>>
           foot == IF Framed(s) THEN <<Footer>> ELSE <<>>
<1>3. head \in Seq(DiskCell) /\ foot \in Seq(DiskCell)
  BY <1>2
<1>4. WriteHeader(s, w) = Write(s, v, head) /\ WriteFooter(s, w) = Write(s, w, foot)
  BY DEF WriteHeader, WriteFooter
<1> HIDE DEF v, head, foot
<1> QED
  BY <1>1, <1>3, <1>4, WriteContinues, ContinuesFurther

(* An event written without an error stands behind the stream, and in the  *)
(* file when it is flushed.                                                *)
LEMMA WrittenKeeps ==
    ASSUME NEW s \in Sinks, NEW w \in Views, NEW e \in Nat, NEW p,
           Roomy(s, w), Buffered(s) => w.at.held
    PROVE  LET x == Written(s, w, e)
           IN  /\ Continues(s, w, x)
               /\ x.ok /\ AtEnd(s, w) => Kept(Stream(x), p, e)
               /\ x.ok /\ Buffered(s) /\ Option[s].flushOnWrite => x.at.buffer = <<>>
<1> DEFINE v == Counted(s, w)
           between == IF Counts(s) /\ w.at.count > 0 THEN <<Separator>> ELSE <<>>
           cells == between \o Halves(e)
           wrote == Write(s, v, cells)
           x == Written(s, w, e)
<1>1. v \in Views /\ v.at.held = w.at.held /\ Roomy(s, v) /\ Continues(s, w, v)
  <2>1. CASE Counts(s)
    <3>1. v = [w EXCEPT !.at.count = w.at.count + 1] /\ w.at.count + 1 \in Nat
      BY <2>1, ViewFields DEF Counted
    <3> QED
      BY <3>1, CountAside
  <2>2. CASE ~Counts(s)
    <3>1. v = w
      BY <2>2 DEF Counted
    <3> QED
      BY <3>1, AsideContinues
  <2> QED
    BY <2>1, <2>2
<1>2. between \in Seq(DiskCell) /\ Halves(e) \in Seq(DiskCell) /\ cells \in Seq(DiskCell)
  <2>1. <<>> \in Seq(DiskCell) /\ <<Separator>> \in Seq(DiskCell) /\ Halves(e) \in Seq(DiskCell)
    BY EventCells
  <2>2. between \in Seq(DiskCell)
    BY <2>1
  <2> HIDE DEF between
  <2> QED
    BY <2>1, <2>2, CellsTogether
<1>3. x = IF wrote.ok /\ Option[s].flushOnWrite THEN FlushWriter(s, wrote) ELSE wrote
  BY DEF Written, Format
<1> HIDE DEF v, cells, x
<1>4. Adds(s, v, wrote, cells) /\ Continues(s, v, wrote)
  BY <1>1, <1>2, WriteAdds, WriteContinues
<1> HIDE DEF wrote
<1>5. /\ wrote \in Views /\ Roomy(s, wrote) /\ wrote.at.held = w.at.held
      /\ Continues(s, w, wrote)
  BY <1>1, <1>4, ContinuesFurther DEF Continues, Grows
<1>6. wrote.ok /\ AtEnd(s, w) => Kept(Stream(wrote), p, e) /\ AtEnd(s, wrote)
  <2>1. SUFFICES ASSUME wrote.ok, AtEnd(s, w)
                 PROVE  Kept(Stream(wrote), p, e) /\ AtEnd(s, wrote)
    OBVIOUS
  <2>2. AtEnd(s, v) /\ AtEnd(s, wrote)
    BY <1>1, <1>5, <2>1 DEF Continues, Grows
  <2>3. Stream(wrote) = Stream(v) \o cells
    BY <1>4, <2>1, <2>2 DEF Adds
  <2>4. Stream(v) \in Seq(DiskCell)
    BY <1>1, ViewFields
  <2> QED
    BY <1>2, <2>2, <2>3, <2>4, KeptLast DEF cells
<1>7. CASE wrote.ok /\ Option[s].flushOnWrite
  <2>1. x = FlushWriter(s, wrote)
    BY <1>3, <1>7
  <2>2. Continues(s, w, x)
    BY <1>5, <2>1, FlushContinues, ContinuesFurther
  <2>3. AtEnd(s, w) => Stream(x) = Stream(wrote)
    BY <1>5, <1>6, <1>7, <2>1, FlushKeepsStream
  <2>4. x.ok /\ Buffered(s) => x.at.buffer = <<>>
    BY <1>5, <2>1, FlushKeepsStream
  <2> QED
    BY <1>6, <1>7, <2>2, <2>3, <2>4 DEF x
<1>8. CASE ~(wrote.ok /\ Option[s].flushOnWrite)
  BY <1>3, <1>5, <1>6, <1>8 DEF x
<1> QED
  BY <1>7, <1>8

(* openLocked starts a session: at the end of a file that is appended to,  *)
(* at the start of one that is truncated.                                  *)
LEMMA OpenSettles ==
    ASSUME NEW s \in Sinks, NEW w \in Views, Roomy(s, w), ~w.at.closed, w.at.buffer = <<>>
    PROVE  LET x == OpenWithOptions(s, w)
           IN  /\ x \in Views /\ Roomy(s, x) /\ ~x.at.closed /\ x.at.buffer = <<>>
               /\ x.at.held /\ x.ok /\ AtEnd(s, x)
               /\ Option[s].append => x.disk = w.disk
<1> DEFINE x == OpenWithOptions(s, w)
           kept == IF Option[s].append THEN w.disk ELSE <<>>
<1>1. kept \in Seq(DiskCell) /\ w.disk \in Seq(DiskCell) /\ w.at \in Fields
  BY ViewFields
<1> DEFINE at == [w.at EXCEPT !.held = TRUE, !.offset = 0]
<1>3. /\ at \in Fields /\ at.held = TRUE /\ at.offset = 0 /\ at.closed = w.at.closed
      /\ at.buffer = w.at.buffer
  BY <1>1 DEF Fields
<1>0. x = [w EXCEPT !.disk = kept, !.at = at, !.ok = TRUE]
  BY DEF OpenWithOptions
<1> HIDE DEF x, at, kept
<1>2. /\ x.disk = kept /\ x.ok = TRUE /\ x.room = w.room /\ x.at = at
      /\ x = [disk |-> x.disk, room |-> x.room, at |-> x.at, ok |-> x.ok]
  BY <1>0 DEF Views
<1>4. x \in Views
  BY <1>1, <1>2, <1>3, ViewFields DEF Views
<1>5. AtEnd(s, x)
  BY <1>2, <1>3 DEF AtEnd, kept
<1> QED
  BY <1>2, <1>3, <1>4, <1>5 DEF Roomy, x, kept

LEMMA NoFileFields == /\ NoFile \in Fields /\ NoFile.held = FALSE /\ NoFile.closed = FALSE
                      /\ NoFile.buffer = <<>>
<1>1. <<>> \in Seq(DiskCell) /\ 0 \in Nat /\ FALSE \in BOOLEAN
  OBVIOUS
<1> QED
  BY <1>1 DEF NoFile, Fields

LEMMA OpenLockedSettles ==
    ASSUME NEW s \in Sinks, NEW w \in Views, Roomy(s, w), ~w.at.closed, w.at.buffer = <<>>
    PROVE  LET x == OpenLocked(s, w)
           IN  /\ x \in Views /\ Roomy(s, x) /\ ~x.at.closed
               /\ x.ok => x.at.held /\ AtEnd(s, x)
               /\ ~x.ok => ~x.at.held /\ x.at.buffer = <<>>
               /\ Option[s].append => Extends(x.disk, w.disk)
<1> DEFINE ready == OpenWithOptions(s, w)
           first == WriteHeader(s, ready)
           out == FlushWriter(s, first)
           x == OpenLocked(s, w)
<1>1. /\ ready \in Views /\ Roomy(s, ready) /\ ~ready.at.closed
      /\ ready.at.held /\ ready.ok /\ AtEnd(s, ready)
      /\ Option[s].append => ready.disk = w.disk
  BY OpenSettles
<1>2. Continues(s, ready, first)
  BY <1>1, FrameContinues
<1>3. first \in Views /\ Roomy(s, first)
  BY <1>2 DEF Continues, Grows
<1>4. Continues(s, first, out)
  BY <1>3, FlushContinues
<1>5. Continues(s, ready, out)
  BY <1>1, <1>2, <1>4, ContinuesFurther
<1>6. w.disk \in Seq(DiskCell) /\ ready.disk \in Seq(DiskCell)
  BY <1>1, ViewFields
<1>7. CASE ~NeedsHeader(s, ready)
  <2>1. x = ready
    BY <1>7 DEF OpenLocked
  <2> HIDE DEF x, ready
  <2> QED
    BY <1>1, <1>6, <2>1, ExtendsItself DEF x
<1>8. CASE NeedsHeader(s, ready) /\ first.ok
  <2>1. x = first
    BY <1>8 DEF OpenLocked
  <2> HIDE DEF x, ready, first
  <2> QED
    BY <1>1, <1>2, <1>6, <1>8, <2>1 DEF Continues, Grows, x
<1>9. CASE NeedsHeader(s, ready) /\ ~first.ok
  <2>1. x = [out EXCEPT !.at = [NoFile EXCEPT !.count = first.at.count], !.ok = FALSE]
    BY <1>9 DEF OpenLocked
  <2>2. first.at.count \in Nat /\ out \in Views
    BY <1>3, <1>4, ViewFields DEF Continues, Grows
  <2> HIDE DEF x, ready, first, out
  <2> DEFINE none == [NoFile EXCEPT !.count = first.at.count]
  <2>3. none \in Fields /\ ~none.held /\ ~none.closed /\ none.buffer = <<>>
    <3>1. \A c \in Nat :
            LET f == [NoFile EXCEPT !.count = c]
            IN  f \in Fields /\ f.held = FALSE /\ f.closed = FALSE /\ f.buffer = <<>>
      BY NoFileFields DEF Fields
    <3> QED
      BY <2>2, <3>1
  <2> HIDE DEF none
  <2>4. /\ x \in Views /\ x.at = none /\ x.ok = FALSE /\ x.disk = out.disk
    BY <2>1, <2>2, <2>3 DEF Views, none
  <2>5. Roomy(s, x)
    BY <2>3, <2>4, SinkOptions DEF Roomy
  <2> QED
    BY <1>1, <1>5, <2>3, <2>4, <2>5 DEF Continues, Grows, x
<1> QED
  BY <1>7, <1>8, <1>9

LEMMA ConstructedSettles ==
    ASSUME NEW s \in Sinks, NEW w \in Views, Roomy(s, w), ~w.at.closed, ~w.at.held,
           w.at.buffer = <<>>, w.ok = TRUE
    PROVE  LET x == Constructed(s, w)
           IN  /\ x \in Views /\ Roomy(s, x) /\ ~x.at.closed
               /\ x.at.held => AtEnd(s, x)
               /\ ~x.at.held => x.at.buffer = <<>>
               /\ ~x.ok => ~x.at.held /\ x.at.buffer = <<>>
               /\ x.ok /\ Option[s].kind = "json" => x.at.held
               /\ Option[s].append => Extends(x.disk, w.disk)
<1> DEFINE x == Constructed(s, w)
<1>1. w.disk \in Seq(DiskCell) /\ Extends(w.disk, w.disk)
  BY ViewFields, ExtendsItself
<1>2. CASE x = w /\ Option[s].kind \in {"file", "console"}
  BY <1>1, <1>2 DEF Constructed, NewFileAppender, OpenWithOptions
<1>3. CASE x = OpenLocked(s, w) /\ Option[s].kind = "file"
  BY <1>3, OpenLockedSettles
<1>4. CASE x = OpenWithOptions(s, w) /\ Option[s].kind = "json"
  BY <1>1, <1>4, OpenSettles
<1>5. CASE x = NewJSON(s, w) /\ Option[s].kind = "writer"
  <2>1. /\ x \in Views /\ x.disk = w.disk /\ x.at.buffer = w.at.buffer /\ x.ok = w.ok
        /\ x.at.closed = w.at.closed
    <3>1. x = [w EXCEPT !.at.held = TRUE]
      BY <1>5 DEF NewJSON
    <3> HIDE DEF x
    <3> QED
      BY <3>1, HeldAside
  <2>2. Option[s].append
    BY <1>5, SinkOptions
  <2> HIDE DEF x
  <2> QED
    BY <1>1, <1>5, <2>1, <2>2 DEF Roomy, AtEnd, x
<1> QED
  BY <1>2, <1>3, <1>4, <1>5, SinkOptions DEF Constructed, NewFileAppender

LEMMA AppendedKeeps ==
    ASSUME NEW s \in Sinks, NEW w \in Views, NEW e \in Nat, NEW formats \in BOOLEAN, NEW p,
           Roomy(s, w), ~w.at.closed, w.ok = TRUE,
           Option[s].kind = "json" => w.at.held,
           ~w.at.held => w.at.buffer = <<>>
    PROVE  LET x == Appended(s, w, e, formats)
           IN  /\ x \in Views /\ Roomy(s, x) /\ ~x.at.closed
               /\ ~x.at.held => x.at.buffer = <<>>
               /\ Option[s].kind \in {"file", "json"} /\ (x.ok \/ w.at.held) => x.at.held
               /\ w.at.held \/ ~Owns(s) => Grows(s, w, x)
               /\ Option[s].append => Extends(x.disk, w.disk)
               /\ x.at.held /\ (w.at.held => AtEnd(s, w)) => AtEnd(s, x)
               /\ x.ok /\ (w.at.held => AtEnd(s, w)) =>
                    /\ Kept(Stream(x), p, e)
                    /\ Buffered(s) /\ Option[s].flushOnWrite => x.at.buffer = <<>>
<1> DEFINE x == Appended(s, w, e, formats)
<1>1. ASSUME NEW ready \in Views, Roomy(s, ready), ~ready.at.closed,
             ready.ok => (Buffered(s) => ready.at.held)
      PROVE  LET y == AppendSynchronized(s, ready, e, formats)
             IN  /\ ~ready.ok => y = ready
                 /\ ready.ok => Continues(s, ready, y)
                 /\ y.ok => ready.ok
                 /\ y.ok /\ AtEnd(s, ready) => Kept(Stream(y), p, e)
                 /\ y.ok /\ Buffered(s) /\ Option[s].flushOnWrite => y.at.buffer = <<>>
  <2> DEFINE y == AppendSynchronized(s, ready, e, formats)
  <2>1. CASE ~ready.ok
    BY <2>1 DEF AppendSynchronized
  <2>2. CASE ready.ok /\ formats
    <3>1. y = Written(s, ready, e)
      BY <2>2 DEF AppendSynchronized
    <3> QED
      BY <1>1, <2>2, <3>1, WrittenKeeps
  <2>3. CASE ready.ok /\ ~formats
    <3> DEFINE v == Counted(s, ready)
    <3>1. y = [v EXCEPT !.ok = FALSE]
      BY <2>3 DEF AppendSynchronized
    <3>2. v \in Views /\ Roomy(s, v) /\ Continues(s, ready, v)
      <4>1. CASE Counts(s)
        <5>1. v = [ready EXCEPT !.at.count = ready.at.count + 1] /\ ready.at.count + 1 \in Nat
          BY <4>1, ViewFields DEF Counted
        <5> DEFINE k == ready.at.count + 1
        <5> HIDE DEF v, k
        <5>2. LET u == [ready EXCEPT !.at.count = k]
              IN  u \in Views /\ Roomy(s, u) /\ Continues(s, ready, u)
          <6>1. k \in Nat
            BY <5>1 DEF k
          <6> QED
            BY <1>1, <6>1, CountAside
        <5> QED
          BY <5>1, <5>2 DEF k
      <4>2. CASE ~Counts(s)
        <5>1. v = ready
          BY <4>2 DEF Counted
        <5> QED
          BY <1>1, <5>1, AsideContinues
      <4> QED
        BY <4>1, <4>2
    <3> HIDE DEF v, y
    <3>3. y.ok = FALSE /\ Continues(s, v, y)
      BY <3>1, <3>2, AnswerAside
    <3>4. Continues(s, ready, y)
      BY <3>2, <3>3, ContinuesFurther
    <3> QED
      BY <2>3, <3>3, <3>4 DEF y
  <2> QED
    BY <2>1, <2>2, <2>3
<1>2. w.disk \in Seq(DiskCell) /\ Option[s].kind \in {"file", "json", "writer", "console"}
  BY ViewFields, SinkOptions
<1>3. ASSUME Continues(s, w, x)
      PROVE  /\ x \in Views /\ Roomy(s, x) /\ ~x.at.closed
             /\ w.at.held => x.at.held
             /\ Grows(s, w, x)
             /\ Option[s].append => Extends(x.disk, w.disk)
             /\ AtEnd(s, w) => AtEnd(s, x)
  BY <1>3 DEF Continues, Grows, AtEnd
<1>4. CASE Option[s].kind = "file" /\ w.at.held
  <2>1. x = AppendSynchronized(s, w, e, formats)
    BY <1>4 DEF Appended, FileAppend
  <2>2. /\ Continues(s, w, x)
        /\ x.ok /\ AtEnd(s, w) => Kept(Stream(x), p, e)
        /\ x.ok /\ Buffered(s) /\ Option[s].flushOnWrite => x.at.buffer = <<>>
    BY <1>1, <1>4, <2>1
  <2> HIDE DEF x
  <2> QED
    BY <1>3, <1>4, <2>2 DEF Continues, x
<1>5. CASE Option[s].kind = "file" /\ ~w.at.held
  <2> DEFINE ready == OpenLocked(s, w)
  <2>1. x = AppendSynchronized(s, ready, e, formats)
    BY <1>5 DEF Appended, FileAppend
  <2>2. /\ ready \in Views /\ Roomy(s, ready) /\ ~ready.at.closed
        /\ ready.ok => ready.at.held /\ AtEnd(s, ready)
        /\ ~ready.ok => ~ready.at.held /\ ready.at.buffer = <<>>
        /\ Option[s].append => Extends(ready.disk, w.disk)
    BY <1>5, OpenLockedSettles
  <2> HIDE DEF ready
  <2>3. /\ ~ready.ok => x = ready
        /\ ready.ok => Continues(s, ready, x)
        /\ x.ok => ready.ok
        /\ x.ok /\ AtEnd(s, ready) => Kept(Stream(x), p, e)
        /\ x.ok /\ Buffered(s) /\ Option[s].flushOnWrite => x.at.buffer = <<>>
    BY <1>1, <2>1, <2>2
  <2> HIDE DEF x
  <2>4. CASE ~ready.ok
    <3>1. Owns(s)
      BY <1>5 DEF Owns
    <3> QED
      BY <1>5, <2>2, <2>3, <2>4, <3>1 DEF x
  <2>5. CASE ready.ok
    <3>1. x \in Views /\ Roomy(s, x) /\ ~x.at.closed /\ x.at.held /\ AtEnd(s, x) /\ Owns(s)
      BY <1>5, <2>2, <2>3, <2>5 DEF Continues, Grows, Owns
    <3>2. Option[s].append => Extends(x.disk, w.disk)
      <4>1. Extends(x.disk, ready.disk)
        BY <2>2, <2>3, <2>5 DEF Continues, Grows
      <4>2. x.disk \in Seq(DiskCell) /\ ready.disk \in Seq(DiskCell)
        BY <2>2, <3>1, ViewFields
      <4> QED
        BY <1>2, <2>2, <4>1, <4>2, ExtendsFurther
    <3> QED
      BY <1>5, <2>2, <2>3, <2>5, <3>1, <3>2 DEF x
  <2> QED
    BY <2>4, <2>5
<1>6. CASE Option[s].kind = "console"
  <2> DEFINE ready == EnsureStarted(s, w)
             first == WriteHeader(s, w)
  <2>1. x = AppendSynchronized(s, ready, e, formats)
    BY <1>6 DEF Appended, ConsoleAppend
  <2>2. ~Owns(s) /\ ~Buffered(s) /\ Option[s].append
    BY <1>6, SinkOptions DEF Buffered, Owns
  <2>3. ready \in Views /\ Roomy(s, ready) /\ Continues(s, w, ready)
    <3>1. CASE w.at.started
      <4>1. ready = [w EXCEPT !.ok = TRUE]
        BY <3>1 DEF EnsureStarted
      <4> HIDE DEF ready
      <4>2. Continues(s, w, ready)
        BY <4>1, AnswerAside
      <4> QED
        BY <4>2 DEF Continues, Grows
    <3>2. CASE ~w.at.started
      <4>1. ready = [first EXCEPT !.at.started = first.ok]
        BY <3>2 DEF EnsureStarted
      <4>2. Continues(s, w, first)
        BY <2>2, FrameContinues
      <4>3. first \in Views /\ Roomy(s, first)
        BY <4>2 DEF Continues, Grows
      <4> HIDE DEF first
      <4>4. /\ ready \in Views /\ ready.disk = first.disk /\ ready.at.buffer = first.at.buffer
            /\ ready.at.offset = first.at.offset /\ ready.at.held = first.at.held
            /\ ready.at.closed = first.at.closed
        <5>1. first.ok \in BOOLEAN
          BY <4>3 DEF Views
        <5> HIDE DEF ready
        <5> QED
          BY <4>1, <4>3, <5>1, StartedAside
      <4> HIDE DEF ready
      <4>5. Continues(s, first, ready)
        BY <4>3, <4>4, AsideContinues
      <4>6. Continues(s, w, ready)
        BY <4>2, <4>3, <4>5, ContinuesFurther
      <4> QED
        BY <4>4, <4>6 DEF Continues, Grows
    <3> QED
      BY <3>1, <3>2
  <2> HIDE DEF ready
  <2>4. ~ready.at.closed
    BY <2>3 DEF Continues
  <2>5. /\ ~ready.ok => x = ready
        /\ ready.ok => Continues(s, ready, x)
        /\ x.ok => ready.ok
        /\ x.ok /\ AtEnd(s, ready) => Kept(Stream(x), p, e)
    BY <1>1, <2>1, <2>2, <2>3, <2>4
  <2> HIDE DEF x
  <2>6. Continues(s, w, x)
    BY <2>3, <2>5, ContinuesFurther
  <2>7. AtEnd(s, ready) /\ AtEnd(s, w) /\ AtEnd(s, x)
    BY <2>2 DEF AtEnd
  <2>8. x.at.buffer = <<>>
    BY <2>2, <2>6 DEF Continues, Grows, Roomy
  <2> QED
    BY <1>3, <1>6, <2>2, <2>5, <2>6, <2>7, <2>8 DEF x
<1>7. CASE Option[s].kind \in {"json", "writer"}
  <2>1. x = Written(s, w, e)
    BY <1>7 DEF Appended
  <2>2. (Buffered(s) => w.at.held) /\ Option[s].append
    BY <1>7, SinkOptions DEF Buffered, Owns
  <2>3. /\ Continues(s, w, x)
        /\ x.ok /\ AtEnd(s, w) => Kept(Stream(x), p, e)
        /\ x.ok /\ Buffered(s) /\ Option[s].flushOnWrite => x.at.buffer = <<>>
    BY <2>1, <2>2, WrittenKeeps
  <2>4. AtEnd(s, w) /\ AtEnd(s, x)
    BY <2>2 DEF AtEnd
  <2>5. ~x.at.held => x.at.buffer = <<>>
    BY <1>7, <2>3, SinkOptions DEF Continues, Grows, Roomy, Buffered, Owns
  <2> HIDE DEF x
  <2> QED
    BY <1>3, <1>7, <2>2, <2>3, <2>4, <2>5 DEF Continues, x
<1> QED
  BY <1>2, <1>4, <1>5, <1>6, <1>7

LEMMA ClosedKeeps ==
    ASSUME NEW s \in Sinks, NEW w \in Views, Roomy(s, w), w.ok = TRUE
    PROVE  LET x == Closed(s, w)
           IN  /\ x \in Views /\ Roomy(s, x)
               /\ w.at.held \/ ~Owns(s) => Grows(s, w, x)
               /\ Option[s].append => Extends(x.disk, w.disk)
               /\ x.ok /\ Buffered(s) /\ w.at.held => x.at.buffer = <<>>
<1> DEFINE x == Closed(s, w)
<1>1. w.disk \in Seq(DiskCell) /\ Extends(w.disk, w.disk) /\ Continues(s, w, w)
  BY ViewFields, ExtendsItself, AsideContinues
<1>2. ASSUME Continues(s, w, x)
      PROVE  /\ x \in Views /\ Roomy(s, x) /\ Grows(s, w, x)
             /\ Option[s].append => Extends(x.disk, w.disk)
  BY <1>2 DEF Continues, Grows, AtEnd
<1>3. CASE Option[s].kind = "file"
  <2> DEFINE last == IF Started(s, w) THEN WriteFooter(s, w) ELSE w
             out == FlushWriter(s, last)
  <2>1. x = [out EXCEPT !.ok = last.ok /\ out.ok]
    BY <1>3 DEF Closed, FileClose
  <2>2. Continues(s, w, last)
    BY <1>1, <1>3, FrameContinues DEF Started
  <2>3. last \in Views /\ Roomy(s, last) /\ last.ok \in BOOLEAN /\ last.at.held = w.at.held
    BY <2>2, ViewFields DEF Continues, Grows
  <2> HIDE DEF last
  <2>4. Continues(s, last, out) /\ (out.ok /\ Buffered(s) /\ w.at.held => out.at.buffer = <<>>)
    BY <2>3, FlushContinues, FlushKeepsStream
  <2>5. out \in Views /\ Roomy(s, out) /\ out.ok \in BOOLEAN
    BY <2>4, ViewFields DEF Continues, Grows
  <2> HIDE DEF out, x
  <2>6. x.ok = (last.ok /\ out.ok) /\ x.at = out.at /\ Continues(s, out, x)
    BY <2>1, <2>3, <2>5, AnswerAside
  <2>7. Continues(s, w, x)
    BY <2>2, <2>3, <2>4, <2>5, <2>6, ContinuesFurther
  <2> QED
    BY <1>2, <2>4, <2>6, <2>7 DEF x
<1>4. CASE Option[s].kind = "console"
  <2>1. ~Buffered(s)
    BY <1>4 DEF Buffered, Owns
  <2>2. Continues(s, w, x)
    BY <1>1, <1>4, <2>1, FrameContinues DEF Closed, ConsoleClose
  <2> QED
    BY <1>2, <2>1, <2>2
<1>5. CASE Option[s].kind \in {"json", "writer"}
  <2>1. x = IF Owns(s) THEN FlushWriter(s, w) ELSE w
    BY <1>5 DEF Closed, JSONClose
  <2>2. Continues(s, w, x)
    BY <1>1, <2>1, FlushContinues
  <2>3. x.ok /\ Buffered(s) /\ w.at.held => x.at.buffer = <<>>
    BY <2>1, FlushKeepsStream, SinkOptions
  <2> QED
    BY <1>2, <2>2, <2>3
<1> QED
  BY <1>3, <1>4, <1>5, SinkOptions

-----------------------------------------------------------------------------
(* FileSink: what holds between the calls.                                 *)
Endings == {"open", "closed", "unused", "failed", "died"}

SinkTypes == /\ disk \in [Paths -> Seq(DiskCell)] /\ room \in Nat /\ events \in Nat
             /\ sink \in [Sinks -> Fields]
             /\ accepted \in [Sinks -> Seq(Nat)]
             /\ closing \in [Sinks -> Endings]
             /\ begun \in Seq(Sinks)

(* What is buffered is behind an open file; what an open sink accepted,    *)
(* too, and a sink alone on its path is at the end of it.                  *)
Session(s) ==
    /\ Buffered(s) => Len(sink[s].buffer) <= Option[s].buffer
    /\ ~Buffered(s) => sink[s].buffer = <<>>
    /\ ~sink[s].held => sink[s].buffer = <<>>
    /\ s \notin Begun => ~sink[s].held /\ ~sink[s].closed /\ accepted[s] = <<>>
    /\ s \in Begun => (sink[s].closed <=> closing[s] # "open")
    /\ s \in Begun /\ closing[s] = "open" =>
         /\ Option[s].kind = "json" => sink[s].held
         /\ Owns(s) /\ accepted[s] # <<>> => sink[s].held
         /\ sink[s].held /\ Option[s].path \notin Shared /\ ~Option[s].append =>
              sink[s].offset = Len(disk[Option[s].path])

(* A path that is not shared is left before the next sink comes.           *)
OneAtATime ==
    \A i, j \in DOMAIN begun :
      i < j /\ Option[begun[i]].path = Option[begun[j]].path
            /\ Option[begun[i]].path \notin Shared => closing[begun[i]] # "open"

EventsKept(s) ==
    LET p == Option[s].path
    IN  \A i \in DOMAIN accepted[s] :
          /\ Durable(s) => Kept(disk[p], p, accepted[s][i])
          /\ closing[s] = "open" => Kept(disk[p] \o sink[s].buffer, p, accepted[s][i])

SinkInv == /\ SinkTypes
           /\ \A s \in Sinks : Session(s)
           /\ OneAtATime
           /\ \A s \in Begun : ~Overwritten(s) => EventsKept(s)

LEMMA ViewNow ==
    ASSUME SinkInv, NEW s \in Sinks
    PROVE  /\ View(s) \in Views /\ Roomy(s, View(s)) /\ View(s).ok = TRUE
           /\ View(s).disk = disk[Option[s].path] /\ View(s).at = sink[s]
           /\ Stream(View(s)) = disk[Option[s].path] \o sink[s].buffer
<1>1. /\ disk[Option[s].path] \in Seq(DiskCell) /\ room \in Nat /\ sink[s] \in Fields
  BY SinkOptions DEF SinkInv, SinkTypes
<1>2. /\ View(s) \in Views /\ View(s).ok = TRUE
      /\ View(s).disk = disk[Option[s].path] /\ View(s).at = sink[s]
  BY <1>1 DEF View, Views
<1> HIDE DEF View
<1>3. Roomy(s, View(s))
  BY <1>2 DEF SinkInv, Session, Roomy
<1> QED
  BY <1>2, <1>3 DEF Stream

LEMMA KeepWrites ==
    ASSUME SinkTypes, NEW s \in Sinks, NEW x \in Views, Keep(s, x)
    PROVE  /\ disk' \in [Paths -> Seq(DiskCell)] /\ room' \in Nat /\ sink' \in [Sinks -> Fields]
           /\ disk'[Option[s].path] = x.disk /\ sink'[s] = x.at
           /\ \A q \in Paths : q # Option[s].path => disk'[q] = disk[q]
           /\ \A t \in Sinks : t # s => sink'[t] = sink[t]
<1>1. x.disk \in Seq(DiskCell) /\ x.room \in Nat /\ x.at \in Fields /\ Option[s].path \in Paths
  BY ViewFields, SinkOptions
<1>2. /\ disk' = [disk EXCEPT ![Option[s].path] = x.disk] /\ room' = x.room
      /\ sink' = [sink EXCEPT ![s] = x.at]
  BY DEF Keep
<1> QED
  BY <1>1, <1>2 DEF SinkTypes

LEMMA OverwrittenSince ==
    ASSUME SinkTypes, NEW t \in Sinks, Overwritten(t), begun' = begun,
           \A u \in Sinks \ Begun : closing'[u] = closing[u] \/ closing'[u] = "failed"
    PROVE  Overwritten(t)'
BY DEF Overwritten, Begun, Truncates

(* What one sink does to the file of another one leaves its events.        *)
LEMMA OthersKeep ==
    ASSUME SinkInv, NEW s \in Sinks, NEW x \in Views, Keep(s, x),
           NEW t \in Begun, t # s, closing'[t] = closing[t], accepted'[t] = accepted[t],
           ~Overwritten(t),
           Option[t].path = Option[s].path =>
             /\ Extends(x.disk, disk[Option[s].path])
             /\ Option[t].path \notin Shared => closing[t] # "open"
    PROVE  EventsKept(t)'
<1> DEFINE p == Option[t].path
<1>1. t \in Sinks /\ p \in Paths
  BY SinkOptions DEF SinkInv, SinkTypes, Begun, ToSet
<1>2. /\ disk[p] \in Seq(DiskCell) /\ sink[t].buffer \in Seq(DiskCell) /\ x.disk \in Seq(DiskCell)
      /\ sink'[t] = sink[t] /\ EventsKept(t)
  <2>1. sink[t] \in Fields /\ disk[p] \in Seq(DiskCell)
    BY <1>1 DEF SinkInv, SinkTypes
  <2>2. sink'[t] = sink[t]
    BY <1>1, KeepWrites DEF SinkInv
  <2> QED
    BY <2>1, <2>2, ViewFields DEF SinkInv, Fields
<1>3. Durable(t)' = Durable(t)
  BY DEF Durable
<1>4. CASE p # Option[s].path
  <2>1. disk'[p] = disk[p]
    BY <1>1, <1>4, KeepWrites DEF SinkInv
  <2> QED
    BY <1>2, <1>3, <2>1 DEF EventsKept
<1>5. CASE p = Option[s].path
  <2>1. disk'[p] = x.disk /\ Extends(x.disk, disk[p])
    BY <1>1, <1>5, KeepWrites DEF SinkInv
  <2>2. ASSUME NEW k \in DOMAIN accepted[t]
        PROVE  /\ Durable(t) => Kept(x.disk, p, accepted[t][k])
               /\ closing[t] = "open" => Kept(x.disk \o sink[t].buffer, p, accepted[t][k])
    <3>1. Durable(t) => Kept(x.disk, p, accepted[t][k])
      BY <1>2, <2>1, KeptExtends DEF EventsKept
    <3>2. CASE closing[t] = "open"
      <4>1. p \in Shared /\ Kept(disk[p] \o sink[t].buffer, p, accepted[t][k])
        BY <1>2, <1>5, <3>2 DEF EventsKept
      <4> QED
        BY <1>2, <2>1, <3>1, <4>1, KeptAround
    <3> QED
      BY <3>1, <3>2
  <2> QED
    BY <1>2, <1>3, <2>1, <2>2 DEF EventsKept
<1> QED
  BY <1>4, <1>5

(* A call on an open sink: what it must leave behind is enough.            *)
LEMMA CallKeeps ==
    ASSUME SinkInv, NEW s \in Begun, closing[s] = "open", NEW x \in Views, Keep(s, x),
           NEW c \in Endings, NEW a \in Seq(Nat), events' \in Nat,
           closing' = [closing EXCEPT ![s] = c], accepted' = [accepted EXCEPT ![s] = a],
           begun' = begun,
           Roomy(s, x), ~x.at.held => x.at.buffer = <<>>, x.at.closed <=> c # "open",
           Option[s].append => Extends(x.disk, disk[Option[s].path]),
           c = "open" => /\ Option[s].kind = "json" => x.at.held
                         /\ Owns(s) /\ a # <<>> => x.at.held
                         /\ x.at.held /\ Option[s].path \notin Shared => AtEnd(s, x),
           ~Overwritten(s) =>
             \A i \in DOMAIN a :
               /\ ~Buffered(s) \/ Option[s].flushOnWrite \/ c = "closed" =>
                    Kept(x.disk, Option[s].path, a[i])
               /\ c = "open" => Kept(Stream(x), Option[s].path, a[i])
    PROVE  SinkInv'
<1>1. s \in Sinks /\ begun \in Seq(Sinks) /\ Begun \subseteq Sinks /\ Begun' = Begun
  BY DEF SinkInv, SinkTypes, Begun, ToSet
<1>2. /\ disk' \in [Paths -> Seq(DiskCell)] /\ room' \in Nat /\ sink' \in [Sinks -> Fields]
      /\ disk'[Option[s].path] = x.disk /\ sink'[s] = x.at
      /\ \A q \in Paths : q # Option[s].path => disk'[q] = disk[q]
      /\ \A t \in Sinks : t # s => sink'[t] = sink[t]
  BY <1>1, KeepWrites DEF SinkInv
<1>3. /\ accepted' \in [Sinks -> Seq(Nat)] /\ closing' \in [Sinks -> Endings]
      /\ accepted'[s] = a /\ closing'[s] = c
      /\ \A t \in Sinks : t # s => accepted'[t] = accepted[t] /\ closing'[t] = closing[t]
  BY <1>1 DEF SinkInv, SinkTypes
<1>4. SinkTypes'
  BY <1>1, <1>2, <1>3 DEF SinkTypes
<1>5. ASSUME NEW t \in Sinks PROVE Session(t)'
  <2>1. CASE t = s
    BY <1>1, <1>2, <1>3, <2>1 DEF Session, Roomy, AtEnd
  <2>2. CASE t # s
    <3>1. sink'[t] = sink[t] /\ accepted'[t] = accepted[t] /\ closing'[t] = closing[t]
      BY <1>2, <1>3, <2>2
    <3>2. Session(t)
      BY DEF SinkInv
    <3>3. ASSUME t \in Begun, closing[t] = "open", sink[t].held,
                 Option[t].path \notin Shared, ~Option[t].append
          PROVE  sink[t].offset = Len(disk'[Option[t].path])
      <4>1. Option[t].path # Option[s].path
        <5>1. PICK i \in DOMAIN begun, j \in DOMAIN begun : begun[i] = s /\ begun[j] = t
          BY <3>3 DEF Begun, ToSet
        <5>2. i \in Int /\ j \in Int /\ i # j
          <6>1. DOMAIN begun \subseteq Int
            BY <1>1
          <6> QED
            BY <2>2, <5>1, <6>1
        <5> QED
          BY <3>3, <5>1, <5>2 DEF SinkInv, OneAtATime
      <4>2. disk'[Option[t].path] = disk[Option[t].path]
        BY <1>2, <4>1, SinkOptions
      <4> QED
        BY <3>2, <3>3, <4>2 DEF Session
    <3> QED
      BY <1>1, <3>1, <3>2, <3>3 DEF Session
  <2> QED
    BY <2>1, <2>2
<1>6. OneAtATime'
  <2>1. \A t \in Sinks : closing[t] # "open" => closing'[t] # "open"
    BY <1>3
  <2>2. \A i \in DOMAIN begun : begun[i] \in Sinks
    BY <1>1
  <2> QED
    BY <2>1, <2>2 DEF SinkInv, OneAtATime
<1>7. ASSUME NEW t \in Begun, ~Overwritten(t)' PROVE EventsKept(t)'
  <2>1. ~Overwritten(t)
    <3>1. \A u \in Sinks \ Begun : closing'[u] = closing[u]
      BY <1>3
    <3> QED
      BY <1>1, <1>7, <3>1, OverwrittenSince DEF SinkInv
  <2>2. CASE t = s
    BY <1>2, <1>3, <2>1, <2>2 DEF EventsKept, Durable, Stream
  <2>3. CASE t # s
    <3>1. PICK i \in DOMAIN begun, j \in DOMAIN begun : begun[i] = s /\ begun[j] = t
      BY <1>7 DEF Begun, ToSet
    <3>2. i \in Int /\ j \in Int /\ i # j
      <4>1. DOMAIN begun \subseteq Int
        BY <1>1
      <4> QED
        BY <2>3, <3>1, <4>1
    <3>3. ASSUME Option[t].path = Option[s].path
          PROVE  /\ Extends(x.disk, disk[Option[s].path])
                 /\ Option[t].path \notin Shared => closing[t] # "open"
      <4>1. Option[t].path \notin Shared => closing[t] # "open" /\ j < i
        BY <3>1, <3>2, <3>3 DEF SinkInv, OneAtATime
      <4>2. Option[s].append
        BY <1>1, <2>1, <3>1, <3>3, <4>1 DEF Overwritten, Truncates
      <4> QED
        BY <4>1, <4>2
    <3> QED
      BY <1>1, <1>3, <2>1, <2>3, <3>3, OthersKeep
  <2> QED
    BY <2>2, <2>3
<1> QED
  BY <1>1, <1>4, <1>5, <1>6, <1>7 DEF SinkInv

LEMMA AppendKeeps ==
    ASSUME SinkInv, NEW s \in Sinks, NEW formats \in BOOLEAN, AppendEvent(s, formats)
    PROVE  SinkInv'
<1> DEFINE e == events + 1
           w == View(s)
           x == Appended(s, w, e, formats)
           p == Option[s].path
           a == IF x.ok THEN Append(accepted[s], e) ELSE accepted[s]
<1>1. /\ s \in Begun /\ ~sink[s].closed /\ Keep(s, x) /\ events' = e
      /\ accepted' = IF x.ok THEN [accepted EXCEPT ![s] = Append(@, e)] ELSE accepted
      /\ closing' = closing /\ begun' = begun
  BY DEF AppendEvent
<1>2. /\ events \in Nat /\ e \in Nat /\ accepted[s] \in Seq(Nat) /\ closing[s] \in Endings
      /\ accepted = [accepted EXCEPT ![s] = accepted[s]]
      /\ closing = [closing EXCEPT ![s] = closing[s]]
  BY DEF SinkInv, SinkTypes
<1>3. closing[s] = "open" /\ Session(s)
  BY <1>1 DEF SinkInv, Session
<1>4. /\ w \in Views /\ Roomy(s, w) /\ w.ok = TRUE /\ w.disk = disk[p] /\ w.at = sink[s]
      /\ Stream(w) = disk[p] \o sink[s].buffer
  BY ViewNow
<1> HIDE DEF w, e
<1>5. /\ ~w.at.closed /\ (Option[s].kind = "json" => w.at.held)
      /\ ~w.at.held => w.at.buffer = <<>>
      /\ p \notin Shared /\ w.at.held => AtEnd(s, w)
  BY <1>1, <1>3, <1>4 DEF Session, AtEnd
<1>6. /\ x \in Views /\ Roomy(s, x) /\ ~x.at.closed
      /\ ~x.at.held => x.at.buffer = <<>>
      /\ Option[s].kind \in {"file", "json"} /\ (x.ok \/ w.at.held) => x.at.held
      /\ w.at.held \/ ~Owns(s) => Grows(s, w, x)
      /\ Option[s].append => Extends(x.disk, w.disk)
      /\ x.at.held /\ (w.at.held => AtEnd(s, w)) => AtEnd(s, x)
      /\ x.ok /\ (w.at.held => AtEnd(s, w)) =>
           /\ Kept(Stream(x), p, e)
           /\ Buffered(s) /\ Option[s].flushOnWrite => x.at.buffer = <<>>
  <2>1. /\ w \in Views /\ Roomy(s, w) /\ ~w.at.closed /\ w.ok = TRUE
        /\ Option[s].kind = "json" => w.at.held
        /\ ~w.at.held => w.at.buffer = <<>>
        /\ e \in Nat
    BY <1>2, <1>4, <1>5
  <2> HIDE DEF p
  <2> QED
    BY <2>1, AppendedKeeps
<1> HIDE DEF x
<1>7. a \in Seq(Nat) /\ accepted' = [accepted EXCEPT ![s] = a]
  <2>1. CASE x.ok
    BY <1>1, <1>2, <2>1
  <2>2. CASE ~x.ok
    BY <1>1, <1>2, <2>2
  <2> QED
    BY <2>1, <2>2
<1>8. Owns(s) /\ a # <<>> => x.at.held
  <2>1. Owns(s) => Option[s].kind \in {"file", "json"}
    BY DEF Owns
  <2>2. ~x.ok => a = accepted[s]
    OBVIOUS
  <2> QED
    BY <1>1, <1>3, <1>4, <1>6, <2>1, <2>2 DEF Session
<1>9. ASSUME ~Overwritten(s), NEW i \in DOMAIN a
      PROVE  /\ Kept(Stream(x), p, a[i])
             /\ ~Buffered(s) \/ Option[s].flushOnWrite => Kept(x.disk, p, a[i])
  <2>1. EventsKept(s)
    BY <1>1, <1>9 DEF SinkInv
  <2>2. AtEnd(s, w) \/ p \notin Shared
    BY <1>9 DEF Overwritten, Truncates, AtEnd
  <2>3. w.at.held => AtEnd(s, w)
    BY <1>5, <2>2
  <2>4. /\ Stream(x) \in Seq(DiskCell) /\ x.disk \in Seq(DiskCell)
        /\ Stream(w) \in Seq(DiskCell) /\ w.disk \in Seq(DiskCell)
        /\ x.at.buffer = <<>> => Stream(x) = x.disk
    <3>1. /\ Stream(x) \in Seq(DiskCell) /\ x.disk \in Seq(DiskCell)
          /\ Stream(w) \in Seq(DiskCell) /\ w.disk \in Seq(DiskCell)
      BY <1>4, <1>6, ViewFields
    <3>2. x.disk \o <<>> = x.disk
      BY <3>1, CellsAlone
    <3> QED
      BY <3>1, <3>2 DEF Stream
  <2>5. CASE x.ok /\ i = Len(accepted[s]) + 1
    <3>1. a[i] = e
      BY <1>2, <2>5
    <3>2. Kept(Stream(x), p, e)
      BY <1>6, <2>3, <2>5
    <3>3. ~Buffered(s) \/ Option[s].flushOnWrite => x.at.buffer = <<>>
      BY <1>6, <2>3, <2>5, SinkOptions DEF Roomy
    <3> QED
      BY <2>4, <3>1, <3>2, <3>3
  <2>6. CASE ~(x.ok /\ i = Len(accepted[s]) + 1)
    <3>1. i \in DOMAIN accepted[s] /\ a[i] = accepted[s][i]
      BY <1>2, <2>6
    <3>2. Kept(Stream(w), p, a[i])
      BY <1>3, <1>4, <2>1, <3>1 DEF EventsKept
    <3>3. ~Buffered(s) \/ Option[s].flushOnWrite => Kept(w.disk, p, a[i])
      BY <1>4, <2>1, <3>1 DEF EventsKept, Durable
    <3>4. w.at.held \/ ~Owns(s)
      BY <1>3, <1>4, <3>1 DEF Session
    <3>5. AtEnd(s, w)
      BY <2>3, <3>4, SinkOptions DEF AtEnd, Owns
    <3>6. Extends(x.disk, w.disk) /\ Extends(Stream(x), Stream(w))
      BY <1>6, <3>4, <3>5 DEF Grows
    <3> QED
      BY <2>4, <3>2, <3>3, <3>6, KeptExtends
  <2> QED
    BY <2>5, <2>6
<1> HIDE DEF a
<1>10. x.at.held /\ p \notin Shared => AtEnd(s, x)
  BY <1>5, <1>6
<1>11. /\ "open" \in Endings /\ closing' = [closing EXCEPT ![s] = "open"]
       /\ x.at.closed <=> "open" # "open"
       /\ Option[s].append => Extends(x.disk, disk[p])
       /\ events' \in Nat
       /\ Option[s].kind = "json" => x.at.held
  BY <1>1, <1>2, <1>3, <1>4, <1>5, <1>6 DEF Endings
<1> QED
  BY <1>1, <1>3, <1>6, <1>7, <1>8, <1>9, <1>10, <1>11, CallKeeps

LEMMA FlushKeeps ==
    ASSUME SinkInv, NEW s \in Sinks, FlushSink(s)
    PROVE  SinkInv'
<1> DEFINE w == View(s)
           x == FlushWriter(s, w)
           p == Option[s].path
           a == accepted[s]
<1>1. /\ s \in Begun /\ ~sink[s].closed /\ Owns(s) /\ Keep(s, x) /\ events' = events
      /\ accepted' = accepted /\ closing' = closing /\ begun' = begun
  BY DEF FlushSink
<1>2. closing[s] = "open" /\ Session(s)
  BY <1>1 DEF SinkInv, Session
<1>3. /\ events \in Nat /\ a \in Seq(Nat) /\ "open" \in Endings
      /\ accepted' = [accepted EXCEPT ![s] = a] /\ closing' = [closing EXCEPT ![s] = "open"]
  BY <1>1, <1>2 DEF SinkInv, SinkTypes, Endings
<1>4. /\ w \in Views /\ Roomy(s, w) /\ w.ok = TRUE /\ w.disk = disk[p] /\ w.at = sink[s]
      /\ Stream(w) = disk[p] \o sink[s].buffer
  BY ViewNow
<1> HIDE DEF w
<1>5. /\ Grows(s, w, x) /\ x.at.held = w.at.held /\ x.at.closed = w.at.closed
      /\ Len(x.at.buffer) <= Len(w.at.buffer)
  BY <1>4, FlushContinues, FlushKeepsStream DEF Continues
<1> HIDE DEF x
<1>6. x \in Views /\ Roomy(s, x)
  BY <1>5 DEF Grows
<1>7. /\ Stream(x) \in Seq(DiskCell) /\ x.disk \in Seq(DiskCell) /\ x.at.buffer \in Seq(DiskCell)
      /\ Stream(w) \in Seq(DiskCell) /\ w.disk \in Seq(DiskCell)
  BY <1>4, <1>6, ViewFields
<1>8. ~x.at.held => x.at.buffer = <<>>
  <2>1. ~x.at.held => w.at.buffer = <<>>
    BY <1>2, <1>4, <1>5 DEF Session
  <2> QED
    BY <1>5, <1>7, <2>1
<1>9. w.at.held /\ p \notin Shared => AtEnd(s, w)
  BY <1>1, <1>2, <1>4 DEF Session, AtEnd
<1>10. ASSUME ~Overwritten(s), NEW i \in DOMAIN a
       PROVE  /\ ~Buffered(s) \/ Option[s].flushOnWrite => Kept(x.disk, p, a[i])
              /\ Kept(Stream(x), p, a[i])
  <2>1. EventsKept(s)
    BY <1>1, <1>10 DEF SinkInv
  <2>2. w.at.held
    BY <1>1, <1>2, <1>4, <1>10 DEF Session
  <2>3. AtEnd(s, w)
    BY <1>9, <1>10, <2>2 DEF Overwritten, Truncates, AtEnd
  <2>4. Kept(Stream(w), p, a[i])
    BY <1>2, <1>4, <2>1 DEF EventsKept
  <2>5. ~Buffered(s) \/ Option[s].flushOnWrite => Kept(w.disk, p, a[i])
    BY <1>4, <2>1 DEF EventsKept, Durable
  <2>6. Extends(x.disk, w.disk) /\ Extends(Stream(x), Stream(w))
    BY <1>5, <2>3 DEF Grows
  <2> QED
    BY <1>7, <2>4, <2>5, <2>6, KeptExtends
<1>11. /\ x.at.closed <=> "open" # "open"
       /\ Option[s].append => Extends(x.disk, disk[p])
       /\ events' \in Nat
       /\ Option[s].kind = "json" => x.at.held
       /\ Owns(s) /\ a # <<>> => x.at.held
       /\ x.at.held /\ p \notin Shared => AtEnd(s, x)
  BY <1>1, <1>2, <1>3, <1>4, <1>5, <1>9 DEF Session, Grows, AtEnd
<1> HIDE DEF a
<1> QED
  BY <1>1, <1>2, <1>3, <1>6, <1>8, <1>10, <1>11, CallKeeps

LEMMA CloseKeeps ==
    ASSUME SinkInv, NEW s \in Sinks, CloseSink(s)
    PROVE  SinkInv'
<1> DEFINE w == View(s)
           x == Closed(s, w)
           gone == IF Owns(s) THEN NoFile ELSE x.at
           y == [x EXCEPT !.at = [gone EXCEPT !.closed = TRUE]]
           how == IF ~x.ok THEN "failed" ELSE IF Started(s, w) THEN "closed" ELSE "unused"
           p == Option[s].path
           a == accepted[s]
<1>1. /\ s \in Begun /\ ~sink[s].closed /\ Keep(s, y) /\ events' = events
      /\ accepted' = accepted /\ closing' = [closing EXCEPT ![s] = how] /\ begun' = begun
  BY DEF CloseSink
<1>2. closing[s] = "open" /\ Session(s)
  BY <1>1 DEF SinkInv, Session
<1>3. /\ events' \in Nat /\ a \in Seq(Nat) /\ accepted' = [accepted EXCEPT ![s] = a]
  BY <1>1 DEF SinkInv, SinkTypes
<1>4. /\ w \in Views /\ Roomy(s, w) /\ w.ok = TRUE /\ w.disk = disk[p] /\ w.at = sink[s]
      /\ Stream(w) = disk[p] \o sink[s].buffer
  BY ViewNow
<1> HIDE DEF w
<1>5. /\ x \in Views /\ Roomy(s, x)
      /\ w.at.held \/ ~Owns(s) => Grows(s, w, x)
      /\ Option[s].append => Extends(x.disk, w.disk)
      /\ x.ok /\ Buffered(s) /\ w.at.held => x.at.buffer = <<>>
  BY <1>4, ClosedKeeps
<1> HIDE DEF x
<1>6. how \in Endings /\ how # "open" /\ (how = "closed" => x.ok)
  BY DEF Endings
<1>7. /\ gone \in Fields /\ (Owns(s) => gone.buffer = <<>>)
      /\ (~Owns(s) => gone.buffer = x.at.buffer /\ x.at.buffer = <<>>)
  <2>1. x.at \in Fields
    BY <1>5, ViewFields
  <2> QED
    BY <1>5, <2>1, NoFileFields DEF Roomy, Buffered
<1> HIDE DEF how, gone
<1>8. /\ y \in Views /\ y.disk = x.disk /\ y.at.closed = TRUE /\ y.at.buffer = <<>>
  BY <1>5, <1>7 DEF Views, Fields
<1>9. Roomy(s, y)
  BY <1>8, SinkOptions DEF Roomy
<1>10. /\ Stream(x) \in Seq(DiskCell) /\ x.disk \in Seq(DiskCell)
       /\ Stream(w) \in Seq(DiskCell) /\ w.disk \in Seq(DiskCell)
       /\ x.at.buffer = <<>> => Stream(x) = x.disk
  <2>1. /\ Stream(x) \in Seq(DiskCell) /\ x.disk \in Seq(DiskCell)
        /\ Stream(w) \in Seq(DiskCell) /\ w.disk \in Seq(DiskCell)
    BY <1>4, <1>5, ViewFields
  <2>2. x.disk \o <<>> = x.disk
    BY <2>1, CellsAlone
  <2> QED
    BY <2>1, <2>2 DEF Stream
<1>11. ASSUME ~Overwritten(s), NEW i \in DOMAIN a,
              ~Buffered(s) \/ Option[s].flushOnWrite \/ how = "closed"
       PROVE  Kept(y.disk, p, a[i])
  <2>1. EventsKept(s)
    BY <1>1, <1>11 DEF SinkInv
  <2>2. w.at.held \/ ~Owns(s)
    BY <1>2, <1>4, <1>11 DEF Session
  <2>3. AtEnd(s, w)
    <3>1. CASE Option[s].append
      BY <3>1 DEF AtEnd
    <3>2. CASE ~Option[s].append
      <4>1. Option[s].kind = "file" /\ p \notin Shared
        BY <1>11, <3>2, SinkOptions DEF Overwritten, Truncates
      <4>2. w.at.held
        BY <2>2, <4>1 DEF Owns
      <4> QED
        BY <1>1, <1>2, <1>4, <3>2, <4>1, <4>2 DEF Session, AtEnd
    <3> QED
      BY <3>1, <3>2
  <2>4. Extends(x.disk, w.disk) /\ Extends(Stream(x), Stream(w))
    BY <1>5, <2>2, <2>3 DEF Grows
  <2>5. Kept(Stream(x), p, a[i])
    <3>1. Kept(Stream(w), p, a[i])
      BY <1>2, <1>4, <2>1 DEF EventsKept
    <3> QED
      BY <1>10, <2>4, <3>1, KeptExtends
  <2>6. CASE ~Buffered(s) \/ Option[s].flushOnWrite
    <3>1. Kept(w.disk, p, a[i])
      BY <1>4, <2>1, <2>6 DEF EventsKept, Durable
    <3> QED
      BY <1>8, <1>10, <2>4, <3>1, KeptExtends
  <2>7. CASE Buffered(s) /\ how = "closed"
    <3>1. x.at.buffer = <<>>
      BY <1>5, <1>6, <2>2, <2>7 DEF Buffered
    <3> QED
      BY <1>8, <1>10, <2>5, <3>1
  <2> QED
    BY <1>11, <2>6, <2>7, SinkOptions
<1>12. Option[s].append => Extends(y.disk, disk[p])
  BY <1>4, <1>5, <1>8
<1> HIDE DEF y, a
<1> QED
  BY <1>1, <1>2, <1>3, <1>6, <1>8, <1>9, <1>11, <1>12, CallKeeps

LEMMA NewSinkKeeps ==
    ASSUME SinkInv, NEW s \in Sinks, NewSink(s)
    PROVE  SinkInv'
<1> DEFINE w == View(s)
           x == Constructed(s, w)
           p == Option[s].path
           c == IF x.ok THEN "open" ELSE "failed"
<1>1. /\ s \notin Begun /\ Keep(s, x) /\ events' = events /\ accepted' = accepted
      /\ p \notin Shared => \A t \in Begun : Option[t].path = p => closing[t] # "open"
      /\ begun' = IF x.ok THEN Append(begun, s) ELSE begun
      /\ closing' = [closing EXCEPT ![s] = c]
  BY DEF NewSink
<1>2. /\ begun \in Seq(Sinks) /\ Begun \subseteq Sinks /\ Len(begun) \in Nat
      /\ DOMAIN begun = 1..Len(begun) /\ \A i \in DOMAIN begun : begun[i] \in Begun
      /\ \A t \in Begun : \E i \in DOMAIN begun : begun[i] = t
  BY DEF SinkInv, SinkTypes, Begun, ToSet
<1>3. ~sink[s].held /\ ~sink[s].closed /\ accepted[s] = <<>> /\ sink[s].buffer = <<>>
  BY <1>1 DEF SinkInv, Session
<1>4. /\ w \in Views /\ Roomy(s, w) /\ w.ok = TRUE /\ w.disk = disk[p] /\ w.at = sink[s]
  BY ViewNow
<1> HIDE DEF w
<1>5. /\ x \in Views /\ Roomy(s, x) /\ ~x.at.closed
      /\ x.at.held => AtEnd(s, x)
      /\ ~x.at.held => x.at.buffer = <<>>
      /\ ~x.ok => ~x.at.held
      /\ x.ok /\ Option[s].kind = "json" => x.at.held
      /\ Option[s].append => Extends(x.disk, disk[p])
  BY <1>3, <1>4, ConstructedSettles
<1> HIDE DEF x
<1>6. /\ disk' \in [Paths -> Seq(DiskCell)] /\ room' \in Nat /\ sink' \in [Sinks -> Fields]
      /\ disk'[p] = x.disk /\ sink'[s] = x.at
      /\ \A q \in Paths : q # p => disk'[q] = disk[q]
      /\ \A t \in Sinks : t # s => sink'[t] = sink[t]
  BY <1>1, <1>5, KeepWrites DEF SinkInv
<1>7. c \in Endings /\ (c = "open" <=> x.ok) /\ (c = "failed" <=> ~x.ok)
  BY DEF Endings
<1> HIDE DEF c
<1>8. /\ closing' \in [Sinks -> Endings] /\ closing'[s] = c
      /\ \A t \in Sinks : t # s => closing'[t] = closing[t]
      /\ accepted' \in [Sinks -> Seq(Nat)]
  BY <1>1, <1>7 DEF SinkInv, SinkTypes
<1>9. /\ begun' \in Seq(Sinks) /\ Begun' = IF x.ok THEN Begun \cup {s} ELSE Begun
      /\ \A i \in DOMAIN begun : i \in DOMAIN begun' /\ begun'[i] = begun[i]
      /\ x.ok => Len(begun) + 1 \in DOMAIN begun' /\ begun'[Len(begun) + 1] = s
      /\ \A i \in DOMAIN begun' : i \in DOMAIN begun \/ (x.ok /\ i = Len(begun) + 1)
  <2>1. CASE x.ok
    <3>1. begun' = Append(begun, s)
      BY <1>1, <2>1
    <3>2. /\ begun' \in Seq(Sinks) /\ DOMAIN begun' = 1..(Len(begun) + 1)
          /\ \A i \in 1..Len(begun) : begun'[i] = begun[i]
          /\ begun'[Len(begun) + 1] = s
      BY <1>2, <3>1
    <3>3. Begun' = Begun \cup {s}
      BY <1>2, <3>2 DEF Begun, ToSet
    <3> QED
      BY <1>2, <2>1, <3>2, <3>3
  <2>2. CASE ~x.ok
    BY <1>1, <1>2, <2>2 DEF Begun
  <2> QED
    BY <2>1, <2>2
<1>10. SinkTypes'
  BY <1>1, <1>6, <1>8, <1>9 DEF SinkInv, SinkTypes
<1>11. ASSUME NEW t \in Sinks PROVE Session(t)'
  <2>1. CASE t = s
    <3>1. accepted'[s] = <<>>
      BY <1>1, <1>3
    <3>2. s \in Begun' <=> x.ok
      BY <1>1, <1>9
    <3> QED
      BY <1>5, <1>6, <1>7, <1>8, <2>1, <3>1, <3>2 DEF Session, Roomy, AtEnd
  <2>2. CASE t # s
    <3>1. /\ sink'[t] = sink[t] /\ accepted'[t] = accepted[t] /\ closing'[t] = closing[t]
          /\ t \in Begun' <=> t \in Begun
      BY <1>1, <1>6, <1>8, <1>9, <2>2
    <3>2. Session(t)
      BY DEF SinkInv
    <3>3. ASSUME t \in Begun, closing[t] = "open", Option[t].path \notin Shared
          PROVE  disk'[Option[t].path] = disk[Option[t].path]
      BY <1>1, <1>6, <3>3, SinkOptions
    <3> QED
      BY <3>1, <3>2, <3>3 DEF Session
  <2> QED
    BY <2>1, <2>2
<1>12. OneAtATime'
  <2> SUFFICES ASSUME NEW i \in DOMAIN begun', NEW j \in DOMAIN begun', i < j,
                      Option[begun'[i]].path = Option[begun'[j]].path,
                      Option[begun'[i]].path \notin Shared
               PROVE  closing'[begun'[i]] # "open"
    BY DEF OneAtATime
  <2>1. i \in DOMAIN begun /\ begun'[i] = begun[i]
    <3>1. DOMAIN begun' = 1..Len(begun')
      BY <1>9
    <3>2. ASSUME x.ok PROVE Len(begun') = Len(begun) + 1
      BY <1>1, <1>2, <3>2
    <3>3. i \in 1..Len(begun') /\ j \in 1..Len(begun') /\ Len(begun') \in Nat
      BY <1>9, <3>1
    <3>4. Len(begun') <= Len(begun) + 1
      <4>1. ~x.ok => begun' = begun
        BY <1>1
      <4> QED
        BY <1>2, <3>2, <4>1
    <3>5. i \in 1..Len(begun)
      BY <1>2, <3>1, <3>3, <3>4
    <3> QED
      BY <1>2, <1>9, <3>5
  <2>2. begun[i] \in Begun /\ begun[i] # s /\ closing'[begun[i]] = closing[begun[i]]
    BY <1>1, <1>2, <1>8, <2>1
  <2>3. CASE j \in DOMAIN begun
    BY <1>9, <2>1, <2>2, <2>3 DEF SinkInv, OneAtATime
  <2>4. CASE j \notin DOMAIN begun
    <3>1. begun'[j] = s
      BY <1>9, <2>4
    <3> QED
      BY <1>1, <2>1, <2>2, <3>1
  <2> QED
    BY <2>3, <2>4
<1>13. ASSUME NEW t \in Begun', ~Overwritten(t)' PROVE EventsKept(t)'
  <2>1. CASE t = s
    <3>1. accepted'[s] = <<>>
      BY <1>1, <1>3
    <3> QED
      BY <2>1, <3>1 DEF EventsKept
  <2>2. CASE t # s
    <3>1. t \in Begun /\ t \in Sinks
      BY <1>2, <1>9, <2>2
    <3>2. PICK i \in DOMAIN begun : begun[i] = t
      BY <1>2, <3>1
    <3>3. ~Truncates(s, Option[t].path)
      <4>1. ASSUME x.ok PROVE i < Len(begun) + 1
        BY <1>2, <3>2
      <4>2. ASSUME Truncates(s, Option[t].path), x.ok PROVE Overwritten(t)'
        <5>1. /\ i \in DOMAIN begun' /\ Len(begun) + 1 \in DOMAIN begun'
              /\ i < Len(begun) + 1 /\ begun'[i] = t /\ begun'[Len(begun) + 1] = s
          BY <1>9, <3>2, <4>1, <4>2
        <5> QED
          BY <4>2, <5>1 DEF Overwritten
      <4>3. ASSUME Truncates(s, Option[t].path), ~x.ok PROVE Overwritten(t)'
        <5>1. s \notin Begun' /\ closing'[s] = "failed"
          BY <1>1, <1>7, <1>8, <1>9, <4>3
        <5> QED
          BY <4>3, <5>1 DEF Overwritten
      <4> QED
        BY <1>13, <4>2, <4>3
    <3>4. ~Overwritten(t)
      <4>1. ASSUME NEW k \in DOMAIN begun, NEW j \in DOMAIN begun,
                   k < j, begun[k] = t, Truncates(begun[j], Option[t].path)
            PROVE  Overwritten(t)'
        BY <1>9, <4>1 DEF Overwritten
      <4>2. ASSUME NEW u \in Sinks \ Begun, closing[u] = "failed",
                   Truncates(u, Option[t].path)
            PROVE  Overwritten(t)'
        <5>1. u # s
          BY <3>3, <4>2
        <5>2. u \in Sinks \ Begun' /\ closing'[u] = "failed"
          BY <1>8, <1>9, <4>2, <5>1
        <5> QED
          BY <4>2, <5>2 DEF Overwritten
      <4>3. ASSUME Option[t].path \in Shared, NEW u \in Sinks, Truncates(u, Option[t].path)
            PROVE  Overwritten(t)'
        BY <4>3 DEF Overwritten
      <4> QED
        BY <1>13, <4>1, <4>2, <4>3 DEF Overwritten
    <3>5. ASSUME Option[t].path = p
          PROVE  /\ Extends(x.disk, disk[p])
                 /\ Option[t].path \notin Shared => closing[t] # "open"
      BY <1>1, <1>5, <3>1, <3>3, <3>5, SinkOptions DEF Truncates
    <3>6. closing'[t] = closing[t] /\ accepted'[t] = accepted[t]
      BY <1>1, <1>8, <2>2, <3>1
    <3> QED
      BY <1>1, <1>5, <2>2, <3>1, <3>4, <3>5, <3>6, OthersKeep
  <2> QED
    BY <2>1, <2>2
<1> QED
  BY <1>10, <1>11, <1>12, <1>13 DEF SinkInv

(* A step that leaves the files, the sinks and their list alone.           *)
LEMMA WorldKeeps ==
    ASSUME SinkInv, room' \in Nat,
           UNCHANGED <<disk, sink, accepted, closing, begun, events>>
    PROVE  SinkInv'
<1>1. SinkTypes' /\ Begun' = Begun /\ OneAtATime'
  BY DEF SinkInv, SinkTypes, OneAtATime, Begun
<1>2. ASSUME NEW t \in Sinks PROVE Session(t)'
  BY <1>1 DEF SinkInv, Session
<1>3. ASSUME NEW t \in Begun PROVE /\ Overwritten(t)' <=> Overwritten(t)
                                   /\ EventsKept(t)' <=> EventsKept(t)
  BY <1>1 DEF Overwritten, EventsKept, Durable
<1> QED
  BY <1>1, <1>2, <1>3 DEF SinkInv

(* Death loses what is buffered: an event it had to keep is on disk.       *)
LEMMA DeathKeeps ==
    ASSUME SinkInv, ProcessDies
    PROVE  SinkInv'
<1> DEFINE lost == {s \in Begun : closing[s] = "open"}
           dead == [NoFile EXCEPT !.closed = TRUE]
<1>1. /\ sink' = [s \in Sinks |-> IF s \in lost THEN dead ELSE sink[s]]
      /\ closing' = [s \in Sinks |-> IF s \in lost THEN "died" ELSE closing[s]]
      /\ UNCHANGED <<disk, room, accepted, begun, events>>
  BY DEF ProcessDies
<1>2. dead \in Fields /\ dead.held = FALSE /\ dead.closed = TRUE /\ dead.buffer = <<>>
  BY NoFileFields DEF Fields
<1> HIDE DEF dead
<1>3. Begun' = Begun /\ Begun \subseteq Sinks /\ \A i \in DOMAIN begun : begun[i] \in Begun
  BY <1>1 DEF SinkInv, SinkTypes, Begun, ToSet
<1>4. /\ sink' \in [Sinks -> Fields] /\ closing' \in [Sinks -> Endings]
      /\ \A s \in Sinks : /\ s \in lost => sink'[s] = dead /\ closing'[s] = "died"
                          /\ s \notin lost => sink'[s] = sink[s] /\ closing'[s] = closing[s]
      /\ \A s \in Begun : closing'[s] # "open"
  <2>1. "died" \in Endings /\ "died" # "open"
    BY DEF Endings
  <2>2. sink \in [Sinks -> Fields] /\ closing \in [Sinks -> Endings]
    BY DEF SinkInv, SinkTypes
  <2> QED
    BY <1>1, <1>2, <1>3, <2>1, <2>2
<1>5. SinkTypes'
  BY <1>1, <1>4 DEF SinkInv, SinkTypes
<1>6. ASSUME NEW t \in Sinks PROVE Session(t)'
  <2>1. Session(t) /\ accepted'[t] = accepted[t] /\ Option[t].buffer \in Nat
    BY <1>1, SinkOptions DEF SinkInv
  <2>2. CASE t \in lost
    BY <1>2, <1>3, <1>4, <2>1, <2>2 DEF Session
  <2>3. CASE t \notin lost
    BY <1>3, <1>4, <2>1, <2>3 DEF Session
  <2> QED
    BY <2>2, <2>3
<1>7. OneAtATime'
  BY <1>1, <1>3, <1>4 DEF OneAtATime
<1>8. ASSUME NEW t \in Begun, ~Overwritten(t)' PROVE EventsKept(t)'
  <2>1. ~Overwritten(t)
    <3>1. \A u \in Sinks \ Begun : closing'[u] = closing[u]
      BY <1>4
    <3> QED
      BY <1>1, <1>3, <1>8, <3>1, OverwrittenSince DEF SinkInv
  <2>2. EventsKept(t)
    BY <2>1 DEF SinkInv
  <2>3. Durable(t)' => Durable(t)
    BY <1>3, <1>4 DEF Durable
  <2> QED
    BY <1>1, <1>3, <1>4, <2>2, <2>3 DEF EventsKept
<1> QED
  BY <1>3, <1>5, <1>6, <1>7, <1>8 DEF SinkInv

LEMMA SinksBegin == SinkInit => SinkInv
<1> SUFFICES ASSUME SinkInit PROVE SinkInv
  OBVIOUS
<1>1. Begun = {}
  BY DEF SinkInit, Begun, ToSet
<1>2. "open" \in Endings /\ <<>> \in Seq(DiskCell) /\ <<>> \in Seq(Nat) /\ <<>> \in Seq(Sinks)
  BY DEF Endings
<1>3. SinkTypes
  BY <1>2, NoFileFields, SinkAssumption DEF SinkInit, SinkTypes
<1>4. ASSUME NEW s \in Sinks PROVE Session(s)
  <2>1. sink[s] = NoFile /\ accepted[s] = <<>> /\ Option[s].buffer \in Nat
    BY SinkOptions DEF SinkInit
  <2>2. Len(<<>>) <= Option[s].buffer
    BY <2>1
  <2> QED
    BY <1>1, <2>1, <2>2, NoFileFields DEF Session
<1>5. OneAtATime
  BY DEF SinkInit, OneAtATime
<1> QED
  BY <1>1, <1>3, <1>4, <1>5 DEF SinkInv

LEMMA SinkStepKeeps == SinkInv /\ [SinkNext]_sinkVars => SinkInv'
<1> SUFFICES ASSUME SinkInv, [SinkNext]_sinkVars PROVE SinkInv'
  OBVIOUS
<1>1. ASSUME NEW s \in Sinks, NewSink(s) PROVE SinkInv'
  BY <1>1, NewSinkKeeps
<1>2. ASSUME NEW s \in Sinks, FlushSink(s) PROVE SinkInv'
  BY <1>2, FlushKeeps
<1>3. ASSUME NEW s \in Sinks, CloseSink(s) PROVE SinkInv'
  BY <1>3, CloseKeeps
<1>4. ASSUME NEW s \in Sinks, NEW formats \in BOOLEAN, AppendEvent(s, formats) PROVE SinkInv'
  BY <1>4, AppendKeeps
<1>5. ASSUME NEW n \in 0..2, DiskFills(n) PROVE SinkInv'
  BY <1>5, WorldKeeps DEF DiskFills
<1>6. ASSUME DiskFreed PROVE SinkInv'
  BY <1>6, WorldKeeps, SinkAssumption DEF DiskFreed
<1>7. ASSUME ProcessDies PROVE SinkInv'
  BY <1>7, DeathKeeps
<1>8. ASSUME UNCHANGED sinkVars PROVE SinkInv'
  BY <1>8, WorldKeeps DEF sinkVars, SinkInv, SinkTypes
<1> QED
  BY <1>1, <1>2, <1>3, <1>4, <1>5, <1>6, <1>7, <1>8 DEF SinkNext

(* An event whose Append answered nil is on disk, in one piece unless the  *)
(* path is shared: at once where nothing is buffered or flushOnWrite is    *)
(* set, after a Close that answered nil everywhere else, whatever the disk *)
(* did meanwhile, until a sink truncates the file; for any sinks, paths,   *)
(* buffer sizes and options (internal/fileappender/appender.go,            *)
(* console.go, internal/jsonappender/appender.go).                         *)
THEOREM AcceptedEventsAreKept == SinkSpec => []AcceptedIsKept
<1>1. SinkInv => AcceptedIsKept
  <2> SUFFICES ASSUME SinkInv, NEW s \in Begun, Durable(s), ~Overwritten(s),
                      NEW i \in DOMAIN accepted[s]
               PROVE  OnDisk(Option[s].path, accepted[s][i])
    BY DEF AcceptedIsKept
  <2>1. Kept(disk[Option[s].path], Option[s].path, accepted[s][i])
    BY DEF SinkInv, EventsKept
  <2>2. s \in Sinks
    BY DEF SinkInv, SinkTypes, Begun, ToSet
  <2>3. disk[Option[s].path] \in Seq(DiskCell)
    BY <2>2, SinkOptions DEF SinkInv, SinkTypes
  <2> QED
    BY <2>1, <2>3, CellsLength DEF OnDisk, Kept
<1> QED
  BY <1>1, SinksBegin, SinkStepKeeps, PTL DEF SinkSpec

-----------------------------------------------------------------------------
(* Lists of cells, one behind the other.                                   *)
LEMMA FlattenedCells ==
    ASSUME NEW seqs \in Seq(Seq(DiskCell))
    PROVE  FlattenSeq(seqs) \in Seq(DiskCell)
BY FlattenSeqs

LEMMA FlattenedAppend ==
    ASSUME NEW seqs \in Seq(Seq(DiskCell)), NEW cells \in Seq(DiskCell)
    PROVE  FlattenSeq(Append(seqs, cells)) = FlattenSeq(seqs) \o cells
BY FlattenAppend

LEMMA FlattenedOne ==
    ASSUME NEW seqs \in Seq(Seq(DiskCell)), NEW k \in DOMAIN seqs,
           \A i \in DOMAIN seqs : i # k => seqs[i] = <<>>
    PROVE  FlattenSeq(seqs) = seqs[k]
BY FlattenOne

LEMMA FlattenedNone ==
    ASSUME NEW seqs \in Seq(Seq(DiskCell)), \A i \in DOMAIN seqs : seqs[i] = <<>>
    PROVE  FlattenSeq(seqs) = <<>>
BY FlattenNone

(* While the disk is not filling up and no write has failed, none does.    *)
Whole(w) == w.room = Plenty /\ ~w.at.broken

LEMMA WholeOsWrite ==
    ASSUME NEW s \in Sinks, NEW w \in Views, NEW cells \in Seq(DiskCell),
           Whole(w), Len(cells) <= Plenty
    PROVE  Whole(OsWrite(s, w, cells)) /\ OsWrite(s, w, cells).ok = TRUE
<1> DEFINE o == OsWrite(s, w, cells)
           n == Taken(w, cells)
<1>1. Plenty \in Nat /\ Len(cells) \in Nat
  BY SinkAssumption
<1>2. n = Len(cells)
  BY <1>1, SmallerOfTwo DEF Taken, Whole
<1>3. o.at.broken = w.at.broken /\ o.ok = (n = Len(cells))
  BY OsWriteAppends
<1>4. o.room = Plenty
  BY DEF OsWrite, Whole, Views
<1> HIDE DEF o, n
<1> QED
  BY <1>2, <1>3, <1>4 DEF Whole, o

LEMMA WholeDirect ==
    ASSUME NEW s \in Sinks, NEW w \in Views, NEW cells \in Seq(DiskCell),
           Whole(w), Len(cells) <= Plenty
    PROVE  Whole(Direct(s, w, cells)) /\ Direct(s, w, cells).ok = TRUE
<1> DEFINE o == OsWrite(s, w, cells)
           d == Direct(s, w, cells)
<1>1. o \in Views /\ Whole(o) /\ o.ok = TRUE
  BY OsWriteAppends, WholeOsWrite
<1>2. d = [o EXCEPT !.at.broken = ~o.ok]
  BY DEF Direct
<1> HIDE DEF o, d
<1>3. d.room = o.room /\ d.ok = o.ok /\ d.at.broken = FALSE
  BY <1>1, <1>2 DEF Views, Fields
<1> QED
  BY <1>1, <1>3 DEF Whole, d

LEMMA WholeFlush ==
    ASSUME NEW s \in Sinks, NEW w \in Views, Roomy(s, w), Whole(w)
    PROVE  Whole(FlushWriter(s, w)) /\ FlushWriter(s, w).ok = TRUE
<1> DEFINE f == FlushWriter(s, w)
           b == w.at.buffer
           o == OsWrite(s, w, b)
<1>1. b \in Seq(DiskCell) /\ Len(b) \in Nat /\ w.at.broken = FALSE /\ w.at \in Fields
  BY ViewFields DEF Whole
<1>2. CASE ~Buffered(s) \/ ~w.at.held \/ b = <<>>
  <2>1. f = [w EXCEPT !.ok = TRUE]
    BY <1>1, <1>2 DEF FlushWriter
  <2> HIDE DEF f
  <2>2. f.room = w.room /\ f.at = w.at /\ f.ok = TRUE
    BY <2>1 DEF Views
  <2> QED
    BY <2>2 DEF Whole, f
<1>3. CASE Buffered(s) /\ w.at.held /\ b # <<>>
  <2>1. Len(b) <= Plenty
    <3>1. Len(b) <= Option[s].buffer /\ Option[s].buffer \in 0..Plenty /\ Plenty \in Nat
      BY <1>3, SinkAssumption DEF Roomy
    <3> QED
      BY <1>1, <3>1
  <2>2. o \in Views /\ Whole(o) /\ o.ok = TRUE
    <3>1. o \in Views
      BY <1>1, OsWriteAppends
    <3>2. Whole(o) /\ o.ok = TRUE
      BY <1>1, <2>1, WholeOsWrite
    <3> QED
      BY <3>1, <3>2
  <2>3. f = [o EXCEPT !.at.buffer = SubSeq(@, Taken(w, @) + 1, Len(@)), !.at.broken = ~o.ok]
    BY <1>1, <1>3 DEF FlushWriter
  <2> HIDE DEF f, o
  <2>4. f.room = o.room /\ f.ok = o.ok /\ f.at.broken = FALSE
    BY <2>2, <2>3 DEF Views, Fields
  <2> QED
    BY <2>2, <2>4 DEF Whole, f
<1> QED
  BY <1>2, <1>3

LEMMA WholeWrite ==
    ASSUME NEW s \in Sinks, NEW w \in Views, NEW cells \in Seq(DiskCell),
           Roomy(s, w), Buffered(s) => w.at.held, Whole(w), Len(cells) <= 3
    PROVE  Whole(Write(s, w, cells)) /\ Write(s, w, cells).ok = TRUE
<1> DEFINE x == Write(s, w, cells)
           b == w.at.buffer
           free == Option[s].buffer - Len(b)
           first == SubSeq(cells, 1, free)
           rest == SubSeq(cells, free + 1, Len(cells))
           fill == [w EXCEPT !.at.buffer = @ \o first]
           full == FlushWriter(s, fill)
<1>1. /\ b \in Seq(DiskCell) /\ Len(b) \in Nat /\ Len(cells) \in Nat
      /\ w.at \in Fields /\ w.at.broken = FALSE
      /\ Plenty \in Nat /\ Len(cells) <= Plenty
      /\ Option[s].buffer \in Nat /\ Buffered(s) \in BOOLEAN
  BY SinkAssumption, SinkOptions, ViewFields DEF Whole
<1>2. CASE cells = <<>>
  <2>1. x = [w EXCEPT !.ok = TRUE]
    BY <1>2 DEF Write
  <2> HIDE DEF x
  <2>2. x.room = w.room /\ x.at = w.at /\ x.ok = TRUE
    BY <2>1 DEF Views
  <2> QED
    BY <2>2 DEF Whole, x
<1>3. CASE cells # <<>> /\ ~Buffered(s)
  <2>1. x = OsWrite(s, w, cells)
    BY <1>3 DEF Write
  <2> QED
    BY <1>1, <2>1, WholeOsWrite
<1>4. CASE cells # <<>> /\ Buffered(s)
  <2>1. x = BufWrite(s, w, cells) /\ free \in Nat /\ Len(b) <= Option[s].buffer
    BY <1>1, <1>4 DEF Write, Roomy
  <2>2. CASE Len(cells) <= free
    <3>1. x = [w EXCEPT !.at.buffer = @ \o cells, !.ok = TRUE]
      BY <1>1, <2>1, <2>2 DEF BufWrite
    <3> HIDE DEF x
    <3>2. x.room = w.room /\ x.at.broken = w.at.broken /\ x.ok = TRUE
      BY <3>1 DEF Views, Fields
    <3> QED
      BY <3>2 DEF Whole, x
  <2>3. CASE ~(Len(cells) <= free) /\ b = <<>>
    <3>1. x = Direct(s, w, cells)
      BY <1>1, <2>1, <2>3 DEF BufWrite
    <3> QED
      BY <1>1, <3>1, WholeDirect
  <2>4. CASE ~(Len(cells) <= free) /\ b # <<>>
    <3>1. free \in 0..Len(cells)
      BY <1>1, <2>1, <2>4
    <3>2. /\ first \in Seq(DiskCell) /\ Len(first) = free /\ rest \in Seq(DiskCell)
          /\ Len(rest) <= Len(cells)
      <4>1. Len(rest) = Len(cells) - free
        BY <3>1, SplitCells
      <4> HIDE DEF rest, free
      <4>2. Len(rest) <= Len(cells)
        BY <1>1, <3>1, <4>1
      <4> QED
        BY <3>1, <4>2, SplitCells DEF rest, first
    <3>3. x = IF ~full.ok THEN full
              ELSE IF Len(rest) > Option[s].buffer THEN Direct(s, full, rest)
              ELSE [full EXCEPT !.at.buffer = rest]
      BY <1>1, <2>1, <2>4 DEF BufWrite
    <3>4. /\ b \o first \in Seq(DiskCell) /\ Len(b \o first) = Option[s].buffer
      <4>1. b \o first \in Seq(DiskCell) /\ Len(b \o first) = Len(b) + Len(first)
        BY <1>1, <3>2, CellsTogether
      <4> HIDE DEF first
      <4> QED
        BY <1>1, <2>1, <3>2, <4>1
    <3> HIDE DEF first, rest, free
    <3>5. /\ fill \in Views /\ fill.at.buffer = b \o first /\ fill.room = w.room
          /\ fill.at.broken = w.at.broken /\ fill.at.held = w.at.held
      BY <1>1, <3>4 DEF Views, Fields
    <3> HIDE DEF fill
    <3>6. Roomy(s, fill) /\ Whole(fill)
      BY <1>1, <1>4, <3>4, <3>5 DEF Roomy, Whole
    <3>7. Whole(full) /\ full.ok = TRUE /\ full \in Views
      BY <3>5, <3>6, WholeFlush, FlushKeepsStream
    <3> HIDE DEF full
    <3>8. CASE Len(rest) > Option[s].buffer
      <4>1. x = Direct(s, full, rest) /\ Len(rest) <= Plenty
        BY <1>1, <3>2, <3>3, <3>7, <3>8
      <4> QED
        BY <3>2, <3>7, <4>1, WholeDirect
    <3>9. CASE ~(Len(rest) > Option[s].buffer)
      <4>1. x = [full EXCEPT !.at.buffer = rest]
        BY <3>3, <3>7, <3>9
      <4> HIDE DEF x
      <4>2. x.room = full.room /\ x.ok = full.ok /\ x.at.broken = full.at.broken
        BY <3>7, <4>1 DEF Views, Fields
      <4> QED
        BY <3>7, <4>2 DEF Whole, x
    <3> QED
      BY <3>8, <3>9
  <2> QED
    BY <2>2, <2>3, <2>4
<1> QED
  BY <1>1, <1>2, <1>3, <1>4

(* What a write changes beside the stream.                                 *)
LEMMA CountBeside ==
    ASSUME NEW s \in Sinks, NEW w \in Views, NEW k \in Nat, Roomy(s, w)
    PROVE  LET v == [w EXCEPT !.at.count = k]
           IN  /\ v \in Views /\ Roomy(s, v) /\ Stream(v) = Stream(w) /\ v.disk = w.disk
               /\ v.at.count = k /\ v.at.held = w.at.held /\ v.at.started = w.at.started
               /\ v.at.closed = w.at.closed /\ v.ok = w.ok
               /\ Whole(w) => Whole(v)
               /\ AtEnd(s, w) => AtEnd(s, v)
<1> DEFINE v == [w EXCEPT !.at.count = k]
<1>1. /\ v \in Views /\ v.disk = w.disk /\ v.at.buffer = w.at.buffer
      /\ v.at.count = k /\ v.at.held = w.at.held /\ v.at.started = w.at.started
      /\ v.at.closed = w.at.closed /\ v.ok = w.ok
      /\ v.room = w.room /\ v.at.broken = w.at.broken /\ v.at.offset = w.at.offset
  BY DEF Views, Fields
<1> HIDE DEF v
<1> QED
  BY <1>1 DEF Roomy, Stream, Whole, AtEnd, v

LEMMA FormatCells ==
    ASSUME NEW s \in Sinks, NEW w \in Views, NEW e \in Nat
    PROVE  Format(s, w, e) \in Seq(DiskCell) /\ Len(Format(s, w, e)) <= 3
<1> DEFINE between == IF Counts(s) /\ w.at.count > 0 THEN <<Separator>> ELSE <<>>
<1>1. /\ <<>> \in Seq(DiskCell) /\ <<Separator>> \in Seq(DiskCell) /\ Halves(e) \in Seq(DiskCell)
      /\ Len(<<Separator>>) = 1 /\ Len(<<>>) = 0 /\ Len(Halves(e)) = 2
  BY EventCells
<1>2. between \in Seq(DiskCell) /\ Len(between) <= 1 /\ Len(between) \in Nat
  BY <1>1
<1> HIDE DEF between
<1>3. \A a, b \in Seq(DiskCell) :
        Len(b) = 2 /\ Len(a) <= 1 => a \o b \in Seq(DiskCell) /\ Len(a \o b) <= 3
  <2> TAKE a, b \in Seq(DiskCell)
  <2>1. a \o b \in Seq(DiskCell) /\ Len(a \o b) = Len(a) + Len(b) /\ Len(a) \in Nat
    OBVIOUS
  <2>2. \A n, m, k \in Nat : m = n + k /\ k = 2 /\ n <= 1 => m <= 3
    OBVIOUS
  <2>3. Len(a \o b) \in Nat /\ Len(b) \in Nat
    OBVIOUS
  <2> QED
    BY <2>1, <2>2, <2>3
<1>4. between \o Halves(e) \in Seq(DiskCell) /\ Len(between \o Halves(e)) <= 3
  BY <1>1, <1>2, <1>3
<1> QED
  BY <1>4 DEF Format, between

LEMMA WrittenAdds ==
    ASSUME NEW s \in Sinks, NEW w \in Views, NEW e \in Nat,
           Roomy(s, w), Buffered(s) => w.at.held, AtEnd(s, w)
    PROVE  LET x == Written(s, w, e)
               cells == Format(s, w, e)
           IN  /\ x \in Views /\ Roomy(s, x) /\ AtEnd(s, x)
               /\ Extends(Stream(x), Stream(w)) /\ Only(Stream(x), Stream(w), cells)
               /\ x.ok => Stream(x) = Stream(w) \o cells
               /\ Whole(w) => Whole(x) /\ x.ok = TRUE
               /\ x.at.held = w.at.held /\ x.at.started = w.at.started
               /\ x.at.closed = w.at.closed
               /\ Counts(s) => x.at.count = w.at.count + 1
<1> DEFINE v == Counted(s, w)
           cells == Format(s, w, e)
           wrote == Write(s, v, cells)
           out == FlushWriter(s, wrote)
           x == Written(s, w, e)
<1>1. cells \in Seq(DiskCell) /\ Len(cells) <= 3
  BY FormatCells
<1>2. /\ v \in Views /\ Roomy(s, v) /\ Stream(v) = Stream(w) /\ AtEnd(s, v)
      /\ v.at.held = w.at.held /\ v.at.started = w.at.started /\ v.at.closed = w.at.closed
      /\ Whole(w) => Whole(v)
      /\ Counts(s) => v.at.count = w.at.count + 1
  <2>1. CASE Counts(s)
    <3> DEFINE k == w.at.count + 1
    <3>1. v = [w EXCEPT !.at.count = k] /\ k \in Nat
      BY <2>1, ViewFields DEF Counted
    <3> HIDE DEF k, v
    <3>2. LET u == [w EXCEPT !.at.count = k]
          IN  /\ u \in Views /\ Roomy(s, u) /\ Stream(u) = Stream(w) /\ u.disk = w.disk
              /\ u.at.count = k /\ u.at.held = w.at.held /\ u.at.started = w.at.started
              /\ u.at.closed = w.at.closed /\ u.ok = w.ok
              /\ Whole(w) => Whole(u)
              /\ AtEnd(s, w) => AtEnd(s, u)
      BY <3>1, CountBeside
    <3> QED
      BY <3>1, <3>2 DEF k
  <2>2. CASE ~Counts(s)
    <3>1. v = w
      BY <2>2 DEF Counted
    <3> QED
      BY <2>2, <3>1
  <2> QED
    BY <2>1, <2>2
<1>3. x = IF wrote.ok /\ Option[s].flushOnWrite THEN out ELSE wrote
  BY DEF Written
<1> HIDE DEF v, cells, x
<1>4. Adds(s, v, wrote, cells) /\ (Whole(w) => Whole(wrote) /\ wrote.ok = TRUE)
  BY <1>1, <1>2, WriteAdds, WholeWrite
<1> HIDE DEF wrote
<1>5. /\ wrote \in Views /\ Roomy(s, wrote) /\ AtEnd(s, wrote)
      /\ Extends(Stream(wrote), Stream(w)) /\ Only(Stream(wrote), Stream(w), cells)
      /\ wrote.ok => Stream(wrote) = Stream(w) \o cells
      /\ SameSession(v, wrote)
  BY <1>2, <1>4 DEF Adds, Grows
<1>6. /\ out \in Views /\ SameSession(wrote, out) /\ AtEnd(s, out) /\ Stream(out) = Stream(wrote)
      /\ Roomy(s, out)
      /\ Whole(wrote) => Whole(out) /\ out.ok = TRUE
  <2>1. /\ out \in Views /\ SameSession(wrote, out) /\ AtEnd(s, out)
        /\ Stream(out) = Stream(wrote)
    BY <1>5, FlushKeepsStream
  <2>2. Roomy(s, out)
    BY <1>5, FlushGrows DEF Grows
  <2>3. Whole(wrote) => Whole(out) /\ out.ok = TRUE
    BY <1>5, WholeFlush
  <2> QED
    BY <2>1, <2>2, <2>3
<1> HIDE DEF out
<1>7. CASE wrote.ok /\ Option[s].flushOnWrite
  BY <1>2, <1>3, <1>4, <1>5, <1>6, <1>7 DEF SameSession, x, cells
<1>8. CASE ~(wrote.ok /\ Option[s].flushOnWrite)
  BY <1>2, <1>3, <1>4, <1>5, <1>8 DEF SameSession, x, cells
<1> QED
  BY <1>7, <1>8

(* The header and the footer of a layout that has them.                    *)
Head1(s) == IF Framed(s) THEN <<Header>> ELSE <<>>
Foot1(s) == IF Framed(s) THEN <<Footer>> ELSE <<>>

LEMMA FrameCells ==
    ASSUME NEW s \in Sinks
    PROVE  /\ Head1(s) \in Seq(DiskCell) /\ Foot1(s) \in Seq(DiskCell)
           /\ Len(Head1(s)) <= 1 /\ Len(Foot1(s)) <= 1
<1>1. /\ <<>> \in Seq(DiskCell) /\ <<Header>> \in Seq(DiskCell) /\ <<Footer>> \in Seq(DiskCell)
      /\ Len(<<Header>>) = 1 /\ Len(<<Footer>>) = 1 /\ Len(<<>>) = 0
  BY EventCells
<1> QED
  BY <1>1 DEF Head1, Foot1

LEMMA FrameAdds ==
    ASSUME NEW s \in Sinks, NEW w \in Views,
           Roomy(s, w), Buffered(s) => w.at.held, AtEnd(s, w)
    PROVE  /\ LET x == WriteHeader(s, w)
              IN  /\ x \in Views /\ Roomy(s, x) /\ AtEnd(s, x)
                  /\ Extends(Stream(x), Stream(w)) /\ Only(Stream(x), Stream(w), Head1(s))
                  /\ x.ok => Stream(x) = Stream(w) \o Head1(s)
                  /\ Whole(w) => Whole(x) /\ x.ok = TRUE
                  /\ x.at.held = w.at.held /\ x.at.started = w.at.started
                  /\ x.at.closed = w.at.closed /\ x.at.count = 0
           /\ LET x == WriteFooter(s, w)
              IN  /\ x \in Views /\ Roomy(s, x) /\ AtEnd(s, x)
                  /\ Extends(Stream(x), Stream(w)) /\ Only(Stream(x), Stream(w), Foot1(s))
                  /\ x.ok => Stream(x) = Stream(w) \o Foot1(s)
                  /\ Whole(w) => Whole(x) /\ x.ok = TRUE
                  /\ x.at.held = w.at.held /\ x.at.started = w.at.started
                  /\ x.at.closed = w.at.closed
<1> DEFINE v == [w EXCEPT !.at.count = 0]
           head == WriteHeader(s, w)
           foot == WriteFooter(s, w)
<1>1. /\ v \in Views /\ Roomy(s, v) /\ Stream(v) = Stream(w) /\ AtEnd(s, v)
      /\ v.at.count = 0 /\ v.at.held = w.at.held /\ v.at.started = w.at.started
      /\ v.at.closed = w.at.closed
      /\ Whole(w) => Whole(v)
  BY CountBeside
<1>2. /\ Head1(s) \in Seq(DiskCell) /\ Foot1(s) \in Seq(DiskCell)
      /\ Len(Head1(s)) <= 3 /\ Len(Foot1(s)) <= 3
  <2>1. \A n \in Nat : n <= 1 => n <= 3
    OBVIOUS
  <2> QED
    BY <2>1, FrameCells, CellsLength
<1>3. head = Write(s, v, Head1(s)) /\ foot = Write(s, w, Foot1(s))
  BY DEF WriteHeader, WriteFooter, Head1, Foot1
<1> HIDE DEF v, head, foot
<1>4. /\ Adds(s, v, head, Head1(s)) /\ (Whole(v) => Whole(head) /\ head.ok = TRUE)
      /\ Adds(s, w, foot, Foot1(s)) /\ (Whole(w) => Whole(foot) /\ foot.ok = TRUE)
  BY <1>1, <1>2, <1>3, WriteAdds, WholeWrite
<1>5. /\ head \in Views /\ Roomy(s, head) /\ AtEnd(s, head)
      /\ Extends(Stream(head), Stream(w)) /\ Only(Stream(head), Stream(w), Head1(s))
      /\ head.ok => Stream(head) = Stream(w) \o Head1(s)
      /\ SameSession(v, head)
  BY <1>1, <1>4 DEF Adds, Grows
<1>6. /\ foot \in Views /\ Roomy(s, foot) /\ AtEnd(s, foot)
      /\ Extends(Stream(foot), Stream(w)) /\ Only(Stream(foot), Stream(w), Foot1(s))
      /\ foot.ok => Stream(foot) = Stream(w) \o Foot1(s)
      /\ SameSession(w, foot)
  BY <1>4 DEF Adds, Grows
<1> QED
  BY <1>1, <1>4, <1>5, <1>6 DEF SameSession, head, foot

LEMMA OpenedFields ==
    ASSUME NEW s \in Sinks, NEW w \in Views, Roomy(s, w), ~w.at.closed, w.at.buffer = <<>>
    PROVE  LET x == OpenWithOptions(s, w)
               base == IF Option[s].append THEN w.disk ELSE <<>>
           IN  /\ x \in Views /\ Roomy(s, x) /\ AtEnd(s, x) /\ x.ok = TRUE
               /\ x.at.held = TRUE /\ ~x.at.closed /\ x.at.buffer = <<>>
               /\ x.at.started = w.at.started /\ x.at.count = w.at.count
               /\ base \in Seq(DiskCell) /\ x.disk = base /\ Stream(x) = base
               /\ Whole(w) => Whole(x)
<1> DEFINE x == OpenWithOptions(s, w)
           base == IF Option[s].append THEN w.disk ELSE <<>>
           at == [w.at EXCEPT !.held = TRUE, !.offset = 0]
<1>1. base \in Seq(DiskCell) /\ w.disk \in Seq(DiskCell) /\ w.at \in Fields
  BY ViewFields
<1>2. /\ at \in Fields /\ at.held = TRUE /\ at.offset = 0 /\ at.closed = w.at.closed
      /\ at.buffer = w.at.buffer /\ at.started = w.at.started /\ at.count = w.at.count
      /\ at.broken = w.at.broken
  BY <1>1 DEF Fields
<1>3. x = [w EXCEPT !.disk = base, !.at = at, !.ok = TRUE]
  BY DEF OpenWithOptions
<1> HIDE DEF x, at, base
<1>4. x.disk = base /\ x.ok = TRUE /\ x.room = w.room /\ x.at = at
  BY <1>3 DEF Views
<1>5. x \in Views /\ Roomy(s, x) /\ AtEnd(s, x)
  BY OpenSettles DEF x
<1>6. Stream(x) = base
  <2>1. base \o <<>> = base
    BY <1>1, CellsAlone
  <2> QED
    BY <1>2, <1>4, <2>1 DEF Stream
<1> QED
  BY <1>1, <1>2, <1>4, <1>5, <1>6 DEF Whole, x, base

(* openLocked: what the file had or nothing, and a header behind nothing.  *)
LEMMA OpenLockedTells ==
    ASSUME NEW s \in Sinks, NEW w \in Views, Roomy(s, w), ~w.at.closed, w.at.buffer = <<>>
    PROVE  LET x == OpenLocked(s, w)
               base == IF Option[s].append THEN w.disk ELSE <<>>
               head == IF base = <<>> THEN Head1(s) ELSE <<>>
           IN  /\ x.ok => /\ x.at.held = TRUE /\ AtEnd(s, x) /\ Stream(x) = base \o head
                          /\ x.at.started = w.at.started
                          /\ w.at.count = 0 => x.at.count = 0
               /\ ~x.ok => x.at.buffer = <<>> /\ Len(x.disk) <= 1
               /\ Whole(w) => Whole(x) /\ x.ok = TRUE
<1> DEFINE base == IF Option[s].append THEN w.disk ELSE <<>>
           ready == OpenWithOptions(s, w)
           first == WriteHeader(s, ready)
           out == FlushWriter(s, first)
           x == OpenLocked(s, w)
<1>1. /\ ready \in Views /\ Roomy(s, ready) /\ AtEnd(s, ready) /\ ready.ok = TRUE
      /\ ready.at.held = TRUE /\ ~ready.at.closed /\ ready.at.buffer = <<>>
      /\ ready.at.started = w.at.started /\ ready.at.count = w.at.count
      /\ base \in Seq(DiskCell) /\ ready.disk = base /\ Stream(ready) = base
      /\ Whole(w) => Whole(ready)
  BY OpenedFields
<1>2. x = CASE ~NeedsHeader(s, ready) -> ready
            [] NeedsHeader(s, ready) /\ first.ok -> first
            [] OTHER -> [out EXCEPT !.at = [NoFile EXCEPT !.count = first.at.count],
                                    !.ok = FALSE]
  BY DEF OpenLocked
<1> HIDE DEF ready, base
<1>3. /\ first \in Views /\ Roomy(s, first) /\ AtEnd(s, first)
      /\ Only(Stream(first), Stream(ready), Head1(s))
      /\ first.ok => Stream(first) = Stream(ready) \o Head1(s)
      /\ Whole(ready) => Whole(first) /\ first.ok = TRUE
      /\ first.at.held = ready.at.held /\ first.at.started = ready.at.started
      /\ first.at.count = 0
  BY <1>1, FrameAdds
<1> HIDE DEF first
<1>4. out \in Views /\ Stream(out) = Stream(first)
  BY <1>3, FlushKeepsStream
<1> HIDE DEF out, x
<1>5. (~NeedsHeader(s, ready) <=> base # <<>>) /\ first.ok \in BOOLEAN
  BY <1>1, <1>3, ViewFields DEF NeedsHeader
<1>6. CASE base # <<>>
  <2>1. x = ready /\ base \o <<>> = base
    BY <1>1, <1>2, <1>5, <1>6, CellsAlone
  <2> QED
    BY <1>1, <1>6, <2>1 DEF x, base
<1>7. CASE base = <<>> /\ first.ok
  <2>1. x = first
    BY <1>2, <1>5, <1>7
  <2> QED
    BY <1>1, <1>3, <1>7, <2>1 DEF x, base
<1>8. CASE base = <<>> /\ ~first.ok
  <2> DEFINE none == [NoFile EXCEPT !.count = first.at.count]
  <2>1. x = [out EXCEPT !.at = none, !.ok = FALSE]
    BY <1>2, <1>5, <1>8
  <2>2. none.buffer = <<>>
    BY DEF NoFile
  <2> HIDE DEF none
  <2>3. x.disk = out.disk /\ x.at = none /\ x.ok = FALSE
    BY <1>4, <2>1 DEF Views
  <2>4. Len(out.disk) <= 1
    <3>1. /\ out.disk \in Seq(DiskCell) /\ out.at.buffer \in Seq(DiskCell)
          /\ Stream(first) \in Seq(DiskCell)
      BY <1>3, <1>4, ViewFields
    <3>2. Len(Stream(out)) = Len(out.disk) + Len(out.at.buffer)
      BY <3>1, CellsTogether DEF Stream
    <3>3. Len(Stream(first)) <= Len(<<>>) + Len(Head1(s))
      BY <1>1, <1>3, <1>8 DEF Only
    <3>4. Len(Head1(s)) <= 1 /\ Len(Head1(s)) \in Nat /\ Len(<<>>) = 0
      BY FrameCells, CellsLength
    <3>5. Len(out.disk) \in Nat /\ Len(out.at.buffer) \in Nat /\ Len(Stream(first)) \in Nat
      BY <3>1
    <3>6. \A a, b, n, h \in Nat : n = a + b /\ n <= 0 + h /\ h <= 1 => a <= 1
      OBVIOUS
    <3>7. Len(Stream(out)) = Len(Stream(first))
      BY <1>4
    <3> QED
      BY <3>2, <3>3, <3>4, <3>5, <3>6, <3>7
  <2>5. ~Whole(w)
    BY <1>1, <1>3, <1>8
  <2> QED
    BY <2>2, <2>3, <2>4, <2>5 DEF x
<1> QED
  BY <1>5, <1>6, <1>7, <1>8

-----------------------------------------------------------------------------
(* One header at most, and first.                                          *)
FirstOnly(c) == \A i \in DOMAIN c : c[i] = Header => i = 1

NoHeader(cells) == \A j \in DOMAIN cells : cells[j] # Header

LEMMA HeadStays ==
    ASSUME NEW c \in Seq(DiskCell), NEW d \in Seq(DiskCell), NEW cells,
           Extends(d, c), Only(d, c, cells), NoHeader(cells), FirstOnly(c)
    PROVE  FirstOnly(d)
<1>1. DOMAIN d = 1..Len(d) /\ DOMAIN c = 1..Len(c) /\ Len(c) \in Nat /\ Len(d) \in Nat
  OBVIOUS
<1>2. ASSUME NEW i \in DOMAIN d, d[i] = Header PROVE i = 1
  <2>1. ~(i > Len(c))
    BY <1>2 DEF Only, NoHeader
  <2>2. i \in 1..Len(c)
    BY <1>1, <1>2, <2>1
  <2> QED
    BY <1>1, <1>2, <2>2 DEF Extends, FirstOnly
<1> QED
  BY <1>2 DEF FirstOnly

LEMMA HeadCut ==
    ASSUME NEW c \in Seq(DiskCell), NEW d \in Seq(DiskCell), FirstOnly(c \o d)
    PROVE  FirstOnly(c)
<1>1. \A i \in DOMAIN c : i \in DOMAIN (c \o d) /\ (c \o d)[i] = c[i]
  OBVIOUS
<1> QED
  BY <1>1 DEF FirstOnly

LEMMA HeadAlone ==
    ASSUME NEW c \in Seq(DiskCell), Len(c) <= 1
    PROVE  FirstOnly(c)
<1>1. \A i \in DOMAIN c : i = 1
  OBVIOUS
<1> QED
  BY <1>1 DEF FirstOnly

LEMMA NoHeaders ==
    ASSUME NEW s \in Sinks, NEW w \in Views, NEW e \in Nat
    PROVE  NoHeader(Format(s, w, e)) /\ NoHeader(Foot1(s))
<1>1. /\ Footer # Header /\ Separator # Header
      /\ \A h \in 1..2 : [mark |-> "event", event |-> e, half |-> h] # Header
  BY DEF Footer, Separator, Header
<1>2. NoHeader(Foot1(s))
  BY <1>1 DEF NoHeader, Foot1
<1> DEFINE between == IF Counts(s) /\ w.at.count > 0 THEN <<Separator>> ELSE <<>>
<1>3. between \in Seq(DiskCell) /\ Halves(e) \in Seq(DiskCell) /\ Len(Halves(e)) = 2
  BY EventCells
<1>4. \A j \in DOMAIN between : between[j] # Header
  BY <1>1
<1>5. \A j \in DOMAIN Halves(e) : Halves(e)[j] # Header
  BY <1>1 DEF Halves
<1> HIDE DEF between
<1>6. \A a, b \in Seq(DiskCell) : NoHeader(a) /\ NoHeader(b) => NoHeader(a \o b)
  <2> SUFFICES ASSUME NEW a \in Seq(DiskCell), NEW b \in Seq(DiskCell), NEW j \in DOMAIN (a \o b),
                      NoHeader(a), NoHeader(b)
               PROVE  (a \o b)[j] # Header
    BY DEF NoHeader
  <2>1. j \in DOMAIN a \/ j - Len(a) \in DOMAIN b
    OBVIOUS
  <2>2. \/ j \in DOMAIN a /\ (a \o b)[j] = a[j]
        \/ j - Len(a) \in DOMAIN b /\ (a \o b)[j] = b[j - Len(a)]
    BY <2>1
  <2> QED
    BY <2>2 DEF NoHeader
<1>7. NoHeader(between \o Halves(e))
  BY <1>3, <1>4, <1>5, <1>6 DEF NoHeader
<1> QED
  BY <1>2, <1>7 DEF Format, between

LEMMA WrittenHead ==
    ASSUME NEW s \in Sinks, NEW w \in Views, NEW e \in Nat,
           Roomy(s, w), Buffered(s) => w.at.held, AtEnd(s, w), FirstOnly(Stream(w))
    PROVE  /\ FirstOnly(Stream(Written(s, w, e)))
           /\ FirstOnly(Stream(WriteFooter(s, w)))
<1> DEFINE x == Written(s, w, e)
           y == WriteFooter(s, w)
<1>1. /\ x \in Views /\ Extends(Stream(x), Stream(w))
      /\ Only(Stream(x), Stream(w), Format(s, w, e))
  BY WrittenAdds
<1>2. /\ y \in Views /\ Extends(Stream(y), Stream(w))
      /\ Only(Stream(y), Stream(w), Foot1(s))
  BY FrameAdds
<1>3. NoHeader(Format(s, w, e)) /\ NoHeader(Foot1(s))
  BY NoHeaders
<1> HIDE DEF x, y
<1>4. Stream(x) \in Seq(DiskCell) /\ Stream(y) \in Seq(DiskCell) /\ Stream(w) \in Seq(DiskCell)
  BY <1>1, <1>2, ViewFields
<1>5. FirstOnly(Stream(x)) /\ FirstOnly(Stream(y))
  BY <1>1, <1>2, <1>3, <1>4, HeadStays
<1> QED
  BY <1>5 DEF x, y

LEMMA OpenedHead ==
    ASSUME NEW s \in Sinks, NEW w \in Views, Roomy(s, w), ~w.at.closed, w.at.buffer = <<>>,
           FirstOnly(w.disk)
    PROVE  FirstOnly(Stream(OpenLocked(s, w)))
<1> DEFINE x == OpenLocked(s, w)
           base == IF Option[s].append THEN w.disk ELSE <<>>
           head == IF base = <<>> THEN Head1(s) ELSE <<>>
<1>1. /\ x.ok => Stream(x) = base \o head
      /\ ~x.ok => x.at.buffer = <<>> /\ Len(x.disk) <= 1
  BY OpenLockedTells
<1>2. x \in Views
  BY OpenLockedSettles
<1>3. base \in Seq(DiskCell) /\ head \in Seq(DiskCell) /\ Len(head) <= 1 /\ FirstOnly(base)
  <2>1. w.disk \in Seq(DiskCell) /\ <<>> \in Seq(DiskCell) /\ Len(<<>>) = 0
    BY ViewFields
  <2>2. FirstOnly(<<>>)
    BY DEF FirstOnly
  <2> QED
    BY <2>1, <2>2, FrameCells
<1>4. base # <<>> => head = <<>>
  OBVIOUS
<1> HIDE DEF x, base, head
<1>5. CASE x.ok /\ base # <<>>
  BY <1>1, <1>3, <1>4, <1>5, CellsAlone DEF x
<1>6. CASE x.ok /\ base = <<>>
  <2>1. base \o head = head
    BY <1>3, <1>6
  <2> QED
    BY <1>1, <1>3, <1>6, <2>1, HeadAlone DEF x
<1>7. CASE ~x.ok
  <2>1. x.disk \in Seq(DiskCell)
    BY <1>2, ViewFields
  <2>2. Stream(x) = x.disk
    BY <1>1, <1>7, <2>1, CellsAlone DEF Stream
  <2> QED
    BY <1>1, <1>7, <2>1, <2>2, HeadAlone DEF x
<1>8. x.ok \in BOOLEAN
  BY <1>2, ViewFields
<1> QED
  BY <1>5, <1>6, <1>7, <1>8

LEMMA AppendedHead ==
    ASSUME NEW s \in Sinks, NEW w \in Views, NEW e \in Nat, NEW formats \in BOOLEAN,
           Option[s].kind = "file", Roomy(s, w), ~w.at.closed, w.ok = TRUE,
           w.at.held => AtEnd(s, w), ~w.at.held => w.at.buffer = <<>>, FirstOnly(Stream(w))
    PROVE  FirstOnly(Stream(Appended(s, w, e, formats)))
<1> DEFINE ready == IF w.at.held THEN w ELSE OpenLocked(s, w)
           x == Appended(s, w, e, formats)
<1>1. x = AppendSynchronized(s, ready, e, formats)
  BY DEF Appended, FileAppend
<1>2. /\ ready \in Views /\ Roomy(s, ready) /\ FirstOnly(Stream(ready))
      /\ ready.ok => ready.at.held /\ AtEnd(s, ready)
  <2>1. CASE w.at.held
    BY <2>1
  <2>2. CASE ~w.at.held
    <3>1. w.disk \in Seq(DiskCell) /\ Stream(w) = w.disk
      BY <2>2, ViewFields, CellsAlone DEF Stream
    <3> QED
      BY <2>2, <3>1, OpenLockedSettles, OpenedHead
  <2> QED
    BY <2>1, <2>2
<1> HIDE DEF ready
<1>3. CASE ~ready.ok
  BY <1>1, <1>2, <1>3 DEF AppendSynchronized
<1>4. CASE ready.ok /\ formats
  <2>1. x = Written(s, ready, e)
    BY <1>1, <1>4 DEF AppendSynchronized
  <2> QED
    BY <1>2, <1>4, <2>1, WrittenHead
<1>5. CASE ready.ok /\ ~formats
  <2> DEFINE v == Counted(s, ready)
  <2>1. x = [v EXCEPT !.ok = FALSE]
    BY <1>1, <1>5 DEF AppendSynchronized
  <2>2. v \in Views /\ Stream(v) = Stream(ready)
    <3>1. CASE Counts(s)
      <4> DEFINE k == ready.at.count + 1
      <4>1. v = [ready EXCEPT !.at.count = k] /\ k \in Nat
        BY <1>2, <3>1, ViewFields DEF Counted
      <4> HIDE DEF k, v
      <4>2. LET u == [ready EXCEPT !.at.count = k]
            IN  /\ u \in Views /\ Roomy(s, u) /\ Stream(u) = Stream(ready) /\ u.disk = ready.disk
                /\ u.at.count = k /\ u.at.held = ready.at.held
                /\ u.at.started = ready.at.started
                /\ u.at.closed = ready.at.closed /\ u.ok = ready.ok
                /\ Whole(ready) => Whole(u)
                /\ AtEnd(s, ready) => AtEnd(s, u)
        BY <1>2, <4>1, CountBeside
      <4> QED
        BY <4>1, <4>2
    <3>2. CASE ~Counts(s)
      BY <1>2, <3>2 DEF Counted
    <3> QED
      BY <3>1, <3>2
  <2> HIDE DEF v, x
  <2>3. Stream(x) = Stream(v)
    BY <2>1, <2>2 DEF Stream, Views
  <2> QED
    BY <1>2, <2>2, <2>3 DEF x
<1> QED
  BY <1>3, <1>4, <1>5

LEMMA FlushedHead ==
    ASSUME NEW s \in Sinks, NEW w \in Views, Roomy(s, w),
           w.at.held => AtEnd(s, w), FirstOnly(Stream(w))
    PROVE  FirstOnly(Stream(FlushWriter(s, w)))
<1>1. CASE w.at.held
  BY <1>1, FlushKeepsStream
<1>2. CASE ~w.at.held
  <2> DEFINE f == FlushWriter(s, w)
  <2>1. f = [w EXCEPT !.ok = TRUE]
    BY <1>2 DEF FlushWriter
  <2> HIDE DEF f
  <2>2. f.disk = w.disk /\ f.at = w.at
    BY <2>1 DEF Views
  <2> QED
    BY <2>2 DEF Stream, f
<1> QED
  BY <1>1, <1>2

LEMMA ClosedHead ==
    ASSUME NEW s \in Sinks, NEW w \in Views,
           Option[s].kind = "file", Roomy(s, w),
           w.at.held => AtEnd(s, w), ~w.at.held => w.at.buffer = <<>>, FirstOnly(Stream(w))
    PROVE  FirstOnly(Closed(s, w).disk)
<1> DEFINE last == IF Started(s, w) THEN WriteFooter(s, w) ELSE w
           out == FlushWriter(s, last)
           x == Closed(s, w)
<1>1. x = [out EXCEPT !.ok = last.ok /\ out.ok]
  BY DEF Closed, FileClose
<1>2. /\ last \in Views /\ Roomy(s, last) /\ FirstOnly(Stream(last))
      /\ last.at.held => AtEnd(s, last)
  <2>1. CASE w.at.held
    <3>1. last = WriteFooter(s, w)
      BY <2>1 DEF Started
    <3> HIDE DEF last
    <3>2. last \in Views /\ Roomy(s, last) /\ AtEnd(s, last)
      BY <2>1, <3>1, FrameAdds
    <3>3. FirstOnly(Stream(last))
      BY <2>1, <3>1, WrittenHead
    <3> QED
      BY <3>2, <3>3
  <2>2. CASE ~w.at.held
    BY <2>2 DEF Started
  <2> QED
    BY <2>1, <2>2
<1> HIDE DEF last
<1>3. out \in Views /\ FirstOnly(Stream(out))
  BY <1>2, FlushKeepsStream, FlushedHead
<1> HIDE DEF out, x
<1>4. x.disk = out.disk
  BY <1>1, <1>3 DEF Views
<1>5. out.disk \in Seq(DiskCell) /\ out.at.buffer \in Seq(DiskCell)
  BY <1>3, ViewFields
<1> QED
  BY <1>3, <1>4, <1>5, HeadCut DEF Stream, x

LEMMA ConstructedHead ==
    ASSUME NEW s \in Sinks, NEW w \in Views, Option[s].kind = "file", Roomy(s, w),
           ~w.at.closed, w.at.buffer = <<>>, FirstOnly(w.disk)
    PROVE  FirstOnly(Stream(Constructed(s, w)))
<1>1. w.disk \in Seq(DiskCell)
  BY ViewFields
<1>2. Stream(w) = w.disk
  BY <1>1, CellsAlone DEF Stream
<1> QED
  BY <1>2, OpenedHead DEF Constructed, NewFileAppender

-----------------------------------------------------------------------------
(* What a session writes, of a sink that answered nil for the events of    *)
(* list: AfterSession without the state.                                   *)
Pieces(s, list) ==
    [i \in DOMAIN list |->
       (IF Counts(s) /\ i > 1 THEN <<Separator>> ELSE <<>>) \o Halves(list[i])]
AllOf(s, list) == FlattenSeq(Pieces(s, list))

Base(s, before) == IF Option[s].append THEN before ELSE <<>>
Top(s, base) ==
    IF Framed(s) /\ (Option[s].kind = "console" \/ base = <<>>) THEN <<Header>> ELSE <<>>
Told(s, before, wrote, list, ended) ==
    LET base == Base(s, before)
        tail == IF Framed(s) /\ ended THEN <<Footer>> ELSE <<>>
    IN  IF wrote THEN base \o Top(s, base) \o AllOf(s, list) \o tail ELSE before

LEMMA AfterIsTold ==
    ASSUME NEW s \in Sinks, NEW before
    PROVE  /\ AfterSession(before, s) =
                Told(s, before, HasWritten(s), accepted[s], closing[s] # "open")
           /\ AfterSession(before, s)' =
                Told(s, before, HasWritten(s)', accepted'[s], closing'[s] # "open")
BY Zenon DEF AfterSession, Told, Joined, AllOf, Pieces, Base, Top

LEMMA PiecesAre ==
    ASSUME NEW s \in Sinks, NEW list \in Seq(Nat)
    PROVE  /\ Pieces(s, list) \in Seq(Seq(DiskCell)) /\ Len(Pieces(s, list)) = Len(list)
           /\ DOMAIN Pieces(s, list) = DOMAIN list
<1> DEFINE piece(i) == (IF Counts(s) /\ i > 1 THEN <<Separator>> ELSE <<>>) \o Halves(list[i])
           all == [i \in DOMAIN list |-> piece(i)]
<1>1. <<>> \in Seq(DiskCell) /\ <<Separator>> \in Seq(DiskCell)
  BY EventCells
<1>2. ASSUME NEW i \in DOMAIN list PROVE piece(i) \in Seq(DiskCell)
  <2>1. Halves(list[i]) \in Seq(DiskCell)
    BY EventCells
  <2> QED
    BY <1>1, <2>1, CellsTogether
<1> HIDE DEF piece
<1>3. DOMAIN list = 1..Len(list) /\ Len(list) \in Nat
  OBVIOUS
<1>4. all \in [1..Len(list) -> Seq(DiskCell)]
  BY <1>2, <1>3
<1>5. all \in Seq(Seq(DiskCell)) /\ Len(all) = Len(list) /\ DOMAIN all = 1..Len(list)
  <2> HIDE DEF all
  <2> QED
    BY <1>3, <1>4, FunctionIsSequence
<1>6. Pieces(s, list) = all
  BY DEF Pieces, piece
<1> QED
  BY <1>3, <1>5, <1>6

LEMMA AllOfMore ==
    ASSUME NEW s \in Sinks, NEW list \in Seq(Nat), NEW e \in Nat
    PROVE  /\ AllOf(s, list) \in Seq(DiskCell) /\ AllOf(s, <<>>) = <<>>
           /\ AllOf(s, Append(list, e)) =
                AllOf(s, list) \o ((IF Counts(s) /\ Len(list) > 0 THEN <<Separator>> ELSE <<>>)
                                   \o Halves(e))
<1> DEFINE more == Append(list, e)
           last == (IF Counts(s) /\ Len(list) > 0 THEN <<Separator>> ELSE <<>>) \o Halves(e)
           n == Len(list)
<1>1. /\ more \in Seq(Nat) /\ Len(more) = n + 1 /\ n \in Nat /\ DOMAIN more = 1..(n + 1)
      /\ DOMAIN list = 1..n
      /\ \A i \in 1..n : more[i] = list[i]
      /\ more[n + 1] = e
  OBVIOUS
<1>2. last \in Seq(DiskCell)
  <2>1. <<>> \in Seq(DiskCell) /\ <<Separator>> \in Seq(DiskCell) /\ Halves(e) \in Seq(DiskCell)
    BY EventCells
  <2> QED
    BY <2>1, CellsTogether
<1>3. /\ Pieces(s, list) \in Seq(Seq(DiskCell)) /\ Len(Pieces(s, list)) = n
      /\ Pieces(s, more) \in Seq(Seq(DiskCell)) /\ Len(Pieces(s, more)) = n + 1
  BY <1>1, PiecesAre
<1>4. \A i \in 1..n : Pieces(s, more)[i] = Pieces(s, list)[i]
  BY <1>1 DEF Pieces
<1>5. Pieces(s, more)[n + 1] = last
  <2>1. Pieces(s, more)[n + 1] =
          (IF Counts(s) /\ n + 1 > 1 THEN <<Separator>> ELSE <<>>) \o Halves(more[n + 1])
    <3>1. n + 1 \in DOMAIN more
      BY <1>1
    <3> HIDE DEF more
    <3> QED
      BY <3>1 DEF Pieces
  <2>2. n + 1 > 1 <=> n > 0
    BY <1>1
  <2> QED
    BY <1>1, <2>1, <2>2
<1> HIDE DEF last
<1>6. Pieces(s, more) = Append(Pieces(s, list), last)
  <2> DEFINE a == Pieces(s, more)
             b == Pieces(s, list)
  <2>0. a \in Seq(Seq(DiskCell)) /\ b \in Seq(Seq(DiskCell)) /\ Len(a) = n + 1 /\ Len(b) = n
    BY <1>3
  <2>1. \A i \in 1..n : a[i] = b[i]
    BY <1>4
  <2>2. a[n + 1] = last
    BY <1>5
  <2> HIDE DEF a, b
  <2>3. Append(b, last) \in Seq(Seq(DiskCell)) /\ Len(Append(b, last)) = n + 1
    BY <1>2, <2>0
  <2>4. \A i \in 1..(n + 1) : a[i] = Append(b, last)[i]
    BY <1>1, <1>2, <2>0, <2>1, <2>2
  <2>5. a = Append(b, last)
    BY <2>0, <2>3, <2>4, SeqEqual
  <2> QED
    BY <2>5 DEF a, b
<1>7. AllOf(s, <<>>) = <<>>
  <2>1. <<>> \in Seq(Nat) /\ Len(<<>>) = 0
    OBVIOUS
  <2>2. Pieces(s, <<>>) \in Seq(Seq(DiskCell)) /\ Len(Pieces(s, <<>>)) = 0
    BY <2>1, PiecesAre
  <2>3. \A i \in DOMAIN Pieces(s, <<>>) : Pieces(s, <<>>)[i] = <<>>
    BY <2>2
  <2> QED
    BY <2>2, <2>3, FlattenedNone DEF AllOf
<1> HIDE DEF more
<1> QED
  BY <1>2, <1>3, <1>6, <1>7, FlattenedCells, FlattenedAppend DEF AllOf, more, last

LEMMA ToldMore ==
    ASSUME NEW s \in Sinks, NEW before \in Seq(DiskCell), NEW list \in Seq(Nat), NEW e \in Nat
    PROVE  /\ \A b \in BOOLEAN, k \in BOOLEAN : Told(s, before, b, list, k) \in Seq(DiskCell)
           /\ Told(s, before, TRUE, <<>>, FALSE) = Base(s, before) \o Top(s, Base(s, before))
           /\ Told(s, before, TRUE, Append(list, e), FALSE) =
                Told(s, before, TRUE, list, FALSE) \o
                  ((IF Counts(s) /\ Len(list) > 0 THEN <<Separator>> ELSE <<>>) \o Halves(e))
           /\ Told(s, before, TRUE, list, TRUE) = Told(s, before, TRUE, list, FALSE) \o Foot1(s)
<1> DEFINE base == Base(s, before)
           top == Top(s, base)
           all == AllOf(s, list)
           last == (IF Counts(s) /\ Len(list) > 0 THEN <<Separator>> ELSE <<>>) \o Halves(e)
<1>1. <<>> \in Seq(DiskCell) /\ <<Header>> \in Seq(DiskCell) /\ <<Separator>> \in Seq(DiskCell)
      /\ Halves(e) \in Seq(DiskCell) /\ Foot1(s) \in Seq(DiskCell)
  BY EventCells, FrameCells
<1>2. /\ base \in Seq(DiskCell) /\ top \in Seq(DiskCell) /\ all \in Seq(DiskCell)
      /\ last \in Seq(DiskCell) /\ AllOf(s, <<>>) = <<>>
      /\ AllOf(s, Append(list, e)) = all \o last
  <2>1. base \in Seq(DiskCell)
    BY <1>1 DEF Base
  <2>2. top \in Seq(DiskCell)
    BY <1>1 DEF Top
  <2>3. last \in Seq(DiskCell)
    BY <1>1, CellsTogether
  <2> QED
    BY <2>1, <2>2, <2>3, AllOfMore
<1> DEFINE tail(ended) == IF Framed(s) /\ ended THEN <<Footer>> ELSE <<>>
<1>3. /\ tail(FALSE) = <<>> /\ tail(TRUE) = Foot1(s)
  BY DEF Foot1
<1>4. /\ \A ended : Told(s, before, TRUE, list, ended) = base \o top \o all \o tail(ended)
      /\ \A ended : Told(s, before, FALSE, list, ended) = before
      /\ Told(s, before, TRUE, <<>>, FALSE) = base \o top \o AllOf(s, <<>>) \o tail(FALSE)
      /\ Told(s, before, TRUE, Append(list, e), FALSE) =
           base \o top \o AllOf(s, Append(list, e)) \o tail(FALSE)
  BY Zenon DEF Told
<1>5. /\ base \o top \in Seq(DiskCell) /\ (base \o top) \o all \in Seq(DiskCell)
      /\ ((base \o top) \o all) \o Foot1(s) \in Seq(DiskCell)
  BY <1>1, <1>2, CellsTogether
<1> HIDE DEF base, top, all, last, tail
<1>6. Told(s, before, TRUE, list, FALSE) = (base \o top) \o all
  BY <1>3, <1>4, <1>5, CellsAlone
<1>7. Told(s, before, TRUE, list, TRUE) = ((base \o top) \o all) \o Foot1(s)
  BY <1>3, <1>4
<1>8. Told(s, before, TRUE, <<>>, FALSE) = base \o top
  <2>1. (base \o top) \o <<>> = base \o top
    BY <1>5, CellsAlone
  <2> QED
    BY <1>2, <1>3, <1>4, <2>1
<1>9. Told(s, before, TRUE, Append(list, e), FALSE) = ((base \o top) \o all) \o last
  <2>1. (base \o top) \o (all \o last) = ((base \o top) \o all) \o last
    <3> DEFINE up == base \o top
    <3>1. up \in Seq(DiskCell) /\ all \in Seq(DiskCell) /\ last \in Seq(DiskCell)
      BY <1>2, <1>5
    <3> HIDE DEF up
    <3>2. (up \o all) \o last = up \o (all \o last)
      BY <3>1, ConcatCells
    <3> QED
      BY <3>2 DEF up
  <2>2. ((base \o top) \o all) \o last \in Seq(DiskCell)
    BY <1>2, <1>5, CellsTogether
  <2>3. (base \o top) \o (all \o last) \o <<>> = (base \o top) \o (all \o last)
    BY <2>1, <2>2, CellsAlone
  <2> QED
    BY <1>2, <1>3, <1>4, <2>1, <2>3
<1>10. \A b \in BOOLEAN, k \in BOOLEAN : Told(s, before, b, list, k) \in Seq(DiskCell)
  BY <1>4, <1>5, <1>6, <1>7
<1> QED
  BY <1>6, <1>7, <1>8, <1>9, <1>10 DEF base, top, last

(* An open sink that wrote what it accepted, and nothing else, behind what *)
(* was before it.                                                          *)
Telling(s, before, w, list) ==
    /\ w \in Views /\ Roomy(s, w) /\ Whole(w) /\ ~w.at.closed
    /\ Option[s].kind \in {"json", "writer"} => w.at.held
    /\ ~Started(s, w) => w.at = NoFile /\ list = <<>>
    /\ Started(s, w) => AtEnd(s, w) /\ (Counts(s) => w.at.count = Len(list))
    /\ Stream(w) = Told(s, before, Started(s, w), list, FALSE)

LEMMA StartedIs ==
    ASSUME NEW s \in Sinks, NEW w \in Views
    PROVE  /\ Started(s, w) \in BOOLEAN
           /\ Started(s, w) <=> IF Option[s].kind = "console" THEN w.at.started ELSE w.at.held
           /\ Buffered(s) /\ Started(s, w) => w.at.held
           /\ Option[s].kind = "console" => ~Buffered(s) /\ Option[s].append
           /\ Option[s].kind \in {"json", "writer"} => Option[s].append /\ ~Framed(s) /\ ~Counts(s)
BY ViewFields, SinkOptions DEF Started, Buffered, Owns, Framed, Counts

LEMMA NoFileIs == /\ NoFile \in Fields /\ NoFile.held = FALSE /\ NoFile.closed = FALSE
                  /\ NoFile.buffer = <<>> /\ NoFile.started = FALSE /\ NoFile.count = 0
                  /\ NoFile.broken = FALSE
BY NoFileFields DEF NoFile

LEMMA ToldBefore ==
    ASSUME NEW s \in Sinks, NEW before, NEW list, NEW ended
    PROVE  Told(s, before, FALSE, list, ended) = before
BY Zenon DEF Told

LEMMA ToldFirst ==
    ASSUME NEW s \in Sinks, NEW before \in Seq(DiskCell)
    PROVE  Told(s, before, TRUE, <<>>, FALSE) = Base(s, before) \o Top(s, Base(s, before))
<1>1. \A list \in Seq(Nat), e \in Nat :
        Told(s, before, TRUE, <<>>, FALSE) = Base(s, before) \o Top(s, Base(s, before))
  BY ToldMore
<1>2. <<>> \in Seq(Nat) /\ 0 \in Nat
  OBVIOUS
<1> QED
  BY <1>1, <1>2

(* The first write of a session brings the header.                         *)
LEMMA FileOpens ==
    ASSUME NEW s \in Sinks, NEW before \in Seq(DiskCell), NEW w \in Views,
           Option[s].kind = "file", w.at = NoFile, Whole(w), Roomy(s, w), w.disk = before
    PROVE  LET x == OpenLocked(s, w)
           IN  Telling(s, before, x, <<>>) /\ Started(s, x) /\ x.ok = TRUE
<1> DEFINE x == OpenLocked(s, w)
           base == IF Option[s].append THEN w.disk ELSE <<>>
           head == IF base = <<>> THEN Head1(s) ELSE <<>>
<1>1. w.at.buffer = <<>> /\ ~w.at.closed /\ w.at.count = 0
  BY NoFileIs
<1>2. /\ Whole(x) /\ x.ok = TRUE /\ x.at.held = TRUE /\ AtEnd(s, x) /\ Stream(x) = base \o head
      /\ x.at.count = 0
  BY <1>1, OpenLockedTells
<1>3. x \in Views /\ Roomy(s, x) /\ ~x.at.closed
  BY <1>1, OpenLockedSettles
<1>4. base \o head = Told(s, before, TRUE, <<>>, FALSE)
  <2>1. base = Base(s, before)
    BY DEF Base
  <2>2. Head1(s) = IF Framed(s) THEN <<Header>> ELSE <<>>
    BY DEF Head1
  <2>3. head = Top(s, base)
    BY <2>2 DEF Top
  <2> HIDE DEF base, head
  <2> QED
    BY <2>1, <2>3, ToldFirst
<1> HIDE DEF x, base, head
<1>5. Started(s, x)
  BY <1>2, <1>3, StartedIs
<1>6. Started(s, x) = TRUE /\ Len(<<>>) = 0
  BY <1>3, <1>5, StartedIs
<1> QED
  BY <1>2, <1>3, <1>4, <1>5, <1>6 DEF Telling, x

LEMMA ConsoleStarts ==
    ASSUME NEW s \in Sinks, NEW before \in Seq(DiskCell), NEW w \in Views,
           Option[s].kind = "console", w.at = NoFile, Whole(w), Roomy(s, w), w.disk = before
    PROVE  LET x == EnsureStarted(s, w)
           IN  Telling(s, before, x, <<>>) /\ Started(s, x) /\ x.ok = TRUE
<1> DEFINE first == WriteHeader(s, w)
           x == EnsureStarted(s, w)
<1>1. /\ w.at.buffer = <<>> /\ ~w.at.closed /\ ~w.at.started /\ ~Buffered(s) /\ Option[s].append
      /\ AtEnd(s, w)
  BY NoFileIs, StartedIs DEF AtEnd
<1>2. /\ first \in Views /\ Roomy(s, first) /\ Whole(first) /\ first.ok = TRUE
      /\ Stream(first) = Stream(w) \o Head1(s)
      /\ first.at.closed = w.at.closed /\ first.at.count = 0
  BY <1>1, FrameAdds
<1>3. x = [first EXCEPT !.at.started = first.ok]
  BY <1>1 DEF EnsureStarted
<1> HIDE DEF first, x
<1>4. /\ x \in Views /\ x.disk = first.disk /\ x.room = first.room /\ x.ok = TRUE
      /\ x.at.buffer = first.at.buffer /\ x.at.closed = first.at.closed
      /\ x.at.count = 0 /\ x.at.started = TRUE /\ x.at.broken = first.at.broken
  BY <1>2, <1>3 DEF Views, Fields
<1>5. Roomy(s, x) /\ Whole(x) /\ AtEnd(s, x) /\ Stream(x) = Stream(first)
  BY <1>1, <1>2, <1>4 DEF Roomy, Whole, AtEnd, Stream
<1>6. Stream(w) \o Head1(s) = Told(s, before, TRUE, <<>>, FALSE)
  <2>1. Stream(w) = before
    BY <1>1, CellsAlone DEF Stream
  <2>2. Base(s, before) = before
    BY <1>1 DEF Base
  <2>3. Head1(s) = Top(s, before)
    BY DEF Head1, Top
  <2> QED
    BY <2>1, <2>2, <2>3, ToldFirst
<1>7. Started(s, x) /\ Started(s, x) = TRUE /\ Len(<<>>) = 0
  BY <1>4, StartedIs
<1> QED
  BY <1>1, <1>2, <1>4, <1>5, <1>6, <1>7 DEF Telling, x

LEMMA ReadyTells ==
    ASSUME NEW s \in Sinks, NEW before \in Seq(DiskCell), NEW w, NEW list \in Seq(Nat),
           Telling(s, before, w, list), w.ok = TRUE
    PROVE  /\ Option[s].kind = "file" =>
                LET x == IF w.at.held THEN w ELSE OpenLocked(s, w)
                IN  Telling(s, before, x, list) /\ Started(s, x) /\ x.ok = TRUE
           /\ Option[s].kind = "console" =>
                LET x == EnsureStarted(s, w)
                IN  Telling(s, before, x, list) /\ Started(s, x) /\ x.ok = TRUE
<1>1. w \in Views /\ Roomy(s, w) /\ Whole(w)
  BY DEF Telling
<1>2. ASSUME ~Started(s, w) PROVE w.at = NoFile /\ list = <<>> /\ w.disk = before
  <2>1. w.at = NoFile /\ list = <<>> /\ Stream(w) = Told(s, before, Started(s, w), list, FALSE)
    BY <1>2 DEF Telling
  <2>2. Started(s, w) = FALSE
    BY <1>1, <1>2, StartedIs
  <2>3. Stream(w) = before
    <3>1. Told(s, before, Started(s, w), list, FALSE) = before
      BY <1>2, Zenon DEF Told
    <3> QED
      BY <2>1, <3>1
  <2>4. w.disk \in Seq(DiskCell) /\ w.at.buffer = <<>>
    BY <1>1, <2>1, ViewFields, NoFileIs
  <2> QED
    BY <2>1, <2>3, <2>4, CellsAlone DEF Stream
<1>3. CASE Option[s].kind = "file"
  <2>1. Started(s, w) <=> w.at.held
    BY <1>1, <1>3, StartedIs
  <2>2. CASE w.at.held
    BY <1>3, <2>1, <2>2
  <2>3. CASE ~w.at.held
    BY <1>1, <1>2, <1>3, <2>1, <2>3, FileOpens
  <2> QED
    BY <1>3, <2>2, <2>3
<1>4. CASE Option[s].kind = "console"
  <2>1. Started(s, w) <=> w.at.started
    BY <1>1, <1>4, StartedIs
  <2>2. CASE w.at.started
    <3> DEFINE x == EnsureStarted(s, w)
    <3>1. x = [w EXCEPT !.ok = TRUE]
      BY <2>2 DEF EnsureStarted
    <3> HIDE DEF x
    <3>2. x = w
      BY <1>1, <3>1 DEF Views
    <3> QED
      BY <1>4, <2>1, <2>2, <3>2 DEF x
  <2>3. CASE ~w.at.started
    BY <1>1, <1>2, <1>4, <2>1, <2>3, ConsoleStarts
  <2> QED
    BY <1>4, <2>2, <2>3
<1> QED
  BY <1>3, <1>4

LEMMA WrittenTells ==
    ASSUME NEW s \in Sinks, NEW before \in Seq(DiskCell), NEW w, NEW list \in Seq(Nat),
           NEW e \in Nat, Telling(s, before, w, list), Started(s, w)
    PROVE  LET x == Written(s, w, e)
           IN  Telling(s, before, x, Append(list, e)) /\ Started(s, x) /\ x.ok = TRUE
<1> DEFINE x == Written(s, w, e)
           cells == Format(s, w, e)
           more == Append(list, e)
<1>1. /\ w \in Views /\ Roomy(s, w) /\ Whole(w) /\ ~w.at.closed /\ AtEnd(s, w)
      /\ Counts(s) => w.at.count = Len(list)
      /\ Option[s].kind \in {"json", "writer"} => w.at.held
      /\ Stream(w) = Told(s, before, Started(s, w), list, FALSE)
  BY DEF Telling
<1>2. (Buffered(s) => w.at.held) /\ Started(s, w) = TRUE
  BY <1>1, StartedIs
<1>3. /\ x \in Views /\ Roomy(s, x) /\ AtEnd(s, x)
      /\ Stream(x) = Stream(w) \o cells
      /\ Whole(x) /\ x.ok = TRUE
      /\ x.at.held = w.at.held /\ x.at.started = w.at.started /\ x.at.closed = w.at.closed
      /\ Counts(s) => x.at.count = w.at.count + 1
  BY <1>1, <1>2, WrittenAdds
<1>4. cells = (IF Counts(s) /\ Len(list) > 0 THEN <<Separator>> ELSE <<>>) \o Halves(e)
  <2>1. Counts(s) /\ w.at.count > 0 <=> Counts(s) /\ Len(list) > 0
    BY <1>1
  <2> QED
    BY <2>1 DEF Format
<1> HIDE DEF x, cells
<1>5. Told(s, before, TRUE, more, FALSE) = Told(s, before, TRUE, list, FALSE) \o cells
  BY <1>4, ToldMore
<1>6. Started(s, x) /\ Started(s, x) = TRUE
  BY <1>1, <1>2, <1>3, StartedIs
<1>7. Len(more) = Len(list) + 1
  OBVIOUS
<1> HIDE DEF more
<1> QED
  BY <1>1, <1>2, <1>3, <1>5, <1>6, <1>7 DEF Telling, x, more

LEMMA AppendTells ==
    ASSUME NEW s \in Sinks, NEW before \in Seq(DiskCell), NEW w, NEW list \in Seq(Nat),
           NEW e \in Nat, NEW formats \in BOOLEAN,
           Telling(s, before, w, list), w.ok = TRUE, Appended(s, w, e, formats).ok
    PROVE  Telling(s, before, Appended(s, w, e, formats), Append(list, e))
<1> DEFINE x == Appended(s, w, e, formats)
<1>1. ASSUME NEW ready, Telling(s, before, ready, list), Started(s, ready), ready.ok = TRUE,
             x = AppendSynchronized(s, ready, e, formats)
      PROVE  Telling(s, before, x, Append(list, e))
  <2>1. CASE formats
    <3>1. x = Written(s, ready, e)
      BY <1>1, <2>1 DEF AppendSynchronized
    <3> QED
      BY <1>1, <3>1, WrittenTells
  <2>2. CASE ~formats
    <3> DEFINE v == Counted(s, ready)
    <3>1. x = [v EXCEPT !.ok = FALSE]
      BY <1>1, <2>2 DEF AppendSynchronized
    <3>2. v \in Views
      <4>1. ready \in Views
        BY <1>1 DEF Telling
      <4>2. CASE Counts(s)
        <5> DEFINE k == ready.at.count + 1
        <5>1. v = [ready EXCEPT !.at.count = k] /\ k \in Nat
          BY <4>1, <4>2, ViewFields DEF Counted
        <5> HIDE DEF k, v
        <5> QED
          BY <4>1, <5>1 DEF Views, Fields
      <4>3. CASE ~Counts(s)
        BY <4>1, <4>3 DEF Counted
      <4> QED
        BY <4>2, <4>3
    <3> HIDE DEF v, x
    <3>3. x.ok = FALSE
      BY <3>1, <3>2 DEF Views
    <3> QED
      BY <3>3 DEF x
  <2> QED
    BY <2>1, <2>2
<1>2. CASE Option[s].kind = "file"
  <2> DEFINE ready == IF w.at.held THEN w ELSE OpenLocked(s, w)
  <2>1. x = AppendSynchronized(s, ready, e, formats)
    BY <1>2 DEF Appended, FileAppend
  <2>2. Telling(s, before, ready, list) /\ Started(s, ready) /\ ready.ok = TRUE
    BY <1>2, ReadyTells
  <2> HIDE DEF ready, x
  <2> QED
    BY <1>1, <2>1, <2>2 DEF x
<1>3. CASE Option[s].kind = "console"
  <2> DEFINE ready == EnsureStarted(s, w)
  <2>1. x = AppendSynchronized(s, ready, e, formats)
    BY <1>3 DEF Appended, ConsoleAppend
  <2>2. Telling(s, before, ready, list) /\ Started(s, ready) /\ ready.ok = TRUE
    BY <1>3, ReadyTells
  <2> HIDE DEF ready, x
  <2> QED
    BY <1>1, <2>1, <2>2 DEF x
<1>4. CASE Option[s].kind \in {"json", "writer"}
  <2>1. x = Written(s, w, e)
    BY <1>4 DEF Appended
  <2>2. Started(s, w)
    BY <1>4, StartedIs DEF Telling
  <2> QED
    BY <2>1, <2>2, WrittenTells
<1> QED
  BY <1>2, <1>3, <1>4, SinkOptions

LEMMA FlushTells ==
    ASSUME NEW s \in Sinks, NEW before \in Seq(DiskCell), NEW w, NEW list \in Seq(Nat),
           Telling(s, before, w, list)
    PROVE  Telling(s, before, FlushWriter(s, w), list)
<1> DEFINE f == FlushWriter(s, w)
<1>1. /\ w \in Views /\ Roomy(s, w) /\ Whole(w) /\ ~w.at.closed
      /\ Option[s].kind \in {"json", "writer"} => w.at.held
      /\ ~Started(s, w) => w.at = NoFile /\ list = <<>>
      /\ Started(s, w) => AtEnd(s, w) /\ (Counts(s) => w.at.count = Len(list))
      /\ Stream(w) = Told(s, before, Started(s, w), list, FALSE)
  BY DEF Telling
<1>2. f \in Views /\ Roomy(s, f) /\ Whole(f) /\ SameSession(w, f)
  <2>1. f \in Views /\ SameSession(w, f)
    BY <1>1, FlushKeepsStream
  <2>2. Roomy(s, f)
    BY <1>1, FlushGrows DEF Grows
  <2> QED
    BY <1>1, <2>1, <2>2, WholeFlush
<1>3. Started(s, f) = Started(s, w)
  <2> HIDE DEF f
  <2> QED
    BY <1>2 DEF SameSession, Started
<1>4. Started(s, w) \in BOOLEAN
  BY <1>1, StartedIs
<1>5. CASE Started(s, w)
  <2>1. AtEnd(s, f) /\ Stream(f) = Stream(w)
    BY <1>1, <1>5, FlushKeepsStream
  <2> HIDE DEF f
  <2> QED
    BY <1>1, <1>2, <1>3, <1>5, <2>1 DEF Telling, SameSession, f
<1>6. CASE ~Started(s, w)
  <2>1. ~w.at.held /\ w.at = NoFile
    BY <1>1, <1>6, NoFileIs
  <2>2. f = [w EXCEPT !.ok = TRUE]
    BY <2>1 DEF FlushWriter
  <2> HIDE DEF f
  <2>3. f.at = w.at /\ f.disk = w.disk
    BY <1>1, <2>2 DEF Views
  <2>4. Stream(f) = Stream(w)
    BY <2>3 DEF Stream
  <2> QED
    BY <1>1, <1>2, <1>3, <1>6, <2>3, <2>4 DEF Telling, f
<1> QED
  BY <1>4, <1>5, <1>6

LEMMA CloseTells ==
    ASSUME NEW s \in Sinks, NEW before \in Seq(DiskCell), NEW w, NEW list \in Seq(Nat),
           Telling(s, before, w, list), w.ok = TRUE
    PROVE  LET x == Closed(s, w)
           IN  /\ x \in Views /\ Roomy(s, x) /\ Whole(x) /\ x.ok = TRUE
               /\ x.disk = Told(s, before, Started(s, w), list, TRUE)
<1> DEFINE x == Closed(s, w)
<1>1. /\ w \in Views /\ Roomy(s, w) /\ Whole(w) /\ ~w.at.closed
      /\ Option[s].kind \in {"json", "writer"} => w.at.held
      /\ ~Started(s, w) => w.at = NoFile /\ list = <<>>
      /\ Started(s, w) => AtEnd(s, w) /\ (Counts(s) => w.at.count = Len(list))
      /\ Stream(w) = Told(s, before, Started(s, w), list, FALSE)
  BY DEF Telling
<1>2. Started(s, w) \in BOOLEAN /\ w.ok \in BOOLEAN
  BY <1>1, StartedIs
<1> DEFINE last == IF Started(s, w) THEN WriteFooter(s, w) ELSE w
<1>3. /\ last \in Views /\ Roomy(s, last) /\ Whole(last) /\ last.ok = TRUE
      /\ last.at.held = w.at.held /\ (Started(s, w) => AtEnd(s, last))
      /\ Stream(last) = Told(s, before, Started(s, w), list, TRUE)
  <2>1. CASE Started(s, w)
    <3>1. Started(s, w) = TRUE /\ (Buffered(s) => w.at.held)
      BY <1>1, <1>2, <2>1, StartedIs
    <3>2. last = WriteFooter(s, w)
      BY <2>1
    <3> HIDE DEF last
    <3>3. /\ last \in Views /\ Roomy(s, last) /\ AtEnd(s, last)
          /\ Stream(last) = Stream(w) \o Foot1(s)
          /\ Whole(last) /\ last.ok = TRUE /\ last.at.held = w.at.held
      BY <1>1, <2>1, <3>1, <3>2, FrameAdds
    <3>4. \A e \in Nat : Told(s, before, TRUE, list, TRUE) =
                         Told(s, before, TRUE, list, FALSE) \o Foot1(s)
      BY ToldMore
    <3>5. Told(s, before, TRUE, list, TRUE) = Told(s, before, TRUE, list, FALSE) \o Foot1(s)
      <4>1. 0 \in Nat
        OBVIOUS
      <4> QED
        BY <3>4, <4>1
    <3> QED
      BY <1>1, <3>1, <3>3, <3>5
  <2>2. CASE ~Started(s, w)
    <3>1. last = w
      BY <2>2
    <3>2. Told(s, before, Started(s, w), list, TRUE) = Told(s, before, Started(s, w), list, FALSE)
      BY <2>2, Zenon DEF Told
    <3> QED
      BY <1>1, <2>2, <3>1, <3>2
  <2> QED
    BY <1>2, <2>1, <2>2
<1> HIDE DEF last
<1> DEFINE out == FlushWriter(s, last)
<1>4. /\ out \in Views /\ Roomy(s, out) /\ Whole(out) /\ out.ok = TRUE
      /\ out.disk = Stream(last)
  <2>1. out \in Views /\ Roomy(s, out) /\ Whole(out) /\ out.ok = TRUE
    <3>1. Whole(out) /\ out.ok = TRUE
      BY <1>3, WholeFlush
    <3>2. out \in Views
      BY <1>3, FlushKeepsStream
    <3>3. Roomy(s, out)
      BY <1>3, FlushGrows DEF Grows
    <3> QED
      BY <3>1, <3>2, <3>3
  <2>2. out.disk \in Seq(DiskCell) /\ last.disk \in Seq(DiskCell)
    BY <1>3, <2>1, ViewFields
  <2>3. CASE Started(s, w)
    <3>1. Stream(out) = Stream(last)
      BY <1>3, <2>3, FlushKeepsStream
    <3>2. out.at.buffer = <<>>
      <4>1. CASE Buffered(s)
        <5>1. last.at.held
          BY <1>1, <1>3, <2>3, <4>1, StartedIs
        <5> QED
          BY <1>3, <2>1, <4>1, <5>1, FlushKeepsStream
      <4>2. CASE ~Buffered(s)
        BY <2>1, <4>2 DEF Roomy
      <4> QED
        BY <4>1, <4>2
    <3> HIDE DEF out
    <3>3. out.disk \o <<>> = out.disk
      BY <2>2, CellsAlone
    <3>4. Stream(out) = out.disk \o out.at.buffer
      BY DEF Stream
    <3> QED
      BY <2>1, <3>1, <3>2, <3>3, <3>4
  <2>4. CASE ~Started(s, w)
    <3>1. last = w /\ w.at = NoFile /\ ~w.at.held
      BY <1>1, <2>4, NoFileIs DEF last
    <3>2. out = [last EXCEPT !.ok = TRUE]
      BY <3>1 DEF FlushWriter
    <3> HIDE DEF out
    <3>3. out.disk = last.disk
      BY <1>3, <3>2 DEF Views
    <3>4. last.at.buffer = <<>>
      BY <3>1, NoFileIs
    <3>5. last.disk \o <<>> = last.disk
      BY <2>2, CellsAlone
    <3>6. Stream(last) = last.disk \o last.at.buffer
      BY DEF Stream
    <3> QED
      BY <2>1, <3>3, <3>4, <3>5, <3>6
  <2> QED
    BY <1>2, <2>1, <2>3, <2>4
<1>5. CASE Option[s].kind = "file"
  <2>1. x = [out EXCEPT !.ok = last.ok /\ out.ok]
    BY <1>5 DEF Closed, FileClose, last
  <2> HIDE DEF x, out
  <2>2. x \in Views /\ x.disk = out.disk /\ x.ok = TRUE /\ x.at = out.at /\ x.room = out.room
    BY <1>3, <1>4, <2>1 DEF Views
  <2> QED
    BY <1>3, <1>4, <2>2 DEF Roomy, Whole, x
<1>6. CASE Option[s].kind = "console"
  <2>1. x = last
    BY <1>6 DEF Closed, ConsoleClose, last
  <2>2. last.at.buffer = <<>> /\ last.disk \in Seq(DiskCell)
    BY <1>3, <1>6, StartedIs, ViewFields DEF Roomy
  <2>3. Stream(last) = last.disk
    BY <2>2, CellsAlone DEF Stream
  <2> QED
    BY <1>3, <2>1, <2>3
<1>7. CASE Option[s].kind \in {"json", "writer"}
  <2>1. ~Framed(s)
    BY <1>1, <1>7, StartedIs
  <2>2. Stream(last) = Stream(w)
    <3>1. Told(s, before, Started(s, w), list, TRUE) = Told(s, before, Started(s, w), list, FALSE)
      BY <2>1, Zenon DEF Told
    <3> QED
      BY <1>1, <1>3, <3>1
  <2>3. x = IF Owns(s) THEN FlushWriter(s, w) ELSE w
    BY <1>7 DEF Closed, JSONClose
  <2> DEFINE f == FlushWriter(s, w)
  <2>4. Started(s, w) /\ w.at.held
    BY <1>1, <1>7, StartedIs
  <2>5. f \in Views /\ Roomy(s, f) /\ Whole(f) /\ f.ok = TRUE /\ Stream(f) = Stream(w)
    <3>1. Whole(f) /\ f.ok = TRUE
      BY <1>1, WholeFlush
    <3>2. f \in Views /\ Stream(f) = Stream(w)
      BY <1>1, <2>4, FlushKeepsStream
    <3>3. Roomy(s, f)
      BY <1>1, FlushGrows DEF Grows
    <3> QED
      BY <3>1, <3>2, <3>3
  <2>6. CASE Owns(s)
    <3>1. f.at.buffer = <<>>
      <4>1. CASE Buffered(s)
        BY <1>1, <2>4, <2>5, <4>1, FlushKeepsStream
      <4>2. CASE ~Buffered(s)
        BY <2>5, <4>2 DEF Roomy
      <4> QED
        BY <4>1, <4>2
    <3>2. f.disk \in Seq(DiskCell)
      BY <2>5, ViewFields
    <3>3. Stream(f) = f.disk
      <4> HIDE DEF f
      <4> QED
        BY <3>1, <3>2, CellsAlone DEF Stream
    <3> HIDE DEF f
    <3> QED
      BY <1>3, <2>2, <2>3, <2>5, <2>6, <3>3 DEF f
  <2>7. CASE ~Owns(s)
    <3>1. x = w /\ w.at.buffer = <<>> /\ w.disk \in Seq(DiskCell)
      BY <1>1, <2>3, <2>7, ViewFields DEF Roomy, Buffered
    <3>2. Stream(w) = w.disk
      BY <3>1, CellsAlone DEF Stream
    <3> QED
      BY <1>1, <1>3, <2>2, <3>1, <3>2
  <2> QED
    BY <2>6, <2>7
<1> QED
  BY <1>5, <1>6, <1>7, SinkOptions

LEMMA ConstructTells ==
    ASSUME NEW s \in Sinks, NEW before \in Seq(DiskCell), NEW w \in Views,
           w.at = NoFile, Whole(w), Roomy(s, w), w.disk = before, w.ok = TRUE
    PROVE  LET x == Constructed(s, w)
           IN  Telling(s, before, x, <<>>) /\ x.ok = TRUE
<1> DEFINE x == Constructed(s, w)
<1>1. w.at.buffer = <<>> /\ ~w.at.closed /\ w.at.count = 0 /\ ~w.at.started /\ ~w.at.held
  BY NoFileIs
<1>2. Stream(w) = before
  BY <1>1, CellsAlone DEF Stream
<1>3. CASE x = w /\ Option[s].kind \in {"file", "console"}
  <2>1. ~Started(s, w)
    BY <1>1, <1>3, StartedIs
  <2>2. Told(s, before, Started(s, w), <<>>, FALSE) = before
    BY <2>1, Zenon DEF Told
  <2> HIDE DEF x
  <2> QED
    BY <1>1, <1>2, <1>3, <2>1, <2>2 DEF Telling, x
<1>4. CASE x = OpenLocked(s, w) /\ Option[s].kind = "file"
  BY <1>4, FileOpens
<1>5. ASSUME x \in Views, Roomy(s, x), Whole(x), ~x.at.closed, x.at.held, AtEnd(s, x),
             Stream(x) = before, Option[s].kind \in {"json", "writer"}
      PROVE  Telling(s, before, x, <<>>)
  <2>1. Option[s].append /\ ~Framed(s) /\ ~Counts(s)
    BY <1>5, StartedIs
  <2>2. Started(s, x) /\ Started(s, x) = TRUE
    BY <1>5, StartedIs
  <2>3. Base(s, before) = before /\ Top(s, Base(s, before)) = <<>>
    BY <2>1 DEF Base, Top
  <2>4. Told(s, before, TRUE, <<>>, FALSE) = before
    BY <2>3, ToldFirst, CellsAlone
  <2> HIDE DEF x
  <2> QED
    BY <1>5, <2>1, <2>2, <2>4 DEF Telling
<1>6. CASE x = OpenWithOptions(s, w) /\ Option[s].kind = "json"
  <2>1. Option[s].append
    BY <1>6, StartedIs
  <2> DEFINE base == IF Option[s].append THEN w.disk ELSE <<>>
  <2>3. base = before
    BY <2>1
  <2>2. /\ x \in Views /\ Roomy(s, x) /\ AtEnd(s, x) /\ x.ok = TRUE
        /\ x.at.held = TRUE /\ ~x.at.closed /\ Stream(x) = before /\ Whole(x)
    <3> DEFINE y == OpenWithOptions(s, w)
    <3>1. /\ y \in Views /\ Roomy(s, y) /\ AtEnd(s, y) /\ y.ok = TRUE
          /\ y.at.held = TRUE /\ ~y.at.closed /\ Stream(y) = base
          /\ Whole(w) => Whole(y)
      BY <1>1, OpenedFields
    <3>2. x = y
      BY <1>6
    <3> HIDE DEF x, y, base
    <3> QED
      BY <2>3, <3>1, <3>2
  <2> HIDE DEF x
  <2> QED
    BY <1>5, <1>6, <2>2 DEF x
<1>7. CASE x = NewJSON(s, w) /\ Option[s].kind = "writer"
  <2>1. x = [w EXCEPT !.at.held = TRUE]
    BY <1>7 DEF NewJSON
  <2> HIDE DEF x
  <2>2. /\ x \in Views /\ x.disk = w.disk /\ x.at.buffer = w.at.buffer /\ x.ok = w.ok
        /\ x.at.closed = w.at.closed /\ x.at.held = TRUE /\ x.room = w.room
        /\ x.at.broken = w.at.broken
    BY <2>1 DEF Views, Fields
  <2>3. Roomy(s, x) /\ Whole(x) /\ AtEnd(s, x) /\ Stream(x) = Stream(w)
    BY <1>7, <2>2, StartedIs DEF Roomy, Whole, AtEnd, Stream
  <2> QED
    BY <1>1, <1>2, <1>5, <1>7, <2>2, <2>3 DEF x
<1> QED
  BY <1>3, <1>4, <1>5, <1>6, <1>7, SinkOptions DEF Constructed, NewFileAppender

-----------------------------------------------------------------------------
(* No call fails while no write has: a sink of a shared path included.     *)
LEMMA CountedWhole ==
    ASSUME NEW s \in Sinks, NEW w \in Views, Roomy(s, w)
    PROVE  LET v == Counted(s, w)
           IN  /\ v \in Views /\ Roomy(s, v) /\ v.at.held = w.at.held
               /\ Whole(w) => Whole(v)
<1>1. CASE Counts(s)
  <2> DEFINE k == w.at.count + 1
             v == [w EXCEPT !.at.count = k]
  <2>1. Counted(s, w) = v /\ k \in Nat
    BY <1>1, ViewFields DEF Counted
  <2> HIDE DEF k
  <2>2. /\ v \in Views /\ Roomy(s, v) /\ Stream(v) = Stream(w) /\ v.disk = w.disk
        /\ v.at.count = k /\ v.at.held = w.at.held /\ v.at.started = w.at.started
        /\ v.at.closed = w.at.closed /\ v.ok = w.ok
        /\ Whole(w) => Whole(v)
        /\ AtEnd(s, w) => AtEnd(s, v)
    BY <2>1, CountBeside
  <2> HIDE DEF v
  <2> QED
    BY <2>1, <2>2
<1>2. CASE ~Counts(s)
  BY <1>2 DEF Counted
<1> QED
  BY <1>1, <1>2

LEMMA WrittenWhole ==
    ASSUME NEW s \in Sinks, NEW w \in Views, NEW e \in Nat,
           Roomy(s, w), Buffered(s) => w.at.held, Whole(w)
    PROVE  Whole(Written(s, w, e)) /\ Written(s, w, e).ok = TRUE
<1> DEFINE v == Counted(s, w)
           cells == Format(s, w, e)
           wrote == Write(s, v, cells)
           out == FlushWriter(s, wrote)
           x == Written(s, w, e)
<1>1. cells \in Seq(DiskCell) /\ Len(cells) <= 3
  BY FormatCells
<1>2. v \in Views /\ Roomy(s, v) /\ Whole(v) /\ (Buffered(s) => v.at.held)
  BY CountedWhole
<1>3. x = IF wrote.ok /\ Option[s].flushOnWrite THEN out ELSE wrote
  BY DEF Written
<1> HIDE DEF v, cells, x
<1>4. Whole(wrote) /\ wrote.ok = TRUE
  BY <1>1, <1>2, WholeWrite
<1>5. wrote \in Views /\ Roomy(s, wrote)
  BY <1>1, <1>2, WriteContinues DEF Continues, Grows
<1> HIDE DEF wrote
<1>6. Whole(out) /\ out.ok = TRUE
  BY <1>4, <1>5, WholeFlush
<1> HIDE DEF out
<1> QED
  BY <1>3, <1>4, <1>6 DEF x

LEMMA FooterWhole ==
    ASSUME NEW s \in Sinks, NEW w \in Views,
           Roomy(s, w), Buffered(s) => w.at.held, Whole(w)
    PROVE  LET x == WriteFooter(s, w)
           IN  x \in Views /\ Roomy(s, x) /\ Whole(x) /\ x.ok = TRUE
<1>1. Foot1(s) \in Seq(DiskCell) /\ Len(Foot1(s)) <= 3
  <2>1. \A n \in Nat : n <= 1 => n <= 3
    OBVIOUS
  <2> QED
    BY <2>1, FrameCells, CellsLength
<1>2. WriteFooter(s, w) = Write(s, w, Foot1(s))
  BY DEF WriteFooter, Foot1
<1> HIDE DEF WriteFooter
<1>3. Whole(Write(s, w, Foot1(s))) /\ Write(s, w, Foot1(s)).ok = TRUE
  BY <1>1, WholeWrite
<1>4. Write(s, w, Foot1(s)) \in Views /\ Roomy(s, Write(s, w, Foot1(s)))
  BY <1>1, WriteContinues DEF Continues, Grows
<1> QED
  BY <1>2, <1>3, <1>4

LEMMA ReadyWhole ==
    ASSUME NEW s \in Sinks, NEW ready \in Views, NEW e \in Nat, NEW formats \in BOOLEAN,
           Roomy(s, ready), Buffered(s) => ready.at.held, Whole(ready), ready.ok = TRUE
    PROVE  Whole(AppendSynchronized(s, ready, e, formats))
<1> DEFINE x == AppendSynchronized(s, ready, e, formats)
<1>1. CASE formats
  <2>1. x = Written(s, ready, e)
    BY <1>1 DEF AppendSynchronized
  <2> QED
    BY <2>1, WrittenWhole
<1>2. CASE ~formats
  <2> DEFINE v == Counted(s, ready)
  <2>1. x = [v EXCEPT !.ok = FALSE]
    BY <1>2 DEF AppendSynchronized
  <2>2. v \in Views /\ Whole(v)
    BY CountedWhole
  <2> HIDE DEF v, x
  <2>3. x.room = v.room /\ x.at = v.at
    BY <2>1, <2>2 DEF Views
  <2> QED
    BY <2>2, <2>3 DEF Whole, x
<1> QED
  BY <1>1, <1>2

LEMMA AppendedWhole ==
    ASSUME NEW s \in Sinks, NEW w \in Views, NEW e \in Nat, NEW formats \in BOOLEAN,
           Roomy(s, w), ~w.at.closed, w.ok = TRUE,
           Option[s].kind = "json" => w.at.held,
           ~w.at.held => w.at.buffer = <<>>, Whole(w)
    PROVE  Whole(Appended(s, w, e, formats))
<1>1. CASE Option[s].kind = "file"
  <2> DEFINE ready == IF w.at.held THEN w ELSE OpenLocked(s, w)
  <2>1. Appended(s, w, e, formats) = AppendSynchronized(s, ready, e, formats)
    BY <1>1 DEF Appended, FileAppend
  <2>2. /\ ready \in Views /\ Roomy(s, ready) /\ ready.at.held /\ Whole(ready)
        /\ ready.ok = TRUE
    <3>1. CASE w.at.held
      BY <3>1
    <3>2. CASE ~w.at.held
      <4> DEFINE x == OpenLocked(s, w)
      <4>1. Whole(x) /\ x.ok = TRUE
        BY <3>2, OpenLockedTells
      <4>2. x \in Views /\ Roomy(s, x) /\ (x.ok => x.at.held)
        BY <3>2, OpenLockedSettles
      <4> HIDE DEF x
      <4>3. ready = x
        BY <3>2 DEF x
      <4> HIDE DEF ready
      <4> QED
        BY <4>1, <4>2, <4>3
    <3> QED
      BY <3>1, <3>2
  <2> HIDE DEF ready
  <2> QED
    BY <2>1, <2>2, ReadyWhole
<1>2. CASE Option[s].kind = "console"
  <2> DEFINE first == WriteHeader(s, w)
             ready == EnsureStarted(s, w)
  <2>1. Appended(s, w, e, formats) = AppendSynchronized(s, ready, e, formats)
    BY <1>2 DEF Appended, ConsoleAppend
  <2>2. ~Buffered(s) /\ AtEnd(s, w)
    BY <1>2, StartedIs DEF AtEnd
  <2>3. first \in Views /\ Roomy(s, first) /\ Whole(first) /\ first.ok = TRUE
    BY <2>2, FrameAdds
  <2>4. ready = IF w.at.started THEN [w EXCEPT !.ok = TRUE]
                ELSE [first EXCEPT !.at.started = first.ok]
    BY DEF EnsureStarted
  <2> HIDE DEF first, ready
  <2>5. ready \in Views /\ Roomy(s, ready) /\ Whole(ready) /\ ready.ok = TRUE
    <3>1. CASE w.at.started
      <4>1. ready \in Views /\ ready.at = w.at /\ ready.room = w.room /\ ready.ok = TRUE
        BY <2>4, <3>1 DEF Views
      <4> QED
        BY <4>1 DEF Roomy, Whole
    <3>2. CASE ~w.at.started
      <4>1. /\ ready \in Views /\ ready.at.buffer = first.at.buffer /\ ready.room = first.room
            /\ ready.at.broken = first.at.broken /\ ready.ok = TRUE
        BY <2>3, <2>4, <3>2 DEF Views, Fields
      <4> QED
        BY <2>3, <4>1 DEF Roomy, Whole
    <3> QED
      BY <3>1, <3>2
  <2> QED
    BY <2>1, <2>2, <2>5, ReadyWhole
<1>3. CASE Option[s].kind \in {"json", "writer"}
  <2>1. Appended(s, w, e, formats) = Written(s, w, e)
    BY <1>3 DEF Appended
  <2>2. Buffered(s) => w.at.held
    BY <1>3 DEF Buffered, Owns
  <2> QED
    BY <2>1, <2>2, WrittenWhole
<1> QED
  BY <1>1, <1>2, <1>3, SinkOptions

LEMMA ClosedWhole ==
    ASSUME NEW s \in Sinks, NEW w \in Views, Roomy(s, w), w.ok = TRUE, Whole(w)
    PROVE  Whole(Closed(s, w))
<1>1. CASE Option[s].kind = "file"
  <2> DEFINE last == IF Started(s, w) THEN WriteFooter(s, w) ELSE w
             out == FlushWriter(s, last)
             x == Closed(s, w)
  <2>1. x = [out EXCEPT !.ok = last.ok /\ out.ok]
    BY <1>1 DEF Closed, FileClose
  <2>2. last \in Views /\ Roomy(s, last) /\ Whole(last)
    <3>1. CASE Started(s, w)
      <4>1. Buffered(s) => w.at.held
        BY <1>1, <3>1 DEF Started
      <4>2. last = WriteFooter(s, w)
        BY <3>1
      <4> HIDE DEF last
      <4> QED
        BY <4>1, <4>2, FooterWhole
    <3>2. CASE ~Started(s, w)
      BY <3>2
    <3> QED
      BY <3>1, <3>2
  <2> HIDE DEF last
  <2>3. Whole(out) /\ out \in Views
    BY <2>2, WholeFlush, FlushContinues DEF Continues, Grows
  <2> HIDE DEF out, x
  <2>4. x.room = out.room /\ x.at = out.at
    BY <2>1, <2>3 DEF Views
  <2> QED
    BY <2>3, <2>4 DEF Whole, x
<1>2. CASE Option[s].kind = "console"
  <2>1. ~Buffered(s) /\ Closed(s, w) = IF Started(s, w) THEN WriteFooter(s, w) ELSE w
    BY <1>2, StartedIs DEF Closed, ConsoleClose
  <2> QED
    BY <2>1, FooterWhole
<1>3. CASE Option[s].kind \in {"json", "writer"}
  <2>1. Closed(s, w) = IF Owns(s) THEN FlushWriter(s, w) ELSE w
    BY <1>3 DEF Closed, JSONClose
  <2> QED
    BY <2>1, WholeFlush
<1> QED
  BY <1>1, <1>2, <1>3, SinkOptions

LEMMA ConstructedWhole ==
    ASSUME NEW s \in Sinks, NEW w \in Views, Roomy(s, w), w.ok = TRUE, Whole(w),
           w.at = NoFile
    PROVE  LET x == Constructed(s, w) IN Whole(x) /\ x.ok = TRUE
<1>1. w.disk \in Seq(DiskCell)
  BY ViewFields
<1> DEFINE x == Constructed(s, w)
<1>2. Telling(s, w.disk, x, <<>>) /\ x.ok = TRUE
  BY <1>1, ConstructTells
<1> QED
  BY <1>2 DEF Telling

-----------------------------------------------------------------------------
(* FileSink: what the steps keep of the stories of the paths.              *)

(* One header at most and first, the buffer of an open sink included.      *)
HeadsFirst(p) ==
    (\A s \in Sinks : Option[s].path = p => Option[s].kind = "file") =>
      /\ FirstOnly(disk[p])
      /\ \A s \in Begun : Option[s].path = p /\ closing[s] = "open" =>
           FirstOnly(disk[p] \o sink[s].buffer)

QuietInv ==
    /\ SinkInv
    /\ faults \in Nat
    /\ \A s \in Sinks : \A i \in DOMAIN accepted[s] : accepted[s][i] \in 1..events
    /\ \A s \in Begun : closing[s] # "open" => sink[s].buffer = <<>>
    /\ faults = 0 => /\ room = Plenty
                     /\ \A s \in Sinks : /\ Whole(View(s))
                                         /\ s \notin Begun => sink[s] = NoFile
                                                              /\ closing[s] = "open"
    /\ \A p \in Paths \ Shared : HeadsFirst(p)

(* A call of one sink: the others are left alone.                          *)
Turn(s, x, a, c) ==
    /\ x \in Views /\ Keep(s, x) /\ a \in Seq(Nat)
    /\ accepted' = [accepted EXCEPT ![s] = a]
    /\ closing' = [closing EXCEPT ![s] = c]

LEMMA TurnIs ==
    ASSUME SinkTypes, NEW s \in Sinks, NEW x, NEW a, NEW c, Turn(s, x, a, c)
    PROVE  /\ disk'[Option[s].path] = x.disk /\ room' = x.room
           /\ sink'[s] = x.at /\ accepted'[s] = a /\ closing'[s] = c
           /\ \A q \in Paths : q # Option[s].path => disk'[q] = disk[q]
           /\ \A t \in Sinks : t # s => /\ sink'[t] = sink[t] /\ accepted'[t] = accepted[t]
                                        /\ closing'[t] = closing[t]
<1>1. Keep(s, x) /\ x \in Views
  BY DEF Turn
<1>2. /\ disk'[Option[s].path] = x.disk /\ sink'[s] = x.at
      /\ \A q \in Paths : q # Option[s].path => disk'[q] = disk[q]
      /\ \A t \in Sinks : t # s => sink'[t] = sink[t]
  BY <1>1, KeepWrites
<1>3. room' = x.room
  BY <1>1 DEF Keep
<1>4. /\ accepted'[s] = a /\ closing'[s] = c
      /\ \A t \in Sinks : t # s => accepted'[t] = accepted[t] /\ closing'[t] = closing[t]
  BY DEF Turn, SinkTypes
<1> QED
  BY <1>2, <1>3, <1>4

(* The open sink of a path that is not shared is its only open one, and    *)
(* its last one.                                                           *)
LEMMA OpenIsLast ==
    ASSUME SinkInv, NEW k \in DOMAIN begun, closing[begun[k]] = "open",
           Option[begun[k]].path \notin Shared
    PROVE  /\ \A j \in DOMAIN begun :
                j > k => Option[begun[j]].path # Option[begun[k]].path
           /\ \A j \in DOMAIN begun :
                Option[begun[j]].path = Option[begun[k]].path /\ closing[begun[j]] = "open" =>
                  j = k
<1>1. DOMAIN begun \subseteq Int
  BY DEF SinkInv, SinkTypes
<1>2. \A i, j \in DOMAIN begun :
        i < j /\ Option[begun[i]].path = Option[begun[j]].path
              /\ Option[begun[i]].path \notin Shared => closing[begun[i]] # "open"
  BY DEF SinkInv, OneAtATime
<1> QED
  BY <1>1, <1>2

LEMMA BegunAre ==
    ASSUME SinkInv
    PROVE  /\ begun \in Seq(Sinks) /\ Begun \subseteq Sinks /\ Len(begun) \in Nat
           /\ DOMAIN begun = 1..Len(begun)
           /\ \A i \in DOMAIN begun : begun[i] \in Begun /\ begun[i] \in Sinks
           /\ \A t \in Begun : \E i \in DOMAIN begun : begun[i] = t
BY DEF SinkInv, SinkTypes, Begun, ToSet

LEMMA OpenIsAlone ==
    ASSUME SinkInv, NEW s \in Begun, closing[s] = "open", Option[s].path \notin Shared
    PROVE  \A t \in Begun : t # s /\ Option[t].path = Option[s].path => closing[t] # "open"
<1>1. PICK k \in DOMAIN begun : begun[k] = s
  BY BegunAre
<1>2. \A j \in DOMAIN begun :
        Option[begun[j]].path = Option[s].path /\ closing[begun[j]] = "open" => j = k
  BY <1>1, OpenIsLast
<1> QED
  BY <1>1, <1>2, BegunAre

(* No header comes late, whoever takes a turn.                             *)
LEMMA TurnHeads ==
    ASSUME SinkInv, NEW s \in Sinks, NEW x, NEW a, NEW c, Turn(s, x, a, c),
           NEW p \in Paths \ Shared, HeadsFirst(p), Begun' \subseteq Begun \cup {s},
           (\A t \in Sinks : Option[t].path = p => Option[t].kind = "file") /\ Option[s].path = p =>
             /\ FirstOnly(x.disk)
             /\ c = "open" => FirstOnly(Stream(x))
             /\ \A t \in Begun : t # s /\ Option[t].path = p => closing[t] # "open"
    PROVE  HeadsFirst(p)'
<1> SUFFICES ASSUME \A t \in Sinks : Option[t].path = p => Option[t].kind = "file"
             PROVE  /\ FirstOnly(disk'[p])
                    /\ \A t \in Begun' : Option[t].path = p /\ closing'[t] = "open" =>
                         FirstOnly(disk'[p] \o sink'[t].buffer)
  BY DEF HeadsFirst, FirstOnly
<1>1. /\ FirstOnly(disk[p])
      /\ \A t \in Begun : Option[t].path = p /\ closing[t] = "open" =>
           FirstOnly(disk[p] \o sink[t].buffer)
  BY DEF HeadsFirst
<1>2. /\ disk'[Option[s].path] = x.disk /\ sink'[s] = x.at /\ closing'[s] = c
      /\ \A q \in Paths : q # Option[s].path => disk'[q] = disk[q]
      /\ \A t \in Sinks : t # s => sink'[t] = sink[t] /\ closing'[t] = closing[t]
  BY TurnIs DEF SinkInv
<1>3. Begun \subseteq Sinks
  BY BegunAre
<1>4. CASE Option[s].path # p
  <2>1. disk'[p] = disk[p]
    BY <1>2, <1>4
  <2> QED
    BY <1>1, <1>2, <1>3, <1>4, <2>1
<1>5. CASE Option[s].path = p
  <2>1. disk'[p] = x.disk /\ FirstOnly(x.disk) /\ (c = "open" => FirstOnly(Stream(x)))
    BY <1>2, <1>5
  <2>2. ASSUME NEW t \in Begun', Option[t].path = p, closing'[t] = "open" PROVE t = s
    BY <1>2, <1>3, <1>5, <2>2
  <2>3. Stream(x) = disk'[p] \o sink'[s].buffer
    BY <1>2, <2>1 DEF Stream
  <2> QED
    BY <1>2, <2>1, <2>2, <2>3
<1> QED
  BY <1>4, <1>5

(* An open sink, and one that is not begun.                                *)
LEMMA OpenNow ==
    ASSUME SinkInv, NEW s \in Begun, ~sink[s].closed
    PROVE  /\ closing[s] = "open"
           /\ View(s).at.held /\ Option[s].path \notin Shared => AtEnd(s, View(s))
           /\ ~View(s).at.held => View(s).at.buffer = <<>>
           /\ ~View(s).at.closed
           /\ Option[s].kind = "json" => View(s).at.held
<1>1. s \in Sinks
  BY BegunAre
<1>2. View(s).disk = disk[Option[s].path] /\ View(s).at = sink[s]
  BY <1>1, ViewNow
<1>3. Session(s)
  BY <1>1 DEF SinkInv
<1> HIDE DEF View
<1>4. closing[s] = "open"
  BY <1>3 DEF Session
<1> QED
  BY <1>2, <1>3, <1>4 DEF Session, AtEnd

LEMMA FreshNow ==
    ASSUME SinkInv, NEW s \in Sinks, s \notin Begun
    PROVE  /\ ~View(s).at.held /\ ~View(s).at.closed /\ View(s).at.buffer = <<>>
           /\ accepted[s] = <<>>
<1>1. View(s).at = sink[s]
  BY ViewNow
<1>2. Session(s)
  BY DEF SinkInv
<1> HIDE DEF View
<1> QED
  BY <1>1, <1>2 DEF Session

LEMMA BegunMore ==
    ASSUME SinkInv, NEW s \in Sinks, begun' = Append(begun, s)
    PROVE  /\ begun' \in Seq(Sinks) /\ Len(begun') = Len(begun) + 1
           /\ begun'[Len(begun) + 1] = s
           /\ \A i \in 1..Len(begun) : begun'[i] = begun[i]
           /\ Begun' = Begun \cup {s}
<1>1. /\ begun \in Seq(Sinks) /\ Len(begun) \in Nat /\ DOMAIN begun = 1..Len(begun)
      /\ \A i \in DOMAIN begun : begun[i] \in Begun
      /\ \A t \in Begun : \E i \in DOMAIN begun : begun[i] = t
  BY BegunAre
<1>2. /\ begun' \in Seq(Sinks) /\ Len(begun') = Len(begun) + 1
      /\ DOMAIN begun' = 1..(Len(begun) + 1)
      /\ \A i \in 1..Len(begun) : begun'[i] = begun[i]
      /\ begun'[Len(begun) + 1] = s
  BY <1>1
<1>3. Begun' = Begun \cup {s}
  BY <1>1, <1>2 DEF Begun, ToSet
<1> QED
  BY <1>2, <1>3

LEMMA TurnQuiet ==
    ASSUME QuietInv, SinkInv', NEW s \in Sinks, NEW x, NEW a, NEW c, Turn(s, x, a, c),
           faults' = faults, events \in Nat, events' \in Nat, events <= events',
           \A i \in DOMAIN a : a[i] \in 1..events',
           Begun \subseteq Begun', Begun' \subseteq Begun \cup {s},
           s \in Begun' /\ c # "open" => x.at.buffer = <<>>,
           faults = 0 => Whole(x) /\ s \in Begun',
           (\A t \in Sinks : Option[t].path = Option[s].path => Option[t].kind = "file")
             /\ Option[s].path \notin Shared =>
             /\ FirstOnly(x.disk)
             /\ c = "open" => FirstOnly(Stream(x))
             /\ \A t \in Begun : t # s /\ Option[t].path = Option[s].path => closing[t] # "open"
    PROVE  QuietInv'
<1>1. /\ SinkInv /\ SinkTypes /\ faults \in Nat
      /\ \A t \in Sinks : \A i \in DOMAIN accepted[t] : accepted[t][i] \in 1..events
      /\ \A t \in Begun : closing[t] # "open" => sink[t].buffer = <<>>
      /\ faults = 0 => \A t \in Sinks : /\ Whole(View(t))
                                        /\ t \notin Begun => sink[t] = NoFile
                                                             /\ closing[t] = "open"
      /\ \A p \in Paths \ Shared : HeadsFirst(p)
  BY DEF QuietInv, SinkInv
<1>2. /\ room' = x.room /\ sink'[s] = x.at /\ accepted'[s] = a /\ closing'[s] = c
      /\ \A t \in Sinks : t # s => /\ sink'[t] = sink[t] /\ accepted'[t] = accepted[t]
                                   /\ closing'[t] = closing[t]
  BY <1>1, TurnIs
<1>3. Begun' \subseteq Sinks /\ Begun \subseteq Sinks
  BY <1>1, BegunAre
<1>4. faults' \in Nat
  BY <1>1
<1>5. ASSUME NEW t \in Sinks, NEW i \in DOMAIN accepted'[t]
      PROVE  accepted'[t][i] \in 1..events'
  <2>1. CASE t = s
    BY <1>2, <2>1
  <2>2. CASE t # s
    <3>1. accepted[t][i] \in 1..events /\ accepted'[t][i] = accepted[t][i]
      BY <1>1, <1>2, <1>5, <2>2
    <3> QED
      BY <3>1
  <2> QED
    BY <2>1, <2>2
<1>6. ASSUME NEW t \in Begun', closing'[t] # "open" PROVE sink'[t].buffer = <<>>
  BY <1>1, <1>2, <1>3, <1>6
<1>7. ASSUME faults' = 0, NEW t \in Sinks
      PROVE  /\ Whole(View(t))'
             /\ t \notin Begun' => sink'[t] = NoFile /\ closing'[t] = "open"
  <2>1. Whole(x) /\ s \in Begun' /\ Whole(View(t))
    BY <1>1, <1>7
  <2>2. room' = Plenty
    BY <1>2, <2>1 DEF Whole
  <2>3. ~sink'[t].broken
    <3>1. ~sink[t].broken /\ ~x.at.broken
      BY <2>1 DEF Whole, View
    <3> QED
      BY <1>2, <3>1
  <2>4. Whole(View(t))'
    BY <2>2, <2>3 DEF Whole, View
  <2> QED
    BY <1>1, <1>2, <1>7, <2>1, <2>4
<1>8. ASSUME NEW p \in Paths \ Shared PROVE HeadsFirst(p)'
  BY <1>1, TurnHeads
<1>9. faults' = 0 => room' = Plenty
  BY <1>2 DEF Whole
<1> QED
  BY <1>4, <1>5, <1>6, <1>7, <1>8, <1>9 DEF QuietInv

LEMMA NewSinkQuiet ==
    ASSUME QuietInv, SinkInv', NEW s \in Sinks, NewSink(s)
    PROVE  QuietInv'
<1> DEFINE w == View(s)
           x == Constructed(s, w)
           p == Option[s].path
           c == IF x.ok THEN "open" ELSE "failed"
<1>1. /\ s \notin Begun /\ Keep(s, x) /\ events' = events /\ accepted' = accepted
      /\ p \notin Shared => \A t \in Begun : Option[t].path = p => closing[t] # "open"
      /\ begun' = IF x.ok THEN Append(begun, s) ELSE begun
      /\ closing' = [closing EXCEPT ![s] = c] /\ faults' = faults
  BY DEF NewSink
<1>2. SinkInv /\ events \in Nat /\ p \in Paths
  BY SinkOptions DEF QuietInv, SinkInv, SinkTypes
<1>3. /\ w \in Views /\ Roomy(s, w) /\ w.ok = TRUE /\ w.disk = disk[p] /\ w.at = sink[s]
  BY <1>2, ViewNow
<1>4. ~w.at.held /\ ~w.at.closed /\ w.at.buffer = <<>> /\ accepted[s] = <<>>
  BY <1>1, <1>2, FreshNow
<1>5. faults = 0 => Whole(w) /\ w.at = NoFile
  BY <1>1, <1>3 DEF QuietInv
<1> HIDE DEF w
<1>6. x \in Views
  BY <1>3, <1>4, ConstructedSettles
<1>7. faults = 0 => Whole(x) /\ x.ok = TRUE
  BY <1>3, <1>5, ConstructedWhole
<1>8. ASSUME \A t \in Sinks : Option[t].path = p => Option[t].kind = "file", p \notin Shared
      PROVE  FirstOnly(x.disk) /\ FirstOnly(Stream(x))
  <2>1. Option[s].kind = "file" /\ FirstOnly(w.disk)
    BY <1>2, <1>3, <1>8 DEF QuietInv, HeadsFirst
  <2>2. FirstOnly(Stream(x))
    BY <1>3, <1>4, <2>1, ConstructedHead
  <2>3. x.disk \in Seq(DiskCell) /\ x.at.buffer \in Seq(DiskCell)
    BY <1>6, ViewFields
  <2> HIDE DEF x
  <2> QED
    BY <2>2, <2>3, HeadCut DEF Stream
<1> HIDE DEF x
<1>9. Turn(s, x, accepted[s], c)
  <2>1. accepted[s] \in Seq(Nat) /\ accepted = [accepted EXCEPT ![s] = accepted[s]]
    BY <1>2 DEF SinkInv, SinkTypes
  <2> QED
    BY <1>1, <1>6, <2>1 DEF Turn
<1>10. /\ Begun' = IF x.ok THEN Begun \cup {s} ELSE Begun
       /\ s \in Begun' <=> x.ok
  <2>1. CASE x.ok
    BY <1>1, <1>2, <2>1, BegunMore
  <2>2. CASE ~x.ok
    BY <1>1, <2>2 DEF Begun
  <2> QED
    BY <2>1, <2>2
<1>11. /\ s \in Begun' /\ c # "open" => x.at.buffer = <<>>
       /\ faults = 0 => Whole(x) /\ s \in Begun'
       /\ events' \in Nat /\ events <= events'
       /\ \A i \in DOMAIN accepted[s] : accepted[s][i] \in 1..events'
       /\ Begun \subseteq Begun' /\ Begun' \subseteq Begun \cup {s}
  BY <1>1, <1>2, <1>4, <1>7, <1>10
<1> HIDE DEF c
<1> QED
  BY <1>1, <1>2, <1>8, <1>9, <1>11, TurnQuiet

LEMMA AppendQuiet ==
    ASSUME QuietInv, SinkInv', NEW s \in Sinks, NEW formats \in BOOLEAN,
           AppendEvent(s, formats)
    PROVE  QuietInv'
<1> DEFINE e == events + 1
           w == View(s)
           x == Appended(s, w, e, formats)
           p == Option[s].path
           a == IF x.ok THEN Append(accepted[s], e) ELSE accepted[s]
<1>1. /\ s \in Begun /\ ~sink[s].closed /\ Keep(s, x) /\ events' = e
      /\ accepted' = IF x.ok THEN [accepted EXCEPT ![s] = Append(@, e)] ELSE accepted
      /\ closing' = closing /\ begun' = begun /\ faults' = faults
  BY DEF AppendEvent
<1>2. /\ SinkInv /\ events \in Nat /\ e \in Nat /\ accepted[s] \in Seq(Nat)
      /\ accepted = [accepted EXCEPT ![s] = accepted[s]] /\ p \in Paths
      /\ closing = [closing EXCEPT ![s] = closing[s]]
  BY SinkOptions DEF QuietInv, SinkInv, SinkTypes
<1>3. /\ w \in Views /\ Roomy(s, w) /\ w.ok = TRUE /\ w.disk = disk[p] /\ w.at = sink[s]
      /\ Stream(w) = disk[p] \o sink[s].buffer
  BY <1>2, ViewNow
<1>4. /\ closing[s] = "open" /\ ~w.at.closed
      /\ w.at.held /\ p \notin Shared => AtEnd(s, w)
      /\ ~w.at.held => w.at.buffer = <<>>
      /\ Option[s].kind = "json" => w.at.held
  BY <1>1, <1>2, OpenNow
<1>5. faults = 0 => Whole(w)
  BY DEF QuietInv
<1>6. \A i \in DOMAIN accepted[s] : accepted[s][i] \in 1..events
  BY DEF QuietInv
<1> HIDE DEF w, e
<1>7. x \in Views
  BY <1>2, <1>3, <1>4, AppendedKeeps
<1>8. faults = 0 => Whole(x)
  BY <1>2, <1>3, <1>4, <1>5, AppendedWhole
<1>9. ASSUME \A t \in Sinks : Option[t].path = p => Option[t].kind = "file", p \notin Shared
      PROVE  FirstOnly(x.disk) /\ FirstOnly(Stream(x))
  <2>1. Option[s].kind = "file" /\ FirstOnly(Stream(w))
    BY <1>1, <1>2, <1>3, <1>4, <1>9 DEF QuietInv, HeadsFirst
  <2>2. FirstOnly(Stream(x))
    BY <1>2, <1>3, <1>4, <1>9, <2>1, AppendedHead
  <2>3. x.disk \in Seq(DiskCell) /\ x.at.buffer \in Seq(DiskCell)
    BY <1>7, ViewFields
  <2> HIDE DEF x
  <2> QED
    BY <2>2, <2>3, HeadCut DEF Stream
<1> HIDE DEF x
<1>10. a \in Seq(Nat) /\ accepted' = [accepted EXCEPT ![s] = a]
  <2>1. CASE x.ok
    BY <1>1, <1>2, <2>1
  <2>2. CASE ~x.ok
    BY <1>1, <1>2, <2>2
  <2> QED
    BY <2>1, <2>2
<1>11. Turn(s, x, a, closing[s])
  BY <1>1, <1>2, <1>7, <1>10 DEF Turn
<1>12. /\ events' \in Nat /\ events <= events'
       /\ \A i \in DOMAIN a : a[i] \in 1..events'
  <2>1. events' \in Nat /\ events <= events' /\ events' = e /\ e = events + 1
    BY <1>1, <1>2 DEF e
  <2>2. ASSUME NEW i \in DOMAIN a PROVE a[i] \in 1..events'
    <3>1. CASE i \in DOMAIN accepted[s] /\ a[i] = accepted[s][i]
      BY <1>2, <1>6, <2>1, <3>1
    <3>2. CASE a[i] = e
      BY <1>2, <2>1, <3>2
    <3>3. \/ i \in DOMAIN accepted[s] /\ a[i] = accepted[s][i]
          \/ a[i] = e
      <4>1. \A j \in DOMAIN Append(accepted[s], e) :
              \/ j \in DOMAIN accepted[s] /\ Append(accepted[s], e)[j] = accepted[s][j]
              \/ Append(accepted[s], e)[j] = e
        BY <1>2
      <4> QED
        BY <2>2, <4>1
    <3> QED
      BY <3>1, <3>2, <3>3
  <2> QED
    BY <2>1, <2>2
<1> HIDE DEF a
<1>13. Begun' = Begun
  BY <1>1 DEF Begun
<1>14. p \notin Shared => \A t \in Begun : t # s /\ Option[t].path = p => closing[t] # "open"
  BY <1>1, <1>2, <1>4, OpenIsAlone
<1> QED
  BY <1>1, <1>2, <1>4, <1>8, <1>9, <1>11, <1>12, <1>13, <1>14, TurnQuiet

LEMMA FlushQuiet ==
    ASSUME QuietInv, SinkInv', NEW s \in Sinks, FlushSink(s)
    PROVE  QuietInv'
<1> DEFINE w == View(s)
           x == FlushWriter(s, w)
           p == Option[s].path
           a == accepted[s]
<1>1. /\ s \in Begun /\ ~sink[s].closed /\ Keep(s, x) /\ events' = events
      /\ accepted' = accepted /\ closing' = closing /\ begun' = begun /\ faults' = faults
  BY DEF FlushSink
<1>2. /\ SinkInv /\ events \in Nat /\ a \in Seq(Nat)
      /\ accepted = [accepted EXCEPT ![s] = a] /\ p \in Paths
      /\ closing = [closing EXCEPT ![s] = closing[s]]
  BY SinkOptions DEF QuietInv, SinkInv, SinkTypes
<1>3. /\ w \in Views /\ Roomy(s, w) /\ w.disk = disk[p] /\ w.at = sink[s]
      /\ Stream(w) = disk[p] \o sink[s].buffer
  BY <1>2, ViewNow
<1>4. closing[s] = "open" /\ (w.at.held /\ p \notin Shared => AtEnd(s, w))
  BY <1>1, <1>2, OpenNow
<1>5. (faults = 0 => Whole(w)) /\ \A i \in DOMAIN a : a[i] \in 1..events
  BY DEF QuietInv
<1> HIDE DEF w
<1>6. x \in Views /\ (faults = 0 => Whole(x))
  BY <1>3, <1>5, WholeFlush, FlushContinues DEF Continues, Grows
<1>7. ASSUME \A t \in Sinks : Option[t].path = p => Option[t].kind = "file", p \notin Shared
      PROVE  FirstOnly(x.disk) /\ FirstOnly(Stream(x))
  <2>1. FirstOnly(Stream(w))
    BY <1>1, <1>2, <1>3, <1>4, <1>7 DEF QuietInv, HeadsFirst
  <2>2. FirstOnly(Stream(x))
    BY <1>3, <1>4, <1>7, <2>1, FlushedHead
  <2>3. x.disk \in Seq(DiskCell) /\ x.at.buffer \in Seq(DiskCell)
    BY <1>6, ViewFields
  <2> HIDE DEF x
  <2> QED
    BY <2>2, <2>3, HeadCut DEF Stream
<1> HIDE DEF x
<1>8. Turn(s, x, a, closing[s])
  BY <1>1, <1>2, <1>6 DEF Turn
<1>9. Begun' = Begun /\ events' \in Nat /\ events <= events'
  BY <1>1, <1>2 DEF Begun
<1>10. p \notin Shared => \A t \in Begun : t # s /\ Option[t].path = p => closing[t] # "open"
  BY <1>1, <1>2, <1>4, OpenIsAlone
<1> HIDE DEF a
<1> QED
  BY <1>1, <1>2, <1>4, <1>5, <1>6, <1>7, <1>8, <1>9, <1>10, TurnQuiet

(* What a close leaves.                                                    *)
LEMMA CloseLeaves ==
    ASSUME SinkInv, NEW s \in Sinks, CloseSink(s)
    PROVE  \E y \in Views :
             /\ Turn(s, y, accepted[s], IF ~Closed(s, View(s)).ok THEN "failed"
                                        ELSE IF Started(s, View(s)) THEN "closed" ELSE "unused")
             /\ y.disk = Closed(s, View(s)).disk /\ y.room = Closed(s, View(s)).room
             /\ y.at.buffer = <<>>
             /\ Closed(s, View(s)).at.broken = FALSE => y.at.broken = FALSE
<1> DEFINE w == View(s)
           x == Closed(s, w)
           gone == IF Owns(s) THEN NoFile ELSE x.at
           y == [x EXCEPT !.at = [gone EXCEPT !.closed = TRUE]]
           how == IF ~x.ok THEN "failed" ELSE IF Started(s, w) THEN "closed" ELSE "unused"
           a == accepted[s]
<1>1. /\ Keep(s, y) /\ accepted' = accepted /\ closing' = [closing EXCEPT ![s] = how]
  BY DEF CloseSink
<1>2. a \in Seq(Nat) /\ accepted = [accepted EXCEPT ![s] = a]
  BY DEF SinkInv, SinkTypes
<1>3. w \in Views /\ Roomy(s, w) /\ w.ok = TRUE
  BY ViewNow
<1> HIDE DEF w
<1>4. x \in Views /\ Roomy(s, x)
  BY <1>3, ClosedKeeps
<1> HIDE DEF x, how
<1>5. x.at \in Fields
  BY <1>4, ViewFields
<1>6. /\ gone \in Fields /\ gone.buffer = <<>>
      /\ x.at.broken = FALSE => gone.broken = FALSE
  BY <1>4, <1>5, NoFileIs DEF Roomy, Buffered
<1> HIDE DEF gone
<1>7. /\ y \in Views /\ y.disk = x.disk /\ y.room = x.room /\ y.at.buffer = <<>>
      /\ y.at.broken = gone.broken
  BY <1>4, <1>6 DEF Views, Fields
<1> HIDE DEF y, a
<1>8. Turn(s, y, a, how)
  BY <1>1, <1>2, <1>7 DEF Turn
<1> QED
  BY <1>6, <1>7, <1>8 DEF how, x, w, a

LEMMA CloseQuiet ==
    ASSUME QuietInv, SinkInv', NEW s \in Sinks, CloseSink(s)
    PROVE  QuietInv'
<1> DEFINE w == View(s)
           x == Closed(s, w)
           how == IF ~x.ok THEN "failed" ELSE IF Started(s, w) THEN "closed" ELSE "unused"
           p == Option[s].path
           a == accepted[s]
<1>1. /\ s \in Begun /\ ~sink[s].closed /\ events' = events
      /\ begun' = begun /\ faults' = faults
  BY DEF CloseSink
<1>2. SinkInv /\ events \in Nat /\ p \in Paths
  BY SinkOptions DEF QuietInv, SinkInv, SinkTypes
<1>3. PICK y \in Views :
        /\ Turn(s, y, a, how) /\ y.disk = x.disk /\ y.room = x.room
        /\ y.at.buffer = <<>>
        /\ x.at.broken = FALSE => y.at.broken = FALSE
  BY <1>2, CloseLeaves
<1>4. /\ w \in Views /\ Roomy(s, w) /\ w.ok = TRUE /\ w.disk = disk[p] /\ w.at = sink[s]
      /\ Stream(w) = disk[p] \o sink[s].buffer
  BY <1>2, ViewNow
<1>5. /\ closing[s] = "open" /\ (w.at.held /\ p \notin Shared => AtEnd(s, w))
      /\ ~w.at.held => w.at.buffer = <<>>
  BY <1>1, <1>2, OpenNow
<1>6. (faults = 0 => Whole(w)) /\ \A i \in DOMAIN a : a[i] \in 1..events
  BY DEF QuietInv
<1> HIDE DEF w
<1>7. x \in Views /\ (faults = 0 => Whole(x))
  BY <1>4, <1>6, ClosedWhole, ClosedKeeps
<1>8. faults = 0 => Whole(y)
  <2>1. x.at.broken \in BOOLEAN
    BY <1>7, ViewFields
  <2> HIDE DEF x
  <2> QED
    BY <1>3, <1>7, <2>1 DEF Whole
<1>9. ASSUME \A t \in Sinks : Option[t].path = p => Option[t].kind = "file", p \notin Shared
      PROVE  FirstOnly(y.disk)
  <2>1. Option[s].kind = "file" /\ FirstOnly(Stream(w))
    BY <1>1, <1>2, <1>4, <1>5, <1>9 DEF QuietInv, HeadsFirst
  <2>2. FirstOnly(x.disk)
    BY <1>4, <1>5, <1>9, <2>1, ClosedHead
  <2> QED
    BY <1>3, <2>2
<1>10. how # "open"
  OBVIOUS
<1> HIDE DEF x, how
<1>11. Begun' = Begun /\ events' \in Nat /\ events <= events'
  BY <1>1, <1>2 DEF Begun
<1>12. p \notin Shared => \A t \in Begun : t # s /\ Option[t].path = p => closing[t] # "open"
  BY <1>1, <1>2, <1>5, OpenIsAlone
<1> HIDE DEF a
<1> QED
  BY <1>1, <1>2, <1>3, <1>6, <1>8, <1>9, <1>10, <1>11, <1>12, TurnQuiet

LEMMA DeathQuiet ==
    ASSUME QuietInv, SinkInv', ProcessDies
    PROVE  QuietInv'
<1> DEFINE lost == {s \in Begun : closing[s] = "open"}
           dead == [NoFile EXCEPT !.closed = TRUE]
<1>1. /\ sink' = [s \in Sinks |-> IF s \in lost THEN dead ELSE sink[s]]
      /\ closing' = [s \in Sinks |-> IF s \in lost THEN "died" ELSE closing[s]]
      /\ faults' = faults + 1
      /\ UNCHANGED <<disk, room, accepted, begun, events>>
  BY DEF ProcessDies
<1>2. dead.buffer = <<>>
  BY NoFileFields DEF Fields
<1> HIDE DEF dead
<1>3. Begun' = Begun /\ Begun \subseteq Sinks
  BY <1>1, BegunAre DEF QuietInv, Begun
<1>4. \A t \in Begun : closing'[t] # "open" /\ (t \in lost => sink'[t] = dead)
                       /\ (t \notin lost => sink'[t] = sink[t] /\ closing[t] # "open")
  BY <1>1, <1>3
<1>5. \A t \in Begun' : closing'[t] # "open" => sink'[t].buffer = <<>>
  BY <1>2, <1>3, <1>4 DEF QuietInv
<1>6. faults' \in Nat /\ faults' # 0
  BY <1>1 DEF QuietInv
<1>7. \A p \in Paths \ Shared : HeadsFirst(p)'
  BY <1>1, <1>3, <1>4 DEF QuietInv, HeadsFirst
<1> QED
  BY <1>1, <1>5, <1>6, <1>7 DEF QuietInv

LEMMA RoomQuiet ==
    ASSUME QuietInv, SinkInv', UNCHANGED <<disk, sink, accepted, closing, begun, events>>,
           faults' \in Nat, faults' = 0 => room' = room /\ faults = 0
    PROVE  QuietInv'
<1>1. Begun' = Begun
  BY DEF Begun
<1>2. \A p \in Paths \ Shared : HeadsFirst(p)'
  BY <1>1 DEF QuietInv, HeadsFirst
<1>3. ASSUME faults' = 0, NEW s \in Sinks
      PROVE  /\ Whole(View(s))'
             /\ s \notin Begun' => sink'[s] = NoFile /\ closing'[s] = "open"
  <2>1. Whole(View(s)) /\ (s \notin Begun => sink[s] = NoFile /\ closing[s] = "open")
    BY <1>3 DEF QuietInv
  <2>2. Whole(View(s))'
    BY <1>3, <2>1 DEF Whole, View
  <2> QED
    BY <1>1, <2>1, <2>2
<1>4. faults' = 0 => room' = Plenty
  BY DEF QuietInv
<1> QED
  BY <1>1, <1>2, <1>3, <1>4 DEF QuietInv

LEMMA QuietBegins == SinkInit => QuietInv
<1> SUFFICES ASSUME SinkInit PROVE QuietInv
  OBVIOUS
<1>1. SinkInv /\ Begun = {}
  BY SinksBegin DEF SinkInit, Begun, ToSet
<1>2. \A s \in Sinks : accepted[s] = <<>> /\ sink[s] = NoFile /\ closing[s] = "open"
  BY DEF SinkInit
<1>3. \A s \in Sinks : \A i \in DOMAIN accepted[s] : accepted[s][i] \in 1..events
  BY <1>2
<1>4. \A s \in Sinks : Whole(View(s))
  <2> TAKE s \in Sinks
  <2>1. room = Plenty /\ ~sink[s].broken
    BY <1>2, NoFileIs DEF SinkInit
  <2> QED
    BY <2>1 DEF Whole, View
<1>5. ASSUME NEW p \in Paths \ Shared PROVE HeadsFirst(p)
  <2>1. disk[p] = <<>>
    BY DEF SinkInit
  <2> QED
    BY <1>1, <2>1 DEF HeadsFirst, FirstOnly
<1>6. faults = 0 /\ room = Plenty
  BY DEF SinkInit
<1> QED
  BY <1>1, <1>2, <1>3, <1>4, <1>5, <1>6 DEF QuietInv

LEMMA QuietStep == QuietInv /\ [SinkNext]_sinkVars => QuietInv'
<1> SUFFICES ASSUME QuietInv, [SinkNext]_sinkVars PROVE QuietInv'
  OBVIOUS
<1>1. SinkInv'
  BY SinkStepKeeps DEF QuietInv
<1>2. ASSUME NEW s \in Sinks, NewSink(s) PROVE QuietInv'
  BY <1>1, <1>2, NewSinkQuiet
<1>3. ASSUME NEW s \in Sinks, FlushSink(s) PROVE QuietInv'
  BY <1>1, <1>3, FlushQuiet
<1>4. ASSUME NEW s \in Sinks, CloseSink(s) PROVE QuietInv'
  BY <1>1, <1>4, CloseQuiet
<1>5. ASSUME NEW s \in Sinks, NEW formats \in BOOLEAN, AppendEvent(s, formats) PROVE QuietInv'
  BY <1>1, <1>5, AppendQuiet
<1>6. ASSUME NEW n \in 0..2, DiskFills(n) PROVE QuietInv'
  <2>1. faults' \in Nat /\ faults' # 0
    BY <1>6 DEF DiskFills, QuietInv
  <2> QED
    BY <1>1, <1>6, <2>1, RoomQuiet DEF DiskFills
<1>7. ASSUME DiskFreed PROVE QuietInv'
  <2>1. faults' = faults /\ faults \in Nat /\ room' = Plenty
        /\ UNCHANGED <<disk, sink, accepted, closing, begun, events>>
    BY <1>7 DEF DiskFreed, QuietInv
  <2>2. faults = 0 => room = Plenty
    BY DEF QuietInv
  <2> QED
    BY <1>1, <2>1, <2>2, RoomQuiet
<1>8. ASSUME ProcessDies PROVE QuietInv'
  BY <1>1, <1>8, DeathQuiet
<1>9. ASSUME UNCHANGED sinkVars PROVE QuietInv'
  <2>1. faults \in Nat
    BY DEF QuietInv
  <2> QED
    BY <1>1, <1>9, <2>1, RoomQuiet DEF sinkVars
<1> QED
  BY <1>2, <1>3, <1>4, <1>5, <1>6, <1>7, <1>8, <1>9 DEF SinkNext

-----------------------------------------------------------------------------
(* What a path is meant to hold after each of the sinks begun so far:      *)
(* MeantContent without its recursion.                                     *)
Story(f, p) ==
    f = [n \in 0..Len(begun) |->
           IF n = 0 THEN <<>>
           ELSE IF Option[begun[n]].path = p THEN AfterSession(f[n - 1], begun[n])
           ELSE f[n - 1]]

(* The open sink of the path is telling its part, behind what was there;   *)
(* without one the file holds the whole.                                   *)
Tells(f, p) ==
    /\ \A n \in 0..Len(begun) : f[n] \in Seq(DiskCell)
    /\ \A i \in DOMAIN begun : Option[begun[i]].path = p /\ closing[begun[i]] = "open" =>
         Telling(begun[i], f[i - 1], View(begun[i]), accepted[begun[i]])
    /\ (\A s \in Begun : Option[s].path = p => closing[s] # "open") => disk[p] = f[Len(begun)]

LEMMA MeantIs ==
    ASSUME Len(begun) \in Nat, NEW p, NEW f, Story(f, p)
    PROVE  MeantContent(p) = f[Len(begun)]
<1> DEFINE n == Len(begun)
           Of(g) == [m \in 0..n |->
                       IF m = 0 THEN <<>>
                       ELSE IF Option[begun[m]].path = p THEN AfterSession(g[m - 1], begun[m])
                       ELSE g[m - 1]]
           after == CHOOSE g : g = Of(g)
<1>1. f = Of(f)
  BY Zenon DEF Story
<1>2. after = Of(after)
  BY <1>1, Zenon
<1>3. MeantContent(p) = after[n]
  BY Zenon DEF MeantContent
<1> HIDE DEF after, n
<1>4. \A m \in 0..n : /\ after[m] = IF m = 0 THEN <<>>
                                    ELSE IF Option[begun[m]].path = p
                                         THEN AfterSession(after[m - 1], begun[m])
                                    ELSE after[m - 1]
                      /\ f[m] = IF m = 0 THEN <<>>
                                ELSE IF Option[begun[m]].path = p
                                     THEN AfterSession(f[m - 1], begun[m])
                                ELSE f[m - 1]
  <2> TAKE m \in 0..n
  <2>1. Of(after)[m] = IF m = 0 THEN <<>>
                       ELSE IF Option[begun[m]].path = p
                            THEN AfterSession(after[m - 1], begun[m])
                       ELSE after[m - 1]
    BY Zenon
  <2>2. Of(f)[m] = IF m = 0 THEN <<>>
                   ELSE IF Option[begun[m]].path = p
                        THEN AfterSession(f[m - 1], begun[m])
                   ELSE f[m - 1]
    BY Zenon
  <2> HIDE DEF Of
  <2> QED
    BY <1>1, <1>2, <2>1, <2>2
<1>5. n \in Nat
  BY DEF n
<1> DEFINE wrong == {i \in 0..n : after[i] # f[i]}
<1>6. wrong = {}
  <2> SUFFICES ASSUME wrong # {} PROVE FALSE
    OBVIOUS
  <2>1. wrong \in SUBSET Nat
    BY <1>5
  <2>2. PICK i \in wrong : \A j \in wrong : i <= j
    BY <2>1, LeastNatural
  <2>3. i \in 0..n /\ after[i] # f[i]
    OBVIOUS
  <2>4. CASE i = 0
    BY <1>4, <2>3, <2>4
  <2>5. CASE i # 0
    <3>1. i - 1 \in 0..n /\ ~(i <= i - 1)
      BY <1>5, <2>3, <2>5
    <3>2. after[i - 1] = f[i - 1]
      BY <2>2, <3>1
    <3>3. /\ after[i] = IF Option[begun[i]].path = p THEN AfterSession(after[i - 1], begun[i])
                        ELSE after[i - 1]
          /\ f[i] = IF Option[begun[i]].path = p THEN AfterSession(f[i - 1], begun[i])
                    ELSE f[i - 1]
      BY <1>4, <2>3, <2>5
    <3> QED
      BY <2>3, <3>2, <3>3
  <2> QED
    BY <2>4, <2>5
<1>7. n \in 0..n
  BY <1>5
<1>8. after[n] = f[n]
  BY <1>6, <1>7
<1> QED
  BY <1>3, <1>8 DEF n

(* A sink another one's call leaves alone adds what it added before.       *)
Untouched(t) == sink'[t] = sink[t] /\ accepted'[t] = accepted[t] /\ closing'[t] = closing[t]

LEMMA SameSessions ==
    ASSUME NEW t \in Sinks, Untouched(t), NEW before
    PROVE  AfterSession(before, t)' = AfterSession(before, t)
<1>1. HasWritten(t)' = HasWritten(t) /\ accepted'[t] = accepted[t] /\ closing'[t] = closing[t]
  BY DEF HasWritten, Untouched
<1> QED
  BY <1>1, AfterIsTold

(* Only the sinks from place k on may have had a turn.                     *)
StillBefore(p, k) ==
    \A i \in 1..(k - 1) : /\ begun'[i] = begun[i]
                          /\ Option[begun[i]].path = p => Untouched(begun[i])

(* No sink behind place k writes to p.                                     *)
NoneBehind(p, k) == \A i \in (k + 1)..Len(begun') : Option[begun'[i]].path # p

(* g is the story f with a turn of the sink t at place k, which leads to   *)
(* end.                                                                    *)
Moved(g, end, f, p, k, t) ==
    /\ end = IF Option[t].path = p THEN AfterSession(f[k - 1], t)' ELSE f[k - 1]
    /\ Story(g, p)'
    /\ \A n \in 0..(k - 1) : g[n] = f[n]
    /\ \A n \in k..Len(begun') : g[n] = end

(* The story with a turn of the sink at place k, the last one of its path. *)
LEMMA StoryMoves ==
    ASSUME begun \in Seq(Sinks), begun' \in Seq(Sinks), NEW p, NEW f, Story(f, p),
           NEW k \in 1..Len(begun'), NEW t \in Sinks, begun'[k] = t, k <= Len(begun) + 1,
           StillBefore(p, k), NoneBehind(p, k)
    PROVE  \E g, end : Moved(g, end, f, p, k, t)
<1> DEFINE l == Len(begun')
<1>0. PICK end : end = IF Option[t].path = p THEN AfterSession(f[k - 1], t)' ELSE f[k - 1]
  OBVIOUS
<1>1. PICK g : g = [n \in 0..l |-> IF n < k THEN f[n] ELSE end]
  OBVIOUS
<1>2. Len(begun) \in Nat /\ l \in Nat /\ k \in Nat
  OBVIOUS
<1>3. \A n \in 0..(k - 1) : n \in 0..l /\ n \in 0..Len(begun) /\ g[n] = f[n]
  BY <1>1, <1>2
<1>4. \A n \in k..l : n \in 0..l /\ g[n] = end
  BY <1>1, <1>2
<1>5. ASSUME NEW n \in 0..l
      PROVE  g[n] = IF n = 0 THEN <<>>
                    ELSE IF Option[begun'[n]].path = p THEN AfterSession(g[n - 1], begun[n])'
                    ELSE g[n - 1]
  <2>1. CASE n = 0
    <3>1. n \in 0..(k - 1) /\ n \in 0..Len(begun)
      BY <1>2, <2>1
    <3>2. f[n] = <<>>
      BY <2>1, <3>1 DEF Story
    <3> QED
      BY <1>3, <2>1, <3>1, <3>2
  <2>2. CASE n # 0 /\ n < k
    <3>1. n \in 1..(k - 1) /\ n - 1 \in 0..(k - 1) /\ n \in 0..(k - 1) /\ n \in 0..Len(begun)
          /\ n \in DOMAIN begun
      BY <1>2, <2>2
    <3>2. f[n] = IF Option[begun[n]].path = p THEN AfterSession(f[n - 1], begun[n]) ELSE f[n - 1]
      BY <2>2, <3>1, Zenon DEF Story
    <3>3. begun'[n] = begun[n] /\ begun[n] \in Sinks /\ g[n] = f[n] /\ g[n - 1] = f[n - 1]
      BY <1>3, <3>1 DEF StillBefore
    <3>4. CASE Option[begun[n]].path = p
      <4>1. PICK u \in Sinks : u = begun[n]
        BY <3>3
      <4>2. Untouched(u) /\ begun'[n] = u
        BY <3>1, <3>3, <3>4, <4>1 DEF StillBefore
      <4>3. AfterSession(g[n - 1], u)' = AfterSession(g[n - 1], u)
        BY <4>2, SameSessions
      <4>4. AfterSession(g[n - 1], begun[n])' = AfterSession(g[n - 1], u)'
        BY <4>2, Zenon
      <4> QED
        BY <2>2, <3>2, <3>3, <3>4, <4>1, <4>2, <4>3, <4>4
    <3>5. CASE Option[begun[n]].path # p
      BY <2>2, <3>2, <3>3, <3>5
    <3> QED
      BY <3>4, <3>5
  <2>3. CASE n = k
    <3>1. g[n] = end /\ g[n - 1] = f[k - 1] /\ n # 0
      BY <1>2, <1>3, <1>4, <2>3
    <3>2. AfterSession(f[k - 1], begun[n])' = AfterSession(f[k - 1], t)'
      <4>1. begun'[n] = t
        BY <2>3
      <4> QED
        BY <4>1, Zenon
    <3>3. begun'[n] = t /\ n - 1 = k - 1
      BY <2>3
    <3> QED
      BY <1>0, <3>1, <3>2, <3>3
  <2>4. CASE n > k
    <3>1. n \in (k + 1)..l /\ n \in k..l /\ n - 1 \in k..l /\ n # 0
      BY <1>2, <2>4
    <3>2. g[n] = end /\ g[n - 1] = end /\ Option[begun'[n]].path # p
      BY <1>4, <3>1 DEF NoneBehind
    <3> QED
      BY <3>1, <3>2
  <2> QED
    BY <1>2, <2>1, <2>2, <2>3, <2>4
<1>6. Story(g, p)'
  <2> DEFINE val(n) == IF n < k THEN f[n] ELSE end
             body(n) == IF n = 0 THEN <<>>
                        ELSE IF Option[begun'[n]].path = p THEN AfterSession(g[n - 1], begun[n])'
                        ELSE g[n - 1]
  <2>1. g = [n \in 0..l |-> val(n)]
    BY <1>1
  <2>2. \A n \in 0..l : g[n] = val(n)
    BY <2>1
  <2>3. \A n \in 0..l : val(n) = body(n)
    BY <1>5, <2>2
  <2> HIDE DEF val
  <2>4. g = [n \in 0..l |-> body(n)]
    BY <2>1, <2>3, Zenon
  <2> QED
    BY <2>4, Zenon DEF Story
<1> QED
  BY <1>0, <1>3, <1>4, <1>6 DEF Moved

(* Where nothing happens on a path its story stays.                        *)
LEMMA StoryStays ==
    ASSUME begun \in Seq(Sinks), begun' = begun, NEW p, NEW f, Story(f, p),
           \A i \in DOMAIN begun : Option[begun[i]].path = p => Untouched(begun[i])
    PROVE  Story(f, p)'
<1> DEFINE old(n) == IF n = 0 THEN <<>>
                     ELSE IF Option[begun[n]].path = p THEN AfterSession(f[n - 1], begun[n])
                     ELSE f[n - 1]
           new(n) == IF n = 0 THEN <<>>
                     ELSE IF Option[begun'[n]].path = p THEN AfterSession(f[n - 1], begun[n])'
                     ELSE f[n - 1]
<1>1. f = [n \in 0..Len(begun) |-> old(n)]
  BY Zenon DEF Story
<1>2. ASSUME NEW n \in 0..Len(begun) PROVE old(n) = new(n)
  <2>1. CASE n # 0 /\ Option[begun[n]].path = p
    <3>1. n \in DOMAIN begun /\ begun[n] \in Sinks
      BY <2>1
    <3>2. PICK u \in Sinks : u = begun[n]
      BY <3>1
    <3>3. Untouched(u) /\ begun'[n] = u
      BY <2>1, <3>1, <3>2
    <3>4. AfterSession(f[n - 1], u)' = AfterSession(f[n - 1], u)
      BY <3>3, SameSessions
    <3>5. AfterSession(f[n - 1], begun[n])' = AfterSession(f[n - 1], u)'
      BY <3>3, Zenon
    <3> QED
      BY <2>1, <3>2, <3>3, <3>4, <3>5
  <2>2. CASE ~(n # 0 /\ Option[begun[n]].path = p)
    BY <2>2
  <2> QED
    BY <2>1, <2>2
<1> HIDE DEF old
<1>3. f = [n \in 0..Len(begun') |-> new(n)]
  BY <1>1, <1>2, Zenon
<1> QED
  BY <1>3, Zenon DEF Story

LEMMA WrittenOrNot ==
    ASSUME SinkTypes, SinkTypes', NEW t \in Sinks
    PROVE  HasWritten(t) \in BOOLEAN /\ HasWritten(t)' \in BOOLEAN
<1>1. sink[t] \in Fields /\ sink'[t] \in Fields
  BY DEF SinkTypes
<1>2. /\ sink[t].started \in BOOLEAN /\ sink[t].held \in BOOLEAN
      /\ sink'[t].started \in BOOLEAN /\ sink'[t].held \in BOOLEAN
  BY <1>1 DEF Fields
<1> QED
  BY <1>2 DEF HasWritten

(* A call of an open sink that goes on telling, or ends as it should.      *)
LEMMA TurnTells ==
    ASSUME SinkInv, SinkTypes', NEW s \in Begun, closing[s] = "open",
           NEW x, NEW a, NEW c, Turn(s, x, a, c), begun' = begun, room' = room,
           NEW p \in Paths \ Shared, NEW f, Story(f, p), Tells(f, p),
           Option[s].path = p =>
             \A before \in Seq(DiskCell) : Telling(s, before, View(s), accepted[s]) =>
               /\ c = "open" => x.ok = TRUE /\ Telling(s, before, x, a)
               /\ c # "open" => x.disk = Told(s, before, HasWritten(s)', a, TRUE)
    PROVE  \E g : Story(g, p)' /\ Tells(g, p)'
<1>1. /\ begun \in Seq(Sinks) /\ Begun \subseteq Sinks /\ Len(begun) \in Nat
      /\ DOMAIN begun = 1..Len(begun)
      /\ \A i \in DOMAIN begun : begun[i] \in Begun /\ begun[i] \in Sinks
      /\ \A t \in Begun : \E i \in DOMAIN begun : begun[i] = t
  BY BegunAre
<1>2. s \in Sinks /\ SinkTypes
  BY <1>1 DEF SinkInv
<1>3. /\ disk'[Option[s].path] = x.disk /\ room' = x.room
      /\ sink'[s] = x.at /\ accepted'[s] = a /\ closing'[s] = c
      /\ \A q \in Paths : q # Option[s].path => disk'[q] = disk[q]
      /\ \A t \in Sinks : t # s => /\ sink'[t] = sink[t] /\ accepted'[t] = accepted[t]
                                   /\ closing'[t] = closing[t]
      /\ x \in Views /\ a \in Seq(Nat)
  <2>1. x \in Views /\ a \in Seq(Nat)
    BY DEF Turn
  <2> QED
    BY <1>2, <2>1, TurnIs
<1>4. /\ \A n \in 0..Len(begun) : f[n] \in Seq(DiskCell)
      /\ \A i \in DOMAIN begun : Option[begun[i]].path = p /\ closing[begun[i]] = "open" =>
           Telling(begun[i], f[i - 1], View(begun[i]), accepted[begun[i]])
      /\ (\A t \in Begun : Option[t].path = p => closing[t] # "open") =>
           disk[p] = f[Len(begun)]
  BY DEF Tells
<1>5. Begun' = Begun
  BY DEF Begun
<1>6. CASE Option[s].path # p
  <2>1. Story(f, p)'
    <3>1. ASSUME NEW i \in DOMAIN begun, Option[begun[i]].path = p PROVE Untouched(begun[i])
      BY <1>1, <1>3, <1>6, <3>1 DEF Untouched
    <3> QED
      BY <1>1, <3>1, StoryStays
  <2>2. disk'[p] = disk[p]
    BY <1>3, <1>6
  <2>3. ASSUME NEW t \in Sinks, Option[t].path = p
        PROVE  View(t)' = View(t) /\ accepted'[t] = accepted[t] /\ closing'[t] = closing[t]
    BY <1>3, <1>6, <2>2, <2>3 DEF View
  <2>4. ASSUME NEW i \in DOMAIN begun', Option[begun'[i]].path = p, closing'[begun'[i]] = "open"
        PROVE  Telling(begun[i], f[i - 1], View(begun[i]), accepted[begun[i]])'
    <3>1. PICK u \in Sinks : u = begun[i] /\ begun'[i] = u /\ i \in DOMAIN begun
      BY <1>1, <2>4
    <3>2. Telling(u, f[i - 1], View(u), accepted[u])
      BY <1>3, <1>4, <1>6, <2>4, <3>1
    <3>3. View(u)' = View(u) /\ accepted'[u] = accepted[u]
      BY <2>3, <2>4, <3>1
    <3>4. View(begun[i])' = View(u)'
      BY <3>1, Zenon
    <3> QED
      BY <3>1, <3>2, <3>3, <3>4
  <2>5. (\A t \in Begun' : Option[t].path = p => closing'[t] # "open") =>
          disk'[p] = f[Len(begun')]
    BY <1>1, <1>4, <1>5, <2>2, <2>3
  <2> QED
    BY <1>4, <2>1, <2>4, <2>5, Zenon DEF Tells
<1>7. CASE Option[s].path = p
  <2>1. PICK k \in DOMAIN begun : begun[k] = s
    BY <1>1
  <2>2. /\ \A j \in DOMAIN begun : j > k => Option[begun[j]].path # p
        /\ \A j \in DOMAIN begun :
             Option[begun[j]].path = p /\ closing[begun[j]] = "open" => j = k
    BY <1>7, <2>1, OpenIsLast
  <2>3. /\ k \in 1..Len(begun') /\ begun'[k] = s /\ k <= Len(begun) + 1 /\ k \in Nat
        /\ k - 1 \in 0..Len(begun) /\ k - 1 \in 0..(k - 1)
        /\ \A i \in (k + 1)..Len(begun') : i \in DOMAIN begun /\ i > k
        /\ \A i \in 1..(k - 1) : i \in DOMAIN begun /\ i # k
        /\ \A n \in 0..Len(begun) : n \in 0..(k - 1) \/ n \in k..Len(begun')
        /\ Len(begun') \in k..Len(begun')
    BY <1>1, <2>1
  <2>4. \A i \in 1..(k - 1) : /\ begun'[i] = begun[i]
                              /\ Option[begun[i]].path = p => Untouched(begun[i])
    <3> TAKE i \in 1..(k - 1)
    <3>1. ASSUME Option[begun[i]].path = p PROVE begun[i] # s /\ begun[i] \in Sinks
      BY <1>1, <2>2, <2>3, <3>1
    <3> QED
      BY <1>3, <3>1 DEF Untouched
  <2>5. \A i \in (k + 1)..Len(begun') : Option[begun'[i]].path # p
    BY <2>2, <2>3
  <2>6. begun' \in Seq(Sinks)
    BY <1>1
  <2>7. PICK g, end : /\ end = IF Option[s].path = p THEN AfterSession(f[k - 1], s)' ELSE f[k - 1]
                      /\ Story(g, p)'
                      /\ \A n \in 0..(k - 1) : g[n] = f[n]
                      /\ \A n \in k..Len(begun') : g[n] = end
    <3>1. /\ begun \in Seq(Sinks) /\ begun' \in Seq(Sinks) /\ begun'[k] = s
          /\ k \in 1..Len(begun') /\ s \in Sinks /\ k <= Len(begun) + 1
      BY <1>1, <1>2, <2>3, <2>6
    <3>2. StillBefore(p, k) /\ NoneBehind(p, k)
      BY <2>4, <2>5 DEF StillBefore, NoneBehind
    <3>3. \E g, end : Moved(g, end, f, p, k, s)
      BY <3>1, <3>2, StoryMoves
    <3> QED
      BY <3>3, Zenon DEF Moved
  <2>8. end = Told(s, f[k - 1], HasWritten(s)', a, c # "open")
    BY <1>2, <1>3, <1>7, <2>7, AfterIsTold
  <2>9. f[k - 1] \in Seq(DiskCell) /\ f[k - 1] = g[k - 1]
    BY <1>4, <2>3, <2>7
  <2>10. end \in Seq(DiskCell)
    <3>1. HasWritten(s)' \in BOOLEAN
      BY <1>2, WrittenOrNot
    <3>2. (c # "open") \in BOOLEAN /\ 0 \in Nat
      OBVIOUS
    <3>3. \A b \in BOOLEAN, e \in BOOLEAN : Told(s, f[k - 1], b, a, e) \in Seq(DiskCell)
      BY <1>2, <1>3, <2>9, <3>2, ToldMore
    <3> QED
      BY <2>8, <3>1, <3>2, <3>3
  <2>11. \A n \in 0..Len(begun') : g[n] \in Seq(DiskCell)
    BY <1>4, <2>3, <2>7, <2>10
  <2>12. Telling(s, f[k - 1], View(s), accepted[s])
    BY <1>4, <1>7, <2>1
  <2>13. /\ c = "open" => x.ok = TRUE /\ Telling(s, f[k - 1], x, a)
         /\ c # "open" => x.disk = Told(s, f[k - 1], HasWritten(s)', a, TRUE)
    BY <1>7, <2>9, <2>12
  <2>14. ASSUME NEW i \in DOMAIN begun', Option[begun'[i]].path = p, closing'[begun'[i]] = "open"
         PROVE  Telling(begun[i], g[i - 1], View(begun[i]), accepted[begun[i]])'
    <3>1. i = k /\ begun'[i] = s
      BY <1>1, <1>3, <2>1, <2>2, <2>14
    <3>2. c = "open"
      BY <1>3, <2>14, <3>1
    <3>3. View(s)' = x
      <4>1. x = [disk |-> x.disk, room |-> x.room, at |-> x.at, ok |-> TRUE]
        BY <1>3, <2>13, <3>2 DEF Views
      <4>2. View(s)' = [disk |-> disk'[Option[s].path], room |-> room', at |-> sink'[s], ok |-> TRUE]
        BY DEF View
      <4> QED
        BY <1>3, <4>1, <4>2
    <3>4. View(begun[i])' = View(s)'
      BY <3>1, Zenon
    <3> QED
      BY <1>3, <2>9, <2>13, <3>1, <3>2, <3>3, <3>4
  <2>15. (\A t \in Begun' : Option[t].path = p => closing'[t] # "open") =>
           disk'[p] = g[Len(begun')]
    <3> SUFFICES ASSUME \A t \in Begun' : Option[t].path = p => closing'[t] # "open"
                 PROVE  disk'[p] = g[Len(begun')]
      OBVIOUS
    <3>1. c # "open"
      BY <1>3, <1>5, <1>7
    <3>2. x.disk = Told(s, f[k - 1], HasWritten(s)', a, c # "open")
      <4>1. (c # "open") = TRUE
        BY <3>1
      <4> QED
        BY <2>13, <3>1, <4>1
    <3> QED
      BY <1>3, <1>7, <2>3, <2>7, <2>8, <3>2
  <2> QED
    BY <2>7, <2>11, <2>14, <2>15, Zenon DEF Tells
<1> QED
  BY <1>6, <1>7

(* A new sink, which finds its path closed.                                *)
LEMMA BeginTells ==
    ASSUME SinkInv, SinkTypes', NEW s \in Sinks, s \notin Begun,
           NEW x, Turn(s, x, <<>>, "open"), x.ok = TRUE, room' = room,
           begun' \in Seq(Sinks), Len(begun') = Len(begun) + 1, begun'[Len(begun) + 1] = s,
           \A i \in 1..Len(begun) : begun'[i] = begun[i], Begun' = Begun \cup {s},
           NEW p \in Paths \ Shared, NEW f, Story(f, p), Tells(f, p),
           Option[s].path = p =>
             /\ \A t \in Begun : Option[t].path = p => closing[t] # "open"
             /\ Telling(s, disk[p], x, <<>>)
    PROVE  \E g : Story(g, p)' /\ Tells(g, p)'
<1>0. PICK n, k : n = Len(begun) /\ k = Len(begun) + 1
  OBVIOUS
<1>1. /\ begun \in Seq(Sinks) /\ Begun \subseteq Sinks /\ n \in Nat
      /\ DOMAIN begun = 1..n
      /\ \A i \in DOMAIN begun : begun[i] \in Begun /\ begun[i] \in Sinks
      /\ \A t \in Begun : \E i \in DOMAIN begun : begun[i] = t
  BY <1>0, BegunAre
<1>2. /\ begun' \in Seq(Sinks) /\ Len(begun') = k /\ begun'[k] = s
      /\ \A i \in 1..n : begun'[i] = begun[i]
      /\ Begun' = Begun \cup {s}
  BY <1>0
<1>3. /\ disk'[Option[s].path] = x.disk /\ room' = x.room
      /\ sink'[s] = x.at /\ accepted'[s] = <<>> /\ closing'[s] = "open"
      /\ \A q \in Paths : q # Option[s].path => disk'[q] = disk[q]
      /\ \A t \in Sinks : t # s => /\ sink'[t] = sink[t] /\ accepted'[t] = accepted[t]
                                   /\ closing'[t] = closing[t]
      /\ x \in Views
  <2>1. x \in Views
    BY DEF Turn
  <2> QED
    BY <2>1, TurnIs DEF SinkInv
<1>4. /\ \A m \in 0..n : f[m] \in Seq(DiskCell)
      /\ \A i \in DOMAIN begun : Option[begun[i]].path = p /\ closing[begun[i]] = "open" =>
           Telling(begun[i], f[i - 1], View(begun[i]), accepted[begun[i]])
      /\ (\A t \in Begun : Option[t].path = p => closing[t] # "open") => disk[p] = f[n]
  BY <1>0 DEF Tells
<1>5. /\ k \in 1..Len(begun') /\ k <= n + 1 /\ k - 1 = n /\ k \in Nat /\ n \in 0..n
      /\ n \in 0..(k - 1)
      /\ \A i \in 1..(k - 1) : i \in 1..n /\ i \in DOMAIN begun
      /\ \A m \in 0..Len(begun') : m \in 0..n \/ m = k
      /\ \A m \in 0..n : m \in 0..(k - 1)
      /\ k \in k..Len(begun')
      /\ \A i \in DOMAIN begun' : i \in DOMAIN begun \/ i = k
      /\ \A i \in DOMAIN begun : i \in 1..n /\ i - 1 \in 0..(k - 1) /\ i # k
      /\ \A i \in (k + 1)..Len(begun') : FALSE
  BY <1>0, <1>1, <1>2
<1>7. \A i \in 1..(k - 1) : /\ begun'[i] = begun[i]
                            /\ Option[begun[i]].path = p => Untouched(begun[i])
  <2> TAKE i \in 1..(k - 1)
  <2>1. begun[i] \in Begun /\ begun[i] \in Sinks /\ begun[i] # s
    BY <1>1, <1>5
  <2> QED
    BY <1>2, <1>3, <1>5, <2>1 DEF Untouched
<1>8. PICK g, end : /\ end = IF Option[s].path = p THEN AfterSession(f[k - 1], s)' ELSE f[k - 1]
                    /\ Story(g, p)'
                    /\ \A m \in 0..(k - 1) : g[m] = f[m]
                    /\ \A m \in k..Len(begun') : g[m] = end
  <2>1. k <= Len(begun) + 1
    BY <1>0, <1>1
  <2>2. \A i \in (k + 1)..Len(begun') : Option[begun'[i]].path # p
    BY <1>5
  <2>3. begun \in Seq(Sinks) /\ begun' \in Seq(Sinks) /\ begun'[k] = s /\ k \in 1..Len(begun')
    BY <1>1, <1>2, <1>5
  <2>4. StillBefore(p, k) /\ NoneBehind(p, k)
    BY <1>7, <2>2 DEF StillBefore, NoneBehind
  <2>5. \E g, end : Moved(g, end, f, p, k, s)
    BY <2>1, <2>3, <2>4, StoryMoves
  <2> QED
    BY <2>5, Zenon DEF Moved
<1>9. f[n] \in Seq(DiskCell) /\ g[n] = f[n] /\ g[k] = end /\ g[k - 1] = f[n]
  BY <1>4, <1>5, <1>8
<1>10. end \in Seq(DiskCell)
  <2>1. CASE Option[s].path # p
    BY <1>5, <1>8, <1>9, <2>1
  <2>2. CASE Option[s].path = p
    <3>1. end = Told(s, f[n], HasWritten(s)', accepted'[s], closing'[s] # "open")
      <4>1. end = Told(s, f[k - 1], HasWritten(s)', accepted'[s], closing'[s] # "open")
        BY <1>8, <2>2, AfterIsTold
      <4>2. k - 1 = n
        BY <1>5
      <4> QED
        BY <4>1, <4>2
    <3>2. HasWritten(s)' \in BOOLEAN
      BY WrittenOrNot DEF SinkInv
    <3>3. (closing'[s] # "open") \in BOOLEAN /\ 0 \in Nat /\ <<>> \in Seq(Nat)
      OBVIOUS
    <3>4. \A b \in BOOLEAN, e \in BOOLEAN : Told(s, f[n], b, <<>>, e) \in Seq(DiskCell)
      BY <1>9, <3>3, ToldMore
    <3>5. accepted'[s] = <<>>
      BY <1>3
    <3> QED
      BY <3>1, <3>2, <3>3, <3>4, <3>5
  <2> QED
    BY <2>1, <2>2
<1>11. \A m \in 0..Len(begun') : g[m] \in Seq(DiskCell)
  BY <1>4, <1>5, <1>8, <1>9, <1>10
<1>12. ASSUME NEW t \in Begun, Option[t].path = p, closing'[t] = "open"
       PROVE  /\ Option[s].path # p /\ closing[t] = "open" /\ t # s /\ t \in Sinks
              /\ View(t)' = View(t) /\ accepted'[t] = accepted[t]
  <2>1. t # s /\ t \in Sinks
    BY <1>1
  <2>2. closing[t] = "open" /\ accepted'[t] = accepted[t] /\ sink'[t] = sink[t]
    BY <1>3, <1>12, <2>1
  <2>3. Option[s].path # p
    BY <1>12, <2>2
  <2>4. disk'[p] = disk[p]
    BY <1>3, <2>3
  <2> QED
    BY <1>12, <2>1, <2>2, <2>3, <2>4 DEF View
<1>13. ASSUME NEW i \in DOMAIN begun', Option[begun'[i]].path = p, closing'[begun'[i]] = "open"
       PROVE  Telling(begun[i], g[i - 1], View(begun[i]), accepted[begun[i]])'
  <2>1. CASE i \in DOMAIN begun
    <3>1. PICK u \in Sinks : u = begun[i] /\ begun'[i] = u /\ u \in Begun
      BY <1>1, <1>2, <1>5, <2>1
    <3>2. /\ closing[u] = "open" /\ View(u)' = View(u) /\ accepted'[u] = accepted[u]
      BY <1>12, <1>13, <3>1
    <3>3. Telling(u, f[i - 1], View(u), accepted[u])
      BY <1>4, <1>13, <2>1, <3>1, <3>2
    <3>4. g[i - 1] = f[i - 1]
      BY <1>5, <1>8, <2>1
    <3>5. View(begun[i])' = View(u)'
      BY <3>1, Zenon
    <3> QED
      BY <3>1, <3>2, <3>3, <3>4, <3>5
  <2>2. CASE i = k
    <3>1. begun'[i] = s /\ Option[s].path = p
      BY <1>2, <1>13, <2>2
    <3>2. disk[p] = f[n] /\ Telling(s, f[n], x, <<>>)
      BY <1>4, <3>1
    <3>3. View(s)' = x
      <4>1. x = [disk |-> x.disk, room |-> x.room, at |-> x.at, ok |-> TRUE]
        BY <1>3 DEF Views
      <4>2. View(s)' = [disk |-> disk'[Option[s].path], room |-> room', at |-> sink'[s], ok |-> TRUE]
        BY DEF View
      <4> QED
        BY <1>3, <4>1, <4>2
    <3>4. View(begun[i])' = View(s)'
      BY <3>1, Zenon
    <3>5. g[i - 1] = f[n]
      BY <1>9, <2>2
    <3> QED
      BY <1>3, <3>1, <3>2, <3>3, <3>4, <3>5
  <2> QED
    BY <1>5, <1>13, <2>1, <2>2
<1>14. (\A t \in Begun' : Option[t].path = p => closing'[t] # "open") =>
         disk'[p] = g[Len(begun')]
  <2> SUFFICES ASSUME \A t \in Begun' : Option[t].path = p => closing'[t] # "open"
               PROVE  disk'[p] = g[Len(begun')]
    OBVIOUS
  <2>1. Option[s].path # p
    BY <1>2, <1>3
  <2>2. \A t \in Begun : Option[t].path = p => closing[t] # "open"
    BY <1>1, <1>2, <1>3
  <2>3. disk'[p] = disk[p] /\ disk[p] = f[n] /\ end = f[n]
    BY <1>3, <1>4, <1>5, <1>8, <2>1, <2>2
  <2>4. Len(begun') = k
    BY <1>2
  <2> QED
    BY <1>9, <2>3, <2>4
<1> QED
  BY <1>8, <1>11, <1>13, <1>14, Zenon DEF Tells

TellInv == faults = 0 /\ NoneRefused =>
             \A p \in Paths \ Shared : \E f : Story(f, p) /\ Tells(f, p)

(* With no fault so far, the disk has room and no write has failed.        *)
LEMMA QuietNow ==
    ASSUME QuietInv, faults = 0, NEW s \in Sinks
    PROVE  /\ SinkInv /\ room = Plenty /\ Whole(View(s)) /\ Roomy(s, View(s))
           /\ View(s) \in Views /\ View(s).ok = TRUE
           /\ View(s).disk = disk[Option[s].path] /\ View(s).at = sink[s]
           /\ disk[Option[s].path] \in Seq(DiskCell) /\ accepted[s] \in Seq(Nat)
           /\ accepted = [accepted EXCEPT ![s] = accepted[s]]
           /\ closing = [closing EXCEPT ![s] = closing[s]]
<1>1. SinkInv /\ Whole(View(s))
  BY DEF QuietInv
<1>2. /\ Roomy(s, View(s)) /\ View(s) \in Views /\ View(s).ok = TRUE
      /\ View(s).disk = disk[Option[s].path] /\ View(s).at = sink[s]
  BY <1>1, ViewNow
<1>3. room = Plenty
  BY <1>1 DEF Whole, View
<1>4. /\ disk[Option[s].path] \in Seq(DiskCell) /\ accepted[s] \in Seq(Nat)
      /\ accepted = [accepted EXCEPT ![s] = accepted[s]]
      /\ closing = [closing EXCEPT ![s] = closing[s]]
  BY <1>1, SinkOptions DEF SinkInv, SinkTypes
<1> QED
  BY <1>1, <1>2, <1>3, <1>4

LEMMA NotRefused ==
    ASSUME QuietInv, NEW s \in Sinks, NEW formats \in BOOLEAN, AppendEvent(s, formats),
           NoneRefused'
    PROVE  NoneRefused /\ Appended(s, View(s), events + 1, formats).ok
<1> DEFINE e == events + 1
           x == Appended(s, View(s), e, formats)
<1>1. /\ events' = e
      /\ accepted' = IF x.ok THEN [accepted EXCEPT ![s] = Append(@, e)] ELSE accepted
  BY DEF AppendEvent
<1>2. /\ events \in Nat /\ accepted \in [Sinks -> Seq(Nat)]
      /\ \A t \in Sinks : \A i \in DOMAIN accepted[t] : accepted[t][i] \in 1..events
  BY DEF QuietInv, SinkInv, SinkTypes
<1> HIDE DEF x
<1>3. ASSUME ~x.ok PROVE FALSE
  <2>1. e \in 1..events' /\ ~(e \in 1..events)
    BY <1>1, <1>2
  <2>2. PICK t \in Sinks : e \in ToSet(accepted'[t])
    BY <2>1 DEF NoneRefused
  <2>3. e \in ToSet(accepted[t])
    BY <1>1, <1>3, <2>2
  <2> QED
    BY <1>2, <2>1, <2>3 DEF ToSet
<1>4. ASSUME NEW k \in 1..events, x.ok PROVE \E t \in Sinks : k \in ToSet(accepted[t])
  <2>1. k \in 1..events' /\ k # e
    BY <1>1, <1>2
  <2>2. PICK t \in Sinks : k \in ToSet(accepted'[t])
    BY <2>1 DEF NoneRefused
  <2>3. CASE t = s
    <3>1. accepted'[s] = Append(accepted[s], e) /\ accepted[s] \in Seq(Nat)
      BY <1>1, <1>2, <1>4
    <3>2. \A i \in DOMAIN Append(accepted[s], e) :
            \/ i \in DOMAIN accepted[s] /\ Append(accepted[s], e)[i] = accepted[s][i]
            \/ Append(accepted[s], e)[i] = e
      BY <3>1
    <3>3. PICK i \in DOMAIN Append(accepted[s], e) : k = Append(accepted[s], e)[i]
      BY <2>2, <2>3, <3>1 DEF ToSet
    <3>4. i \in DOMAIN accepted[s] /\ k = accepted[s][i]
      BY <2>1, <3>2, <3>3
    <3> QED
      BY <3>4 DEF ToSet
  <2>4. CASE t # s
    BY <1>1, <1>2, <1>4, <2>2, <2>4
  <2> QED
    BY <2>3, <2>4
<1> QED
  BY <1>3, <1>4 DEF NoneRefused, x

LEMMA NewSinkTells ==
    ASSUME QuietInv, SinkTypes', TellInv, NEW s \in Sinks, NewSink(s)
    PROVE  TellInv'
<1> SUFFICES ASSUME faults' = 0, NoneRefused', NEW p \in Paths \ Shared
             PROVE  \E g : Story(g, p)' /\ Tells(g, p)'
  BY DEF TellInv
<1> DEFINE w == View(s)
           x == Constructed(s, w)
           q == Option[s].path
           c == IF x.ok THEN "open" ELSE "failed"
<1>1. /\ s \notin Begun /\ Keep(s, x) /\ events' = events /\ accepted' = accepted
      /\ q \notin Shared => \A t \in Begun : Option[t].path = q => closing[t] # "open"
      /\ begun' = IF x.ok THEN Append(begun, s) ELSE begun
      /\ closing' = [closing EXCEPT ![s] = c] /\ faults' = faults
  BY DEF NewSink
<1>2. faults = 0 /\ NoneRefused
  BY <1>1 DEF NoneRefused
<1>3. PICK f : Story(f, p) /\ Tells(f, p)
  BY <1>2 DEF TellInv
<1>4. /\ SinkInv /\ room = Plenty /\ Whole(w) /\ Roomy(s, w) /\ w \in Views /\ w.ok = TRUE
      /\ w.disk = disk[q] /\ w.at = sink[s] /\ disk[q] \in Seq(DiskCell)
      /\ accepted[s] \in Seq(Nat) /\ accepted = [accepted EXCEPT ![s] = accepted[s]]
  BY <1>2, QuietNow
<1>5. w.at = NoFile
  BY <1>1, <1>2, <1>4 DEF QuietInv
<1>6. accepted[s] = <<>>
  BY <1>1, <1>4, FreshNow
<1> HIDE DEF w
<1>7. Telling(s, disk[q], x, <<>>) /\ x.ok = TRUE
  BY <1>4, <1>5, ConstructTells
<1> HIDE DEF x
<1>8. x \in Views /\ x.room = Plenty
  BY <1>7 DEF Telling, Whole
<1>9. Turn(s, x, <<>>, "open")
  <2>1. closing' = [closing EXCEPT ![s] = "open"]
    BY <1>1, <1>7
  <2>2. accepted' = [accepted EXCEPT ![s] = <<>>] /\ <<>> \in Seq(Nat)
    BY <1>1, <1>4, <1>6
  <2> QED
    BY <1>1, <1>8, <2>1, <2>2 DEF Turn
<1>10. room' = room
  BY <1>1, <1>4, <1>8 DEF Keep
<1>11. /\ begun' \in Seq(Sinks) /\ Len(begun') = Len(begun) + 1 /\ begun'[Len(begun) + 1] = s
       /\ \A i \in 1..Len(begun) : begun'[i] = begun[i]
       /\ Begun' = Begun \cup {s}
  BY <1>1, <1>4, <1>7, BegunMore
<1>12. q = p => /\ \A t \in Begun : Option[t].path = p => closing[t] # "open"
                /\ Telling(s, disk[p], x, <<>>)
  BY <1>1, <1>7
<1> QED
  BY <1>1, <1>3, <1>4, <1>7, <1>9, <1>10, <1>11, <1>12, BeginTells

LEMMA AppendEventTells ==
    ASSUME QuietInv, SinkTypes', TellInv, NEW s \in Sinks, NEW formats \in BOOLEAN,
           AppendEvent(s, formats)
    PROVE  TellInv'
<1> SUFFICES ASSUME faults' = 0, NoneRefused', NEW p \in Paths \ Shared
             PROVE  \E g : Story(g, p)' /\ Tells(g, p)'
  BY DEF TellInv
<1> DEFINE e == events + 1
           w == View(s)
           x == Appended(s, w, e, formats)
           a == Append(accepted[s], e)
<1>1. /\ s \in Begun /\ ~sink[s].closed /\ Keep(s, x) /\ events' = e
      /\ accepted' = IF x.ok THEN [accepted EXCEPT ![s] = Append(@, e)] ELSE accepted
      /\ closing' = closing /\ begun' = begun /\ faults' = faults
  BY DEF AppendEvent
<1>2. NoneRefused /\ x.ok /\ faults = 0
  BY <1>1, NotRefused
<1>3. PICK f : Story(f, p) /\ Tells(f, p)
  BY <1>2 DEF TellInv
<1>4. /\ SinkInv /\ room = Plenty /\ Whole(w) /\ Roomy(s, w) /\ w \in Views /\ w.ok = TRUE
      /\ w.at = sink[s]
      /\ accepted[s] \in Seq(Nat) /\ accepted = [accepted EXCEPT ![s] = accepted[s]]
      /\ closing = [closing EXCEPT ![s] = closing[s]]
  BY <1>2, QuietNow
<1>5. /\ closing[s] = "open" /\ ~w.at.closed
      /\ ~w.at.held => w.at.buffer = <<>>
      /\ Option[s].kind = "json" => w.at.held
  BY <1>1, <1>4, OpenNow
<1>6. e \in Nat
  BY DEF QuietInv, SinkInv, SinkTypes
<1> HIDE DEF w, e
<1>7. x \in Views /\ Whole(x)
  BY <1>4, <1>5, <1>6, AppendedKeeps, AppendedWhole
<1>8. x.ok = TRUE
  <2>1. x.ok \in BOOLEAN
    BY <1>7, ViewFields
  <2> HIDE DEF x
  <2> QED
    BY <1>2, <2>1
<1>9. ASSUME NEW before \in Seq(DiskCell), Telling(s, before, w, accepted[s])
      PROVE  Telling(s, before, x, a)
  BY <1>4, <1>6, <1>8, <1>9, AppendTells
<1> HIDE DEF x
<1>10. a \in Seq(Nat) /\ accepted' = [accepted EXCEPT ![s] = a]
  BY <1>1, <1>2, <1>4, <1>6
<1> HIDE DEF a
<1>11. Turn(s, x, a, "open")
  BY <1>1, <1>4, <1>5, <1>7, <1>10 DEF Turn
<1>12. room' = room
  BY <1>1, <1>4, <1>7 DEF Keep, Whole
<1>13. \A before \in Seq(DiskCell) : Telling(s, before, View(s), accepted[s]) =>
         /\ "open" = "open" => x.ok = TRUE /\ Telling(s, before, x, a)
         /\ "open" # "open" => x.disk = Told(s, before, HasWritten(s)', a, TRUE)
  BY <1>8, <1>9 DEF w
<1> QED
  BY <1>1, <1>3, <1>4, <1>5, <1>11, <1>12, <1>13, TurnTells

LEMMA FlushSinkTells ==
    ASSUME QuietInv, SinkTypes', TellInv, NEW s \in Sinks, FlushSink(s)
    PROVE  TellInv'
<1> SUFFICES ASSUME faults' = 0, NoneRefused', NEW p \in Paths \ Shared
             PROVE  \E g : Story(g, p)' /\ Tells(g, p)'
  BY DEF TellInv
<1> DEFINE w == View(s)
           x == FlushWriter(s, w)
           a == accepted[s]
<1>1. /\ s \in Begun /\ ~sink[s].closed /\ Keep(s, x) /\ events' = events
      /\ accepted' = accepted /\ closing' = closing /\ begun' = begun /\ faults' = faults
  BY DEF FlushSink
<1>2. NoneRefused /\ faults = 0
  BY <1>1 DEF NoneRefused
<1>3. PICK f : Story(f, p) /\ Tells(f, p)
  BY <1>2 DEF TellInv
<1>4. /\ SinkInv /\ room = Plenty /\ Whole(w) /\ Roomy(s, w) /\ w \in Views
      /\ a \in Seq(Nat) /\ accepted = [accepted EXCEPT ![s] = a]
      /\ closing = [closing EXCEPT ![s] = closing[s]]
  BY <1>2, QuietNow
<1>5. closing[s] = "open"
  BY <1>1, <1>4, OpenNow
<1> HIDE DEF w
<1>6. x \in Views /\ Whole(x) /\ x.ok = TRUE
  BY <1>4, WholeFlush, FlushContinues DEF Continues, Grows
<1>7. ASSUME NEW before \in Seq(DiskCell), Telling(s, before, w, a)
      PROVE  Telling(s, before, x, a)
  BY <1>4, <1>7, FlushTells
<1> HIDE DEF x
<1>8. Turn(s, x, a, "open")
  BY <1>1, <1>4, <1>5, <1>6 DEF Turn
<1>9. room' = room
  BY <1>1, <1>4, <1>6 DEF Keep, Whole
<1>10. \A before \in Seq(DiskCell) : Telling(s, before, View(s), accepted[s]) =>
         /\ "open" = "open" => x.ok = TRUE /\ Telling(s, before, x, a)
         /\ "open" # "open" => x.disk = Told(s, before, HasWritten(s)', a, TRUE)
  BY <1>6, <1>7 DEF w
<1> HIDE DEF a
<1> QED
  BY <1>1, <1>3, <1>4, <1>5, <1>8, <1>9, <1>10, TurnTells

LEMMA CloseSinkTells ==
    ASSUME QuietInv, SinkTypes', TellInv, NEW s \in Sinks, CloseSink(s)
    PROVE  TellInv'
<1> SUFFICES ASSUME faults' = 0, NoneRefused', NEW p \in Paths \ Shared
             PROVE  \E g : Story(g, p)' /\ Tells(g, p)'
  BY DEF TellInv
<1> DEFINE w == View(s)
           x == Closed(s, w)
           how == IF ~x.ok THEN "failed" ELSE IF Started(s, w) THEN "closed" ELSE "unused"
           a == accepted[s]
<1>1. /\ s \in Begun /\ ~sink[s].closed /\ events' = events /\ accepted' = accepted
      /\ begun' = begun /\ faults' = faults /\ closing' = [closing EXCEPT ![s] = how]
  BY DEF CloseSink
<1>2. NoneRefused /\ faults = 0
  BY <1>1 DEF NoneRefused
<1>3. PICK f : Story(f, p) /\ Tells(f, p)
  BY <1>2 DEF TellInv
<1>4. /\ SinkInv /\ room = Plenty /\ Whole(w) /\ Roomy(s, w) /\ w \in Views /\ w.ok = TRUE
      /\ a \in Seq(Nat)
  BY <1>2, QuietNow
<1>5. closing[s] = "open"
  BY <1>1, <1>4, OpenNow
<1>6. PICK y \in Views :
        /\ Turn(s, y, a, how) /\ y.disk = x.disk /\ y.room = x.room
        /\ y.at.buffer = <<>>
        /\ x.at.broken = FALSE => y.at.broken = FALSE
  BY <1>4, CloseLeaves
<1> HIDE DEF w
<1>7. Whole(x)
  BY <1>4, ClosedWhole
<1>8. ASSUME NEW before \in Seq(DiskCell), Telling(s, before, w, a)
      PROVE  x.ok = TRUE /\ x.disk = Told(s, before, Started(s, w), a, TRUE)
  BY <1>4, <1>8, CloseTells
<1>9. room' = room
  <2>1. Keep(s, y) /\ x.room = Plenty
    BY <1>6, <1>7 DEF Turn, Whole
  <2> QED
    BY <1>4, <1>6, <2>1 DEF Keep
<1>10. how # "open" /\ (x.ok = TRUE => how = IF Started(s, w) THEN "closed" ELSE "unused")
  OBVIOUS
<1>11. closing'[s] = how
  BY <1>1, <1>4 DEF SinkInv, SinkTypes
<1>12. Started(s, w) \in BOOLEAN
  BY <1>4, StartedIs
<1> HIDE DEF x, how
<1>13. x.ok = TRUE => HasWritten(s)' = Started(s, w)
  BY <1>10, <1>11, <1>12 DEF HasWritten
<1>14. \A before \in Seq(DiskCell) : Telling(s, before, View(s), accepted[s]) =>
         /\ how = "open" => y.ok = TRUE /\ Telling(s, before, y, a)
         /\ how # "open" => y.disk = Told(s, before, HasWritten(s)', a, TRUE)
  <2> SUFFICES ASSUME NEW before \in Seq(DiskCell), Telling(s, before, w, a)
               PROVE  y.disk = Told(s, before, HasWritten(s)', a, TRUE)
    BY <1>10 DEF w
  <2> QED
    BY <1>6, <1>8, <1>13
<1> HIDE DEF a
<1> QED
  BY <1>1, <1>3, <1>4, <1>5, <1>6, <1>9, <1>14, TurnTells

LEMMA QuietTells ==
    ASSUME QuietInv, TellInv, faults' \in Nat,
           UNCHANGED <<disk, sink, accepted, closing, begun, events>>,
           faults' = 0 => faults = 0 /\ room' = room
    PROVE  TellInv'
<1> SUFFICES ASSUME faults' = 0, NoneRefused', NEW p \in Paths \ Shared
             PROVE  \E g : Story(g, p)' /\ Tells(g, p)'
  BY DEF TellInv
<1>1. NoneRefused /\ faults = 0 /\ SinkInv /\ Begun' = Begun
  BY DEF NoneRefused, QuietInv, Begun
<1>2. PICK f : Story(f, p) /\ Tells(f, p)
  BY <1>1 DEF TellInv
<1>3. \A i \in DOMAIN begun : Untouched(begun[i])
  BY DEF Untouched
<1>4. Story(f, p)'
  BY <1>1, <1>2, <1>3, BegunAre, StoryStays
<1>5. \A t \in Sinks : View(t)' = View(t)
  BY <1>1 DEF View
<1>6. ASSUME NEW i \in DOMAIN begun', Option[begun'[i]].path = p, closing'[begun'[i]] = "open"
      PROVE  Telling(begun[i], f[i - 1], View(begun[i]), accepted[begun[i]])'
  <2>1. PICK u \in Sinks : u = begun[i] /\ begun'[i] = u
    BY <1>1, <1>6, BegunAre
  <2>2. Telling(u, f[i - 1], View(u), accepted[u])
    BY <1>2, <1>6, <2>1 DEF Tells
  <2>3. View(u)' = View(u) /\ accepted'[u] = accepted[u] /\ View(begun[i])' = View(u)'
    <3>1. View(begun[i])' = View(u)'
      BY <2>1, Zenon
    <3> QED
      BY <1>5, <3>1
  <2> QED
    BY <2>1, <2>2, <2>3
<1>7. /\ \A n \in 0..Len(begun') : f[n] \in Seq(DiskCell)
      /\ (\A s \in Begun' : Option[s].path = p => closing'[s] # "open") =>
           disk'[p] = f[Len(begun')]
  BY <1>1, <1>2 DEF Tells
<1> QED
  BY <1>4, <1>6, <1>7, Zenon DEF Tells

LEMMA TellingBegins == SinkInit => TellInv
<1> SUFFICES ASSUME SinkInit, NEW p \in Paths \ Shared
             PROVE  \E f : Story(f, p) /\ Tells(f, p)
  BY DEF TellInv
<1>1. begun = <<>> /\ disk[p] = <<>> /\ Len(begun) = 0 /\ 0..0 = {0} /\ DOMAIN begun = {}
  BY DEF SinkInit
<1>2. PICK f : f = [n \in 0..0 |-> <<>>]
  OBVIOUS
<1>3. f[0] = <<>> /\ <<>> \in Seq(DiskCell)
  BY <1>2
<1>4. Story(f, p)
  <2>1. \A n \in 0..0 : <<>> = IF n = 0 THEN <<>>
                               ELSE IF Option[begun[n]].path = p
                                    THEN AfterSession(f[n - 1], begun[n])
                               ELSE f[n - 1]
    BY <1>1
  <2>2. f = [n \in 0..0 |-> IF n = 0 THEN <<>>
                            ELSE IF Option[begun[n]].path = p
                                 THEN AfterSession(f[n - 1], begun[n])
                            ELSE f[n - 1]]
    BY <1>2, <2>1, Zenon
  <2> QED
    BY <1>1, <2>2, Zenon DEF Story
<1>5. Tells(f, p)
  BY <1>1, <1>3 DEF Tells
<1> QED
  BY <1>4, <1>5

LEMMA TellingStep == QuietInv /\ TellInv /\ [SinkNext]_sinkVars => TellInv'
<1> SUFFICES ASSUME QuietInv, TellInv, [SinkNext]_sinkVars PROVE TellInv'
  OBVIOUS
<1>1. SinkTypes' /\ faults \in Nat
  BY QuietStep DEF QuietInv, SinkInv
<1>2. ASSUME NEW s \in Sinks, NewSink(s) PROVE TellInv'
  BY <1>1, <1>2, NewSinkTells
<1>3. ASSUME NEW s \in Sinks, FlushSink(s) PROVE TellInv'
  BY <1>1, <1>3, FlushSinkTells
<1>4. ASSUME NEW s \in Sinks, CloseSink(s) PROVE TellInv'
  BY <1>1, <1>4, CloseSinkTells
<1>5. ASSUME NEW s \in Sinks, NEW formats \in BOOLEAN, AppendEvent(s, formats) PROVE TellInv'
  BY <1>1, <1>5, AppendEventTells
<1>6. ASSUME (\E n \in 0..2 : DiskFills(n)) \/ ProcessDies PROVE TellInv'
  <2>1. faults' = faults + 1
    BY <1>6 DEF DiskFills, ProcessDies
  <2> QED
    BY <1>1, <2>1 DEF TellInv
<1>7. ASSUME DiskFreed PROVE TellInv'
  <2>1. /\ faults' = faults /\ room # Plenty /\ room' = Plenty
        /\ UNCHANGED <<disk, sink, accepted, closing, begun, events>>
    BY <1>7 DEF DiskFreed
  <2>2. faults = 0 => room = Plenty
    BY DEF QuietInv
  <2> QED
    BY <1>1, <2>1, <2>2, QuietTells
<1>8. ASSUME UNCHANGED sinkVars PROVE TellInv'
  BY <1>1, <1>8, QuietTells DEF sinkVars
<1> QED
  BY <1>2, <1>3, <1>4, <1>5, <1>6, <1>7, <1>8 DEF SinkNext

(* What is buffered for a path is what its open sink holds.                *)
LEMMA PendingIs ==
    ASSUME QuietInv, NEW p \in Paths \ Shared
    PROVE  /\ \A k \in DOMAIN begun :
                Option[begun[k]].path = p /\ closing[begun[k]] = "open" =>
                  Pending(p) = sink[begun[k]].buffer
           /\ (\A s \in Begun : Option[s].path = p => closing[s] # "open") => Pending(p) = <<>>
<1> DEFINE seqs == [n \in DOMAIN begun |->
                      IF Option[begun[n]].path = p THEN sink[begun[n]].buffer ELSE <<>>]
<1>1. /\ SinkInv /\ begun \in Seq(Sinks) /\ Begun \subseteq Sinks /\ Len(begun) \in Nat
      /\ DOMAIN begun = 1..Len(begun)
      /\ \A i \in DOMAIN begun : begun[i] \in Begun /\ begun[i] \in Sinks
      /\ \A t \in Begun : \E i \in DOMAIN begun : begun[i] = t
  BY BegunAre DEF QuietInv
<1>2. \A t \in Sinks : sink[t].buffer \in Seq(DiskCell)
  BY <1>1 DEF SinkInv, SinkTypes, Fields
<1>3. \A t \in Begun : closing[t] # "open" => sink[t].buffer = <<>>
  BY DEF QuietInv
<1>4. seqs \in Seq(Seq(DiskCell)) /\ DOMAIN seqs = DOMAIN begun
  <2>1. <<>> \in Seq(DiskCell)
    OBVIOUS
  <2>2. seqs \in [1..Len(begun) -> Seq(DiskCell)]
    BY <1>1, <1>2, <2>1
  <2> HIDE DEF seqs
  <2> QED
    BY <1>1, <2>2, FunctionIsSequence
<1>5. Pending(p) = FlattenSeq(seqs)
  BY Zenon DEF Pending
<1>6. \A i \in DOMAIN begun :
        seqs[i] = IF Option[begun[i]].path = p THEN sink[begun[i]].buffer ELSE <<>>
  OBVIOUS
<1> HIDE DEF seqs
<1>7. ASSUME NEW k \in DOMAIN begun, Option[begun[k]].path = p, closing[begun[k]] = "open"
      PROVE  Pending(p) = sink[begun[k]].buffer
  <2>1. \A j \in DOMAIN begun :
          Option[begun[j]].path = p /\ closing[begun[j]] = "open" => j = k
    BY <1>1, <1>7, OpenIsLast
  <2>2. \A i \in DOMAIN seqs : i # k => seqs[i] = <<>>
    BY <1>1, <1>3, <1>4, <1>6, <2>1
  <2>3. FlattenSeq(seqs) = seqs[k]
    BY <1>4, <1>7, <2>2, FlattenedOne
  <2> QED
    BY <1>5, <1>6, <1>7, <2>3
<1>8. ASSUME \A s \in Begun : Option[s].path = p => closing[s] # "open"
      PROVE  Pending(p) = <<>>
  <2>1. \A i \in DOMAIN seqs : seqs[i] = <<>>
    BY <1>1, <1>3, <1>4, <1>6, <1>8
  <2> QED
    BY <1>4, <1>5, <2>1, FlattenedNone
<1> QED
  BY <1>7, <1>8

(* Behind the last sink of a path its story does not change.               *)
LEMMA StoryEnds ==
    ASSUME begun \in Seq(Sinks), NEW p, NEW f, Story(f, p), NEW k \in DOMAIN begun,
           Option[begun[k]].path = p,
           \A j \in DOMAIN begun : j > k => Option[begun[j]].path # p
    PROVE  f[Len(begun)] = AfterSession(f[k - 1], begun[k])
<1> DEFINE n == Len(begun)
<1>1. n \in Nat /\ k \in Nat /\ k \in 1..n /\ DOMAIN begun = 1..n
  OBVIOUS
<1>2. \A m \in 0..n : f[m] = IF m = 0 THEN <<>>
                             ELSE IF Option[begun[m]].path = p
                                  THEN AfterSession(f[m - 1], begun[m])
                             ELSE f[m - 1]
  BY Zenon DEF Story
<1>3. f[k] = AfterSession(f[k - 1], begun[k])
  BY <1>1, <1>2
<1> DEFINE wrong == {m \in k..n : f[m] # f[k]}
<1>4. wrong = {}
  <2> SUFFICES ASSUME wrong # {} PROVE FALSE
    OBVIOUS
  <2>1. wrong \in SUBSET Nat
    BY <1>1
  <2>2. PICK m \in wrong : \A j \in wrong : m <= j
    BY <2>1, LeastNatural
  <2>3. m \in k..n /\ f[m] # f[k] /\ m # k
    OBVIOUS
  <2>4. m - 1 \in k..n /\ ~(m <= m - 1) /\ m \in 0..n /\ m # 0 /\ m \in DOMAIN begun /\ m > k
    BY <1>1, <2>3
  <2>5. f[m - 1] = f[k]
    BY <2>2, <2>4
  <2>6. f[m] = f[m - 1]
    BY <1>2, <2>4
  <2> QED
    BY <2>3, <2>5, <2>6
<1>5. n \in k..n
  BY <1>1
<1> QED
  BY <1>3, <1>4, <1>5

(* While the disk takes what it is given, no process dies and every event  *)
(* can be encoded, a path that one sink has at a time holds, buffers       *)
(* included, exactly what its sinks were given, one after the other; and   *)
(* a file has one header at most and it comes first, whatever failed       *)
(* meanwhile: for any sinks, paths, buffer sizes and options               *)
(* (internal/fileappender/appender.go, console.go,                         *)
(* internal/jsonappender/appender.go).                                     *)
THEOREM SessionsAreTold == SinkSpec => []FilesTellSessions
<1>1. QuietInv /\ TellInv => FilesTellSessions
  <2> SUFFICES ASSUME QuietInv, TellInv PROVE FilesTellSessions
    OBVIOUS
  <2>1. ASSUME NEW p \in Paths \ Shared,
               \A s \in Sinks : Option[s].path = p => Option[s].kind = "file"
        PROVE  \A i \in DOMAIN disk[p] : disk[p][i] = Header => i = 1
    BY <2>1 DEF QuietInv, HeadsFirst, FirstOnly
  <2>2. ASSUME faults = 0, NoneRefused, NEW p \in Paths \ Shared
        PROVE  disk[p] \o Pending(p) = MeantContent(p)
    <3>1. PICK f : Story(f, p) /\ Tells(f, p)
      BY <2>2 DEF TellInv
    <3>2. /\ SinkInv /\ begun \in Seq(Sinks) /\ Len(begun) \in Nat
          /\ \A i \in DOMAIN begun : begun[i] \in Sinks
          /\ \A t \in Begun : \E i \in DOMAIN begun : begun[i] = t
      BY BegunAre DEF QuietInv
    <3>3. MeantContent(p) = f[Len(begun)]
      BY <3>1, <3>2, MeantIs
    <3>4. disk[p] \in Seq(DiskCell)
      BY <3>2 DEF SinkInv, SinkTypes
    <3>5. CASE \A t \in Begun : Option[t].path = p => closing[t] # "open"
      <4>1. Pending(p) = <<>> /\ disk[p] = f[Len(begun)]
        BY <2>2, <3>1, <3>5, PendingIs DEF Tells
      <4>2. disk[p] \o <<>> = disk[p]
        BY <3>4, CellsAlone
      <4> QED
        BY <3>3, <4>1, <4>2
    <3>6. CASE ~\A t \in Begun : Option[t].path = p => closing[t] # "open"
      <4>1. PICK k \in DOMAIN begun : Option[begun[k]].path = p /\ closing[begun[k]] = "open"
        BY <3>2, <3>6
      <4>2. PICK s \in Sinks : s = begun[k]
        BY <3>2
      <4>3. Pending(p) = sink[s].buffer
        BY <2>2, <4>1, <4>2, PendingIs
      <4>4. Telling(s, f[k - 1], View(s), accepted[s])
        BY <3>1, <4>1, <4>2 DEF Tells
      <4>5. f[Len(begun)] = AfterSession(f[k - 1], s)
        <5>1. \A j \in DOMAIN begun : j > k => Option[begun[j]].path # p
          BY <3>2, <4>1, OpenIsLast
        <5> QED
          BY <3>1, <3>2, <4>1, <4>2, <5>1, StoryEnds
      <4>6. AfterSession(f[k - 1], s) = Told(s, f[k - 1], HasWritten(s), accepted[s], FALSE)
        <5>1. (closing[s] # "open") = FALSE
          BY <4>1, <4>2
        <5> QED
          BY <5>1, AfterIsTold
      <4>7. HasWritten(s) = Started(s, View(s))
        BY <4>1, <4>2 DEF HasWritten, Started, View
      <4>8. Stream(View(s)) = Told(s, f[k - 1], Started(s, View(s)), accepted[s], FALSE)
        BY <4>4 DEF Telling
      <4>9. Stream(View(s)) = disk[p] \o sink[s].buffer
        BY <3>2, <4>1, <4>2, ViewNow
      <4> QED
        BY <3>3, <4>3, <4>5, <4>6, <4>7, <4>8, <4>9
    <3> QED
      BY <3>5, <3>6
  <2> QED
    BY <2>1, <2>2 DEF FilesTellSessions
<1>2. SinkInit => QuietInv /\ TellInv
  BY QuietBegins, TellingBegins
<1>3. QuietInv /\ TellInv /\ [SinkNext]_sinkVars => (QuietInv /\ TellInv)'
  BY QuietStep, TellingStep
<1> QED
  BY <1>1, <1>2, <1>3, PTL DEF SinkSpec
=============================================================================
