------------------------------ MODULE FileSink ------------------------------
(***************************************************************************)
(* The sinks at the end of the pipeline: the file appender and the console *)
(* appender (internal/fileappender), the JSON direct writer                *)
(* (internal/jsonappender), and the stream their layout writes: a header,  *)
(* events, a footer (internal/layout).                                     *)
(*                                                                         *)
(* What is written is a sequence of cells.  A cell is a record              *)
(* [mark, event, half]; an event takes two cells, so that a full buffer or *)
(* a full disk can cut it.  Every method holds the mutex of its sink from  *)
(* its first write to its last, so a call is one action.                   *)
(***************************************************************************)
EXTENDS Naturals, Sequences, FiniteSets, SequencesExt, FiniteSetsExt

CONSTANTS
    Sinks,       \* appender instances, of one process or of several in turn
    Paths,       \* files and streams they write to
    Option,      \* sink -> [kind, path, buffer, flushOnWrite, append, createOnDemand, layout]
                 \*   kind: file, json (NewFile), writer (json.New with a writer), console
                 \*   layout: plain; page has a header and a footer; array is JSON with
                 \*   complete, which also separates its events
    Shared,      \* paths that two sinks may have open together
    MaxSinks,    \* bound: sinks made in a behaviour
    MaxAppends,   \* bound: events appended
    MaxFaults,   \* bound: times the disk fills or the process dies
    Plenty       \* cells the disk takes when it is not filling up: any one write

VARIABLES
    disk,      \* path -> cells the operating system has
    room,      \* cells the disk still takes
    sink,      \* sink -> the fields of its struct
    accepted,  \* sink -> events whose Append answered nil, in order
    closing,   \* sink -> open, closed, unused (closed before it wrote anything),
               \*   failed (Close answered an error, or the constructor), died
    begun,     \* sinks in the order they were begun
    events,    \* events appended so far
    faults     \* faults so far

sinkVars == <<disk, room, sink, accepted, closing, begun, events, faults>>

ASSUME SinkAssumption ==
    /\ Plenty \in Nat /\ Plenty >= 3
    /\ \A s \in Sinks : /\ Option[s].kind \in {"file", "json", "writer", "console"}
                        /\ Option[s].kind # "file" => Option[s].append
                        /\ Option[s].path \in Paths
                        /\ Option[s].buffer \in 0..Plenty
                        /\ Option[s].append \in BOOLEAN
                        /\ Option[s].flushOnWrite \in BOOLEAN

Header == [mark |-> "header", event |-> 0, half |-> 0]
Footer == [mark |-> "footer", event |-> 0, half |-> 0]
Separator == [mark |-> "separator", event |-> 0, half |-> 0]
Hole == [mark |-> "hole", event |-> 0, half |-> 0]
Halves(e) == [h \in 1..2 |-> [mark |-> "event", event |-> e, half |-> h]]

Owns(s) == Option[s].kind \in {"file", "json"}
Buffered(s) == Owns(s) /\ Option[s].buffer > 0
Begun == ToSet(begun)

(* The fields of the structs: file != nil (or an external writer), what    *)
(* bufio holds and whether it failed, the offset of a descriptor without   *)
(* O_APPEND, closed, started (console), and the event counter of the       *)
(* layout the sink cloned for itself.                                      *)
NoFile == [held |-> FALSE, buffer |-> <<>>, broken |-> FALSE, offset |-> 0,
           closed |-> FALSE, started |-> FALSE, count |-> 0]

-----------------------------------------------------------------------------
(* Writing.  w is what a write can change: the file, the disk, the sink,   *)
(* and whether the last write answered nil.                                *)
View(s) == [disk |-> disk[Option[s].path], room |-> room, at |-> sink[s], ok |-> TRUE]

Put(content, from, cells) ==
    [i \in 1..Max({Len(content), from + Len(cells)}) |->
       IF i > from /\ i <= from + Len(cells) THEN cells[i - from]
       ELSE IF i <= Len(content) THEN content[i] ELSE Hole]

(* One write(2): all the cells, or those there was room for and an error.  *)
Taken(w, cells) == Min({w.room, Len(cells)})
OsWrite(s, w, cells) ==
    LET n == Taken(w, cells)
        from == IF Option[s].append THEN Len(w.disk) ELSE w.at.offset
    IN  [w EXCEPT !.disk = Put(@, from, SubSeq(cells, 1, n)),
                  !.room = IF @ = Plenty THEN @ ELSE @ - n,
                  !.at.offset = from + n,
                  !.ok = n = Len(cells)]

FlushForgets(s, w) ==
    LET o == OsWrite(s, w, w.at.buffer) IN
    IF ~Buffered(s) \/ ~w.at.held THEN [w EXCEPT !.ok = TRUE] ELSE [o EXCEPT !.at.buffer = <<>>]
(* bufio: an error is kept, and every later call answers it.               *)
FlushWriter(s, w) ==
    IF ~Buffered(s) \/ ~w.at.held THEN [w EXCEPT !.ok = TRUE]
    ELSE IF w.at.broken \/ w.at.buffer = <<>> THEN [w EXCEPT !.ok = ~w.at.broken]
    ELSE LET o == OsWrite(s, w, w.at.buffer)
         IN  [o EXCEPT !.at.buffer = SubSeq(@, Taken(w, @) + 1, Len(@)), !.at.broken = ~o.ok]

Direct(s, w, cells) == LET o == OsWrite(s, w, cells) IN [o EXCEPT !.at.broken = ~o.ok]

BufWrite(s, w, cells) ==
    LET free == Option[s].buffer - Len(w.at.buffer)
        full == FlushWriter(s, [w EXCEPT !.at.buffer = @ \o SubSeq(cells, 1, free)])
        rest == SubSeq(cells, free + 1, Len(cells))
    IN  CASE w.at.broken -> [w EXCEPT !.ok = FALSE]
          [] ~w.at.broken /\ Len(cells) <= free -> [w EXCEPT !.at.buffer = @ \o cells, !.ok = TRUE]
          [] ~w.at.broken /\ Len(cells) > free /\ w.at.buffer = <<>> -> Direct(s, w, cells)
          [] OTHER -> CASE ~full.ok -> full
                        [] full.ok /\ Len(rest) > Option[s].buffer -> Direct(s, full, rest)
                        [] OTHER -> [full EXCEPT !.at.buffer = rest]

Write(s, w, cells) ==
    IF cells = <<>> THEN [w EXCEPT !.ok = TRUE]
    ELSE IF Buffered(s) THEN BufWrite(s, w, cells) ELSE OsWrite(s, w, cells)

-----------------------------------------------------------------------------
(* The layout.  A header sets the counter of array back to zero.           *)
Framed(s) == Option[s].kind \in {"file", "console"} /\ Option[s].layout # "plain"
Counts(s) == Option[s].kind \in {"file", "console"} /\ Option[s].layout = "array"
WriteHeader(s, w) ==
    Write(s, [w EXCEPT !.at.count = 0], IF Framed(s) THEN <<Header>> ELSE <<>>)
WriteFooter(s, w) == Write(s, w, IF Framed(s) THEN <<Footer>> ELSE <<>>)
Format(s, w, e) == (IF Counts(s) /\ w.at.count > 0 THEN <<Separator>> ELSE <<>>) \o Halves(e)
Counted(s, w) == IF Counts(s) THEN [w EXCEPT !.at.count = @ + 1] ELSE w

(* OpenWithOptions appends or truncates.  openLocked writes a header into  *)
(* an empty file only; when it cannot, the sink is as if it had never      *)
(* opened, and the next Append tries again.                                *)
OpenWithOptions(s, w) ==
    [w EXCEPT !.disk = IF Option[s].append THEN @ ELSE <<>>,
              !.at = [@ EXCEPT !.held = TRUE, !.offset = 0], !.ok = TRUE]
NeedsHeader(s, w) == w.disk = <<>>
OpenLocked(s, w) ==
    LET opened == OpenWithOptions(s, w)
        first == WriteHeader(s, opened)
    IN  CASE ~NeedsHeader(s, opened) -> opened
          [] NeedsHeader(s, opened) /\ first.ok -> first
          [] OTHER -> [FlushWriter(s, first) EXCEPT
                         !.at = [NoFile EXCEPT !.count = first.at.count], !.ok = FALSE]

EnsureStarted(s, w) ==
    LET first == WriteHeader(s, w) IN
    IF w.at.started THEN [w EXCEPT !.ok = TRUE] ELSE [first EXCEPT !.at.started = first.ok]

(* The constructors.                                                       *)
NewFileAppender(s, w) == IF Option[s].createOnDemand THEN w ELSE OpenLocked(s, w)
NewJSON(s, w) == [w EXCEPT !.at.held = TRUE]
Constructed(s, w) == CASE Option[s].kind = "file"    -> NewFileAppender(s, w)
                       [] Option[s].kind = "json"    -> OpenWithOptions(s, w)
                       [] Option[s].kind = "writer"  -> NewJSON(s, w)
                       [] Option[s].kind = "console" -> w

(* Append.  A layout that counts is formatted under the mutex, after the   *)
(* file is open: when its charset cannot encode the event the counter has  *)
(* moved on.  Any other layout is formatted first, and a failure there     *)
(* changes nothing.                                                        *)
Written(s, w, e) ==
    LET wrote == Write(s, Counted(s, w), Format(s, w, e)) IN
    IF wrote.ok /\ Option[s].flushOnWrite THEN FlushWriter(s, wrote) ELSE wrote
AppendSynchronized(s, ready, e, formats) ==
    CASE ~ready.ok -> ready
      [] ready.ok /\ formats -> Written(s, ready, e)
      [] OTHER -> [Counted(s, ready) EXCEPT !.ok = FALSE]
FileAppend(s, w, e, formats) ==
    AppendSynchronized(s, IF w.at.held THEN w ELSE OpenLocked(s, w), e, formats)
ConsoleAppend(s, w, e, formats) == AppendSynchronized(s, EnsureStarted(s, w), e, formats)
Appended(s, w, e, formats) == CASE Option[s].kind = "file"    -> FileAppend(s, w, e, formats)
                                [] Option[s].kind = "console" -> ConsoleAppend(s, w, e, formats)
                                [] OTHER                      -> Written(s, w, e)

(* Close: the footer, where something was started, then the buffer, then   *)
(* the file; a later error does not hide an earlier one.                   *)
StartedAtOnce(s, w) == Option[s].kind = "console" \/ w.at.held
Started(s, w) == IF Option[s].kind = "console" THEN w.at.started ELSE w.at.held
FileClose(s, w) ==
    LET last == IF Started(s, w) THEN WriteFooter(s, w) ELSE w
        out == FlushWriter(s, last)
    IN  [out EXCEPT !.ok = last.ok /\ out.ok]
JSONClose(s, w) == IF Owns(s) THEN FlushWriter(s, w) ELSE w
ConsoleClose(s, w) == IF Started(s, w) THEN WriteFooter(s, w) ELSE w
Closed(s, w) == CASE Option[s].kind = "file"    -> FileClose(s, w)
                  [] Option[s].kind = "console" -> ConsoleClose(s, w)
                  [] OTHER                      -> JSONClose(s, w)

Keep(s, w) ==
    /\ disk' = [disk EXCEPT ![Option[s].path] = w.disk]
    /\ room' = w.room
    /\ sink' = [sink EXCEPT ![s] = w.at]

-----------------------------------------------------------------------------
SinkInit ==
    /\ disk = [p \in Paths |-> <<>>]
    /\ room = Plenty
    /\ sink = [s \in Sinks |-> NoFile]
    /\ accepted = [s \in Sinks |-> <<>>]
    /\ closing = [s \in Sinks |-> "open"]
    /\ begun = <<>>
    /\ events = 0
    /\ faults = 0

(* A constructor whose header fails answers an error and leaves no sink,   *)
(* only what it wrote.                                                     *)
NewSink(s) ==
    LET w == Constructed(s, View(s))
    IN  /\ s \notin Begun /\ Len(begun) < MaxSinks
        /\ Option[s].path \notin Shared =>
             \A t \in Begun : Option[t].path = Option[s].path => closing[t] # "open"
        /\ Keep(s, w)
        /\ begun' = IF w.ok THEN Append(begun, s) ELSE begun
        /\ closing' = [closing EXCEPT ![s] = IF w.ok THEN "open" ELSE "failed"]
        /\ UNCHANGED <<accepted, events, faults>>

AppendEvent(s, formats) ==
    LET e == events + 1
        w == Appended(s, View(s), e, formats)
    IN  /\ s \in Begun /\ events < MaxAppends
        /\ formats \/ Counts(s)
        /\ ~sink[s].closed
        /\ events' = e
        /\ Keep(s, w)
        /\ accepted' = IF w.ok THEN [accepted EXCEPT ![s] = Append(@, e)] ELSE accepted
        /\ UNCHANGED <<closing, begun, faults>>

FlushSink(s) ==
    /\ s \in Begun /\ Owns(s) /\ ~sink[s].closed
    /\ Keep(s, FlushWriter(s, View(s)))
    /\ UNCHANGED <<accepted, closing, begun, events, faults>>

CloseSink(s) ==
    LET w == Closed(s, View(s))
        gone == IF Owns(s) THEN NoFile ELSE w.at
        how == IF ~w.ok THEN "failed" ELSE IF Started(s, View(s)) THEN "closed" ELSE "unused"
    IN  /\ s \in Begun /\ ~sink[s].closed
        /\ Keep(s, [w EXCEPT !.at = [gone EXCEPT !.closed = TRUE]])
        /\ closing' = [closing EXCEPT ![s] = how]
        /\ UNCHANGED <<accepted, begun, events, faults>>

(* The world: the disk fills up, or has room again; the process dies and   *)
(* what its sinks had buffered with it.                                    *)
DiskFills(n) ==
    /\ room = Plenty /\ faults < MaxFaults
    /\ room' = n
    /\ faults' = faults + 1
    /\ UNCHANGED <<disk, sink, accepted, closing, begun, events>>

DiskFreed ==
    /\ room # Plenty
    /\ room' = Plenty
    /\ UNCHANGED <<disk, sink, accepted, closing, begun, events, faults>>

ProcessDies ==
    LET lost == {s \in Begun : closing[s] = "open"} IN
    /\ lost # {} /\ faults < MaxFaults
    /\ sink' = [s \in Sinks |-> IF s \in lost THEN [NoFile EXCEPT !.closed = TRUE] ELSE sink[s]]
    /\ closing' = [s \in Sinks |-> IF s \in lost THEN "died" ELSE closing[s]]
    /\ faults' = faults + 1
    /\ UNCHANGED <<disk, room, accepted, begun, events>>

SinkNext ==
    \/ \E s \in Sinks : NewSink(s) \/ FlushSink(s) \/ CloseSink(s)
    \/ \E s \in Sinks, formats \in BOOLEAN : AppendEvent(s, formats)
    \/ \E n \in 0..2 : DiskFills(n)
    \/ DiskFreed
    \/ ProcessDies

SinkSpec == SinkInit /\ [][SinkNext]_sinkVars

-----------------------------------------------------------------------------
(* What a path is meant to hold: one after the other, what its sinks were  *)
(* given, the first of a file behind a header and every closed one with a  *)
(* footer.                                                                 *)
HasWritten(s) ==
    IF closing[s] # "open" THEN closing[s] # "unused"
    ELSE IF Option[s].kind = "console" THEN sink[s].started ELSE sink[s].held

Joined(s) == FlattenSeq([i \in DOMAIN accepted[s] |->
                (IF Counts(s) /\ i > 1 THEN <<Separator>> ELSE <<>>) \o Halves(accepted[s][i])])

AfterSession(before, s) ==
    LET base == IF Option[s].append THEN before ELSE <<>>
        head == IF Framed(s) /\ (Option[s].kind = "console" \/ base = <<>>) THEN <<Header>> ELSE <<>>
        tail == IF Framed(s) /\ closing[s] # "open" THEN <<Footer>> ELSE <<>>
    IN  IF HasWritten(s) THEN base \o head \o Joined(s) \o tail ELSE before

MeantContent(p) ==
    LET after[n \in 0..Len(begun)] ==
          IF n = 0 THEN <<>>
          ELSE IF Option[begun[n]].path = p THEN AfterSession(after[n - 1], begun[n])
          ELSE after[n - 1]
    IN  after[Len(begun)]

Pending(p) == FlattenSeq([n \in DOMAIN begun |->
                 IF Option[begun[n]].path = p THEN sink[begun[n]].buffer ELSE <<>>])
NoneRefused == \A e \in 1..events : \E s \in Sinks : e \in ToSet(accepted[s])

(* While the disk takes what it is given, no process dies and every event  *)
(* can be encoded, a path that one sink has at a time holds, buffers       *)
(* included, exactly what its sinks were given: nothing twice, out of      *)
(* order or behind a footer, however many sinks open and close it.  And    *)
(* even when opening it failed half-way or the process died, a file has    *)
(* one header at most, and it comes first (fileappender/appender.go,       *)
(* console.go, jsonappender/appender.go).                                  *)
FilesTellSessions ==
    /\ faults = 0 /\ NoneRefused =>
         \A p \in Paths \ Shared : disk[p] \o Pending(p) = MeantContent(p)
    /\ \A p \in Paths \ Shared : (\A s \in Sinks : Option[s].path = p => Option[s].kind = "file") =>
         \A i \in DOMAIN disk[p] : disk[p][i] = Header => i = 1

(* An event whose Append answered nil is on disk, in one piece unless the  *)
(* path is shared: at once where nothing is buffered or flushOnWrite is    *)
(* set, and after a Close that answered nil everywhere else, though the    *)
(* disk was full meanwhile.  A sink that truncates takes what was there    *)
(* before it, even when its constructor then fails; and on a shared path   *)
(* it writes over what the others append (fileappender/appender.go).       *)
Durable(s) == ~Buffered(s) \/ Option[s].flushOnWrite \/ closing[s] = "closed"
Truncates(t, p) == Option[t].path = p /\ ~Option[t].append
Overwritten(s) ==
    \/ \E i, j \in DOMAIN begun : i < j /\ begun[i] = s /\ Truncates(begun[j], Option[s].path)
    \/ \E t \in Sinks \ Begun : closing[t] = "failed" /\ Truncates(t, Option[s].path)
    \/ Option[s].path \in Shared /\ \E t \in Sinks : Truncates(t, Option[s].path)
OnDisk(p, e) ==
    \E i, j \in DOMAIN disk[p] : /\ i < j /\ (p \notin Shared => j = i + 1)
                                 /\ <<disk[p][i], disk[p][j]>> = Halves(e)
AcceptedIsKept ==
    \A s \in Begun : Durable(s) /\ ~Overwritten(s) =>
        \A i \in DOMAIN accepted[s] : OnDisk(Option[s].path, accepted[s][i])
=============================================================================
