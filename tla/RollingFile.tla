---------------------------- MODULE RollingFile ----------------------------
(***************************************************************************)
(* internal/rollingfile.RollingFileAppender on a file system: Append rolls *)
(* the active file over into an archive, archives are compressed and old   *)
(* ones removed, by the caller or by one background worker, and the        *)
(* process may crash and start again at any step.                          *)
(*                                                                         *)
(* Append and Close run under the mutex, so one thread, the holder, stands *)
(* for all callers.  Events are numbers, one unit of size each, written    *)
(* through to the file.  An archive is named by its index: the file        *)
(* pattern has %i and no date.                                             *)
(***************************************************************************)
EXTENDS Integers, Sequences, FiniteSets, SequencesExt

CONSTANTS
    MaxEvents,     \* bound: Append calls
    MaxFile,       \* the size policy: events in a file
    MaxBackups,    \* archives to keep
    MaxIndex,      \* bound: archive indexes
    QueueSize,     \* the action queue
    Setups,        \* options to consider
    Padded,        \* the pattern pads the index, as in %03i
    OldArchives,   \* indexes of archives an earlier process left
    TimePolicy,    \* a time policy may ask for a rollover at any Append
    MaxFailures,   \* bound: file operations that fail
    MaxCrashes     \* bound: crashes

Indexes == 0..MaxIndex

(* validate: a direct write cannot be compressed; with fileIndex min and no *)
(* maxBackups the index goes up as by default.                             *)
Valid(o) == /\ o.directWrite => ~o.compress
            /\ o.mode = "min" => MaxBackups \in 1..MaxIndex

ASSUME RollingAssumption ==
    /\ MaxFile \in Nat \ {0} /\ MaxBackups \in Nat /\ QueueSize \in Nat \ {0}
    /\ MaxIndex \in 0..50
    /\ Setups \subseteq [mode : {"nomax", "min"}, compress : BOOLEAN,
                         asyncActions : BOOLEAN, directWrite : BOOLEAN,
                         rolloverOnStartup : BOOLEAN, cleanOnStart : BOOLEAN,
                         ages : BOOLEAN, totalSizeCap : Nat, append : BOOLEAN]
    /\ \A o \in Setups : Valid(o)
    /\ Padded \in BOOLEAN /\ TimePolicy \in BOOLEAN
    /\ OldArchives \subseteq Indexes
    /\ MaxEvents \in Nat /\ MaxFailures \in Nat /\ MaxCrashes \in Nat

VARIABLES
    options,       \* the options of the appender; 0 is no totalSizeCap
    active,        \* the events in the active file
    plain,         \* index -> events of the uncompressed archive, or Absent
    gz,            \* index -> [events, whole] of the compressed one, or Absent
    file,          \* the active file is open
    archiveIndex,  \* the next index to try
    pc,            \* where the holder is
    resume,        \* what follows the rollover; "idle": in the constructor
    job,           \* the rollover action the holder has made
    queue,         \* the action queue
    worker,        \* where the worker is with its action
    work,          \* the action it executes
    doomed,        \* archives retention has found and not yet come to
    spared,        \* history: archives it could not remove this time
    sent,          \* Append calls begun; the last one is in hand
    acked,         \* history: events whose Append returned nil
    expired,       \* history: events retention removed
    truncated,     \* history: events an opening without append removed
    started,       \* history: events begun before this appender was made
    failures, crashes

disk    == <<active, plain, gz>>
holder  == <<file, archiveIndex, pc, resume, job>>
sweep   == <<doomed, spared>>
actions == <<queue, worker, work, doomed, spared>>
history == <<sent, acked, expired, truncated, started>>
bounds  == <<failures, crashes>>
vars == <<options, disk, holder, actions, history, bounds>>

mode == options.mode
compress == options.compress
directWrite == options.directWrite

(* No event is numbered 0.                                                 *)
Absent == <<0>>
NoGz == [events |-> Absent, whole |-> FALSE]

(* gzAt: where the compressed file being written is now.                   *)
NoJob == [index |-> 0, events |-> <<>>, gzAt |-> -1]

Old(index) == index - 100

Exists(index) == plain[index] # Absent \/ gz[index] # NoGz

(* The archives the pattern's glob finds.                                  *)
Archives == {i \in Indexes : IF compress THEN gz[i] # NoGz ELSE plain[i] # Absent}

(* Mutant: a new process counts from 0 again.                              *)
FirstIndexLost == 0

(* initArchiveIndexByPattern: one more than the largest index found.       *)
FirstIndex == IF Archives = {} THEN 0
              ELSE 1 + CHOOSE i \in Archives : \A k \in Archives : k <= i

(* The order of the archives' names.  Without padding "10." sorts after    *)
(* "1." and before "2.".                                                   *)
NameBefore(i, k) ==
    IF Padded \/ (i < 10 <=> k < 10) THEN i < k
    ELSE IF i < 10 THEN i <= k \div 10 ELSE i \div 10 < k

-----------------------------------------------------------------------------
Init == /\ options \in Setups
        /\ active = <<>>
        /\ plain = [i \in Indexes |->
                       IF i \in OldArchives /\ ~compress THEN <<Old(i)>> ELSE Absent]
        /\ gz = [i \in Indexes |->
                    IF i \in OldArchives /\ compress
                    THEN [events |-> <<Old(i)>>, whole |-> TRUE] ELSE NoGz]
        /\ file = FALSE
        /\ archiveIndex = 0
        /\ pc = "start" /\ resume = "idle"
        /\ job = NoJob
        /\ queue = <<>>
        /\ worker = "idle" /\ work = NoJob
        /\ doomed = {} /\ spared = {}
        /\ sent = 0 /\ started = 0
        /\ acked = {Old(i) : i \in OldArchives}
        /\ expired = {} /\ truncated = {}
        /\ failures = 0 /\ crashes = 0

Fail == failures < MaxFailures /\ failures' = failures + 1 /\ UNCHANGED crashes

(* Append returns an error and does not write its event; the constructor   *)
(* closes what it has made.                                                *)
Refuse == pc' = IF resume = "idle" THEN "closing" ELSE "idle"

-----------------------------------------------------------------------------
(* Retention.  Mutant: the last by name go.                                *)
SurplusLast == {i \in Archives :
                   Cardinality({k \in Archives : NameBefore(k, i)}) >= MaxBackups}

(* deleteExpiredArchives: the first by name beyond maxBackups, those older *)
(* than maxAge, and the first of the others by name until the rest is      *)
(* within totalSizeCap.  While the index counts up the archives were last  *)
(* written in its order.                                                   *)
Surplus == {i \in Archives :
               Cardinality({k \in Archives : NameBefore(i, k)}) >= MaxBackups}

AgedSets == IF ~options.ages THEN {{}}
            ELSE IF mode = "min" THEN SUBSET Archives
            ELSE {{i \in Archives : i < k} : k \in Indexes}

Size(i) == Len(IF compress THEN gz[i].events ELSE plain[i])

OverCap(kept) ==
    {i \in kept : /\ options.totalSizeCap > 0
                  /\ MapThenSumSet(Size, {k \in kept : k = i \/ NameBefore(i, k)})
                        > options.totalSizeCap}

(* What is to go is settled when the archives are listed.                  *)
Condemned(aged) == Surplus \cup aged \cup OverCap(Archives \ (Surplus \cup aged))

ListArchives == \E aged \in AgedSets : doomed' = Condemned(aged) /\ spared' = {}

(* os.Remove of an archive, by its name: a rotation may have moved another *)
(* there.                                                                  *)
RemoveArchive(i) ==
    IF compress
    THEN /\ gz' = [gz EXCEPT ![i] = NoGz]
         /\ expired' = expired \cup ToSet(gz[i].events)
         /\ UNCHANGED plain
    ELSE /\ plain' = [plain EXCEPT ![i] = Absent]
         /\ expired' = expired \cup ToSet(plain[i])
         /\ UNCHANGED gz

-----------------------------------------------------------------------------
(* NewRollingFileAppender cleans the history and opens the file, or leaves *)
(* that to the first Append.                                               *)
Constructs == pc' \in {"idle", "open"}

Construct == /\ pc = "start"
             /\ resume' = "idle"
             /\ IF options.cleanOnStart THEN ListArchives /\ pc' = "clean"
                                        ELSE Constructs /\ UNCHANGED sweep
             /\ UNCHANGED <<options, disk, file, archiveIndex, job, queue, worker, work,
                            history, bounds>>

(* Append: shouldRollover, or a file must be opened first.                 *)
Current == IF directWrite THEN plain[archiveIndex - 1] ELSE active

Due(bySchedule) == bySchedule \/ (Current # <<>> /\ Len(Current) + 1 > MaxFile)

Begin == /\ pc = "idle"
         /\ sent < MaxEvents
         /\ (IF file THEN archiveIndex ELSE FirstIndex) < MaxIndex - 2
         /\ sent' = sent + 1
         /\ pc' = IF file THEN "check" ELSE "open"
         /\ resume' = "check"
         /\ UNCHANGED <<options, disk, file, archiveIndex, job, actions, acked, expired,
                        truncated, started, bounds>>

(* OpenWithOptions: without append the file is truncated.                  *)
OpenFile == IF directWrite \/ options.append
            THEN UNCHANGED <<active, truncated>>
            ELSE active' = <<>> /\ truncated' = truncated \cup ToSet(active)

(* openAt.  A file that is not empty is rolled over at once when that is   *)
(* asked for; a direct write takes a new archive name.                     *)
Open == /\ pc = "open"
        /\ OpenFile
        /\ file' = ~directWrite
        /\ archiveIndex' = FirstIndex
        /\ pc' = IF directWrite \/ (options.rolloverOnStartup /\ active' # <<>>)
                 THEN "pick" ELSE resume
        /\ UNCHANGED <<options, plain, gz, resume, job, actions, sent, acked, expired,
                       started, bounds>>

(* At the opening itself, or past it: at its size, its header or the       *)
(* search for the next index.                                              *)
OpenFails == /\ pc = "open"
             /\ OpenFile \/ UNCHANGED <<active, truncated>>
             /\ Fail
             /\ Refuse
             /\ UNCHANGED <<options, plain, gz, file, archiveIndex, resume, job, actions,
                            sent, acked, expired, started>>

Check == /\ pc = "check"
         /\ \E bySchedule \in (IF TimePolicy THEN BOOLEAN ELSE {FALSE}) :
               pc' = IF Due(bySchedule) THEN "pick" ELSE "write"
         /\ resume' = "write"
         /\ UNCHANGED <<options, disk, file, archiveIndex, job, actions, history, bounds>>

(* writeBytesLocked.                                                       *)
Write == /\ pc = "write"
         /\ IF directWrite
            THEN /\ plain' = [plain EXCEPT ![archiveIndex - 1] = Append(@, sent)]
                 /\ UNCHANGED active
            ELSE /\ active' = Append(active, sent)
                 /\ UNCHANGED plain
         /\ acked' = acked \cup {sent}
         /\ pc' = "idle"
         /\ UNCHANGED <<options, gz, file, archiveIndex, resume, job, actions, sent, expired,
                        truncated, started, bounds>>

-----------------------------------------------------------------------------
AfterPick == IF directWrite THEN "create" ELSE "rename"

(* rollover closes the active file and looks for a free archive name,      *)
(* upwards from archiveIndex.                                              *)
PickNext == /\ pc = "pick" /\ mode = "nomax"
            /\ \E i \in Indexes :
                  /\ i >= archiveIndex /\ ~Exists(i)
                  /\ \A k \in archiveIndex..(i - 1) : Exists(k)
                  /\ job' = [index |-> i, events |-> active, gzAt |-> -1]
                  /\ archiveIndex' = i + 1
            /\ file' = FALSE
            /\ pc' = AfterPick
            /\ UNCHANGED <<options, disk, resume, actions, history, bounds>>

(* fileIndex min: the lowest free index up to maxBackups.                  *)
PickMin == /\ pc = "pick" /\ mode = "min"
           /\ \E i \in 1..MaxBackups :
                 /\ ~Exists(i)
                 /\ \A k \in 1..(i - 1) : Exists(k)
                 /\ job' = [index |-> i, events |-> active, gzAt |-> -1]
                 /\ archiveIndex' = i + 1
           /\ file' = FALSE
           /\ pc' = AfterPick
           /\ UNCHANGED <<options, disk, resume, actions, history, bounds>>

EventsIn(archive) == IF archive = Absent THEN {} ELSE ToSet(archive)

(* The archives from hole up move on by one, the last goes.                *)
Shifted(files, none, hole) ==
    [i \in Indexes |-> CASE i = hole -> none
                         [] i \in (hole + 1)..MaxBackups -> files[i - 1]
                         [] OTHER -> files[i]]

(* rotateMinIndexArchives: all names are taken; the last archive goes and  *)
(* the others move up from above, until the first name is free or a rename *)
(* fails.  When archives are compressed only compressed files move, also   *)
(* the one a worker is writing.                                            *)
Rotated(hole) ==
    /\ pc = "pick" /\ mode = "min"
    /\ \A i \in 1..MaxBackups : Exists(i)
    /\ IF compress
       THEN /\ gz' = Shifted(gz, NoGz, hole) /\ UNCHANGED plain
            /\ expired' = expired \cup
                  (IF gz[MaxBackups] = NoGz THEN {} ELSE ToSet(gz[MaxBackups].events))
            /\ work' = IF work.gzAt \in hole..MaxBackups
                       THEN [work EXCEPT !.gzAt = IF @ = MaxBackups THEN -1 ELSE @ + 1]
                       ELSE work
       ELSE /\ plain' = Shifted(plain, Absent, hole) /\ UNCHANGED <<gz, work>>
            /\ expired' = expired \cup EventsIn(plain[MaxBackups])
    /\ file' = FALSE
    /\ UNCHANGED <<options, active, resume, queue, worker, sweep, sent, acked, truncated,
                   started>>

RotateMin == /\ Rotated(1)
             /\ job' = [index |-> 1, events |-> active, gzAt |-> -1]
             /\ archiveIndex' = 2
             /\ pc' = AfterPick
             /\ UNCHANGED bounds

RotateFails == /\ \E hole \in 2..MaxBackups : Rotated(hole)
               /\ Fail
               /\ Refuse
               /\ UNCHANGED <<archiveIndex, job>>

(* The footer or the flush fails, with the file open, or no archive name   *)
(* can be had, with the file closed.                                       *)
PickFails == /\ pc = "pick"
             /\ Fail
             /\ Refuse
             /\ file' \in {FALSE, file /\ resume # "idle"}
             /\ UNCHANGED <<options, disk, archiveIndex, resume, job, actions, history>>

(* The writer keeps the error of its flush, or the file is closed with an  *)
(* error and still held: every Append is refused until Close.              *)
Sticks == /\ pc = "pick" /\ file
          /\ Fail
          /\ pc' = IF resume = "idle" THEN "closing" ELSE "stuck"
          /\ file' = FALSE
          /\ UNCHANGED <<options, disk, archiveIndex, resume, job, actions, history>>

(* openDirect: the new archive is the file that is written.                *)
Create == /\ pc = "create"
          /\ plain' = [plain EXCEPT ![job.index] = <<>>]
          /\ file' = TRUE
          /\ pc' = resume
          /\ UNCHANGED <<options, active, gz, archiveIndex, resume, job, actions, history,
                         bounds>>

(* Rename the active file, which replaces what has the target's name, and  *)
(* open a new one, where there is nothing to truncate.                     *)
Rename == /\ pc = "rename"
          /\ plain' = [plain EXCEPT ![job.index] = active]
          /\ active' = <<>>
          /\ pc' = "reopen"
          /\ UNCHANGED <<options, gz, file, archiveIndex, resume, job, actions, history,
                         bounds>>

Reopen == /\ pc = "reopen"
          /\ file' = TRUE
          /\ pc' = IF options.asyncActions THEN "enqueue" ELSE "compress"
          /\ UNCHANGED <<options, disk, archiveIndex, resume, job, actions, history, bounds>>

(* The rename or an open fails, with the active file closed.               *)
RolloverFails == /\ pc \in {"create", "rename", "reopen"}
                 /\ Fail
                 /\ Refuse
                 /\ UNCHANGED <<options, disk, file, archiveIndex, resume, job, actions,
                                history>>

(* Hand the action to the worker; a full queue makes the holder wait.      *)
Enqueue == /\ pc = "enqueue"
           /\ Len(queue) < QueueSize
           /\ queue' = Append(queue, job)
           /\ pc' = resume
           /\ UNCHANGED <<options, disk, file, archiveIndex, resume, job, worker, work,
                          sweep, history, bounds>>

-----------------------------------------------------------------------------
(* The action of one rollover, by the holder or by the worker: at is where *)
(* it stands, it is what it executes, and To moves on.                     *)
At(who) == IF who = "holder" THEN pc ELSE worker
Doing(who) == IF who = "holder" THEN job ELSE work
Actors == {"holder", "worker"}

To(who, state, doing) ==
    /\ UNCHANGED resume
    /\ IF who = "holder"
       THEN pc' = state /\ job' = doing /\ UNCHANGED <<worker, work>>
       ELSE worker' = state /\ work' = doing /\ UNCHANGED <<pc, job>>

(* Mutant: the worker takes no action once Close is called.                *)
TakeActionWhileOpen == /\ worker = "idle" /\ pc # "closing"
                       /\ queue # <<>>
                       /\ queue' = Tail(queue)
                       /\ worker' = "compress"
                       /\ work' = Head(queue)
                       /\ UNCHANGED <<options, disk, holder, sweep, history, bounds>>

TakeAction == /\ worker = "idle"
              /\ queue # <<>>
              /\ queue' = Tail(queue)
              /\ worker' = "compress"
              /\ work' = Head(queue)
              /\ UNCHANGED <<options, disk, holder, sweep, history, bounds>>

(* CompressFileTo opens the archive and creates the compressed file, which *)
(* must not exist.  An action that compresses nothing only expires.        *)
CompressCreate(who) ==
    LET it == Doing(who) IN
    /\ At(who) = "compress" /\ compress
    /\ plain[it.index] # Absent /\ gz[it.index] = NoGz
    /\ gz' = [gz EXCEPT ![it.index] = [events |-> plain[it.index], whole |-> FALSE]]
    /\ To(who, "copy", [it EXCEPT !.gzAt = it.index])
    /\ UNCHANGED <<options, active, plain, file, archiveIndex, queue, sweep, history,
                   bounds>>

CompressSkip(who) ==
    /\ At(who) = "compress" /\ ~compress
    /\ To(who, "expire", Doing(who))
    /\ UNCHANGED <<options, disk, file, archiveIndex, queue, sweep, history,
                   bounds>>

(* The source is gone, the target is there, or either cannot be opened:    *)
(* the action goes on to expire and reports the error.                     *)
CompressFails(who) ==
    LET it == Doing(who) IN
    /\ At(who) = "compress" /\ compress
    /\ IF plain[it.index] = Absent \/ gz[it.index] # NoGz THEN UNCHANGED bounds ELSE Fail
    /\ To(who, "expire-error", it)
    /\ UNCHANGED <<options, disk, file, archiveIndex, queue, sweep, history>>

(* Mutant: the archive is removed before its copy is whole.                *)
CopyThenRemove(who) ==
    LET it == Doing(who) IN
    /\ At(who) = "copy"
    /\ plain' = [plain EXCEPT ![it.index] = Absent]
    /\ To(who, "remove", it)
    /\ UNCHANGED <<options, active, gz, file, archiveIndex, queue, sweep, history,
                   bounds>>

CopyWhole(who) ==
    LET it == Doing(who) IN
    /\ At(who) = "copy"
    /\ gz' = IF it.gzAt = -1 THEN gz ELSE [gz EXCEPT ![it.gzAt].whole = TRUE]
    /\ To(who, "remove", it)
    /\ UNCHANGED <<options, active, plain, file, archiveIndex, queue, sweep, history,
                   bounds>>

(* The copy fails: what was created under the target's name is removed.    *)
CopyFails(who) ==
    LET it == Doing(who) IN
    /\ At(who) = "copy"
    /\ Fail
    /\ gz' = [gz EXCEPT ![it.index] = NoGz]
    /\ To(who, "expire-error", it)
    /\ UNCHANGED <<options, active, plain, file, archiveIndex, queue, sweep, history>>

RemovePlain(who) ==
    LET it == Doing(who) IN
    /\ At(who) = "remove"
    /\ plain[it.index] # Absent
    /\ plain' = [plain EXCEPT ![it.index] = Absent]
    /\ To(who, "expire", it)
    /\ UNCHANGED <<options, active, gz, file, archiveIndex, queue, sweep, history,
                   bounds>>

(* It cannot be removed, or is gone: the compressed file is given up.      *)
RemoveFails(who) ==
    LET it == Doing(who) IN
    /\ At(who) = "remove"
    /\ IF plain[it.index] = Absent THEN UNCHANGED bounds ELSE Fail
    /\ gz' = [gz EXCEPT ![it.index] = NoGz]
    /\ To(who, "expire-error", it)
    /\ UNCHANGED <<options, active, plain, file, archiveIndex, queue, sweep, history>>

List(who) ==
    /\ At(who) \in {"expire", "expire-error"}
    /\ ListArchives
    /\ To(who, IF At(who) = "expire" THEN "sweep" ELSE "sweep-error", Doing(who))
    /\ UNCHANGED <<options, disk, file, archiveIndex, queue, history, bounds>>

(* The archives go one by one, in the order of their names.                *)
FirstOfThem(i) == i \in doomed /\ \A k \in doomed \ {i} : NameBefore(i, k)

Sweeping == {"sweep", "sweep-error", "clean", "clean-error"}

Sweep(who) ==
    /\ At(who) \in Sweeping
    /\ \E i \in Indexes :
          /\ FirstOfThem(i) /\ i \in Archives
          /\ RemoveArchive(i)
          /\ doomed' = doomed \ {i}
    /\ UNCHANGED <<options, active, holder, queue, worker, work, spared, sent, acked,
                   truncated, started, bounds>>

(* It cannot be removed, or is gone: the error is reported at the end.     *)
SweepFails(who) ==
    /\ At(who) \in Sweeping
    /\ \E i \in Indexes :
          /\ FirstOfThem(i)
          /\ IF i \in Archives THEN Fail ELSE UNCHANGED bounds
          /\ doomed' = doomed \ {i} /\ spared' = spared \cup {i}
    /\ To(who, IF At(who) \in {"clean", "clean-error"} THEN "clean-error"
               ELSE "sweep-error", Doing(who))
    /\ UNCHANGED <<options, disk, file, archiveIndex, queue, history>>

(* The action ends.  An error of a synchronous one is Append's, or the     *)
(* constructor's.                                                          *)
Swept(who) ==
    /\ At(who) \in Sweeping /\ doomed = {}
    /\ IF who = "worker"
       THEN worker' = "idle" /\ work' = NoJob /\ UNCHANGED <<pc, job>>
       ELSE /\ job' = NoJob /\ UNCHANGED <<worker, work>>
            /\ CASE pc = "clean" -> Constructs
                 [] pc = "clean-error" -> pc' = "closing"
                 [] pc = "sweep" -> pc' = resume
                 [] pc = "sweep-error" -> Refuse
    /\ file' = (file /\ pc' # "closing")
    /\ UNCHANGED <<options, disk, archiveIndex, resume, queue, sweep, history, bounds>>

ActionRuns(who) ==
    \/ CompressCreate(who) \/ CompressSkip(who) \/ CompressFails(who)
    \/ CopyWhole(who) \/ CopyFails(who) \/ RemovePlain(who) \/ RemoveFails(who)
    \/ List(who) \/ Sweep(who) \/ SweepFails(who) \/ Swept(who)

-----------------------------------------------------------------------------
(* Close: no Append after it; the queue is closed and the worker waited    *)
(* for.                                                                    *)
Close == /\ pc \in {"idle", "stuck"}
         /\ file' = FALSE
         /\ pc' = "closing"
         /\ UNCHANGED <<options, disk, archiveIndex, resume, job, actions, history, bounds>>

(* Mutant: Close does not wait for the worker.                             *)
ClosedAtOnce == /\ pc = "closing"
                /\ pc' = "closed"
                /\ UNCHANGED <<options, disk, file, archiveIndex, resume, job, actions,
                               history, bounds>>

Closed == /\ pc = "closing"
          /\ queue = <<>> /\ worker = "idle"
          /\ pc' = "closed"
          /\ UNCHANGED <<options, disk, file, archiveIndex, resume, job, actions, history,
                         bounds>>

(* The process dies; what is on disk stays, also half a compressed file.   *)
Crash == /\ crashes < MaxCrashes
         /\ crashes' = crashes + 1
         /\ pc' = "down" /\ file' = FALSE /\ job' = NoJob
         /\ queue' = <<>> /\ worker' = "idle" /\ work' = NoJob
         /\ doomed' = {} /\ spared' = {}
         /\ UNCHANGED <<options, disk, archiveIndex, resume, history, failures>>

(* A new process after a crash, or a new appender after a Close.           *)
Restart == /\ pc \in {"down", "closed"}
           /\ FirstIndex < MaxIndex - 2
           /\ archiveIndex' = 0
           /\ pc' = "start"
           /\ started' = sent
           /\ UNCHANGED <<options, disk, file, resume, job, actions, sent, acked, expired,
                          truncated, bounds>>

-----------------------------------------------------------------------------
Finished == /\ pc \in {"idle", "stuck", "closed", "down"} /\ queue = <<>> /\ worker = "idle"
            /\ UNCHANGED vars

HolderRuns == \/ Construct \/ Open \/ OpenFails \/ Check \/ Write
              \/ PickNext \/ PickMin \/ RotateMin \/ RotateFails \/ PickFails \/ Sticks
              \/ Create \/ Rename \/ Reopen \/ RolloverFails \/ Enqueue
              \/ Closed \/ ActionRuns("holder")

WorkerRuns == TakeAction \/ ActionRuns("worker")

Next == Begin \/ Close \/ HolderRuns \/ WorkerRuns \/ Crash \/ Restart \/ Finished

(* The goroutine holding the mutex and the worker run on.                  *)
Fairness == WF_vars(HolderRuns) /\ WF_vars(WorkerRuns)

Spec == Init /\ [][Next]_vars
FairSpec == Spec /\ Fairness

-----------------------------------------------------------------------------
WholeGz(i) == gz[i] # NoGz /\ gz[i].whole

OnDisk == ToSet(active)
          \cup (UNION {EventsIn(plain[i]) : i \in Indexes})
          \cup (UNION {ToSet(gz[i].events) : i \in {k \in Indexes : WholeGz(k)}})

(* An event whose Append returned nil is in a readable file until          *)
(* retention removes its archive: no rollover, failed rename, failed or    *)
(* interrupted compression, crash or restart loses it.  The exception is   *)
(* append=false, which truncates the file at every opening: what an        *)
(* earlier appender wrote and, but only after a rollover has failed with   *)
(* the file closed, also what this one did.                                *)
NothingLost ==
    \A e \in acked \ (OnDisk \cup expired) :
        e \in truncated /\ ~options.append /\ (failures = 0 => e <= started)

(* Across rollovers, failures and restarts a higher archive index holds    *)
(* later events, and the active file the latest.  A file that is opened    *)
(* goes on after the archives the glob finds, which are compressed ones    *)
(* when archives are compressed: retention must have left the newest, and  *)
(* none may still wait for the worker, as after a rollover that failed.    *)
ArchiveEvents(i) == EventsIn(plain[i])
                    \cup (IF gz[i] = NoGz THEN {} ELSE ToSet(gz[i].events))

NothingPending == compress /\ options.asyncActions => failures = 0

NewestIsFound ==
    /\ compress => /\ Padded /\ MaxBackups > 0 /\ ~options.ages
                   /\ options.totalSizeCap = 0 \/ options.totalSizeCap >= MaxFile
    /\ NothingPending

ArchivesInOrder ==
    (mode = "nomax" /\ NewestIsFound) =>
        /\ \A i, k \in Indexes : i < k =>
              \A e \in ArchiveEvents(i), f \in ArchiveEvents(k) : e < f
        /\ \A i \in Indexes : \A e \in ArchiveEvents(i), f \in ToSet(active) : e < f

(* After Close, if nothing failed, all archives are compressed, no more    *)
(* than maxBackups are left and they are within totalSizeCap: Close waits  *)
(* for the queued actions.  A direct write keeps all its files.            *)
ActionsDoneAtClose ==
    (pc = "closed" /\ failures = 0 /\ crashes = 0 /\ ~directWrite) =>
        /\ Cardinality(Archives) <= MaxBackups
        /\ OverCap(Archives) = {}
        /\ compress => \A i \in Indexes : plain[i] = Absent

(* Retention keeps the newest: what it removes is older than every archive *)
(* it leaves, but for those whose removal has just failed.  An archive     *)
(* left uncompressed by a crash or a failure is one retention never sees;  *)
(* fileIndex min removes by index; and archives that wait for the worker   *)
(* while a file is opened again can end below newer ones.                  *)
RetentionKeepsNewest ==
    [][mode = "nomax" /\ NothingPending =>
          \A e \in expired' \ expired :
              \A i \in Archives' \ spared : \A f \in ArchiveEvents(i)' : e < f]_vars

(* Archives waiting for the worker are not touched by anybody else: the    *)
(* queue is serial so that no two operations work on the same archives.    *)
PendingArchiveIntact ==
    compress => \A n \in DOMAIN queue : plain[queue[n].index] = queue[n].events

(* Append and Close return, also when the action queue is full: again and  *)
(* again none is on its way (their number is bounded).                     *)
CallsReturn == []<>(pc \in {"idle", "stuck", "closed", "down"})
=============================================================================
