-------------------------- MODULE RollingFileProofs --------------------------
(***************************************************************************)
(* Theorems about RollingFile, for any number of events, failures and      *)
(* crashes, any limits of retention, and all options but fileIndex min     *)
(* together with gzip, where PendingArchiveIntact fails and events with it.*)
(***************************************************************************)
EXTENDS RollingFile, CountingLemmas, SequenceTheorems

NoMinGzip == \A o \in Setups : o.mode = "min" => ~o.compress

NotMinGzip == mode = "min" => ~compress

Jobs == [index : Indexes, events : Seq(Int), gzAt : Int]

Types == /\ options \in Setups
         /\ active \in Seq(Int) /\ active # Absent
         /\ plain \in [Indexes -> Seq(Int)]
         /\ gz \in [Indexes -> [events : Seq(Int), whole : BOOLEAN]]
         /\ file \in BOOLEAN
         /\ job \in Jobs /\ work \in Jobs /\ queue \in Seq(Jobs)
         /\ resume \in {"idle", "check", "write"}
         /\ sent \in Nat /\ started \in Nat
         /\ doomed \in SUBSET Indexes

(* Where an action stands.                                                 *)
ActionSteps == {"compress", "copy", "remove", "expire", "expire-error", "sweep", "sweep-error"}

(* The history is cleaned in the constructor.                              *)
Cleaning == {"clean", "clean-error"}

(* Who executes the actions: the worker, the holder, or, when the archives *)
(* are written directly, nobody; and a process that starts finds no worker *)
(* at work.  Only who executes an action removes archives.                 *)
WhoActs ==
    /\ worker \in ActionSteps \cup {"idle"}
    /\ ~options.asyncActions => queue = <<>> /\ worker = "idle"
    /\ options.asyncActions => pc \notin ActionSteps
    /\ pc = "enqueue" => options.asyncActions
    /\ pc \in Cleaning \cup {"start", "closed", "down"} => queue = <<>> /\ worker = "idle"
    /\ pc \notin Sweeping /\ worker \notin Sweeping => doomed = {}
    /\ directWrite => /\ queue = <<>> /\ worker = "idle"
                      /\ pc \notin ActionSteps \cup {"rename", "reopen", "enqueue"}

(* The name a rollover has picked stays free until it is used.             *)
TargetFree == pc \in {"rename", "create"} => plain[job.index] = Absent

(* What a direct write goes to is an archive, and an event is being        *)
(* written when there is one.                                              *)
DirectTarget ==
    /\ pc \in Cleaning \cup {"start", "open", "rename", "create", "reopen", "stuck", "closing",
                           "closed", "down"} => ~file
    /\ directWrite /\ (file \/ pc \in {"create", "check", "write"}) =>
          archiveIndex - 1 \in Indexes
    /\ resume \in {"check", "write"} \/ pc \in {"check", "write"} => sent >= 1

(* An action between the creation of the compressed file and the removal   *)
(* of its source: the source is there and both hold the same events.       *)
HalfDone(at, it) ==
    at \in {"copy", "remove"} =>
        /\ compress
        /\ it.gzAt = it.index
        /\ plain[it.index] # Absent
        /\ gz[it.index].events = plain[it.index]
        /\ at = "remove" => gz[it.index].whole

HalfInv == HalfDone(pc, job) /\ HalfDone(worker, work)

(* An acknowledged event is on disk, or retention or an opening removed it. *)
Kept == acked \subseteq OnDisk \cup expired \cup truncated

RollingInvariant ==
    Types /\ WhoActs /\ TargetFree /\ DirectTarget /\ HalfInv /\ Kept

-----------------------------------------------------------------------------
LEMMA JobFacts ==
    /\ 0 \in Indexes /\ NoJob \in Jobs /\ Absent \in Seq(Int)
    /\ <<>> # Absent /\ <<>> \in Seq(Int)
    /\ NoGz \in [events : Seq(Int), whole : BOOLEAN]
    /\ \A o \in Setups : o.directWrite => ~o.compress
    /\ \A o \in Setups : o.mode = "min" => MaxBackups \in 1..MaxIndex
    /\ <<>> \in Seq(Jobs)
    /\ \A q \in Seq(Jobs), j \in Jobs : Append(q, j) \in Seq(Jobs)
    /\ \A q \in Seq(Jobs) : q # <<>> => Head(q) \in Jobs /\ Tail(q) \in Seq(Jobs)
<1>1. /\ 0 \in Indexes /\ NoJob \in Jobs /\ Absent \in Seq(Int)
      /\ NoGz \in [events : Seq(Int), whole : BOOLEAN]
      /\ \A o \in Setups : o.directWrite => ~o.compress
      /\ \A o \in Setups : o.mode = "min" => MaxBackups \in 1..MaxIndex
    BY RollingAssumption DEF Indexes, NoJob, Jobs, Absent, NoGz, Valid
<1>2. <<>> # Absent
  <2>1. Len(<<>>) = 0 /\ Len(Absent) = 1
    BY DEF Absent
  <2> QED
    BY <2>1
<1> QED
    BY <1>1, <1>2, HeadTailProperties, AppendProperties, EmptySeq

(* What is in a sequence.                                                  *)
LEMMA AppendSet ==
    ASSUME NEW q \in Seq(Int), NEW e \in Int
    PROVE  /\ Append(q, e) \in Seq(Int)
           /\ ToSet(Append(q, e)) = ToSet(q) \cup {e}
           /\ e # 0 => Append(q, e) # Absent
<1>1. /\ Append(q, e) \in Seq(Int) /\ DOMAIN Append(q, e) = 1..Len(q) + 1
      /\ DOMAIN q = 1..Len(q) /\ Len(q) \in Nat
      /\ \A i \in DOMAIN q : Append(q, e)[i] = q[i]
      /\ Append(q, e)[Len(q) + 1] = e
    BY AppendProperties
<1>2. ToSet(Append(q, e)) = ToSet(q) \cup {e}
    BY <1>1 DEF ToSet
<1>3. ASSUME Append(q, e) = Absent PROVE e = 0
  <2>1. Len(Absent) = 1 /\ Absent[1] = 0
    BY DEF Absent
  <2>2. Len(Append(q, e)) = Len(q) + 1
    BY AppendProperties
  <2> QED
    BY <1>1, <1>3, <2>1, <2>2
<1> QED
    BY <1>1, <1>2, <1>3

(* Where an event on disk is.                                              *)
InPlain(e) == \E i \in Indexes : plain[i] # Absent /\ e \in ToSet(plain[i])
InGz(e) == \E i \in Indexes : WholeGz(i) /\ e \in ToSet(gz[i].events)

LEMMA OnDiskIs ==
    /\ \A e : e \in OnDisk <=> e \in ToSet(active) \/ InPlain(e) \/ InGz(e)
    /\ \A e : e \in OnDisk' <=> e \in ToSet(active') \/ InPlain(e)' \/ InGz(e)'
<1>1. ASSUME NEW e PROVE e \in OnDisk <=> e \in ToSet(active) \/ InPlain(e) \/ InGz(e)
  <2>1. e \in UNION {EventsIn(plain[i]) : i \in Indexes} <=> InPlain(e)
    BY DEF InPlain, EventsIn
  <2>2. e \in UNION {ToSet(gz[i].events) : i \in {k \in Indexes : WholeGz(k)}} <=> InGz(e)
    BY Zenon DEF InGz
  <2> QED
    BY <2>1, <2>2, Zenon DEF OnDisk
<1>2. ASSUME NEW e PROVE e \in OnDisk' <=> e \in ToSet(active') \/ InPlain(e)' \/ InGz(e)'
  <2>1. e \in UNION {EventsIn(plain'[i]) : i \in Indexes} <=> InPlain(e)'
    BY DEF InPlain, EventsIn
  <2>2. e \in UNION {ToSet(gz'[i].events) : i \in {k \in Indexes : WholeGz(k)'}} <=> InGz(e)'
    BY Zenon DEF InGz
  <2>3. OnDisk' = ToSet(active') \cup (UNION {EventsIn(plain'[i]) : i \in Indexes})
                  \cup (UNION {ToSet(gz'[i].events) : i \in {k \in Indexes : WholeGz(k)'}})
    BY Zenon DEF OnDisk
  <2> QED
    BY <2>1, <2>2, <2>3, Zenon
<1> QED
    BY <1>1, <1>2

(* An archive that does not change keeps its events.                       *)
LEMMA SafeStep ==
    ASSUME RollingInvariant, expired \subseteq expired', truncated \subseteq truncated',
           \A e \in acked' : e \in acked \/ e \in OnDisk',
           \A e \in ToSet(active) : e \in OnDisk' \cup expired' \cup truncated',
           \A i \in Indexes : plain[i] # Absent =>
               \A e \in ToSet(plain[i]) : e \in OnDisk' \cup expired',
           \A i \in Indexes : WholeGz(i) =>
               \A e \in ToSet(gz[i].events) : e \in OnDisk' \cup expired'
    PROVE  Kept'
<1>1. ASSUME NEW e \in OnDisk PROVE e \in OnDisk' \cup expired' \cup truncated'
    BY <1>1, OnDiskIs DEF InPlain, InGz
<1> QED
    BY <1>1 DEF RollingInvariant, Kept

(* Retention: the archive that is removed goes with its events, and        *)
(* expired has them.                                                       *)
LEMMA RemoveFacts ==
    ASSUME Types, NEW k \in Indexes, RemoveArchive(k)
    PROVE  /\ plain' \in [Indexes -> Seq(Int)]
           /\ gz' \in [Indexes -> [events : Seq(Int), whole : BOOLEAN]]
           /\ expired \subseteq expired'
           /\ \A i \in Indexes : \/ plain'[i] = plain[i]
                                 \/ plain'[i] = Absent /\ ToSet(plain[i]) \subseteq expired'
           /\ \A i \in Indexes : \/ gz'[i] = gz[i]
                                 \/ gz'[i] = NoGz /\ ToSet(gz[i].events) \subseteq expired'
<1>1. Absent \in Seq(Int) /\ NoGz \in [events : Seq(Int), whole : BOOLEAN]
    BY DEF Absent, NoGz
<1>2. /\ plain \in [Indexes -> Seq(Int)]
      /\ gz \in [Indexes -> [events : Seq(Int), whole : BOOLEAN]]
    BY DEF Types
<1>3. CASE compress
  <2>1. /\ gz' = [gz EXCEPT ![k] = NoGz]
        /\ expired' = expired \cup ToSet(gz[k].events)
        /\ plain' = plain
    BY <1>3 DEF RemoveArchive
  <2> QED
    BY <1>1, <1>2, <2>1
<1>4. CASE ~compress
  <2>1. /\ plain' = [plain EXCEPT ![k] = Absent]
        /\ expired' = expired \cup ToSet(plain[k])
        /\ gz' = gz
    BY <1>4 DEF RemoveArchive
  <2> QED
    BY <1>1, <1>2, <2>1
<1> QED
    BY <1>3, <1>4

LEMMA RemoveKeeps ==
    ASSUME RollingInvariant, NEW k \in Indexes, RemoveArchive(k),
           UNCHANGED <<acked, active, truncated>>
    PROVE  Kept'
<1>1. Types
    BY DEF RollingInvariant
<1>2. \A e \in ToSet(active) : e \in OnDisk'
    BY DEF OnDisk
<1>3. ASSUME NEW i \in Indexes, plain[i] # Absent, NEW e \in ToSet(plain[i])
      PROVE  e \in OnDisk' \cup expired'
  <2>1. plain'[i] = plain[i] => e \in OnDisk'
    BY <1>3, OnDiskIs DEF InPlain
  <2> QED
    BY <1>1, <1>3, <2>1, RemoveFacts
<1>4. ASSUME NEW i \in Indexes, WholeGz(i), NEW e \in ToSet(gz[i].events)
      PROVE  e \in OnDisk' \cup expired'
  <2>1. gz'[i] = gz[i] => e \in OnDisk'
    BY <1>4, OnDiskIs DEF InGz, WholeGz
  <2> QED
    BY <1>1, <1>4, <2>1, RemoveFacts
<1> QED
    BY <1>1, <1>2, <1>3, <1>4, RemoveFacts, SafeStep

-----------------------------------------------------------------------------
(* The actions, without what they do to the events.                        *)
Control == Types /\ WhoActs /\ TargetFree /\ DirectTarget /\ HalfInv

LEMMA ConstructStep == ASSUME NotMinGzip, Control, Construct PROVE Control'
<1>1. Types'
  <2>1. doomed' \in SUBSET Indexes
    BY DEF Construct, ListArchives, Condemned, Surplus, AgedSets, OverCap, Archives, Control,
       Types, sweep
  <2>2. /\ UNCHANGED <<options, active, plain, gz, file, job, work, queue, sent, started>>
        /\ resume' = "idle"
    BY DEF Construct, disk, history
  <2> QED
    BY <2>1, <2>2 DEF Control, Types
<1>2. WhoActs'
    BY DEF Control, Construct, Constructs, ListArchives, Condemned, Surplus, AgedSets, OverCap,
       Archives, WhoActs, ActionSteps, Cleaning, Sweeping, Types, directWrite,
       holder, actions, sweep
<1>3. TargetFree'
    BY DEF Control, Construct, Constructs, ListArchives, Condemned, Surplus, AgedSets, OverCap,
       Archives, TargetFree, Types, directWrite, disk, holder, actions, sweep
<1>4. DirectTarget'
    BY DEF Control, Construct, Constructs, ListArchives, Condemned, Surplus, AgedSets, OverCap,
       Archives, DirectTarget, WhoActs, Cleaning, Types, directWrite, holder,
       actions, history
<1>5. HalfInv'
    BY DEF Control, Construct, Constructs, ListArchives, Condemned, Surplus, AgedSets, OverCap,
       Archives, HalfInv, HalfDone, WhoActs, ActionSteps, Types, compress,
       directWrite, TargetFree, disk, holder, actions, sweep
<1> QED
    BY <1>1, <1>2, <1>3, <1>4, <1>5 DEF Control

LEMMA BeginStep == ASSUME NotMinGzip, Control, Begin PROVE Control'
<1>1. Types'
  <2>1. /\ sent' = sent + 1 /\ resume' = "check"
        /\ UNCHANGED <<options, active, plain, gz, file, job, work, queue, started, doomed>>
    BY DEF Begin, disk, actions
  <2> QED
    BY <2>1 DEF Control, Types
<1>2. WhoActs'
    BY DEF Control, Begin, WhoActs, ActionSteps, Cleaning, Sweeping, Types, directWrite, holder, actions, sweep
<1>3. TargetFree'
    BY DEF Control, Begin, TargetFree, Types, directWrite, disk, holder, actions, sweep
<1>4. DirectTarget'
    BY DEF Control, Begin, DirectTarget, WhoActs, Cleaning, Types, directWrite, holder, actions, history
<1>5. HalfInv'
    BY DEF Control, Begin, HalfInv, HalfDone, WhoActs, ActionSteps, Types, compress,
       directWrite, TargetFree, disk, holder, actions, sweep
<1> QED
    BY <1>1, <1>2, <1>3, <1>4, <1>5 DEF Control

LEMMA OpenStep == ASSUME NotMinGzip, Control, Open PROVE Control'
<1>1. Types'
    BY JobFacts DEF Control, Open, OpenFile, Types, Jobs, directWrite, holder, actions, sweep, disk,
       history, bounds
<1>2. WhoActs'
    BY DEF Control, Open, OpenFile, WhoActs, ActionSteps, Cleaning, Sweeping, Types, directWrite,
       holder, actions, sweep
<1>3. TargetFree'
    BY DEF Control, Open, OpenFile, TargetFree, Types, directWrite, disk, holder, actions, sweep
<1>4. DirectTarget'
    BY DEF Control, Open, OpenFile, DirectTarget, WhoActs, Cleaning, Types, directWrite, holder,
       actions, history
<1>5. HalfInv'
    BY DEF Control, Open, OpenFile, HalfInv, HalfDone, WhoActs, ActionSteps, Types, compress,
       directWrite, TargetFree, disk, holder, actions, sweep
<1> QED
    BY <1>1, <1>2, <1>3, <1>4, <1>5 DEF Control

LEMMA OpenFailsStep == ASSUME NotMinGzip, Control, OpenFails PROVE Control'
<1>1. Types'
    BY JobFacts DEF Control, OpenFails, OpenFile, Refuse, Fail, Types, Jobs, directWrite, holder, actions, sweep, disk,
       history, bounds
<1>2. WhoActs'
    BY DEF Control, OpenFails, OpenFile, Refuse, Fail, WhoActs, ActionSteps, Cleaning, Sweeping, Types, directWrite,
       holder, actions, sweep
<1>3. TargetFree'
    BY DEF Control, OpenFails, OpenFile, Refuse, Fail, TargetFree, Types, directWrite, disk, holder, actions, sweep
<1>4. DirectTarget'
    BY DEF Control, OpenFails, OpenFile, Refuse, Fail, DirectTarget, WhoActs, Cleaning, Types, directWrite, holder,
       actions, history
<1>5. HalfInv'
    BY DEF Control, OpenFails, OpenFile, Refuse, Fail, HalfInv, HalfDone, WhoActs, ActionSteps, Types, compress,
       directWrite, TargetFree, disk, holder, actions, sweep
<1> QED
    BY <1>1, <1>2, <1>3, <1>4, <1>5 DEF Control

LEMMA CheckStep == ASSUME NotMinGzip, Control, Check PROVE Control'
<1>1. Types'
    BY JobFacts DEF Control, Check, Types, Jobs, directWrite, holder, actions, sweep, disk,
       history, bounds
<1>2. WhoActs'
    BY DEF Control, Check, WhoActs, ActionSteps, Cleaning, Sweeping, Types, directWrite, holder, actions, sweep
<1>3. TargetFree'
    BY DEF Control, Check, TargetFree, Types, directWrite, disk, holder, actions, sweep
<1>4. DirectTarget'
    BY DEF Control, Check, DirectTarget, WhoActs, Cleaning, Types, directWrite, holder, actions, history
<1>5. HalfInv'
    BY DEF Control, Check, HalfInv, HalfDone, WhoActs, ActionSteps, Types, compress,
       directWrite, TargetFree, disk, holder, actions, sweep
<1> QED
    BY <1>1, <1>2, <1>3, <1>4, <1>5 DEF Control

LEMMA WriteStep == ASSUME NotMinGzip, Control, Write PROVE Control'
<1>1. Types'
  <2>1. /\ UNCHANGED <<options, gz, file, resume, job, work, queue, sent, started, doomed>>
        /\ \/ active' = Append(active, sent) /\ plain' = plain
           \/ active' = active /\ plain' = [plain EXCEPT ![archiveIndex - 1] = Append(@, sent)]
    BY DEF Write, actions
  <2>2. sent \in Int /\ \A q \in Seq(Int) : Append(q, sent) \in Seq(Int)
    BY AppendProperties DEF Control, Types
  <2>3. active' \in Seq(Int) /\ active' # Absent
    <3>1. sent # 0
      BY DEF Control, DirectTarget, Types, Write
    <3> QED
      BY <2>1, <2>2, <3>1, AppendSet DEF Control, Types
  <2>4. plain \in [Indexes -> Seq(Int)]
    BY DEF Control, Types
  <2>5. plain' \in [Indexes -> Seq(Int)]
    <3>1. CASE plain' = plain
      BY <2>4, <3>1
    <3>2. CASE plain' = [plain EXCEPT ![archiveIndex - 1] = Append(@, sent)]
      <4>1. ASSUME NEW i \in Indexes PROVE plain'[i] \in {plain[i], Append(plain[i], sent)}
        BY <2>4, <3>2
      <4> QED
        BY <2>2, <2>4, <3>2, <4>1
    <3> QED
      BY <2>1, <3>1, <3>2
  <2> QED
    BY <2>1, <2>3, <2>5 DEF Control, Types
<1>2. WhoActs'
    BY DEF Control, Write, WhoActs, ActionSteps, Cleaning, Sweeping, Types, directWrite, holder, actions, sweep
<1>3. TargetFree'
    BY DEF Control, Write, TargetFree, Types, directWrite, disk, holder, actions, sweep
<1>4. DirectTarget'
    BY DEF Control, Write, DirectTarget, WhoActs, Cleaning, Types, directWrite, holder, actions, history
<1>5. HalfInv'
    BY DEF Control, Write, HalfInv, HalfDone, WhoActs, ActionSteps, Types, compress,
       directWrite, TargetFree, disk, holder, actions, sweep
<1> QED
    BY <1>1, <1>2, <1>3, <1>4, <1>5 DEF Control

LEMMA CreateStep == ASSUME NotMinGzip, Control, Create PROVE Control'
<1>1. Types'
    BY JobFacts DEF Control, Create, Types, Jobs, directWrite, holder, actions, sweep, disk,
       history, bounds
<1>2. WhoActs'
    BY DEF Control, Create, WhoActs, ActionSteps, Cleaning, Sweeping, Types, directWrite, holder, actions, sweep
<1>3. TargetFree'
    BY DEF Control, Create, TargetFree, Types, directWrite, disk, holder, actions, sweep
<1>4. DirectTarget'
    BY DEF Control, Create, DirectTarget, WhoActs, Cleaning, Types, directWrite, holder, actions, history
<1>5. HalfInv'
    BY DEF Control, Create, HalfInv, HalfDone, WhoActs, ActionSteps, Types, compress,
       directWrite, TargetFree, disk, holder, actions, sweep
<1> QED
    BY <1>1, <1>2, <1>3, <1>4, <1>5 DEF Control

LEMMA RenameStep == ASSUME NotMinGzip, Control, Rename PROVE Control'
<1>1. Types'
    BY JobFacts DEF Control, Rename, Types, Jobs, directWrite, holder, actions, sweep, disk,
       history, bounds
<1>2. WhoActs'
    BY DEF Control, Rename, WhoActs, ActionSteps, Cleaning, Sweeping, Types, directWrite, holder, actions, sweep
<1>3. TargetFree'
    BY DEF Control, Rename, TargetFree, Types, directWrite, disk, holder, actions, sweep
<1>4. DirectTarget'
    BY DEF Control, Rename, DirectTarget, WhoActs, Cleaning, Types, directWrite, holder, actions, history
<1>5. HalfInv'
    BY DEF Control, Rename, HalfInv, HalfDone, WhoActs, ActionSteps, Types, compress,
       directWrite, TargetFree, disk, holder, actions, sweep
<1> QED
    BY <1>1, <1>2, <1>3, <1>4, <1>5 DEF Control

LEMMA ReopenStep == ASSUME NotMinGzip, Control, Reopen PROVE Control'
<1>1. Types'
    BY JobFacts DEF Control, Reopen, Types, Jobs, directWrite, holder, actions, sweep, disk,
       history, bounds
<1>2. WhoActs'
    BY DEF Control, Reopen, WhoActs, ActionSteps, Cleaning, Sweeping, Types, directWrite, holder, actions, sweep
<1>3. TargetFree'
    BY DEF Control, Reopen, TargetFree, Types, directWrite, disk, holder, actions, sweep
<1>4. DirectTarget'
    BY DEF Control, Reopen, DirectTarget, WhoActs, Cleaning, Types, directWrite, holder, actions, history
<1>5. HalfInv'
    BY DEF Control, Reopen, HalfInv, HalfDone, WhoActs, ActionSteps, Types, compress,
       directWrite, TargetFree, disk, holder, actions, sweep
<1> QED
    BY <1>1, <1>2, <1>3, <1>4, <1>5 DEF Control

LEMMA RolloverFailsStep == ASSUME NotMinGzip, Control, RolloverFails PROVE Control'
<1>1. Types'
    BY JobFacts DEF Control, RolloverFails, Refuse, Fail, Types, Jobs, directWrite, holder,
       actions, sweep, disk, history, bounds
<1>2. WhoActs'
    BY DEF Control, RolloverFails, Refuse, Fail, WhoActs, ActionSteps, Cleaning, Sweeping, Types, directWrite,
       holder, actions, sweep
<1>3. TargetFree'
    BY DEF Control, RolloverFails, Refuse, Fail, TargetFree, Types, directWrite, disk,
       holder, actions, sweep
<1>4. DirectTarget'
    BY DEF Control, RolloverFails, Refuse, Fail, DirectTarget, WhoActs, Cleaning, Types, directWrite,
       holder, actions, history
<1>5. HalfInv'
    BY DEF Control, RolloverFails, Refuse, Fail, HalfInv, HalfDone, WhoActs, ActionSteps,
       Types, compress, directWrite, TargetFree, disk, holder, actions, sweep
<1> QED
    BY <1>1, <1>2, <1>3, <1>4, <1>5 DEF Control

LEMMA PickFailsStep == ASSUME NotMinGzip, Control, PickFails PROVE Control'
<1>1. Types'
    BY JobFacts DEF Control, PickFails, Refuse, Fail, Types, Jobs, directWrite, holder, actions, sweep, disk,
       history, bounds
<1>2. WhoActs'
    BY DEF Control, PickFails, Refuse, Fail, WhoActs, ActionSteps, Cleaning, Sweeping, Types, directWrite,
       holder, actions, sweep
<1>3. TargetFree'
    BY DEF Control, PickFails, Refuse, Fail, TargetFree, Types, directWrite, disk, holder, actions, sweep
<1>4. DirectTarget'
    BY DEF Control, PickFails, Refuse, Fail, DirectTarget, WhoActs, Cleaning, Types, directWrite, holder,
       actions, history
<1>5. HalfInv'
    BY DEF Control, PickFails, Refuse, Fail, HalfInv, HalfDone, WhoActs, ActionSteps, Types, compress,
       directWrite, TargetFree, disk, holder, actions, sweep
<1> QED
    BY <1>1, <1>2, <1>3, <1>4, <1>5 DEF Control

LEMMA SticksStep == ASSUME NotMinGzip, Control, Sticks PROVE Control'
<1>1. Types'
    BY JobFacts DEF Control, Sticks, Fail, Types, Jobs, directWrite, holder, actions, sweep, disk,
       history, bounds
<1>2. WhoActs'
    BY DEF Control, Sticks, Fail, WhoActs, ActionSteps, Cleaning, Sweeping, Types, directWrite,
       holder, actions, sweep
<1>3. TargetFree'
    BY DEF Control, Sticks, Fail, TargetFree, Types, directWrite, disk, holder, actions, sweep
<1>4. DirectTarget'
    BY DEF Control, Sticks, Fail, DirectTarget, WhoActs, Cleaning, Types, directWrite, holder,
       actions, history
<1>5. HalfInv'
    BY DEF Control, Sticks, Fail, HalfInv, HalfDone, WhoActs, ActionSteps, Types, compress,
       directWrite, TargetFree, disk, holder, actions, sweep
<1> QED
    BY <1>1, <1>2, <1>3, <1>4, <1>5 DEF Control

LEMMA EnqueueStep == ASSUME NotMinGzip, Control, Enqueue PROVE Control'
<1>1. Types'
    BY JobFacts DEF Control, Enqueue, Types, Jobs, directWrite, holder, actions, sweep, disk,
       history, bounds
<1>2. WhoActs'
    BY DEF Control, Enqueue, WhoActs, ActionSteps, Cleaning, Sweeping, Types, directWrite, holder, actions, sweep
<1>3. TargetFree'
    BY DEF Control, Enqueue, TargetFree, Types, directWrite, disk, holder, actions, sweep
<1>4. DirectTarget'
    BY DEF Control, Enqueue, DirectTarget, WhoActs, Cleaning, Types, directWrite, holder, actions, history
<1>5. HalfInv'
    BY DEF Control, Enqueue, HalfInv, HalfDone, WhoActs, ActionSteps, Types, compress,
       directWrite, TargetFree, disk, holder, actions, sweep
<1> QED
    BY <1>1, <1>2, <1>3, <1>4, <1>5 DEF Control

LEMMA TakeActionStep == ASSUME NotMinGzip, Control, TakeAction PROVE Control'
<1>1. Types'
    BY JobFacts DEF Control, TakeAction, Types, Jobs, directWrite, holder, actions, sweep, disk,
       history, bounds
<1>2. WhoActs'
    BY DEF Control, TakeAction, WhoActs, ActionSteps, Cleaning, Sweeping, Types, directWrite, holder, actions, sweep
<1>3. TargetFree'
    BY DEF Control, TakeAction, TargetFree, Types, directWrite, disk, holder, actions, sweep
<1>4. DirectTarget'
    BY DEF Control, TakeAction, DirectTarget, WhoActs, Cleaning, Types, directWrite, holder, actions,
       history
<1>5. HalfInv'
    BY DEF Control, TakeAction, HalfInv, HalfDone, WhoActs, ActionSteps, Types, compress,
       directWrite, TargetFree, disk, holder, actions, sweep
<1> QED
    BY <1>1, <1>2, <1>3, <1>4, <1>5 DEF Control

LEMMA CloseStep == ASSUME NotMinGzip, Control, Close PROVE Control'
<1>1. Types'
    BY JobFacts DEF Control, Close, Types, Jobs, directWrite, holder, actions, sweep, disk,
       history, bounds
<1>2. WhoActs'
    BY DEF Control, Close, WhoActs, ActionSteps, Cleaning, Sweeping, Types, directWrite, holder, actions, sweep
<1>3. TargetFree'
    BY DEF Control, Close, TargetFree, Types, directWrite, disk, holder, actions, sweep
<1>4. DirectTarget'
    BY DEF Control, Close, DirectTarget, WhoActs, Cleaning, Types, directWrite, holder, actions, history
<1>5. HalfInv'
    BY DEF Control, Close, HalfInv, HalfDone, WhoActs, ActionSteps, Types, compress,
       directWrite, TargetFree, disk, holder, actions, sweep
<1> QED
    BY <1>1, <1>2, <1>3, <1>4, <1>5 DEF Control

LEMMA ClosedStep == ASSUME NotMinGzip, Control, Closed PROVE Control'
<1>1. Types'
    BY JobFacts DEF Control, Closed, Types, Jobs, directWrite, holder, actions, sweep, disk,
       history, bounds
<1>2. WhoActs'
    BY DEF Control, Closed, WhoActs, ActionSteps, Cleaning, Sweeping, Types, directWrite, holder, actions, sweep
<1>3. TargetFree'
    BY DEF Control, Closed, TargetFree, Types, directWrite, disk, holder, actions, sweep
<1>4. DirectTarget'
    BY DEF Control, Closed, DirectTarget, WhoActs, Cleaning, Types, directWrite, holder, actions, history
<1>5. HalfInv'
    BY DEF Control, Closed, HalfInv, HalfDone, WhoActs, ActionSteps, Types, compress,
       directWrite, TargetFree, disk, holder, actions, sweep
<1> QED
    BY <1>1, <1>2, <1>3, <1>4, <1>5 DEF Control

LEMMA CrashStep == ASSUME NotMinGzip, Control, Crash PROVE Control'
<1>1. Types'
  <2>1. /\ file' = FALSE /\ job' = NoJob /\ work' = NoJob /\ queue' = <<>>
        /\ doomed' = {}
        /\ UNCHANGED <<options, active, plain, gz, resume, sent, started>>
    BY DEF Crash, disk, history
  <2> QED
    BY <2>1, JobFacts DEF Control, Types
<1>2. WhoActs'
    BY DEF Control, Crash, WhoActs, ActionSteps, Cleaning, Sweeping, Types, directWrite, holder, actions, sweep
<1>3. TargetFree'
    BY DEF Control, Crash, TargetFree, Types, directWrite, disk, holder, actions, sweep
<1>4. DirectTarget'
    BY DEF Control, Crash, DirectTarget, WhoActs, Cleaning, Types, directWrite, holder, actions, history
<1>5. HalfInv'
    BY DEF Control, Crash, HalfInv, HalfDone, WhoActs, ActionSteps, Types, compress,
       directWrite, TargetFree, disk, holder, actions, sweep
<1> QED
    BY <1>1, <1>2, <1>3, <1>4, <1>5 DEF Control

LEMMA RestartStep == ASSUME NotMinGzip, Control, Restart PROVE Control'
<1>1. Types'
    BY JobFacts DEF Control, Restart, Types, Jobs, directWrite, holder, actions, sweep, disk,
       history, bounds
<1>2. WhoActs'
    BY DEF Control, Restart, WhoActs, ActionSteps, Cleaning, Sweeping, Types, directWrite, holder, actions, sweep
<1>3. TargetFree'
    BY DEF Control, Restart, TargetFree, Types, directWrite, disk, holder, actions, sweep
<1>4. DirectTarget'
    BY DEF Control, Restart, DirectTarget, WhoActs, Cleaning, Types, directWrite, holder, actions, history
<1>5. HalfInv'
    BY DEF Control, Restart, HalfInv, HalfDone, WhoActs, ActionSteps, Types, compress,
       directWrite, TargetFree, disk, holder, actions, sweep
<1> QED
    BY <1>1, <1>2, <1>3, <1>4, <1>5 DEF Control

(* Both ways to pick a free index.                                         *)
LEMMA PickFacts ==
    ASSUME Control, PickNext \/ PickMin
    PROVE  \E i \in Indexes :
              /\ plain[i] = Absent
              /\ job' = [index |-> i, events |-> active, gzAt |-> -1]
              /\ archiveIndex' = i + 1 /\ file' = FALSE /\ pc' = AfterPick
              /\ pc = "pick"
              /\ UNCHANGED <<options, active, plain, gz, resume, queue, worker, work, doomed, spared,
                             sent, acked, expired, truncated, started>>
<1>1. CASE PickNext
    BY <1>1 DEF PickNext, Exists, disk, actions, sweep, history
<1>2. CASE PickMin
  <2>1. MaxBackups \in 1..MaxIndex
    BY <1>2, JobFacts DEF Control, Types, PickMin, mode
  <2>2. 1..MaxBackups \subseteq Indexes
    BY <2>1, RollingAssumption DEF Indexes
  <2> QED
    BY <1>2, <2>2 DEF PickMin, Exists, disk, actions, sweep, history
<1> QED
    BY <1>1, <1>2

LEMMA PickStep == ASSUME NotMinGzip, Control, PickNext \/ PickMin PROVE Control'
<1>1. PICK i \in Indexes :
              /\ plain[i] = Absent
              /\ job' = [index |-> i, events |-> active, gzAt |-> -1]
              /\ archiveIndex' = i + 1 /\ file' = FALSE /\ pc' = AfterPick
              /\ pc = "pick"
              /\ UNCHANGED <<options, active, plain, gz, resume, queue, worker, work, doomed, spared,
                             sent, acked, expired, truncated, started>>
    BY PickFacts
<1>2. Types'
  <2>1. active \in Seq(Int) /\ -1 \in Int
    BY DEF Control, Types
  <2>2. [index |-> i, events |-> active, gzAt |-> -1] \in Jobs
    BY <2>1 DEF Jobs
  <2> QED
    BY <1>1, <2>2 DEF Control, Types
<1>3. WhoActs'
    BY <1>1 DEF Control, WhoActs, AfterPick, directWrite, ActionSteps, Cleaning, Sweeping
<1>4. TargetFree'
    BY <1>1 DEF TargetFree
<1>5. DirectTarget'
  <2>1. archiveIndex' - 1 = i
    BY <1>1 DEF Indexes
  <2> QED
    BY <1>1, <2>1 DEF Control, DirectTarget, AfterPick, directWrite, Cleaning
<1>6. HalfInv'
    BY <1>1 DEF Control, HalfInv, HalfDone, AfterPick, directWrite, compress
<1> QED
    BY <1>2, <1>3, <1>4, <1>5, <1>6 DEF Control

(* A rotation, of archives that are not compressed, down to the hole it    *)
(* leaves.                                                                 *)
LEMMA RotateFacts ==
    ASSUME NotMinGzip, Control, NEW hole \in 1..MaxBackups, Rotated(hole)
    PROVE  /\ MaxBackups \in 1..MaxIndex /\ ~compress /\ mode = "min"
           /\ plain' = [i \in Indexes |-> CASE i = hole -> Absent
                                             [] i \in (hole + 1)..MaxBackups -> plain[i - 1]
                                             [] OTHER -> plain[i]]
           /\ expired' = expired \cup EventsIn(plain[MaxBackups])
           /\ file' = FALSE /\ pc = "pick"
           /\ UNCHANGED <<options, active, gz, resume, queue, worker, work, doomed, spared,
                          sent, acked, truncated, started>>
<1>1. MaxBackups \in 1..MaxIndex /\ ~compress /\ mode = "min"
    BY JobFacts DEF Control, Types, Rotated, mode, compress, NotMinGzip
<1> QED
    BY <1>1 DEF Rotated, Shifted, sweep

LEMMA RotatedTypes ==
    ASSUME NotMinGzip, Control, NEW hole \in 1..MaxBackups, Rotated(hole)
    PROVE  plain' \in [Indexes -> Seq(Int)] /\ hole \in Indexes /\ plain'[hole] = Absent
<1>1. /\ MaxBackups \in 1..MaxIndex
      /\ plain' = [i \in Indexes |-> CASE i = hole -> Absent
                                        [] i \in (hole + 1)..MaxBackups -> plain[i - 1]
                                        [] OTHER -> plain[i]]
    BY RotateFacts
<1>2. hole \in Indexes /\ \A i \in (hole + 1)..MaxBackups : i - 1 \in Indexes
  <2>1. MaxIndex \in Nat /\ MaxBackups \in Nat /\ 1 <= MaxBackups /\ MaxBackups <= MaxIndex
    BY <1>1, RollingAssumption
  <2> QED
    BY <2>1 DEF Indexes
<1>3. plain' \in [Indexes -> Seq(Int)]
  <2> SUFFICES ASSUME NEW i \in Indexes PROVE plain'[i] \in Seq(Int)
    BY <1>1
  <2>1. \/ plain'[i] \in {Absent, plain[i]}
        \/ /\ i \in (hole + 1)..MaxBackups
           /\ plain'[i] = plain[i - 1]
    BY <1>1
  <2> QED
    BY <1>2, <2>1, JobFacts DEF Control, Types
<1> QED
    BY <1>1, <1>2, <1>3

LEMMA RotateStep == ASSUME NotMinGzip, Control, RotateMin PROVE Control'
<1>1. 1 \in 1..MaxBackups /\ Rotated(1)
  <2>1. MaxBackups \in 1..MaxIndex
    BY JobFacts DEF Control, Types, RotateMin, Rotated, mode
  <2> QED
    BY <2>1 DEF RotateMin
<1>2. /\ MaxBackups \in 1..MaxIndex /\ ~compress
      /\ job' = [index |-> 1, events |-> active, gzAt |-> -1]
      /\ archiveIndex' = 2 /\ file' = FALSE /\ pc' = AfterPick /\ pc = "pick"
      /\ UNCHANGED <<options, active, gz, resume, queue, worker, work, doomed, spared, sent,
                     acked, started>>
    BY <1>1, RotateFacts DEF RotateMin
<1>3. plain' \in [Indexes -> Seq(Int)] /\ 1 \in Indexes /\ plain'[1] = Absent
    BY <1>1, RotatedTypes
<1>4. Types'
  <2>1. active \in Seq(Int) /\ -1 \in Int
    BY DEF Control, Types
  <2>2. [index |-> 1, events |-> active, gzAt |-> -1] \in Jobs
    BY <1>3, <2>1 DEF Jobs
  <2> QED
    BY <1>2, <1>3, <2>2 DEF Control, Types
<1>5. WhoActs'
    BY <1>2 DEF Control, WhoActs, AfterPick, directWrite, ActionSteps, Cleaning, Sweeping
<1>6. TargetFree'
    BY <1>2, <1>3 DEF TargetFree
<1>7. DirectTarget'
    BY <1>2, <1>3 DEF Control, DirectTarget, AfterPick, directWrite, Cleaning
<1>8. HalfInv'
    BY <1>2 DEF Control, HalfInv, HalfDone, AfterPick, directWrite, compress
<1> QED
    BY <1>4, <1>5, <1>6, <1>7, <1>8 DEF Control

LEMMA RotateFailsStep == ASSUME NotMinGzip, Control, RotateFails PROVE Control'
<1>1. PICK hole \in 2..MaxBackups : Rotated(hole)
    BY DEF RotateFails
<1>2. /\ ~compress /\ file' = FALSE /\ pc' \in {"closing", "idle"} /\ pc = "pick"
      /\ UNCHANGED <<options, active, gz, resume, queue, worker, work, doomed, spared, sent,
                     acked, started, job, archiveIndex>>
      /\ hole \in 1..MaxBackups
  <2>1. hole \in 1..MaxBackups
    BY <1>1, RollingAssumption
  <2> QED
    BY <1>1, <2>1, RotateFacts DEF RotateFails, Refuse
<1>3. plain' \in [Indexes -> Seq(Int)]
    BY <1>1, <1>2, RotatedTypes
<1>4. Types'
    BY <1>2, <1>3 DEF Control, Types
<1>5. WhoActs'
    BY <1>2 DEF Control, WhoActs, AfterPick, directWrite, ActionSteps, Cleaning, Sweeping
<1>6. TargetFree'
    BY <1>2 DEF TargetFree
<1>7. DirectTarget'
    BY <1>2 DEF Control, DirectTarget, AfterPick, directWrite, Cleaning
<1>8. HalfInv'
    BY <1>2 DEF Control, HalfInv, HalfDone, AfterPick, directWrite, compress
<1> QED
    BY <1>4, <1>5, <1>6, <1>7, <1>8 DEF Control

LEMMA ActorTypes ==
    ASSUME Types, NEW who \in Actors
    PROVE  /\ Doing(who) \in Jobs
           /\ [Doing(who) EXCEPT !.gzAt = Doing(who).index] \in Jobs
<1>1. Doing(who) \in Jobs
    BY DEF Types, Doing
<1>2. [Doing(who) EXCEPT !.gzAt = Doing(who).index] \in Jobs
    BY <1>1 DEF Jobs, Indexes
<1> QED
    BY <1>1, <1>2

LEMMA CompressCreateStep ==
    ASSUME NotMinGzip, Control, NEW who \in Actors, CompressCreate(who) PROVE Control'
<1>1. Types'
  <2>1. To(who, "copy", [Doing(who) EXCEPT !.gzAt = Doing(who).index])
    BY DEF CompressCreate
  <2>2. job' \in Jobs /\ work' \in Jobs /\ resume' = resume
    BY <2>1, ActorTypes DEF Control, Types, To
  <2>3. /\ plain' \in [Indexes -> Seq(Int)]
        /\ gz' \in [Indexes -> [events : Seq(Int), whole : BOOLEAN]]
    BY JobFacts, ActorTypes DEF Control, CompressCreate, Types, Jobs, disk
  <2>4. UNCHANGED <<options, active, file, queue, sent, started, doomed>>
    BY DEF CompressCreate, disk, sweep, history
  <2> QED
    BY <2>2, <2>3, <2>4 DEF Control, Types
<1>2. WhoActs'
    BY DEF Control, CompressCreate, At, Doing, To, Actors, WhoActs, ActionSteps, Types,
       Cleaning, Sweeping, sweep, directWrite
<1>3. TargetFree'
    BY DEF Control, CompressCreate, At, Doing, To, Actors, TargetFree, WhoActs, ActionSteps,
       Types, Jobs, disk
<1>4. DirectTarget'
    BY DEF Control, CompressCreate, At, Doing, To, Actors, DirectTarget, WhoActs,
       ActionSteps, Cleaning, Sweeping, Types, directWrite, history
<1>5. HalfInv'
  <2> DEFINE it == Doing(who)
  <2>1. /\ it \in Jobs /\ it.index \in Indexes
        /\ gz \in [Indexes -> [events : Seq(Int), whole : BOOLEAN]]
        /\ compress /\ plain[it.index] # Absent
        /\ gz' = [gz EXCEPT ![it.index] = [events |-> plain[it.index], whole |-> FALSE]]
        /\ To(who, "copy", [it EXCEPT !.gzAt = it.index]) /\ UNCHANGED <<options, plain>>
    BY ActorTypes DEF Control, Types, CompressCreate, Jobs
  <2>2. CASE who = "holder"
    <3>1. pc' = "copy" /\ job' = [it EXCEPT !.gzAt = it.index] /\ worker' = "idle"
      BY <2>1, <2>2 DEF To, Control, WhoActs, CompressCreate, At, ActionSteps
    <3>2. job'.gzAt = it.index /\ job'.index = it.index
      BY <2>1, <3>1 DEF Jobs
    <3> QED
      BY <2>1, <3>1, <3>2 DEF HalfInv, HalfDone, compress
  <2>3. CASE who = "worker"
    <3>1. /\ worker' = "copy" /\ work' = [it EXCEPT !.gzAt = it.index]
          /\ pc' \notin {"copy", "remove"}
      BY <2>1, <2>3 DEF To, Control, WhoActs, CompressCreate, At, ActionSteps
    <3>2. work'.gzAt = it.index /\ work'.index = it.index
      BY <2>1, <3>1 DEF Jobs
    <3> QED
      BY <2>1, <3>1, <3>2 DEF HalfInv, HalfDone, compress
  <2> QED
    BY <2>2, <2>3 DEF Actors
<1> QED
    BY <1>1, <1>2, <1>3, <1>4, <1>5 DEF Control

LEMMA CompressSkipStep ==
    ASSUME NotMinGzip, Control, NEW who \in Actors, CompressSkip(who) PROVE Control'
<1>1. Types'
  <2>1. To(who, "expire", Doing(who))
    BY DEF CompressSkip
  <2>2. job' \in Jobs /\ work' \in Jobs /\ resume' = resume
    BY <2>1, ActorTypes DEF Control, Types, To
  <2>3. /\ plain' \in [Indexes -> Seq(Int)]
        /\ gz' \in [Indexes -> [events : Seq(Int), whole : BOOLEAN]]
    BY JobFacts, ActorTypes DEF Control, CompressSkip, Types, Jobs, disk
  <2>4. UNCHANGED <<options, active, file, queue, sent, started, doomed>>
    BY DEF CompressSkip, disk, sweep, history
  <2> QED
    BY <2>2, <2>3, <2>4 DEF Control, Types
<1>2. WhoActs'
    BY DEF Control, CompressSkip, At, Doing, To, Actors, WhoActs, ActionSteps, Types,
       Cleaning, Sweeping, sweep, directWrite
<1>3. TargetFree'
    BY DEF Control, CompressSkip, At, Doing, To, Actors, TargetFree, WhoActs, ActionSteps,
       Types, Jobs, disk
<1>4. DirectTarget'
    BY DEF Control, CompressSkip, At, Doing, To, Actors, DirectTarget, WhoActs, ActionSteps, Cleaning,
       Types, directWrite, history
<1>5. HalfInv'
    BY DEF Control, CompressSkip, At, Doing, To, Actors, HalfInv, HalfDone, WhoActs,
       ActionSteps, Types, Jobs, NoGz, compress, disk
<1> QED
    BY <1>1, <1>2, <1>3, <1>4, <1>5 DEF Control

LEMMA CompressFailsStep ==
    ASSUME NotMinGzip, Control, NEW who \in Actors, CompressFails(who) PROVE Control'
<1>1. Types'
  <2>1. To(who, "expire-error", Doing(who))
    BY DEF CompressFails
  <2>2. job' \in Jobs /\ work' \in Jobs /\ resume' = resume
    BY <2>1, ActorTypes DEF Control, Types, To
  <2>3. /\ plain' \in [Indexes -> Seq(Int)]
        /\ gz' \in [Indexes -> [events : Seq(Int), whole : BOOLEAN]]
    BY JobFacts, ActorTypes DEF Control, CompressFails, Types, Jobs, disk
  <2>4. UNCHANGED <<options, active, file, queue, sent, started, doomed>>
    BY DEF CompressFails, disk, sweep, history
  <2> QED
    BY <2>2, <2>3, <2>4 DEF Control, Types
<1>2. WhoActs'
    BY DEF Control, CompressFails, At, Doing, To, Fail, Actors, WhoActs, ActionSteps, Types,
       Cleaning, Sweeping, sweep, directWrite
<1>3. TargetFree'
    BY DEF Control, CompressFails, At, Doing, To, Fail, Actors, TargetFree, WhoActs,
       ActionSteps, Types, Jobs, disk
<1>4. DirectTarget'
    BY DEF Control, CompressFails, At, Doing, To, Fail, Actors, DirectTarget, WhoActs,
       ActionSteps, Cleaning, Sweeping, Types, directWrite, history
<1>5. HalfInv'
    BY DEF Control, CompressFails, At, Doing, To, Fail, Actors, HalfInv, HalfDone, WhoActs,
       ActionSteps, Types, Jobs, NoGz, compress, disk
<1> QED
    BY <1>1, <1>2, <1>3, <1>4, <1>5 DEF Control

LEMMA CopyWholeStep ==
    ASSUME NotMinGzip, Control, NEW who \in Actors, CopyWhole(who) PROVE Control'
<1>1. Types'
  <2>1. To(who, "remove", Doing(who))
    BY DEF CopyWhole
  <2>2. job' \in Jobs /\ work' \in Jobs /\ resume' = resume
    BY <2>1, ActorTypes DEF Control, Types, To
  <2>3. /\ plain' \in [Indexes -> Seq(Int)]
        /\ gz' \in [Indexes -> [events : Seq(Int), whole : BOOLEAN]]
    BY JobFacts, ActorTypes DEF Control, CopyWhole, Types, Jobs, disk
  <2>4. UNCHANGED <<options, active, file, queue, sent, started, doomed>>
    BY DEF CopyWhole, disk, sweep, history
  <2> QED
    BY <2>2, <2>3, <2>4 DEF Control, Types
<1>2. WhoActs'
    BY DEF Control, CopyWhole, At, Doing, To, Actors, WhoActs,
       ActionSteps, Cleaning, Sweeping, sweep, Types, directWrite
<1>3. TargetFree'
    BY DEF Control, CopyWhole, At, Doing, To, Actors, TargetFree, WhoActs, ActionSteps,
       Types, Jobs, disk
<1>4. DirectTarget'
    BY DEF Control, CopyWhole, At, Doing, To, Actors, DirectTarget, WhoActs, ActionSteps, Cleaning,
       Types, directWrite, history
<1>5. HalfInv'
  <2>1. /\ Doing(who) \in Jobs /\ Doing(who).index \in Indexes /\ Doing(who).index # -1
        /\ HalfDone("copy", Doing(who))
    BY ActorTypes
       DEF Control, HalfInv, CopyWhole, At, Doing, Actors, Jobs, Indexes
  <2>2. /\ gz' = [gz EXCEPT ![Doing(who).index].whole = TRUE]
        /\ To(who, "remove", Doing(who)) /\ UNCHANGED <<options, plain>>
    BY <2>1 DEF CopyWhole, HalfDone
  <2>3. HalfDone("remove", Doing(who))'
    <3> DEFINE it == Doing(who)
    <3>1. it' = it /\ compress' = compress
      BY <2>2, Zenon DEF To, Doing, Actors, compress
    <3>2. gz'[it.index].events = gz[it.index].events /\ gz'[it.index].whole
      BY <2>1, <2>2 DEF Control, Types
    <3> QED
      BY <2>1, <2>2, <3>1, <3>2 DEF HalfDone
  <2>4. CASE who = "holder"
    <3>1. pc' = "remove" /\ Doing(who)' = job' /\ worker' = "idle"
      BY <2>2, <2>4 DEF To, Doing, Control, WhoActs, CopyWhole, At, ActionSteps
    <3> QED
      BY <2>3, <3>1 DEF HalfInv, HalfDone
  <2>5. CASE who = "worker"
    <3>1. worker' = "remove" /\ Doing(who)' = work' /\ pc' \notin {"copy", "remove"}
      BY <2>2, <2>5 DEF To, Doing, Control, WhoActs, CopyWhole, At, ActionSteps
    <3> QED
      BY <2>3, <3>1 DEF HalfInv, HalfDone
  <2> QED
    BY <2>4, <2>5 DEF Actors
<1> QED
    BY <1>1, <1>2, <1>3, <1>4, <1>5 DEF Control

LEMMA CopyFailsStep ==
    ASSUME NotMinGzip, Control, NEW who \in Actors, CopyFails(who) PROVE Control'
<1>1. Types'
  <2>1. To(who, "expire-error", Doing(who))
    BY DEF CopyFails
  <2>2. job' \in Jobs /\ work' \in Jobs /\ resume' = resume
    BY <2>1, ActorTypes DEF Control, Types, To
  <2>3. /\ plain' \in [Indexes -> Seq(Int)]
        /\ gz' \in [Indexes -> [events : Seq(Int), whole : BOOLEAN]]
    BY JobFacts, ActorTypes DEF Control, CopyFails, Types, Jobs, disk
  <2>4. UNCHANGED <<options, active, file, queue, sent, started, doomed>>
    BY DEF CopyFails, disk, sweep, history
  <2> QED
    BY <2>2, <2>3, <2>4 DEF Control, Types
<1>2. WhoActs'
    BY DEF Control, CopyFails, At, Doing, To, Fail, Actors, WhoActs, ActionSteps, Types,
       Cleaning, Sweeping, sweep, directWrite
<1>3. TargetFree'
    BY DEF Control, CopyFails, At, Doing, To, Fail, Actors, TargetFree, WhoActs,
       ActionSteps, Types, Jobs, disk
<1>4. DirectTarget'
    BY DEF Control, CopyFails, At, Doing, To, Fail, Actors, DirectTarget, WhoActs,
       ActionSteps, Cleaning, Sweeping, Types, directWrite, history
<1>5. HalfInv'
    BY DEF Control, CopyFails, At, Doing, To, Fail, Actors, HalfInv, HalfDone, WhoActs,
       ActionSteps, Types, Jobs, NoGz, compress, disk
<1> QED
    BY <1>1, <1>2, <1>3, <1>4, <1>5 DEF Control

LEMMA RemovePlainStep ==
    ASSUME NotMinGzip, Control, NEW who \in Actors, RemovePlain(who) PROVE Control'
<1>1. Types'
  <2>1. To(who, "expire", Doing(who))
    BY DEF RemovePlain
  <2>2. job' \in Jobs /\ work' \in Jobs /\ resume' = resume
    BY <2>1, ActorTypes DEF Control, Types, To
  <2>3. /\ plain' \in [Indexes -> Seq(Int)]
        /\ gz' \in [Indexes -> [events : Seq(Int), whole : BOOLEAN]]
    BY JobFacts, ActorTypes DEF Control, RemovePlain, Types, Jobs, disk
  <2>4. UNCHANGED <<options, active, file, queue, sent, started, doomed>>
    BY DEF RemovePlain, disk, sweep, history
  <2> QED
    BY <2>2, <2>3, <2>4 DEF Control, Types
<1>2. WhoActs'
    BY DEF Control, RemovePlain, At, Doing, To, Actors, WhoActs,
       ActionSteps, Cleaning, Sweeping, sweep, Types, directWrite
<1>3. TargetFree'
    BY DEF Control, RemovePlain, At, Doing, To, Actors, TargetFree, WhoActs, ActionSteps,
       Types, Jobs, disk
<1>4. DirectTarget'
    BY DEF Control, RemovePlain, At, Doing, To, Actors, DirectTarget, WhoActs, ActionSteps, Cleaning,
       Types, directWrite, history
<1>5. HalfInv'
    BY DEF Control, RemovePlain, At, Doing, To, Actors, HalfInv, HalfDone, WhoActs,
       ActionSteps, Types, Jobs, NoGz, compress, disk
<1> QED
    BY <1>1, <1>2, <1>3, <1>4, <1>5 DEF Control

LEMMA RemoveFailsStep ==
    ASSUME NotMinGzip, Control, NEW who \in Actors, RemoveFails(who) PROVE Control'
<1>1. Types'
  <2>1. To(who, "expire-error", Doing(who))
    BY DEF RemoveFails
  <2>2. job' \in Jobs /\ work' \in Jobs /\ resume' = resume
    BY <2>1, ActorTypes DEF Control, Types, To
  <2>3. /\ plain' \in [Indexes -> Seq(Int)]
        /\ gz' \in [Indexes -> [events : Seq(Int), whole : BOOLEAN]]
    BY JobFacts, ActorTypes DEF Control, RemoveFails, Types, Jobs, disk
  <2>4. UNCHANGED <<options, active, file, queue, sent, started, doomed>>
    BY DEF RemoveFails, disk, sweep, history
  <2> QED
    BY <2>2, <2>3, <2>4 DEF Control, Types
<1>2. WhoActs'
    BY DEF Control, RemoveFails, At, Doing, To, Fail, Actors, WhoActs, ActionSteps, Types,
       Cleaning, Sweeping, sweep, directWrite
<1>3. TargetFree'
    BY DEF Control, RemoveFails, At, Doing, To, Fail, Actors, TargetFree, WhoActs,
       ActionSteps, Types, Jobs, disk
<1>4. DirectTarget'
    BY DEF Control, RemoveFails, At, Doing, To, Fail, Actors, DirectTarget, WhoActs,
       ActionSteps, Cleaning, Sweeping, Types, directWrite, history
<1>5. HalfInv'
    BY DEF Control, RemoveFails, At, Doing, To, Fail, Actors, HalfInv, HalfDone, WhoActs,
       ActionSteps, Types, Jobs, NoGz, compress, disk
<1> QED
    BY <1>1, <1>2, <1>3, <1>4, <1>5 DEF Control

LEMMA ListStep ==
    ASSUME NotMinGzip, Control, NEW who \in Actors, List(who) PROVE Control'
<1>1. doomed' \in SUBSET Indexes
    BY DEF List, ListArchives, Condemned, Surplus, AgedSets, OverCap, Archives
<1>2. Types'
  <2>1. job' \in Jobs /\ work' \in Jobs /\ resume' = resume
    BY ActorTypes DEF Control, List, To, Types
  <2>2. UNCHANGED <<options, active, plain, gz, file, queue, sent, started>>
    BY DEF List, disk, history
  <2> QED
    BY <1>1, <2>1, <2>2 DEF Control, Types
<1>3. WhoActs'
    BY DEF Control, List, At, Doing, To, Actors, WhoActs, ActionSteps, Cleaning, Sweeping,
       Types, directWrite
<1>4. TargetFree'
    BY DEF Control, List, At, Doing, To, Actors, TargetFree, WhoActs, ActionSteps, Types,
       Jobs, disk
<1>5. DirectTarget'
    BY DEF Control, List, At, Doing, To, Actors, DirectTarget, WhoActs, ActionSteps,
       Cleaning, Types, directWrite, history
<1>6. HalfInv'
    BY DEF Control, List, At, Doing, To, Actors, HalfInv, HalfDone, WhoActs, ActionSteps,
       Types, Jobs, compress, disk
<1> QED
    BY <1>2, <1>3, <1>4, <1>5, <1>6 DEF Control

LEMMA SweepStep ==
    ASSUME NotMinGzip, Control, NEW who \in Actors, Sweep(who) PROVE Control'
<1>1. PICK k \in Indexes : RemoveArchive(k) /\ doomed' = doomed \ {k}
    BY DEF Sweep
<1>2. /\ UNCHANGED <<options, active, file, archiveIndex, pc, resume, job, queue, worker,
                     work, sent, started>>
      /\ At(who) \in Sweeping
    BY DEF Sweep, holder
<1>3. Types'
    BY <1>1, <1>2, RemoveFacts DEF Control, Types
<1>4. WhoActs'
    BY <1>1, <1>2 DEF Control, WhoActs, directWrite, At, Actors
<1>5. TargetFree'
  <2>1. job.index \in Indexes
    BY DEF Control, Types, Jobs
  <2> QED
    BY <1>1, <1>2, <2>1, RemoveFacts DEF Control, TargetFree
<1>6. DirectTarget'
    BY <1>2 DEF Control, DirectTarget, directWrite
<1>7. HalfInv'
    BY <1>2 DEF Control, HalfInv, HalfDone, At, Actors, WhoActs, ActionSteps, Cleaning,
       Sweeping
<1> QED
    BY <1>3, <1>4, <1>5, <1>6, <1>7 DEF Control

LEMMA SweepFailsStep ==
    ASSUME NotMinGzip, Control, NEW who \in Actors, SweepFails(who) PROVE Control'
<1>1. doomed' \in SUBSET Indexes
    BY DEF SweepFails, Control, Types
<1>2. Types'
  <2>1. job' \in Jobs /\ work' \in Jobs /\ resume' = resume
    BY ActorTypes DEF Control, SweepFails, To, Types
  <2>2. UNCHANGED <<options, active, plain, gz, file, queue, sent, started>>
    BY DEF SweepFails, disk, history
  <2> QED
    BY <1>1, <2>1, <2>2 DEF Control, Types
<1>3. WhoActs'
  <2>1. /\ UNCHANGED <<options, queue>> /\ At(who) \in Sweeping
        /\ To(who, IF At(who) \in {"clean", "clean-error"} THEN "clean-error"
                   ELSE "sweep-error", Doing(who))
    BY DEF SweepFails
  <2> QED
    BY <2>1 DEF Control, At, Doing, To, Actors, WhoActs, ActionSteps, Cleaning, Sweeping,
       directWrite
<1>4. TargetFree'
    BY DEF Control, SweepFails, At, Doing, To, Actors, TargetFree, WhoActs, ActionSteps,
       Types, Jobs, disk
<1>5. DirectTarget'
    BY DEF Control, SweepFails, At, Doing, To, Actors, DirectTarget, WhoActs, ActionSteps,
       Cleaning, Sweeping, Types, directWrite, history
<1>6. HalfInv'
    BY DEF Control, SweepFails, At, Doing, To, Actors, HalfInv, HalfDone, WhoActs,
       ActionSteps, Types, Jobs, compress, disk
<1> QED
    BY <1>2, <1>3, <1>4, <1>5, <1>6 DEF Control

(* What ends an action: the worker is idle again, or the holder goes on.   *)
LEMMA SweptFacts ==
    ASSUME Control, NEW who \in Actors, Swept(who)
    PROVE  /\ doomed = {} /\ doomed' = {} /\ spared' = spared
           /\ UNCHANGED <<options, active, plain, gz, archiveIndex, resume, queue, sent, acked,
                          expired, truncated, started, failures, crashes>>
           /\ \/ /\ who = "worker" /\ worker \in {"sweep", "sweep-error"}
                 /\ worker' = "idle" /\ work' = NoJob
                 /\ UNCHANGED <<pc, job, file>>
              \/ /\ who = "holder" /\ pc \in Sweeping /\ job' = NoJob
                 /\ UNCHANGED <<worker, work>>
                 /\ \/ pc = "clean" /\ pc' \in {"idle", "open"} /\ file' = file
                    \/ pc = "clean-error" /\ pc' = "closing" /\ file' = FALSE
                    \/ pc = "sweep" /\ pc' = resume /\ file' = file
                    \/ pc = "sweep-error" /\ pc' = "idle" /\ file' = file
                    \/ pc = "sweep-error" /\ pc' = "closing" /\ file' = FALSE
<1>1. /\ doomed = {} /\ doomed' = {} /\ spared' = spared
      /\ UNCHANGED <<options, active, plain, gz, archiveIndex, resume, queue, sent, acked,
                     expired, truncated, started, failures, crashes>>
      /\ file' = (file /\ pc' # "closing") /\ file \in BOOLEAN
      /\ resume \in {"idle", "check", "write"}
    BY DEF Swept, disk, sweep, history, bounds, Control, Types
<1>2. CASE who = "worker"
  <2>1. worker' = "idle" /\ work' = NoJob /\ pc' = pc /\ job' = job /\ worker \in Sweeping
    BY <1>2 DEF Swept, At
  <2>2. worker \in {"sweep", "sweep-error"}
    BY <2>1 DEF Control, WhoActs, ActionSteps, Sweeping
  <2>3. file' = file
    BY <1>1, <2>1 DEF Control, DirectTarget
  <2> QED
    BY <1>1, <1>2, <2>1, <2>2, <2>3
<1>3. CASE who = "holder"
    BY <1>1, <1>3 DEF Swept, At, Constructs, Refuse, Sweeping
<1> QED
    BY <1>2, <1>3 DEF Actors

LEMMA SweptStep ==
    ASSUME NotMinGzip, Control, NEW who \in Actors, Swept(who) PROVE Control'
<1>1. Types'
    BY SweptFacts, JobFacts DEF Control, Types
<1>2. WhoActs'
    BY SweptFacts DEF Control, WhoActs, ActionSteps, Cleaning, Sweeping, directWrite, Types
<1>3. TargetFree'
    BY SweptFacts DEF Control, TargetFree, Types
<1>4. DirectTarget'
  <2>1. UNCHANGED <<options, archiveIndex, resume, sent>>
    BY SweptFacts
  <2>2. CASE UNCHANGED <<pc, file>>
    BY <2>1, <2>2 DEF Control, DirectTarget, Cleaning, directWrite
  <2>3. CASE pc \in Cleaning /\ pc' \in {"idle", "open", "closing"} /\ ~file'
    BY <2>1, <2>3 DEF Control, DirectTarget, Cleaning, directWrite
  <2>4. CASE pc \in {"sweep", "sweep-error"} /\ pc' = "closing" /\ ~file'
    BY <2>1, <2>4 DEF Control, DirectTarget, Cleaning, directWrite
  <2>5. CASE pc \in {"sweep", "sweep-error"} /\ pc' \in {"idle", resume} /\ file' = file
    BY <2>1, <2>5 DEF Control, DirectTarget, WhoActs, ActionSteps, Cleaning, directWrite,
       Types
  <2>6. pc = "clean" => ~file
    BY DEF Control, DirectTarget, Cleaning
  <2> QED
    BY <2>2, <2>3, <2>4, <2>5, <2>6, SweptFacts DEF Cleaning
<1>5. HalfInv'
    BY SweptFacts DEF Control, HalfInv, HalfDone, Types, compress
<1> QED
    BY <1>1, <1>2, <1>3, <1>4, <1>5 DEF Control

LEMMA ControlStep == ASSUME NotMinGzip, Control, [Next]_vars PROVE Control'
<1>1. ASSUME NEW who \in Actors, ActionRuns(who) PROVE Control'
    BY <1>1, CompressCreateStep, CompressSkipStep, CompressFailsStep, CopyWholeStep,
       CopyFailsStep, RemovePlainStep, RemoveFailsStep, ListStep, SweepStep, SweepFailsStep,
       SweptStep DEF ActionRuns
<1>2. CASE HolderRuns
    BY <1>1, <1>2, ConstructStep, OpenStep, OpenFailsStep, CheckStep, WriteStep, PickStep,
       RotateStep, RotateFailsStep, PickFailsStep, SticksStep, CreateStep, RenameStep,
       ReopenStep, RolloverFailsStep, EnqueueStep, ClosedStep DEF HolderRuns, Actors
<1>3. CASE WorkerRuns
    BY <1>1, <1>3, TakeActionStep DEF WorkerRuns, Actors
<1>4. CASE UNCHANGED vars
    BY <1>4 DEF Control, Types, WhoActs, TargetFree, DirectTarget, HalfInv, HalfDone,
                directWrite, compress, vars, disk, holder, actions, history
<1> QED
    BY <1>2, <1>3, <1>4, BeginStep, CloseStep, CrashStep, RestartStep DEF Next, Finished

-----------------------------------------------------------------------------
(* What is on disk after a step.                                           *)
LEMMA StillThere ==
    /\ \A e \in ToSet(active') : e \in OnDisk'
    /\ \A i \in Indexes : plain'[i] # Absent => \A e \in ToSet(plain'[i]) : e \in OnDisk'
    /\ \A i \in Indexes : gz'[i] # NoGz /\ gz'[i].whole =>
          \A e \in ToSet(gz'[i].events) : e \in OnDisk'
    BY OnDiskIs DEF InPlain, InGz, WholeGz

LEMMA QuietKeeps ==
    ASSUME RollingInvariant, UNCHANGED <<active, plain, gz, acked, expired, truncated>>
    PROVE  Kept'
    BY DEF RollingInvariant, Kept, OnDisk, WholeGz, EventsIn

LEMMA WriteKeeps == ASSUME RollingInvariant, Write PROVE Kept'
<1>1. /\ sent \in Int /\ sent # 0 /\ active \in Seq(Int) /\ plain \in [Indexes -> Seq(Int)]
      /\ directWrite => archiveIndex - 1 \in Indexes
    BY DEF RollingInvariant, Types, DirectTarget, Write
<1>2. /\ acked' = acked \cup {sent}
      /\ UNCHANGED <<gz, expired, truncated>>
    BY DEF Write
<1>3. CASE directWrite
  <2> DEFINE k == archiveIndex - 1
  <2>1. /\ active' = active
        /\ plain' = [plain EXCEPT ![k] = Append(plain[k], sent)]
      BY <1>3 DEF Write
  <2>2. /\ k \in Indexes /\ plain'[k] # Absent
        /\ ToSet(plain'[k]) = ToSet(plain[k]) \cup {sent}
        /\ \A i \in Indexes : i # k => plain'[i] = plain[i]
    BY <1>1, <1>3, <2>1, AppendSet
  <2>3. sent \in OnDisk'
    BY <2>2, StillThere
  <2>4. \A i \in Indexes : plain[i] # Absent => \A e \in ToSet(plain[i]) : e \in OnDisk'
    BY <2>2, StillThere
  <2>5. \A e \in ToSet(active) : e \in OnDisk'
    BY <2>1, StillThere
  <2>6. \A i \in Indexes : WholeGz(i) => \A e \in ToSet(gz[i].events) : e \in OnDisk'
    BY <1>2, StillThere DEF WholeGz
  <2> QED
    BY <1>2, <2>3, <2>4, <2>5, <2>6, SafeStep
<1>4. CASE ~directWrite
  <2>1. active' = Append(active, sent) /\ plain' = plain
    BY <1>4 DEF Write
  <2>2. ToSet(active') = ToSet(active) \cup {sent}
    BY <1>1, <2>1, AppendSet
  <2>3. sent \in OnDisk' /\ \A e \in ToSet(active) : e \in OnDisk'
    BY <2>2, StillThere
  <2>4. /\ \A i \in Indexes : plain[i] # Absent => \A e \in ToSet(plain[i]) : e \in OnDisk'
        /\ \A i \in Indexes : WholeGz(i) => \A e \in ToSet(gz[i].events) : e \in OnDisk'
    BY <1>2, <2>1, StillThere DEF WholeGz
  <2> QED
    BY <1>2, <2>3, <2>4, SafeStep
<1> QED
    BY <1>3, <1>4

(* The other steps acknowledge nothing: what is left to show is that every *)
(* archive is still there, or another has its events.                      *)
LEMMA RenameKeeps == ASSUME RollingInvariant, Rename \/ Create PROVE Kept'
<1>1. /\ plain \in [Indexes -> Seq(Int)] /\ job.index \in Indexes
      /\ plain[job.index] = Absent
    BY DEF RollingInvariant, Types, Jobs, TargetFree, Rename, Create
<1>2. /\ \A i \in Indexes : i # job.index => plain'[i] = plain[i]
      /\ UNCHANGED <<gz, acked, expired, truncated>>
      /\ \/ active' = active
         \/ plain'[job.index] = active
    BY <1>1 DEF Rename, Create, history
<1>3. ASSUME NEW e \in ToSet(active) PROVE e \in OnDisk'
  <2>1. CASE active' = active
    BY <1>3, <2>1, StillThere
  <2>2. CASE plain'[job.index] = active
    BY <1>1, <1>3, <2>2, StillThere DEF RollingInvariant, Types
  <2> QED
    BY <1>2, <2>1, <2>2
<1>4. \A i \in Indexes : plain[i] # Absent => \A e \in ToSet(plain[i]) : e \in OnDisk'
    BY <1>1, <1>2, StillThere
<1>5. \A i \in Indexes : WholeGz(i) => \A e \in ToSet(gz[i].events) : e \in OnDisk'
    BY <1>2, StillThere DEF WholeGz
<1> QED
    BY <1>2, <1>3, <1>4, <1>5, SafeStep

LEMMA RotateKeeps ==
    ASSUME NotMinGzip, RollingInvariant, RotateMin \/ RotateFails PROVE Kept'
<1>1. PICK hole \in 1..MaxBackups : Rotated(hole)
  <2>1. MaxBackups \in 1..MaxIndex
    BY JobFacts DEF RollingInvariant, Types, RotateMin, RotateFails, Rotated, mode
  <2> QED
    BY <2>1 DEF RotateMin, RotateFails
<1>2. /\ MaxBackups \in 1..MaxIndex /\ MaxIndex \in Nat
      /\ plain' = [i \in Indexes |-> CASE i = hole -> Absent
                                        [] i \in (hole + 1)..MaxBackups -> plain[i - 1]
                                        [] OTHER -> plain[i]]
      /\ expired' = expired \cup EventsIn(plain[MaxBackups])
      /\ UNCHANGED <<active, gz, acked, truncated>>
  <2>1. Control
    BY DEF RollingInvariant, Control
  <2>2. MaxIndex \in Nat
    BY RollingAssumption
  <2> QED
    BY <1>1, <2>1, <2>2, RotateFacts
<1>3. ASSUME NEW i \in Indexes, plain[i] # Absent, NEW e \in ToSet(plain[i])
      PROVE  e \in OnDisk' \cup expired'
  <2>1. CASE i = MaxBackups
    BY <1>2, <1>3, <2>1 DEF EventsIn
  <2>2. CASE i \in hole..(MaxBackups - 1)
    <3>1. /\ i + 1 \in Indexes /\ i + 1 # hole /\ i + 1 \in (hole + 1)..MaxBackups
          /\ (i + 1) - 1 = i
      BY <1>2, <2>2 DEF Indexes
    <3>2. plain'[i + 1] = plain[i]
      BY <1>2, <3>1
    <3> QED
      BY <1>3, <3>1, <3>2, StillThere
  <2>3. CASE i < hole \/ i > MaxBackups
    <3>1. i # hole /\ i \notin (hole + 1)..MaxBackups
      BY <1>2, <2>3 DEF Indexes
    <3>2. plain'[i] = plain[i]
      BY <1>2, <3>1
    <3> QED
      BY <1>3, <3>2, StillThere
  <2> QED
    BY <1>2, <2>1, <2>2, <2>3 DEF Indexes
<1>4. \A e \in ToSet(active) : e \in OnDisk'
    BY <1>2, StillThere
<1>5. \A i \in Indexes : WholeGz(i) => \A e \in ToSet(gz[i].events) : e \in OnDisk'
    BY <1>2, StillThere DEF WholeGz
<1> QED
    BY <1>2, <1>3, <1>4, <1>5, SafeStep

(* What an opening without append truncates is in truncated.               *)
LEMMA OpenKeeps == ASSUME RollingInvariant, Open \/ OpenFails PROVE Kept'
<1>1. /\ UNCHANGED <<plain, gz, acked, expired>>
      /\ \/ UNCHANGED <<active, truncated>>
         \/ active' = <<>> /\ truncated' = truncated \cup ToSet(active)
    BY DEF Open, OpenFails, OpenFile
<1>2. \A e \in ToSet(active) : e \in OnDisk' \cup expired' \cup truncated'
    BY <1>1, StillThere
<1>3. \A i \in Indexes : plain[i] # Absent => \A e \in ToSet(plain[i]) : e \in OnDisk'
    BY <1>1, StillThere
<1>4. \A i \in Indexes : WholeGz(i) => \A e \in ToSet(gz[i].events) : e \in OnDisk'
    BY <1>1, StillThere DEF WholeGz
<1> QED
    BY <1>1, <1>2, <1>3, <1>4, SafeStep

(* The steps of compression change one archive: another file has what the  *)
(* one they give up had.                                                   *)
LEMMA CompressKeeps ==
    ASSUME RollingInvariant, NEW who \in Actors,
           \/ CompressCreate(who) \/ CopyWhole(who) \/ CopyFails(who)
           \/ RemovePlain(who) \/ RemoveFails(who)
    PROVE  Kept'
<1> DEFINE k == Doing(who).index
<1>1. /\ k \in Indexes /\ Doing(who).gzAt \in Int
      /\ plain \in [Indexes -> Seq(Int)]
      /\ gz \in [Indexes -> [events : Seq(Int), whole : BOOLEAN]]
      /\ UNCHANGED <<active, acked, expired, truncated>>
    BY ActorTypes DEF RollingInvariant, Types, Jobs, CompressCreate, CopyWhole, CopyFails,
       RemovePlain, RemoveFails, history
<1>2. HalfDone(At(who), Doing(who))
    BY DEF RollingInvariant, HalfInv, At, Doing, Actors
<1>3. \A e \in ToSet(active) : e \in OnDisk'
    BY <1>1, StillThere
<1>4. CASE CompressCreate(who)
  <2>1. /\ gz[k] = NoGz /\ plain' = plain
        /\ \A i \in Indexes : i # k => gz'[i] = gz[i]
    BY <1>1, <1>4 DEF CompressCreate
  <2>2. \A i \in Indexes : WholeGz(i) => \A e \in ToSet(gz[i].events) : e \in OnDisk'
    BY <2>1, StillThere DEF WholeGz
  <2>3. \A i \in Indexes : plain[i] # Absent => \A e \in ToSet(plain[i]) : e \in OnDisk'
    BY <2>1, StillThere
  <2> QED
    BY <1>1, <1>3, <2>2, <2>3, SafeStep
<1>5. CASE CopyWhole(who)
  <2>1. plain' = plain /\ Doing(who).gzAt = k /\ gz' = [gz EXCEPT ![k].whole = TRUE]
    <3>1. k # -1
      BY <1>1, RollingAssumption DEF Indexes
    <3>2. At(who) = "copy"
      BY <1>5 DEF CopyWhole
    <3>3. Doing(who).gzAt = k
      BY <1>2, <3>2 DEF HalfDone
    <3> QED
      BY <1>5, <3>1, <3>3 DEF CopyWhole
  <2>2. /\ \A i \in Indexes : i # k => gz'[i] = gz[i]
        /\ gz'[k].events = gz[k].events /\ gz'[k].whole
    BY <1>1, <2>1
  <2>3. gz'[k] # NoGz
    BY <2>2 DEF NoGz
  <2>4. \A i \in Indexes : WholeGz(i) => \A e \in ToSet(gz[i].events) : e \in OnDisk'
    BY <1>1, <2>2, <2>3, StillThere DEF WholeGz
  <2>5. \A i \in Indexes : plain[i] # Absent => \A e \in ToSet(plain[i]) : e \in OnDisk'
    BY <2>1, StillThere
  <2> QED
    BY <1>1, <1>3, <2>4, <2>5, SafeStep
<1>6. CASE CopyFails(who) \/ RemoveFails(who)
  <2>1. /\ plain' = plain /\ plain[k] # Absent /\ gz[k].events = plain[k]
        /\ \A i \in Indexes : i # k => gz'[i] = gz[i]
    BY <1>1, <1>2, <1>6 DEF CopyFails, RemoveFails, HalfDone
  <2>2. \A i \in Indexes : plain[i] # Absent => \A e \in ToSet(plain[i]) : e \in OnDisk'
    BY <2>1, StillThere
  <2>3. \A i \in Indexes : WholeGz(i) => \A e \in ToSet(gz[i].events) : e \in OnDisk'
    BY <1>1, <2>1, <2>2, StillThere DEF WholeGz
  <2> QED
    BY <1>1, <1>3, <2>2, <2>3, SafeStep
<1>7. CASE RemovePlain(who)
  <2>1. /\ gz' = gz /\ gz[k].whole /\ gz[k].events = plain[k]
        /\ \A i \in Indexes : i # k => plain'[i] = plain[i]
    BY <1>1, <1>2, <1>7 DEF RemovePlain, HalfDone
  <2>2. gz[k] # NoGz
    BY <2>1 DEF NoGz
  <2>3. \A i \in Indexes : WholeGz(i) => \A e \in ToSet(gz[i].events) : e \in OnDisk'
    BY <2>1, StillThere DEF WholeGz
  <2>4. \A i \in Indexes : plain[i] # Absent => \A e \in ToSet(plain[i]) : e \in OnDisk'
    BY <1>1, <2>1, <2>2, <2>3, StillThere DEF WholeGz
  <2> QED
    BY <1>1, <1>3, <2>3, <2>4, SafeStep
<1> QED
    BY <1>4, <1>5, <1>6, <1>7

LEMMA KeptStep == ASSUME NotMinGzip, RollingInvariant, [Next]_vars PROVE Kept'
<1>1. ASSUME NEW who \in Actors, ActionRuns(who) PROVE Kept'
  <2>1. CASE CompressSkip(who) \/ CompressFails(who) \/ List(who) \/ SweepFails(who)
             \/ Swept(who)
    <3>1. UNCHANGED <<active, plain, gz, acked, expired, truncated>>
      BY <2>1 DEF CompressSkip, CompressFails, List, SweepFails, Swept, disk, history
    <3> QED
      BY <3>1, QuietKeeps
  <2>2. CASE Sweep(who)
    BY <2>2, RemoveKeeps DEF Sweep
  <2> QED
    BY <1>1, <2>1, <2>2, CompressKeeps DEF ActionRuns
<1>3. CASE \/ Construct \/ Begin \/ Check \/ PickNext \/ PickMin \/ Reopen
           \/ RolloverFails \/ PickFails \/ Sticks \/ Enqueue \/ Closed \/ Close
           \/ TakeAction \/ Crash \/ Restart \/ UNCHANGED vars
  <2>1. UNCHANGED <<active, plain, gz, acked, expired, truncated>>
    BY <1>3 DEF Construct, Begin, Check, PickNext, PickMin, Reopen, RolloverFails,
       PickFails, Sticks, Enqueue, Closed, Close, TakeAction, Crash, Restart, vars, disk,
       history
  <2> QED
    BY <2>1, QuietKeeps
<1> QED
    BY <1>1, <1>3, WriteKeeps, RenameKeeps, RotateKeeps, OpenKeeps
       DEF Next, HolderRuns, WorkerRuns, Finished, Actors

-----------------------------------------------------------------------------
LEMMA InitControl == ASSUME Init PROVE RollingInvariant
<1>1. ASSUME NEW i \in Indexes PROVE <<Old(i)>> \in Seq(Int)
    BY <1>1 DEF Old, Indexes
<1>2. Types
  <2>1. plain \in [Indexes -> Seq(Int)]
    BY <1>1, JobFacts DEF Init
  <2>2. gz \in [Indexes -> [events : Seq(Int), whole : BOOLEAN]]
    BY <1>1, JobFacts DEF Init
  <2> QED
    BY <2>1, <2>2, JobFacts DEF Init, Types
<1>3. WhoActs /\ TargetFree /\ DirectTarget /\ HalfInv
    BY DEF Init, WhoActs, ActionSteps, TargetFree, DirectTarget, HalfInv, HalfDone
<1>4. Kept
  <2> SUFFICES ASSUME NEW i \in OldArchives PROVE Old(i) \in OnDisk
    BY DEF Init, Kept
  <2>1. i \in Indexes /\ i \in Int /\ MaxIndex <= 50
    BY RollingAssumption DEF Indexes
  <2>2. <<Old(i)>> # Absent /\ Old(i) \in ToSet(<<Old(i)>>)
    BY <2>1, RollingAssumption DEF Absent, Old, ToSet, Indexes
  <2>3. CASE compress
    <3>1. gz[i] = [events |-> <<Old(i)>>, whole |-> TRUE]
      BY <2>1, <2>3 DEF Init
    <3>2. gz[i] # NoGz
      BY <3>1 DEF NoGz
    <3> QED
      BY <2>1, <2>2, <3>1, <3>2, OnDiskIs DEF InGz, WholeGz
  <2>4. CASE ~compress
    BY <2>1, <2>2, <2>4, OnDiskIs DEF Init, InPlain
  <2> QED
    BY <2>3, <2>4
<1> QED
    BY <1>2, <1>3, <1>4 DEF RollingInvariant

(* No step changes the options, and failures are only added.               *)
LEMMA OptionsStay ==
    ASSUME [Next]_vars
    PROVE  /\ options' = options
           /\ failures' = failures \/ failures' = failures + 1
           /\ failures \in Nat => failures' \in Nat /\ failures' >= failures
<1> SUFFICES options' = options /\ (failures' = failures \/ failures' = failures + 1)
    OBVIOUS
<1>1. ASSUME NEW who \in Actors, ActionRuns(who)
      PROVE  options' = options /\ (failures' = failures \/ failures' = failures + 1)
  <2>1. CASE CompressCreate(who) \/ CompressSkip(who) \/ CopyWhole(who)
             \/ RemovePlain(who) \/ List(who) \/ Sweep(who) \/ Swept(who)
    BY <2>1 DEF CompressCreate, CompressSkip, CopyWhole, RemovePlain, List, Sweep, Swept,
       bounds
  <2>2. CASE CompressFails(who)
    BY <2>2 DEF CompressFails, Fail, bounds
  <2>3. CASE CopyFails(who)
    BY <2>3 DEF CopyFails, Fail, bounds
  <2>4. CASE RemoveFails(who)
    BY <2>4 DEF RemoveFails, Fail, bounds
  <2>5. CASE SweepFails(who)
    BY <2>5 DEF SweepFails, Fail, bounds
  <2> QED
    BY <1>1, <2>1, <2>2, <2>3, <2>4, <2>5 DEF ActionRuns
<1>2. CASE Construct \/ Open
    BY <1>2 DEF Construct, Open, bounds
<1>3. CASE Check \/ Write
    BY <1>3 DEF Check, Write, bounds
<1>4. CASE PickNext \/ PickMin \/ RotateMin
    BY <1>4 DEF PickNext, PickMin, RotateMin, Rotated, bounds
<1>5. CASE Create \/ Rename \/ Reopen \/ Enqueue \/ Closed
    BY <1>5 DEF Create, Rename, Reopen, Enqueue, Closed, bounds
<1>6. CASE OpenFails \/ RolloverFails \/ PickFails \/ Sticks
    BY <1>6 DEF OpenFails, RolloverFails, PickFails, Sticks, Fail
<1>12. CASE RotateFails
    BY <1>12 DEF RotateFails, Rotated, Fail
<1>7. CASE Begin \/ Close \/ TakeAction \/ Restart
    BY <1>7 DEF Begin, Close, TakeAction, Restart, bounds
<1>8. CASE Crash
    BY <1>8 DEF Crash
<1>9. CASE UNCHANGED vars
    BY <1>9 DEF vars, bounds
<1>10. CASE HolderRuns
    BY <1>1, <1>2, <1>3, <1>4, <1>5, <1>6, <1>10, <1>12 DEF HolderRuns, Actors
<1>11. CASE WorkerRuns
    BY <1>1, <1>7, <1>11 DEF WorkerRuns, Actors
<1> QED
    BY <1>7, <1>8, <1>9, <1>10, <1>11 DEF Next, Finished

(* The invariant of the model: types, who executes actions, that a picked  *)
(* name stays free, what a direct write goes to, the two copies of an      *)
(* archive in compression, and that what was acknowledged is on disk or    *)
(* was removed by retention or by an opening.                              *)
THEOREM RollingInvariantHolds == Spec => [](NotMinGzip => RollingInvariant)
<1>1. Init => (NotMinGzip => RollingInvariant)
    BY InitControl
<1>2. (NotMinGzip => RollingInvariant) /\ [Next]_vars => (NotMinGzip => RollingInvariant)'
  <2>2. [Next]_vars => (NotMinGzip' <=> NotMinGzip)
    BY OptionsStay DEF NotMinGzip, mode, compress
  <2> QED
    BY <2>2, ControlStep, KeptStep DEF RollingInvariant, Control
<1> QED
    BY <1>1, <1>2, PTL DEF Spec

-----------------------------------------------------------------------------
(* What an opening truncates.  Until the file of a new appender is opened, *)
(* and while no step has failed after that, it holds what earlier          *)
(* appenders wrote.                                                        *)
FileOpen == pc \in ActionSteps \cup {"enqueue", "check", "write"} => file

Unopened == pc \in Cleaning \cup {"start", "open"} \/ (pc = "idle" /\ ~file)

Truncating ==
    /\ failures \in Nat
    /\ started <= sent
    /\ \A e \in ToSet(active) : e <= sent
    /\ truncated \subseteq Int
    /\ options.append => truncated = {}
    /\ failures = 0 => /\ FileOpen
                       /\ \A e \in truncated : e <= started
                       /\ Unopened => \A e \in ToSet(active) : e <= started

(* A step that leaves the files and the history as they are.               *)
LEMMA SameTruncating ==
    ASSUME Truncating, [Next]_vars, UNCHANGED <<active, sent, started, truncated>>,
           failures' = 0 => FileOpen',
           failures' = 0 /\ Unopened' => Unopened
    PROVE  Truncating'
<1>1. /\ options' = options /\ failures' \in Nat
      /\ failures' = 0 => failures = 0
    BY OptionsStay DEF Truncating
<1> QED
    BY <1>1, Zenon DEF Truncating

LEMMA FailTruncating ==
    ASSUME Truncating, [Next]_vars, UNCHANGED <<active, sent, started, truncated>>, Fail
    PROVE  Truncating'
<1>1. failures' # 0
    BY DEF Truncating, Fail
<1> QED
    BY <1>1, SameTruncating

LEMMA TruncatingStep == ASSUME Types, Truncating, Control, [Next]_vars PROVE Truncating'
<1>0. /\ options' = options /\ failures' \in Nat /\ (failures' = 0 => failures = 0)
      /\ sent \in Nat /\ started \in Nat /\ active \in Seq(Int)
    BY OptionsStay DEF Truncating, Types
<1>1. CASE Construct
  <2>1. /\ UNCHANGED <<active, sent, started, truncated, file>>
        /\ pc = "start" /\ pc' \in {"idle", "open", "clean"}
    BY <1>1 DEF Construct, Constructs, disk, history
  <2>8. failures' = 0 => FileOpen'
    BY <1>0, <2>1 DEF FileOpen, Unopened, ActionSteps, Cleaning
  <2>9. failures' = 0 /\ Unopened' => Unopened
    BY <1>0, <2>1 DEF FileOpen, Unopened, ActionSteps, Cleaning
  <2> QED
    BY <2>1, <2>8, <2>9, SameTruncating
<1>2. CASE Begin
  <2>1. /\ UNCHANGED <<active, started, truncated, file>> /\ sent' = sent + 1
        /\ pc = "idle" /\ pc' = IF file THEN "check" ELSE "open"
    BY <1>2 DEF Begin, disk
  <2>2. \A e \in ToSet(active) : e \in Int
    BY <1>0 DEF ToSet
  <2>3. /\ started' <= sent' /\ \A e \in ToSet(active') : e <= sent'
        /\ options'.append => truncated' = {}
        /\ truncated' \subseteq Int
    BY <1>0, <2>1, <2>2 DEF Truncating
  <2>4. failures' = 0 => FileOpen' /\ (Unopened' => Unopened)
    BY <2>1 DEF FileOpen, Unopened, ActionSteps, Cleaning
  <2> QED
    BY <1>0, <2>1, <2>3, <2>4, Zenon DEF Truncating
<1>3. CASE Open \/ OpenFails
  <2>1. /\ pc = "open" /\ UNCHANGED <<sent, started>>
        /\ \/ UNCHANGED <<active, truncated>>
           \/ /\ active' = <<>> /\ truncated' = truncated \cup ToSet(active)
              /\ ~options.append
    BY <1>3 DEF Open, OpenFails, OpenFile
  <2>2. failures' = 0 => FileOpen' /\ ~Unopened'
    <3>1. CASE OpenFails
      BY <1>0, <3>1 DEF OpenFails, Fail, Truncating
    <3>2. CASE Open
      <4>1. resume \in {"idle", "check", "write"}
        BY DEF Types
      <4> QED
        BY <3>2, <4>1 DEF Open, FileOpen, Unopened, ActionSteps, Cleaning
    <3> QED
      BY <1>3, <3>1, <3>2
  <2>3. ToSet(<<>>) = {} /\ ToSet(active) \subseteq Int
    BY <1>0 DEF ToSet
  <2>4. Unopened
    BY <2>1 DEF Unopened
  <2>5. /\ started' <= sent' /\ \A e \in ToSet(active') : e <= sent'
        /\ options'.append => truncated' = {}
        /\ truncated' \subseteq Int
    BY <1>0, <2>1, <2>3 DEF Truncating
  <2>6. failures = 0 => \A e \in truncated' : e <= started'
    BY <2>1, <2>4 DEF Truncating
  <2> QED
    BY <1>0, <2>2, <2>5, <2>6, Zenon DEF Truncating
<1>4. CASE Write
  <2>1. /\ pc = "write" /\ pc' = "idle" /\ UNCHANGED <<sent, started, truncated, file>>
        /\ active' = active \/ active' = Append(active, sent)
    BY <1>4 DEF Write
  <2>2. ToSet(Append(active, sent)) = ToSet(active) \cup {sent}
    BY <1>0, AppendSet
  <2>3. \A e \in ToSet(active') : e <= sent
    <3>1. ASSUME NEW e \in ToSet(active')
          PROVE  e \in ToSet(active) \/ e = sent
      <4>1. ToSet(active') = ToSet(active) \/ ToSet(active') = ToSet(active) \cup {sent}
        <5>1. CASE active' = active
          BY <5>1
        <5>2. CASE active' = Append(active, sent)
          BY <2>2, <5>2
        <5> QED
          BY <2>1, <5>1, <5>2
      <4> QED
        BY <3>1, <4>1, Zenon
    <3>2. sent <= sent /\ \A e \in ToSet(active) : e <= sent
      BY <1>0 DEF Truncating
    <3> QED
      BY <3>1, <3>2, Zenon
  <2>4. failures = 0 => file
    BY <2>1 DEF Truncating, FileOpen, ActionSteps
  <2>5. failures = 0 => FileOpen' /\ ~Unopened'
    BY <2>1, <2>4 DEF FileOpen, Unopened, ActionSteps, Cleaning
  <2> QED
    BY <1>0, <2>1, <2>3, <2>5, Zenon DEF Truncating
<1>5. CASE Rename
  <2>1. /\ pc' = "reopen" /\ UNCHANGED <<sent, started, truncated>> /\ active' = <<>>
    BY <1>5 DEF Rename, history
  <2>2. \A e \in ToSet(active') : e <= sent
    BY <2>1 DEF ToSet
  <2>3. FileOpen' /\ ~Unopened'
    BY <2>1 DEF FileOpen, Unopened, ActionSteps, Cleaning
  <2> QED
    BY <1>0, <2>1, <2>2, <2>3, Zenon DEF Truncating
<1>6. CASE Restart
  <2>1. /\ pc' = "start" /\ UNCHANGED <<active, sent, truncated>> /\ started' = sent
    BY <1>6 DEF Restart, disk
  <2>2. started' <= sent' /\ FileOpen'
    BY <1>0, <2>1 DEF FileOpen, ActionSteps
  <2>3. failures = 0 => \A e \in truncated : e <= started'
    <3>1. ASSUME failures = 0, NEW e \in truncated
          PROVE  e <= started'
      BY <1>0, <2>1, <3>1 DEF Truncating
    <3> QED
      BY <3>1
  <2> QED
    BY <1>0, <2>1, <2>2, <2>3, Zenon DEF Truncating
<1>7. CASE Check
  <2>1. /\ UNCHANGED <<active, sent, started, truncated, file>>
        /\ pc = "check" /\ pc' \in {"pick", "write"}
    BY <1>7 DEF Check, disk, history
  <2>8. failures' = 0 => FileOpen'
    BY <1>0, <2>1 DEF Truncating, FileOpen, Unopened, ActionSteps, Cleaning
  <2>9. failures' = 0 /\ Unopened' => Unopened
    BY <1>0, <2>1 DEF Truncating, FileOpen, Unopened, ActionSteps, Cleaning
  <2> QED
    BY <2>1, <2>8, <2>9, SameTruncating
<1>8. CASE PickNext \/ PickMin \/ RotateMin \/ Closed \/ Crash
  <2>1. /\ UNCHANGED <<active, sent, started, truncated>>
        /\ pc' \in {"create", "rename", "closed", "down"}
    BY <1>8 DEF PickNext, PickMin, RotateMin, Rotated, Closed, Crash, AfterPick, disk,
       history
  <2>8. failures' = 0 => FileOpen'
    BY <1>0, <2>1 DEF FileOpen, Unopened, ActionSteps, Cleaning
  <2>9. failures' = 0 /\ Unopened' => Unopened
    BY <1>0, <2>1 DEF FileOpen, Unopened, ActionSteps, Cleaning
  <2> QED
    BY <2>1, <2>8, <2>9, SameTruncating
<1>9. CASE Create \/ Reopen
  <2>1. /\ UNCHANGED <<active, sent, started, truncated>> /\ file' = TRUE
        /\ pc' \in {"idle", "check", "write", "enqueue", "compress"}
    BY <1>9 DEF Create, Reopen, disk, history, Types
  <2>8. failures' = 0 => FileOpen'
    BY <1>0, <2>1 DEF FileOpen, Unopened, ActionSteps, Cleaning
  <2>9. failures' = 0 /\ Unopened' => Unopened
    BY <1>0, <2>1 DEF FileOpen, Unopened, ActionSteps, Cleaning
  <2> QED
    BY <2>1, <2>8, <2>9, SameTruncating
<1>10. CASE Enqueue
  <2>1. /\ UNCHANGED <<active, sent, started, truncated, file>> /\ pc = "enqueue"
        /\ pc' \in {"idle", "check", "write"}
    BY <1>10 DEF Enqueue, disk, history, Types
  <2>8. failures' = 0 => FileOpen'
    BY <1>0, <2>1 DEF Truncating, FileOpen, Unopened, ActionSteps, Cleaning
  <2>9. failures' = 0 /\ Unopened' => Unopened
    BY <1>0, <2>1 DEF Truncating, FileOpen, Unopened, ActionSteps, Cleaning
  <2> QED
    BY <2>1, <2>8, <2>9, SameTruncating
<1>11. CASE RotateFails \/ PickFails \/ Sticks \/ RolloverFails
  <2>1. UNCHANGED <<active, sent, started, truncated>> /\ Fail
    BY <1>11 DEF RotateFails, Rotated, PickFails, Sticks, RolloverFails, disk, history
  <2> QED
    BY <2>1, FailTruncating
<1>12. CASE Close
  <2>1. UNCHANGED <<active, sent, started, truncated>> /\ pc' = "closing"
    BY <1>12 DEF Close, disk, history
  <2>8. failures' = 0 => FileOpen'
    BY <1>0, <2>1 DEF FileOpen, Unopened, ActionSteps, Cleaning
  <2>9. failures' = 0 /\ Unopened' => Unopened
    BY <1>0, <2>1 DEF FileOpen, Unopened, ActionSteps, Cleaning
  <2> QED
    BY <2>1, <2>8, <2>9, SameTruncating
<1>13. CASE TakeAction \/ UNCHANGED vars
  <2>1. UNCHANGED <<active, sent, started, truncated, pc, file>>
    BY <1>13 DEF TakeAction, vars, disk, holder, history
  <2>8. failures' = 0 => FileOpen'
    BY <1>0, <2>1 DEF Truncating, FileOpen, Unopened
  <2>9. failures' = 0 /\ Unopened' => Unopened
    BY <1>0, <2>1 DEF Truncating, FileOpen, Unopened
  <2> QED
    BY <2>1, <2>8, <2>9, SameTruncating
<1>14. ASSUME NEW who \in Actors, ActionRuns(who) PROVE Truncating'
  <2>1. CASE \/ CompressCreate(who) \/ CompressSkip(who) \/ CompressFails(who)
             \/ CopyWhole(who) \/ CopyFails(who) \/ RemovePlain(who) \/ RemoveFails(who)
             \/ List(who)
    <3>1. UNCHANGED <<active, sent, started, truncated, file>>
      BY <2>1 DEF CompressCreate, CompressSkip, CompressFails, CopyWhole, CopyFails,
         RemovePlain, RemoveFails, List, disk, history
    <3>2. \/ pc' = pc
          \/ pc \in ActionSteps /\ pc' \in ActionSteps
      BY <2>1 DEF CompressCreate, CompressSkip, CompressFails, CopyWhole, CopyFails,
         RemovePlain, RemoveFails, List, To, At, Actors, ActionSteps
    <3>8. failures' = 0 => FileOpen'
      BY <1>0, <3>1, <3>2 DEF Truncating, FileOpen, Unopened, ActionSteps, Cleaning
    <3>9. failures' = 0 /\ Unopened' => Unopened
      BY <1>0, <3>1, <3>2 DEF Truncating, FileOpen, Unopened, ActionSteps, Cleaning
    <3> QED
      BY <3>1, <3>2, <3>8, <3>9, SameTruncating
  <2>2. CASE Sweep(who)
    <3>1. UNCHANGED <<active, sent, started, truncated, pc, file>>
      BY <2>2 DEF Sweep, holder
    <3>8. failures' = 0 => FileOpen'
      BY <1>0, <3>1 DEF Truncating, FileOpen, Unopened
    <3>9. failures' = 0 /\ Unopened' => Unopened
      BY <1>0, <3>1 DEF Truncating, FileOpen, Unopened
    <3> QED
      BY <3>1, <3>8, <3>9, SameTruncating
  <2>3. CASE SweepFails(who)
    <3>1. UNCHANGED <<active, sent, started, truncated, file>>
      BY <2>3 DEF SweepFails, disk, history
    <3>2. \/ pc' = pc
          \/ pc \in ActionSteps /\ pc' \in ActionSteps
          \/ pc \in Cleaning /\ pc' \in Cleaning
      BY <2>3 DEF SweepFails, To, At, Actors, ActionSteps, Cleaning, Sweeping
    <3>8. failures' = 0 => FileOpen'
      BY <1>0, <3>1, <3>2 DEF Truncating, FileOpen, Unopened, ActionSteps, Cleaning
    <3>9. failures' = 0 /\ Unopened' => Unopened
      BY <1>0, <3>1, <3>2 DEF Truncating, FileOpen, Unopened, ActionSteps, Cleaning
    <3> QED
      BY <3>1, <3>2, <3>8, <3>9, SameTruncating
  <2>4. CASE Swept(who)
    <3>1. /\ UNCHANGED <<active, sent, started, truncated>>
          /\ \/ UNCHANGED <<pc, file>>
             \/ pc = "clean" /\ pc' \in {"idle", "open"} /\ file' = file
             \/ pc' = "closing"
             \/ pc \in {"sweep", "sweep-error"} /\ pc' \in {"idle", resume} /\ file' = file
      BY <2>4, SweptFacts
    <3>2. resume \in {"idle", "check", "write"} /\ file \in BOOLEAN
      BY DEF Types
    <3>8. failures' = 0 => FileOpen'
      BY <1>0, <3>1, <3>2 DEF Truncating, FileOpen, Unopened, ActionSteps, Cleaning
    <3>9. failures' = 0 /\ Unopened' => Unopened
      BY <1>0, <3>1, <3>2 DEF Truncating, FileOpen, Unopened, ActionSteps, Cleaning
    <3> QED
      BY <3>1, <3>2, <3>8, <3>9, SameTruncating
  <2> QED
    BY <1>14, <2>1, <2>2, <2>3, <2>4 DEF ActionRuns
<1> QED
    BY <1>1, <1>2, <1>3, <1>4, <1>5, <1>6, <1>7, <1>8, <1>9, <1>10, <1>11, <1>12, <1>13,
       <1>14 DEF Next, HolderRuns, WorkerRuns, Finished, Actors

LEMMA InitTruncating == ASSUME Init PROVE Truncating
<1>1. \A e \in ToSet(<<>>) : FALSE
    BY DEF ToSet
<1> QED
    BY <1>1 DEF Init, Truncating, FileOpen, ActionSteps

(* What Append acknowledged is on disk in a readable file until retention  *)
(* removes it, through rollovers, failures, crashes and restarts; without  *)
(* append an opening may truncate it, and unless a step has failed, only   *)
(* what an earlier appender wrote.  Not for fileIndex min with gzip.       *)
THEOREM NothingLostHolds == ASSUME NoMinGzip PROVE Spec => []NothingLost
<1>1. Init => options \in Setups
    BY DEF Init
<1>2. options \in Setups => NotMinGzip
    BY DEF NoMinGzip, NotMinGzip, mode, compress
<1>3. Spec => []NotMinGzip
  <2>1. Init => NotMinGzip
    BY <1>1, <1>2
  <2>2. NotMinGzip /\ [Next]_vars => NotMinGzip'
    BY OptionsStay DEF NotMinGzip, mode, compress
  <2> QED
    BY <2>1, <2>2, PTL DEF Spec
<1>4. Spec => [](RollingInvariant /\ Truncating)
  <2>1. RollingInvariant /\ Truncating /\ [Next]_vars => Truncating'
    BY TruncatingStep DEF RollingInvariant, Control
  <2> QED
    BY <1>3, <2>1, InitTruncating, RollingInvariantHolds, PTL DEF Spec
<1>5. RollingInvariant /\ Truncating => NothingLost
    BY DEF RollingInvariant, Kept, Truncating, NothingLost, Types
<1> QED
    BY <1>4, <1>5, PTL

-----------------------------------------------------------------------------
(* The index goes up, and the order of the archives where it is promised.  *)
Upward == mode = "nomax" /\ NothingPending

Ordered == mode = "nomax" /\ NewestIsFound

(* archiveIndex stands: from the opening of a file until one fails.        *)
Counting == file \/ pc \in {"pick", "rename", "create", "reopen"}

Acting == ActionSteps \cup {"enqueue"}

(* An Append is on its way: its event is not written yet.                  *)
Underway == /\ pc \notin Cleaning \cup {"idle", "stuck", "start", "closing", "closed", "down"}
            /\ resume # "idle"

(* With an open file there is something to write to, to roll over and to   *)
(* act upon, and what follows is known.                                    *)
HolderIsAt ==
    /\ archiveIndex \in Nat /\ failures \in Nat
    /\ pc \in Acting \cup {"check", "write"} => file
    /\ pc = "open" => resume \in {"idle", "check"}
    /\ pc \in {"check", "write"} => resume = pc
    /\ pc = "create" => directWrite
    /\ pc \in Cleaning => resume = "idle"

(* An action is about an archive below archiveIndex, and no action waits   *)
(* for the worker while a file is opened.                                  *)
JobsBelow ==
    /\ pc \in {"rename", "create", "reopen", "enqueue", "compress", "copy", "remove"} =>
          job.index = archiveIndex - 1
    /\ compress /\ options.asyncActions =>
          /\ \A n \in DOMAIN queue : queue[n].index < archiveIndex
          /\ worker # "idle" => work.index < archiveIndex
          /\ pc \in {"idle", "open"} /\ ~file => queue = <<>> /\ worker = "idle"

(* Above archiveIndex names are taken without a gap, by archives that are  *)
(* not compressed yet.                                                     *)
NothingAbove ==
    Counting => /\ \A i, j \in Indexes : Exists(i) /\ archiveIndex <= j /\ j < i => Exists(j)
                /\ \A i \in Archives : i < archiveIndex

(* A compressed archive nobody is working on, and what follows from it: a  *)
(* free name below n has such an archive above it, so a file that is       *)
(* opened again will not take it.                                          *)
Settled(i) == /\ gz[i] # NoGz
              /\ ~(pc \in {"copy", "remove"} /\ job.index = i)
              /\ ~(worker \in {"copy", "remove"} /\ work.index = i)

GapsBelow(n) ==
    \A j \in Indexes : j < n /\ ~Exists(j) => \E i \in Indexes : j < i /\ Settled(i)

GapsAreOld ==
    compress => /\ \A i \in Indexes : plain[i] # Absent => GapsBelow(i)
                /\ Counting => GapsBelow(IF pc = "rename" THEN job.index ELSE archiveIndex)

(* The name a rollover has picked is above every other.                    *)
PickedIsLast ==
    pc \in {"rename", "create"} => \A i \in Indexes : Exists(i) => i < job.index

(* An archive that is to be compressed is within the size policy, so that  *)
(* totalSizeCap leaves at least one.                                       *)
Sizes ==
    /\ ~compress => \A i \in Indexes : gz[i] = NoGz
    /\ compress =>
          /\ \A i \in Indexes : Len(plain[i]) <= MaxFile /\ Len(gz[i].events) <= MaxFile
          /\ Len(active) <= MaxFile
          /\ pc = "write" => Len(active) < MaxFile
          /\ pc \in Acting \cup {"reopen"} => active = <<>>

(* No file holds a later event than the one in hand.                       *)
Latest ==
    /\ directWrite => active = <<>>
    /\ \A e \in ToSet(active) : e <= sent /\ (Underway => e < sent)
    /\ \A i \in Indexes : \A e \in ArchiveEvents(i) : e <= sent /\ (Underway => e < sent)

(* The archive a direct write goes to is there.                            *)
DirectIsThere == directWrite /\ file => plain[archiveIndex - 1] # Absent

InOrder == /\ \A i, k \in Indexes : i < k =>
                \A e \in ArchiveEvents(i), f \in ArchiveEvents(k) : e < f
           /\ \A i \in Indexes : \A e \in ArchiveEvents(i), f \in ToSet(active) : e < f

(* What retention has found and not removed yet leaves the newest.         *)
NewestIsSpared == compress => \A i \in Archives : \E m \in Archives \ doomed : i <= m

OrderInvariant == /\ JobsBelow /\ NothingAbove /\ GapsAreOld /\ PickedIsLast
                  /\ Sizes /\ Latest /\ DirectIsThere /\ InOrder /\ NewestIsSpared

LEMMA FirstIndexFacts ==
    ASSUME Types
    PROVE  /\ FirstIndex \in Nat
           /\ \A i \in Archives : i < FirstIndex
           /\ FirstIndex > 0 => FirstIndex - 1 \in Archives
<1>1. /\ Archives \subseteq Indexes /\ MaxIndex \in Nat
      /\ \A i \in Indexes : i \in Nat /\ i <= MaxIndex
    BY RollingAssumption DEF Archives, Indexes
<1>2. CASE Archives = {}
    BY <1>2 DEF FirstIndex
<1>3. CASE Archives # {}
  <2> DEFINE S == {MaxIndex - i : i \in Archives}
             last == CHOOSE i \in Archives : \A k \in Archives : k <= i
  <2>1. S \in SUBSET Nat /\ S # {}
    BY <1>1, <1>3
  <2>2. PICK x \in S : \A y \in S : x <= y
    BY <2>1, LeastNatural
  <2>3. PICK m \in Archives : x = MaxIndex - m
    BY <2>2
  <2>4. \A k \in Archives : MaxIndex - m <= MaxIndex - k
    BY <2>2, <2>3
  <2>5. \A k \in Archives : k <= m
    BY <1>1, <2>4
  <2>6. last \in Archives /\ \A k \in Archives : k <= last
    BY <2>5
  <2>7. FirstIndex = 1 + last
    BY <1>3 DEF FirstIndex
  <2> QED
    BY <1>1, <2>6, <2>7
<1> QED
    BY <1>2, <1>3

(* Retention is listed and carried out, by the one who executes an action  *)
(* or by the constructor.                                                  *)
Sweeps(who) == List(who) \/ Sweep(who) \/ SweepFails(who) \/ Swept(who)

Expiring == {"expire", "expire-error", "sweep", "sweep-error"}

LEMMA SweepsFacts ==
    ASSUME Control, NEW who \in Actors, Sweeps(who)
    PROVE  /\ UNCHANGED <<options, archiveIndex, resume, active, queue, sent>>
           /\ (file' => file) /\ (file /\ pc' # "closing" => file')
           /\ who = "holder" =>
                 /\ UNCHANGED <<worker, work>>
                 /\ \/ pc \in Expiring /\ pc' \in {"sweep", "sweep-error", resume, "closing", "idle"}
                    \/ pc \in Cleaning /\ pc' \in Cleaning \cup {"idle", "open", "closing"}
           /\ who = "worker" =>
                 /\ worker \in Expiring /\ worker' \in {"sweep", "sweep-error", "idle"}
                 /\ worker' = "idle" \/ work' = work
                 /\ UNCHANGED <<pc, job>>
<1>0. worker \in ActionSteps \cup {"idle"}
    BY DEF Control, WhoActs
<1>1. CASE List(who)
    BY <1>1 DEF List, To, At, Doing, Actors, Expiring, disk, history
<1>2. CASE Sweep(who)
    BY <1>0, <1>2 DEF Sweep, holder, At, Actors, Sweeping, Expiring, Cleaning, ActionSteps
<1>3. CASE SweepFails(who)
  <2>1. /\ UNCHANGED <<options, archiveIndex, resume, active, queue, sent, file>>
        /\ At(who) \in Sweeping
        /\ To(who, IF At(who) \in {"clean", "clean-error"} THEN "clean-error"
                   ELSE "sweep-error", Doing(who))
    BY <1>3 DEF SweepFails, To, disk, history
  <2> QED
    BY <1>0, <2>1 DEF To, At, Doing, Actors, Sweeping, Expiring, Cleaning, ActionSteps
<1>4. CASE Swept(who)
    BY <1>0, <1>4, SweptFacts DEF Sweeping, Expiring, Cleaning, Actors, Control, Types
<1> QED
    BY <1>1, <1>2, <1>3, <1>4 DEF Sweeps

LEMMA HolderStep ==
    ASSUME NotMinGzip, Control, HolderIsAt, [Next]_vars
    PROVE  HolderIsAt'
<1> USE DEF HolderIsAt, Acting, ActionSteps, Cleaning
<1>1. options' = options /\ failures' \in Nat
    BY OptionsStay
<1>2. CASE UNCHANGED <<file, archiveIndex, pc, resume>>
    BY <1>1, <1>2 DEF directWrite
<1>3. ASSUME NEW who \in Actors, ActionRuns(who) PROVE HolderIsAt'
  <2>1. CASE \/ CompressCreate(who) \/ CompressSkip(who) \/ CompressFails(who)
    <3>1. /\ pc' = pc \/ (pc' \in ActionSteps /\ pc = "compress")
          /\ UNCHANGED <<file, archiveIndex, resume>>
      BY <2>1 DEF CompressCreate, CompressSkip, CompressFails, To, At, Actors
    <3> QED
      BY <1>1, <3>1 DEF directWrite
  <2>2. CASE \/ CopyWhole(who) \/ CopyFails(who) \/ RemovePlain(who) \/ RemoveFails(who)
    <3>1. /\ pc' = pc \/ (pc' \in ActionSteps /\ pc \in ActionSteps)
          /\ UNCHANGED <<file, archiveIndex, resume>>
      BY <2>2 DEF CopyWhole, CopyFails, RemovePlain, RemoveFails, To, At, Actors
    <3> QED
      BY <1>1, <3>1 DEF directWrite
  <2>3. CASE Sweeps(who)
    <3>1. /\ UNCHANGED <<archiveIndex, resume>>
          /\ file /\ pc' # "closing" => file'
          /\ \/ pc' = pc
             \/ /\ pc' \in ActionSteps \cup {resume, "closing", "idle"}
                /\ pc \in ActionSteps
             \/ pc \in Cleaning /\ pc' \in Cleaning \cup {"idle", "open", "closing"}
      BY <2>3, SweepsFacts DEF Actors, Expiring
    <3>2. resume \in {"idle", "check", "write"}
      BY DEF Control, Types
    <3> QED
      BY <1>1, <3>1, <3>2 DEF directWrite
  <2> QED
    BY <1>3, <2>1, <2>2, <2>3 DEF ActionRuns, Sweeps
<1>4. CASE Construct \/ Begin \/ Close
    BY <1>1, <1>4 DEF Construct, Constructs, Begin, Close, directWrite, actions
<1>5. CASE Open
    BY <1>1, <1>5, FirstIndexFacts DEF Control, Open, directWrite
<1>6. CASE OpenFails \/ RolloverFails \/ PickFails \/ Sticks
    BY <1>1, <1>6 DEF OpenFails, RolloverFails, PickFails, Sticks, Refuse, directWrite
<1>14. CASE RotateFails
    BY <1>1, <1>14 DEF RotateFails, Rotated, Refuse, directWrite
<1>7. CASE Check \/ Write
    BY <1>1, <1>7 DEF Check, Write, directWrite
<1>8. CASE PickNext \/ PickMin
  <2>1. PICK i \in Indexes : archiveIndex' = i + 1 /\ pc' = AfterPick
    BY <1>8, PickFacts
  <2>2. archiveIndex' \in Nat
    BY <2>1, RollingAssumption DEF Indexes
  <2> QED
    BY <1>1, <2>1, <2>2 DEF AfterPick, directWrite
<1>9. CASE RotateMin
    BY <1>1, <1>9 DEF RotateMin, Rotated, AfterPick, directWrite
<1>10. CASE Create
    BY <1>1, <1>10 DEF Create, Control, Types, directWrite
<1>11. CASE Rename \/ Reopen \/ Restart \/ Crash
    BY <1>1, <1>11 DEF Rename, Reopen, Restart, Crash, directWrite
<1>12. CASE Enqueue \/ Closed
    BY <1>1, <1>12 DEF Enqueue, Closed, Control, Types, directWrite
<1>13. CASE TakeAction \/ UNCHANGED vars
    BY <1>2, <1>13 DEF TakeAction, vars, holder
<1> QED
    BY <1>3, <1>4, <1>5, <1>6, <1>7, <1>8, <1>9, <1>10, <1>11, <1>12, <1>13, <1>14
       DEF Next, HolderRuns, WorkerRuns, Finished, Actors

LEMMA JobIndexes ==
    ASSUME Types
    PROVE  /\ job.index \in Indexes /\ work.index \in Indexes /\ Indexes \subseteq Nat
           /\ job.index \in Int /\ work.index \in Int
           /\ \A n \in DOMAIN queue : queue[n].index \in Int
<1>1. Indexes \subseteq Nat /\ \A i \in Indexes : i \in Int
    BY RollingAssumption DEF Indexes
<1>2. \A j \in Jobs : j.index \in Indexes /\ j.index \in Int
  <2>1. \A j \in Jobs : j.index \in Indexes
    BY DEF Jobs
  <2> QED
    BY <1>1, <2>1
<1>3. job \in Jobs /\ work \in Jobs /\ queue \in Seq(Jobs)
    BY DEF Types
<1>4. \A n \in DOMAIN queue : queue[n] \in Jobs
    BY <1>3, ElementOfSeq
<1> QED
    BY <1>1, <1>2, <1>3, <1>4

(* Where they hold they held before, and no operation has failed while     *)
(* archives may wait for the worker.                                       *)
LEMMA OrderedBefore ==
    ASSUME HolderIsAt, [Next]_vars
    PROVE  /\ Upward' => Upward /\ NotMinGzip /\ NothingPending'
           /\ Ordered' => Ordered /\ Upward'
<1>1. options' = options /\ failures' \in Nat /\ failures' >= failures /\ failures \in Nat
    BY OptionsStay DEF HolderIsAt
<1> QED
    BY <1>1 DEF Upward, Ordered, NewestIsFound, NothingPending, NotMinGzip, mode, compress

LEMMA JobsStep ==
    ASSUME Upward', Control, Control', HolderIsAt, HolderIsAt', JobsBelow, [Next]_vars
    PROVE  JobsBelow'
<1> USE DEF JobsBelow
<1>0. /\ Upward /\ NothingPending' /\ options' = options /\ compress' = compress
      /\ archiveIndex \in Nat /\ failures \in Nat
    BY OrderedBefore, OptionsStay DEF compress, HolderIsAt
<1>1. CASE UNCHANGED <<file, archiveIndex, pc, job, queue, worker, work>>
    BY <1>0, <1>1
<1>2. ASSUME NEW who \in Actors, ActionRuns(who) PROVE JobsBelow'
  <2>1. CASE Sweeps(who)
    <3>1. /\ UNCHANGED <<archiveIndex, queue>>
          /\ file' => file
          /\ \/ (worker' = "idle" \/ work' = work) /\ UNCHANGED <<pc, job>> /\ worker # "idle"
             \/ /\ UNCHANGED <<worker, work>>
                /\ \/ pc' \in {"sweep", "sweep-error", resume, "idle", "closing"}
                      /\ pc \in Expiring
                   \/ pc \in Cleaning /\ pc' \in Cleaning \cup {"idle", "open", "closing"}
      BY <2>1, SweepsFacts DEF Actors, Expiring
    <3>2. /\ resume \in {"idle", "check", "write"}
          /\ options.asyncActions => pc \notin Expiring
          /\ pc \in Cleaning => queue = <<>> /\ worker = "idle"
      BY DEF Control, Types, WhoActs, ActionSteps, Expiring
    <3>3. file /\ pc' # "closing" => file'
      BY <2>1, SweepsFacts
    <3> QED
      BY <1>0, <3>1, <3>2, <3>3 DEF Cleaning
  <2>2. CASE ~Sweeps(who)
    <3>1. /\ UNCHANGED <<archiveIndex, queue, file>>
          /\ \/ worker' # "idle" /\ work'.index = work.index /\ worker # "idle"
                /\ UNCHANGED <<pc, job>>
             \/ /\ pc' \in ActionSteps /\ pc \in {"compress", "copy", "remove"}
                /\ job'.index = job.index /\ UNCHANGED <<worker, work>>
      <4>1. job \in Jobs /\ work \in Jobs
        BY DEF Control, Types
      <4>2. CASE CompressCreate(who)
        <5>1. /\ UNCHANGED <<archiveIndex, queue, file>> /\ At(who) = "compress"
              /\ To(who, "copy", [Doing(who) EXCEPT !.gzAt = Doing(who).index])
          BY <4>2 DEF CompressCreate
        <5> QED
          BY <4>1, <5>1 DEF To, At, Doing, Actors, Jobs, ActionSteps
      <4>3. CASE CompressSkip(who) \/ CompressFails(who)
        BY <4>3 DEF CompressSkip, CompressFails, To, At, Doing, Actors, ActionSteps
      <4>4. CASE CopyWhole(who) \/ CopyFails(who)
        BY <4>4 DEF CopyWhole, CopyFails, To, At, Doing, Actors, ActionSteps
      <4>5. CASE RemovePlain(who) \/ RemoveFails(who)
        BY <4>5 DEF RemovePlain, RemoveFails, To, At, Doing, Actors, ActionSteps
      <4> QED
        BY <1>2, <2>2, <4>2, <4>3, <4>4, <4>5 DEF ActionRuns, Sweeps
    <3> QED
      BY <1>0, <3>1 DEF ActionSteps, Control, WhoActs
  <2> QED
    BY <2>1, <2>2
<1>3. CASE Construct
  <2>1. /\ UNCHANGED <<file, archiveIndex, job, queue, worker, work>>
        /\ pc = "start" /\ pc' \in {"idle", "open", "clean"}
    BY <1>3 DEF Construct, Constructs
  <2> QED
    BY <1>0, <2>1 DEF Control, WhoActs
<1>4. CASE Begin \/ Close
    BY <1>0, <1>4 DEF Begin, Close, actions
<1>5. CASE Open
  <2>1. /\ UNCHANGED <<job, queue, worker, work>> /\ pc = "open" /\ ~file
        /\ file' = ~directWrite /\ pc' \in {"pick", resume} /\ resume \in {"idle", "check"}
    BY <1>5 DEF Open, actions, Control, DirectTarget, HolderIsAt
  <2>2. compress => ~directWrite
    BY JobFacts DEF Control, Types, compress, directWrite
  <2> QED
    BY <1>0, <2>1, <2>2, EmptySeq
<1>6. CASE OpenFails \/ RolloverFails \/ PickFails \/ Sticks
  <2>1. /\ UNCHANGED <<archiveIndex, job, queue, worker, work>>
        /\ failures' = failures + 1 /\ pc' \in {"closing", "idle", "stuck"}
    BY <1>6 DEF OpenFails, RolloverFails, PickFails, Sticks, Fail, Refuse, actions
  <2>2. ~(compress /\ options.asyncActions)
    BY <1>0, <2>1 DEF NothingPending
  <2> QED
    BY <1>0, <2>1, <2>2
<1>7. CASE Check \/ Write
  <2>1. /\ UNCHANGED <<file, archiveIndex, job, queue, worker, work>>
        /\ pc \in {"check", "write"} /\ pc' \in {"pick", "write", "idle"}
    BY <1>7 DEF Check, Write, actions
  <2>2. file
    BY <2>1 DEF HolderIsAt, Acting
  <2> QED
    BY <1>0, <2>1, <2>2
<1>8. CASE PickNext
  <2>1. PICK i \in Indexes : /\ i >= archiveIndex /\ archiveIndex' = i + 1
                             /\ job' = [index |-> i, events |-> active, gzAt |-> -1]
    BY <1>8 DEF PickNext
  <2>2. UNCHANGED <<queue, worker, work>> /\ pc' \in {"create", "rename"} /\ pc = "pick"
    BY <1>8 DEF PickNext, AfterPick, actions
  <2>3. i \in Nat /\ archiveIndex < archiveIndex' /\ job'.index = archiveIndex' - 1
    BY <1>0, <2>1, RollingAssumption DEF Indexes
  <2>4. /\ \A n \in DOMAIN queue : queue[n].index \in Int
        /\ work.index \in Int
    BY JobIndexes DEF Control
  <2> QED
    BY <1>0, <2>1, <2>2, <2>3, <2>4
<1>9. CASE PickMin \/ RotateMin \/ RotateFails
    BY <1>0, <1>9 DEF PickMin, RotateMin, RotateFails, Rotated, Upward
<1>10. CASE Create
  <2>1. directWrite /\ ~compress
    BY <1>10, JobFacts DEF Create, HolderIsAt, Control, Types, compress, directWrite
  <2>2. pc' \in {"idle", "check", "write"}
    BY <1>10 DEF Create, Control, Types
  <2> QED
    BY <1>0, <2>1, <2>2
<1>11. CASE Rename \/ Reopen
    BY <1>0, <1>11 DEF Rename, Reopen, actions
<1>12. CASE Enqueue
  <2>1. /\ UNCHANGED <<file, archiveIndex, job, worker, work>> /\ pc = "enqueue"
        /\ queue' = Append(queue, job) /\ pc' \in {"idle", "check", "write"}
    BY <1>12 DEF Enqueue, Control, Types
  <2>2. file /\ job.index < archiveIndex
    BY <1>0, <2>1 DEF HolderIsAt, Acting
  <2>3. queue \in Seq(Jobs) /\ job \in Jobs
    BY DEF Control, Types
  <2>4. \A n \in DOMAIN queue' : queue'[n] = job \/ (n \in DOMAIN queue /\ queue'[n] = queue[n])
    BY <2>1, <2>3, AppendProperties
  <2> QED
    BY <1>0, <2>1, <2>2, <2>4
<1>13. CASE Closed \/ Restart
    BY <1>0, <1>13, EmptySeq DEF Closed, Restart, actions, Control, WhoActs
<1>14. CASE TakeAction
  <2>1. /\ UNCHANGED <<file, archiveIndex, pc, job>> /\ queue # <<>>
        /\ queue' = Tail(queue) /\ work' = Head(queue)
    BY <1>14 DEF TakeAction, holder
  <2>2. queue \in Seq(Jobs)
    BY DEF Control, Types
  <2>3. /\ work' = queue[1] /\ 1 \in DOMAIN queue
        /\ \A n \in DOMAIN queue' : n + 1 \in DOMAIN queue /\ queue'[n] = queue[n + 1]
    BY <2>1, <2>2, HeadTailProperties
  <2> QED
    BY <1>0, <2>1, <2>3
<1>15. CASE Crash
    BY <1>0, <1>15, EmptySeq DEF Crash
<1>16. CASE UNCHANGED vars
    BY <1>1, <1>16 DEF vars, holder, actions
<1> QED
    BY <1>2, <1>3, <1>4, <1>5, <1>6, <1>7, <1>8, <1>9, <1>10, <1>11, <1>12, <1>13, <1>14,
       <1>15, <1>16 DEF Next, HolderRuns, WorkerRuns, Finished, Actors

-----------------------------------------------------------------------------
(* What a step does to the files: nothing, or it truncates the active one, *)
(* an event is written, a file gets its archive name, one archive is at a  *)
(* step of its compression, or retention removes one.                      *)
Quiet == UNCHANGED <<plain, gz>> /\ active' \in {active, <<>>}

Compression(who) == \/ CompressCreate(who) \/ CopyWhole(who) \/ CopyFails(who)
                    \/ RemovePlain(who) \/ RemoveFails(who)

Retention == \E who \in Actors : Sweep(who)

LEMMA UpwardEffects ==
    ASSUME mode = "nomax", [Next]_vars
    PROVE  \/ Quiet \/ Write \/ Rename \/ Create \/ Retention
           \/ \E who \in Actors : Compression(who)
<1>1. ASSUME NEW who \in Actors, ActionRuns(who) PROVE Quiet \/ Retention \/ Compression(who)
  <2>1. CASE CompressSkip(who) \/ CompressFails(who) \/ List(who) \/ SweepFails(who)
             \/ Swept(who)
    BY <2>1 DEF CompressSkip, CompressFails, List, SweepFails, Swept, Quiet, disk
  <2>2. CASE Sweep(who)
    BY <2>2 DEF Retention
  <2> QED
    BY <1>1, <2>1, <2>2 DEF ActionRuns, Compression
<1>2. CASE Construct
    BY <1>2 DEF Construct, Quiet, disk
<1>3. CASE \/ Begin \/ Open \/ OpenFails \/ Check \/ PickNext
    BY <1>3 DEF Begin, Open, OpenFails, OpenFile, Check, PickNext, Quiet, disk
<1>4. CASE \/ Reopen \/ RolloverFails \/ PickFails \/ Sticks \/ Enqueue \/ Closed \/ Close
    BY <1>4 DEF Reopen, RolloverFails, PickFails, Sticks, Enqueue, Closed, Close, Quiet, disk
<1>5. CASE \/ TakeAction \/ Crash \/ Restart \/ UNCHANGED vars
    BY <1>5 DEF TakeAction, Crash, Restart, vars, Quiet, disk
<1>6. ~PickMin /\ ~RotateMin /\ ~RotateFails
    BY DEF PickMin, RotateMin, RotateFails, Rotated
<1> QED
    BY <1>1, <1>2, <1>3, <1>4, <1>5, <1>6 DEF Next, HolderRuns, WorkerRuns, Finished, Actors

LEMMA DiskEffects ==
    ASSUME Ordered, [Next]_vars
    PROVE  \/ Quiet \/ Write \/ Rename \/ Create \/ Retention
           \/ \E who \in Actors : Compression(who)
BY UpwardEffects DEF Ordered

(* The events of a file and of an archive.                                 *)
LEMMA ArchiveHas ==
    ASSUME NEW i \in Indexes
    PROVE  /\ plain[i] # Absent => ToSet(plain[i]) \subseteq ArchiveEvents(i)
           /\ gz[i] # NoGz => ToSet(gz[i].events) \subseteq ArchiveEvents(i)
           /\ \A e \in ArchiveEvents(i) : \/ plain[i] # Absent /\ e \in ToSet(plain[i])
                                          \/ gz[i] # NoGz /\ e \in ToSet(gz[i].events)
           /\ ArchiveEvents(i) # {} => Exists(i)
    BY DEF ArchiveEvents, EventsIn, Exists

LEMMA ArchiveHasNext ==
    ASSUME NEW i \in Indexes
    PROVE  \A e \in ArchiveEvents(i)' : \/ plain'[i] # Absent /\ e \in ToSet(plain'[i])
                                        \/ gz'[i] # NoGz /\ e \in ToSet(gz'[i].events)
    BY DEF ArchiveEvents, EventsIn

(* A step of compression: which names are taken does not change, and no    *)
(* archive gets an event it did not have.                                  *)
LEMMA CompressionFacts ==
    ASSUME NotMinGzip, Control, NEW who \in Actors, Compression(who)
    PROVE  /\ compress /\ Doing(who).index \in Indexes
           /\ active' = active /\ options' = options /\ sent' = sent
           /\ \A i \in Indexes : /\ Exists(i)' <=> Exists(i)
                                 /\ ArchiveEvents(i)' \subseteq ArchiveEvents(i)
                                 /\ plain'[i] \in {plain[i], Absent}
                                 /\ gz'[i].events \in {plain[i], gz[i].events, Absent}
                                 /\ i # Doing(who).index => gz'[i] = gz[i] /\ plain'[i] = plain[i]
                                 /\ i = Doing(who).index => plain[i] # Absent
           /\ RemovePlain(who) => gz' = gz
           /\ ~RemovePlain(who) => plain' = plain
<1> DEFINE k == Doing(who).index
<1>1. /\ k \in Indexes /\ k # -1
      /\ plain \in [Indexes -> Seq(Int)]
      /\ gz \in [Indexes -> [events : Seq(Int), whole : BOOLEAN]]
      /\ NoGz.events = Absent
  <2>1. k \in Indexes
    BY ActorTypes DEF Control, Jobs
  <2>2. k # -1
    BY <2>1, RollingAssumption DEF Indexes
  <2> QED
    BY <2>1, <2>2 DEF Control, Types, NoGz
<1>2. HalfDone(At(who), Doing(who))
    BY DEF Control, HalfInv, At, Doing, Actors
<1>3. CASE CompressCreate(who)
  <2>1. /\ compress /\ plain[k] # Absent /\ gz[k] = NoGz /\ plain' = plain
        /\ gz' = [gz EXCEPT ![k] = [events |-> plain[k], whole |-> FALSE]]
        /\ UNCHANGED <<active, options, sent>>
    BY <1>3 DEF CompressCreate, history
  <2>2. /\ gz'[k].events = plain[k]
        /\ \A i \in Indexes : i # k => gz'[i] = gz[i]
    BY <1>1, <2>1
  <2>3. \A i \in Indexes : Exists(i)' <=> Exists(i)
    BY <1>1, <2>1, <2>2 DEF Exists
  <2>4. \A i \in Indexes : ArchiveEvents(i)' \subseteq ArchiveEvents(i)
    BY <1>1, <2>1, <2>2, ArchiveHas, ArchiveHasNext
  <2>5. ~RemovePlain(who)
    BY <1>3 DEF CompressCreate, RemovePlain
  <2> QED
    BY <1>1, <2>1, <2>2, <2>3, <2>4, <2>5
<1>4. CASE CopyWhole(who)
  <2>1. /\ compress /\ plain[k] # Absent /\ gz[k].events = plain[k] /\ plain' = plain
        /\ gz' = [gz EXCEPT ![k].whole = TRUE]
        /\ UNCHANGED <<active, options, sent>>
    BY <1>1, <1>2, <1>4 DEF CopyWhole, HalfDone, history
  <2>2. /\ gz'[k].events = plain[k]
        /\ \A i \in Indexes : i # k => gz'[i] = gz[i]
    BY <1>1, <2>1
  <2>3. \A i \in Indexes : Exists(i)' <=> Exists(i)
    BY <1>1, <2>1, <2>2 DEF Exists
  <2>4. \A i \in Indexes : ArchiveEvents(i)' \subseteq ArchiveEvents(i)
    BY <1>1, <2>1, <2>2, ArchiveHas, ArchiveHasNext
  <2>5. ~RemovePlain(who)
    BY <1>4 DEF CopyWhole, RemovePlain
  <2> QED
    BY <1>1, <2>1, <2>2, <2>3, <2>4, <2>5
<1>5. CASE CopyFails(who) \/ RemoveFails(who)
  <2>1. /\ compress /\ plain[k] # Absent /\ plain' = plain
        /\ gz' = [gz EXCEPT ![k] = NoGz]
        /\ UNCHANGED <<active, options, sent>>
    BY <1>1, <1>2, <1>5 DEF CopyFails, RemoveFails, HalfDone, history
  <2>2. /\ gz'[k] = NoGz
        /\ \A i \in Indexes : i # k => gz'[i] = gz[i]
    BY <1>1, <2>1
  <2>3. \A i \in Indexes : Exists(i)' <=> Exists(i)
    BY <1>1, <2>1, <2>2 DEF Exists
  <2>4. \A i \in Indexes : ArchiveEvents(i)' \subseteq ArchiveEvents(i)
    BY <1>1, <2>1, <2>2, ArchiveHas, ArchiveHasNext
  <2>5. CASE RemovePlain(who)
    BY <1>1, <2>1, <2>5 DEF RemovePlain
  <2> QED
    BY <1>1, <2>1, <2>2, <2>3, <2>4, <2>5
<1>6. CASE RemovePlain(who)
  <2>1. /\ compress /\ plain[k] # Absent /\ gz[k].events = plain[k] /\ gz' = gz
        /\ plain' = [plain EXCEPT ![k] = Absent]
        /\ UNCHANGED <<active, options, sent>>
    BY <1>1, <1>2, <1>6 DEF RemovePlain, HalfDone, history
  <2>2. /\ plain'[k] = Absent /\ gz[k] # NoGz
        /\ \A i \in Indexes : i # k => plain'[i] = plain[i]
    BY <1>1, <2>1
  <2>3. \A i \in Indexes : Exists(i)' <=> Exists(i)
    BY <1>1, <2>1, <2>2 DEF Exists
  <2>4. \A i \in Indexes : ArchiveEvents(i)' \subseteq ArchiveEvents(i)
    BY <1>1, <2>1, <2>2, ArchiveHas, ArchiveHasNext
  <2> QED
    BY <1>1, <1>6, <2>1, <2>2, <2>3, <2>4
<1> QED
    BY <1>3, <1>4, <1>5, <1>6 DEF Compression

(* Retention takes archives the glob finds, all of them there is of each   *)
(* unless it is being compressed, which none is at the time.               *)
LEMMA RetentionFacts ==
    ASSUME NotMinGzip, Control, Retention
    PROVE  /\ active' = active /\ options' = options /\ sent' = sent
           /\ pc' \notin {"copy", "remove"} /\ worker' \notin {"copy", "remove"}
           /\ pc \notin {"copy", "remove"} /\ worker \notin {"copy", "remove"}
           /\ \A i \in Indexes : /\ Exists(i)' => Exists(i)
                                 /\ Exists(i) /\ ~Exists(i)' => i \in Archives
                                 /\ ArchiveEvents(i)' \subseteq ArchiveEvents(i)
                                 /\ plain'[i] \in {plain[i], Absent}
                                 /\ gz'[i] \in {gz[i], NoGz}
           /\ compress => plain' = plain
           /\ ~compress => gz' = gz
<1>1. PICK k \in Archives :
        IF compress THEN gz' = [gz EXCEPT ![k] = NoGz] /\ UNCHANGED plain
                    ELSE plain' = [plain EXCEPT ![k] = Absent] /\ UNCHANGED gz
    BY DEF Retention, Sweep, RemoveArchive
<1>2. active' = active /\ options' = options /\ sent' = sent
    BY DEF Retention, Sweep
<1>3. /\ pc' \notin {"copy", "remove"} /\ worker' \notin {"copy", "remove"}
      /\ pc \notin {"copy", "remove"} /\ worker \notin {"copy", "remove"}
  <2>1. PICK who \in Actors : At(who) \in Sweeping /\ UNCHANGED <<pc, worker>>
    BY DEF Retention, Sweep, holder
  <2> QED
    BY <2>1 DEF At, Actors, Sweeping, Control, WhoActs, Cleaning, ActionSteps
<1>8. /\ plain \in [Indexes -> Seq(Int)] /\ k \in Indexes
      /\ gz \in [Indexes -> [events : Seq(Int), whole : BOOLEAN]]
    BY DEF Control, Types, Archives
<1>4. \A i \in Indexes : /\ plain'[i] \in {plain[i], Absent}
                         /\ gz'[i] \in {gz[i], NoGz}
    BY <1>1, <1>8
<1>5. \A i \in Indexes : Exists(i) /\ ~Exists(i)' => i \in Archives
    BY <1>1, <1>8 DEF Exists
<1>6. \A i \in Indexes : ArchiveEvents(i)' \subseteq ArchiveEvents(i)
    BY <1>4, ArchiveHas, ArchiveHasNext
<1>7. \A i \in Indexes : Exists(i)' => Exists(i)
    BY <1>4 DEF Exists
<1> QED
    BY <1>1, <1>2, <1>3, <1>4, <1>5, <1>6, <1>7

-----------------------------------------------------------------------------
(* The events are in order: only a rollover and a write add any.           *)
LEMMA InOrderShrinks ==
    ASSUME InOrder, ToSet(active') \subseteq ToSet(active),
           \A i \in Indexes : ArchiveEvents(i)' \subseteq ArchiveEvents(i)
    PROVE  InOrder'
<1>1. /\ \A i, k \in Indexes : i < k =>
            \A e \in ArchiveEvents(i)', f \in ArchiveEvents(k)' : e < f
      /\ \A i \in Indexes : \A e \in ArchiveEvents(i)', f \in ToSet(active') : e < f
    BY DEF InOrder
<1> QED
    BY <1>1, Zenon DEF InOrder

LEMMA QuietFacts ==
    ASSUME Quiet, options' = options
    PROVE  /\ \A i \in Indexes : /\ ArchiveEvents(i)' = ArchiveEvents(i)
                                 /\ Exists(i)' <=> Exists(i)
           /\ Archives' = Archives
           /\ ToSet(active') \subseteq ToSet(active)
<1>1. ToSet(<<>>) = {}
    BY DEF ToSet
<1> QED
    BY <1>1 DEF Quiet, ArchiveEvents, Exists, Archives, compress

LEMMA RolloverFacts ==
    ASSUME Control, PickedIsLast, HolderIsAt, Latest, Rename \/ Create
    PROVE  /\ job.index \in Indexes /\ job' = job /\ gz' = gz /\ ToSet(active') = {}
           /\ options' = options
           /\ \A i \in Indexes : i # job.index =>
                 /\ plain'[i] = plain[i] /\ ArchiveEvents(i)' = ArchiveEvents(i)
                 /\ Exists(i)' <=> Exists(i)
           /\ ~Exists(job.index) /\ Exists(job.index)'
           /\ ArchiveEvents(job.index)' \subseteq ToSet(active)
           /\ \A i \in Indexes : Exists(i) => i < job.index
           /\ plain'[job.index] = active
<1>1. job.index \in Indexes /\ plain \in [Indexes -> Seq(Int)] /\ pc \in {"rename", "create"}
    BY JobIndexes DEF Control, Types, Rename, Create
<1>2. \A i \in Indexes : Exists(i) => i < job.index
    BY <1>1 DEF PickedIsLast
<1>3. ~Exists(job.index)
    BY <1>1, <1>2, JobIndexes DEF Control
<1>4. /\ gz' = gz /\ ToSet(active') = {} /\ options' = options /\ job' = job
      /\ plain' = [plain EXCEPT ![job.index] = active]
  <2>1. ToSet(<<>>) = {}
    BY DEF ToSet
  <2>2. CASE Rename
    BY <2>1, <2>2 DEF Rename
  <2>3. CASE Create
    <3>1. active = <<>>
      BY <2>3 DEF Create, HolderIsAt, Latest
    <3> QED
      BY <2>1, <2>3, <3>1 DEF Create
  <2> QED
    BY <2>2, <2>3
<1>5. gz[job.index] = NoGz
    BY <1>3 DEF Exists
<1>6. active # Absent
    BY DEF Control, Types
<1>7. plain'[job.index] = active /\ \A i \in Indexes : i # job.index => plain'[i] = plain[i]
    BY <1>1, <1>4
<1>8. ArchiveEvents(job.index)' \subseteq ToSet(active) /\ Exists(job.index)'
    BY <1>1, <1>4, <1>5, <1>6, <1>7, ArchiveHasNext DEF Exists
<1>9. \A i \in Indexes : i # job.index =>
          ArchiveEvents(i)' = ArchiveEvents(i) /\ (Exists(i)' <=> Exists(i))
    BY <1>4, <1>7 DEF ArchiveEvents, Exists
<1> QED
    BY <1>1, <1>2, <1>3, <1>4, <1>7, <1>8, <1>9

(* A write goes to the active file, or to the archive above all others.    *)
LEMMA WriteFacts ==
    ASSUME Ordered, Control, HolderIsAt, NothingAbove, Sizes, Latest,
           DirectIsThere, Write
    PROVE  /\ gz' = gz /\ options' = options /\ sent' = sent /\ sent \in Nat
           /\ ~directWrite => /\ plain' = plain /\ active' = Append(active, sent)
                              /\ ToSet(active') = ToSet(active) \cup {sent}
           /\ directWrite =>
                 /\ active' = active /\ archiveIndex - 1 \in Indexes /\ ~compress
                 /\ \A i \in Indexes : ArchiveEvents(i) # {} => i <= archiveIndex - 1
                 /\ ArchiveEvents(archiveIndex - 1)' \subseteq
                       ArchiveEvents(archiveIndex - 1) \cup {sent}
                 /\ \A i \in Indexes : i # archiveIndex - 1 =>
                       plain'[i] = plain[i] /\ ArchiveEvents(i)' = ArchiveEvents(i)
           /\ \A i \in Indexes : \A e \in ArchiveEvents(i) : e < sent
           /\ \A e \in ToSet(active) : e < sent
<1>1. /\ sent \in Nat /\ sent # 0 /\ active \in Seq(Int) /\ plain \in [Indexes -> Seq(Int)]
      /\ options \in Setups /\ file /\ pc = "write" /\ resume = "write" /\ archiveIndex \in Nat
    BY DEF Control, Types, DirectTarget, HolderIsAt, Write
<1>2. Underway
    BY <1>1 DEF Underway, Cleaning
<1>3. CASE directWrite
  <2> DEFINE k == archiveIndex - 1
  <2>1. /\ k \in Indexes /\ ~compress
        /\ plain' = [plain EXCEPT ![k] = Append(plain[k], sent)]
        /\ active' = active /\ gz' = gz /\ archiveIndex' = archiveIndex
    BY <1>1, <1>3, JobFacts DEF Write, Control, DirectTarget, compress, directWrite
  <2>2. \A i \in Indexes : gz[i] = NoGz
    BY <2>1 DEF Sizes
  <2>3. ASSUME NEW i \in Indexes, ArchiveEvents(i) # {} PROVE i <= k
    <3>1. plain[i] # Absent
      BY <2>2, <2>3, ArchiveHas DEF Exists
    <3>2. i \in Archives
      BY <2>1, <3>1 DEF Archives
    <3> QED
      BY <1>1, <3>2, RollingAssumption DEF NothingAbove, Counting, Indexes
  <2>4. /\ ToSet(plain'[k]) = ToSet(plain[k]) \cup {sent}
        /\ \A i \in Indexes : i # k => plain'[i] = plain[i]
    BY <1>1, <2>1, AppendSet
  <2>5. ArchiveEvents(k)' \subseteq ArchiveEvents(k) \cup {sent}
    <3>1. ASSUME NEW e \in ArchiveEvents(k)', e # sent PROVE e \in ArchiveEvents(k)
      <4>1. e \in ToSet(plain[k])
        BY <2>1, <2>2, <2>4, <3>1, ArchiveHasNext
      <4>2. plain[k] # Absent
        BY <1>1, <1>3 DEF DirectIsThere
      <4> QED
        BY <2>1, <4>1, <4>2, ArchiveHas
    <3> QED
      BY <3>1
  <2>6. \A i \in Indexes : i # k => ArchiveEvents(i)' = ArchiveEvents(i)
    BY <2>1, <2>4 DEF ArchiveEvents
  <2> QED
    BY <1>1, <1>2, <1>3, <2>1, <2>3, <2>4, <2>5, <2>6 DEF Latest, Write
<1>4. CASE ~directWrite
  <2>1. active' = Append(active, sent) /\ plain' = plain /\ gz' = gz
    BY <1>4 DEF Write
  <2>2. ToSet(active') = ToSet(active) \cup {sent}
    BY <1>1, <2>1, AppendSet
  <2> QED
    BY <1>1, <1>2, <1>4, <2>1, <2>2 DEF Latest, Write
<1> QED
    BY <1>3, <1>4

LEMMA InOrderStep ==
    ASSUME Ordered, Control, HolderIsAt, OrderInvariant, [Next]_vars
    PROVE  InOrder'
<1> USE DEF OrderInvariant
<1>0. NotMinGzip
    BY DEF Ordered, NotMinGzip
<1>1. CASE Quiet
    BY <1>1, OptionsStay, QuietFacts, InOrderShrinks
<1>2. CASE Write
  <2>1. CASE ~directWrite
    <3>1. \A i \in Indexes : ArchiveEvents(i)' = ArchiveEvents(i)
      BY <1>2, <2>1, WriteFacts DEF ArchiveEvents
    <3>2. ToSet(active') = ToSet(active) \cup {sent}
      BY <1>2, <2>1, WriteFacts
    <3>3. /\ \A i, k \in Indexes : i < k =>
              \A e \in ArchiveEvents(i)', f \in ArchiveEvents(k)' : e < f
          /\ \A i \in Indexes : \A e \in ArchiveEvents(i)', f \in ToSet(active') : e < f
      BY <1>2, <3>1, <3>2, WriteFacts DEF InOrder
    <3> QED
      BY <3>3, Zenon DEF InOrder
  <2>2. CASE directWrite
    <3> DEFINE n == archiveIndex - 1
    <3>1. /\ n \in Indexes /\ ToSet(active') = {}
          /\ ArchiveEvents(n)' \subseteq ArchiveEvents(n) \cup {sent}
          /\ \A i \in Indexes : /\ ArchiveEvents(i) # {} => i <= n
                                /\ i # n => ArchiveEvents(i)' = ArchiveEvents(i)
                                /\ \A e \in ArchiveEvents(i) : e < sent
      BY <1>2, <2>2, WriteFacts DEF Latest, ToSet
    <3>2. archiveIndex' = archiveIndex
      BY <1>2 DEF Write
    <3> HIDE DEF n
    <3>3. ASSUME NEW i \in Indexes, NEW k \in Indexes, i < k,
                 NEW e \in ArchiveEvents(i)', NEW f \in ArchiveEvents(k)'
          PROVE  e < f
      <4>1. i # n
        <5>1. k = n \/ ArchiveEvents(k) # {}
          BY <3>1, <3>3
        <5> QED
          BY <3>1, <3>3, <5>1, JobIndexes DEF Control
      <4>2. e \in ArchiveEvents(i)
        BY <3>1, <4>1, <3>3
      <4>3. f \in ArchiveEvents(k) \/ f = sent
        <5>1. n' = n
          BY <3>2 DEF n
        <5> QED
          BY <3>1, <3>3, <5>1
      <4> QED
        BY <3>1, <3>3, <4>2, <4>3 DEF InOrder
    <3>4. /\ \A i, k \in Indexes : i < k =>
              \A e \in ArchiveEvents(i)', f \in ArchiveEvents(k)' : e < f
          /\ \A i \in Indexes : \A e \in ArchiveEvents(i)', f \in ToSet(active') : e < f
      BY <3>1, <3>3
    <3> QED
      BY <3>4, Zenon DEF InOrder
  <2> QED
    BY <2>1, <2>2
<1>3. CASE Rename \/ Create
  <2> DEFINE n == job.index
  <2>1. /\ n \in Indexes /\ ToSet(active') = {} /\ n' = n
        /\ ArchiveEvents(n)' \subseteq ToSet(active)
        /\ \A i \in Indexes : /\ ArchiveEvents(i) # {} => i < n
                              /\ i # n => ArchiveEvents(i)' = ArchiveEvents(i)
    BY <1>3, RolloverFacts, ArchiveHas
  <2> HIDE DEF n
  <2>2. ASSUME NEW i \in Indexes, NEW k \in Indexes, i < k,
               NEW e \in ArchiveEvents(i)', NEW f \in ArchiveEvents(k)'
        PROVE  e < f
    <3>1. i # n
      <4>1. k = n \/ ArchiveEvents(k) # {}
        BY <2>1, <2>2
      <4> QED
        BY <2>1, <2>2, <4>1, JobIndexes DEF Control
    <3>2. e \in ArchiveEvents(i)
      BY <2>1, <2>2, <3>1
    <3>3. f \in ArchiveEvents(k) \/ f \in ToSet(active)
      BY <2>1, <2>2
    <3> QED
      BY <2>2, <3>2, <3>3 DEF InOrder
  <2>3. /\ \A i, k \in Indexes : i < k =>
            \A e \in ArchiveEvents(i)', f \in ArchiveEvents(k)' : e < f
        /\ \A i \in Indexes : \A e \in ArchiveEvents(i)', f \in ToSet(active') : e < f
    BY <2>1, <2>2
  <2> QED
    BY <2>3, Zenon DEF InOrder
<1>4. CASE Retention
    BY <1>0, <1>4, RetentionFacts, InOrderShrinks
<1>5. ASSUME NEW who \in Actors, Compression(who) PROVE InOrder'
    BY <1>0, <1>5, CompressionFacts, InOrderShrinks
<1> QED
    BY <1>1, <1>2, <1>3, <1>4, <1>5, DiskEffects

(* Only Begin adds to sent, and only Begin sets an Append underway.        *)
LEMMA SentSteps ==
    ASSUME Control, HolderIsAt, [Next]_vars
    PROVE  /\ sent \in Nat /\ sent' \in Nat
           /\ \/ Begin /\ sent' = sent + 1
              \/ sent' = sent /\ (Underway' => Underway)
<1>0. sent \in Nat /\ resume \in {"idle", "check", "write"}
    BY DEF Control, Types
<1> SUFFICES \/ Begin /\ sent' = sent + 1
             \/ sent' = sent /\ (Underway' => Underway)
    BY <1>0
<1>1. ASSUME NEW who \in Actors, ActionRuns(who) PROVE sent' = sent /\ (Underway' => Underway)
  <2>1. CASE Sweeps(who)
    <3>1. /\ UNCHANGED <<sent, resume>>
          /\ pc' = pc \/ pc \in Expiring \/ pc \in Cleaning
      BY <2>1, SweepsFacts DEF Actors
    <3>2. ASSUME Underway' PROVE Underway
      <4>1. pc \in Cleaning => resume = "idle"
        BY DEF HolderIsAt
      <4> QED
        BY <3>1, <3>2, <4>1 DEF Underway, Cleaning, Expiring
    <3> QED
      BY <3>1, <3>2
  <2>2. CASE CompressCreate(who) \/ CompressSkip(who) \/ CompressFails(who)
    BY <2>2 DEF CompressCreate, CompressSkip, CompressFails, To, At, Actors, Underway, Cleaning, history
  <2>3. CASE CopyWhole(who) \/ CopyFails(who) \/ RemovePlain(who) \/ RemoveFails(who)
    BY <2>3 DEF CopyWhole, CopyFails, RemovePlain, RemoveFails, To, At, Actors, Underway, Cleaning,
       history
  <2> QED
    BY <1>1, <2>1, <2>2, <2>3 DEF ActionRuns, Sweeps
<1>2. CASE Begin
    BY <1>2 DEF Begin
<1>3. CASE Construct \/ Open \/ OpenFails
    BY <1>3 DEF Construct, Open, OpenFails, Refuse, Underway, Cleaning, history
<1>4. CASE Check \/ Write
    BY <1>4 DEF Check, Write, Underway, Cleaning, history, HolderIsAt
<1>5. CASE PickNext \/ PickMin \/ RotateMin \/ RotateFails
    BY <1>5 DEF PickNext, PickMin, RotateMin, RotateFails, Rotated, Refuse, Underway, Cleaning,
       history
<1>6. CASE Create \/ Rename \/ Reopen \/ RolloverFails \/ PickFails \/ Sticks
    BY <1>6 DEF Create, Rename, Reopen, RolloverFails, PickFails, Sticks, Refuse, Underway,
       Cleaning, history
<1>7. CASE Enqueue \/ Closed \/ Close
    BY <1>7 DEF Enqueue, Closed, Close, Underway, Cleaning, history
<1>9. CASE TakeAction
    BY <1>9 DEF TakeAction, Underway, history, holder
<1>8. CASE Crash \/ Restart \/ UNCHANGED vars
    BY <1>8 DEF Crash, Restart, vars, Underway, Cleaning, history, holder
<1> QED
    BY <1>0, <1>1, <1>2, <1>3, <1>4, <1>5, <1>6, <1>7, <1>8, <1>9
       DEF Next, HolderRuns, WorkerRuns, Finished, Actors

LEMMA LatestStep ==
    ASSUME Ordered, Control, HolderIsAt, OrderInvariant, [Next]_vars
    PROVE  Latest'
<1> DEFINE Held == ToSet(active) \cup UNION {ArchiveEvents(i) : i \in Indexes}
<1>0. NotMinGzip /\ options' = options /\ directWrite' = directWrite
    BY OptionsStay DEF Ordered, NotMinGzip, directWrite
<1>1. SUFFICES /\ directWrite => active' = <<>>
               /\ \A e \in Held' : e <= sent' /\ (Underway' => e < sent')
    BY <1>0 DEF Latest
<1>2. /\ directWrite => active = <<>>
      /\ \A e \in Held : e <= sent /\ (Underway => e < sent)
    BY DEF OrderInvariant, Latest
<1>3. ASSUME Held' \subseteq Held, \A e \in Held : e \in Int
      PROVE  \A e \in Held' : e <= sent' /\ (Underway' => e < sent')
    BY <1>2, <1>3, SentSteps
<1>4. \A e \in Held : e \in Int
  <2>1. \A s \in Seq(Int) : ToSet(s) \subseteq Int
    <3>1. ASSUME NEW s \in Seq(Int), NEW e \in ToSet(s) PROVE e \in Int
      BY <3>1, ElementOfSeq DEF ToSet
    <3> QED
      BY <3>1
  <2>2. /\ active \in Seq(Int)
        /\ \A i \in Indexes : plain[i] \in Seq(Int) /\ gz[i].events \in Seq(Int)
    BY DEF Control, Types
  <2> QED
    BY <2>1, <2>2, ArchiveHas
<1>5. CASE Quiet
  <2>1. Held' \subseteq Held /\ active' \in {active, <<>>}
    BY <1>0, <1>5, QuietFacts DEF Quiet
  <2> QED
    BY <1>2, <1>3, <1>4, <2>1
<1>6. CASE Write
  <2>1. Held' \subseteq Held \cup {sent} /\ (directWrite => active' = active)
    <3>1. CASE directWrite
      <4>1. archiveIndex' = archiveIndex
        BY <1>6 DEF Write
      <4>2. \A i \in Indexes : ArchiveEvents(i)' \subseteq ArchiveEvents(i) \cup {sent}
        BY <1>6, <3>1, <4>1, WriteFacts DEF OrderInvariant
      <4>3. active' = active
        BY <1>6, <3>1, WriteFacts DEF OrderInvariant
      <4> QED
        BY <4>2, <4>3
    <3>2. CASE ~directWrite
      <4>1. /\ \A i \in Indexes : ArchiveEvents(i)' = ArchiveEvents(i)
            /\ ToSet(active') = ToSet(active) \cup {sent}
        BY <1>6, <3>2, WriteFacts DEF OrderInvariant, ArchiveEvents
      <4> QED
        BY <3>2, <4>1
    <3> QED
      BY <3>1, <3>2
  <2>2. sent' = sent /\ ~Underway' /\ sent \in Nat
    BY <1>6, SentSteps DEF Write, Underway
  <2> QED
    BY <1>2, <2>1, <2>2
<1>7. CASE Rename \/ Create
  <2>1. \A i \in Indexes : ArchiveEvents(i)' \subseteq ArchiveEvents(i) \cup ToSet(active)
    BY <1>7, RolloverFacts DEF OrderInvariant
  <2>2. ToSet(active') = {}
    BY <1>7, RolloverFacts DEF OrderInvariant
  <2>3. Held' \subseteq Held
    BY <2>1, <2>2
  <2>4. directWrite => active' = <<>>
    BY <1>2, <1>7 DEF Rename, Create
  <2> QED
    BY <1>3, <1>4, <2>3, <2>4
<1>8. CASE Retention
  <2>1. Held' \subseteq Held /\ active' = active
    BY <1>0, <1>8, RetentionFacts
  <2> QED
    BY <1>2, <1>3, <1>4, <2>1
<1>9. ASSUME NEW who \in Actors, Compression(who) PROVE Held' \subseteq Held /\ active' = active
    BY <1>0, <1>9, CompressionFacts
<1> QED
    BY <1>2, <1>3, <1>4, <1>5, <1>6, <1>7, <1>8, <1>9, DiskEffects

-----------------------------------------------------------------------------
(* The sum over one archive is its size.                                   *)
LEMMA SumOfOne ==
    ASSUME NEW m, Size(m) \in Int
    PROVE  MapThenSumSet(Size, {m}) = Size(m)
<1> DEFINE pick(s) == CHOOSE x \in s : TRUE
           Def(g) == [s \in SUBSET {m} |-> IF s = {} THEN 0 ELSE Size(pick(s)) + g[s \ {pick(s)}]]
           h == [s \in SUBSET {m} |-> IF s = {} THEN 0 ELSE Size(m)]
           iter == CHOOSE g : g = Def(g)
<1>1. \A s \in SUBSET {m} : s # {} => s = {m}
    OBVIOUS
<1>2. pick({m}) = m
    OBVIOUS
<1>3. h = Def(h)
    BY <1>1, <1>2
<1>4. iter = Def(iter)
    BY <1>3
<1> HIDE DEF iter
<1>5. iter[{}] = 0
    BY <1>4
<1>6. iter[{m}] = Size(m) + iter[{m} \ {m}]
    BY <1>2, <1>4
<1>7. iter[{m}] = Size(m)
    BY <1>5, <1>6
<1> QED
    BY <1>7, Zenon DEF iter, MapThenSumSet, MapThenFoldSet

(* Retention of compressed archives leaves the newest.                     *)
LEMMA NewestIsNotListed ==
    ASSUME Ordered, Types, Sizes, compress, ListArchives, NEW i \in Archives
    PROVE  \E m \in Archives \ doomed' : i <= m
<1> DEFINE m == FirstIndex - 1
<1>1. /\ m \in Archives /\ m \in Nat /\ i <= m
      /\ \A k \in Archives : k <= m /\ k \in Nat
    BY FirstIndexFacts, RollingAssumption DEF Archives, Indexes
<1>2. /\ Padded /\ MaxBackups > 0 /\ ~options.ages
      /\ options.totalSizeCap = 0 \/ options.totalSizeCap >= MaxFile
      /\ options.totalSizeCap \in Nat /\ MaxFile \in Nat /\ MaxBackups \in Nat
    BY RollingAssumption DEF Ordered, NewestIsFound, Types
<1> HIDE DEF m
<1>a. \A k \in Archives : ~NameBefore(m, k)
    BY <1>1, <1>2 DEF NameBefore
<1>3. m \notin Surplus
  <2>1. {k \in Archives : NameBefore(m, k)} = {}
    BY <1>a
  <2>2. Cardinality({k \in Archives : NameBefore(m, k)}) = 0
    BY <2>1, FS_EmptySet
  <2>3. ~(0 >= MaxBackups)
    BY <1>2
  <2> QED
    BY <2>2, <2>3, Zenon DEF Surplus
<1>4. ASSUME NEW kept \in SUBSET Archives, m \in kept PROVE m \notin OverCap(kept)
  <2>1. {k \in kept : k = m \/ NameBefore(m, k)} = {m}
    BY <1>a, <1>4
  <2>2. Size(m) \in Nat /\ Size(m) <= MaxFile
    <3>1. m \in Indexes /\ gz[m].events \in Seq(Int)
      BY <1>1 DEF Archives, Types
    <3>2. Size(m) = Len(gz[m].events)
      BY DEF Size
    <3>3. Len(gz[m].events) \in Nat
      BY <3>1, LenProperties
    <3>4. Len(gz[m].events) <= MaxFile
      BY <3>1 DEF Sizes
    <3> QED
      BY <3>2, <3>3, <3>4
  <2>3. MapThenSumSet(Size, {k \in kept : k = m \/ NameBefore(m, k)}) = Size(m)
    <3>1. Size(m) \in Int
      BY <2>2
    <3>2. MapThenSumSet(Size, {m}) = Size(m)
      BY <3>1, SumOfOne, Zenon
    <3> QED
      BY <2>1, <3>2, Zenon
  <2>4. ~(options.totalSizeCap > 0 /\ Size(m) > options.totalSizeCap)
    BY <1>2, <2>2
  <2> QED
    BY <2>3, <2>4, Zenon DEF OverCap
<1>5. PICK aged \in AgedSets :
        doomed' = (Surplus \cup aged) \cup OverCap(Archives \ (Surplus \cup aged))
    BY Zenon DEF ListArchives, Condemned
<1>6. aged = {}
    BY <1>2 DEF AgedSets
<1>7. m \notin (Surplus \cup aged) \cup OverCap(Archives \ (Surplus \cup aged))
    BY <1>1, <1>3, <1>4, <1>6
<1> QED
    BY <1>1, <1>5, <1>7

LEMMA NewestStays ==
    ASSUME Control, NewestIsSpared, compress, Retention, NEW i \in Archives
    PROVE  \E m \in Archives : i <= m /\ gz'[m] = gz[m]
<1>1. PICK k \in doomed : gz' = [gz EXCEPT ![k] = NoGz]
    BY DEF Retention, Sweep, RemoveArchive, FirstOfThem
<1>2. PICK m \in Archives \ doomed : i <= m
    BY DEF NewestIsSpared
<1>3. gz'[m] = gz[m]
    BY <1>1, <1>2 DEF Control, Types, Archives
<1> QED
    BY <1>2, <1>3

Fewer == doomed' \subseteq doomed /\ doomed \cup spared \subseteq doomed' \cup spared'

(* What is left to be removed changes when the archives are listed, and    *)
(* as they are removed.                                                    *)
LEMMA DoomedSteps ==
    ASSUME Control, Control', [Next]_vars
    PROVE  \/ doomed' = {}
           \/ ListArchives /\ Quiet
           \/ Retention
           \/ Fewer /\ Quiet
           \/ UNCHANGED sweep /\ (Write \/ Rename \/ Create \/ RotateMin \/ RotateFails)
<1>1. ASSUME NEW who \in Actors, ActionRuns(who)
      PROVE  \/ doomed' = {}
             \/ ListArchives /\ Quiet
             \/ Retention
             \/ Fewer /\ Quiet
  <2>1. CASE List(who)
    BY <2>1 DEF List, Quiet, disk
  <2>2. CASE Sweep(who)
    BY <2>2 DEF Retention
  <2>3. CASE SweepFails(who) \/ Swept(who)
    BY <2>3 DEF SweepFails, Swept, Fewer, Quiet, disk, sweep
  <2>4. CASE \/ CompressCreate(who) \/ CompressSkip(who) \/ CompressFails(who)
             \/ CopyWhole(who) \/ CopyFails(who) \/ RemovePlain(who) \/ RemoveFails(who)
    <3>1. At(who) \in {"compress", "copy", "remove"} /\ doomed' = doomed
      BY <2>4 DEF CompressCreate, CompressSkip, CompressFails, CopyWhole, CopyFails,
         RemovePlain, RemoveFails, sweep
    <3>2. doomed = {}
      BY <3>1 DEF At, Actors, Control, WhoActs, Sweeping, Cleaning, ActionSteps
    <3> QED
      BY <3>1, <3>2
  <2> QED
    BY <1>1, <2>1, <2>2, <2>3, <2>4 DEF ActionRuns
<1>2. CASE Construct
    BY <1>2 DEF Construct, Quiet, disk, sweep, Fewer
<1>3. CASE \/ Begin \/ Open \/ OpenFails \/ Check \/ PickNext \/ PickMin
    BY <1>3 DEF Begin, Open, OpenFails, OpenFile, Check, PickNext, PickMin, Quiet, disk,
       actions, Fewer
<1>4. CASE \/ Reopen \/ RolloverFails \/ PickFails \/ Sticks \/ Enqueue \/ Closed \/ Close
    BY <1>4 DEF Reopen, RolloverFails, PickFails, Sticks, Enqueue, Closed, Close, Quiet, disk,
       actions, sweep, Fewer
<1>5. CASE \/ TakeAction \/ Restart \/ UNCHANGED vars
    BY <1>5 DEF TakeAction, Restart, vars, Quiet, disk, actions, sweep, Fewer
<1>6. CASE Write \/ Rename \/ Create \/ RotateMin \/ RotateFails
    BY <1>6 DEF Write, Rename, Create, RotateMin, RotateFails, Rotated, actions, sweep
<1>7. CASE Crash
    BY <1>7 DEF Crash
<1> QED
    BY <1>1, <1>2, <1>3, <1>4, <1>5, <1>6, <1>7
       DEF Next, HolderRuns, WorkerRuns, Finished, Actors

LEMMA NewestIsSparedStep ==
    ASSUME Ordered, Control, Control', Sizes, NewestIsSpared, [Next]_vars
    PROVE  NewestIsSpared'
<1>0. options' = options /\ compress' = compress
    BY OptionsStay DEF compress
<1>a. \A i \in Archives \cup Archives' : i <= i
    BY RollingAssumption DEF Archives, Indexes
<1> SUFFICES ASSUME compress, NEW i \in Archives'
             PROVE  \E m \in Archives' \ doomed' : i <= m
    BY <1>0, Zenon DEF NewestIsSpared
<1>1. CASE doomed' = {}
    BY <1>1, <1>a
<1>2. CASE ListArchives /\ Quiet
  <2>1. Archives' = Archives
    BY <1>0, <1>2, QuietFacts
  <2> QED
    BY <1>2, <2>1, NewestIsNotListed DEF Control
<1>3. CASE Retention
  <2>1. PICK k \in doomed : gz' = [gz EXCEPT ![k] = NoGz] /\ doomed' = doomed \ {k}
    BY <1>3 DEF Retention, Sweep, RemoveArchive, FirstOfThem
  <2>2. Archives' = Archives \ {k}
    BY <1>0, <2>1 DEF Archives, Control, Types
  <2> QED
    BY <2>1, <2>2 DEF NewestIsSpared
<1>4. CASE doomed' \subseteq doomed /\ (Quiet \/ Write \/ Rename \/ Create)
  <2>1. gz' = gz
    BY <1>4 DEF Quiet, Write, Rename, Create
  <2>2. Archives' = Archives
    BY <1>0, <2>1 DEF Archives
  <2> QED
    BY <1>4, <2>2 DEF NewestIsSpared
<1>5. ~RotateMin /\ ~RotateFails
    BY DEF Ordered, RotateMin, RotateFails, Rotated
<1> QED
    BY <1>1, <1>2, <1>3, <1>4, <1>5, DoomedSteps DEF Fewer, sweep

-----------------------------------------------------------------------------
(* How archiveIndex and the picked name change.                            *)
LEMMA UpwardCounting ==
    ASSUME mode = "nomax", Control, HolderIsAt, [Next]_vars, Counting'
    PROVE  \/ Open \/ PickNext
           \/ /\ Counting /\ archiveIndex' = archiveIndex
              /\ pc' \in {"rename", "create"} => pc' = pc /\ job' = job
              /\ pc = "rename" => pc' = "rename" \/ Rename
              /\ file' => file \/ Create \/ Reopen
<1> USE DEF Counting
<1>0. pc \in Cleaning \cup {"start", "open", "rename", "create", "reopen", "stuck", "closing",
                         "closed", "down"} => ~file
    BY DEF Control, DirectTarget
<1>1. ASSUME NEW who \in Actors, ActionRuns(who)
      PROVE  /\ Counting /\ archiveIndex' = archiveIndex
             /\ pc' \in {"rename", "create"} => pc' = pc /\ job' = job
             /\ pc = "rename" => pc' = "rename"
             /\ file' => file
  <2>1. CASE Sweeps(who)
    <3>1. /\ archiveIndex' = archiveIndex /\ (file' => file)
          /\ \/ UNCHANGED <<pc, job>>
             \/ /\ pc \in Expiring \cup Cleaning
                /\ pc' \in {"sweep", "sweep-error", "clean", "clean-error", "idle", "open",
                           "closing", resume}
      BY <2>1, SweepsFacts DEF Actors, Cleaning
    <3>2. resume \in {"idle", "check", "write"}
      BY DEF Control, Types
    <3> QED
      BY <3>1, <3>2 DEF Expiring, Cleaning
  <2>2. CASE CompressCreate(who) \/ CompressSkip(who) \/ CompressFails(who)
    BY <2>2 DEF CompressCreate, CompressSkip, CompressFails, To, At, Actors
  <2>3. CASE CopyWhole(who) \/ CopyFails(who) \/ RemovePlain(who) \/ RemoveFails(who)
    BY <2>3 DEF CopyWhole, CopyFails, RemovePlain, RemoveFails, To, At, Actors
  <2> QED
    BY <1>1, <2>1, <2>2, <2>3 DEF ActionRuns, Sweeps
<1>2. CASE Construct \/ Begin \/ Close \/ Crash
    BY <1>0, <1>2 DEF Construct, Constructs, Begin, Close, Crash, Cleaning
<1>3. CASE OpenFails \/ RolloverFails \/ PickFails \/ Sticks
    BY <1>0, <1>3 DEF OpenFails, RolloverFails, PickFails, Sticks, Refuse
<1>4. CASE Check \/ Write
  <2>1. file
    BY <1>4 DEF Check, Write, HolderIsAt, Acting
  <2> QED
    BY <1>4, <2>1 DEF Check, Write
<1>5. CASE Create \/ Rename \/ Reopen
    BY <1>5 DEF Create, Rename, Reopen, Control, Types
<1>6. CASE Enqueue \/ Closed \/ Restart
    BY <1>0, <1>6 DEF Enqueue, Closed, Restart, Control, Types, HolderIsAt, Acting
<1>7. CASE TakeAction \/ UNCHANGED vars
    BY <1>7 DEF TakeAction, vars, holder
<1>8. ~PickMin /\ ~RotateMin /\ ~RotateFails
    BY DEF PickMin, RotateMin, RotateFails, Rotated
<1> QED
    BY <1>1, <1>2, <1>3, <1>4, <1>5, <1>6, <1>7, <1>8
       DEF Next, HolderRuns, WorkerRuns, Finished, Actors

LEMMA CountingSteps ==
    ASSUME Ordered, Control, HolderIsAt, [Next]_vars, Counting'
    PROVE  \/ Open \/ PickNext
           \/ /\ Counting /\ archiveIndex' = archiveIndex
              /\ pc' \in {"rename", "create"} => pc' = pc /\ job' = job
              /\ pc = "rename" => pc' = "rename" \/ Rename
              /\ file' => file \/ Create \/ Reopen
BY UpwardCounting DEF Ordered

(* Names are only taken by a rollover.                                     *)
LEMMA TakenSteps ==
    ASSUME Ordered, Control, HolderIsAt, OrderInvariant, [Next]_vars, ~Rename, ~Create
    PROVE  \A i \in Indexes : Exists(i)' => Exists(i)
<1>0. NotMinGzip /\ options' = options
    BY OptionsStay DEF Ordered, NotMinGzip
<1>1. CASE Quiet
    BY <1>0, <1>1, QuietFacts
<1>2. CASE Write
  <2>1. CASE directWrite
    <3>1. plain[archiveIndex - 1] # Absent /\ archiveIndex' = archiveIndex
      BY <1>2, <2>1 DEF OrderInvariant, DirectIsThere, Write, HolderIsAt, Acting
    <3>2. \A i \in Indexes : i # archiveIndex - 1 => plain'[i] = plain[i]
      BY <1>2, <2>1, WriteFacts DEF OrderInvariant
    <3>3. gz' = gz
      BY <1>2, WriteFacts DEF OrderInvariant
    <3> QED
      BY <3>1, <3>2, <3>3 DEF Exists
  <2>2. CASE ~directWrite
    BY <1>2, <2>2, WriteFacts DEF OrderInvariant, Exists
  <2> QED
    BY <2>1, <2>2
<1>3. CASE Retention
    BY <1>0, <1>3, RetentionFacts
<1>4. ASSUME NEW who \in Actors, Compression(who) PROVE \A i \in Indexes : Exists(i)' => Exists(i)
    BY <1>0, <1>4, CompressionFacts
<1> QED
    BY <1>1, <1>2, <1>3, <1>4, DiskEffects

(* What PickNext finds: nothing is above the free name.                    *)
LEMMA PickedFacts ==
    ASSUME Control, HolderIsAt, NothingAbove, PickNext
    PROVE  \E n \in Indexes :
              /\ n >= archiveIndex /\ ~Exists(n) /\ n \in Nat
              /\ \A k \in Indexes : archiveIndex <= k /\ k < n => Exists(k)
              /\ \A i \in Indexes : Exists(i) => i < n
              /\ job'.index = n /\ archiveIndex' = n + 1
              /\ pc = "pick" /\ pc' \in {"rename", "create"}
              /\ UNCHANGED <<disk, options, worker, work, doomed>>
<1>1. PICK n \in Indexes :
         /\ n >= archiveIndex /\ ~Exists(n)
         /\ \A k \in archiveIndex..(n - 1) : Exists(k)
         /\ job' = [index |-> n, events |-> active, gzAt |-> -1]
         /\ archiveIndex' = n + 1
    BY DEF PickNext
<1>2. /\ archiveIndex \in Nat /\ \A i \in Indexes : i \in Nat
    BY RollingAssumption DEF HolderIsAt, Indexes
<1>3. Counting /\ pc = "pick" /\ pc' \in {"rename", "create"}
    BY DEF PickNext, Counting, AfterPick
<1>4. \A i \in Indexes : Exists(i) => i < n
    BY <1>1, <1>2, <1>3 DEF NothingAbove
<1>5. \A k \in Indexes : archiveIndex <= k /\ k < n => Exists(k)
    BY <1>1, <1>2
<1>6. UNCHANGED <<disk, options, worker, work, doomed>>
    BY DEF PickNext, actions
<1> QED
    BY <1>1, <1>2, <1>3, <1>4, <1>5, <1>6

LEMMA PickedIsLastStep ==
    ASSUME Ordered, Control, HolderIsAt, OrderInvariant, [Next]_vars
    PROVE  PickedIsLast'
<1> SUFFICES ASSUME pc' \in {"rename", "create"}, NEW i \in Indexes, Exists(i)'
             PROVE  i < job'.index
    BY DEF PickedIsLast
<1>1. Counting'
    BY DEF Counting
<1>2. CASE PickNext
  <2>1. Exists(i)
    BY <1>2 DEF PickNext, disk, Exists
  <2> QED
    BY <1>2, <2>1, PickedFacts DEF OrderInvariant
<1>3. CASE ~PickNext
  <2>1. ~Open
    BY DEF Open, HolderIsAt
  <2>2. pc' = pc /\ job' = job
    BY <1>1, <1>3, <2>1, CountingSteps
  <2>3. ~Rename /\ ~Create
    BY <2>2 DEF Rename, Create, Control, Types
  <2>4. Exists(i)
    BY <2>3, TakenSteps
  <2> QED
    BY <2>2, <2>4 DEF OrderInvariant, PickedIsLast
<1> QED
    BY <1>2, <1>3

LEMMA DirectIsThereStep ==
    ASSUME Ordered, Control, HolderIsAt, OrderInvariant, [Next]_vars
    PROVE  DirectIsThere'
<1>0. /\ NotMinGzip /\ options' = options /\ directWrite' = directWrite
      /\ plain \in [Indexes -> Seq(Int)]
    BY OptionsStay DEF Ordered, NotMinGzip, directWrite, Control, Types
<1> SUFFICES ASSUME directWrite, file' PROVE plain'[archiveIndex' - 1] # Absent
    BY <1>0 DEF DirectIsThere
<1>1. ~Open /\ ~PickNext
    BY DEF Open, PickNext
<1>2. Counting /\ archiveIndex' = archiveIndex
    BY <1>1, CountingSteps DEF Counting
<1>3. CASE Create
  <2>1. job.index = archiveIndex - 1 /\ job.index \in Indexes
    BY <1>3, JobIndexes DEF Create, OrderInvariant, JobsBelow, Control
  <2>2. plain'[job.index] = <<>>
    BY <1>0, <1>3, <2>1 DEF Create
  <2> QED
    BY <1>2, <2>1, <2>2, JobFacts
<1>4. CASE ~Create
  <2>1. file /\ plain[archiveIndex - 1] # Absent /\ archiveIndex - 1 \in Indexes
    <3>1. ~Reopen
      BY DEF Reopen, Control, WhoActs
    <3>2. file
      BY <1>1, <1>4, <3>1, CountingSteps DEF Counting
    <3> QED
      BY <3>2 DEF OrderInvariant, DirectIsThere, Control, DirectTarget
  <2>2. CASE Write
    <3>1. plain'[archiveIndex - 1] = Append(plain[archiveIndex - 1], sent)
      BY <1>0, <2>1, <2>2 DEF Write
    <3>2. sent \in Int /\ sent # 0
      BY <2>2 DEF Write, Control, DirectTarget, Types
    <3> QED
      BY <1>0, <1>2, <2>1, <3>1, <3>2, AppendSet
  <2>3. ~Retention
    BY <2>1, SweepsFacts DEF Retention, Sweep, At, Actors, Sweeping, Control, WhoActs,
       DirectTarget, ActionSteps, Cleaning
  <2>4. ~Rename /\ \A who \in Actors : ~Compression(who)
    <3>1. ~compress
      BY JobFacts DEF Control, Types, compress, directWrite
    <3> QED
      BY <1>0, <3>1, CompressionFacts DEF Rename, Control, WhoActs
  <2>5. CASE Quiet
    BY <1>2, <2>1, <2>5 DEF Quiet
  <2> QED
    BY <1>4, <2>2, <2>3, <2>4, <2>5, DiskEffects
<1> QED
    BY <1>3, <1>4

(* A file is opened after all archives: what is above is not compressed    *)
(* yet, and so is everything between.                                      *)
LEMMA OpenedAbove ==
    ASSUME Control, Sizes, GapsAreOld, Open
    PROVE  /\ FirstIndex \in Nat
           /\ \A i, j \in Indexes : Exists(i) /\ FirstIndex <= j /\ j < i => Exists(j)
           /\ \A i \in Archives : i < FirstIndex
<1>1. Types /\ \A i \in Indexes : i \in Nat
    BY RollingAssumption DEF Control, Indexes
<1>2. FirstIndex \in Nat /\ \A i \in Archives : i < FirstIndex
    BY <1>1, FirstIndexFacts
<1>3. ASSUME NEW i \in Indexes, NEW j \in Indexes, Exists(i), FirstIndex <= j, j < i, ~Exists(j)
      PROVE  FALSE
  <2>1. i \notin Archives
    BY <1>1, <1>2, <1>3
  <2>2. compress /\ plain[i] # Absent
    BY <1>3, <2>1 DEF Archives, Exists, Sizes
  <2>3. PICK k \in Indexes : j < k /\ gz[k] # NoGz
    BY <1>3, <2>2 DEF GapsAreOld, GapsBelow, Settled
  <2>4. k \in Archives
    BY <2>2, <2>3 DEF Archives
  <2> QED
    BY <1>1, <1>2, <1>3, <2>3, <2>4
<1> QED
    BY <1>2, <1>3

(* The archives the glob finds after a step.                               *)
LEMMA FoundSteps ==
    ASSUME Ordered, Control, HolderIsAt, OrderInvariant, Counting, [Next]_vars
    PROVE  \A i \in Archives' : i \in Archives \/ i < archiveIndex
<1>0. NotMinGzip /\ options' = options /\ compress' = compress
    BY OptionsStay DEF Ordered, NotMinGzip, compress
<1> SUFFICES ASSUME NEW i \in Archives', i \notin Archives PROVE i < archiveIndex
    OBVIOUS
<1>1. i \in Indexes
    BY DEF Archives
<1>2. CASE Quiet
    BY <1>0, <1>2 DEF Quiet, Archives
<1>3. CASE Write
  <2>1. ~compress /\ directWrite /\ i = archiveIndex - 1
    BY <1>0, <1>1, <1>3, WriteFacts DEF Archives, OrderInvariant
  <2> QED
    BY <2>1 DEF HolderIsAt
<1>4. CASE Rename \/ Create
  <2>1. /\ \A k \in Indexes : k # job.index => plain'[k] = plain[k]
        /\ gz' = gz
    BY <1>4, RolloverFacts DEF OrderInvariant
  <2>2. i = job.index
    BY <1>0, <1>1, <2>1 DEF Archives
  <2>3. job.index = archiveIndex - 1
    BY <1>4 DEF OrderInvariant, JobsBelow, Rename, Create
  <2> QED
    BY <2>2, <2>3 DEF HolderIsAt
<1>5. CASE Retention
    BY <1>0, <1>1, <1>5, RetentionFacts DEF Archives
<1>6. ASSUME NEW who \in Actors, Compression(who) PROVE i < archiveIndex
  <2>1. compress /\ i = Doing(who).index
    BY <1>0, <1>1, <1>6, CompressionFacts DEF Archives
  <2>2. CASE who = "holder"
    <3>1. pc \in {"compress", "copy", "remove"}
      BY <1>6, <2>2 DEF Compression, CompressCreate, CopyWhole, CopyFails, RemovePlain,
                        RemoveFails, At
    <3>2. job.index = archiveIndex - 1
      BY <3>1 DEF OrderInvariant, JobsBelow
    <3> QED
      BY <2>1, <2>2, <3>2 DEF Doing, HolderIsAt
  <2>3. CASE who = "worker"
    <3>1. worker \in {"compress", "copy", "remove"}
      BY <1>6, <2>3 DEF Compression, CompressCreate, CopyWhole, CopyFails, RemovePlain,
                        RemoveFails, At
    <3>2. options.asyncActions
      BY <3>1, Zenon DEF Control, WhoActs
    <3> QED
      BY <2>1, <2>3, <3>1, <3>2 DEF Doing, OrderInvariant, JobsBelow
  <2> QED
    BY <2>2, <2>3 DEF Actors
<1> QED
    BY <1>2, <1>3, <1>4, <1>5, <1>6, DiskEffects

LEMMA NothingAboveStep ==
    ASSUME Ordered, Control, HolderIsAt, OrderInvariant, [Next]_vars
    PROVE  NothingAbove'
<1>0. /\ NotMinGzip /\ options' = options /\ compress' = compress
      /\ archiveIndex \in Nat /\ \A i \in Indexes : i \in Nat
    BY OptionsStay, RollingAssumption DEF Ordered, NotMinGzip, compress, HolderIsAt, Indexes
<1> SUFFICES ASSUME Counting'
             PROVE  /\ \A i, j \in Indexes :
                          Exists(i)' /\ archiveIndex' <= j /\ j < i => Exists(j)'
                    /\ \A i \in Archives' : i < archiveIndex'
    BY Zenon DEF NothingAbove
<1>1. CASE Open
  <2>1. Quiet /\ archiveIndex' = FirstIndex
    BY <1>1 DEF Open, OpenFile, Quiet
  <2>2. Archives' = Archives /\ \A i \in Indexes : Exists(i)' <=> Exists(i)
    BY <1>0, <2>1, QuietFacts
  <2> QED
    BY <1>1, <2>1, <2>2, OpenedAbove DEF OrderInvariant
<1>2. CASE PickNext
  <2>1. PICK n \in Indexes :
          /\ n >= archiveIndex /\ archiveIndex' = n + 1
          /\ \A i \in Indexes : Exists(i) => i < n
    BY <1>2, PickedFacts DEF OrderInvariant
  <2>2. Quiet /\ Counting
    BY <1>2 DEF PickNext, Quiet, disk, Counting
  <2>3. Archives' = Archives /\ \A i \in Indexes : Exists(i)' <=> Exists(i)
    BY <1>0, <2>2, QuietFacts
  <2>4. \A i \in Archives : i \in Indexes /\ i < archiveIndex
    BY <2>2 DEF OrderInvariant, NothingAbove, Archives
  <2> QED
    BY <1>0, <2>1, <2>3, <2>4
<1>3. CASE ~Open /\ ~PickNext
  <2>1. Counting /\ archiveIndex' = archiveIndex
    BY <1>3, CountingSteps
  <2>2. /\ \A i, j \in Indexes : Exists(i) /\ archiveIndex <= j /\ j < i => Exists(j)
        /\ \A i \in Archives : i < archiveIndex
    BY <2>1 DEF OrderInvariant, NothingAbove
  <2>3. \A i \in Archives' : i < archiveIndex
    BY <2>1, <2>2, FoundSteps
  <2>4. ASSUME NEW j \in Indexes, archiveIndex <= j PROVE Exists(j)' <=> Exists(j)
    <3>1. j \notin Archives
      BY <1>0, <2>2, <2>4
    <3>2. CASE Rename \/ Create
      <4>1. job.index = archiveIndex - 1
        BY <3>2 DEF OrderInvariant, JobsBelow, Rename, Create
      <4> QED
        BY <1>0, <2>4, <3>2, <4>1, RolloverFacts DEF OrderInvariant
    <3>3. CASE Write
      <4>1. archiveIndex - 1 # j
        BY <1>0, <2>4
      <4> QED
        BY <3>3, <4>1, WriteFacts DEF OrderInvariant, Exists
    <3>4. CASE Quiet
      BY <1>0, <3>4, QuietFacts
    <3>5. CASE Retention
      BY <1>0, <3>1, <3>5, RetentionFacts
    <3>6. ASSUME NEW who \in Actors, Compression(who) PROVE Exists(j)' <=> Exists(j)
      BY <1>0, <3>6, CompressionFacts
    <3> QED
      BY <3>2, <3>3, <3>4, <3>5, <3>6, DiskEffects
  <2> QED
    BY <1>0, <2>1, <2>2, <2>3, <2>4
<1> QED
    BY <1>1, <1>2, <1>3

LEMMA SizeSteps ==
    ASSUME Ordered, Control, HolderIsAt, compress, [Next]_vars
    PROVE  /\ pc' = "write" => active' = active /\ (pc \in Acting \cup {"write"} \/ Check)
           /\ pc' \in Acting \cup {"reopen"} =>
                 Rename \/ (active' = active /\ pc \in Acting \cup {"reopen"})
<1> USE DEF Acting, ActionSteps
<1>0. ~directWrite
    BY JobFacts DEF Control, Types, compress, directWrite
<1>1. ASSUME NEW who \in Actors, ActionRuns(who)
      PROVE  /\ active' = active
             /\ \/ pc' = pc \/ pc \in Acting
                \/ pc' \in Cleaning \cup {"idle", "open", "closing"}
  <2>1. CASE Sweeps(who)
    <3>1. active' = active /\ (pc' = pc \/ pc \in Expiring \cup Cleaning)
      BY <2>1, SweepsFacts DEF Actors
    <3>2. pc \in Cleaning /\ pc' # pc => pc' \in Cleaning \cup {"idle", "open", "closing"}
      BY <2>1, SweepsFacts DEF Actors, Cleaning, Expiring
    <3> QED
      BY <3>1, <3>2 DEF Expiring, Cleaning
  <2>2. CASE CompressCreate(who) \/ CompressSkip(who) \/ CompressFails(who)
    BY <2>2 DEF CompressCreate, CompressSkip, CompressFails, To, At, Actors, disk
  <2>3. CASE CopyWhole(who) \/ CopyFails(who) \/ RemovePlain(who) \/ RemoveFails(who)
    BY <2>3 DEF CopyWhole, CopyFails, RemovePlain, RemoveFails, To, At, Actors
  <2> QED
    BY <1>1, <2>1, <2>2, <2>3 DEF ActionRuns, Sweeps
<1>2. CASE Construct \/ Begin \/ Close \/ Crash
    BY <1>2 DEF Construct, Constructs, Begin, Close, Crash
<1>3. CASE Open \/ OpenFails \/ RolloverFails \/ PickFails \/ Sticks
    BY <1>3 DEF Open, OpenFails, RolloverFails, PickFails, Sticks, Refuse, HolderIsAt
<1>4. CASE Check \/ Write
    BY <1>4 DEF Check, Write, disk
<1>5. CASE PickNext \/ Create
    BY <1>0, <1>5 DEF PickNext, AfterPick, Create, HolderIsAt
<1>6. CASE Rename \/ Reopen
    BY <1>6 DEF Rename, Reopen, disk
<1>7. CASE Enqueue \/ Closed \/ Restart
    BY <1>7 DEF Enqueue, Closed, Restart, disk, Control, Types
<1>8. CASE TakeAction \/ UNCHANGED vars
    BY <1>8 DEF TakeAction, vars, holder, disk
<1>9. ~PickMin /\ ~RotateMin /\ ~RotateFails
    BY DEF Ordered, PickMin, RotateMin, RotateFails, Rotated
<1> QED
    BY <1>1, <1>2, <1>3, <1>4, <1>5, <1>6, <1>7, <1>8, <1>9
       DEF Next, HolderRuns, WorkerRuns, Finished, Actors, Cleaning

LEMMA SizesStep ==
    ASSUME Ordered, Control, HolderIsAt, OrderInvariant, [Next]_vars
    PROVE  Sizes'
<1>0. /\ NotMinGzip /\ options' = options /\ compress' = compress
      /\ active \in Seq(Int) /\ MaxFile \in Nat \ {0}
      /\ compress => ~directWrite
    BY OptionsStay, RollingAssumption, JobFacts
       DEF Ordered, NotMinGzip, compress, Control, Types, directWrite
<1>1. CASE ~compress
  <2>1. \A who \in Actors : ~Compression(who)
    BY <1>0, <1>1, CompressionFacts
  <2>2. gz' = gz
    BY <1>0, <1>1, <2>1, DiskEffects, RetentionFacts DEF Quiet, Write, Rename, Create
  <2> QED
    BY <1>0, <1>1, <2>2 DEF OrderInvariant, Sizes
<1>2. CASE compress
  <2>0. /\ \A i \in Indexes : Len(plain[i]) <= MaxFile /\ Len(gz[i].events) <= MaxFile
        /\ Len(active) <= MaxFile
        /\ pc = "write" => Len(active) < MaxFile
        /\ pc \in Acting \cup {"reopen"} => active = <<>>
    BY <1>2 DEF OrderInvariant, Sizes
  <2>1. Len(Absent) <= MaxFile /\ NoGz.events = Absent /\ Len(<<>>) = 0
    BY <1>0 DEF Absent, NoGz
  <2>2. /\ Len(active') <= MaxFile
        /\ \A i \in Indexes : Len(plain'[i]) <= MaxFile /\ Len(gz'[i].events) <= MaxFile
    <3>1. CASE Quiet
      <4>1. Len(active') <= MaxFile
        BY <1>0, <2>0, <2>1, <3>1 DEF Quiet
      <4> QED
        BY <2>0, <3>1, <4>1 DEF Quiet
    <3>2. CASE Write
      <4>1. active' = Append(active, sent) /\ UNCHANGED <<plain, gz>> /\ sent \in Int
        BY <1>0, <1>2, <3>2 DEF Write, Control, Types
      <4>2. Len(active') = Len(active) + 1 /\ Len(active) \in Nat
        BY <1>0, <4>1, AppendProperties, LenProperties
      <4>3. Len(active) < MaxFile
        BY <2>0, <3>2 DEF Write
      <4> QED
        BY <1>0, <2>0, <4>1, <4>2, <4>3
    <3>3. CASE Rename
      <4>1. /\ gz' = gz /\ active' = <<>> /\ plain'[job.index] = active /\ job.index \in Indexes
            /\ \A i \in Indexes : i # job.index => plain'[i] = plain[i]
        BY <3>3, RolloverFacts DEF OrderInvariant, Rename
      <4> QED
        BY <1>0, <2>0, <2>1, <4>1
    <3>4. ~Create
      BY <1>0, <1>2 DEF Create, HolderIsAt
    <3>5. CASE Retention
      <4>1. /\ plain' = plain /\ active' = active
            /\ \A i \in Indexes : gz'[i] = gz[i] \/ gz'[i] = NoGz
        BY <1>0, <1>2, <3>5, RetentionFacts
      <4>2. \A i \in Indexes : Len(gz'[i].events) <= MaxFile
        BY <2>0, <2>1, <4>1
      <4> QED
        BY <2>0, <4>1, <4>2
    <3>6. ASSUME NEW who \in Actors, Compression(who)
          PROVE  /\ Len(active') <= MaxFile
                 /\ \A i \in Indexes : Len(plain'[i]) <= MaxFile /\ Len(gz'[i].events) <= MaxFile
      <4>1. /\ active' = active
            /\ \A i \in Indexes : /\ plain'[i] \in {plain[i], Absent}
                                  /\ gz'[i].events \in {plain[i], gz[i].events, Absent}
        BY <1>0, <3>6, CompressionFacts
      <4>2. \A i \in Indexes : Len(plain'[i]) <= MaxFile
        BY <2>0, <2>1, <4>1
      <4>3. \A i \in Indexes : Len(gz'[i].events) <= MaxFile
        BY <2>0, <2>1, <4>1
      <4> QED
        BY <2>0, <4>1, <4>2, <4>3
    <3> QED
      BY <3>1, <3>2, <3>3, <3>4, <3>5, <3>6, DiskEffects
  <2>3. ASSUME pc' = "write" PROVE Len(active') < MaxFile
    <3>1. active' = active /\ (pc \in Acting \cup {"write"} \/ Check)
      BY <1>2, <2>3, SizeSteps
    <3>2. CASE Check
      <4>1. active = <<>> \/ ~(Len(active) + 1 > MaxFile)
        BY <1>0, <1>2, <2>3, <3>2 DEF Check, Due, Current
      <4>2. Len(active) \in Nat
        BY <1>0, LenProperties
      <4> QED
        BY <1>0, <2>1, <3>1, <4>1, <4>2
    <3> QED
      BY <1>0, <2>0, <2>1, <3>1, <3>2
  <2>4. ASSUME pc' \in Acting \cup {"reopen"} PROVE active' = <<>>
    BY <1>2, <2>0, <2>4, SizeSteps DEF Rename
  <2> QED
    BY <1>0, <1>2, <2>2, <2>3, <2>4 DEF Sizes
<1> QED
    BY <1>1, <1>2

(* An archive is taken up for compression when it is not compressed.       *)
LEMMA TakenUp ==
    ASSUME Ordered, Control, [Next]_vars, NEW i \in Indexes
    PROVE  /\ pc' \in {"copy", "remove"} /\ job'.index = i =>
                 \/ pc \in {"copy", "remove"} /\ job.index = i
                 \/ gz[i] = NoGz
           /\ worker' \in {"copy", "remove"} /\ work'.index = i =>
                 \/ worker \in {"copy", "remove"} /\ work.index = i
                 \/ gz[i] = NoGz
<1>0. resume \in {"idle", "check", "write"} /\ job \in Jobs /\ work \in Jobs
    BY DEF Control, Types
<1>1. CASE /\ pc' \notin {"copy", "remove"} \/ UNCHANGED <<pc, job>>
           /\ worker' \notin {"copy", "remove"} \/ UNCHANGED <<worker, work>>
    BY <1>1
<1>2. ASSUME NEW who \in Actors, ActionRuns(who)
      PROVE  /\ pc' \in {"copy", "remove"} /\ job'.index = i =>
                   \/ pc \in {"copy", "remove"} /\ job.index = i
                   \/ gz[i] = NoGz
             /\ worker' \in {"copy", "remove"} /\ work'.index = i =>
                   \/ worker \in {"copy", "remove"} /\ work.index = i
                   \/ gz[i] = NoGz
  <2>1. CASE Sweeps(who)
    <3>1. /\ pc' \notin {"copy", "remove"} \/ UNCHANGED <<pc, job>>
          /\ worker' \notin {"copy", "remove"} \/ UNCHANGED <<worker, work>>
      BY <1>0, <2>1, SweepsFacts DEF Actors, Cleaning
    <3> QED
      BY <1>1, <3>1
  <2>2. CASE CompressCreate(who)
    <3>1. /\ At(who) = "compress" /\ gz[Doing(who).index] = NoGz
          /\ To(who, "copy", [Doing(who) EXCEPT !.gzAt = Doing(who).index])
      BY <2>2 DEF CompressCreate
    <3> QED
      BY <1>0, <3>1 DEF To, Doing, At, Actors, Jobs
  <2>3. CASE CompressSkip(who) \/ CompressFails(who)
    BY <2>3 DEF CompressSkip, CompressFails, To, At, Actors
  <2>4. CASE CopyWhole(who) \/ CopyFails(who) \/ RemovePlain(who) \/ RemoveFails(who)
    BY <2>4 DEF CopyWhole, CopyFails, RemovePlain, RemoveFails, To, At, Doing, Actors
  <2> QED
    BY <1>2, <2>1, <2>2, <2>3, <2>4 DEF ActionRuns, Sweeps
<1>3. CASE Construct \/ Begin \/ Close \/ Restart
    BY <1>1, <1>3 DEF Construct, Constructs, Begin, Close, Restart, actions
<1>4. CASE Open \/ OpenFails \/ RolloverFails \/ PickFails \/ Sticks
    BY <1>0, <1>1, <1>4 DEF Open, OpenFails, RolloverFails, PickFails, Sticks, Refuse, actions
<1>5. CASE Check \/ Write \/ PickNext
    BY <1>1, <1>5 DEF Check, Write, PickNext, AfterPick, actions
<1>6. CASE Create \/ Rename \/ Reopen
    BY <1>0, <1>1, <1>6 DEF Create, Rename, Reopen, actions
<1>7. CASE Enqueue \/ Closed
    BY <1>0, <1>1, <1>7 DEF Enqueue, Closed, actions
<1>8. CASE TakeAction \/ Crash \/ UNCHANGED vars
    BY <1>1, <1>8 DEF TakeAction, Crash, vars, holder, actions
<1>9. ~PickMin /\ ~RotateMin /\ ~RotateFails
    BY DEF Ordered, PickMin, RotateMin, RotateFails, Rotated
<1> QED
    BY <1>2, <1>3, <1>4, <1>5, <1>6, <1>7, <1>8, <1>9
       DEF Next, HolderRuns, WorkerRuns, Finished, Actors

(* A compressed archive at rest stays so, but for retention.               *)
LEMMA SettledStays ==
    ASSUME Ordered, Control, HolderIsAt, OrderInvariant, [Next]_vars, ~Retention,
           NEW i \in Indexes, Settled(i)
    PROVE  Settled(i)'
<1>0. NotMinGzip /\ gz[i] # NoGz
    BY DEF Ordered, NotMinGzip, Settled
<1>1. gz'[i] # NoGz
  <2>1. CASE Quiet \/ Write \/ Rename \/ Create
    BY <1>0, <2>1 DEF Quiet, Write, Rename, Create
  <2>2. ASSUME NEW who \in Actors, Compression(who) PROVE gz'[i] # NoGz
    <3>1. CASE i # Doing(who).index
      BY <1>0, <2>2, <3>1, CompressionFacts
    <3>2. CASE i = Doing(who).index
      <4>1. ~(At(who) \in {"copy", "remove"})
        BY <3>2 DEF Settled, At, Doing, Actors
      <4>2. ~CompressCreate(who)
        BY <1>0, <3>2 DEF CompressCreate
      <4> QED
        BY <2>2, <4>1, <4>2 DEF Compression, CopyWhole, CopyFails, RemovePlain, RemoveFails
    <3> QED
      BY <3>1, <3>2
  <2> QED
    BY <2>1, <2>2, DiskEffects
<1>2. /\ ~(pc' \in {"copy", "remove"} /\ job'.index = i)
      /\ ~(worker' \in {"copy", "remove"} /\ work'.index = i)
    BY <1>0, TakenUp DEF Settled
<1> QED
    BY <1>1, <1>2 DEF Settled

LEMMA GapsStay ==
    ASSUME Ordered, Control, HolderIsAt, OrderInvariant, compress, [Next]_vars, ~Open,
           NEW n \in Int, GapsBelow(n)
    PROVE  \A j \in Indexes : j < n /\ ~Exists(j)' => \E i \in Indexes : j < i /\ Settled(i)'
<1>0. NotMinGzip /\ Types /\ NewestIsSpared /\ \A i \in Indexes : i \in Nat
    BY RollingAssumption DEF Ordered, NotMinGzip, Control, OrderInvariant, Indexes
<1> SUFFICES ASSUME NEW j \in Indexes, j < n, ~Exists(j)'
             PROVE  \E i \in Indexes : j < i /\ Settled(i)'
    OBVIOUS
<1>1. CASE Retention
  <2>1. ASSUME NEW i \in Archives PROVE \E m \in Indexes : i <= m /\ Settled(m)'
    <3>1. PICK m \in Archives : i <= m /\ gz'[m] = gz[m]
      BY <1>0, <1>1, NewestStays
    <3>2. m \in Indexes /\ gz[m] # NoGz
      BY <3>1 DEF Archives
    <3>3. Settled(m)'
      BY <1>0, <1>1, <3>1, <3>2, RetentionFacts DEF Settled
    <3> QED
      BY <3>1, <3>2, <3>3
  <2>2. CASE Exists(j)
    <3>1. j \in Archives
      BY <1>0, <1>1, <2>2, RetentionFacts
    <3>2. PICK m \in Indexes : j <= m /\ Settled(m)'
      BY <2>1, <3>1
    <3>3. m # j
      BY <3>2 DEF Settled, Exists
    <3> QED
      BY <1>0, <3>2, <3>3
  <2>3. CASE ~Exists(j)
    <3>1. PICK i \in Indexes : j < i /\ Settled(i)
      BY <2>3 DEF GapsBelow
    <3>2. i \in Archives
      BY <3>1 DEF Settled, Archives
    <3>3. PICK m \in Indexes : i <= m /\ Settled(m)'
      BY <2>1, <3>2
    <3> QED
      BY <1>0, <3>1, <3>3
  <2> QED
    BY <2>2, <2>3
<1>2. CASE ~Retention
  <2>1. ~Exists(j)
    <3>1. CASE Quiet
      BY <3>1, OptionsStay, QuietFacts
    <3>2. CASE Write
      BY <3>2, WriteFacts DEF OrderInvariant, Exists
    <3>3. CASE Rename \/ Create
      BY <3>3, RolloverFacts DEF OrderInvariant
    <3>4. ASSUME NEW who \in Actors, Compression(who) PROVE ~Exists(j)
      BY <1>0, <3>4, CompressionFacts
    <3> QED
      BY <1>2, <3>1, <3>2, <3>3, <3>4, DiskEffects
  <2>2. PICK i \in Indexes : j < i /\ Settled(i)
    BY <2>1 DEF GapsBelow
  <2> QED
    BY <1>2, <2>2, SettledStays
<1> QED
    BY <1>1, <1>2

LEMMA GapsAreOldStep ==
    ASSUME Ordered, Control, HolderIsAt, OrderInvariant, [Next]_vars
    PROVE  GapsAreOld'
<1>0. /\ NotMinGzip /\ Types /\ options' = options /\ compress' = compress
      /\ directWrite' = directWrite
      /\ archiveIndex \in Nat /\ \A i \in Indexes : i \in Nat
      /\ plain \in [Indexes -> Seq(Int)]
  <2>1. options' = options
    BY OptionsStay
  <2>2. compress' = compress /\ directWrite' = directWrite
    BY <2>1 DEF compress, directWrite
  <2>3. Types /\ plain \in [Indexes -> Seq(Int)]
    BY DEF Control, Types
  <2>4. archiveIndex \in Nat
    BY DEF HolderIsAt
  <2>5. \A i \in Indexes : i \in Nat
    BY RollingAssumption DEF Indexes
  <2> QED
    BY <2>1, <2>2, <2>3, <2>4, <2>5 DEF Ordered, NotMinGzip
<1> DEFINE Below(n) == \A j \in Indexes : j < n /\ ~Exists(j)' =>
                           \E i \in Indexes : j < i /\ Settled(i)'
           top == IF pc = "rename" THEN job.index ELSE archiveIndex
           next == IF pc' = "rename" THEN job'.index ELSE archiveIndex'
<1> SUFFICES ASSUME compress
             PROVE  /\ \A i \in Indexes : plain'[i] # Absent => Below(i)
                    /\ Counting' => Below(next)
    BY <1>0, Zenon DEF GapsAreOld, GapsBelow
<1>1. /\ \A i \in Indexes : plain[i] # Absent => GapsBelow(i)
      /\ Counting => GapsBelow(top)
    BY DEF OrderInvariant, GapsAreOld
<1>2. ~directWrite /\ ~Create
    BY <1>0, JobFacts DEF Types, compress, directWrite, Create, HolderIsAt
<1>3. top \in Int
    BY <1>0, JobIndexes
<1>4. CASE Open
  <2>1. /\ Quiet /\ archiveIndex' = FirstIndex /\ pc' # "rename"
        /\ pc = "open" /\ pc' \in {"pick", resume} /\ UNCHANGED <<job, worker, work>>
        /\ resume \in {"idle", "check"}
    BY <1>4 DEF Open, OpenFile, Quiet, actions, HolderIsAt
  <2>2. worker = "idle"
    BY <2>1 DEF Control, WhoActs, DirectTarget, OrderInvariant, JobsBelow
  <2>3. \A i \in Indexes : /\ Exists(i)' <=> Exists(i)
                           /\ Settled(i)' <=> gz[i] # NoGz
                           /\ Settled(i) <=> gz[i] # NoGz
    BY <1>0, <2>1, <2>2, QuietFacts DEF Quiet, Settled
  <2>4. ASSUME NEW j \in Indexes, j < FirstIndex, ~Exists(j)
        PROVE  \E i \in Indexes : j < i /\ Settled(i)'
    <3>1. FirstIndex - 1 \in Archives /\ FirstIndex - 1 \in Indexes /\ FirstIndex \in Nat
      BY <1>0, <2>4, FirstIndexFacts DEF Archives
    <3>2. gz[FirstIndex - 1] # NoGz
      BY <3>1 DEF Archives
    <3>3. j # FirstIndex - 1
      BY <2>4, <3>2 DEF Exists
    <3>4. j < FirstIndex - 1
      BY <1>0, <2>4, <3>1, <3>3
    <3> QED
      BY <2>3, <3>1, <3>2, <3>4
  <2>5. Below(next)
    BY <2>1, <2>3, <2>4
  <2>6. \A i \in Indexes : plain'[i] # Absent => Below(i)
    BY <1>1, <2>1, <2>3 DEF Quiet, GapsBelow
  <2> QED
    BY <2>5, <2>6
<1>5. CASE ~Open
  <2>1. \A n \in Int : GapsBelow(n) => Below(n)
    BY <1>5, GapsStay
  <2>2. CASE Rename
    <3>1. /\ job.index \in Indexes /\ job' = job /\ Exists(job.index)'
          /\ \A i \in Indexes : i # job.index => plain'[i] = plain[i]
          /\ job.index = archiveIndex - 1 /\ pc = "rename" /\ pc' = "reopen"
          /\ archiveIndex' = archiveIndex
      BY <2>2, RolloverFacts DEF OrderInvariant, Rename, JobsBelow
    <3>2. Below(job.index)
      <4>1. GapsBelow(job.index)
        BY <1>1, <3>1 DEF Counting
      <4> QED
        BY <1>3, <2>1, <3>1, <4>1
    <3>3. Below(archiveIndex)
      <4>1. \A j \in Indexes : j < archiveIndex => j < job.index \/ j = job.index
        BY <1>0, <3>1
      <4> QED
        BY <3>1, <3>2, <4>1
    <3>4. \A i \in Indexes : plain'[i] # Absent => Below(i)
      <4> SUFFICES ASSUME NEW i \in Indexes, plain'[i] # Absent PROVE Below(i)
        OBVIOUS
      <4>1. CASE i = job.index
        BY <3>2, <4>1
      <4>2. CASE i # job.index
        BY <1>0, <1>1, <2>1, <3>1, <4>2
      <4> QED
        BY <4>1, <4>2
    <3> QED
      BY <3>1, <3>3, <3>4
  <2>3. CASE ~Rename
    <3>1. \A i \in Indexes : plain'[i] # Absent => plain[i] # Absent
      <4>1. CASE Quiet \/ Write
        BY <1>2, <4>1 DEF Quiet, Write
      <4>2. CASE Retention
        BY <1>0, <4>2, RetentionFacts
      <4>3. ASSUME NEW who \in Actors, Compression(who)
            PROVE  \A i \in Indexes : plain'[i] # Absent => plain[i] # Absent
        BY <1>0, <4>3, CompressionFacts
      <4> QED
        BY <1>2, <2>3, <4>1, <4>2, <4>3, DiskEffects
    <3>2. \A i \in Indexes : plain'[i] # Absent => Below(i)
      <4> SUFFICES ASSUME NEW i \in Indexes, plain'[i] # Absent PROVE Below(i)
        OBVIOUS
      <4> QED
        BY <1>0, <1>1, <2>1, <3>1
    <3>3. ASSUME Counting' PROVE Below(next)
      <4>1. CASE PickNext
        <5>1. PICK n \in Indexes :
                /\ n >= archiveIndex /\ ~Exists(n) /\ n \in Nat
                /\ \A k \in Indexes : archiveIndex <= k /\ k < n => Exists(k)
                /\ job'.index = n /\ archiveIndex' = n + 1
                /\ pc = "pick" /\ pc' \in {"rename", "create"}
          BY <4>1, PickedFacts DEF OrderInvariant
        <5>2. pc' = "rename"
          BY <1>2, <4>1 DEF PickNext, AfterPick
        <5>3. GapsBelow(archiveIndex)
          BY <1>1, <5>1 DEF Counting
        <5>4. GapsBelow(n)
          BY <1>0, <5>1, <5>3 DEF GapsBelow
        <5> QED
          BY <2>1, <5>1, <5>2, <5>4
      <4>2. CASE ~PickNext
        <5>1. /\ Counting /\ archiveIndex' = archiveIndex
              /\ pc' = "rename" => pc = "rename" /\ job' = job
              /\ pc = "rename" => pc' = "rename"
          BY <1>5, <2>3, <3>3, <4>2, CountingSteps
        <5>2. next = top
          BY <5>1
        <5>3. GapsBelow(top)
          BY <1>1, <5>1
        <5>4. Below(top)
          BY <1>3, <2>1, <5>3
        <5> QED
          BY <5>2, <5>4
      <4> QED
        BY <4>1, <4>2
    <3> QED
      BY <3>2, <3>3
  <2> QED
    BY <2>2, <2>3
<1> QED
    BY <1>4, <1>5

LEMMA InitOrder == ASSUME Init PROVE HolderIsAt /\ OrderInvariant
<1>1. \A i \in Indexes : i \in Nat /\ i <= 50
    BY RollingAssumption DEF Indexes
<1>2. \A i \in Indexes : /\ plain[i] = IF i \in OldArchives /\ ~compress THEN <<Old(i)>> ELSE Absent
                         /\ gz[i] = IF i \in OldArchives /\ compress
                                    THEN [events |-> <<Old(i)>>, whole |-> TRUE] ELSE NoGz
    BY DEF Init
<1>3. \A i \in Indexes : \A e \in ArchiveEvents(i) : e = Old(i)
  <2> SUFFICES ASSUME NEW i \in Indexes, NEW e \in ArchiveEvents(i) PROVE e = Old(i)
    OBVIOUS
  <2>1. ToSet(<<Old(i)>>) = {Old(i)}
    BY DEF ToSet
  <2>2. \/ plain[i] # Absent /\ e \in ToSet(plain[i])
        \/ gz[i] # NoGz /\ e \in ToSet(gz[i].events)
    BY ArchiveHas
  <2>3. CASE plain[i] # Absent /\ e \in ToSet(plain[i])
    BY <1>2, <2>1, <2>3
  <2>4. CASE gz[i] # NoGz /\ e \in ToSet(gz[i].events)
    <3>1. gz[i] = [events |-> <<Old(i)>>, whole |-> TRUE]
      BY <1>2, <2>4
    <3>2. gz[i].events = <<Old(i)>>
      BY <3>1
    <3> QED
      BY <2>1, <2>4, <3>2
  <2> QED
    BY <2>2, <2>3, <2>4
<1>4. HolderIsAt
    BY DEF Init, HolderIsAt, Acting, ActionSteps, Cleaning
<1>5. JobsBelow /\ PickedIsLast /\ DirectIsThere
    BY EmptySeq DEF Init, JobsBelow, PickedIsLast, DirectIsThere
<1>6. NothingAbove /\ GapsAreOld
    BY <1>2 DEF Init, NothingAbove, GapsAreOld, Counting
<1>7. Sizes
  <2>1. Len(Absent) <= MaxFile /\ NoGz.events = Absent /\ Len(<<>>) <= MaxFile
    BY RollingAssumption DEF Absent, NoGz
  <2>2. ASSUME NEW i \in Indexes PROVE Len(<<Old(i)>>) <= MaxFile
    <3>1. Len(<<Old(i)>>) = 1 /\ 1 <= MaxFile
      BY RollingAssumption
    <3> QED
      BY <3>1
  <2>3. \A i \in Indexes : Len(plain[i]) <= MaxFile
    BY <1>2, <2>1, <2>2
  <2>4. ASSUME NEW i \in Indexes PROVE Len(gz[i].events) <= MaxFile
    <3>1. gz[i].events = <<Old(i)>> \/ gz[i].events = Absent
      <4>1. CASE gz[i] = NoGz
        BY <2>1, <4>1
      <4>2. CASE gz[i] = [events |-> <<Old(i)>>, whole |-> TRUE]
        BY <4>2
      <4> QED
        BY <1>2, <4>1, <4>2
    <3> QED
      BY <2>1, <2>2, <3>1
  <2> QED
    BY <1>2, <2>1, <2>3, <2>4 DEF Init, Sizes, Acting, ActionSteps
<1>8. ToSet(active) = {}
    BY DEF Init, ToSet
<1>9. \A i \in Indexes : Old(i) \in Int /\ Old(i) <= 0
    BY <1>1 DEF Old
<1>10. Latest
    BY <1>3, <1>8, <1>9 DEF Init, Latest, Underway
<1>11. InOrder
  <2>1. \A i, k \in Indexes : i < k => Old(i) < Old(k)
    BY <1>1 DEF Old
  <2> QED
    BY <1>3, <1>8, <2>1 DEF InOrder
<1>12. NewestIsSpared
    BY <1>1 DEF Init, NewestIsSpared, Archives
<1> QED
    BY <1>4, <1>5, <1>6, <1>7, <1>10, <1>11, <1>12 DEF OrderInvariant

LEMMA OrderStep ==
    ASSUME NotMinGzip, RollingInvariant, HolderIsAt, Ordered => OrderInvariant, [Next]_vars
    PROVE  HolderIsAt' /\ (Ordered' => OrderInvariant')
<1>1. Control /\ Control'
    BY ControlStep DEF Control, RollingInvariant
<1>2. HolderIsAt'
    BY <1>1, HolderStep
<1>3. ASSUME Ordered' PROVE OrderInvariant'
  <2>1. Ordered /\ OrderInvariant
    BY <1>3, OrderedBefore
  <2>2. JobsBelow'
    BY <1>1, <1>2, <1>3, <2>1, OrderedBefore, JobsStep DEF OrderInvariant
  <2> QED
    BY <1>1, <2>1, <2>2, NothingAboveStep, GapsAreOldStep, PickedIsLastStep, SizesStep,
       LatestStep, DirectIsThereStep, InOrderStep, NewestIsSparedStep, Zenon DEF OrderInvariant
<1> QED
    BY <1>2, <1>3

(* With the options for which it is promised, a higher index holds later   *)
(* events and the active file the latest, over rollovers, failed and       *)
(* interrupted ones, retention, crashes and restarts.                      *)
THEOREM ArchivesStayInOrder == Spec => []ArchivesInOrder
<1> DEFINE IInv == NotMinGzip => HolderIsAt /\ (Ordered => OrderInvariant)
           RInv == NotMinGzip => RollingInvariant
<1>1. Init => IInv
    BY InitOrder
<1>2. IInv /\ RInv /\ [Next]_vars => IInv'
  <2>1. [Next]_vars => (NotMinGzip' <=> NotMinGzip)
    BY OptionsStay DEF NotMinGzip, mode, compress
  <2> QED
    BY <2>1, OrderStep
<1>3. IInv => ArchivesInOrder
  <2>1. Ordered => NotMinGzip
    BY DEF Ordered, NotMinGzip
  <2> QED
    BY <2>1 DEF ArchivesInOrder, Ordered, OrderInvariant, InOrder
<1>4. Spec => []RInv
    BY RollingInvariantHolds
<1> QED
    BY <1>1, <1>2, <1>3, <1>4, PTL DEF Spec

-----------------------------------------------------------------------------
(* The size of an archive, and of some archives together.                  *)
SizeOf == [i \in Indexes |-> Size(i)]

LEMMA SizesAre ==
    ASSUME Types
    PROVE  /\ IsFiniteSet(Indexes)
           /\ \A i \in Indexes : Size(i) \in Nat /\ SizeOf[i] = Size(i)
<1>1. IsFiniteSet(Indexes)
    BY RollingAssumption, FS_Interval DEF Indexes
<1>2. ASSUME NEW i \in Indexes PROVE Size(i) \in Nat
  <2>1. plain[i] \in Seq(Int) /\ gz[i].events \in Seq(Int)
    BY DEF Types
  <2>2. Len(plain[i]) \in Nat /\ Len(gz[i].events) \in Nat
    BY <2>1, LenProperties
  <2> QED
    BY <2>2 DEF Size
<1> QED
    BY <1>1, <1>2 DEF SizeOf

(* The sizes summed by the fold are the units of the sizes.                *)
LEMMA SizesTogether ==
    ASSUME Types, NEW S \in SUBSET Indexes
    PROVE  MapThenSumSet(Size, S) = Cardinality(Units(SizeOf, S))
<1> DEFINE pick(t) == CHOOSE y \in t : TRUE
           Def(f) == [s \in SUBSET S |->
                        IF s = {} THEN 0 ELSE Size(pick(s)) + f[s \ {pick(s)}]]
           count == [s \in SUBSET S |-> Cardinality(Units(SizeOf, s))]
           sum == CHOOSE f : f = Def(f)
<1>1. /\ IsFiniteSet(S)
      /\ \A x \in S : Size(x) \in Nat /\ SizeOf[x] = Size(x)
    BY SizesAre, FS_Subset
<1>2. \A s \in SUBSET S : s # {} => pick(s) \in s
    OBVIOUS
<1>3. count = Def(count)
  <2>1. ASSUME NEW s \in SUBSET S, s # {}
        PROVE  Cardinality(Units(SizeOf, s)) =
                   Size(pick(s)) + Cardinality(Units(SizeOf, s \ {pick(s)}))
    <3> DEFINE x == pick(s)
    <3>1. x \in s /\ x \in S
      BY <1>2, <2>1
    <3> HIDE DEF x
    <3>2. IsFiniteSet(Units(SizeOf, s \ {x}))
      BY <1>1, UnitsAreFinite
    <3>3. Cardinality(Units(SizeOf, s)) = SizeOf[x] + Cardinality(Units(SizeOf, s \ {x}))
      BY <1>1, <3>1, <3>2, UnitsOfOneMore
    <3> QED
      BY <1>1, <3>1, <3>3 DEF x
  <2>2. Cardinality(Units(SizeOf, {})) = 0
    <3>1. Units(SizeOf, {}) = {}
      BY DEF Units
    <3> QED
      BY <3>1, FS_EmptySet
  <2> HIDE DEF pick
  <2> QED
    BY <2>1, <2>2
<1>4. sum = Def(sum)
    BY <1>3
<1> HIDE DEF sum
<1>5. sum[{}] = 0
    BY <1>4
<1>6. ASSUME NEW s \in SUBSET S, s # {} PROVE \E x \in s : sum[s] = SizeOf[x] + sum[s \ {x}]
  <2>1. sum[s] = Size(pick(s)) + sum[s \ {pick(s)}]
    BY <1>4, <1>6
  <2>2. pick(s) \in s /\ SizeOf[pick(s)] = Size(pick(s))
    BY <1>1, <1>2, <1>6
  <2> QED
    BY <2>1, <2>2
<1>7. sum[S] = Cardinality(Units(SizeOf, S))
  <2>1. \A x \in S : SizeOf[x] \in Nat
    BY <1>1
  <2> QED
    BY <1>1, <1>5, <1>6, <2>1, SumCounts
<1> QED
    BY <1>7, Zenon DEF sum, MapThenSumSet, MapThenFoldSet

(* More archives are at least as large.                                    *)
LEMMA LargerTogether ==
    ASSUME Types, NEW S \in SUBSET Indexes, NEW T \in SUBSET S
    PROVE  /\ MapThenSumSet(Size, S) \in Nat /\ MapThenSumSet(Size, T) \in Nat
           /\ MapThenSumSet(Size, T) <= MapThenSumSet(Size, S)
<1>1. /\ MapThenSumSet(Size, S) = Cardinality(Units(SizeOf, S))
      /\ MapThenSumSet(Size, T) = Cardinality(Units(SizeOf, T))
    BY SizesTogether
<1>2. /\ IsFiniteSet(Units(SizeOf, S)) /\ Cardinality(Units(SizeOf, S)) \in Nat
      /\ Cardinality(Units(SizeOf, T)) \in Nat
  <2>1. IsFiniteSet(Indexes) /\ \A x \in Indexes : SizeOf[x] \in Nat
    BY SizesAre
  <2> QED
    BY <2>1, UnitsAreFinite
<1>3. Units(SizeOf, T) \subseteq Units(SizeOf, S)
    BY DEF Units
<1>4. Cardinality(Units(SizeOf, T)) <= Cardinality(Units(SizeOf, S))
    BY <1>2, <1>3, FS_Subset
<1> QED
    BY <1>1, <1>2, <1>4

-----------------------------------------------------------------------------
(* What retention takes, for any limits.                                   *)
LEMMA OldestGo ==
    ASSUME Padded, mode = "nomax", Types, ListArchives
    PROVE  /\ doomed' \subseteq Archives /\ spared' = {}
           /\ \A i, k \in Archives : k \in doomed' /\ i < k => i \in doomed'
<1> DEFINE after(S, i) == {k \in S : NameBefore(i, k)}
           from(S, i) == {k \in S : k = i \/ NameBefore(i, k)}
<1>1. PICK aged \in AgedSets : doomed' = Condemned(aged) /\ spared' = {}
    BY DEF ListArchives
<1> DEFINE due == Surplus \cup aged
           gone == due \cup OverCap(Archives \ due)
<1>2. /\ Archives \subseteq Indexes /\ IsFiniteSet(Indexes) /\ IsFiniteSet(Archives)
      /\ \A i \in Indexes : i \in Nat
      /\ MaxBackups \in Nat /\ options.totalSizeCap \in Nat
  <2>1. Archives \subseteq Indexes
    BY DEF Archives
  <2>2. IsFiniteSet(Indexes)
    BY SizesAre
  <2>3. IsFiniteSet(Archives)
    BY <2>1, <2>2, FS_Subset
  <2> QED
    BY <2>1, <2>2, <2>3, RollingAssumption DEF Indexes, Types
<1>3. \A i, k \in Archives : NameBefore(i, k) <=> i < k
    BY DEF NameBefore
<1>4. /\ aged \subseteq Archives
      /\ \A i, k \in Archives : k \in aged /\ i < k => i \in aged
  <2>1. CASE aged = {}
    BY <2>1
  <2>2. CASE aged # {}
    <3>1. PICK n \in Indexes : aged = {i \in Archives : i < n}
      BY <2>2 DEF AgedSets
    <3>2. n \in Nat /\ \A i \in Archives : i \in Nat
      BY <1>2
    <3> QED
      BY <3>1, <3>2
  <2> QED
    BY <2>1, <2>2
<1>5. ASSUME NEW i \in Archives, NEW k \in Archives, i < k, k \in Surplus PROVE i \in Surplus
  <2>1. after(Archives, k) \subseteq after(Archives, i)
    BY <1>2, <1>3, <1>5
  <2>2. IsFiniteSet(after(Archives, i)) /\ IsFiniteSet(after(Archives, k))
    BY <1>2, FS_Subset
  <2>3. /\ Cardinality(after(Archives, k)) <= Cardinality(after(Archives, i))
        /\ Cardinality(after(Archives, k)) \in Nat /\ Cardinality(after(Archives, i)) \in Nat
    BY <2>1, <2>2, FS_Subset, FS_CardinalityType
  <2>4. Cardinality(after(Archives, k)) >= MaxBackups
    BY <1>5 DEF Surplus
  <2>5. Cardinality(after(Archives, i)) >= MaxBackups
    BY <1>2, <2>3, <2>4
  <2> QED
    BY <2>5 DEF Surplus
<1> HIDE DEF due
<1>6. ASSUME NEW i \in Archives, NEW k \in Archives, i < k, k \in OverCap(Archives \ due), i \notin due
      PROVE  i \in OverCap(Archives \ due)
  <2> DEFINE kept == Archives \ due
  <2>1. k \in kept /\ i \in kept /\ kept \subseteq Archives
    BY <1>6 DEF OverCap
  <2> HIDE DEF kept
  <2>2. from(kept, k) \subseteq from(kept, i) /\ from(kept, i) \subseteq Indexes
    BY <1>2, <1>3, <1>6, <2>1
  <2>3. /\ MapThenSumSet(Size, from(kept, k)) <= MapThenSumSet(Size, from(kept, i))
        /\ MapThenSumSet(Size, from(kept, k)) \in Nat /\ MapThenSumSet(Size, from(kept, i)) \in Nat
    BY <2>2, LargerTogether
  <2>4. options.totalSizeCap > 0 /\ MapThenSumSet(Size, from(kept, k)) > options.totalSizeCap
    BY <1>6, Zenon DEF OverCap, kept
  <2>5. options.totalSizeCap > 0 /\ MapThenSumSet(Size, from(kept, i)) > options.totalSizeCap
    BY <1>2, <2>3, <2>4
  <2>6. i \in OverCap(kept)
    BY <2>1, <2>5, Zenon DEF OverCap
  <2> QED
    BY <2>6 DEF kept
<1>7. gone \subseteq Archives
    BY <1>4 DEF due, Surplus, OverCap
<1>8. \A i, k \in Archives : k \in gone /\ i < k => i \in gone
    BY <1>4, <1>5, <1>6 DEF due
<1>9. doomed' = gone
    BY <1>1 DEF Condemned, due
<1> HIDE DEF gone
<1> QED
    BY <1>1, <1>7, <1>8, <1>9

(* What is to be removed is older than what is not, but for what could not *)
(* be.                                                                     *)
OldestDoomed == /\ \A k \in doomed, i \in Archives \ (doomed \cup spared) : k < i
                /\ ~compress => doomed \subseteq Archives

LEMMA OldestDoomedStep ==
    ASSUME Padded, mode = "nomax", Control, Control', HolderIsAt, Ordered => OrderInvariant,
           OldestDoomed, [Next]_vars
    PROVE  OldestDoomed'
<1>0. /\ options' = options /\ compress' = compress /\ Types
      /\ \A i \in Archives \cup Archives' : i \in Nat
      /\ Archives \subseteq Indexes
    BY OptionsStay, RollingAssumption DEF Archives, Indexes, compress, Control
<1>1. CASE doomed' = {}
    BY <1>1 DEF OldestDoomed
<1>2. CASE ListArchives /\ Quiet
  <2>1. Archives' = Archives
    BY <1>0, <1>2, QuietFacts
  <2>2. /\ doomed' \subseteq Archives
        /\ \A i, k \in Archives : k \in doomed' /\ i < k => i \in doomed'
    BY <1>0, <1>2, OldestGo
  <2>3. ASSUME NEW k \in doomed', NEW i \in Archives', i \notin doomed' PROVE k < i
    <3>1. k \in Archives /\ i \in Archives /\ ~(i < k) /\ i # k
      BY <2>1, <2>2, <2>3
    <3> QED
      BY <1>0, <3>1
  <2> QED
    BY <2>1, <2>2, <2>3 DEF OldestDoomed
<1>3. CASE Retention
  <2>1. PICK k \in Archives : /\ doomed' = doomed \ {k} /\ spared' = spared
                              /\ RemoveArchive(k)
    BY <1>3 DEF Retention, Sweep
  <2>2. Archives' = Archives \ {k}
    BY <1>0, <2>1 DEF RemoveArchive, Archives, Control, Types
  <2> QED
    BY <1>0, <2>1, <2>2 DEF OldestDoomed
<1>4. CASE Fewer /\ Quiet
  <2>1. Archives' = Archives
    BY <1>0, <1>4, QuietFacts
  <2> QED
    BY <1>0, <1>4, <2>1 DEF OldestDoomed, Fewer
<1>5. CASE UNCHANGED sweep /\ UNCHANGED <<plain, gz>>
  <2>1. Archives' = Archives /\ doomed' = doomed /\ spared' = spared
    BY <1>0, <1>5 DEF Archives, sweep
  <2> QED
    BY <1>0, <2>1 DEF OldestDoomed
<1>6. CASE UNCHANGED sweep /\ (Create \/ (Write /\ directWrite))
  <2>1. doomed = {}
    BY <1>6 DEF Create, Write, HolderIsAt, Control, WhoActs, Sweeping
  <2> QED
    BY <1>1, <1>6, <2>1 DEF sweep
<1>7. CASE UNCHANGED sweep /\ Rename /\ compress
  <2>1. Archives' = Archives /\ doomed' = doomed /\ spared' = spared
    BY <1>0, <1>7 DEF Archives, sweep, Rename
  <2> QED
    BY <1>0, <1>7, <2>1 DEF OldestDoomed
<1>8. CASE UNCHANGED sweep /\ Rename /\ ~compress
  <2>1. OrderInvariant
    BY <1>8 DEF Ordered, NewestIsFound, NothingPending
  <2>2. \A i \in Archives : Exists(i)
    BY <1>8 DEF Archives, Exists
  <2>3. \A i \in Archives : i < job.index
    BY <1>0, <1>8, <2>1, <2>2 DEF OrderInvariant, PickedIsLast, Rename
  <2>4. plain' = [plain EXCEPT ![job.index] = active] /\ job.index \in Indexes
    BY <1>8, JobIndexes DEF Rename, Control
  <2>5. Archives = {i \in Indexes : plain[i] # Absent}
        /\ Archives' = {i \in Indexes : plain'[i] # Absent}
    BY <1>0, <1>8 DEF Archives
  <2>6. Archives \subseteq Archives' /\ Archives' \subseteq Archives \cup {job.index}
    BY <2>4, <2>5 DEF Control, Types
  <2>7. doomed' = doomed /\ spared' = spared /\ doomed \subseteq Archives
    BY <1>8 DEF sweep, OldestDoomed
  <2> QED
    BY <1>0, <2>3, <2>6, <2>7 DEF OldestDoomed
<1>9. ~RotateMin /\ ~RotateFails
    BY DEF RotateMin, RotateFails, Rotated
<1>10. Write => directWrite \/ UNCHANGED <<plain, gz>>
    BY DEF Write
<1> QED
    BY <1>1, <1>2, <1>3, <1>4, <1>5, <1>6, <1>7, <1>8, <1>9, <1>10, DoomedSteps

-----------------------------------------------------------------------------
(* Whatever retention leaves, the archives it can see, now or when their   *)
(* compression is done, are in order.                                      *)
Pending(i) == \/ pc \in {"reopen", "enqueue", "compress"} /\ job.index = i
              \/ worker = "compress" /\ work.index = i
              \/ \E n \in DOMAIN queue : queue[n].index = i

Live(i) == gz[i] # NoGz \/ Pending(i)

LiveInOrder ==
    /\ \A i, k \in Indexes : i < k /\ Live(i) /\ Live(k) =>
           \A e \in ArchiveEvents(i), f \in ArchiveEvents(k) : e < f
    /\ \A i \in Indexes : Live(i) =>
           \A e \in ArchiveEvents(i), f \in ToSet(active) : e < f

LiveBelow ==
    /\ Counting => \A i \in Indexes : Live(i) => i < archiveIndex
    /\ pc = "rename" => \A i \in Indexes : Live(i) => i < job.index

LiveInvariant == JobsBelow /\ Latest /\ LiveInOrder /\ LiveBelow

(* An index becomes live by the rename of a rollover only.                 *)
LEMMA LiveSteps ==
    ASSUME mode = "nomax", compress, Control, HolderIsAt, [Next]_vars, NEW i \in Indexes, Live(i)'
    PROVE  Live(i) \/ (Rename /\ i = job.index)
<1> USE DEF Live, Pending
<1>0. /\ NotMinGzip /\ job \in Jobs /\ work \in Jobs /\ queue \in Seq(Jobs)
      /\ resume \in {"idle", "check", "write"} /\ ~directWrite
    BY JobFacts DEF NotMinGzip, Control, Types, compress, directWrite
<1>1. CASE UNCHANGED <<gz, pc, job, worker, work, queue>>
    BY <1>1
<1>2. ASSUME NEW who \in Actors, ActionRuns(who) PROVE Live(i)
  <2>1. CASE Sweeps(who)
    <3>1. gz'[i] \in {gz[i], NoGz}
      <4>1. CASE Sweep(who)
        BY <1>0, <4>1, RetentionFacts DEF Retention
      <4>2. CASE List(who) \/ SweepFails(who) \/ Swept(who)
        BY <4>2 DEF List, SweepFails, Swept, disk
      <4> QED
        BY <2>1, <4>1, <4>2 DEF Sweeps
    <3>2. /\ queue' = queue
          /\ pc' \notin {"reopen", "enqueue", "compress"} \/ UNCHANGED <<pc, job>>
          /\ worker' # "compress" \/ UNCHANGED <<worker, work>>
      BY <1>0, <2>1, SweepsFacts DEF Actors, Cleaning
    <3> QED
      BY <3>1, <3>2
  <2>2. CASE Compression(who)
    <3>1. /\ queue' = queue
          /\ who = "holder" => pc' \in {"copy", "remove", "expire", "expire-error"}
                               /\ UNCHANGED <<worker, work>>
          /\ who = "worker" => worker' \in {"copy", "remove", "expire", "expire-error"}
                               /\ UNCHANGED <<pc, job>>
      BY <2>2 DEF Compression, CompressCreate, CopyWhole, CopyFails, RemovePlain, RemoveFails,
         To, Actors
    <3>2. Pending(i)' => Pending(i)
      BY <3>1 DEF Actors
    <3>3. CASE i # Doing(who).index
      <4>1. gz'[i] = gz[i]
        BY <1>0, <2>2, <3>3, CompressionFacts
      <4> QED
        BY <3>2, <4>1
    <3>4. CASE i = Doing(who).index
      <4>1. CASE At(who) = "compress"
        BY <3>4, <4>1 DEF At, Doing, Actors
      <4>2. CASE At(who) \in {"copy", "remove"}
        <5>1. HalfDone(At(who), Doing(who))
          BY DEF Control, HalfInv, At, Doing, Actors
        <5>2. plain[i] # Absent /\ gz[i].events = plain[i]
          BY <3>4, <4>2, <5>1 DEF HalfDone
        <5>3. gz[i] # NoGz
          BY <5>2 DEF NoGz
        <5> QED
          BY <5>3
      <4> QED
        BY <2>2, <4>1, <4>2
           DEF Compression, CompressCreate, CopyWhole, CopyFails, RemovePlain, RemoveFails
    <3> QED
      BY <3>3, <3>4
  <2>3. CASE CompressSkip(who) \/ CompressFails(who)
    BY <2>3 DEF CompressSkip, CompressFails, To, At, Actors, disk
  <2> QED
    BY <1>2, <2>1, <2>2, <2>3 DEF ActionRuns, Compression, Sweeps
<1>3. CASE Construct
    BY <1>3 DEF Construct, Constructs, disk
<1>4. CASE Begin \/ Close \/ Check \/ Write
    BY <1>4 DEF Begin, Close, Check, Write, actions, disk
<1>5. CASE Open \/ OpenFails \/ RolloverFails \/ PickFails \/ Sticks
    BY <1>0, <1>5 DEF Open, OpenFails, RolloverFails, PickFails, Sticks, Refuse, actions, disk
<1>6. CASE PickNext
    BY <1>6 DEF PickNext, AfterPick, actions, disk
<1>7. CASE Rename
    BY <1>7 DEF Rename, actions
<1>8. CASE Reopen
    BY <1>8 DEF Reopen, actions, disk
<1>9. CASE Enqueue
  <2>1. /\ UNCHANGED <<gz, job, worker, work>> /\ pc = "enqueue"
        /\ queue' = Append(queue, job) /\ pc' \in {"idle", "check", "write"}
    BY <1>0, <1>9 DEF Enqueue, disk
  <2>2. \A n \in DOMAIN queue' : queue'[n] = job \/ (n \in DOMAIN queue /\ queue'[n] = queue[n])
    BY <1>0, <2>1, AppendProperties
  <2> QED
    BY <2>1, <2>2
<1>10. CASE TakeAction
  <2>1. /\ UNCHANGED <<gz, pc, job>> /\ queue # <<>>
        /\ queue' = Tail(queue) /\ work' = Head(queue)
    BY <1>10 DEF TakeAction, holder, disk
  <2>2. /\ work' = queue[1] /\ 1 \in DOMAIN queue
        /\ \A n \in DOMAIN queue' : n + 1 \in DOMAIN queue /\ queue'[n] = queue[n + 1]
    BY <1>0, <2>1, HeadTailProperties
  <2> QED
    BY <2>1, <2>2
<1>11. CASE Crash
    BY <1>11, EmptySeq DEF Crash, disk
<1>12. CASE Closed \/ Restart \/ UNCHANGED vars
    BY <1>1, <1>12 DEF Closed, Restart, vars, holder, actions, disk
<1>13. ~PickMin /\ ~RotateMin /\ ~RotateFails /\ ~Create
    BY <1>0 DEF PickMin, RotateMin, RotateFails, Rotated, Create, HolderIsAt
<1> QED
    BY <1>2, <1>3, <1>4, <1>5, <1>6, <1>7, <1>8, <1>9, <1>10, <1>11, <1>12, <1>13
       DEF Next, HolderRuns, WorkerRuns, Finished, Actors

(* The rename of a rollover, seen from the live archives.                  *)
LEMMA LiveRename ==
    ASSUME compress, Control, Rename
    PROVE  /\ job.index \in Indexes /\ job' = job /\ gz' = gz /\ ToSet(active') = {}
           /\ \A i \in Indexes : i # job.index => ArchiveEvents(i)' = ArchiveEvents(i)
           /\ \A i \in Indexes : i = job.index /\ gz[i] = NoGz => ArchiveEvents(i)' \subseteq ToSet(active)
<1>1. job.index \in Indexes /\ plain \in [Indexes -> Seq(Int)]
    BY JobIndexes DEF Control, Types
<1>2. /\ gz' = gz /\ active' = <<>> /\ job' = job
      /\ plain' = [plain EXCEPT ![job.index] = active]
    BY DEF Rename
<1>3. ToSet(active') = {}
    BY <1>2 DEF ToSet
<1>4. plain'[job.index] = active /\ \A i \in Indexes : i # job.index => plain'[i] = plain[i]
    BY <1>1, <1>2
<1>5. \A i \in Indexes : i # job.index => ArchiveEvents(i)' = ArchiveEvents(i)
    BY <1>2, <1>4 DEF ArchiveEvents
<1>6. \A i \in Indexes : i = job.index /\ gz[i] = NoGz => ArchiveEvents(i)' \subseteq ToSet(active)
    BY <1>1, <1>2, <1>4, ArchiveHasNext
<1> QED
    BY <1>1, <1>2, <1>3, <1>5, <1>6

(* A renamed file is newer than every live archive; no step adds events to *)
(* those, and retention and compression leave their order.                 *)
LEMMA LiveInOrderStep ==
    ASSUME mode = "nomax", compress, Control, HolderIsAt, LiveInvariant, [Next]_vars
    PROVE  LiveInOrder'
<1> USE DEF LiveInvariant
<1>0. /\ NotMinGzip /\ options' = options /\ ~directWrite /\ \A i \in Indexes : i \in Nat
      /\ sent \in Nat /\ active \in Seq(Int)
    BY OptionsStay, JobFacts, RollingAssumption
       DEF NotMinGzip, Control, Types, compress, directWrite, Indexes
<1>1. SUFFICES /\ \A i, k \in Indexes : i < k /\ Live(i)' /\ Live(k)' =>
                      \A e \in ArchiveEvents(i)', f \in ArchiveEvents(k)' : e < f
               /\ \A i \in Indexes : Live(i)' =>
                      \A e \in ArchiveEvents(i)', f \in ToSet(active') : e < f
    BY Zenon DEF LiveInOrder
<1>2. CASE Rename
  <2>0. PICK n \in Indexes : n = job.index
    BY <1>2, LiveRename
  <2>1. /\ ToSet(active') = {}
        /\ \A i \in Indexes : i # n => ArchiveEvents(i)' = ArchiveEvents(i)
        /\ gz[n] = NoGz => ArchiveEvents(n)' \subseteq ToSet(active)
    BY <1>2, <2>0, LiveRename
  <2>2. \A i \in Indexes : Live(i) => i < n
    BY <1>2, <2>0 DEF LiveBelow, Rename
  <2>3. \A i \in Indexes : Live(i)' /\ i # n => Live(i)
    BY <2>0, LiveSteps
  <2>4. gz[n] = NoGz
    BY <1>0, <2>0, <2>2 DEF Live
  <2>5. ASSUME NEW i \in Indexes, NEW k \in Indexes, i < k, Live(i)', Live(k)',
               NEW e \in ArchiveEvents(i)', NEW f \in ArchiveEvents(k)'
        PROVE  e < f
    <3>1. i # n
      <4>1. k = n \/ k < n
        BY <2>2, <2>3, <2>5
      <4>2. i \in Nat /\ k \in Nat /\ n \in Nat
        BY <1>0, <2>0, <2>5
      <4> QED
        BY <2>5, <4>1, <4>2
    <3>2. e \in ArchiveEvents(i) /\ Live(i)
      BY <2>1, <2>3, <2>5, <3>1
    <3>3. CASE k = n
      <4>1. f \in ToSet(active)
        BY <2>1, <2>4, <2>5, <3>3
      <4>2. \A x \in ArchiveEvents(i), y \in ToSet(active) : x < y
        BY <2>5, <3>2, Zenon DEF LiveInOrder
      <4> QED
        BY <3>2, <4>1, <4>2
    <3>4. CASE k # n
      BY <2>1, <2>3, <2>5, <3>2, <3>4 DEF LiveInOrder
    <3> QED
      BY <3>3, <3>4
  <2> QED
    BY <2>1, <2>5
<1>3. CASE ~Rename
  <2>1. \A i \in Indexes : Live(i)' => Live(i)
    BY <1>3, LiveSteps
  <2>2. CASE Write
    <3>1. /\ \A i \in Indexes : ArchiveEvents(i)' = ArchiveEvents(i)
          /\ active' = Append(active, sent)
      BY <1>0, <2>2 DEF Write, ArchiveEvents
    <3>2. ToSet(active') = ToSet(active) \cup {sent}
      BY <1>0, <3>1, AppendSet
    <3>3. Underway
      BY <2>2 DEF Write, HolderIsAt, Underway, Cleaning
    <3>4. \A i \in Indexes : \A e \in ArchiveEvents(i) : e < sent
      BY <3>3 DEF Latest
    <3> QED
      BY <2>1, <3>1, <3>2, <3>4 DEF LiveInOrder
  <2>3. CASE ~Write
    <3>1. /\ ToSet(active') \subseteq ToSet(active)
          /\ \A i \in Indexes : ArchiveEvents(i)' \subseteq ArchiveEvents(i)
      <4>1. CASE Quiet
        BY <1>0, <4>1, QuietFacts
      <4>2. CASE Retention
        BY <1>0, <4>2, RetentionFacts
      <4>3. ASSUME NEW who \in Actors, Compression(who)
            PROVE  /\ ToSet(active') \subseteq ToSet(active)
                   /\ \A i \in Indexes : ArchiveEvents(i)' \subseteq ArchiveEvents(i)
        BY <1>0, <4>3, CompressionFacts
      <4>4. ~Create
        BY <1>0 DEF Create, HolderIsAt
      <4> QED
        BY <1>3, <2>3, <4>1, <4>2, <4>3, <4>4, UpwardEffects
    <3> QED
      BY <2>1, <3>1 DEF LiveInOrder
  <2> QED
    BY <2>2, <2>3
<1> QED
    BY <1>2, <1>3

(* A new index is higher than every live one, also after a restart, when   *)
(* the index is looked up on disk.                                         *)
LEMMA LiveBelowStep ==
    ASSUME mode = "nomax", compress, Control, HolderIsAt, LiveInvariant, [Next]_vars,
           Upward
    PROVE  LiveBelow'
<1> USE DEF LiveInvariant
<1>0. /\ ~directWrite /\ archiveIndex \in Nat /\ \A i \in Indexes : i \in Nat
      /\ options' = options
    BY OptionsStay, JobFacts, RollingAssumption
       DEF Control, Types, compress, directWrite, HolderIsAt, Indexes
<1>1. SUFFICES /\ Counting' => \A i \in Indexes : Live(i)' => i < archiveIndex'
               /\ pc' = "rename" => \A i \in Indexes : Live(i)' => i < job'.index
    BY Zenon DEF LiveBelow
<1>2. SUFFICES ASSUME Counting'
               PROVE  /\ \A i \in Indexes : Live(i)' => i < archiveIndex'
                      /\ pc' = "rename" => \A i \in Indexes : Live(i)' => i < job'.index
    BY DEF Counting
<1>3. CASE Open
  <2>1. /\ archiveIndex' = FirstIndex /\ pc = "open" /\ pc' # "rename" /\ ~Rename
    BY <1>3 DEF Open, HolderIsAt, Rename
  <2>2. queue = <<>> /\ worker = "idle"
    BY <2>1 DEF Control, WhoActs, DirectTarget, JobsBelow
  <2>3. ASSUME NEW i \in Indexes, Live(i)' PROVE i < archiveIndex'
    <3>1. Live(i)
      BY <2>1, <2>3, LiveSteps
    <3>2. i \in Archives
      BY <2>1, <2>2, <3>1, EmptySeq DEF Live, Pending, Archives
    <3> QED
      BY <2>1, <3>2, FirstIndexFacts DEF Control
  <2> QED
    BY <2>1, <2>3
<1>4. CASE PickNext
  <2>1. PICK n \in Indexes : /\ n >= archiveIndex /\ archiveIndex' = n + 1
                             /\ job' = [index |-> n, events |-> active, gzAt |-> -1]
    BY <1>4 DEF PickNext
  <2>2. ~Rename /\ Counting
    BY <1>4 DEF PickNext, Rename, Counting
  <2>3. ASSUME NEW i \in Indexes, Live(i)' PROVE i < n /\ i \in Nat
    <3>1. Live(i)
      BY <2>2, <2>3, LiveSteps
    <3> QED
      BY <1>0, <2>1, <2>2, <3>1 DEF LiveBelow
  <2> QED
    BY <1>0, <2>1, <2>3
<1>5. CASE ~Open /\ ~PickNext
  <2>1. /\ Counting /\ archiveIndex' = archiveIndex
        /\ pc' = "rename" => pc = "rename" /\ job' = job
    BY <1>2, <1>5, UpwardCounting
  <2>2. CASE Rename
    <3>1. pc' = "reopen" /\ job.index = archiveIndex - 1
      BY <2>2 DEF Rename, JobsBelow
    <3> QED
      BY <1>0, <2>1, <3>1, LiveSteps DEF LiveBelow
  <2>3. CASE ~Rename
    <3>1. \A i \in Indexes : Live(i)' => Live(i)
      BY <2>3, LiveSteps
    <3> QED
      BY <2>1, <3>1 DEF LiveBelow
  <2> QED
    BY <2>2, <2>3
<1> QED
    BY <1>3, <1>4, <1>5

LEMMA HeldAreEvents ==
    ASSUME Types
    PROVE  \A e \in ToSet(active) \cup UNION {ArchiveEvents(i) : i \in Indexes} : e \in Int
<1>1. \A s \in Seq(Int) : ToSet(s) \subseteq Int
  <2>1. ASSUME NEW s \in Seq(Int), NEW e \in ToSet(s) PROVE e \in Int
    BY <2>1, ElementOfSeq DEF ToSet
  <2> QED
    BY <2>1
<1>2. /\ active \in Seq(Int)
      /\ \A i \in Indexes : plain[i] \in Seq(Int) /\ gz[i].events \in Seq(Int)
    BY DEF Types
<1> QED
    BY <1>1, <1>2, ArchiveHas

LEMMA LiveLatestStep ==
    ASSUME mode = "nomax", compress, Control, HolderIsAt, LiveInvariant, [Next]_vars
    PROVE  Latest'
<1> DEFINE Held == ToSet(active) \cup UNION {ArchiveEvents(i) : i \in Indexes}
<1>0. /\ NotMinGzip /\ options' = options /\ ~directWrite /\ directWrite' = directWrite
      /\ sent \in Nat /\ active \in Seq(Int)
    BY OptionsStay, JobFacts DEF NotMinGzip, Control, Types, compress, directWrite
<1>1. SUFFICES \A e \in Held' : e <= sent' /\ (Underway' => e < sent')
    BY <1>0 DEF Latest
<1>2. \A e \in Held : e <= sent /\ (Underway => e < sent)
    BY DEF LiveInvariant, Latest
<1>3. \A e \in Held : e \in Int
    BY HeldAreEvents DEF Control
<1>4. CASE Write
  <2>1. /\ \A i \in Indexes : ArchiveEvents(i)' = ArchiveEvents(i)
        /\ active' = Append(active, sent)
    BY <1>0, <1>4 DEF Write, ArchiveEvents
  <2>2. ToSet(active') = ToSet(active) \cup {sent}
    BY <1>0, <2>1, AppendSet
  <2>3. Held' \subseteq Held \cup {sent}
    BY <2>1, <2>2
  <2>4. sent' = sent /\ ~Underway'
    BY <1>4 DEF Write, Underway
  <2> QED
    BY <1>0, <1>2, <2>3, <2>4
<1>5. CASE ~Write
  <2>1. Held' \subseteq Held
    <3>1. CASE Quiet
      BY <1>0, <3>1, QuietFacts
    <3>2. CASE Rename
      <4>1. /\ ToSet(active') = {} /\ job.index \in Indexes
            /\ \A i \in Indexes : i # job.index => ArchiveEvents(i)' = ArchiveEvents(i)
        BY <3>2, LiveRename
      <4>2. ASSUME NEW i \in Indexes, i = job.index
            PROVE  ArchiveEvents(i)' \subseteq ArchiveEvents(i) \cup ToSet(active)
        <5>1. /\ gz' = gz /\ plain'[i] = active
          BY <3>2, <4>2 DEF Rename, Control, Types
        <5> QED
          BY <4>2, <5>1, ArchiveHas, ArchiveHasNext DEF ArchiveEvents, EventsIn
      <4>3. ASSUME NEW i \in Indexes PROVE ArchiveEvents(i)' \subseteq Held
        <5>1. ArchiveEvents(i)' \subseteq ArchiveEvents(i) \cup ToSet(active)
          BY <4>1, <4>2
        <5>2. ArchiveEvents(i) \subseteq Held /\ ToSet(active) \subseteq Held
          OBVIOUS
        <5> HIDE DEF Held
        <5> QED
          BY <5>1, <5>2
      <4> QED
        BY <4>1, <4>3
    <3>3. CASE Retention
      BY <1>0, <3>3, RetentionFacts
    <3>4. ASSUME NEW who \in Actors, Compression(who) PROVE Held' \subseteq Held
      BY <1>0, <3>4, CompressionFacts
    <3>5. ~Create
      BY <1>0 DEF Create, HolderIsAt
    <3> QED
      BY <1>5, <3>1, <3>2, <3>3, <3>4, <3>5, UpwardEffects
  <2> HIDE DEF Held
  <2>2. ASSUME NEW e \in Held PROVE e <= sent' /\ (Underway' => e < sent')
    <3>1. e \in Int /\ e <= sent /\ (Underway => e < sent)
      BY <1>2, <1>3, <2>2
    <3>2. /\ sent \in Nat /\ sent' \in Nat
          /\ sent' = sent + 1 \/ (sent' = sent /\ (Underway' => Underway))
      BY SentSteps
    <3> QED
      BY <3>1, <3>2
  <2>3. \A e \in Held' : e \in Held
    BY <2>1
  <2> QED
    BY <2>2, <2>3
<1> QED
    BY <1>4, <1>5

(* The archives an earlier process left were live and in order.            *)
LEMMA InitLive == ASSUME Init, compress PROVE LiveInvariant
<1>1. \A i \in Indexes : ~Pending(i)
    BY EmptySeq DEF Init, Pending
<1>2. OrderInvariant
    BY InitOrder
<1>3. ~Counting /\ pc # "rename"
    BY DEF Init, Counting
<1> QED
    BY <1>2, <1>3 DEF LiveInvariant, LiveInOrder, LiveBelow, OrderInvariant, InOrder

(* The invariant of the live archives is inductive.                        *)
LEMMA LiveStep ==
    ASSUME NotMinGzip, RollingInvariant, HolderIsAt, Upward /\ compress => LiveInvariant,
           [Next]_vars
    PROVE  Upward' /\ compress' => LiveInvariant'
<1>1. Control /\ Control' /\ HolderIsAt'
    BY ControlStep, HolderStep DEF Control, RollingInvariant
<1>2. ASSUME Upward', compress' PROVE LiveInvariant'
  <2>1. Upward /\ compress /\ mode = "nomax" /\ LiveInvariant
    BY <1>2, OrderedBefore, OptionsStay DEF Upward, compress
  <2>2. JobsBelow'
    BY <1>1, <1>2, <2>1, JobsStep DEF LiveInvariant
  <2>3. Latest' /\ LiveInOrder' /\ LiveBelow'
    BY <1>1, <2>1, LiveLatestStep, LiveInOrderStep, LiveBelowStep
  <2> QED
    BY <2>2, <2>3, Zenon DEF LiveInvariant
<1> QED
    BY <1>2

(* What retention removes is older than what it leaves.                    *)
LEMMA RetentionStep ==
    ASSUME Padded, NotMinGzip, RollingInvariant, HolderIsAt, Ordered => OrderInvariant,
           Upward /\ compress => LiveInvariant, OldestDoomed, [Next]_vars, mode = "nomax",
           NothingPending,
           NEW e \in expired' \ expired, NEW i \in Archives' \ spared, NEW f \in ArchiveEvents(i)'
    PROVE  e < f
<1>1. Control /\ Types
    BY DEF Control, RollingInvariant
<1>2. Retention
  <2>1. ASSUME NEW who \in Actors, ActionRuns(who), ~Sweep(who) PROVE expired' = expired
    BY <2>1 DEF ActionRuns, CompressCreate, CompressSkip, CompressFails, CopyWhole, CopyFails,
       RemovePlain, RemoveFails, List, SweepFails, Swept, history
  <2>2. ASSUME NEW who \in Actors, Sweep(who) PROVE Retention
    BY <2>2 DEF Retention
  <2>3. Construct => expired' = expired
    BY DEF Construct, history
  <2>4. ~PickMin /\ ~RotateMin /\ ~RotateFails
    BY DEF PickMin, RotateMin, RotateFails, Rotated
  <2>5. Begin \/ Close \/ Open \/ OpenFails \/ Check \/ Write => expired' = expired
    BY DEF Begin, Close, Open, OpenFails, Check, Write, history
  <2>6. PickNext \/ Create \/ Rename \/ Reopen \/ RolloverFails \/ Enqueue => expired' = expired
    BY DEF PickNext, Create, Rename, Reopen, RolloverFails, Enqueue, history
  <2>7. Closed \/ TakeAction \/ Crash \/ Restart \/ UNCHANGED vars => expired' = expired
    BY DEF Closed, TakeAction, Crash, Restart, vars, history
  <2>8. PickFails \/ Sticks => expired' = expired
    BY DEF PickFails, Sticks, history
  <2> QED
    BY <2>1, <2>2, <2>3, <2>4, <2>5, <2>6, <2>7, <2>8
       DEF Next, HolderRuns, WorkerRuns, Finished, Actors
<1>3. PICK k \in Archives : /\ FirstOfThem(k) /\ RemoveArchive(k)
    BY <1>2 DEF Retention, Sweep
<1>4. /\ Archives \subseteq Indexes /\ \A j \in Indexes : j \in Nat
      /\ options' = options /\ compress' = compress
    BY OptionsStay, RollingAssumption DEF Archives, Indexes, compress
<1>5. e \in ArchiveEvents(k)
  <2>1. e \in IF compress THEN ToSet(gz[k].events) ELSE ToSet(plain[k])
    BY <1>3 DEF RemoveArchive
  <2>2. k \in Indexes /\ (compress => gz[k] # NoGz) /\ (~compress => plain[k] # Absent)
    BY DEF Archives
  <2> QED
    BY <2>1, <2>2, ArchiveHas
<1>6. i \in Archives /\ i # k /\ i \notin spared
    BY <1>1, <1>3, <1>4 DEF Archives, RemoveArchive, Types
<1>7. k < i
  <2>1. CASE i \in doomed
    BY <1>3, <1>6, <2>1 DEF FirstOfThem, NameBefore
  <2>2. CASE i \notin doomed
    BY <1>3, <1>6, <2>2 DEF FirstOfThem, OldestDoomed
  <2> QED
    BY <2>1, <2>2
<1>8. f \in ArchiveEvents(i)
    BY <1>1, <1>2, <1>4, <1>6, RetentionFacts
<1>9. CASE compress
  <2>1. LiveInOrder
    BY <1>9 DEF Upward, LiveInvariant
  <2>2. Live(k) /\ Live(i) /\ k \in Indexes /\ i \in Indexes
    BY <1>4, <1>6, <1>9 DEF Live, Archives
  <2> QED
    BY <1>5, <1>7, <1>8, <2>1, <2>2 DEF LiveInOrder
<1>10. CASE ~compress
  <2>1. InOrder
    BY <1>10 DEF Ordered, NewestIsFound, OrderInvariant
  <2>2. k \in Indexes /\ i \in Indexes
    BY <1>4, <1>6
  <2> QED
    BY <1>5, <1>7, <1>8, <2>1, <2>2 DEF InOrder
<1> QED
    BY <1>9, <1>10

(* While the index counts up and no archive waits for the worker past a    *)
(* failure, what retention removes is older than every archive it leaves:  *)
(* for any maxBackups, age and totalSizeCap, over crashes and restarts,    *)
(* when the pattern pads the index.                                        *)
THEOREM RetentionRemovesTheOldest == ASSUME Padded PROVE Spec => RetentionKeepsNewest
<1> DEFINE IInv == NotMinGzip => /\ HolderIsAt /\ (Ordered => OrderInvariant)
                                 /\ (Upward /\ compress => LiveInvariant)
                                 /\ (mode = "nomax" => OldestDoomed)
           RInv == NotMinGzip => RollingInvariant
           Oldest == mode = "nomax" /\ NothingPending =>
                         \A e \in expired' \ expired :
                             \A i \in Archives' \ spared : \A f \in ArchiveEvents(i)' : e < f
<1>1. Init => IInv
    BY InitOrder, InitLive DEF Init, OldestDoomed
<1>2. IInv /\ RInv /\ [Next]_vars => IInv'
  <2>1. [Next]_vars => (NotMinGzip' <=> NotMinGzip)
    BY OptionsStay DEF NotMinGzip, mode, compress
  <2>2. RInv /\ NotMinGzip /\ [Next]_vars => Control /\ Control'
    BY ControlStep DEF Control, RollingInvariant
  <2>3. [Next]_vars => (mode' = mode)
    BY OptionsStay DEF mode
  <2> QED
    BY <2>1, <2>2, <2>3, OrderStep, LiveStep, OldestDoomedStep
<1>3. IInv /\ RInv /\ [Next]_vars => [Oldest]_vars
  <2> SUFFICES ASSUME IInv, RInv, [Next]_vars, mode = "nomax", NothingPending PROVE Oldest
    OBVIOUS
  <2>1. NotMinGzip
    BY DEF NotMinGzip
  <2> QED
    BY <2>1, RetentionStep
<1>4. Spec => []RInv
    BY RollingInvariantHolds
<1> QED
    BY <1>1, <1>2, <1>3, <1>4, PTL DEF Spec, RetentionKeepsNewest

-----------------------------------------------------------------------------
(* What retention leaves, once it has removed what it found, is within its *)
(* limits.                                                                 *)
Left == Archives \ doomed

Within == Cardinality(Left) <= MaxBackups /\ OverCap(Left) = {}

(* The names are in the order of a number, padded or not.                  *)
NameKey == [i \in Indexes |-> IF Padded THEN i
                              ELSE IF i < 10 THEN 11 * i ELSE i + (i \div 10) + 1]

LEMMA NamesAreOrdered ==
    /\ \A i \in Indexes : NameKey[i] \in Nat
    /\ \A i, k \in Indexes : /\ NameBefore(i, k) <=> NameKey[i] < NameKey[k]
                             /\ NameKey[i] = NameKey[k] => i = k
<1>1. Indexes \subseteq 0..50
    BY RollingAssumption DEF Indexes
<1>2. CASE Padded
    BY <1>1, <1>2 DEF NameKey, NameBefore
<1>3. CASE ~Padded
  <2>1. ASSUME NEW i \in 0..50
        PROVE  \E a \in 0..5, b \in 0..9 : /\ i = 10 * a + b /\ i \div 10 = a
    <3>1. i \div 10 \in 0..5 /\ i - 10 * (i \div 10) \in 0..9
      BY <2>1, SMT
    <3> QED
      BY <3>1
  <2>2. ASSUME NEW i \in Indexes
        PROVE  NameKey[i] = IF i < 10 THEN 11 * i ELSE i + (i \div 10) + 1
    BY <1>3, <2>2 DEF NameKey
  <2>3. \A i \in Indexes : NameKey[i] \in Nat
    BY <1>1, <2>1, <2>2
  <2>4. ASSUME NEW i \in Indexes, NEW k \in Indexes
        PROVE  /\ NameBefore(i, k) <=> NameKey[i] < NameKey[k]
               /\ NameKey[i] = NameKey[k] => i = k
    <3>1. PICK a \in 0..5, b \in 0..9 : i = 10 * a + b /\ i \div 10 = a
      BY <1>1, <2>1
    <3>2. PICK c \in 0..5, d \in 0..9 : k = 10 * c + d /\ k \div 10 = c
      BY <1>1, <2>1
    <3>3. /\ NameKey[i] = IF i < 10 THEN 11 * i ELSE 11 * a + b + 1
          /\ NameKey[k] = IF k < 10 THEN 11 * k ELSE 11 * c + d + 1
      BY <2>2, <3>1, <3>2
    <3>4. NameBefore(i, k) <=> IF i < 10 <=> k < 10 THEN i < k
                               ELSE IF i < 10 THEN i <= c ELSE a < k
      BY <1>3, <3>1, <3>2 DEF NameBefore
    <3>5. (i < 10 <=> a = 0) /\ (k < 10 <=> c = 0)
      BY <3>1, <3>2
    <3>6. CASE i < 10 /\ k < 10
      BY <3>3, <3>4, <3>6, <1>1
    <3>7. CASE i < 10 /\ k >= 10
      BY <3>1, <3>2, <3>3, <3>4, <3>5, <3>7, <1>1
    <3>8. CASE i >= 10 /\ k < 10
      BY <3>1, <3>2, <3>3, <3>4, <3>5, <3>8, <1>1
    <3>9. CASE i >= 10 /\ k >= 10
      BY <3>1, <3>2, <3>3, <3>4, <3>5, <3>9, <1>1
    <3> QED
      BY <1>1, <3>6, <3>7, <3>8, <3>9
  <2> QED
    BY <2>3, <2>4
<1> QED
    BY <1>2, <1>3

(* The sizes summed by the fold, now and after a step.                     *)
SumsAreUnits ==
    Types => \A S \in SUBSET Indexes : MapThenSumSet(Size, S) = Cardinality(Units(SizeOf, S))

LEMMA SumsAre == SumsAreUnits
    BY SizesTogether DEF SumsAreUnits

LEMMA SumsAreNext == SumsAreUnits'
    BY SumsAre, PTL

(* A sum over kept archives is what it was.                                *)
LEMMA SumsStay ==
    ASSUME Types, Types', NEW S \in SUBSET Indexes, \A i \in S : Size(i)' = Size(i)
    PROVE  MapThenSumSet(Size, S)' = MapThenSumSet(Size, S)
<1>1. \A i \in S : SizeOf'[i] = SizeOf[i]
    BY DEF SizeOf
<1>2. Units(SizeOf, S)' = Units(SizeOf, S)
  <2>1. ASSUME NEW u \in S \X Nat PROVE SizeOf'[u[1]] = SizeOf[u[1]]
    <3>1. u[1] \in S
      OBVIOUS
    <3> QED
      BY <1>1, <3>1
  <2>2. Units(SizeOf', S) = Units(SizeOf, S)
    BY <2>1 DEF Units
  <2> QED
    BY <2>2 DEF Units
<1>3. MapThenSumSet(Size, S) = Cardinality(Units(SizeOf, S))
    BY SizesTogether
<1>4. MapThenSumSet(Size, S)' = Cardinality(Units(SizeOf, S)')
    BY SumsAreNext DEF SumsAreUnits
<1> QED
    BY <1>2, <1>3, <1>4

(* Retention leaves no more than maxBackups archives within totalSizeCap.  *)
LEMMA RetentionLimits ==
    ASSUME Types, Types', options' = options, UNCHANGED <<plain, gz>>, ListArchives
    PROVE  Within'
<1>1. PICK aged \in AgedSets : doomed' = Condemned(aged)
    BY DEF ListArchives
<1> DEFINE kept == Archives \ (Surplus \cup aged)
           left == kept \ OverCap(kept)
           from(S, i) == {k \in S : k = i \/ NameBefore(i, k)}
<1>2. /\ Archives \subseteq Indexes /\ IsFiniteSet(Archives) /\ compress' = compress
      /\ MaxBackups \in Nat /\ options.totalSizeCap \in Nat
  <2>1. Archives \subseteq Indexes
    BY DEF Archives
  <2>2. IsFiniteSet(Archives)
    BY <2>1, SizesAre, FS_Subset
  <2> QED
    BY <2>1, <2>2, RollingAssumption DEF Types, compress
<1>3. /\ Left' = left
      /\ \A i \in left : plain'[i] = plain[i] /\ gz'[i] = gz[i]
  <2>1. Archives' = Archives
    BY <1>2 DEF Archives
  <2> QED
    BY <1>1, <2>1, Zenon DEF Left, Condemned
<1>4. left \subseteq kept /\ kept \subseteq Archives /\ left \cap Surplus = {}
    OBVIOUS
<1>5. Cardinality(left) <= MaxBackups
  <2> HIDE DEF left
  <2>1. IsFiniteSet(left) /\ Cardinality(left) \in Nat
    BY <1>2, <1>4, FS_Subset, FS_CardinalityType
  <2> SUFFICES ASSUME Cardinality(left) > MaxBackups PROVE FALSE
    BY <1>2, <2>1
  <2> DEFINE keys == {NameKey[i] : i \in left}
  <2>2. left # {}
    BY <1>2, FS_EmptySet
  <2>3. keys \in SUBSET Nat /\ keys # {}
    BY <1>2, <1>4, <2>2, NamesAreOrdered
  <2>4. PICK x \in keys : \A y \in keys : x <= y
    BY <2>3, LeastNatural
  <2>5. PICK m \in left : x = NameKey[m]
    BY <2>4
  <2>6. ASSUME NEW k \in left, k # m PROVE NameBefore(m, k)
    <3>1. NameKey[m] <= NameKey[k]
      BY <2>4, <2>5, <2>6
    <3>2. m \in Indexes /\ k \in Indexes
      BY <1>2, <1>4
    <3> QED
      BY <2>6, <3>1, <3>2, NamesAreOrdered
  <2> DEFINE after == {k \in Archives : NameBefore(m, k)}
  <2>7. IsFiniteSet(after) /\ left \ {m} \subseteq after
    BY <1>2, <1>4, <2>6, FS_Subset
  <2>8. Cardinality(left \ {m}) = Cardinality(left) - 1
    BY <2>1, FS_RemoveElement
  <2>9. Cardinality(left \ {m}) <= Cardinality(after) /\ Cardinality(after) \in Nat
    BY <2>7, FS_Subset, FS_CardinalityType
  <2>10. Cardinality(after) >= MaxBackups
    BY <1>2, <2>1, <2>8, <2>9
  <2>11. m \in Surplus
    BY <1>4, <2>10 DEF Surplus
  <2> QED
    BY <1>4, <2>11
<1>6. OverCap(Left)' = {}
  <2>1. PICK L \in SUBSET Indexes : L = left
    BY <1>2, <1>4
  <2> DEFINE cap == options.totalSizeCap
  <2>2. ASSUME NEW i \in L, cap > 0
        PROVE  ~(MapThenSumSet(Size, from(L, i))' > cap)
    <3>1. PICK M \in SUBSET Indexes : M = from(L, i)
      BY <1>2, <1>4, <2>1
    <3>2. M \subseteq from(kept, i) /\ from(kept, i) \subseteq Indexes
      BY <1>2, <1>4, <2>1, <3>1
    <3>3. \A k \in M : Size(k)' = Size(k)
      BY <1>2, <1>3, <2>1, <3>1 DEF Size
    <3>4. MapThenSumSet(Size, M)' = MapThenSumSet(Size, M)
      BY <3>3, SumsStay
    <3>5. /\ MapThenSumSet(Size, M) <= MapThenSumSet(Size, from(kept, i))
          /\ MapThenSumSet(Size, M) \in Nat
          /\ MapThenSumSet(Size, from(kept, i)) \in Nat
      BY <3>2, LargerTogether
    <3>6. ~(MapThenSumSet(Size, from(kept, i)) > cap)
      <4>1. i \in kept /\ i \notin OverCap(kept)
        BY <2>1, <2>2
      <4> HIDE DEF kept
      <4> QED
        BY <2>2, <4>1, Zenon DEF OverCap
    <3>7. ~(MapThenSumSet(Size, M)' > cap)
      BY <1>2, <3>4, <3>5, <3>6
    <3> QED
      BY <3>1, <3>7
  <2>3. Left' = L /\ options'.totalSizeCap = cap
    BY <1>3, <2>1
  <2> HIDE DEF cap, left
  <2> QED
    BY <2>2, <2>3, Zenon DEF OverCap
<1> QED
    BY <1>3, <1>5, <1>6 DEF Within

-----------------------------------------------------------------------------
(* Nothing has failed yet.  Then every archive that is not compressed has  *)
(* one action that will compress it, and its compressed name is free.      *)
Unharmed == failures = 0 /\ crashes = 0

AtHand(i) == pc \in {"reopen", "enqueue", "compress", "copy", "remove"} /\ job.index = i
AtWork(i) == worker \in {"compress", "copy", "remove"} /\ work.index = i
Queued(i) == \E n \in DOMAIN queue : queue[n].index = i

OneActionEach ==
    /\ \A i \in Indexes : plain[i] # Absent => AtHand(i) \/ AtWork(i) \/ Queued(i)
    /\ \A i \in Indexes : Pending(i) => plain[i] # Absent /\ gz[i] = NoGz
    /\ \A i \in Indexes : /\ ~(AtHand(i) /\ AtWork(i))
                          /\ Queued(i) => ~AtHand(i) /\ ~AtWork(i)
    /\ \A m, n \in DOMAIN queue : queue[m].index = queue[n].index => m = n
    /\ pc = "rename" => gz[job.index] = NoGz

(* A step after which nothing has failed is none that fails.               *)
LEMMA UnharmedSteps ==
    ASSUME failures \in Nat, crashes \in Nat, [Next]_vars
    PROVE  /\ crashes' \in Nat
           /\ Unharmed' => Unharmed /\ ~Fail /\ ~Crash
<1>1. failures' \in Nat /\ failures' >= failures
    BY OptionsStay
<1>2. Fail => failures' = failures + 1 /\ crashes' = crashes
    BY DEF Fail
<1>3. Crash => crashes' = crashes + 1
    BY DEF Crash
<1>4. ~Fail /\ ~Crash => crashes' = crashes
  <2> SUFFICES ASSUME ~Fail, ~Crash PROVE crashes' = crashes
    OBVIOUS
  <2>1. ASSUME NEW who \in Actors, ActionRuns(who) PROVE crashes' = crashes
    <3>1. CASE CompressCreate(who) \/ CompressSkip(who) \/ CompressFails(who)
      BY <3>1 DEF CompressCreate, CompressSkip, CompressFails, bounds
    <3>2. CASE CopyWhole(who) \/ CopyFails(who) \/ RemovePlain(who) \/ RemoveFails(who)
      BY <3>2 DEF CopyWhole, CopyFails, RemovePlain, RemoveFails, bounds
    <3>3. CASE List(who) \/ Sweep(who) \/ SweepFails(who) \/ Swept(who)
      BY <3>3 DEF List, Sweep, SweepFails, Swept, bounds
    <3> QED
      BY <2>1, <3>1, <3>2, <3>3 DEF ActionRuns
  <2>2. CASE Construct \/ Open \/ OpenFails \/ Check \/ Write
    BY <2>2 DEF Construct, Open, OpenFails, Check, Write, bounds
  <2>3. CASE PickNext \/ PickMin \/ RotateMin \/ Create
    BY <2>3 DEF PickNext, PickMin, RotateMin, Create, bounds
  <2>6. ~PickFails /\ ~Sticks /\ ~RotateFails
    BY DEF PickFails, Sticks, RotateFails
  <2>4. CASE Rename \/ Reopen \/ RolloverFails \/ Enqueue \/ Closed
    BY <2>4 DEF Rename, Reopen, RolloverFails, Enqueue, Closed, bounds
  <2>5. CASE Begin \/ Close \/ TakeAction \/ Restart \/ UNCHANGED vars
    BY <2>5 DEF Begin, Close, TakeAction, Restart, vars, bounds
  <2> QED
    BY <2>1, <2>2, <2>3, <2>4, <2>5, <2>6 DEF Next, HolderRuns, WorkerRuns, Finished, Actors
<1> QED
    BY <1>1, <1>2, <1>3, <1>4 DEF Unharmed

(* The actions that are not compressing or removing move between holder,   *)
(* queue and worker.                                                       *)
LEMMA QueueMoves ==
    ASSUME Types
    PROVE  /\ \A j \in Jobs :
                 /\ DOMAIN Append(queue, j) = DOMAIN queue \cup {Len(queue) + 1}
                 /\ Len(queue) + 1 \notin DOMAIN queue
                 /\ Append(queue, j)[Len(queue) + 1] = j
                 /\ \A n \in DOMAIN queue : Append(queue, j)[n] = queue[n]
           /\ queue # <<>> =>
                 /\ 1 \in DOMAIN queue /\ Head(queue) = queue[1]
                 /\ \A n \in DOMAIN Tail(queue) : /\ n \in Nat /\ n + 1 \in DOMAIN queue
                                                  /\ n + 1 # 1
                                                  /\ Tail(queue)[n] = queue[n + 1]
                 /\ \A n \in DOMAIN queue : n = 1 \/ (n - 1 \in DOMAIN Tail(queue)
                                                      /\ Tail(queue)[n - 1] = queue[n])
<1>1. queue \in Seq(Jobs) /\ Len(queue) \in Nat /\ DOMAIN queue = 1..Len(queue)
    BY LenProperties DEF Types
<1>2. ASSUME NEW j \in Jobs
      PROVE  /\ DOMAIN Append(queue, j) = DOMAIN queue \cup {Len(queue) + 1}
             /\ Append(queue, j)[Len(queue) + 1] = j
             /\ \A n \in DOMAIN queue : Append(queue, j)[n] = queue[n]
  <2>1. /\ DOMAIN Append(queue, j) = 1..(Len(queue) + 1)
        /\ Append(queue, j)[Len(queue) + 1] = j
        /\ \A n \in 1..Len(queue) : Append(queue, j)[n] = queue[n]
    BY <1>1, AppendProperties
  <2>2. 1..(Len(queue) + 1) = 1..Len(queue) \cup {Len(queue) + 1}
    BY <1>1
  <2> QED
    BY <1>1, <2>1, <2>2
<1>3. Len(queue) + 1 \notin DOMAIN queue
    BY <1>1
<1>4. ASSUME queue # <<>>
      PROVE  /\ 1 \in DOMAIN queue /\ Head(queue) = queue[1]
             /\ \A n \in DOMAIN Tail(queue) : /\ n \in Nat /\ n + 1 \in DOMAIN queue
                                              /\ n + 1 # 1
                                              /\ Tail(queue)[n] = queue[n + 1]
             /\ \A n \in DOMAIN queue : n = 1 \/ (n - 1 \in DOMAIN Tail(queue)
                                                  /\ Tail(queue)[n - 1] = queue[n])
  <2>1. /\ Head(queue) = queue[1] /\ Tail(queue) \in Seq(Jobs)
        /\ Len(Tail(queue)) = Len(queue) - 1
        /\ \A n \in 1..Len(Tail(queue)) : Tail(queue)[n] = queue[n + 1]
    BY <1>1, <1>4, HeadTailProperties
  <2>2. Len(queue) > 0
    BY <1>1, <1>4, EmptySeq
  <2>3. DOMAIN Tail(queue) = 1..(Len(queue) - 1)
    BY <2>1, LenProperties
  <2>4. ASSUME NEW n \in DOMAIN Tail(queue)
        PROVE  n \in Nat /\ n + 1 \in DOMAIN queue /\ n + 1 # 1 /\ Tail(queue)[n] = queue[n + 1]
    BY <1>1, <2>1, <2>3, <2>4
  <2>5. ASSUME NEW n \in DOMAIN queue, n # 1
        PROVE  n - 1 \in DOMAIN Tail(queue) /\ Tail(queue)[n - 1] = queue[n]
    <3>1. n - 1 \in 1..(Len(queue) - 1) /\ (n - 1) + 1 = n
      BY <1>1, <2>5
    <3> QED
      BY <2>1, <2>3, <3>1
  <2> QED
    BY <1>1, <2>1, <2>2, <2>4, <2>5
<1> QED
    BY <1>2, <1>3, <1>4

(* A step that leaves the archives and the queue alone.                    *)
LEMMA HolderMoves ==
    ASSUME OneActionEach, UNCHANGED <<plain, gz, queue, worker, work>>,
           \A i \in Indexes : AtHand(i)' <=> AtHand(i),
           \A i \in Indexes : pc' \in {"reopen", "enqueue", "compress"} /\ job'.index = i =>
                              Pending(i),
           pc' = "rename" => gz[job'.index] = NoGz
    PROVE  OneActionEach'
<1>1. \A i \in Indexes : /\ AtHand(i)' <=> AtHand(i)
                         /\ AtWork(i)' <=> AtWork(i)
                         /\ Queued(i)' <=> Queued(i)
                         /\ Pending(i)' => Pending(i)
    BY DEF AtWork, Queued, Pending
<1>2. /\ \A i \in Indexes : plain'[i] # Absent => AtHand(i)' \/ AtWork(i)' \/ Queued(i)'
      /\ \A i \in Indexes : Pending(i)' => plain'[i] # Absent /\ gz'[i] = NoGz
      /\ \A i \in Indexes : /\ ~(AtHand(i)' /\ AtWork(i)')
                            /\ Queued(i)' => ~AtHand(i)' /\ ~AtWork(i)'
      /\ \A m, n \in DOMAIN queue' : queue'[m].index = queue'[n].index => m = n
      /\ pc' = "rename" => gz'[job'.index] = NoGz
    BY <1>1 DEF OneActionEach
<1> QED
    BY <1>2, Zenon DEF OneActionEach

(* A rollover brings one archive, and the holder its action.               *)
LEMMA RenameMoves ==
    ASSUME compress, Control, OneActionEach, Rename
    PROVE  OneActionEach'
<1>1. PICK n \in Indexes : n = job.index
    BY JobIndexes DEF Control
<1>2. /\ pc = "rename" /\ pc' = "reopen" /\ job' = job /\ gz' = gz
      /\ UNCHANGED <<queue, worker, work>>
      /\ plain'[n] = active /\ active # Absent
      /\ \A i \in Indexes : i # n => plain'[i] = plain[i]
    BY <1>1 DEF Rename, Control, Types, actions
<1>3. plain[n] = Absent /\ gz[n] = NoGz
    BY <1>1, <1>2 DEF Control, TargetFree, OneActionEach
<1>4. ~Pending(n) /\ ~Queued(n) /\ ~AtWork(n)
  <2>1. ~Pending(n)
    BY <1>3 DEF OneActionEach
  <2>2. worker \in {"copy", "remove"} => plain[work.index] # Absent
    BY DEF Control, HalfInv, HalfDone
  <2> QED
    BY <1>3, <2>1, <2>2 DEF Pending, Queued, AtWork
<1>5. \A i \in Indexes : /\ ~AtHand(i) /\ (AtHand(i)' <=> i = n)
                         /\ AtWork(i)' <=> AtWork(i)
                         /\ Queued(i)' <=> Queued(i)
                         /\ Pending(i)' <=> Pending(i) \/ i = n
    BY <1>1, <1>2 DEF AtHand, AtWork, Queued, Pending
<1>6. /\ \A i \in Indexes : plain'[i] # Absent => AtHand(i)' \/ AtWork(i)' \/ Queued(i)'
      /\ \A i \in Indexes : Pending(i)' => plain'[i] # Absent /\ gz'[i] = NoGz
      /\ \A i \in Indexes : /\ ~(AtHand(i)' /\ AtWork(i)')
                            /\ Queued(i)' => ~AtHand(i)' /\ ~AtWork(i)'
      /\ \A l, m \in DOMAIN queue' : queue'[l].index = queue'[m].index => l = m
      /\ pc' # "rename"
    BY <1>2, <1>3, <1>4, <1>5 DEF OneActionEach
<1> QED
    BY <1>6, Zenon DEF OneActionEach

(* The action passes from the holder to the end of the queue.              *)
LEMMA EnqueueMoves ==
    ASSUME Control, OneActionEach, Enqueue
    PROVE  OneActionEach'
<1>1. PICK n \in Indexes : n = job.index
    BY JobIndexes DEF Control
<1>2. /\ pc = "enqueue" /\ pc' \in {"idle", "check", "write"} /\ job' = job
      /\ UNCHANGED <<plain, gz, worker, work>> /\ queue' = Append(queue, job)
    BY DEF Enqueue, Control, Types, disk
<1>3. /\ DOMAIN queue' = DOMAIN queue \cup {Len(queue) + 1}
      /\ Len(queue) + 1 \notin DOMAIN queue
      /\ queue'[Len(queue) + 1] = job
      /\ \A m \in DOMAIN queue : queue'[m] = queue[m]
    BY <1>2, QueueMoves DEF Control, Types
<1>4. \A i \in Indexes : /\ (AtHand(i) <=> i = n) /\ ~AtHand(i)'
                         /\ AtWork(i)' <=> AtWork(i)
                         /\ Queued(i)' <=> Queued(i) \/ i = n
    BY <1>1, <1>2, <1>3 DEF AtHand, AtWork, Queued
<1>5. \A i \in Indexes : Pending(i)' => Pending(i)
    BY <1>1, <1>2, <1>3 DEF Pending
<1>6. \A l, m \in DOMAIN queue' : queue'[l].index = queue'[m].index => l = m
  <2>1. ~Queued(n)
    BY <1>4 DEF OneActionEach
  <2>2. \A m \in DOMAIN queue : queue[m].index # n
    BY <2>1 DEF Queued
  <2> QED
    BY <1>1, <1>3, <2>2 DEF OneActionEach
<1>7. /\ \A i \in Indexes : plain'[i] # Absent => AtHand(i)' \/ AtWork(i)' \/ Queued(i)'
      /\ \A i \in Indexes : Pending(i)' => plain'[i] # Absent /\ gz'[i] = NoGz
      /\ \A i \in Indexes : /\ ~(AtHand(i)' /\ AtWork(i)')
                            /\ Queued(i)' => ~AtHand(i)' /\ ~AtWork(i)'
      /\ pc' # "rename"
    BY <1>2, <1>4, <1>5 DEF OneActionEach
<1> QED
    BY <1>6, <1>7, Zenon DEF OneActionEach

(* The worker takes the first action of the queue.                         *)
LEMMA TakeMoves ==
    ASSUME Control, OneActionEach, TakeAction
    PROVE  OneActionEach'
<1>1. /\ worker = "idle" /\ worker' = "compress" /\ queue # <<>>
      /\ queue' = Tail(queue) /\ work' = queue[1] /\ 1 \in DOMAIN queue
      /\ UNCHANGED <<plain, gz, pc, job>>
    BY QueueMoves DEF TakeAction, Control, disk, holder
<1>2. /\ \A n \in DOMAIN queue' : /\ n \in Nat /\ n + 1 \in DOMAIN queue /\ n + 1 # 1
                                  /\ queue'[n] = queue[n + 1]
      /\ \A n \in DOMAIN queue : n = 1 \/ (n - 1 \in DOMAIN queue' /\ queue'[n - 1] = queue[n])
    BY <1>1, QueueMoves DEF Control
<1>3. PICK k : k = queue[1].index
    OBVIOUS
<1>4. \A i \in Indexes : /\ AtHand(i)' <=> AtHand(i)
                         /\ ~AtWork(i) /\ (AtWork(i)' <=> i = k)
    BY <1>1, <1>3 DEF AtHand, AtWork
<1>5. \A i \in Indexes : Queued(i)' <=> Queued(i) /\ i # k
  <2>1. ASSUME NEW i \in Indexes, Queued(i)' PROVE Queued(i) /\ i # k
    <3>1. PICK n \in DOMAIN queue' : queue'[n].index = i
      BY <2>1 DEF Queued
    <3>2. n + 1 \in DOMAIN queue /\ n + 1 # 1 /\ queue[n + 1].index = i
      BY <1>2, <3>1
    <3> QED
      BY <1>1, <1>3, <3>2 DEF Queued, OneActionEach
  <2>2. ASSUME NEW i \in Indexes, Queued(i), i # k PROVE Queued(i)'
    <3>1. PICK n \in DOMAIN queue : queue[n].index = i
      BY <2>2 DEF Queued
    <3>2. n - 1 \in DOMAIN queue' /\ queue'[n - 1].index = i
      BY <1>2, <1>3, <2>2, <3>1
    <3> QED
      BY <3>2 DEF Queued
  <2> QED
    BY <2>1, <2>2
<1>6. \A i \in Indexes : Queued(k) /\ (Pending(i)' => Pending(i))
  <2>1. \E n \in DOMAIN queue : queue[n].index = k
    BY <1>1, <1>3
  <2>2. ASSUME NEW i \in Indexes, Pending(i)' PROVE Pending(i)
    BY <1>1, <1>3, <1>5, <2>1, <2>2 DEF Pending, Queued
  <2> QED
    BY <2>1, <2>2 DEF Queued
<1>7. \A m, n \in DOMAIN queue' : queue'[m].index = queue'[n].index => m = n
  <2>1. ASSUME NEW m \in DOMAIN queue', NEW n \in DOMAIN queue',
               queue'[m].index = queue'[n].index
        PROVE  m = n
    <3>1. /\ m + 1 \in DOMAIN queue /\ n + 1 \in DOMAIN queue /\ m \in Nat /\ n \in Nat
          /\ queue[m + 1].index = queue[n + 1].index
      BY <1>2, <2>1
    <3>2. m + 1 = n + 1
      BY <3>1 DEF OneActionEach
    <3> QED
      BY <3>1, <3>2
  <2> QED
    BY <2>1
<1>8. /\ \A i \in Indexes : plain'[i] # Absent => AtHand(i)' \/ AtWork(i)' \/ Queued(i)'
      /\ \A i \in Indexes : Pending(i)' => plain'[i] # Absent /\ gz'[i] = NoGz
      /\ \A i \in Indexes : /\ ~(AtHand(i)' /\ AtWork(i)')
                            /\ Queued(i)' => ~AtHand(i)' /\ ~AtWork(i)'
      /\ pc' = "rename" => gz'[job'.index] = NoGz
    BY <1>1, <1>4, <1>5, <1>6 DEF OneActionEach
<1> QED
    BY <1>7, <1>8, Zenon DEF OneActionEach

(* Compression by whoever has the action: it goes on, until its archive is *)
(* compressed.                                                             *)
LEMMA CompressionMoves ==
    ASSUME NotMinGzip, Control, OneActionEach, NEW who \in Actors,
           CompressCreate(who) \/ CopyWhole(who) \/ RemovePlain(who)
    PROVE  OneActionEach'
<1>1. PICK n \in Indexes : n = Doing(who).index
    BY ActorTypes DEF Control, Jobs
<1>2. /\ Compression(who) /\ queue' = queue
      /\ \A i \in Indexes : i # n => gz'[i] = gz[i] /\ plain'[i] = plain[i]
      /\ plain[n] # Absent
  <2>1. Compression(who) /\ queue' = queue
    BY DEF Compression, CompressCreate, CopyWhole, RemovePlain
  <2> QED
    BY <1>1, <2>1, CompressionFacts
<1>3. /\ who = "holder" => /\ AtHand(n) /\ UNCHANGED <<worker, work>>
                           /\ pc' \in {"copy", "remove", "expire"} /\ job'.index = job.index
      /\ who = "worker" => /\ AtWork(n) /\ UNCHANGED <<pc, job>>
                           /\ worker' \in {"copy", "remove", "expire"} /\ work'.index = work.index
  <2>1. job \in Jobs /\ work \in Jobs
    BY DEF Control, Types
  <2>2. CASE CompressCreate(who)
    BY <1>1, <2>1, <2>2 DEF CompressCreate, To, At, Doing, Actors, AtHand, AtWork, Jobs
  <2>3. CASE CopyWhole(who)
    BY <1>1, <2>1, <2>3 DEF CopyWhole, To, At, Doing, Actors, AtHand, AtWork, Jobs
  <2>4. CASE RemovePlain(who)
    BY <1>1, <2>1, <2>4 DEF RemovePlain, To, At, Doing, Actors, AtHand, AtWork, Jobs
  <2> QED
    BY <2>2, <2>3, <2>4
<1>4. (\/ who = "holder" /\ pc' \in {"copy", "remove"}
       \/ who = "worker" /\ worker' \in {"copy", "remove"})
      \/ plain'[n] = Absent
  <2>1. CASE CompressCreate(who)
    BY <2>1 DEF CompressCreate, To, Actors
  <2>2. CASE CopyWhole(who)
    BY <2>2 DEF CopyWhole, To, Actors
  <2>3. CASE RemovePlain(who)
    BY <1>1, <2>3 DEF RemovePlain, Control, Types
  <2> QED
    BY <2>1, <2>2, <2>3
<1>5. job.index \in Indexes /\ work.index \in Indexes
    BY JobIndexes DEF Control
<1>6. \A i \in Indexes : Queued(i)' <=> Queued(i)
    BY <1>2 DEF Queued
<1>7. \A i \in Indexes : i # n => /\ AtHand(i)' <=> AtHand(i)
                                  /\ AtWork(i)' <=> AtWork(i)
    BY <1>3 DEF AtHand, AtWork, Actors
<1>8. AtHand(n) \/ AtWork(n)
    BY <1>3 DEF Actors
<1>9. ~Queued(n) /\ ~(AtHand(n) /\ AtWork(n))
    BY <1>8 DEF OneActionEach
<1>10. \A i \in Indexes : Pending(i)' => Pending(i) /\ i # n
  <2>1. ASSUME NEW i \in Indexes, Pending(i)' PROVE Pending(i)
    BY <1>2, <1>3, <2>1 DEF Pending, Actors
  <2>2. ~Pending(n)'
    <3>1. CASE who = "holder"
      <4>1. ~AtWork(n)
        BY <1>3, <1>9, <3>1
      <4> QED
        BY <1>2, <1>3, <1>9, <3>1, <4>1 DEF Pending, Queued, AtWork
    <3>2. CASE who = "worker"
      <4>1. ~AtHand(n)
        BY <1>3, <1>9, <3>2
      <4> QED
        BY <1>2, <1>3, <1>9, <3>2, <4>1 DEF Pending, Queued, AtHand
    <3> QED
      BY <3>1, <3>2 DEF Actors
  <2>3. \A i \in Indexes : Pending(i)' => i # n
    BY <2>2
  <2> QED
    BY <2>1, <2>3
<1>11. /\ AtHand(n)' => AtHand(n)
       /\ AtWork(n)' => AtWork(n)
       /\ plain'[n] # Absent => AtHand(n)' \/ AtWork(n)'
    BY <1>1, <1>3, <1>4 DEF AtHand, AtWork, Actors, Doing
<1>12. ASSUME pc' = "rename" PROVE gz'[job'.index] = NoGz
  <2>1. who = "worker" /\ pc = "rename" /\ job' = job
    BY <1>3, <1>12 DEF Actors
  <2>2. plain[job.index] = Absent /\ gz[job.index] = NoGz
    BY <2>1 DEF Control, TargetFree, OneActionEach
  <2> QED
    BY <1>2, <1>5, <2>1, <2>2
<1>13. \A i \in Indexes : plain'[i] # Absent => AtHand(i)' \/ AtWork(i)' \/ Queued(i)'
  <2>1. ASSUME NEW i \in Indexes, i # n, plain'[i] # Absent
        PROVE  AtHand(i)' \/ AtWork(i)' \/ Queued(i)'
    BY <1>2, <1>6, <1>7, <2>1 DEF OneActionEach
  <2>2. \A i \in Indexes : i = n /\ plain'[i] # Absent => AtHand(i)' \/ AtWork(i)'
    BY <1>11
  <2> QED
    BY <2>1, <2>2
<1>14. \A i \in Indexes : Pending(i)' => plain'[i] # Absent /\ gz'[i] = NoGz
    BY <1>2, <1>10 DEF OneActionEach
<1>15. \A i \in Indexes : /\ ~(AtHand(i)' /\ AtWork(i)')
                          /\ Queued(i)' => ~AtHand(i)' /\ ~AtWork(i)'
  <2>1. \A i \in Indexes : (AtHand(i)' => AtHand(i)) /\ (AtWork(i)' => AtWork(i))
    BY <1>7, <1>11
  <2> QED
    BY <1>6, <2>1 DEF OneActionEach
<1> QED
    BY <1>2, <1>12, <1>13, <1>14, <1>15, Zenon DEF OneActionEach

(* Retention takes no archive that has an action.                          *)
LEMMA RetentionMoves ==
    ASSUME NotMinGzip, compress, Control, OneActionEach, NEW who \in Actors, Sweeps(who)
    PROVE  OneActionEach'
<1>1. /\ plain' = plain /\ \A i \in Indexes : gz'[i] \in {gz[i], NoGz}
      /\ queue' = queue
  <2>1. CASE Sweep(who)
    BY <2>1, RetentionFacts, SweepsFacts DEF Retention
  <2>2. CASE List(who) \/ SweepFails(who) \/ Swept(who)
    BY <2>2 DEF List, SweepFails, Swept, disk
  <2> QED
    BY <2>1, <2>2 DEF Sweeps
<1>2. /\ \A i \in Indexes : (AtHand(i)' <=> AtHand(i)) /\ (AtWork(i)' <=> AtWork(i))
      /\ \A i \in Indexes : Pending(i)' => Pending(i)
      /\ pc' = "rename" => pc = "rename" /\ job' = job
  <2>0. resume \in {"idle", "check", "write"}
    BY DEF Control, Types
  <2>1. CASE who = "holder"
    <3>1. /\ UNCHANGED <<worker, work>> /\ pc \in Expiring \cup Cleaning
          /\ pc' \in {"sweep", "sweep-error", "clean", "clean-error", "open", "idle", "check",
                     "write", "closing"}
      BY <2>0, <2>1, SweepsFacts DEF Cleaning
    <3> QED
      BY <1>1, <3>1 DEF AtHand, AtWork, Pending, Expiring, Cleaning
  <2>2. CASE who = "worker"
    <3>1. /\ UNCHANGED <<pc, job>> /\ worker \in Expiring
          /\ worker' \in {"sweep", "sweep-error", "idle"}
      BY <2>2, SweepsFacts
    <3> QED
      BY <1>1, <3>1 DEF AtHand, AtWork, Pending, Expiring
  <2> QED
    BY <2>1, <2>2 DEF Actors
<1>3. \A i \in Indexes : Queued(i)' <=> Queued(i)
    BY <1>1 DEF Queued
<1>4. pc' = "rename" => gz'[job'.index] = NoGz
  <2>1. job.index \in Indexes
    BY JobIndexes DEF Control
  <2> QED
    BY <1>1, <1>2, <2>1 DEF OneActionEach
<1>5. /\ \A i \in Indexes : plain'[i] # Absent => AtHand(i)' \/ AtWork(i)' \/ Queued(i)'
      /\ \A i \in Indexes : Pending(i)' => plain'[i] # Absent /\ gz'[i] = NoGz
      /\ \A i \in Indexes : /\ ~(AtHand(i)' /\ AtWork(i)')
                            /\ Queued(i)' => ~AtHand(i)' /\ ~AtWork(i)'
      /\ \A m, n \in DOMAIN queue' : queue'[m].index = queue'[n].index => m = n
    BY <1>1, <1>2, <1>3 DEF OneActionEach
<1> QED
    BY <1>4, <1>5, Zenon DEF OneActionEach

(* Every action of one archive keeps to its own, and none fails.           *)
LEMMA OneActionEachStep ==
    ASSUME NotMinGzip, compress, Control, HolderIsAt, OneActionEach, ~Fail, ~Crash, [Next]_vars
    PROVE  OneActionEach'
<1>0. /\ ~directWrite /\ mode # "min" /\ resume \in {"idle", "check", "write"}
      /\ job.index \in Indexes /\ work.index \in Indexes
    BY JobFacts, JobIndexes DEF NotMinGzip, Control, Types, compress, directWrite
<1>1. ASSUME NEW who \in Actors, ActionRuns(who) PROVE OneActionEach'
  <2>1. CASE Sweeps(who)
    BY <2>1, RetentionMoves
  <2>2. CASE CompressCreate(who) \/ CopyWhole(who) \/ RemovePlain(who)
    BY <2>2, CompressionMoves
  <2>3. ~CompressSkip(who) /\ ~CopyFails(who)
    BY DEF CompressSkip, CopyFails
  <2>4. ~CompressFails(who)
    <3>1. At(who) = "compress" => Pending(Doing(who).index) /\ Doing(who).index \in Indexes
      BY <1>0 DEF At, Doing, Pending, Actors
    <3> QED
      BY <3>1 DEF CompressFails, OneActionEach
  <2>5. ~RemoveFails(who)
    <3>1. At(who) = "remove" => plain[Doing(who).index] # Absent
      BY DEF Control, HalfInv, HalfDone, At, Doing, Actors
    <3> QED
      BY <3>1 DEF RemoveFails
  <2> QED
    BY <1>1, <2>1, <2>2, <2>3, <2>4, <2>5 DEF ActionRuns, Sweeps
<1>2. CASE Construct
    BY <1>2, HolderMoves DEF Construct, Constructs, disk, AtHand
<1>3. CASE Begin \/ Open \/ Check \/ Write \/ Close \/ Closed \/ Restart
  <2>1. /\ UNCHANGED <<plain, gz, job, queue, worker, work>>
        /\ pc \in {"idle", "stuck", "open", "check", "write", "closing", "closed", "down"}
        /\ pc' \in {"idle", "open", "check", "write", "pick", "start", "closing", "closed"}
    BY <1>0, <1>3 DEF Begin, Open, Check, Write, Close, Closed, Restart, actions, disk
  <2> QED
    BY <2>1, HolderMoves DEF AtHand
<1>4. CASE PickNext
  <2>1. PICK n \in Indexes : /\ ~Exists(n) /\ job' = [index |-> n, events |-> active, gzAt |-> -1]
    BY <1>4 DEF PickNext
  <2>2. /\ UNCHANGED <<plain, gz, queue, worker, work>> /\ pc = "pick" /\ pc' = "rename"
        /\ gz[n] = NoGz /\ job'.index = n
    BY <1>0, <1>4, <2>1 DEF PickNext, AfterPick, Exists, actions, disk
  <2> QED
    BY <2>2, HolderMoves DEF AtHand
<1>5. CASE Reopen
  <2>1. /\ UNCHANGED <<plain, gz, job, queue, worker, work>> /\ pc = "reopen"
        /\ pc' \in {"enqueue", "compress"}
    BY <1>5 DEF Reopen, actions, disk
  <2> QED
    BY <2>1, HolderMoves DEF AtHand, Pending
<1>6. CASE Rename
    BY <1>6, RenameMoves
<1>7. CASE Enqueue
    BY <1>7, EnqueueMoves
<1>8. CASE TakeAction
    BY <1>8, TakeMoves
<1>9. CASE UNCHANGED vars
    BY <1>9, HolderMoves DEF vars, disk, holder, actions, AtHand, Pending, OneActionEach
<1>10. ~PickMin /\ ~RotateMin /\ ~Create /\ ~OpenFails /\ ~RolloverFails
    BY <1>0 DEF PickMin, RotateMin, Rotated, Create, OpenFails, RolloverFails, HolderIsAt
<1>11. ~PickFails /\ ~Sticks /\ ~RotateFails
    BY DEF PickFails, Sticks, RotateFails
<1> QED
    BY <1>1, <1>2, <1>3, <1>4, <1>5, <1>6, <1>7, <1>8, <1>9, <1>10, <1>11
       DEF Next, HolderRuns, WorkerRuns, Finished, Actors

-----------------------------------------------------------------------------
(* No rollover is under way: retention has listed the archives after every *)
(* one that was.                                                           *)
AtRest == /\ pc \notin {"rename", "create", "reopen", "enqueue", "compress", "copy", "remove",
                        "expire", "expire-error"}
          /\ queue = <<>> /\ worker \in {"idle", "sweep", "sweep-error"}

(* Archives that do not change stay within the limits.                     *)
LEMMA WithinStays ==
    ASSUME Types, Types', options' = options, Left' = Left, Within,
           \A i \in Left : plain'[i] = plain[i] /\ gz'[i] = gz[i]
    PROVE  Within'
<1>1. PICK A \in SUBSET Indexes : A = Left
    BY DEF Left, Archives
<1>2. ASSUME NEW S \in SUBSET A PROVE MapThenSumSet(Size, S)' = MapThenSumSet(Size, S)
  <2>1. \A i \in S : Size(i)' = Size(i)
    BY <1>1 DEF Size, compress
  <2>2. S \in SUBSET Indexes
    BY <1>1
  <2> QED
    BY <2>1, <2>2, SumsStay
<1>3. ASSUME NEW i \in A, options.totalSizeCap > 0
      PROVE  ~(MapThenSumSet(Size, {k \in A : k = i \/ NameBefore(i, k)})' > options.totalSizeCap)
  <2>1. PICK S \in SUBSET A : S = {k \in A : k = i \/ NameBefore(i, k)}
    OBVIOUS
  <2>2. ~(MapThenSumSet(Size, {k \in A : k = i \/ NameBefore(i, k)}) > options.totalSizeCap)
    BY <1>1, <1>3, Zenon DEF Within, OverCap
  <2>3. ~(MapThenSumSet(Size, S) > options.totalSizeCap)
    BY <2>1, <2>2
  <2>4. ~(MapThenSumSet(Size, S)' > options.totalSizeCap)
    BY <1>2, <2>3
  <2> QED
    BY <2>1, <2>4
<1>4. Left' = A
    BY <1>1
<1>5. OverCap(Left)' = {}
    BY <1>3, <1>4, Zenon DEF OverCap
<1> QED
    BY <1>5 DEF Within

(* A step that leaves the files and what is to be removed alone.           *)
LEMMA WithinRests ==
    ASSUME Types, Types', options' = options, UNCHANGED <<plain, gz, doomed>>, Within
    PROVE  Within'
<1>1. Left' = Left
    BY DEF Left, Archives, compress
<1> QED
    BY <1>1, WithinStays

(* A step that ends at rest lists the archives, or removes what was listed, *)
(* or starts there.                                                        *)
LEMMA RestStep ==
    ASSUME Control, Control', HolderIsAt, ~directWrite, ~Fail, ~Crash, AtRest => Within,
           [Next]_vars, AtRest'
    PROVE  Within'
<1>0. /\ Types /\ Types' /\ options' = options /\ compress' = compress
      /\ resume \in {"idle", "check", "write"}
    BY OptionsStay DEF Control, Types, compress
<1>1. ASSUME NEW who \in Actors, List(who) PROVE Within'
    BY <1>0, <1>1, RetentionLimits DEF List, disk
<1>2. ASSUME NEW who \in Actors, Sweep(who) PROVE Within'
  <2>1. AtRest
    BY <1>2 DEF Sweep, AtRest, holder
  <2>2. PICK k \in Indexes : RemoveArchive(k) /\ doomed' = doomed \ {k} /\ k \in doomed
    BY <1>2 DEF Sweep, FirstOfThem
  <2>3. Archives' = Archives \ {k}
    BY <1>0, <2>2 DEF RemoveArchive, Archives, Types
  <2>4. Left' = Left
    BY <2>2, <2>3 DEF Left
  <2>5. \A i \in Left : i \in Indexes /\ i # k
    BY <2>2 DEF Left, Archives
  <2>6. \A i \in Left : plain'[i] = plain[i] /\ gz'[i] = gz[i]
    BY <1>0, <2>2, <2>5 DEF RemoveArchive, Types
  <2> QED
    BY <1>0, <2>1, <2>4, <2>6, WithinStays
<1>3. ASSUME NEW who \in Actors, SweepFails(who) PROVE Within'
  <2>1. PICK k \in Indexes : k \notin Archives /\ doomed' = doomed \ {k}
    BY <1>3 DEF SweepFails
  <2>2. UNCHANGED <<plain, gz, queue>> /\ At(who) \in Sweeping
    BY <1>3 DEF SweepFails, disk
  <2>3. Left' = Left
    BY <1>0, <2>1, <2>2 DEF Left, Archives
  <2>4. AtRest
    BY <1>3, <2>2 DEF SweepFails, To, At, Actors, AtRest, Sweeping
  <2> QED
    BY <1>0, <2>2, <2>3, <2>4, WithinStays
<1>4. ASSUME NEW who \in Actors, Swept(who) PROVE Within'
  <2>1. UNCHANGED <<plain, gz, doomed>>
    BY <1>4, SweptFacts
  <2>2. AtRest
    BY <1>4, SweptFacts DEF AtRest, Sweeping
  <2> QED
    BY <1>0, <2>1, <2>2, WithinRests
<1>5. ASSUME NEW who \in Actors, ActionRuns(who) PROVE Within'
  <2>2. ~CompressCreate(who) /\ ~CompressSkip(who) /\ ~CompressFails(who)
    BY DEF CompressCreate, CompressSkip, CompressFails, To, AtRest, Actors
  <2>3. ~CopyWhole(who) /\ ~CopyFails(who) /\ ~RemovePlain(who) /\ ~RemoveFails(who)
    BY DEF CopyWhole, CopyFails, RemovePlain, RemoveFails, To, AtRest, Actors
  <2> QED
    BY <1>1, <1>2, <1>3, <1>4, <1>5, <2>2, <2>3 DEF ActionRuns
<1>6. CASE Construct
  <2>1. UNCHANGED <<plain, gz, queue, worker>> /\ pc = "start"
    BY <1>6 DEF Construct, disk
  <2>2. AtRest
    BY <2>1 DEF AtRest
  <2>3. CASE options.cleanOnStart
    BY <1>0, <1>6, <2>1, <2>3, RetentionLimits DEF Construct
  <2>4. CASE ~options.cleanOnStart
    BY <1>0, <1>6, <2>1, <2>2, <2>4, WithinRests DEF Construct, sweep
  <2> QED
    BY <2>3, <2>4
<1>7. CASE Begin \/ Open \/ Check \/ Write \/ Close \/ Closed \/ Restart
  <2>1. UNCHANGED <<plain, gz, doomed>> /\ AtRest
    BY <1>7 DEF Begin, Open, Check, Write, Close, Closed, Restart, AtRest, actions, disk
  <2> QED
    BY <1>0, <2>1, WithinRests
<1>8. ~PickNext /\ ~PickMin /\ ~RotateMin
    BY DEF PickNext, PickMin, RotateMin, AfterPick, AtRest
<1>9. ~Create /\ ~Rename /\ ~Reopen
    BY DEF Create, HolderIsAt, Rename, Reopen, AtRest
<1>10. ~Enqueue /\ ~TakeAction
  <2>1. \A j \in Jobs : Append(queue, j) # <<>>
    <3>1. \A j \in Jobs : DOMAIN Append(queue, j) # {}
      BY <1>0, QueueMoves
    <3>2. DOMAIN <<>> = {}
      OBVIOUS
    <3> QED
      BY <3>1, <3>2
  <2>2. queue' = <<>> /\ worker' # "compress" /\ job \in Jobs
    BY <1>0 DEF AtRest, Types
  <2> QED
    BY <2>1, <2>2 DEF Enqueue, TakeAction
<1>11. ~OpenFails /\ ~RolloverFails /\ ~PickFails /\ ~Sticks /\ ~RotateFails
    BY DEF OpenFails, RolloverFails, PickFails, Sticks, RotateFails
<1>12. CASE UNCHANGED vars
  <2>1. UNCHANGED <<plain, gz, doomed>> /\ AtRest
    BY <1>12 DEF vars, disk, holder, actions, AtRest
  <2> QED
    BY <1>0, <2>1, WithinRests
<1> QED
    BY <1>5, <1>6, <1>7, <1>8, <1>9, <1>10, <1>11, <1>12
       DEF Next, HolderRuns, WorkerRuns, Finished, Actors

(* The archives an earlier process left are within the limits in force.    *)
OldWithin == /\ Cardinality(OldArchives) <= MaxBackups
             /\ \A o \in Setups : o.totalSizeCap > 0 =>
                                      Cardinality(OldArchives) <= o.totalSizeCap

(* Archives of one event each are as large as they are many.               *)
LEMMA UnitSizes ==
    ASSUME Types, NEW S \in SUBSET Indexes, \A i \in S : Size(i) = 1
    PROVE  MapThenSumSet(Size, S) = Cardinality(S)
<1>1. Units(SizeOf, S) = S \X {0}
  <2>1. ASSUME NEW u \in S \X Nat PROVE u[2] < SizeOf[u[1]] <=> u[2] = 0
    <3>1. u[1] \in S /\ u[2] \in Nat /\ SizeOf[u[1]] = 1
      BY DEF SizeOf
    <3> QED
      BY <3>1
  <2> QED
    BY <2>1 DEF Units
<1>2. IsFiniteSet(S) /\ IsFiniteSet({0}) /\ Cardinality({0}) = 1 /\ Cardinality(S) \in Nat
  <2>1. IsFiniteSet({0}) /\ Cardinality({0}) = 1
    BY FS_Singleton, Zenon
  <2>2. IsFiniteSet(S)
    BY SizesAre, FS_Subset
  <2> QED
    BY <2>1, <2>2, FS_CardinalityType
<1>3. Cardinality(S \X {0}) = Cardinality(S) * Cardinality({0})
  <2>1. \A U, V : IsFiniteSet(U) /\ IsFiniteSet(V) =>
                      Cardinality(U \X V) = Cardinality(U) * Cardinality(V)
    BY FS_Product, Zenon
  <2> QED
    BY <1>2, <2>1, Zenon
<1>4. Cardinality(S) * Cardinality({0}) = Cardinality(S)
    BY <1>2
<1>5. MapThenSumSet(Size, S) = Cardinality(Units(SizeOf, S))
    BY SizesTogether
<1> QED
    BY <1>1, <1>3, <1>4, <1>5

(* So an earlier process left them, each of one event.                     *)
LEMMA InitWithin == ASSUME OldWithin, Init PROVE Within
<1>1. Types /\ OldArchives \subseteq Indexes
    BY InitControl, RollingAssumption DEF RollingInvariant
<1>2. \A i \in Indexes : <<Old(i)>> # Absent /\ Len(<<Old(i)>>) = 1
  <2>1. ASSUME NEW i \in Indexes PROVE <<Old(i)>> # Absent
    BY RollingAssumption DEF Absent, Old, Indexes
  <2> QED
    BY <2>1
<1>3. Archives = OldArchives /\ \A i \in OldArchives : Size(i) = 1
  <2>1. CASE compress
    <3>1. \A i \in Indexes : gz[i] = IF i \in OldArchives
                                     THEN [events |-> <<Old(i)>>, whole |-> TRUE] ELSE NoGz
      BY <2>1 DEF Init
    <3>2. \A i \in Indexes : gz[i] # NoGz <=> i \in OldArchives
      <4>1. ASSUME NEW i \in Indexes, i \in OldArchives PROVE gz[i] # NoGz
        <5>1. gz[i] = [events |-> <<Old(i)>>, whole |-> TRUE]
          BY <3>1, <4>1
        <5>2. gz[i].events = <<Old(i)>> /\ NoGz.events = Absent
          BY <5>1 DEF NoGz
        <5> QED
          BY <1>2, <5>2
      <4> QED
        BY <3>1, <4>1
    <3>3. ASSUME NEW i \in OldArchives PROVE Len(gz[i].events) = 1
      <4>1. i \in Indexes
        BY <1>1
      <4>2. gz[i] = [events |-> <<Old(i)>>, whole |-> TRUE]
        BY <3>1, <4>1
      <4>3. gz[i].events = <<Old(i)>>
        BY <4>2
      <4> QED
        BY <1>2, <4>1, <4>3
    <3>4. Archives = {i \in Indexes : gz[i] # NoGz} /\ \A i : Size(i) = Len(gz[i].events)
      BY <2>1 DEF Archives, Size
    <3> QED
      BY <1>1, <3>2, <3>3, <3>4
  <2>2. CASE ~compress
    <3>1. \A i \in Indexes : plain[i] = IF i \in OldArchives THEN <<Old(i)>> ELSE Absent
      BY <2>2 DEF Init
    <3> QED
      BY <1>1, <1>2, <2>2, <3>1 DEF Archives, Size
  <2> QED
    BY <2>1, <2>2
<1>4. OverCap(OldArchives) = {}
  <2>1. ASSUME NEW i \in OldArchives, options.totalSizeCap > 0
        PROVE  ~(MapThenSumSet(Size, {k \in OldArchives : k = i \/ NameBefore(i, k)})
                    > options.totalSizeCap)
    <3>1. PICK S \in SUBSET OldArchives : S = {k \in OldArchives : k = i \/ NameBefore(i, k)}
      OBVIOUS
    <3>2. MapThenSumSet(Size, S) = Cardinality(S)
      BY <1>1, <1>3, UnitSizes
    <3>3. IsFiniteSet(OldArchives)
      BY <1>1, SizesAre, FS_Subset
    <3>4. /\ Cardinality(S) <= Cardinality(OldArchives)
          /\ Cardinality(S) \in Nat /\ Cardinality(OldArchives) \in Nat
      BY <3>3, FS_Subset, FS_CardinalityType
    <3>5. options \in Setups /\ options.totalSizeCap \in Nat
      BY <1>1, RollingAssumption DEF Types
    <3>6. Cardinality(OldArchives) <= options.totalSizeCap
      BY <2>1, <3>5 DEF OldWithin
    <3>7. ~(Cardinality(S) > options.totalSizeCap)
      BY <3>4, <3>5, <3>6
    <3> QED
      BY <3>1, <3>2, <3>7
  <2> QED
    BY <2>1, Zenon DEF OverCap
<1>5. Left = OldArchives
    BY <1>3 DEF Init, Left
<1> QED
    BY <1>4, <1>5 DEF Within, OldWithin

(* It left none uncompressed.                                              *)
LEMMA InitOneActionEach == ASSUME Init, compress PROVE OneActionEach
<1>1. /\ \A i \in Indexes : plain[i] = Absent
      /\ queue = <<>> /\ worker = "idle" /\ pc = "start"
    BY DEF Init
<1>2. DOMAIN queue = {}
    BY <1>1
<1> QED
    BY <1>1, <1>2 DEF OneActionEach, AtHand, AtWork, Queued, Pending

(* After a Close, if nothing failed and the archives were within the       *)
(* limits before, no more than maxBackups are left, within totalSizeCap,   *)
(* and all are compressed: for any limits, file sizes and queue, padded    *)
(* names or not, by the holder or by the worker, over any number of        *)
(* reopenings.                                                             *)
THEOREM CloseFinishesActions ==
    ASSUME NoMinGzip, OldWithin PROVE Spec => []ActionsDoneAtClose
<1> DEFINE Done == Unharmed /\ ~directWrite => /\ AtRest => Within
                                               /\ compress => OneActionEach
           IInv == HolderIsAt /\ crashes \in Nat /\ Done
           RInv == NotMinGzip => RollingInvariant
<1>1. Init => IInv
  <2> SUFFICES ASSUME Init PROVE IInv
    OBVIOUS
  <2>1. crashes \in Nat
    BY DEF Init
  <2> QED
    BY <2>1, InitOrder, InitWithin, InitOneActionEach
<1>2. Init => NotMinGzip
    BY DEF Init, NoMinGzip, NotMinGzip, mode, compress
<1>3. NotMinGzip /\ [Next]_vars => NotMinGzip'
    BY OptionsStay DEF NotMinGzip, mode, compress
<1>4. NotMinGzip /\ IInv /\ RInv /\ [Next]_vars => IInv'
  <2> SUFFICES ASSUME NotMinGzip, IInv, RInv, [Next]_vars PROVE IInv'
    OBVIOUS
  <2>1. Control /\ Control' /\ HolderIsAt'
    BY ControlStep, HolderStep DEF Control, RollingInvariant
  <2>2. crashes' \in Nat /\ (Unharmed' => Unharmed /\ ~Fail /\ ~Crash)
    BY UnharmedSteps DEF HolderIsAt
  <2>3. directWrite' = directWrite /\ compress' = compress
    BY OptionsStay DEF directWrite, compress
  <2>4. ASSUME Unharmed', ~directWrite' PROVE /\ AtRest' => Within'
                                              /\ compress' => OneActionEach'
    <3>1. /\ ~Fail /\ ~Crash /\ ~directWrite
          /\ AtRest => Within
          /\ compress => OneActionEach
      BY <2>2, <2>3, <2>4
    <3> QED
      BY <2>1, <2>3, <3>1, RestStep, OneActionEachStep
  <2> QED
    BY <2>1, <2>2, <2>4
<1>5. NotMinGzip /\ IInv /\ RInv => ActionsDoneAtClose
  <2> SUFFICES ASSUME NotMinGzip, IInv, RInv, pc = "closed", failures = 0, crashes = 0,
                      ~directWrite
               PROVE  /\ Cardinality(Archives) <= MaxBackups
                      /\ OverCap(Archives) = {}
                      /\ compress => \A i \in Indexes : plain[i] = Absent
    BY Zenon DEF ActionsDoneAtClose
  <2>1. queue = <<>> /\ worker = "idle"
    BY DEF RollingInvariant, WhoActs
  <2>2. Within /\ (compress => OneActionEach) /\ doomed = {}
    BY <2>1 DEF Unharmed, AtRest, RollingInvariant, WhoActs, Sweeping
  <2>3. \A i \in Indexes : ~AtHand(i) /\ ~AtWork(i) /\ ~Queued(i)
    BY <2>1 DEF AtHand, AtWork, Queued
  <2> QED
    BY <2>2, <2>3 DEF Within, Left, OneActionEach
<1>6. Spec => []RInv
    BY RollingInvariantHolds
<1> QED
    BY <1>1, <1>2, <1>3, <1>4, <1>5, <1>6, PTL DEF Spec
=============================================================================
