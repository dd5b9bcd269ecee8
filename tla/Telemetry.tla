----------------------------- MODULE Telemetry -----------------------------
(***************************************************************************)
(* The decision journal and the time series (wifucked.telemetry) under the *)
(* daemon's scheduler (Daemon.run_forever, Daemon.tick): the loop thread   *)
(* records and flushes, the main thread closes on a signal, a request      *)
(* thread reads. Every `with self._lock` block is one step, except that a  *)
(* flush is two: its transaction, and the trim that follows under the same *)
(* lock. The database is SQLite in WAL mode with synchronous=NORMAL.       *)
(***************************************************************************)
EXTENDS Integers, Sequences, SequencesExt, FiniteSets, TLC

CONSTANTS
    Kinds,          \* the tables, "decisions" among them
    Retain,         \* retain_decisions, retain_events, retain_samples
    RecentSize,     \* decisions kept in memory (200 in the code)
    Interval,       \* flush_interval_s
    Pause,          \* loops.fast_s, slept after every pass
    MaxPass,        \* the longest the loops of one pass take
    Wall,           \* what clock.wall() may say: the board has no battery clock
    None,           \* Python's None
    MaxTime, MaxRecords, MaxFaults  \* bounds on the model (TLC only)

ASSUME TelemetryAssumption ==
    /\ "decisions" \in Kinds /\ Retain \in [Kinds -> Nat \ {0}]
    /\ Wall \subseteq Nat
    /\ {RecentSize, Interval, Pause} \subseteq Nat \ {0} /\ MaxPass \in Nat
    /\ Pause <= Interval
    /\ None \notin Nat \union {"loop", "main"}
    /\ {MaxTime, MaxRecords, MaxFaults} \subseteq Nat

VARIABLES
    now,        \* clock.now(), the monotonic clock, from the start of the process
    pc,         \* the loop thread: "asleep", "loops" or "flush"
    began,      \* the `now` that Daemon.tick read when the pass began
    until,      \* when the sleep ends, or the latest end of the pass's loops
    next,       \* Daemon._next["telemetry"]
    lastFlush,  \* Telemetry._last_flush
    buffer,     \* Telemetry._buffer, a list for each table
    recent,     \* Telemetry._recent
    conn,       \* TRUE while Telemetry._conn is a connection
    holder,     \* the thread between its transaction and its trim, or None
    closing,    \* the main thread: "no", "flush", "close" or "exit"
    wal,        \* the database after each transaction since the last sync
    serial,     \* records so far
    faults,     \* sqlite errors, crashes and power cuts so far
    opened,     \* history: _open() of this process got its connection
    waiting,    \* history: when the oldest record in the buffer was made
    signalled,  \* history: the ids in the buffer when the signal came
    failed,     \* history: a flush failed since the signal
    stepped     \* history: the wall clock went back between two records

daemon  == <<pc, began, until, next>>
journal == <<buffer, recent, wal, serial>>
history == <<opened, waiting, signalled, failed, stepped>>
vars == <<now, daemon, lastFlush, journal, conn, holder, closing, faults, history>>

EmptyBuffer == [k \in Kinds |-> <<>>]
Database    == wal[Len(wal)]
Records     == [id : 1 .. MaxRecords, at : Wall]
Tables      == [Kinds -> Seq(Records)]

-----------------------------------------------------------------------------
(* Telemetry.__init__ and Daemon.__init__: a process starts. *)

\* `up` is whether _open() got its connection. The clock of a process is counted
\* from its start: only differences of clock.now() are ever used.
Start(up) ==
    /\ now' = 0
    /\ conn' = up /\ opened' = up
    /\ buffer' = EmptyBuffer /\ recent' = <<>> /\ lastFlush' = 0
    /\ pc' = "asleep" /\ began' = 0 /\ next' = 0
    /\ until' \in 0 .. MaxPass          \* start() discovers and attaches first
    /\ holder' = None /\ closing' = "no" /\ waiting' = None
    /\ signalled' = {} /\ failed' = FALSE

Init ==
    /\ now = 0 /\ lastFlush = 0
    /\ conn \in BOOLEAN /\ opened = conn
    /\ buffer = EmptyBuffer /\ recent = <<>> /\ serial = 0
    /\ wal = <<EmptyBuffer>>
    /\ pc = "asleep" /\ began = 0 /\ next = 0 /\ until = 0
    /\ holder = None /\ closing = "no"
    /\ faults = 0
    /\ waiting = None /\ signalled = {} /\ failed = FALSE /\ stepped = FALSE

-----------------------------------------------------------------------------
(* The scheduler *)

\* run_forever: the sleep is over, tick() reads the clock and runs its loops.
BeginPass ==
    /\ pc = "asleep" /\ now = until
    /\ closing = "no"                       \* else run_forever has returned
    /\ pc' = "loops" /\ began' = now
    /\ until' = now + MaxPass
    /\ UNCHANGED <<now, next, lastFlush, journal, conn, holder, closing, faults, history>>

\* Time passes in the sleep and in the loops (probes and tools have timeouts).
Tick ==
    /\ pc \in {"asleep", "loops"} /\ holder = None
    /\ now < until /\ now < MaxTime
    /\ now' = now + 1
    /\ UNCHANGED <<daemon, lastFlush, journal, conn, holder, closing, faults, history>>

\* Slip: the flush rides on the slow loop, as it once did.
CadenceOfSlowLoop == 5 * Interval
\* The entry of the scheduler is the flush interval itself.
Cadence == Interval

\* The end of Daemon.tick: the telemetry entry, if due, and Telemetry.tick's
\* own gate, which reads the clock again after the loops.
EndPass ==
    /\ pc = "loops"
    /\ LET due   == began >= next
           flush == due /\ now - lastFlush >= Interval
       IN  /\ next' = IF due THEN began + Cadence ELSE next
           /\ pc' = IF flush THEN "flush" ELSE "asleep"
           /\ until' = now + Pause
    /\ UNCHANGED <<now, began, lastFlush, journal, conn, holder, closing, faults, history>>

-----------------------------------------------------------------------------
(* Recording *)

WallTimes == {r.at : r \in UNION {Range(Database[k] \o buffer[k]) : k \in Kinds}}

LastOf(s, n) == SubSeq(s, IF Len(s) > n THEN Len(s) - n + 1 ELSE 1, Len(s))

\* record_decision, record_event and record_sample, from within the loops.
RecordOne(k, at) ==
    /\ pc = "loops" /\ holder = None /\ serial < MaxRecords
    /\ serial' = serial + 1
    /\ LET r == [id |-> serial + 1, at |-> at]
       IN  /\ buffer' = [buffer EXCEPT ![k] = Append(@, r)]
           /\ recent' = IF k = "decisions" THEN LastOf(Append(recent, r), RecentSize)
                        ELSE recent
    /\ waiting' = IF waiting = None THEN now ELSE waiting
    /\ stepped' = (stepped \/ \E earlier \in WallTimes : at < earlier)
    /\ UNCHANGED <<now, daemon, lastFlush, wal, conn, holder, closing, faults, opened, signalled,
                   failed>>

-----------------------------------------------------------------------------
(* flush(), by the loop thread or, in close(), by the main thread *)

Threads == {"loop", "main"}

InFlush(t) == IF t = "loop" THEN pc = "flush" ELSE closing = "flush"
Flushed(t) ==
    /\ pc'      = IF t = "loop" THEN "asleep" ELSE pc
    /\ closing' = IF t = "main" THEN "close" ELSE closing

\* Slip: what a flush wrote is written again.
InsertTwice(db) == [k \in Kinds |-> db[k] \o buffer[k] \o buffer[k]]
\* The three executemany() of one transaction.
Insert(db) == [k \in Kinds |-> db[k] \o buffer[k]]

\* The buffer is replaced before the transaction: a transaction that fails
\* takes its window with it.
Flush(t) ==
    /\ InFlush(t) /\ holder = None
    /\ lastFlush' = now
    /\ buffer' = EmptyBuffer /\ waiting' = None
    /\ \/ /\ ~conn \/ buffer = EmptyBuffer
          /\ Flushed(t)
          /\ UNCHANGED <<wal, holder, faults, failed>>
       \/ /\ conn /\ buffer # EmptyBuffer
          /\ wal' = Append(wal, Insert(Database))
          /\ holder' = t
          /\ UNCHANGED <<pc, closing, faults, failed>>
       \/ /\ conn /\ buffer # EmptyBuffer /\ faults < MaxFaults
          /\ faults' = faults + 1 /\ failed' = TRUE
          /\ Flushed(t)
          /\ UNCHANGED <<wal, holder>>
    /\ UNCHANGED <<now, began, until, next, recent, conn, serial, opened, signalled, stepped>>

\* _trim(): rows up to MAX(id) - keep go; ids count up without gaps.
Trimmed(db) == [k \in Kinds |-> LastOf(db[k], Retain[k])]

Trim(t) ==
    /\ holder = t
    /\ \/ /\ wal' = IF Trimmed(Database) = Database THEN wal
                    ELSE Append(wal, Trimmed(Database))
          /\ UNCHANGED faults
       \/ /\ faults < MaxFaults /\ faults' = faults + 1
          /\ UNCHANGED wal
    /\ holder' = None
    /\ Flushed(t)
    /\ UNCHANGED <<now, began, until, next, lastFlush, buffer, recent, conn, serial, history>>

-----------------------------------------------------------------------------
(* The end of a process *)

\* Slip: the connection is closed without a flush.
SignalClosesFirst ==
    /\ closing = "no"
    /\ closing' = "close"
    /\ signalled' = {r.id : r \in UNION {Range(buffer[k]) : k \in Kinds}}
    /\ failed' = FALSE
    /\ UNCHANGED <<now, daemon, lastFlush, journal, conn, holder, faults, opened, waiting, stepped>>

\* The signal handler on the main thread calls Daemon.stop(), hence close():
\* a flush, then the connection, in two critical sections.
Signal ==
    /\ closing = "no"
    /\ closing' = "flush"
    /\ signalled' = {r.id : r \in UNION {Range(buffer[k]) : k \in Kinds}}
    /\ failed' = FALSE
    /\ UNCHANGED <<now, daemon, lastFlush, journal, conn, holder, faults, opened, waiting, stepped>>

\* Closing the only connection checkpoints the log.
Close ==
    /\ closing = "close" /\ holder = None
    /\ closing' = "exit"
    /\ conn' = FALSE
    /\ wal' = IF conn THEN <<Database>> ELSE wal
    /\ UNCHANGED <<now, daemon, lastFlush, buffer, recent, serial, holder, faults, history>>

\* sys.exit() ends the loop thread as well; systemd starts the service again.
Exit(up) ==
    /\ closing = "exit"
    /\ Start(up)
    /\ UNCHANGED <<wal, serial, faults, stepped>>

\* The process is killed at any point (a watchdog, a bug).
Crash(up) ==
    /\ faults < MaxFaults /\ faults' = faults + 1
    /\ Start(up)
    /\ UNCHANGED <<wal, serial, stepped>>

\* Commits since the last sync may be missing after a power cut, the newest
\* ones first (synchronous=NORMAL).
PowerCut(up) ==
    /\ faults < MaxFaults /\ faults' = faults + 1
    /\ Start(up)
    /\ \E n \in 1 .. Len(wal) : wal' = SubSeq(wal, 1, n)
    /\ UNCHANGED <<serial, stepped>>

\* SQLite moves the log into the database and syncs it when it sees fit.
Checkpoint ==
    /\ conn /\ holder = None /\ Len(wal) > 1
    /\ wal' = <<Database>>
    /\ UNCHANGED <<now, daemon, lastFlush, buffer, recent, serial, conn, holder, closing, faults, history>>

Next ==
    \/ BeginPass \/ Tick \/ EndPass
    \/ \E k \in Kinds, at \in Wall : RecordOne(k, at)
    \/ \E t \in Threads : Flush(t) \/ Trim(t)
    \/ Signal \/ Close \/ Checkpoint
    \/ \E up \in BOOLEAN : Exit(up) \/ Crash(up) \/ PowerCut(up)

Spec == Init /\ [][Next]_vars

-----------------------------------------------------------------------------
(* recent_decisions(limit), from a request thread *)

FirstOf(s, n) == SubSeq(s, 1, IF Len(s) > n THEN n ELSE Len(s))

\* ORDER BY at DESC walks the index backwards: of equal times, the later row.
Precedes(a, b) == a.at > b.at \/ (a.at = b.at /\ a.id > b.id)
\* The i-th row is the one that i - 1 others precede.
ByTimeDescending(rows) ==
    [i \in 1 .. Len(rows) |->
        CHOOSE r \in Range(rows) : Cardinality({q \in Range(rows) : Precedes(q, r)}) = i - 1]

\* Slip: the stored decisions go before the ones still in the buffer.
MergeStoredFirst(limit, stored) == FirstOf(stored \o Reverse(buffer["decisions"]), limit)
Merge(limit, stored) == FirstOf(Reverse(buffer["decisions"]) \o stored, limit)

\* `readable` is FALSE when the query fails.
RecentDecisions(limit, readable) ==
    IF conn
    THEN Merge(limit, IF readable THEN FirstOf(ByTimeDescending(Database["decisions"]), limit)
                      ELSE <<>>)
    ELSE Reverse(LastOf(recent, limit))

-----------------------------------------------------------------------------
(* Properties *)

\* The types of what the threads, the scheduler and SQLite hold.
TypeOK ==
    /\ {now, began, until, next, lastFlush, serial, faults} \subseteq Nat
    /\ pc \in {"asleep", "loops", "flush"} /\ closing \in {"no", "flush", "close", "exit"}
    /\ holder \in Threads \union {None} /\ {conn, opened, failed, stepped} \subseteq BOOLEAN
    /\ buffer \in Tables /\ recent \in Seq(Records)
    /\ wal \in Seq(Tables) \ {<<>>}
    /\ waiting \in Nat \union {None} /\ signalled \subseteq 1 .. MaxRecords

\* However passes, probes and the two gates on a flush (Daemon._next, then
\* Telemetry.tick) fall against each other, a record waits in memory for less
\* than two flush intervals and the loops of two passes: one flush can be skipped
\* because the last one ran late in its pass, a second one cannot.
LossIsBounded ==
    waiting # None => now - waiting < 2 * (Interval + MaxPass)

\* The store, with its scheduler, threads, failed transactions, crashes and power
\* cuts, is the journal it promises to be: windows whole, nothing twice, the
\* oldest rows dropped and no others (flush(), _trim(), close()).
J == INSTANCE Journal WITH pending <- buffer, versions <- wal
ImplementsJournal == J!JSpec

\* What is on disk and in memory of the decisions, newest first, is what a
\* request for the last decisions is answered, as long as the wall clock did not
\* step back (recent_decisions() sorts the stored rows by it).
KnownDecisions == {r.id : r \in Range(Database["decisions"] \o buffer["decisions"])}
NewestFirst ==
    conn /\ holder = None /\ ~stepped =>
        \A limit \in 1 .. MaxRecords :
            LET answer == RecentDecisions(limit, TRUE)
            IN  /\ Len(answer) = IF Cardinality(KnownDecisions) > limit THEN limit
                                 ELSE Cardinality(KnownDecisions)
                /\ \A i \in 1 .. Len(answer) :
                      /\ answer[i].id \in KnownDecisions
                      /\ Cardinality({d \in KnownDecisions : d > answer[i].id}) = i - 1

\* A stop on a signal loses nothing that was recorded before the signal, unless
\* a transaction failed: close() flushes first, also when the loop thread flushes
\* at the same time. A row may have made place for Retain newer ones.
Stored(id) == \E k \in Kinds : \E r \in Range(Database[k]) : r.id = id
CleanStopKeepsRecords ==
    closing = "exit" /\ opened /\ ~failed =>
        \A id \in signalled :
            Stored(id) \/ \E k \in Kinds : Len(Database[k]) >= Retain[k]
                                           /\ \A r \in Range(Database[k]) : r.id > id

-----------------------------------------------------------------------------
(* Why the loss is bounded: an inductive invariant over the two gates. *)

\* The main thread has flushed: no pass will begin any more.
Ending == closing \in {"close", "exit"} \/ holder = "main"

TimeTypes ==
    /\ now \in Nat /\ began \in Nat /\ until \in Nat /\ next \in Nat /\ lastFlush \in Nat
    /\ waiting \in Nat \union {None}
    /\ pc \in {"asleep", "loops", "flush"}
    /\ closing \in {"no", "flush", "close", "exit"}
    /\ holder \in Threads \union {None}

\* Where the clock is within a pass, and how far away the next due pass can be.
PassInv ==
    /\ began <= now /\ lastFlush <= now /\ next <= began + Interval
    /\ pc \in {"asleep", "loops"} => now <= until
    /\ pc = "asleep" => /\ until < next + MaxPass + Pause
                        /\ until <= began + MaxPass + Pause
    /\ pc = "loops" => /\ until = began + MaxPass
                       /\ until < next + 2 * MaxPass + Pause
    /\ pc = "flush" => /\ now <= began + MaxPass
                       /\ next = began + Interval /\ until = now + Pause
    /\ holder = "loop" => pc = "flush" /\ lastFlush = now
    /\ holder = "main" => closing = "flush"

\* At most one flush is skipped: the entry of the scheduler is never two
\* intervals behind the last flush.
GateInv == pc # "flush" => next < lastFlush + 2 * Interval

\* No record is older than the first pass after the last flush, or than the
\* first pass of the process, which set the entry of the scheduler.
RecordInv ==
    /\ waiting # None => waiting >= lastFlush /\ waiting <= now
    /\ ~Ending /\ pc = "loops" => began >= lastFlush + Pause \/ next = 0
    /\ ~Ending /\ pc = "asleep" => until >= lastFlush + Pause \/ next = 0
    /\ ~Ending /\ pc # "flush" /\ waiting # None =>
          \/ waiting >= lastFlush + Pause
          \/ next = 0 /\ pc = "loops" /\ waiting >= began
          \/ next >= lastFlush + Interval /\ waiting + Interval >= next
    /\ Ending /\ pc # "flush" /\ waiting # None => waiting >= began
    /\ holder = "loop" => waiting = None
    /\ ~Ending /\ next = 0 => lastFlush = 0

\* What is stored and buffered has its type.
DataInv ==
    /\ serial \in 0 .. MaxRecords /\ faults \in Nat
    /\ buffer \in Tables /\ recent \in Seq(Records)
    /\ wal \in Seq(Tables) /\ wal # <<>>
    /\ signalled \subseteq 1 .. MaxRecords
FlagInv ==
    conn \in BOOLEAN /\ opened \in BOOLEAN /\ failed \in BOOLEAN /\ stepped \in BOOLEAN

\* The scheduler and the buffer together, as an invariant of every step.
TimeInv == TimeTypes /\ PassInv /\ GateInv /\ RecordInv /\ LossIsBounded
=============================================================================
