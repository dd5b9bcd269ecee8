-------------------------- MODULE TelemetryProofs --------------------------
(***************************************************************************)
(* For every interval, pause, length of a pass, set of tables, retention   *)
(* and number of faults: what a crash can cost is bounded, the store is    *)
(* the journal of module Journal, a clean stop loses nothing, and the      *)
(* newest decisions come first.                                            *)
(***************************************************************************)
EXTENDS Telemetry, TLAPS, FiniteSetTheorems

-----------------------------------------------------------------------------
(* The bound on what is lost *)

LEMMA TimeInit == Init => TimeInv
BY TelemetryAssumption DEF Init, TimeInv, TimeTypes, PassInv, GateInv, RecordInv, Ending,
   LossIsBounded, Threads

\* A process that starts, after whatever end of the last one, starts its clocks
\* and its buffer together.
LEMMA TimeStart == ASSUME NEW up \in BOOLEAN, Start(up) PROVE TimeInv'
BY TelemetryAssumption DEF Start, TimeInv, TimeTypes, PassInv, GateInv, RecordInv, Ending,
   LossIsBounded, Threads

\* Steps that leave the clocks, the scheduler and the buffer alone.
LEMMA TimeBystander ==
    ASSUME TimeInv, UNCHANGED <<now, daemon, lastFlush, waiting, holder, closing>>
    PROVE  TimeInv'
BY DEF TimeInv, TimeTypes, PassInv, GateInv, RecordInv, Ending, LossIsBounded, daemon

LEMMA TimeStep == TimeInv /\ [Next]_vars => TimeInv'
<1> SUFFICES ASSUME TimeInv, [Next]_vars PROVE TimeInv'
  OBVIOUS
<1> USE TelemetryAssumption
<1> USE DEF TimeInv, TimeTypes, PassInv, GateInv, RecordInv, Ending, LossIsBounded, Threads,
    daemon, journal, history
<1>1. CASE BeginPass
  BY <1>1 DEF BeginPass
<1>2. CASE Tick
  BY <1>2 DEF Tick
<1>3. CASE EndPass
  <2>1. CASE began < next
    BY <1>3, <2>1 DEF EndPass, Cadence
  <2>2. CASE began >= next /\ now - lastFlush < Interval
    BY <1>3, <2>2 DEF EndPass, Cadence
  <2>3. CASE began >= next /\ now - lastFlush >= Interval
    BY <1>3, <2>3 DEF EndPass, Cadence
  <2> QED BY <2>1, <2>2, <2>3
<1>4. ASSUME NEW k \in Kinds, NEW at \in Wall, RecordOne(k, at) PROVE TimeInv'
  <2>1. /\ pc = "loops" /\ holder = None
        /\ waiting' = IF waiting = None THEN now ELSE waiting
        /\ UNCHANGED <<now, pc, began, until, next, lastFlush, holder, closing>>
    BY <1>4 DEF RecordOne
  <2> QED BY <2>1
<1>5. CASE Flush("loop")
  <2>1. /\ pc = "flush" /\ holder = None
        /\ lastFlush' = now /\ waiting' = None
        /\ UNCHANGED <<now, began, until, next, closing>>
        /\ \/ pc' = "asleep" /\ UNCHANGED holder
           \/ pc' = "flush" /\ holder' = "loop"
    BY <1>5 DEF Flush, InFlush, Flushed
  <2> QED BY <2>1
<1>6. CASE Flush("main")
  <2>1. /\ closing = "flush" /\ holder = None
        /\ lastFlush' = now /\ waiting' = None
        /\ UNCHANGED <<now, pc, began, until, next>>
        /\ \/ closing' = "close" /\ UNCHANGED holder
           \/ closing' = "flush" /\ holder' = "main"
    BY <1>6 DEF Flush, InFlush, Flushed
  <2> QED BY <2>1
<1>7. CASE Trim("loop")
  <2>1. /\ holder = "loop" /\ holder' = None /\ pc' = "asleep"
        /\ UNCHANGED <<now, began, until, next, lastFlush, waiting, closing>>
    BY <1>7 DEF Trim, Flushed
  <2> QED BY <2>1
<1>8. CASE Trim("main")
  BY <1>8 DEF Trim, Flushed
<1>9. CASE Signal
  BY <1>9 DEF Signal
<1>10. CASE Close
  BY <1>10 DEF Close
<1>11. CASE Checkpoint
  <2>1. UNCHANGED <<now, daemon, lastFlush, waiting, holder, closing>>
    BY <1>11 DEF Checkpoint
  <2> QED BY <2>1, TimeBystander
<1>12. ASSUME NEW up \in BOOLEAN, Exit(up) \/ Crash(up) \/ PowerCut(up) PROVE TimeInv'
  <2>1. Start(up)
    BY <1>12 DEF Exit, Crash, PowerCut
  <2> QED BY <2>1, TimeStart
<1>13. CASE UNCHANGED vars
  BY <1>13, TimeBystander DEF vars
<1> QED
  BY <1>1, <1>2, <1>3, <1>4, <1>5, <1>6, <1>7, <1>8, <1>9, <1>10, <1>11, <1>12, <1>13 DEF Next

\* A record waits in memory for less than two flush intervals and two passes:
\* the two gates of Daemon.tick and Telemetry.tick skip one flush at most.
THEOREM LossBound == Spec => []LossIsBounded
<1>1. TimeInv => LossIsBounded
  BY DEF TimeInv
<1> QED
  BY <1>1, TimeInit, TimeStep, PTL DEF Spec

-----------------------------------------------------------------------------
(* Types of the data *)

LEMMA EmptyType == EmptyBuffer \in Tables
BY DEF EmptyBuffer, Tables

LEMMA LastOfType ==
    ASSUME NEW S, NEW s \in Seq(S), NEW n \in Nat PROVE LastOf(s, n) \in Seq(S)
BY DEF LastOf

LEMMA DatabaseType == DataInv => Database \in Tables
BY DEF DataInv, Database

LEMMA InsertType == ASSUME NEW db \in Tables, buffer \in Tables PROVE Insert(db) \in Tables
BY DEF Insert, Tables

LEMMA TrimmedType == ASSUME NEW db \in Tables PROVE Trimmed(db) \in Tables
<1>1. \A k \in Kinds : LastOf(db[k], Retain[k]) \in Seq(Records)
  BY LastOfType, TelemetryAssumption DEF Tables
<1> QED BY <1>1 DEF Trimmed, Tables

LEMMA DataInit == Init => DataInv
<1> SUFFICES ASSUME Init PROVE DataInv
  OBVIOUS
<1>1. <<EmptyBuffer>> \in Seq(Tables) /\ <<EmptyBuffer>> # <<>>
  BY EmptyType
<1> QED BY <1>1, EmptyType, TelemetryAssumption DEF Init, DataInv

LEMMA DataStart ==
    ASSUME NEW up \in BOOLEAN, Start(up), DataInv, UNCHANGED serial,
           faults' \in Nat, wal' \in Seq(Tables), wal' # <<>>
    PROVE  DataInv'
BY EmptyType DEF Start, DataInv

LEMMA DataStep == DataInv /\ [Next]_vars => DataInv'
<1> SUFFICES ASSUME DataInv, [Next]_vars PROVE DataInv'
  OBVIOUS
<1> USE TelemetryAssumption, EmptyType, DatabaseType
<1>1. CASE BeginPass \/ Tick \/ EndPass \/ UNCHANGED vars
  BY <1>1 DEF BeginPass, Tick, EndPass, vars, daemon, journal, history, DataInv
<1>2. ASSUME NEW k \in Kinds, NEW at \in Wall, RecordOne(k, at) PROVE DataInv'
  <2> DEFINE r == [id |-> serial + 1, at |-> at]
  <2>1. r \in Records /\ serial' \in 0 .. MaxRecords
    BY <1>2 DEF RecordOne, DataInv, Records
  <2>2. buffer' \in Tables
    BY <1>2, <2>1 DEF RecordOne, DataInv, Tables
  <2>3. Append(recent, r) \in Seq(Records)
    BY <2>1 DEF DataInv
  <2>4. recent' \in Seq(Records)
    BY <1>2, <2>3, LastOfType DEF RecordOne, DataInv
  <2> QED BY <1>2, <2>1, <2>2, <2>4 DEF RecordOne, DataInv, daemon
<1>3. ASSUME NEW t \in Threads, Flush(t) PROVE DataInv'
  <2>1. Append(wal, Insert(Database)) \in Seq(Tables) /\ Append(wal, Insert(Database)) # <<>>
    BY InsertType DEF DataInv
  <2>2. /\ buffer' = EmptyBuffer /\ UNCHANGED <<serial, recent, signalled>>
        /\ wal' = wal \/ wal' = Append(wal, Insert(Database))
        /\ faults' = faults \/ faults' = faults + 1
    BY <1>3 DEF Flush
  <2>3. wal' \in Seq(Tables) /\ wal' # <<>>
    BY ONLY <2>1, <2>2, DataInv, Zenon DEF DataInv
  <2> QED BY ONLY <2>2, <2>3, EmptyType, DataInv DEF DataInv
<1>4. ASSUME NEW t \in Threads, Trim(t) PROVE DataInv'
  <2>1. /\ Append(wal, Trimmed(Database)) \in Seq(Tables)
        /\ Append(wal, Trimmed(Database)) # <<>>
    BY TrimmedType DEF DataInv
  <2>2. /\ UNCHANGED <<buffer, serial, recent, signalled>>
        /\ wal' = wal \/ wal' = Append(wal, Trimmed(Database))
        /\ faults' = faults \/ faults' = faults + 1
    BY <1>4 DEF Trim, history
  <2>3. wal' \in Seq(Tables) /\ wal' # <<>>
    BY ONLY <2>1, <2>2, DataInv, Zenon DEF DataInv
  <2> QED BY ONLY <2>2, <2>3, DataInv DEF DataInv
<1>5. CASE Signal
  <2>1. {r.id : r \in UNION {Range(buffer[k]) : k \in Kinds}} \subseteq 1 .. MaxRecords
    <3> SUFFICES ASSUME NEW k \in Kinds, NEW i \in DOMAIN buffer[k]
                 PROVE  buffer[k][i].id \in 1 .. MaxRecords
      BY DEF Range
    <3>1. buffer[k] \in Seq(Records)
      BY DEF DataInv, Tables
    <3>2. buffer[k][i] \in Records
      BY <3>1
    <3> QED BY <3>2 DEF Records
  <2> QED BY <1>5, <2>1 DEF Signal, DataInv, daemon, journal
<1>6. CASE Close \/ Checkpoint
  <2>1. <<Database>> \in Seq(Tables) /\ <<Database>> # <<>>
    OBVIOUS
  <2> QED BY <1>6, <2>1 DEF Close, Checkpoint, DataInv, daemon, history
<1>7. ASSUME NEW up \in BOOLEAN, Exit(up) \/ Crash(up) \/ PowerCut(up) PROVE DataInv'
  <2>1. \A n \in 1 .. Len(wal) : SubSeq(wal, 1, n) \in Seq(Tables) /\ SubSeq(wal, 1, n) # <<>>
    <3> TAKE n \in 1 .. Len(wal)
    <3>1. SubSeq(wal, 1, n) \in Seq(Tables) /\ Len(SubSeq(wal, 1, n)) = n
      BY DEF DataInv
    <3> QED BY <3>1
  <2>2. /\ Start(up) /\ UNCHANGED serial
        /\ faults' = faults \/ faults' = faults + 1
        /\ wal' = wal \/ \E n \in 1 .. Len(wal) : wal' = SubSeq(wal, 1, n)
    BY <1>7, Zenon DEF Exit, Crash, PowerCut
  <2>3. wal' \in Seq(Tables) /\ wal' # <<>>
    BY ONLY <2>1, <2>2, DataInv, Zenon DEF DataInv
  <2>4. faults' \in Nat
    BY <2>2 DEF DataInv
  <2> QED BY <2>2, <2>3, <2>4, DataStart
<1> QED
  BY <1>1, <1>2, <1>3, <1>4, <1>5, <1>6, <1>7 DEF Next

LEMMA Flags == Spec => []FlagInv
<1>1. Init => FlagInv
  BY Zenon DEF Init, FlagInv
<1>2. FlagInv /\ [Next]_vars => FlagInv'
  BY Zenon DEF FlagInv, Next, vars, daemon, journal, history, BeginPass, Tick, EndPass, RecordOne,
     Flush, Trim, Signal, Close, Checkpoint, Exit, Crash, PowerCut, Start
<1> QED
  BY <1>1, <1>2, PTL DEF Spec

\* The state of scheduler, buffer and database has its type in every behaviour.
THEOREM TypeCorrect == Spec => []TypeOK
<1>1. TimeInv /\ DataInv /\ FlagInv => TypeOK
  <2> SUFFICES ASSUME TimeInv, DataInv, FlagInv PROVE TypeOK
    OBVIOUS
  <2>1. {conn, opened, failed, stepped} \subseteq BOOLEAN
    BY Zenon DEF FlagInv
  <2>2. /\ {now, began, until, next, lastFlush, serial, faults} \subseteq Nat
        /\ wal \in Seq(Tables) \ {<<>>}
    BY TelemetryAssumption DEF TimeInv, TimeTypes, DataInv
  <2> QED BY <2>1, <2>2 DEF TimeInv, TimeTypes, DataInv, TypeOK
<1> QED
  BY <1>1, TimeInit, TimeStep, DataInit, DataStep, Flags, PTL DEF Spec

-----------------------------------------------------------------------------
(* The refinement: buffer and log of the code as pending and versions *)

LEMMA SameCurrent == J!Current = Database
BY DEF J!Current, Database

LEMMA SameNothing == J!Nothing = EmptyBuffer
BY DEF J!Nothing, EmptyBuffer

\* _trim() drops a prefix and leaves at least what is to be kept.
LEMMA TrimIsSuffix ==
    ASSUME NEW s \in Seq(Records), NEW keep \in Nat
    PROVE  LastOf(s, keep) \in J!Suffixes(s, keep)
<1> DEFINE m == IF Len(s) > keep THEN Len(s) - keep ELSE 0
<1>1. m \in 0 .. Len(s) /\ (m = 0 \/ Len(s) - m >= keep)
  OBVIOUS
<1>2. LastOf(s, keep) = SubSeq(s, m + 1, Len(s))
  BY DEF LastOf
<1> HIDE DEF m
<1> QED BY <1>1, <1>2 DEF J!Suffixes

LEMMA TrimForgets ==
    ASSUME DataInv, wal' = Append(wal, Trimmed(Database)), UNCHANGED <<buffer, serial>>
    PROVE  J!Forget
<1>1. \A k \in Kinds : Trimmed(Database)[k] \in J!Suffixes(Database[k], Retain[k])
  <2> TAKE k \in Kinds
  <2>1. Database[k] \in Seq(Records) /\ Retain[k] \in Nat
    BY DatabaseType, TelemetryAssumption DEF Tables
  <2> QED BY <2>1, TrimIsSuffix DEF Trimmed
<1>2. Trimmed(Database) \in [Kinds -> UNION {J!Suffixes(Database[k], Retain[k]) : k \in Kinds}]
  BY <1>1 DEF Trimmed
<1> QED
  BY <1>1, <1>2, SameCurrent DEF J!Forget

LEMMA StepRefines == DataInv /\ [Next]_vars => [J!JNext]_<<buffer, wal, serial>>
<1> SUFFICES ASSUME DataInv, [Next]_vars PROVE [J!JNext]_<<buffer, wal, serial>>
  OBVIOUS
<1> USE SameCurrent, SameNothing
<1>1. CASE BeginPass \/ Tick \/ EndPass \/ Signal \/ UNCHANGED vars
  BY <1>1 DEF BeginPass, Tick, EndPass, Signal, vars, journal
<1>2. ASSUME NEW k \in Kinds, NEW at \in Wall, RecordOne(k, at) PROVE J!Record
  BY <1>2 DEF RecordOne, J!Record
<1>3. ASSUME NEW t \in Threads, Flush(t) PROVE J!Lose \/ J!Store
  BY <1>3 DEF Flush, Insert, J!Lose, J!Store
<1>4. ASSUME NEW t \in Threads, Trim(t) PROVE UNCHANGED <<buffer, wal, serial>> \/ J!Forget
  <2>1. /\ UNCHANGED <<buffer, serial>>
        /\ wal' = wal \/ wal' = Append(wal, Trimmed(Database))
    BY <1>4 DEF Trim
  <2> QED BY <2>1, TrimForgets
<1>5. ASSUME Close \/ Checkpoint PROVE UNCHANGED <<buffer, wal, serial>> \/ J!Sync
  BY <1>5 DEF Close, Checkpoint, J!Sync
<1>6. ASSUME NEW up \in BOOLEAN, Exit(up) \/ Crash(up) PROVE J!Lose
  BY <1>6 DEF Exit, Crash, Start, J!Lose
<1>7. ASSUME NEW up \in BOOLEAN, PowerCut(up) PROVE J!PowerLoss
  BY <1>7 DEF PowerCut, Start, J!PowerLoss
<1> QED
  BY <1>1, <1>2, <1>3, <1>4, <1>5, <1>6, <1>7 DEF Next, J!JNext

\* The store of the code implements the abstract journal: for any tables,
\* retention, interleaving of the two threads, failed transactions, crashes and
\* power cuts, a window is stored whole and once or not at all.
THEOREM Refinement == Spec => ImplementsJournal
<1>1. Init => J!JInit
  BY SameNothing DEF Init, J!JInit
<1> QED
  BY <1>1, DataInit, DataStep, StepRefines, PTL DEF Spec, ImplementsJournal, J!JSpec

-----------------------------------------------------------------------------
(* The records of a clean stop *)

Ascending(s) == \A i, j \in DOMAIN s : i < j => s[i].id < s[j].id
Before(s, t) == \A i \in DOMAIN s, j \in DOMAIN t : s[i].id < t[j].id
UpTo(s, n) == \A i \in DOMAIN s : s[i].id <= n

\* Rows are stored and buffered in the order they were made in, whatever version
\* of the database a power cut returns to.
Ordered(db) ==
    \A k \in Kinds : Ascending(db[k]) /\ UpTo(db[k], serial) /\ Before(db[k], buffer[k])
OrderInv ==
    /\ \A k \in Kinds : Ascending(buffer[k]) /\ UpTo(buffer[k], serial)
    /\ \A v \in DOMAIN wal : Ordered(wal[v])

\* A record is on disk, or made place for newer ones.
Overtaken(id, db) ==
    \E k \in Kinds : Len(db[k]) >= Retain[k] /\ \A i \in DOMAIN db[k] : db[k][i].id > id
Holds(tables, id) == \E k \in Kinds : \E i \in DOMAIN tables[k] : tables[k][i].id = id
Kept(id, db) == Holds(db, id) \/ Overtaken(id, db)

\* From the signal on, what was in the buffer is there or kept; once the main
\* thread's flush is over, it is kept. The connection is closed last.
StopInv ==
    /\ closing # "exit" => conn = opened
    /\ closing # "no" /\ opened /\ ~ failed =>
          \A id \in signalled : Kept(id, Database) \/ (~ Ending /\ Holds(buffer, id))

\* What flush() appends to a table keeps its order.
LEMMA ConcatOrder ==
    ASSUME NEW s \in Seq(Records), NEW t \in Seq(Records), NEW n \in Nat,
           Ascending(s), Ascending(t), Before(s, t), UpTo(s, n), UpTo(t, n)
    PROVE  Ascending(s \o t) /\ UpTo(s \o t, n)
<1>1. /\ DOMAIN s = 1 .. Len(s) /\ DOMAIN t = 1 .. Len(t) /\ Len(s) \in Nat /\ Len(t) \in Nat
      /\ DOMAIN (s \o t) = 1 .. Len(s) + Len(t)
  OBVIOUS
<1>2. \A i \in 1 .. Len(s) : (s \o t)[i] = s[i]
  OBVIOUS
<1>3. \A i \in 1 .. Len(s) + Len(t) : i > Len(s) =>
          (i - Len(s)) \in DOMAIN t /\ (s \o t)[i] = t[i - Len(s)]
  OBVIOUS
<1>4. ASSUME NEW i \in 1 .. Len(s) + Len(t), NEW j \in 1 .. Len(s) + Len(t), i < j
      PROVE  (s \o t)[i].id < (s \o t)[j].id
  <2>1. CASE j <= Len(s)
    BY <1>1, <1>2, <1>4, <2>1 DEF Ascending
  <2>2. CASE i <= Len(s) /\ j > Len(s)
    <3>1. i \in DOMAIN s /\ (j - Len(s)) \in DOMAIN t
      BY <1>1, <1>3, <1>4, <2>2
    <3>2. (s \o t)[i] = s[i] /\ (s \o t)[j] = t[j - Len(s)]
      BY <1>1, <1>2, <1>3, <1>4, <2>2
    <3> QED
      BY <3>1, <3>2 DEF Before
  <2>3. CASE i > Len(s)
    BY <1>1, <1>3, <1>4, <2>3 DEF Ascending
  <2> QED
    BY <1>1, <2>1, <2>2, <2>3
<1>5. ASSUME NEW i \in 1 .. Len(s) + Len(t) PROVE (s \o t)[i].id <= n
  BY <1>1, <1>2, <1>3, <1>5 DEF UpTo
<1> QED
  BY <1>1, <1>4, <1>5 DEF Ascending, UpTo

\* A new record goes behind all others.
LEMMA AppendOrder ==
    ASSUME NEW s \in Seq(Records), NEW n \in Nat, NEW at, n + 1 \in 1 .. MaxRecords, at \in Wall,
           Ascending(s), UpTo(s, n)
    PROVE  LET t == Append(s, [id |-> n + 1, at |-> at])
           IN  Ascending(t) /\ UpTo(t, n + 1)
<1> DEFINE r == [id |-> n + 1, at |-> at]
<1>1. /\ DOMAIN s = 1 .. Len(s) /\ Len(s) \in Nat
      /\ DOMAIN Append(s, r) = 1 .. Len(s) + 1 /\ Append(s, r)[Len(s) + 1] = r
      /\ \A i \in 1 .. Len(s) : Append(s, r)[i] = s[i]
  OBVIOUS
<1>2. \A i \in 1 .. Len(s) : s[i].id \in Nat /\ s[i].id <= n
  <2>1. \A i \in 1 .. Len(s) : s[i] \in Records
    OBVIOUS
  <2> QED
    BY <1>1, <2>1 DEF UpTo, Records
<1> QED
  BY <1>1, <1>2 DEF Ascending, UpTo

\* What _trim() leaves of a table: its end, by an offset.
LEMMA LastOfRows ==
    ASSUME NEW s \in Seq(Records), NEW n \in Nat
    PROVE  \E m \in 0 .. Len(s) :
              /\ m = 0 \/ Len(s) - m = n
              /\ Len(LastOf(s, n)) = Len(s) - m
              /\ DOMAIN LastOf(s, n) = 1 .. Len(s) - m
              /\ \A i \in 1 .. Len(s) - m : LastOf(s, n)[i] = s[i + m]
<1> DEFINE m == IF Len(s) > n THEN Len(s) - n ELSE 0
<1>1. m \in 0 .. Len(s) /\ (m = 0 \/ Len(s) - m = n)
  OBVIOUS
<1>2. LastOf(s, n) = SubSeq(s, m + 1, Len(s))
  BY DEF LastOf
<1> HIDE DEF m
<1>3. /\ Len(SubSeq(s, m + 1, Len(s))) = Len(s) - m
      /\ DOMAIN SubSeq(s, m + 1, Len(s)) = 1 .. Len(s) - m
      /\ \A i \in 1 .. Len(s) - m : SubSeq(s, m + 1, Len(s))[i] = s[i + m]
  BY <1>1
<1> QED
  BY <1>1, <1>2, <1>3

LEMMA LastOfOrder ==
    ASSUME NEW s \in Seq(Records), NEW n \in Nat, NEW m, NEW t,
           Ascending(s), UpTo(s, m), Before(s, t)
    PROVE  Ascending(LastOf(s, n)) /\ UpTo(LastOf(s, n), m) /\ Before(LastOf(s, n), t)
<1>1. PICK d \in 0 .. Len(s) : /\ DOMAIN LastOf(s, n) = 1 .. Len(s) - d
                               /\ \A i \in 1 .. Len(s) - d : LastOf(s, n)[i] = s[i + d]
  BY LastOfRows
<1>2. DOMAIN s = 1 .. Len(s) /\ Len(s) \in Nat
  OBVIOUS
<1>3. \A i \in 1 .. Len(s) - d : i + d \in DOMAIN s
  BY <1>2
<1>4. Ascending(LastOf(s, n))
  BY <1>1, <1>2, <1>3 DEF Ascending
<1>5. UpTo(LastOf(s, n), m)
  BY <1>1, <1>3 DEF UpTo
<1>6. Before(LastOf(s, n), t)
  BY <1>1, <1>3 DEF Before
<1> QED
  BY <1>4, <1>5, <1>6

LEMMA DatabaseOrdered == DataInv /\ OrderInv => Ordered(Database)
BY DEF DataInv, OrderInv, Database

\* What a transaction writes is in order.
LEMMA InsertOrdered ==
    ASSUME DataInv, OrderInv, NEW k \in Kinds
    PROVE  Ascending(Insert(Database)[k]) /\ UpTo(Insert(Database)[k], serial)
<1>1. Database[k] \in Seq(Records) /\ buffer[k] \in Seq(Records) /\ serial \in Nat
  BY DatabaseType DEF Tables, DataInv
<1>2. /\ Ascending(Database[k]) /\ UpTo(Database[k], serial) /\ Before(Database[k], buffer[k])
      /\ Ascending(buffer[k]) /\ UpTo(buffer[k], serial)
  BY DatabaseOrdered DEF Ordered, OrderInv
<1>3. Ascending(Database[k] \o buffer[k]) /\ UpTo(Database[k] \o buffer[k], serial)
  BY <1>1, <1>2, ConcatOrder
<1> QED
  BY <1>3 DEF Insert

LEMMA TrimmedOrdered == ASSUME DataInv, OrderInv PROVE Ordered(Trimmed(Database))
<1> SUFFICES ASSUME NEW k \in Kinds
             PROVE  /\ Ascending(LastOf(Database[k], Retain[k]))
                    /\ UpTo(LastOf(Database[k], Retain[k]), serial)
                    /\ Before(LastOf(Database[k], Retain[k]), buffer[k])
  BY DEF Ordered, Trimmed
<1>1. Database[k] \in Seq(Records) /\ Retain[k] \in Nat
  BY DatabaseType, TelemetryAssumption DEF Tables
<1>2. Ascending(Database[k]) /\ UpTo(Database[k], serial) /\ Before(Database[k], buffer[k])
  BY DatabaseOrdered DEF Ordered
<1> QED
  BY <1>1, <1>2, LastOfOrder

\* Every version of the log is an old one or the one that was written.
LEMMA LogGrows ==
    ASSUME DataInv, NEW db, wal' = Append(wal, db), NEW v \in DOMAIN wal'
    PROVE  wal'[v] = db \/ \E u \in DOMAIN wal : wal'[v] = wal[u]
<1>1. Len(wal) \in Nat /\ DOMAIN wal = 1 .. Len(wal) /\ DOMAIN wal' = 1 .. Len(wal) + 1
  BY DEF DataInv
<1>2. wal'[Len(wal) + 1] = db /\ \A u \in 1 .. Len(wal) : wal'[u] = wal[u]
  BY DEF DataInv
<1> QED
  BY <1>1, <1>2

\* Steps that keep the buffer, or empty it, keep the order of the old versions.
LEMMA OldVersionsOrdered ==
    ASSUME OrderInv, UNCHANGED serial, buffer' = buffer \/ buffer' = EmptyBuffer
    PROVE  /\ \A k \in Kinds : (Ascending(buffer[k]) /\ UpTo(buffer[k], serial))'
           /\ \A u \in DOMAIN wal, k \in Kinds :
                 /\ Ascending(wal[u][k]) /\ UpTo(wal[u][k], serial')
                 /\ Before(wal[u][k], buffer'[k])
<1>1. CASE buffer' = buffer
  BY <1>1 DEF OrderInv, Ordered, Ascending, UpTo, Before
<1>2. CASE buffer' = EmptyBuffer
  <2>1. \A k \in Kinds : DOMAIN buffer'[k] = {}
    BY <1>2 DEF EmptyBuffer
  <2> QED
    BY <2>1 DEF OrderInv, Ordered, Ascending, UpTo, Before
<1> QED
  BY <1>1, <1>2

LEMMA OrderStep == DataInv /\ OrderInv /\ [Next]_vars => OrderInv'
<1> SUFFICES ASSUME DataInv, OrderInv, [Next]_vars PROVE OrderInv'
  OBVIOUS
<1>1. ASSUME UNCHANGED serial, buffer' = buffer \/ buffer' = EmptyBuffer,
             \A v \in DOMAIN wal' : \/ \E u \in DOMAIN wal : wal'[v] = wal[u]
                                    \/ \A k \in Kinds : /\ Ascending(wal'[v][k])
                                                         /\ UpTo(wal'[v][k], serial')
                                                         /\ Before(wal'[v][k], buffer'[k])
      PROVE  OrderInv'
  BY <1>1, OldVersionsOrdered DEF OrderInv, Ordered
<1>2. CASE BeginPass \/ Tick \/ EndPass \/ Signal \/ UNCHANGED vars
  <2>1. UNCHANGED <<wal, serial, buffer>>
    BY <1>2 DEF BeginPass, Tick, EndPass, Signal, vars, journal
  <2> QED
    BY <1>1, <2>1
<1>3. ASSUME NEW k \in Kinds, NEW at \in Wall, RecordOne(k, at) PROVE OrderInv'
  <2> DEFINE r == [id |-> serial + 1, at |-> at]
  <2>1. /\ serial' = serial + 1 /\ serial \in Nat /\ serial + 1 \in 1 .. MaxRecords
        /\ buffer' = [buffer EXCEPT ![k] = Append(buffer[k], r)] /\ UNCHANGED wal
    BY <1>3, TelemetryAssumption DEF RecordOne, DataInv
  <2>2. \A l \in Kinds : buffer[l] \in Seq(Records)
    BY DEF DataInv, Tables
  <2>3. buffer'[k] = Append(buffer[k], r) /\ \A l \in Kinds : l # k => buffer'[l] = buffer[l]
    BY <2>1 DEF DataInv, Tables
  <2>4. ASSUME NEW t \in Seq(Records), UpTo(t, serial) PROVE UpTo(t, serial')
    <3>1. \A i \in DOMAIN t : t[i] \in Records
      OBVIOUS
    <3> QED
      BY <2>1, <2>4, <3>1 DEF UpTo, Records
  <2>5. Ascending(buffer'[k]) /\ UpTo(buffer'[k], serial')
    BY <2>1, <2>2, <2>3, AppendOrder DEF OrderInv
  <2>6. ASSUME NEW t \in Seq(Records), UpTo(t, serial), Before(t, buffer[k])
        PROVE  Before(t, buffer'[k])
    <3>1. \A i \in DOMAIN t : t[i].id \in Nat /\ t[i].id <= serial
      <4>1. \A i \in DOMAIN t : t[i] \in Records
        OBVIOUS
      <4> QED
        BY <2>6, <4>1 DEF UpTo, Records
    <3>2. \A j \in DOMAIN buffer'[k] : \/ buffer'[k][j] = r
                                       \/ j \in DOMAIN buffer[k] /\ buffer'[k][j] = buffer[k][j]
      BY <2>2, <2>3
    <3> QED
      BY <2>1, <2>6, <3>1, <3>2 DEF Before
  <2>7. \A u \in DOMAIN wal, l \in Kinds : wal[u][l] \in Seq(Records)
    BY DEF DataInv, Tables
  <2>8. \A l \in Kinds : (Ascending(buffer[l]) /\ UpTo(buffer[l], serial))'
    BY <2>2, <2>3, <2>4, <2>5 DEF OrderInv
  <2>9. ASSUME NEW u \in DOMAIN wal, NEW l \in Kinds
        PROVE  /\ Ascending(wal[u][l]) /\ UpTo(wal[u][l], serial')
               /\ Before(wal[u][l], buffer'[l])
    BY <2>3, <2>4, <2>6, <2>7 DEF OrderInv, Ordered
  <2> QED
    BY <2>1, <2>8, <2>9 DEF OrderInv, Ordered
<1>4. ASSUME NEW t \in Threads, Flush(t) PROVE OrderInv'
  <2>1. /\ buffer' = EmptyBuffer /\ UNCHANGED serial
        /\ wal' = wal \/ wal' = Append(wal, Insert(Database))
    BY <1>4 DEF Flush
  <2>2. CASE wal' = wal
    BY <1>1, <2>1, <2>2
  <2>3. CASE wal' = Append(wal, Insert(Database))
    <3>1. \A k \in Kinds : /\ Ascending(Insert(Database)[k]) /\ UpTo(Insert(Database)[k], serial')
                           /\ Before(Insert(Database)[k], buffer'[k])
      BY <2>1, InsertOrdered DEF Before, EmptyBuffer
    <3> QED
      BY <1>1, <2>1, <2>3, <3>1, LogGrows
  <2> QED
    BY <2>1, <2>2, <2>3
<1>5. ASSUME NEW t \in Threads, Trim(t) PROVE OrderInv'
  <2>1. /\ UNCHANGED <<buffer, serial>>
        /\ wal' = wal \/ wal' = Append(wal, Trimmed(Database))
    BY <1>5 DEF Trim
  <2>2. CASE wal' = wal
    BY <1>1, <2>1, <2>2
  <2>3. CASE wal' = Append(wal, Trimmed(Database))
    BY <1>1, <2>1, <2>3, LogGrows, TrimmedOrdered DEF Ordered
  <2> QED
    BY <2>1, <2>2, <2>3
<1>6. CASE Close \/ Checkpoint
  <2>1. UNCHANGED <<buffer, serial>> /\ (wal' = wal \/ wal' = <<Database>>)
    BY <1>6 DEF Close, Checkpoint
  <2>2. Database = wal[Len(wal)] /\ Len(wal) \in DOMAIN wal
    BY DEF Database, DataInv
  <2>3. \A v \in DOMAIN wal' : \E u \in DOMAIN wal : wal'[v] = wal[u]
    BY <2>1, <2>2
  <2> QED
    BY <1>1, <2>1, <2>3
<1>7. ASSUME NEW up \in BOOLEAN, Exit(up) \/ Crash(up) \/ PowerCut(up) PROVE OrderInv'
  <2>1. /\ buffer' = EmptyBuffer /\ UNCHANGED serial
        /\ wal' = wal \/ \E n \in 1 .. Len(wal) : wal' = SubSeq(wal, 1, n)
    BY <1>7, Zenon DEF Exit, Crash, PowerCut, Start
  <2>2. \A v \in DOMAIN wal' : \E u \in DOMAIN wal : wal'[v] = wal[u]
    <3>1. CASE wal' = wal
      BY <3>1
    <3>2. ASSUME NEW n \in 1 .. Len(wal), wal' = SubSeq(wal, 1, n)
          PROVE  \A v \in DOMAIN wal' : v \in DOMAIN wal /\ wal'[v] = wal[v]
      BY <3>2 DEF DataInv
    <3> QED
      BY <2>1, <3>1, <3>2
  <2> QED
    BY <1>1, <2>1, <2>2
<1> QED
  BY <1>2, <1>3, <1>4, <1>5, <1>6, <1>7 DEF Next

LEMMA OrderInit == Init => OrderInv
<1> SUFFICES ASSUME Init PROVE OrderInv
  OBVIOUS
<1>1. /\ \A k \in Kinds : DOMAIN buffer[k] = {}
      /\ DOMAIN wal = {1} /\ \A k \in Kinds : DOMAIN wal[1][k] = {}
  BY DEF Init, EmptyBuffer
<1> QED
  BY <1>1 DEF OrderInv, Ordered, Ascending, UpTo, Before

\* What is in a table for a record with this id: the row, or newer ones only.
InTable(id, s, n) ==
    \/ \E i \in DOMAIN s : s[i].id = id
    \/ Len(s) >= n /\ \A i \in DOMAIN s : s[i].id > id

\* flush() appends newer rows.
LEMMA ConcatKeeps ==
    ASSUME NEW s \in Seq(Records), NEW t \in Seq(Records), NEW n \in Nat \ {0},
           NEW id \in Nat, Before(s, t),
           InTable(id, s, n) \/ \E j \in DOMAIN t : t[j].id = id
    PROVE  InTable(id, s \o t, n)
<1>1. /\ DOMAIN s = 1 .. Len(s) /\ DOMAIN t = 1 .. Len(t) /\ Len(s) \in Nat /\ Len(t) \in Nat
      /\ DOMAIN (s \o t) = 1 .. Len(s) + Len(t) /\ Len(s \o t) = Len(s) + Len(t)
  OBVIOUS
<1>2. \A i \in 1 .. Len(s) : (s \o t)[i] = s[i] /\ s[i] \in Records
  OBVIOUS
<1>3. \A i \in 1 .. Len(s) + Len(t) : i > Len(s) =>
          (i - Len(s)) \in DOMAIN t /\ (s \o t)[i] = t[i - Len(s)]
  OBVIOUS
<1>4. \A j \in DOMAIN t : t[j] \in Records
  OBVIOUS
<1>5. ASSUME NEW i \in DOMAIN s, s[i].id = id PROVE InTable(id, s \o t, n)
  BY <1>1, <1>2, <1>5 DEF InTable
<1>6. ASSUME NEW j \in DOMAIN t, t[j].id = id PROVE InTable(id, s \o t, n)
  <2>1. Len(s) + j \in DOMAIN (s \o t) /\ Len(s) + j > Len(s) /\ (Len(s) + j) - Len(s) = j
    BY <1>1, <1>6
  <2>2. (s \o t)[Len(s) + j] = t[j]
    BY <1>1, <1>3, <2>1
  <2> QED
    BY <1>6, <2>1, <2>2 DEF InTable
<1>7. ASSUME Len(s) >= n, \A i \in DOMAIN s : s[i].id > id PROVE InTable(id, s \o t, n)
  <2>1. 1 \in DOMAIN s /\ s[1].id \in Nat /\ s[1].id > id
    <3>1. 1 \in 1 .. Len(s)
      BY <1>1, <1>7
    <3>2. s[1] \in Records
      BY <1>2, <3>1
    <3> QED
      BY <1>1, <1>7, <3>1, <3>2 DEF Records
  <2>2. \A j \in DOMAIN t : t[j].id > id
    BY <1>4, <2>1 DEF Before, Records
  <2>3. \A i \in DOMAIN (s \o t) : (s \o t)[i].id > id
    BY <1>1, <1>2, <1>3, <1>7, <2>2
  <2> QED
    BY <1>1, <1>7, <2>3 DEF InTable
<1> QED
  BY <1>5, <1>6, <1>7 DEF InTable

\* _trim() removes a row only where n newer ones stay.
LEMMA LastOfKeeps ==
    ASSUME NEW s \in Seq(Records), NEW n \in Nat \ {0}, NEW id \in Nat, Ascending(s),
           InTable(id, s, n)
    PROVE  InTable(id, LastOf(s, n), n)
<1> DEFINE t == LastOf(s, n)
<1>1. PICK m \in 0 .. Len(s) :
         /\ m = 0 \/ Len(s) - m = n
         /\ Len(t) = Len(s) - m /\ DOMAIN t = 1 .. Len(s) - m
         /\ \A i \in 1 .. Len(s) - m : t[i] = s[i + m]
  BY LastOfRows
<1>2. /\ DOMAIN s = 1 .. Len(s) /\ Len(s) \in Nat
      /\ \A i \in DOMAIN s : s[i] \in Records
  OBVIOUS
<1> HIDE DEF t
<1>3. \A i \in DOMAIN s : s[i].id \in Nat
  BY <1>2 DEF Records
<1>4. ASSUME NEW i \in DOMAIN s, s[i].id = id PROVE InTable(id, t, n)
  <2>1. CASE i > m
    <3>1. (i - m) \in DOMAIN t /\ t[i - m] = s[i]
      <4>1. (i - m) \in 1 .. Len(s) - m /\ (i - m) + m = i
        BY <1>2, <2>1
      <4> QED
        BY <1>1, <4>1
    <3> QED
      BY <1>4, <3>1 DEF InTable
  <2>2. CASE i <= m
    <3>1. Len(t) >= n
      BY <1>1, <1>2, <2>2
    <3>2. ASSUME NEW j \in DOMAIN t PROVE j + m \in DOMAIN s /\ i < j + m /\ t[j] = s[j + m]
      <4>1. j \in 1 .. Len(s) - m
        BY <1>1, <3>2
      <4>2. i \in 1 .. Len(s)
        BY <1>2
      <4> QED
        BY <1>1, <1>2, <2>2, <4>1, <4>2
    <3>3. \A j \in DOMAIN t : t[j].id > id
      BY <1>3, <1>4, <3>2 DEF Ascending
    <3> QED
      BY <3>1, <3>3 DEF InTable
  <2> QED
    BY <1>2, <2>1, <2>2
<1>5. ASSUME Len(s) >= n, \A i \in DOMAIN s : s[i].id > id PROVE InTable(id, t, n)
  <2>1. Len(t) >= n
    BY <1>1, <1>2, <1>5
  <2>2. \A j \in DOMAIN t : j + m \in DOMAIN s /\ t[j] = s[j + m]
    BY <1>1, <1>2
  <2> QED
    BY <1>5, <2>1, <2>2 DEF InTable
<1>6. InTable(id, t, n)
  BY <1>4, <1>5 DEF InTable
<1> QED
  BY <1>6 DEF t

LEMMA KeptByTable ==
    ASSUME NEW id, NEW db
    PROVE  Kept(id, db) <=> \E k \in Kinds : InTable(id, db[k], Retain[k])
BY DEF Kept, Holds, Overtaken, InTable

LEMMA InsertKeeps ==
    ASSUME DataInv, OrderInv, NEW id \in 1 .. MaxRecords, Kept(id, Database) \/ Holds(buffer, id)
    PROVE  Kept(id, Insert(Database))
<1>1. PICK k \in Kinds :
         InTable(id, Database[k], Retain[k]) \/ \E j \in DOMAIN buffer[k] : buffer[k][j].id = id
  BY KeptByTable DEF Holds
<1>2. Database[k] \in Seq(Records) /\ buffer[k] \in Seq(Records)
  BY DatabaseType DEF Tables, DataInv
<1>3. Retain[k] \in Nat \ {0} /\ Before(Database[k], buffer[k]) /\ id \in Nat
  BY DatabaseOrdered, TelemetryAssumption DEF Ordered
<1>4. InTable(id, Database[k] \o buffer[k], Retain[k])
  BY <1>1, <1>2, <1>3, ConcatKeeps
<1>5. InTable(id, Insert(Database)[k], Retain[k])
  BY <1>4 DEF Insert
<1> QED
  BY <1>5, KeptByTable

LEMMA TrimKeeps ==
    ASSUME DataInv, OrderInv, NEW id \in 1 .. MaxRecords, Kept(id, Database)
    PROVE  Kept(id, Trimmed(Database))
<1>1. PICK k \in Kinds : InTable(id, Database[k], Retain[k])
  BY KeptByTable
<1>2. /\ Database[k] \in Seq(Records) /\ Retain[k] \in Nat \ {0} /\ Ascending(Database[k])
      /\ id \in Nat
  BY DatabaseType, DatabaseOrdered, TelemetryAssumption DEF Tables, Ordered
<1>3. InTable(id, LastOf(Database[k], Retain[k]), Retain[k])
  BY <1>1, <1>2, LastOfKeeps
<1>4. InTable(id, Trimmed(Database)[k], Retain[k])
  BY <1>3 DEF Trimmed
<1> QED
  BY <1>4, KeptByTable

\* A step that keeps the last version of the log keeps what is kept in it.
LEMMA DatabaseAfter ==
    ASSUME DataInv, NEW db
    PROVE  /\ wal' = wal => Database' = Database
           /\ wal' = Append(wal, db) => Database' = db
           /\ wal' = <<db>> => Database' = db
<1>1. Append(wal, db)[Len(Append(wal, db))] = db
  BY DEF DataInv
<1>2. <<db>>[Len(<<db>>)] = db
  OBVIOUS
<1> QED
  BY <1>1, <1>2 DEF Database

LEMMA StopInit == Init => StopInv
BY DEF Init, StopInv

\* A process that starts has no signal behind it.
LEMMA StopStart == ASSUME NEW up \in BOOLEAN, Start(up) PROVE StopInv'
BY DEF Start, StopInv

LEMMA StopStep ==
    TimeInv /\ DataInv /\ FlagInv /\ OrderInv /\ StopInv /\ [Next]_vars => StopInv'
<1> SUFFICES ASSUME TimeInv, DataInv, FlagInv, OrderInv, StopInv, [Next]_vars PROVE StopInv'
  OBVIOUS
<1> DEFINE Safe(id) == Kept(id, Database) \/ (~ Ending /\ Holds(buffer, id))
<1>1. ASSUME UNCHANGED <<wal, buffer, signalled, opened, conn, closing, holder, failed>>
      PROVE  StopInv'
  BY <1>1 DEF StopInv, Kept, Holds, Overtaken, Database, Ending
<1>2. CASE BeginPass \/ Tick \/ EndPass \/ UNCHANGED vars
  BY <1>1, <1>2 DEF BeginPass, Tick, EndPass, vars, daemon, journal, history
<1>3. ASSUME NEW k \in Kinds, NEW at \in Wall, RecordOne(k, at) PROVE StopInv'
  <2> DEFINE r == [id |-> serial + 1, at |-> at]
  <2>1. /\ UNCHANGED <<wal, signalled, opened, conn, closing, holder, failed>>
        /\ buffer' = [buffer EXCEPT ![k] = Append(buffer[k], r)]
    BY <1>3 DEF RecordOne
  <2>2. ASSUME NEW id, Holds(buffer, id) PROVE Holds(buffer', id)
    <3>1. PICK l \in Kinds : \E i \in DOMAIN buffer[l] : buffer[l][i].id = id
      BY <2>2 DEF Holds
    <3>2. PICK i \in DOMAIN buffer[l] : buffer[l][i].id = id
      BY <3>1
    <3>3. buffer[l] \in Seq(Records) /\ buffer \in [Kinds -> Seq(Records)]
      BY DEF DataInv, Tables
    <3>4. i \in DOMAIN Append(buffer[l], r) /\ Append(buffer[l], r)[i] = buffer[l][i]
      BY <3>3
    <3>5. i \in DOMAIN buffer'[l] /\ buffer'[l][i] = buffer[l][i]
      BY <2>1, <3>3, <3>4
    <3> QED
      BY <3>2, <3>5 DEF Holds
  <2>3. Database' = Database /\ Ending' = Ending
    BY <2>1 DEF Database, Ending
  <2>4. closing' # "exit" => conn' = opened'
    BY <2>1 DEF StopInv
  <2>5. ASSUME closing' # "no", opened', ~ failed', NEW id \in signalled'
        PROVE  Kept(id, Database)' \/ (~ Ending' /\ Holds(buffer, id)')
    <3>1. Safe(id)
      BY <2>1, <2>5 DEF StopInv
    <3>2. CASE Kept(id, Database)
      BY <2>3, <3>2 DEF Kept, Overtaken, Holds
    <3>3. CASE ~ Ending /\ Holds(buffer, id)
      <4>1. Holds(buffer', id)
        BY <2>2, <3>3
      <4> QED
        BY <2>3, <3>3, <4>1 DEF Holds
    <3> QED
      BY <3>1, <3>2, <3>3
  <2> QED
    BY <2>4, <2>5 DEF StopInv
<1>4. ASSUME NEW t \in Threads, Flush(t) PROVE StopInv'
  <2>1. /\ closing = "flush" \/ t = "loop"
        /\ UNCHANGED <<conn, opened, signalled>>
        /\ closing' = closing \/ (closing = "flush" /\ closing' = "close")
    BY <1>4 DEF Flush, InFlush, Flushed, Threads
  <2>2. closing' # "exit" => conn' = opened'
    BY <2>1 DEF StopInv
  <2>3. ASSUME closing' # "no", opened', ~ failed', NEW id \in signalled'
        PROVE  Kept(id, Database)'
    <3>1. /\ closing # "no" /\ opened /\ id \in signalled /\ id \in 1 .. MaxRecords
          /\ closing # "exit" => conn
      BY <2>1, <2>3 DEF StopInv, DataInv
    <3>2. CASE (~ conn \/ buffer = EmptyBuffer) /\ UNCHANGED <<wal, failed>>
      <4>1. Safe(id)
        BY <2>3, <3>1, <3>2 DEF StopInv
      <4>2. Database' = Database
        BY <3>2 DEF Database
      <4>3. CASE Kept(id, Database)
        BY <4>2, <4>3 DEF Kept, Holds, Overtaken
      <4>4. CASE ~ Ending /\ Holds(buffer, id)
        BY <3>1, <3>2, <4>4 DEF Ending, Holds, EmptyBuffer
      <4> QED
        BY <4>1, <4>3, <4>4
    <3>3. CASE wal' = Append(wal, Insert(Database)) /\ UNCHANGED failed
      <4>1. Safe(id)
        BY <2>3, <3>1, <3>3 DEF StopInv
      <4>2. Kept(id, Insert(Database))
        BY <3>1, <4>1, InsertKeeps
      <4>3. Database' = Insert(Database)
        BY <3>3, DatabaseAfter
      <4> QED
        BY <4>2, <4>3 DEF Kept, Holds, Overtaken
    <3> QED
      BY <1>4, <2>3, <3>2, <3>3 DEF Flush
  <2> QED
    BY <2>2, <2>3 DEF StopInv
<1>5. ASSUME NEW t \in Threads, Trim(t) PROVE StopInv'
  <2>1. /\ UNCHANGED <<buffer, conn, opened, signalled, failed>> /\ holder = t /\ holder' = None
        /\ wal' = wal \/ wal' = Append(wal, Trimmed(Database))
        /\ closing' = IF t = "main" THEN "close" ELSE closing
    BY <1>5 DEF Trim, Flushed, history
  <2>2. t = "main" => closing = "flush"
    BY <2>1 DEF TimeInv, PassInv
  <2>3. Ending' <=> Ending
    BY <2>1, <2>2, TelemetryAssumption DEF Ending, Threads
  <2>4. ASSUME NEW id \in 1 .. MaxRecords, Kept(id, Database) PROVE Kept(id, Database)'
    <3>1. Database' = Database \/ Database' = Trimmed(Database)
      BY <2>1, DatabaseAfter
    <3>2. Kept(id, Trimmed(Database))
      BY <2>4, TrimKeeps
    <3> QED
      BY <2>4, <3>1, <3>2 DEF Kept, Holds, Overtaken
  <2>5. closing' # "exit" => conn' = opened'
    BY <2>1, <2>2 DEF StopInv
  <2>6. ASSUME closing' # "no", opened', ~ failed', NEW id \in signalled'
        PROVE  Kept(id, Database)' \/ (~ Ending' /\ Holds(buffer, id)')
    <3>1. id \in 1 .. MaxRecords /\ Safe(id)
      BY <2>1, <2>2, <2>6 DEF StopInv, DataInv
    <3> QED
      BY <2>1, <2>3, <2>4, <3>1 DEF Holds
  <2> QED
    BY <2>5, <2>6 DEF StopInv
<1>6. CASE Signal
  <2>1. /\ closing = "no" /\ closing' = "flush"
        /\ signalled' = {r.id : r \in UNION {Range(buffer[k]) : k \in Kinds}}
        /\ UNCHANGED <<buffer, holder, conn, opened>>
    BY <1>6 DEF Signal, journal
  <2>2. ~ Ending'
    BY <2>1 DEF Ending, TimeInv, PassInv
  <2>3. \A id \in signalled' : Holds(buffer, id)'
    BY <2>1 DEF Holds, Range
  <2> QED
    BY <2>1, <2>2, <2>3 DEF StopInv
<1>7. CASE Close \/ Checkpoint
  <2>1. /\ UNCHANGED <<buffer, holder, opened, signalled, failed>>
        /\ \/ closing = "close" /\ closing' = "exit"
           \/ UNCHANGED <<closing, conn>>
        /\ wal' = wal \/ wal' = <<Database>>
    BY <1>7 DEF Close, Checkpoint, history
  <2>2. Database' = Database
    BY <2>1, DatabaseAfter
  <2>3. Ending' <=> Ending
    BY <2>1 DEF Ending
  <2> QED
    BY <2>1, <2>2, <2>3 DEF StopInv, Kept, Holds, Overtaken
<1>8. ASSUME NEW up \in BOOLEAN, Exit(up) \/ Crash(up) \/ PowerCut(up) PROVE StopInv'
  <2>1. Start(up)
    BY <1>8 DEF Exit, Crash, PowerCut
  <2> QED
    BY <2>1, StopStart
<1> QED
  BY <1>2, <1>3, <1>4, <1>5, <1>6, <1>7, <1>8 DEF Next

\* A stop on a signal keeps every record that was made before the signal,
\* whichever of the two threads flushes it and however often the tables are
\* trimmed, as long as no transaction failed: close() flushes, then closes.
THEOREM CleanStop == Spec => []CleanStopKeepsRecords
<1>1. StopInv => CleanStopKeepsRecords
  <2> SUFFICES ASSUME StopInv, closing = "exit", opened, ~ failed, NEW id \in signalled
               PROVE  \/ Stored(id)
                      \/ \E k \in Kinds : /\ Len(Database[k]) >= Retain[k]
                                          /\ \A r \in Range(Database[k]) : r.id > id
    BY DEF CleanStopKeepsRecords
  <2>1. Kept(id, Database)
    BY DEF StopInv, Ending
  <2> QED
    BY <2>1 DEF Kept, Holds, Overtaken, Stored, Range
<1> QED
  BY <1>1, TimeInit, TimeStep, DataInit, DataStep, Flags, OrderInit, OrderStep,
     StopInit, StopStep, PTL DEF Spec

-----------------------------------------------------------------------------
(* The newest decisions *)

\* Rows are in the order of their wall-clock times as well.
Timely(s) == \A i, j \in DOMAIN s : i < j => s[i].at <= s[j].at
TimelyInv ==
    ~ stepped =>
        /\ \A v \in DOMAIN wal, k \in Kinds : Timely(wal[v][k])
        /\ \A k \in Kinds : Timely(Insert(Database)[k])

\* The last elements of a sequence without repetitions, counted.
LEMMA CountLast ==
    ASSUME NEW T, NEW n \in Nat, NEW f \in [1 .. n -> T], NEW m \in 0 .. n,
           \A i, j \in 1 .. n : i # j => f[i] # f[j]
    PROVE  Cardinality({f[i] : i \in m + 1 .. n}) = n - m
<1> DEFINE S == {f[i] : i \in m + 1 .. n}
           g == [i \in 1 .. n - m |-> f[i + m]]
<1>1. n - m \in Nat /\ \A i \in 1 .. n - m : i + m \in 1 .. n /\ i + m \in m + 1 .. n
  OBVIOUS
<1>2. g \in [1 .. n - m -> S]
  BY <1>1
<1>3. \A i, j \in 1 .. n - m : g[i] = g[j] => i = j
  BY <1>1
<1>4. \A x \in S : \E i \in 1 .. n - m : g[i] = x
  <2> TAKE x \in S
  <2>1. PICK j \in m + 1 .. n : x = f[j]
    OBVIOUS
  <2>2. (j - m) \in 1 .. n - m /\ (j - m) + m = j
    OBVIOUS
  <2> QED
    BY <2>1, <2>2
<1> HIDE DEF g, S
<1>5. g \in Bijection(1 .. n - m, S)
  BY <1>2, <1>3, <1>4 DEF Bijection, Injection, Surjection, IsInjective
<1>6. ExistsBijection(1 .. n - m, S)
  BY <1>5 DEF ExistsBijection
<1>7. Cardinality(S) = n - m
  BY <1>1, <1>6, FS_CountingElements
<1> QED
  BY <1>7 DEF S

\* A new row is as late as every other.
LEMMA AppendTimely ==
    ASSUME NEW s \in Seq(Records), NEW r \in Records, Timely(s),
           \A i \in DOMAIN s : s[i].at <= r.at
    PROVE  Timely(Append(s, r))
<1>1. /\ DOMAIN s = 1 .. Len(s) /\ Len(s) \in Nat
      /\ DOMAIN Append(s, r) = 1 .. Len(s) + 1 /\ Append(s, r)[Len(s) + 1] = r
      /\ \A i \in 1 .. Len(s) : Append(s, r)[i] = s[i]
  OBVIOUS
<1> QED
  BY <1>1 DEF Timely

\* _trim() takes rows from the start of what is stored and buffered.
LEMMA LastOfTimely ==
    ASSUME NEW s \in Seq(Records), NEW t \in Seq(Records), NEW n \in Nat, Timely(s \o t)
    PROVE  Timely(LastOf(s, n)) /\ Timely(LastOf(s, n) \o t)
<1> DEFINE l == LastOf(s, n)
<1>1. PICK d \in 0 .. Len(s) : /\ Len(l) = Len(s) - d /\ DOMAIN l = 1 .. Len(s) - d
                               /\ \A i \in 1 .. Len(s) - d : l[i] = s[i + d]
  BY LastOfRows
<1>2. l \in Seq(Records)
  BY LastOfType
<1> HIDE DEF l
<1>3. Len(s) \in Nat /\ Len(t) \in Nat /\ Len(l) \in Nat
  BY <1>2
<1>4. /\ DOMAIN (l \o t) = 1 .. Len(l) + Len(t) /\ DOMAIN (s \o t) = 1 .. Len(s) + Len(t)
      /\ \A i \in 1 .. Len(l) : (l \o t)[i] = l[i]
      /\ \A i \in 1 .. Len(l) + Len(t) : i > Len(l) => (l \o t)[i] = t[i - Len(l)]
  BY <1>2
<1>5. /\ \A i \in 1 .. Len(s) : (s \o t)[i] = s[i]
      /\ \A i \in 1 .. Len(s) + Len(t) : i > Len(s) => (s \o t)[i] = t[i - Len(s)]
  BY <1>3
<1>6. ASSUME NEW i \in 1 .. Len(s) - d + Len(t)
      PROVE  i + d \in DOMAIN (s \o t) /\ (l \o t)[i] = (s \o t)[i + d]
  <2>1. i + d \in 1 .. Len(s) + Len(t)
    BY <1>3
  <2>2. CASE i <= Len(s) - d
    BY <1>1, <1>3, <1>4, <1>5, <2>1, <2>2
  <2>3. CASE i > Len(s) - d
    <3>1. i > Len(l) /\ i \in 1 .. Len(l) + Len(t) /\ i + d > Len(s)
      BY <1>1, <1>3, <2>3
    <3>2. i - Len(l) = (i + d) - Len(s)
      BY <1>1, <1>3
    <3> QED
      BY <1>4, <1>5, <2>1, <3>1, <3>2
  <2>4. i <= Len(s) - d \/ i > Len(s) - d
    BY <1>3
  <2> QED
    BY <1>4, <2>1, <2>2, <2>3, <2>4
<1>7. Timely(l \o t)
  <2> SUFFICES ASSUME NEW i \in DOMAIN (l \o t), NEW j \in DOMAIN (l \o t), i < j
               PROVE  (l \o t)[i].at <= (l \o t)[j].at
    BY DEF Timely
  <2>1. i \in 1 .. Len(s) - d + Len(t) /\ j \in 1 .. Len(s) - d + Len(t) /\ i + d < j + d
    BY <1>1, <1>3, <1>4
  <2> QED
    BY <1>6, <2>1 DEF Timely
<1>8. \A i \in DOMAIN l : i \in DOMAIN (l \o t) /\ (l \o t)[i] = l[i]
  BY <1>1, <1>3, <1>4
<1>9. Timely(l)
  BY <1>7, <1>8 DEF Timely
<1> QED
  BY <1>7, <1>9 DEF l

LEMMA TimelyInit == Init => TimelyInv
<1> SUFFICES ASSUME Init PROVE TimelyInv
  OBVIOUS
<1>1. /\ DOMAIN wal = {1} /\ \A k \in Kinds : DOMAIN wal[1][k] = {}
      /\ \A k \in Kinds : Insert(Database)[k] = <<>>
  BY DEF Init, EmptyBuffer, Insert, Database
<1> QED
  BY <1>1 DEF TimelyInv, Timely

\* With nothing in the buffer, a transaction would write what is stored.
LEMMA TimelyEmpty ==
    ASSUME NEW log \in Seq(Tables), log # <<>>, NEW k \in Kinds,
           \A v \in DOMAIN log : Timely(log[v][k])
    PROVE  Timely(log[Len(log)][k] \o EmptyBuffer[k])
<1>1. Len(log) \in DOMAIN log /\ log[Len(log)] \in Tables
  OBVIOUS
<1>2. log[Len(log)][k] \in Seq(Records) /\ EmptyBuffer[k] = <<>>
  BY <1>1 DEF Tables, EmptyBuffer
<1>3. log[Len(log)][k] \o <<>> = log[Len(log)][k]
  BY <1>2
<1> QED
  BY <1>1, <1>2, <1>3

\* A row appended to the buffer is a row appended to what is stored and buffered.
LEMMA ConcatAppend ==
    ASSUME NEW s \in Seq(Records), NEW t \in Seq(Records), NEW x \in Records
    PROVE  s \o Append(t, x) = Append(s \o t, x)
<1>1. Append(t, x) \in Seq(Records) /\ s \o t \in Seq(Records)
  OBVIOUS
<1>2. Len(s \o Append(t, x)) = Len(Append(s \o t, x))
  OBVIOUS
<1>3. \A i \in 1 .. Len(s) + Len(t) + 1 : (s \o Append(t, x))[i] = Append(s \o t, x)[i]
  OBVIOUS
<1> QED
  BY <1>1, <1>2, <1>3

\* A record made while the clock did not step back is the latest of all.
LEMMA TimelyRecord ==
    ASSUME DataInv, TimelyInv, ~ stepped, NEW k \in Kinds, NEW at \in Wall, RecordOne(k, at),
           ~ stepped', NEW l \in Kinds
    PROVE  Timely(Insert(Database)[l])'
<1> DEFINE r == [id |-> serial + 1, at |-> at]
           s == Database[l] \o buffer[l]
<1>1. /\ buffer' = [buffer EXCEPT ![k] = Append(buffer[k], r)] /\ UNCHANGED wal
      /\ \A earlier \in WallTimes : ~ (at < earlier)
  BY DEF RecordOne
<1>2. r \in Records /\ r.at = at
  BY TelemetryAssumption DEF RecordOne, DataInv, Records
<1> HIDE DEF r
<1>3. Database[l] \in Seq(Records) /\ buffer[l] \in Seq(Records) /\ buffer \in [Kinds -> Seq(Records)]
  BY DatabaseType DEF Tables, DataInv
<1>4. Timely(s)
  BY DEF TimelyInv, Insert
<1>5. Insert(Database)'[l] = Database[l] \o buffer'[l]
  BY <1>1 DEF Insert, Database
<1>6. CASE l # k
  BY <1>1, <1>3, <1>4, <1>5, <1>6 DEF Timely
<1>7. CASE l = k
  <2>1. Insert(Database)'[l] = Database[l] \o Append(buffer[l], r)
    BY <1>1, <1>3, <1>5, <1>7
  <2>2. Database[l] \o Append(buffer[l], r) = Append(s, r)
    BY <1>2, <1>3, ConcatAppend
  <2>3. s \in Seq(Records)
    BY <1>3
  <2>4. \A i \in DOMAIN s : s[i].at \in WallTimes /\ s[i].at \in Nat
    <3> TAKE i \in DOMAIN s
    <3>1. s[i] \in Range(s)
      BY DEF Range
    <3>2. s[i] \in Records
      <4> HIDE DEF s
      <4> QED
        BY <2>3
    <3> QED
      BY <3>1, <3>2, TelemetryAssumption DEF WallTimes, Records
  <2>5. \A i \in DOMAIN s : s[i].at <= r.at
    <3>1. at \in Nat
      BY TelemetryAssumption
    <3> HIDE DEF s
    <3> QED
      BY <1>1, <1>2, <2>4, <3>1
  <2>6. Timely(Append(s, r))
    BY <1>2, <1>4, <2>3, <2>5, AppendTimely
  <2> HIDE DEF s
  <2> QED
    BY <2>1, <2>2, <2>6 DEF Timely
<1> QED
  BY <1>6, <1>7

LEMMA TimelyStep == DataInv /\ TimelyInv /\ [Next]_vars => TimelyInv'
<1> SUFFICES ASSUME DataInv, TimelyInv, [Next]_vars, ~ stepped' PROVE TimelyInv'
  BY DEF TimelyInv
<1>1. DataInv'
  BY DataStep
<1>2. ~ stepped
  BY DEF Next, BeginPass, Tick, EndPass, RecordOne, Flush, Trim, Signal, Close, Checkpoint,
     Exit, Crash, PowerCut, Start, vars, history
<1>3. ASSUME buffer' = EmptyBuffer,
             \A v \in DOMAIN wal' : \/ \E u \in DOMAIN wal : wal'[v] = wal[u]
                                    \/ wal'[v] = Insert(Database)
      PROVE  TimelyInv'
  <2>1. (\A v \in DOMAIN wal, k \in Kinds : Timely(wal[v][k]))'
    BY <1>2, <1>3 DEF TimelyInv, Timely
  <2>2. \A k \in Kinds : Timely(wal'[Len(wal')][k] \o EmptyBuffer[k])
    BY <1>1, <2>1, TimelyEmpty DEF DataInv
  <2>3. \A k \in Kinds : Insert(Database)'[k] = wal'[Len(wal')][k] \o EmptyBuffer[k]
    BY <1>3 DEF Insert, Database
  <2> QED
    BY <2>1, <2>2, <2>3 DEF TimelyInv, Timely
<1>4. CASE BeginPass \/ Tick \/ EndPass \/ Signal \/ UNCHANGED vars
  <2>1. UNCHANGED <<wal, buffer>>
    BY <1>4 DEF BeginPass, Tick, EndPass, Signal, vars, journal
  <2>2. Insert(Database)' = Insert(Database)
    BY <2>1 DEF Insert, Database
  <2> QED
    BY <1>2, <2>1, <2>2 DEF TimelyInv, Timely
<1>5. ASSUME NEW k \in Kinds, NEW at \in Wall, RecordOne(k, at) PROVE TimelyInv'
  <2>1. \A l \in Kinds : Timely(Insert(Database)[l])'
    BY <1>2, <1>5, TimelyRecord
  <2>2. UNCHANGED wal
    BY <1>5 DEF RecordOne
  <2> QED
    BY <1>2, <2>1, <2>2 DEF TimelyInv, Timely
<1>6. ASSUME NEW t \in Threads, Flush(t) PROVE TimelyInv'
  <2>1. buffer' = EmptyBuffer /\ (wal' = wal \/ wal' = Append(wal, Insert(Database)))
    BY <1>6 DEF Flush
  <2> QED
    BY <1>3, <2>1, LogGrows
<1>7. ASSUME NEW t \in Threads, Trim(t) PROVE TimelyInv'
  <2>1. UNCHANGED buffer /\ (wal' = wal \/ wal' = Append(wal, Trimmed(Database)))
    BY <1>7 DEF Trim
  <2>2. ASSUME NEW k \in Kinds
        PROVE  /\ Timely(Trimmed(Database)[k]) /\ Timely(Trimmed(Database)[k] \o buffer[k])
    <3>1. Database[k] \in Seq(Records) /\ buffer[k] \in Seq(Records) /\ Retain[k] \in Nat
      BY DatabaseType, TelemetryAssumption DEF Tables, DataInv
    <3>2. Timely(Database[k] \o buffer[k])
      BY <1>2 DEF TimelyInv, Insert
    <3> QED
      BY <3>1, <3>2, LastOfTimely DEF Trimmed
  <2>3. Database' = Database \/ Database' = Trimmed(Database)
    BY <2>1, DatabaseAfter
  <2>4. \A k \in Kinds : Timely(Database'[k] \o buffer'[k])
    BY <1>2, <2>1, <2>2, <2>3 DEF TimelyInv, Insert
  <2>5. \A v \in DOMAIN wal', k \in Kinds : Timely(wal'[v][k])
    BY <1>2, <2>1, <2>2, LogGrows DEF TimelyInv
  <2> QED
    BY <2>4, <2>5 DEF TimelyInv, Timely, Insert
<1>8. CASE Close \/ Checkpoint
  <2>1. UNCHANGED buffer /\ (wal' = wal \/ wal' = <<Database>>)
    BY <1>8 DEF Close, Checkpoint
  <2>2. Database' = Database /\ Database = wal[Len(wal)] /\ Len(wal) \in DOMAIN wal
    BY <2>1, DatabaseAfter DEF Database, DataInv
  <2>3. \A v \in DOMAIN wal' : \E u \in DOMAIN wal : wal'[v] = wal[u]
    BY <2>1, <2>2
  <2>4. Insert(Database)' = Insert(Database)
    BY <2>1, <2>2 DEF Insert
  <2> QED
    BY <1>2, <2>3, <2>4 DEF TimelyInv, Timely
<1>9. ASSUME NEW up \in BOOLEAN, Exit(up) \/ Crash(up) \/ PowerCut(up) PROVE TimelyInv'
  <2>1. /\ buffer' = EmptyBuffer
        /\ wal' = wal \/ \E n \in 1 .. Len(wal) : wal' = SubSeq(wal, 1, n)
    BY <1>9, Zenon DEF Exit, Crash, PowerCut, Start
  <2>2. ASSUME NEW n \in 1 .. Len(wal), wal' = SubSeq(wal, 1, n)
        PROVE  \A v \in DOMAIN wal' : v \in DOMAIN wal /\ wal'[v] = wal[v]
    BY <2>2 DEF DataInv
  <2> QED
    BY <1>3, <2>1, <2>2
<1> QED
  BY <1>4, <1>5, <1>6, <1>7, <1>8, <1>9 DEF Next

\* Newer rows have higher ids and are no earlier: ORDER BY at DESC reads the
\* table from its end.
LEMMA SortedRows ==
    ASSUME NEW s \in Seq(Records), Ascending(s), Timely(s), NEW i \in 1 .. Len(s)
    PROVE  ByTimeDescending(s)[i] = s[Len(s) + 1 - i]
<1> DEFINE n == Len(s)
           Newer(m) == {q \in Range(s) : Precedes(q, s[m])}
<1>1. n \in Nat /\ s \in [1 .. n -> Records] /\ Range(s) = {s[m] : m \in 1 .. n}
  BY DEF Range
<1>2. \A m \in 1 .. n : s[m].id \in Nat /\ s[m].at \in Nat
  <2>1. \A r \in Records : r.id \in Nat
    BY DEF Records
  <2>2. \A r \in Records : r.at \in Nat
    BY TelemetryAssumption DEF Records
  <2> QED
    BY <1>1, <2>1, <2>2
<1> HIDE DEF n
<1>3. \A j, m \in 1 .. n : j < m => s[j].id < s[m].id /\ s[j].at <= s[m].at
  BY <1>1 DEF Ascending, Timely
<1>4. \A j, m \in 1 .. n : j # m => s[j] # s[m]
  <2> TAKE j, m \in 1 .. n
  <2>1. j # m => j < m \/ m < j
    OBVIOUS
  <2> QED
    BY <1>2, <1>3, <2>1
<1>5. \A j, m \in 1 .. n : Precedes(s[j], s[m]) <=> j > m
  <2> TAKE j, m \in 1 .. n
  <2>1. j > m \/ j = m \/ j < m
    OBVIOUS
  <2> QED
    BY <1>2, <1>3, <2>1 DEF Precedes
<1>6. \A m \in 1 .. n : Cardinality(Newer(m)) = n - m
  <2> TAKE m \in 1 .. n
  <2>1. Newer(m) = {s[j] : j \in m + 1 .. n}
    <3>1. \A j \in 1 .. n : j > m <=> j \in m + 1 .. n
      BY <1>1
    <3>2. \A j \in m + 1 .. n : j \in 1 .. n
      BY <1>1
    <3> QED
      BY <1>1, <1>5, <3>1, <3>2
  <2>2. m \in 0 .. n
    BY <1>1
  <2>3. Cardinality({s[j] : j \in m + 1 .. n}) = n - m
    BY <1>1, <1>4, <2>2, CountLast
  <2> QED
    BY <2>1, <2>3
<1>7. /\ n + 1 - i \in 1 .. n /\ n - (n + 1 - i) = i - 1
      /\ \A m \in 1 .. n : n - m = i - 1 => m = n + 1 - i
  BY <1>1 DEF n
<1>8. ByTimeDescending(s)[i]
        = CHOOSE r \in Range(s) : Cardinality({q \in Range(s) : Precedes(q, r)}) = i - 1
  BY DEF ByTimeDescending
<1>9. /\ s[n + 1 - i] \in Range(s) /\ Cardinality(Newer(n + 1 - i)) = i - 1
      /\ \A r \in Range(s) :
            Cardinality({q \in Range(s) : Precedes(q, r)}) = i - 1 => r = s[n + 1 - i]
  <2>1. s[n + 1 - i] \in Range(s) /\ Cardinality(Newer(n + 1 - i)) = i - 1
    BY <1>1, <1>6, <1>7
  <2>2. ASSUME NEW r \in Range(s), Cardinality({q \in Range(s) : Precedes(q, r)}) = i - 1
        PROVE  r = s[n + 1 - i]
    <3>1. PICK m \in 1 .. n : r = s[m]
      BY <1>1
    <3>2. Cardinality(Newer(m)) = i - 1
      BY <2>2, <3>1
    <3> QED
      BY <1>6, <1>7, <3>1, <3>2
  <2> QED
    BY <2>1, <2>2
<1>10. (CHOOSE r \in Range(s) : Cardinality({q \in Range(s) : Precedes(q, r)}) = i - 1)
          = s[n + 1 - i]
  BY <1>9, Zenon
<1> QED
  BY <1>8, <1>10 DEF n

\* The answer from a buffer b and a table s: both from their ends.
LEMMA MergedRows ==
    ASSUME NEW s \in Seq(Records), NEW limit \in Nat \ {0}, buffer["decisions"] \in Seq(Records),
           Ascending(s), Timely(s)
    PROVE  LET answer == Merge(limit, FirstOf(ByTimeDescending(s), limit))
               all    == s \o buffer["decisions"]
           IN  /\ Len(answer) = IF Len(all) > limit THEN limit ELSE Len(all)
               /\ \A i \in 1 .. Len(answer) : answer[i] = all[Len(all) + 1 - i]
<1> DEFINE b == buffer["decisions"]
           back == Reverse(b)
           rows == ByTimeDescending(s)
           stored == FirstOf(rows, limit)
           both == back \o stored
           answer == FirstOf(both, limit)
           all == s \o b
           short == IF Len(s) > limit THEN limit ELSE Len(s)
           most == IF Len(b) + Len(s) > limit THEN limit ELSE Len(b) + Len(s)
<1>1. Len(s) \in Nat /\ Len(b) \in Nat
  OBVIOUS
<1>2. back \in Seq(Records) /\ Len(back) = Len(b) /\ \A i \in 1 .. Len(b) : back[i] = b[Len(b) - i + 1]
  BY DEF Reverse
<1>3. rows \in Seq(Records) /\ Len(rows) = Len(s) /\ \A i \in 1 .. Len(s) : rows[i] = s[Len(s) + 1 - i]
  <2> DEFINE row(i) ==
        CHOOSE r \in Range(s) : Cardinality({q \in Range(s) : Precedes(q, r)}) = i - 1
  <2>1. rows = [i \in 1 .. Len(s) |-> row(i)]
    BY DEF ByTimeDescending
  <2>2. \A i \in 1 .. Len(s) : rows[i] = s[Len(s) + 1 - i]
    BY SortedRows
  <2> HIDE DEF rows, row
  <2>3. \A i \in 1 .. Len(s) : row(i) \in Records
    BY <1>1, <2>1, <2>2
  <2>4. rows \in [1 .. Len(s) -> Records]
    BY <2>1, <2>3
  <2> QED
    BY <1>1, <2>2, <2>4
<1> HIDE DEF rows, back, b
<1>4. stored \in Seq(Records) /\ Len(stored) = short /\ \A i \in 1 .. short : stored[i] = rows[i]
  BY <1>1, <1>3 DEF FirstOf
<1> HIDE DEF stored
<1>5. /\ both \in Seq(Records) /\ Len(both) = Len(b) + short
      /\ \A i \in 1 .. Len(b) : both[i] = back[i]
      /\ \A i \in 1 .. Len(b) + short : i > Len(b) => both[i] = stored[i - Len(b)]
  <2>1. back \in Seq(Records) /\ stored \in Seq(Records)
    BY <1>2, <1>4
  <2>2. both \in Seq(Records) /\ Len(both) = Len(back) + Len(stored)
    BY <2>1
  <2>3. \A i \in 1 .. Len(back) : both[i] = back[i]
    BY <2>1
  <2>4. \A i \in 1 .. Len(back) + Len(stored) : i > Len(back) => both[i] = stored[i - Len(back)]
    BY <2>1
  <2> QED
    BY <1>2, <1>4, <2>2, <2>3, <2>4
<1> HIDE DEF both
<1>6. Len(answer) = most /\ \A i \in 1 .. most : i \in 1 .. Len(both) /\ answer[i] = both[i]
  BY <1>1, <1>5 DEF FirstOf
<1> HIDE DEF answer
<1>7. /\ Len(all) = Len(s) + Len(b)
      /\ \A i \in 1 .. Len(s) : all[i] = s[i]
      /\ \A i \in 1 .. Len(s) + Len(b) : i > Len(s) => all[i] = b[i - Len(s)]
  BY <1>1 DEF b
<1> HIDE DEF all
<1>8. ASSUME NEW i \in 1 .. most PROVE answer[i] = all[Len(all) + 1 - i]
  <2>1. CASE i <= Len(b)
    <3>1. /\ i \in 1 .. Len(b) /\ Len(s) + Len(b) + 1 - i \in 1 .. Len(s) + Len(b)
          /\ Len(s) + Len(b) + 1 - i > Len(s)
          /\ (Len(s) + Len(b) + 1 - i) - Len(s) = Len(b) - i + 1
      BY <1>1, <2>1
    <3>2. answer[i] = b[Len(b) - i + 1]
      BY <1>2, <1>5, <1>6, <3>1
    <3>3. all[Len(s) + Len(b) + 1 - i] = b[Len(b) - i + 1]
      BY <1>7, <3>1
    <3> QED
      BY <1>7, <3>2, <3>3
  <2>2. CASE i > Len(b)
    <3>1. /\ i \in 1 .. Len(b) + short /\ i - Len(b) \in 1 .. short /\ i - Len(b) \in 1 .. Len(s)
          /\ Len(s) + 1 - (i - Len(b)) = Len(s) + Len(b) + 1 - i
          /\ Len(s) + Len(b) + 1 - i \in 1 .. Len(s)
      BY <1>1, <2>2
    <3>2. answer[i] = s[Len(s) + Len(b) + 1 - i]
      BY <1>3, <1>4, <1>5, <1>6, <2>2, <3>1
    <3>3. all[Len(s) + Len(b) + 1 - i] = s[Len(s) + Len(b) + 1 - i]
      BY <1>7, <3>1
    <3> QED
      BY <1>7, <3>2, <3>3
  <2>3. i <= Len(b) \/ i > Len(b)
    BY <1>1
  <2> QED
    BY <2>1, <2>2, <2>3
<1>9. Len(answer) = IF Len(all) > limit THEN limit ELSE Len(all)
  BY <1>1, <1>6, <1>7
<1>10. Merge(limit, stored) = answer
  BY DEF Merge, answer, both, back, b
<1> QED
  BY <1>6, <1>8, <1>9, <1>10 DEF stored, rows, all, b

\* The ids of rows in order, counted: all of them, and those behind a row.
LEMMA CountIds ==
    ASSUME NEW s \in Seq(Records), Ascending(s)
    PROVE  LET ids == {r.id : r \in Range(s)}
           IN  /\ Cardinality(ids) = Len(s)
               /\ \A m \in 1 .. Len(s) :
                     s[m].id \in ids /\ Cardinality({d \in ids : d > s[m].id}) = Len(s) - m
<1> DEFINE n == Len(s)
           f == [i \in 1 .. n |-> s[i].id]
           ids == {r.id : r \in Range(s)}
<1>1. n \in Nat /\ DOMAIN s = 1 .. n /\ \A i \in 1 .. n : s[i] \in Records
  OBVIOUS
<1>2. \A i \in 1 .. n : s[i].id \in Nat
  <2>1. \A r \in Records : r.id \in Nat
    BY DEF Records
  <2> QED
    BY <1>1, <2>1
<1>3. \A i, j \in 1 .. n : i < j => s[i].id < s[j].id
  BY <1>1 DEF Ascending
<1>4. ids = {f[i] : i \in 1 .. n} /\ \A i \in 1 .. n : f[i] = s[i].id
  BY <1>1 DEF Range
<1>5. f \in [1 .. n -> Nat]
  BY <1>2
<1> HIDE DEF n, f, ids
<1>6. \A i, j \in 1 .. n : i # j => f[i] # f[j]
  <2> TAKE i, j \in 1 .. n
  <2>1. i # j => i < j \/ j < i
    OBVIOUS
  <2> QED
    BY <1>2, <1>3, <1>4, <2>1
<1>7. Cardinality(ids) = n
  <2>1. PICK m \in 0 .. n : m = 0
    BY <1>1
  <2>2. Cardinality({f[i] : i \in m + 1 .. n}) = n - m
    BY <1>1, <1>5, <1>6, CountLast
  <2>3. m + 1 .. n = 1 .. n /\ n - m = n
    BY <1>1, <2>1
  <2> QED
    BY <1>4, <2>2, <2>3
<1>8. ASSUME NEW m \in 1 .. n
      PROVE  s[m].id \in ids /\ Cardinality({d \in ids : d > s[m].id}) = n - m
  <2>1. \A i \in 1 .. n : f[i] > s[m].id <=> i \in m + 1 .. n
    <3> TAKE i \in 1 .. n
    <3>1. i > m \/ i = m \/ i < m
      OBVIOUS
    <3> QED
      BY <1>1, <1>2, <1>3, <1>4, <3>1
  <2>2. \A i \in m + 1 .. n : i \in 1 .. n
    BY <1>1
  <2>3. {d \in ids : d > s[m].id} = {f[i] : i \in m + 1 .. n}
    BY <1>4, <2>1, <2>2
  <2>4. m \in 0 .. n
    BY <1>1
  <2>5. Cardinality({f[i] : i \in m + 1 .. n}) = n - m
    BY <1>1, <1>5, <1>6, <2>4, CountLast
  <2> QED
    BY <1>4, <2>3, <2>5
<1> QED
  BY <1>7, <1>8 DEF n, ids

\* Whatever is stored and whatever is still in the buffer, and through trims,
\* failed flushes, restarts and power cuts, a request for the last decisions gets
\* the newest ones, newest first and without a gap, as long as the wall clock did
\* not step back between two of them (recent_decisions()).
THEOREM NewestComeFirst == Spec => []NewestFirst
<1>1. DataInv /\ OrderInv /\ TimelyInv => NewestFirst
  <2> SUFFICES ASSUME DataInv, OrderInv, TimelyInv, conn, ~ stepped, NEW limit \in 1 .. MaxRecords
               PROVE  LET answer == RecentDecisions(limit, TRUE)
                      IN  /\ Len(answer) = IF Cardinality(KnownDecisions) > limit THEN limit
                                           ELSE Cardinality(KnownDecisions)
                          /\ \A i \in 1 .. Len(answer) :
                                /\ answer[i].id \in KnownDecisions
                                /\ Cardinality({d \in KnownDecisions : d > answer[i].id}) = i - 1
    BY DEF NewestFirst
  <2> DEFINE s == Database["decisions"]
             b == buffer["decisions"]
             all == s \o b
             answer == RecentDecisions(limit, TRUE)
  <2>1. "decisions" \in Kinds
    BY TelemetryAssumption
  <2>2. s \in Seq(Records) /\ b \in Seq(Records) /\ limit \in Nat \ {0}
    BY <2>1, DatabaseType DEF DataInv, Tables
  <2>3. Ascending(s) /\ Ascending(all)
    BY <2>1, DatabaseOrdered, InsertOrdered DEF Ordered, Insert
  <2>4. Timely(s)
    BY <2>1 DEF TimelyInv, DataInv, Database
  <2>5. answer = Merge(limit, FirstOf(ByTimeDescending(s), limit))
    BY DEF RecentDecisions
  <2>6. /\ Len(answer) = IF Len(all) > limit THEN limit ELSE Len(all)
        /\ \A i \in 1 .. Len(answer) : answer[i] = all[Len(all) + 1 - i]
    <3> HIDE DEF s, answer
    <3> QED
      BY <2>2, <2>3, <2>4, <2>5, MergedRows, Zenon
  <2>7. all \in Seq(Records)
    BY <2>2
  <2>8. KnownDecisions = {r.id : r \in Range(all)}
    BY DEF KnownDecisions
  <2> HIDE DEF answer, all
  <2>9. /\ Cardinality(KnownDecisions) = Len(all)
        /\ \A m \in 1 .. Len(all) :
              /\ all[m].id \in KnownDecisions
              /\ Cardinality({d \in KnownDecisions : d > all[m].id}) = Len(all) - m
    BY <2>3, <2>7, <2>8, CountIds
  <2>10. ASSUME NEW i \in 1 .. Len(answer)
         PROVE  /\ answer[i].id \in KnownDecisions
                /\ Cardinality({d \in KnownDecisions : d > answer[i].id}) = i - 1
    <3>1. Len(all) + 1 - i \in 1 .. Len(all) /\ Len(all) - (Len(all) + 1 - i) = i - 1
      <4>1. Len(all) \in Nat
        BY <2>7
      <4> QED
        BY <2>2, <2>6, <4>1
    <3> QED
      BY <2>6, <2>9, <3>1
  <2> QED
    BY <2>6, <2>9, <2>10 DEF answer
<1> QED
  BY <1>1, DataInit, DataStep, OrderInit, OrderStep, TimelyInit, TimelyStep, PTL DEF Spec
=============================================================================
