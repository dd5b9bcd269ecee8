------------------------------ MODULE Registry ------------------------------
(***************************************************************************)
(* The atomic registry (wifucked.atomics.registry.Registry) shared by the  *)
(* daemon's loop thread and the API's request threads, and the state file  *)
(* it is remembered in. Every `with self._lock` block is one step; what    *)
(* persist() does outside the lock (open, write, replace) is a step each,  *)
(* interleaved with the other threads and with a crash of the process.     *)
(***************************************************************************)
EXTENDS Naturals, FiniteSets

CONSTANTS
    AtomicId,       \* identities of connections
    Wired,          \* those that _discover_usb reports; the others are Wi-Fi
    Loop,           \* the daemon's loop thread
    ApiThreads,     \* Flask's request threads
    None,           \* Python's None
    Empty, Torn,    \* file contents that are not JSON: nothing, and a mixture
    MaxDecisions,   \* bound on set_mode and set_role_and_mode calls (TLC only)
    MaxCrashes,     \* bound on crashes (TLC only)
    MaxFailures     \* bound on OSErrors of persist() (TLC only)

Threads == ApiThreads \union {Loop}
Inodes  == 1 .. Cardinality(Threads) + 2

Mode == {"normal", "backup", "unused"}

\* An Atomic, as far as the registry decides about it. Its capacity and cost
\* travel with it and are not told apart here.
Entry == [mode : Mode, role : {"wan", "lan_out"},
          ever_connected : BOOLEAN, present : BOOLEAN,
          health : {"good", "degraded", "down", "unknown", "absent"}]

\* What a row of the state file keeps of it.
Row == [mode : Mode, role : {"wan", "lan_out"},
        ever_connected : BOOLEAN]
Payload == UNION {[S -> Row] : S \in SUBSET AtomicId}

ASSUME RegistryAssumption ==
    /\ Wired \subseteq AtomicId
    /\ Loop \notin ApiThreads
    /\ IsFiniteSet(ApiThreads)
    /\ None \notin AtomicId \union Inodes \union Entry \union Payload
    /\ None \notin [atomic : AtomicId, mode : Mode] \union Mode
    /\ Empty # Torn /\ {Empty, Torn} \intersect Payload = {}
    /\ MaxDecisions \in Nat /\ MaxCrashes \in Nat /\ MaxFailures \in Nat

VARIABLES
    atomics,    \* Registry._atomics: Entry, or None when the id is unknown
    pc,         \* per thread: where it is in persist() or in _measure()
    job,        \* per thread: the decision its persist() follows, or None
    candidates, \* per thread: persist()'s snapshot, as the payload it becomes
    seen,       \* the atomic the loop's _measure() holds while it probes it
    fd,         \* per thread: the inode it opened for writing
    content,    \* what the inodes hold: a payload, Empty or Torn
    tmp, live,  \* the inodes named atomics.tmp and atomics.json, or None
    decisions, crashes, failures,   \* counted against their bounds
    settled,    \* history: the mode last decided, once its persist() returned
    overlapped  \* history: two persist() calls have overlapped

memory == <<atomics, seen>>
disk   == <<content, tmp, live>>
bounds == <<decisions, crashes, failures>>
vars   == <<memory, pc, job, candidates, fd, disk, bounds, settled, overlapped>>

Known(a)  == atomics[a] # None
Writing(t) == pc[t] \in {"snapshot", "open", "write", "replace"}

-----------------------------------------------------------------------------
(* The registry in memory *)

\* What discovery says of an atomic seen for the first time: a wired one is
\* NORMAL at once (ADR-022), a scanned network UNUSED.
Discovered(a, connected) ==
    [mode |-> IF a \in Wired THEN "normal" ELSE "unused", role |-> "wan",
     ever_connected |-> connected, present |-> TRUE,
     health |-> IF connected THEN "good"
                ELSE IF a \in Wired THEN "down" ELSE "unknown"]

Merge(known, fresh) ==
    [known EXCEPT !.present = TRUE,
                  !.health  = IF known.present THEN known.health ELSE fresh.health,
                  !.ever_connected = known.ever_connected \/ fresh.ever_connected]

\* Slip: an atomic that vanished keeps the health it had.
VanishQuietly(known) == [known EXCEPT !.present = FALSE]
Vanish(known) == [known EXCEPT !.present = FALSE, !.health = "absent"]

\* observe(): one sweep of discovery, `up` being what is connected or has carrier.
Observe(sweep, up) ==
    /\ pc[Loop] = "idle"
    /\ atomics' = [a \in AtomicId |->
            IF a \in sweep
            THEN LET fresh == Discovered(a, a \in up)
                 IN  IF Known(a) THEN Merge(atomics[a], fresh) ELSE fresh
            ELSE IF Known(a) /\ atomics[a].present THEN Vanish(atomics[a])
            ELSE atomics[a]]
    /\ UNCHANGED <<seen, pc, job, candidates, fd, disk, bounds, settled, overlapped>>

\* set_mode() and set_role_and_mode(): change the entry, then call persist().
Decide(t, a, entry) ==
    /\ pc[t] = "idle" /\ decisions < MaxDecisions
    /\ Known(a)
    /\ atomics' = [atomics EXCEPT ![a] = entry]
    /\ job'     = [job EXCEPT ![t] = [atomic |-> a, mode |-> entry.mode]]
    /\ pc'      = [pc EXCEPT ![t] = "snapshot"]
    /\ settled' = [settled EXCEPT ![a] = None]
    /\ decisions' = decisions + 1
    /\ overlapped' = (overlapped \/ \E u \in Threads : Writing(u))
    /\ UNCHANGED <<seen, candidates, fd, disk, crashes, failures>>

SetMode(t, a, mode) ==
    /\ t \in ApiThreads
    /\ Decide(t, a, [atomics[a] EXCEPT !.mode = mode])

\* Outcomes of the LAN-out pipeline (wifucked.lanout._run_pipeline).
Verdicts == {<<"wan", "normal">>, <<"wan", "unused">>, <<"lan_out", "unused">>}

SetRoleAndMode(a, verdict) ==
    /\ a \in Wired
    /\ Decide(Loop, a, [atomics[a] EXCEPT !.role = verdict[1], !.mode = verdict[2]])

\* Daemon._measure: present() hands the loop an atomic, the probe takes its
\* time, update_capacity and update_health write what came of it.
Probe(a) ==
    /\ pc[Loop] = "idle"
    /\ Known(a) /\ atomics[a].present
    /\ seen' = [atomic |-> a, mode |-> atomics[a].mode]
    /\ pc'   = [pc EXCEPT ![Loop] = "probing"]
    /\ UNCHANGED <<atomics, job, candidates, fd, disk, bounds, settled, overlapped>>

\* Slip: the atomic read before the probe is written back whole.
UpdateStale(a, health) == [atomics[a] EXCEPT !.mode = seen.mode, !.health = health]
Update(a, health) == [atomics[a] EXCEPT !.health = health]

Measured(health) ==
    /\ pc[Loop] = "probing"
    /\ \/ UNCHANGED atomics                    \* the prober had no answer
       \/ atomics' = [atomics EXCEPT ![seen.atomic] = Update(seen.atomic, health)]
    /\ pc'   = [pc EXCEPT ![Loop] = "idle"]
    /\ seen' = None
    /\ UNCHANGED <<job, candidates, fd, disk, bounds, settled, overlapped>>

-----------------------------------------------------------------------------
(* persist() *)

WorthPersisting(entry) == entry.mode # "unused" \/ entry.ever_connected

RowOf(entry) == [mode |-> entry.mode, role |-> entry.role,
                 ever_connected |-> entry.ever_connected]
Snapshot == [a \in {a \in AtomicId : Known(a) /\ WorthPersisting(atomics[a])}
               |-> RowOf(atomics[a])]

\* Daemon._slow_loop persists every few minutes, whatever changed.
SlowPersist ==
    /\ pc[Loop] = "idle"
    /\ pc'  = [pc EXCEPT ![Loop] = "snapshot"]
    /\ overlapped' = (overlapped \/ \E u \in Threads : Writing(u))
    /\ UNCHANGED <<memory, job, candidates, fd, disk, bounds, settled>>

TakeSnapshot(t) ==
    /\ pc[t] = "snapshot"
    /\ candidates' = [candidates EXCEPT ![t] = Snapshot]
    /\ pc' = [pc EXCEPT ![t] = "open"]
    /\ UNCHANGED <<memory, job, fd, disk, bounds, settled, overlapped>>

\* An inode without a name and without an open descriptor is free.
UsedInodes == {tmp, live} \union {fd[t] : t \in Threads}
FreeInode  == CHOOSE i \in Inodes : i \notin UsedInodes
Freed(c)   == [i \in Inodes |-> IF i \in UsedInodes' THEN c[i] ELSE Empty]

\* Slip: the temporary file must not exist yet.
OpenExclusive(t) ==
    /\ pc[t] = "open" /\ tmp = None
    /\ tmp' = FreeInode
    /\ fd'  = [fd EXCEPT ![t] = tmp']
    /\ content' = [content EXCEPT ![tmp'] = Empty]
    /\ pc' = [pc EXCEPT ![t] = "write"]
    /\ UNCHANGED <<memory, job, candidates, live, bounds, settled, overlapped>>

\* tmp.write_text() opens and truncates the one atomics.tmp of all threads.
Open(t) ==
    /\ pc[t] = "open"
    /\ tmp' = IF tmp = None THEN FreeInode ELSE tmp
    /\ fd'  = [fd EXCEPT ![t] = tmp']
    /\ content' = [content EXCEPT ![tmp'] = Empty]
    /\ pc' = [pc EXCEPT ![t] = "write"]
    /\ UNCHANGED <<memory, job, candidates, live, bounds, settled, overlapped>>

\* From offset 0: over another thread's longer payload it leaves that one's tail.
Write(t) ==
    /\ pc[t] = "write"
    /\ pc' = [pc EXCEPT ![t] = "replace"]
    /\ fd' = [fd EXCEPT ![t] = None]
    /\ candidates' = [candidates EXCEPT ![t] = None]
    /\ UNCHANGED <<memory, job, tmp, live, bounds, settled, overlapped>>
    /\ \E result \in IF content[fd[t]] = Empty THEN {candidates[t]}
                     ELSE {candidates[t], Torn} :
         content' = Freed([content EXCEPT ![fd[t]] = result])

\* persist() returns: to the API, to the classification step or to the loop.
Return(t) ==
    /\ pc'  = [pc EXCEPT ![t] = "idle"]
    /\ job' = [job EXCEPT ![t] = None]
    /\ fd'  = [fd EXCEPT ![t] = None]
    /\ candidates' = [candidates EXCEPT ![t] = None]

\* tmp.replace(state_path)
Replace(t) ==
    /\ pc[t] = "replace" /\ tmp # None
    /\ live' = tmp
    /\ tmp'  = None
    /\ Return(t)
    /\ settled' = IF job[t] # None /\ atomics[job[t].atomic].mode = job[t].mode
                  THEN [settled EXCEPT ![job[t].atomic] = job[t].mode]
                  ELSE settled
    /\ content' = Freed(content)
    /\ UNCHANGED <<memory, bounds, overlapped>>

\* Another thread renamed the file first: FileNotFoundError, logged and dropped.
ReplaceMissing(t) ==
    /\ pc[t] = "replace" /\ tmp = None
    /\ Return(t)
    /\ UNCHANGED <<memory, disk, bounds, settled, overlapped>>

\* Any other OSError (a full or read-only card), logged and dropped too.
Fail(t) ==
    /\ pc[t] \in {"open", "write", "replace"} /\ failures < MaxFailures
    /\ failures' = failures + 1
    /\ Return(t)
    /\ UNCHANGED <<memory, tmp, live, decisions, crashes, settled, overlapped>>
    /\ content' = Freed(IF pc[t] = "write" THEN [content EXCEPT ![fd[t]] = Torn]
                        ELSE content)

-----------------------------------------------------------------------------
(* Process start and crash *)

Unreadable(inode) == inode = None \/ content[inode] \in {Empty, Torn}

\* _load(): remembered atomics come back absent; an unreadable file is an
\* empty registry.
Load == [a \in AtomicId |->
    IF Unreadable(live) \/ a \notin DOMAIN content[live] THEN None
    ELSE LET row == content[live][a]
         IN  [mode |-> row.mode, role |-> row.role,
              ever_connected |-> row.ever_connected, present |-> FALSE,
              health |-> "absent"]]

\* The process dies at any point and systemd starts it again.
Crash ==
    /\ crashes < MaxCrashes
    /\ crashes' = crashes + 1
    /\ atomics' = Load
    /\ seen' = None
    /\ pc'   = [t \in Threads |-> "idle"]
    /\ job'  = [t \in Threads |-> None]
    /\ candidates' = [t \in Threads |-> None]
    /\ fd'   = [t \in Threads |-> None]
    /\ UNCHANGED <<tmp, live, decisions, failures, settled, overlapped>>
    /\ content' = Freed(content)

Init ==
    /\ atomics = [a \in AtomicId |-> None]
    /\ seen = None
    /\ pc   = [t \in Threads |-> "idle"]
    /\ job  = [t \in Threads |-> None]
    /\ candidates = [t \in Threads |-> None]
    /\ fd   = [t \in Threads |-> None]
    /\ content = [i \in Inodes |-> Empty]
    /\ tmp = None /\ live = None
    /\ decisions = 0 /\ crashes = 0 /\ failures = 0
    /\ settled = [a \in AtomicId |-> None]
    /\ overlapped = FALSE

Persist(t) == TakeSnapshot(t) \/ Open(t) \/ Write(t) \/ Replace(t) \/ ReplaceMissing(t)

Next ==
    \/ \E sweep \in SUBSET AtomicId : \E up \in SUBSET sweep : Observe(sweep, up)
    \/ \E t \in ApiThreads, a \in AtomicId, mode \in Mode :
          SetMode(t, a, mode)
    \/ \E a \in AtomicId, verdict \in Verdicts : SetRoleAndMode(a, verdict)
    \/ \E a \in AtomicId : Probe(a)
    \/ \E health \in {"good", "degraded"} : Measured(health)
    \/ SlowPersist
    \/ \E t \in Threads : Persist(t) \/ Fail(t)
    \/ Crash

Spec == Init /\ [][Next]_vars

\* Threads run, and the slow loop's turn comes however busy the loop is: it is
\* due by the clock and tick() looks at the clock on every pass.
Fairness == /\ \A t \in Threads : WF_vars(Persist(t))
            /\ WF_vars(\E health \in {"good", "degraded"} : Measured(health))
            /\ SF_vars(SlowPersist)

FairSpec == Spec /\ Fairness

-----------------------------------------------------------------------------
(* Properties *)

\* Every variable has the type the code gives it.
TypeOK ==
    /\ atomics \in [AtomicId -> Entry \union {None}]
    /\ seen \in [atomic : AtomicId, mode : Mode] \union {None}
    /\ pc \in [Threads -> {"idle", "probing", "snapshot", "open", "write", "replace"}]
    /\ job \in [Threads -> [atomic : AtomicId, mode : Mode]
                            \union {None}]
    /\ candidates \in [Threads -> Payload \union {None}]
    /\ fd \in [Threads -> Inodes \union {None}]
    /\ content \in [Inodes -> Payload \union {Empty, Torn}]
    /\ tmp \in Inodes \union {None} /\ live \in Inodes \union {None}
    /\ decisions \in 0 .. MaxDecisions /\ crashes \in 0 .. MaxCrashes
    /\ failures \in 0 .. MaxFailures
    /\ settled \in [AtomicId -> {"normal", "backup", "unused", None}]
    /\ overlapped \in BOOLEAN

\* What Allocator assumes of its inputs: an atomic is present exactly when its
\* health is not ABSENT, although discovery, the probe's late answer and a
\* restart each set health on their own.
PresenceMatchesHealth ==
    \A a \in AtomicId :
        Known(a) => (atomics[a].present <=> atomics[a].health # "absent")

\* The plug-and-play promise (ADR-002) as far as it holds: a choice of NORMAL
\* or BACKUP whose persist() returned is the mode of that atomic from then on,
\* through unplugging, probes that started before the choice, failed writes
\* and a crash at any step, as long as no two persist() calls overlapped.
ChoiceIsRemembered ==
    ~ overlapped =>
        \A a \in AtomicId :
            settled[a] \in {"normal", "backup"} /\ Known(a)
                => atomics[a].mode = settled[a]

\* Memory and disk agree in the end: once the user stops deciding and the
\* process stops crashing, the slow loop brings every remembered mode and role
\* to disk, whatever races and failures came before.
DiskCatchesUp ==
    <>[](/\ ~ Unreadable(live)
         /\ DOMAIN content[live] = DOMAIN Snapshot
         /\ \A a \in DOMAIN Snapshot : /\ content[live][a].mode = Snapshot[a].mode
                                       /\ content[live][a].role = Snapshot[a].role)
=============================================================================
