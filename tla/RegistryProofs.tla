--------------------------- MODULE RegistryProofs ---------------------------
(***************************************************************************)
(* Theorems about the registry, for any connections, any number of API     *)
(* threads, decisions, failed writes and crashes: presence and health      *)
(* agree, and a choice that was written is not lost.                       *)
(***************************************************************************)
EXTENDS Registry, TLAPS, FiniteSetTheorems

Jobs == [atomic : AtomicId, mode : Mode]
Places == {"idle", "probing", "snapshot", "open", "write", "replace"}

TypeInv ==
    /\ atomics \in [AtomicId -> Entry \union {None}]
    /\ pc \in [Threads -> Places] /\ job \in [Threads -> Jobs \union {None}]
    /\ seen \in Jobs \union {None} /\ overlapped \in BOOLEAN
    /\ candidates \in [Threads -> Payload \union {None}]
    /\ \A t \in Threads : pc[t] \in {"open", "write"} => candidates[t] \in Payload
    /\ fd \in [Threads -> Inodes \union {None}]
    /\ content \in [Inodes -> Payload \union {Empty, Torn}]
    /\ tmp \in Inodes \union {None} /\ live \in Inodes \union {None}
    /\ settled \in [AtomicId -> Mode \union {None}]

\* While the loop probes, what it probes stays present: only observe() makes it
\* vanish, and that is the loop's own.
ProbeInv ==
    pc[Loop] = "probing" =>
        seen # None /\ Known(seen.atomic) /\ atomics[seen.atomic].present

Chosen == {"normal", "backup"}

\* A payload holds a row with that mode, or all the modes that are settled, or
\* the one the thread's persist() was called for.
Keeps(payload, a, mode) == a \in DOMAIN payload /\ payload[a].mode = mode
Backed(payload) == \A a \in AtomicId : settled[a] \in Chosen => Keeps(payload, a, settled[a])
Carries(t, payload) ==
    job[t] # None /\ job[t].mode \in Chosen => Keeps(payload, job[t].atomic, job[t].mode)

\* One thread at a time is in persist(), and what it decided stands.
JobInv ==
    ~ overlapped =>
        /\ \A t, u \in Threads : Writing(t) /\ Writing(u) => t = u
        /\ \A t \in Threads : pc[t] # "write" => fd[t] = None
        /\ \A t \in Threads : job[t] # None =>
              /\ Writing(t)
              /\ Known(job[t].atomic) /\ atomics[job[t].atomic].mode = job[t].mode

\* What is on its way to the disk, and what is there, has every settled choice.
FileInv ==
    ~ overlapped =>
        /\ tmp # None => tmp # live
        /\ \A t \in Threads : pc[t] \in {"open", "write"} =>
              Backed(candidates[t]) /\ Carries(t, candidates[t])
        /\ \A t \in Threads : pc[t] = "write" => tmp # None /\ fd[t] = tmp /\ content[tmp] = Empty
        /\ \A t \in Threads : pc[t] = "replace" =>
              /\ tmp # None /\ content[tmp] \in Payload
              /\ Backed(content[tmp]) /\ Carries(t, content[tmp])
        /\ \A a \in AtomicId : settled[a] \in Chosen =>
              /\ Known(a) /\ atomics[a].mode = settled[a]
              /\ live # None /\ content[live] \in Payload
              /\ Keeps(content[live], a, settled[a])

RegistryInv == TypeInv /\ PresenceMatchesHealth /\ ProbeInv /\ JobInv /\ FileInv

-----------------------------------------------------------------------------
(* Entries and inodes *)

\* None is no entry, no job and no mode.
LEMMA NoneApart ==
    /\ None \notin Entry /\ None \notin Jobs /\ None \notin Mode /\ None \notin Inodes
    /\ None \notin Payload /\ Empty \notin Payload /\ Torn \notin Payload
BY RegistryAssumption DEF Jobs

\* What discovery says of a connection that is there.
LEMMA DiscoveredEntry ==
    ASSUME NEW a, NEW connected \in BOOLEAN
    PROVE  LET e == Discovered(a, connected)
           IN  e \in Entry /\ e.present /\ e.health # "absent"
BY DEF Discovered, Entry, Mode

LEMMA MergeEntry ==
    ASSUME NEW known \in Entry, NEW fresh \in Entry
    PROVE  LET e == Merge(known, fresh)
           IN  /\ e \in Entry /\ e.present /\ e.mode = known.mode
               /\ e.health = IF known.present THEN known.health ELSE fresh.health
<1>1. (known.ever_connected \/ fresh.ever_connected) \in BOOLEAN
  BY Zenon
<1> QED
  BY <1>1 DEF Merge, Entry

LEMMA VanishEntry ==
    ASSUME NEW known \in Entry
    PROVE  LET e == Vanish(known)
           IN  e \in Entry /\ ~ e.present /\ e.mode = known.mode /\ e.health = "absent"
BY DEF Vanish, Entry

\* What the registry makes of an entry in one sweep.
Swept(a, sweep, up) ==
    IF a \in sweep
    THEN LET fresh == Discovered(a, a \in up)
         IN  IF Known(a) THEN Merge(atomics[a], fresh) ELSE fresh
    ELSE IF Known(a) /\ atomics[a].present THEN Vanish(atomics[a])
    ELSE atomics[a]

\* An entry is good if presence and health agree.
Good(e) == e = None \/ (e \in Entry /\ (e.present <=> e.health # "absent"))

LEMMA SweptEntry ==
    ASSUME NEW a \in AtomicId, NEW sweep, NEW up, Good(atomics[a])
    PROVE  /\ Good(Swept(a, sweep, up))
           /\ Known(a) => Swept(a, sweep, up) # None /\ Swept(a, sweep, up).mode = atomics[a].mode
<1> DEFINE fresh == Discovered(a, a \in up)
<1>1. fresh \in Entry /\ fresh.present /\ fresh.health # "absent"
  <2>1. (a \in up) \in BOOLEAN
    OBVIOUS
  <2> QED
    BY <2>1, DiscoveredEntry
<1>2. Known(a) => atomics[a] \in Entry
  BY DEF Known, Good
<1> HIDE DEF fresh
<1>3. CASE a \in sweep /\ Known(a)
  <2>1. Swept(a, sweep, up) = Merge(atomics[a], fresh)
    BY <1>3 DEF Swept, fresh
  <2>2. /\ Merge(atomics[a], fresh) \in Entry /\ Merge(atomics[a], fresh).present
        /\ Merge(atomics[a], fresh).mode = atomics[a].mode
        /\ Merge(atomics[a], fresh).health
              = IF atomics[a].present THEN atomics[a].health ELSE fresh.health
    BY <1>1, <1>2, <1>3, MergeEntry
  <2> QED
    BY <1>1, <1>2, <1>3, <2>1, <2>2, NoneApart DEF Good, Known
<1>4. CASE a \in sweep /\ ~ Known(a)
  BY <1>1, <1>4 DEF Swept, Good, fresh
<1>5. CASE a \notin sweep /\ Known(a) /\ atomics[a].present
  <2>1. Swept(a, sweep, up) = Vanish(atomics[a])
    BY <1>5 DEF Swept
  <2>2. /\ Vanish(atomics[a]) \in Entry /\ ~ Vanish(atomics[a]).present
        /\ Vanish(atomics[a]).mode = atomics[a].mode /\ Vanish(atomics[a]).health = "absent"
    BY <1>2, <1>5, VanishEntry
  <2> QED
    BY <2>1, <2>2, NoneApart DEF Good
<1>6. CASE a \notin sweep /\ ~ (Known(a) /\ atomics[a].present)
  BY <1>6 DEF Swept, Known
<1> QED
  BY <1>3, <1>4, <1>5, <1>6

\* persist() always finds an inode for atomics.tmp: every thread holds one file
\* open at most, and one carries the name atomics.json.
LEMMA InodeIsFree ==
    ASSUME TypeInv, tmp = None
    PROVE  FreeInode \in Inodes /\ FreeInode \notin UsedInodes
<1> DEFINE opened == {fd[t] : t \in Threads}
           others == opened \union {live}
<1>1. IsFiniteSet(Threads) /\ Cardinality(Threads) \in Nat
  BY RegistryAssumption, FS_AddElement, FS_CardinalityType DEF Threads
<1>2. IsFiniteSet(opened) /\ Cardinality(opened) <= Cardinality(Threads)
  <2>1. fd \in Surjection(Threads, opened)
    BY DEF Surjection, TypeInv
  <2> QED
    BY <1>1, <2>1, FS_Surjection
<1>3. IsFiniteSet(others) /\ Cardinality(others) <= Cardinality(Threads) + 1
  <2>1. Cardinality(opened) \in Nat
    BY <1>2, FS_CardinalityType
  <2>2. /\ IsFiniteSet(others)
        /\ Cardinality(others) = IF live \in opened THEN Cardinality(opened)
                                 ELSE Cardinality(opened) + 1
    BY <1>2, FS_AddElement
  <2> QED
    BY <1>1, <1>2, <2>1, <2>2
<1>4. IsFiniteSet(Inodes) /\ Cardinality(Inodes) = Cardinality(Threads) + 2
  BY <1>1, FS_Interval DEF Inodes
<1>5. ~ (Inodes \subseteq others)
  BY <1>1, <1>3, <1>4, FS_Subset, FS_CardinalityType
<1>6. \E i \in Inodes : i \notin UsedInodes
  BY <1>5, NoneApart DEF UsedInodes
<1> QED
  BY <1>6 DEF FreeInode

-----------------------------------------------------------------------------
(* Types *)

\* What persist() takes of the registry is a payload with every mode in use.
LEMMA SnapshotPayload ==
    ASSUME TypeInv
    PROVE  /\ Snapshot \in Payload
           /\ \A a \in AtomicId : Known(a) /\ atomics[a].mode \in Chosen =>
                 Keeps(Snapshot, a, atomics[a].mode)
<1> DEFINE S == {a \in AtomicId : Known(a) /\ WorthPersisting(atomics[a])}
<1>1. \A a \in S : RowOf(atomics[a]) \in Row /\ RowOf(atomics[a]).mode = atomics[a].mode
  BY DEF TypeInv, Known, Entry, RowOf, Row
<1>2. Snapshot \in [S -> Row] /\ \A a \in S : Snapshot[a] = RowOf(atomics[a])
  BY <1>1 DEF Snapshot
<1>3. Snapshot \in Payload
  <2>1. S \in SUBSET AtomicId
    OBVIOUS
  <2> HIDE DEF S
  <2> QED
    BY <1>2, <2>1 DEF Payload
<1>4. \A a \in AtomicId : Known(a) /\ atomics[a].mode \in Chosen => a \in S
  BY DEF Chosen, WorthPersisting
<1> QED
  BY <1>1, <1>2, <1>3, <1>4 DEF Keeps

\* What _load() makes of the state file: absent entries with the modes it holds.
LEMMA LoadedEntry ==
    ASSUME TypeInv, NEW a \in AtomicId
    PROVE  /\ Good(Load[a])
           /\ Unreadable(live) \/ a \notin DOMAIN content[live] => Load[a] = None
           /\ ~ Unreadable(live) /\ a \in DOMAIN content[live] =>
                 Load[a] # None /\ Load[a].mode = content[live][a].mode
<1>1. CASE Unreadable(live) \/ a \notin DOMAIN content[live]
  BY <1>1 DEF Load, Good
<1>2. CASE ~ (Unreadable(live) \/ a \notin DOMAIN content[live])
  <2> DEFINE row == content[live][a]
             e == [mode |-> row.mode, role |-> row.role, ever_connected |-> row.ever_connected,
                   present |-> FALSE, health |-> "absent"]
  <2>1. content[live] \in Payload
    BY <1>2 DEF Unreadable, TypeInv
  <2>2. row \in Row
    BY <1>2, <2>1 DEF Payload
  <2>3. Load[a] = e
    BY <1>2 DEF Load
  <2>4. e \in Entry /\ e.mode = row.mode /\ ~ e.present /\ e.health = "absent"
    BY <2>2 DEF Row, Entry
  <2> QED
    BY <1>2, <2>3, <2>4, NoneApart DEF Good
<1> QED
  BY <1>1, <1>2

\* set_mode() and set_role_and_mode() leave presence and health alone.
LEMMA SetModeDecides ==
    ASSUME TypeInv, NEW t \in ApiThreads, NEW a \in AtomicId, NEW mode \in Mode,
           SetMode(t, a, mode)
    PROVE  \E u \in Threads, entry \in Entry :
              /\ entry.present = atomics[a].present /\ entry.health = atomics[a].health
              /\ Decide(u, a, entry)
<1> DEFINE entry == [atomics[a] EXCEPT !.mode = mode]
<1>1. atomics[a] \in Entry /\ t \in Threads
  BY DEF SetMode, Decide, Known, TypeInv, Threads
<1>2. entry \in Entry /\ entry.present = atomics[a].present /\ entry.health = atomics[a].health
  BY <1>1 DEF Entry
<1>3. Decide(t, a, entry)
  BY DEF SetMode
<1> HIDE DEF entry
<1> QED
  BY <1>1, <1>2, <1>3

LEMMA SetRoleDecides ==
    ASSUME TypeInv, NEW a \in AtomicId, NEW verdict \in Verdicts, SetRoleAndMode(a, verdict)
    PROVE  \E u \in Threads, entry \in Entry :
              /\ entry.present = atomics[a].present /\ entry.health = atomics[a].health
              /\ Decide(u, a, entry)
<1> DEFINE entry == [atomics[a] EXCEPT !.role = verdict[1], !.mode = verdict[2]]
<1>1. atomics[a] \in Entry /\ Loop \in Threads
  BY DEF SetRoleAndMode, Decide, Known, TypeInv, Threads
<1>2. verdict[1] \in {"wan", "lan_out"} /\ verdict[2] \in Mode
  BY DEF Verdicts, Mode
<1>3. entry \in Entry /\ entry.present = atomics[a].present /\ entry.health = atomics[a].health
  BY <1>1, <1>2 DEF Entry
<1>4. Decide(Loop, a, entry)
  BY DEF SetRoleAndMode
<1> HIDE DEF entry
<1> QED
  BY <1>1, <1>3, <1>4

LEMMA TypeStep == TypeInv /\ PresenceMatchesHealth /\ ProbeInv /\ [Next]_vars => TypeInv'
<1> SUFFICES ASSUME TypeInv, PresenceMatchesHealth, ProbeInv, [Next]_vars PROVE TypeInv'
  OBVIOUS
<1> USE NoneApart DEF TypeInv, memory, disk, bounds
<1>0. \A a \in AtomicId : Good(atomics[a])
  BY DEF PresenceMatchesHealth, Known, Good
<1>1. ASSUME NEW sweep, NEW up, Observe(sweep, up) PROVE TypeInv'
  <2>1. atomics' = [a \in AtomicId |-> Swept(a, sweep, up)]
    BY <1>1 DEF Observe, Swept
  <2>2. \A a \in AtomicId : Swept(a, sweep, up) \in Entry \union {None}
    BY <1>0, SweptEntry DEF Good
  <2> QED
    BY <1>1, <2>1, <2>2 DEF Observe
<1>2. ASSUME NEW t \in Threads, NEW a \in AtomicId, NEW entry \in Entry, Decide(t, a, entry)
      PROVE  TypeInv'
  <2>1. [atomic |-> a, mode |-> entry.mode] \in Jobs
    BY DEF Entry, Jobs
  <2>2. overlapped' \in BOOLEAN
    BY <1>2, Zenon DEF Decide
  <2> QED
    BY <1>2, <2>1, <2>2 DEF Decide, Places
<1>3. ASSUME NEW t \in ApiThreads, NEW a \in AtomicId, NEW mode \in Mode, SetMode(t, a, mode)
      PROVE  TypeInv'
  BY <1>2, <1>3, SetModeDecides
<1>4. ASSUME NEW a \in AtomicId, NEW verdict \in Verdicts, SetRoleAndMode(a, verdict)
      PROVE  TypeInv'
  BY <1>2, <1>4, SetRoleDecides
<1>5. ASSUME NEW a \in AtomicId, Probe(a) PROVE TypeInv'
  <2>1. [atomic |-> a, mode |-> atomics[a].mode] \in Jobs
    BY <1>5 DEF Probe, Known, Entry, Jobs
  <2> QED
    BY <1>5, <2>1 DEF Probe, Places
<1>6. ASSUME NEW health \in {"good", "degraded"}, Measured(health) PROVE TypeInv'
  <2>1. seen.atomic \in AtomicId /\ atomics[seen.atomic] \in Entry
    BY <1>6 DEF Measured, ProbeInv, Known, Jobs
  <2>2. Update(seen.atomic, health) \in Entry
    BY <2>1 DEF Update, Entry
  <2> QED
    BY <1>6, <2>1, <2>2 DEF Measured, Places
<1>7. CASE SlowPersist
  <2>1. overlapped' \in BOOLEAN
    BY <1>7, Zenon DEF SlowPersist
  <2> QED
    BY <1>7, <2>1 DEF SlowPersist, Places
<1>8. ASSUME NEW t \in Threads, TakeSnapshot(t) PROVE TypeInv'
  BY <1>8, SnapshotPayload DEF TakeSnapshot, Places
<1>9. ASSUME NEW t \in Threads, Open(t) PROVE TypeInv'
  <2>1. tmp' \in Inodes
    BY <1>9, InodeIsFree DEF Open
  <2> QED
    BY <1>9, <2>1 DEF Open, Places
<1>10. ASSUME NEW t \in Threads, Write(t) PROVE TypeInv'
  <2>1. PICK result : /\ result \in IF content[fd[t]] = Empty THEN {candidates[t]}
                                     ELSE {candidates[t], Torn}
                      /\ content' = Freed([content EXCEPT ![fd[t]] = result])
    BY <1>10 DEF Write
  <2> QED
    BY <1>10, <2>1 DEF Write, Freed, Places
<1>11. ASSUME NEW t \in Threads, Replace(t) \/ ReplaceMissing(t) PROVE TypeInv'
  BY <1>11 DEF Replace, ReplaceMissing, Return, Freed, Places, Jobs
<1>12. ASSUME NEW t \in Threads, Fail(t) PROVE TypeInv'
  BY <1>12 DEF Fail, Return, Freed, Places
<1>13. CASE Crash
  <2>1. \A a \in AtomicId : Load[a] \in Entry \union {None}
    BY LoadedEntry DEF Good
  <2>2. Load \in [AtomicId -> Entry \union {None}]
    BY <2>1 DEF Load
  <2> QED
    BY <1>13, <2>2 DEF Crash, Freed, Places
<1>14. CASE UNCHANGED vars
  BY <1>14 DEF vars
<1> QED
  BY <1>1, <1>3, <1>4, <1>5, <1>6, <1>7, <1>8, <1>9, <1>10, <1>11, <1>12, <1>13, <1>14
     DEF Next, Persist

-----------------------------------------------------------------------------
(* Presence and health *)

\* Everything a step can do to the entries: a sweep, a decision that leaves
\* presence and health alone, the health of the one that was probed, a restart.
EntriesStep ==
    \/ \E sweep, up : /\ pc[Loop] = "idle"
                      /\ atomics' = [a \in AtomicId |-> Swept(a, sweep, up)]
                      /\ UNCHANGED <<pc, seen, job, candidates, fd, disk, settled, overlapped>>
    \/ \E t \in Threads, a \in AtomicId, entry \in Entry :
          /\ entry.present = atomics[a].present /\ entry.health = atomics[a].health
          /\ Decide(t, a, entry)
    \/ \E health \in {"good", "degraded"} : Measured(health)
    \/ Crash
    \/ UNCHANGED atomics

LEMMA NextIsEntriesStep == TypeInv /\ [Next]_vars => EntriesStep
<1> SUFFICES ASSUME TypeInv, [Next]_vars PROVE EntriesStep
  OBVIOUS
<1>1. ASSUME NEW sweep, NEW up, Observe(sweep, up) PROVE EntriesStep
  BY <1>1 DEF Observe, Swept, EntriesStep
<1>2. ASSUME NEW t \in ApiThreads, NEW a \in AtomicId, NEW mode \in Mode, SetMode(t, a, mode)
      PROVE  EntriesStep
  BY <1>2, SetModeDecides DEF EntriesStep
<1>3. ASSUME NEW a \in AtomicId, NEW verdict \in Verdicts, SetRoleAndMode(a, verdict)
      PROVE  EntriesStep
  BY <1>3, SetRoleDecides DEF EntriesStep
<1>4. ASSUME NEW a \in AtomicId, Probe(a) PROVE EntriesStep
  BY <1>4 DEF Probe, EntriesStep
<1>5. ASSUME NEW t \in Threads, Persist(t) \/ Fail(t) PROVE EntriesStep
  <2>1. UNCHANGED atomics
    BY <1>5, Zenon DEF Persist, TakeSnapshot, Open, Write, Replace, ReplaceMissing, Fail, memory
  <2> QED
    BY <2>1 DEF EntriesStep
<1>6. CASE SlowPersist \/ UNCHANGED vars
  BY <1>6 DEF SlowPersist, vars, memory, EntriesStep
<1>7. CASE Crash \/ \E health \in {"good", "degraded"} : Measured(health)
  BY <1>7 DEF EntriesStep
<1> QED
  BY <1>1, <1>2, <1>3, <1>4, <1>5, <1>6, <1>7 DEF Next

LEMMA PresenceStep ==
    TypeInv /\ PresenceMatchesHealth /\ ProbeInv /\ [Next]_vars => PresenceMatchesHealth'
<1> SUFFICES ASSUME TypeInv, PresenceMatchesHealth, ProbeInv, [Next]_vars, NEW a \in AtomicId
             PROVE  Good(atomics'[a])
  BY DEF PresenceMatchesHealth, Known, Good
<1>0. \A b \in AtomicId : Good(atomics[b])
  BY DEF PresenceMatchesHealth, Known, Good, TypeInv
<1>1. CASE \E sweep, up : atomics' = [b \in AtomicId |-> Swept(b, sweep, up)]
  BY <1>0, <1>1, SweptEntry
<1>2. ASSUME NEW t \in Threads, NEW b \in AtomicId, NEW entry \in Entry,
             entry.present = atomics[b].present, entry.health = atomics[b].health,
             Decide(t, b, entry)
      PROVE  Good(atomics'[a])
  <2>1. atomics' = [atomics EXCEPT ![b] = entry] /\ atomics[b] # None
    BY <1>2 DEF Decide, Known
  <2> QED
    BY <1>0, <1>2, <2>1 DEF Good, TypeInv
<1>3. ASSUME NEW health \in {"good", "degraded"}, Measured(health) PROVE Good(atomics'[a])
  <2>1. /\ seen.atomic \in AtomicId /\ atomics[seen.atomic] \in Entry
        /\ atomics[seen.atomic].present
    BY <1>3 DEF Measured, ProbeInv, TypeInv, Known, Jobs
  <2>2. /\ Update(seen.atomic, health) \in Entry /\ Update(seen.atomic, health).present
        /\ Update(seen.atomic, health).health # "absent"
    BY <2>1 DEF Update, Entry
  <2>3. Good(Update(seen.atomic, health))
    BY <2>2 DEF Good
  <2> QED
    BY <1>0, <1>3, <2>1, <2>3 DEF Measured, TypeInv
<1>4. CASE Crash
  BY <1>4, LoadedEntry DEF Crash
<1>5. CASE UNCHANGED atomics
  BY <1>0, <1>5
<1> QED
  BY <1>1, <1>2, <1>3, <1>4, <1>5, NextIsEntriesStep DEF EntriesStep

LEMMA ProbeStep == TypeInv /\ ProbeInv /\ [Next]_vars => ProbeInv'
<1> SUFFICES ASSUME TypeInv, ProbeInv, [Next]_vars, pc'[Loop] = "probing"
             PROVE  (seen # None /\ Known(seen.atomic) /\ atomics[seen.atomic].present)'
  BY DEF ProbeInv
<1> USE NoneApart
<1>1. Loop \in Threads
  BY DEF Threads
<1>2. ASSUME NEW a \in AtomicId, Probe(a)
      PROVE  (seen # None /\ Known(seen.atomic) /\ atomics[seen.atomic].present)'
  <2>1. [atomic |-> a, mode |-> atomics[a].mode] \in Jobs
    BY <1>2 DEF Probe, Known, Entry, Jobs, TypeInv
  <2> QED
    BY <1>2, <2>1 DEF Probe, Known
<1>3. CASE pc[Loop] = "probing" /\ UNCHANGED <<atomics, seen>>
  BY <1>3 DEF ProbeInv, Known
<1>4. ASSUME pc[Loop] = "probing", UNCHANGED seen,
             NEW t \in Threads, NEW b \in AtomicId, NEW entry \in Entry,
             entry.present = atomics[b].present, Decide(t, b, entry)
      PROVE  (seen # None /\ Known(seen.atomic) /\ atomics[seen.atomic].present)'
  <2>1. seen # None /\ Known(seen.atomic) /\ atomics[seen.atomic].present
    BY <1>4 DEF ProbeInv
  <2>2. atomics' = [atomics EXCEPT ![b] = entry]
    BY <1>4 DEF Decide
  <2> QED
    BY <1>4, <2>1, <2>2 DEF Known, TypeInv, Jobs
<1>5. CASE \E a \in AtomicId : Probe(a)
  BY <1>2, <1>5
<1>6. CASE ~ \E a \in AtomicId : Probe(a)
  <2>1. pc[Loop] = "probing" /\ UNCHANGED seen
    <3> USE <1>1 DEF TypeInv, memory
    <3>1. ASSUME NEW sweep, NEW up, Observe(sweep, up) PROVE FALSE
      BY <3>1 DEF Observe
    <3>2. ASSUME NEW t \in Threads, NEW a, NEW entry, Decide(t, a, entry)
          PROVE  pc[Loop] = "probing" /\ UNCHANGED seen
      BY <3>2 DEF Decide
    <3>3. ASSUME NEW t \in Threads, Persist(t)
          PROVE  pc[Loop] = "probing" /\ UNCHANGED seen
      <4>1. UNCHANGED seen /\ \E place \in {"open", "write", "replace", "idle"} :
                                pc' = [pc EXCEPT ![t] = place]
        BY <3>3, Zenon DEF Persist, TakeSnapshot, Open, Write, Replace, ReplaceMissing, Return
      <4> QED
        BY <4>1
    <3>4. ASSUME NEW t \in Threads, Fail(t) PROVE pc[Loop] = "probing" /\ UNCHANGED seen
      BY <3>4 DEF Fail, Return
    <3>5. ASSUME NEW health, Measured(health) PROVE FALSE
      BY <3>5 DEF Measured
    <3>6. CASE SlowPersist \/ Crash
      BY <3>6 DEF SlowPersist, Crash
    <3>7. CASE UNCHANGED vars
      BY <3>7 DEF vars
    <3> QED
      BY <1>6, <3>1, <3>2, <3>3, <3>4, <3>5, <3>6, <3>7
         DEF Next, SetMode, SetRoleAndMode, Threads
  <2>2. ~ Crash /\ \A health : ~ Measured(health)
    BY <1>1 DEF Crash, Measured, TypeInv
  <2> QED
    BY <1>3, <1>4, <2>1, <2>2, NextIsEntriesStep DEF EntriesStep
<1> QED
  BY <1>5, <1>6

-----------------------------------------------------------------------------
(* Choices *)

\* No known connection is forgotten or changes its mode.
ModesKept ==
    \A a \in AtomicId : Known(a) => atomics'[a] # None /\ atomics'[a].mode = atomics[a].mode

\* Discovery and probing leave modes alone.
LEMMA SweepKeepsModes ==
    ASSUME TypeInv, PresenceMatchesHealth, NEW sweep, NEW up, Observe(sweep, up)
    PROVE  ModesKept
<1>1. atomics' = [a \in AtomicId |-> Swept(a, sweep, up)]
  BY DEF Observe, Swept
<1>2. \A a \in AtomicId : Good(atomics[a])
  BY DEF PresenceMatchesHealth, Known, Good, TypeInv
<1> QED
  BY <1>1, <1>2, SweptEntry DEF ModesKept

LEMMA ProbeKeepsModes ==
    ASSUME TypeInv, ProbeInv, NEW health \in {"good", "degraded"}, Measured(health)
    PROVE  ModesKept
<1>1. seen.atomic \in AtomicId /\ atomics[seen.atomic] \in Entry
  BY DEF Measured, ProbeInv, TypeInv, Known, Jobs
<1>2. /\ Update(seen.atomic, health) \in Entry
      /\ Update(seen.atomic, health).mode = atomics[seen.atomic].mode
  BY <1>1 DEF Update, Entry
<1> QED
  BY <1>1, <1>2, NoneApart DEF Measured, ModesKept, TypeInv, Known

LEMMA JobStep ==
    TypeInv /\ PresenceMatchesHealth /\ ProbeInv /\ JobInv /\ [Next]_vars => JobInv'
<1> SUFFICES ASSUME TypeInv, PresenceMatchesHealth, ProbeInv, JobInv, [Next]_vars PROVE JobInv'
  OBVIOUS
<1> USE NoneApart DEF JobInv, Writing
<1>1. ASSUME ModesKept, UNCHANGED <<job, fd, overlapped>>,
             \/ UNCHANGED pc
             \/ pc[Loop] = "probing" /\ pc' = [pc EXCEPT ![Loop] = "idle"]
      PROVE  JobInv'
  BY <1>1 DEF ModesKept, Known, TypeInv, Jobs, Threads
<1>2. ASSUME NEW sweep, NEW up, Observe(sweep, up) PROVE JobInv'
  BY <1>1, <1>2, SweepKeepsModes DEF Observe
<1>3. ASSUME NEW health \in {"good", "degraded"}, Measured(health) PROVE JobInv'
  BY <1>1, <1>3, ProbeKeepsModes DEF Measured
<1>4. ASSUME NEW t \in Threads, NEW a \in AtomicId, NEW entry \in Entry, Decide(t, a, entry)
      PROVE  JobInv'
  <2> SUFFICES ASSUME ~ overlapped' PROVE JobInv'
    OBVIOUS
  <2>1. ~ overlapped /\ \A u \in Threads : ~ Writing(u)
    BY <1>4, Zenon DEF Decide
  <2>2. /\ pc' = [pc EXCEPT ![t] = "snapshot"] /\ UNCHANGED fd /\ pc[t] = "idle"
        /\ job' = [job EXCEPT ![t] = [atomic |-> a, mode |-> entry.mode]]
        /\ atomics' = [atomics EXCEPT ![a] = entry]
    BY <1>4 DEF Decide
  <2>3. \A u \in Threads : u # t => job'[u] = None
    BY <2>1, <2>2 DEF TypeInv
  <2> QED
    BY <2>1, <2>2, <2>3 DEF TypeInv, Known
<1>5. ASSUME NEW t \in ApiThreads, NEW a \in AtomicId, NEW mode \in Mode, SetMode(t, a, mode)
      PROVE  JobInv'
  BY <1>4, <1>5, SetModeDecides
<1>6. ASSUME NEW a \in AtomicId, NEW verdict \in Verdicts, SetRoleAndMode(a, verdict)
      PROVE  JobInv'
  BY <1>4, <1>6, SetRoleDecides
<1>7. ASSUME NEW a \in AtomicId, Probe(a) PROVE JobInv'
  BY <1>7 DEF Probe, TypeInv, Threads, Known
<1>8. CASE SlowPersist
  <2> SUFFICES ASSUME ~ overlapped' PROVE JobInv'
    OBVIOUS
  <2>1. ~ overlapped /\ \A u \in Threads : ~ Writing(u)
    BY <1>8, Zenon DEF SlowPersist
  <2> QED
    BY <1>8, <2>1 DEF SlowPersist, TypeInv, Threads, Known, memory
<1>9. ASSUME NEW t \in Threads, TakeSnapshot(t) \/ Open(t) \/ Write(t) PROVE JobInv'
  <2>1. /\ UNCHANGED <<atomics, job, overlapped>> /\ Writing(t)
        /\ \/ pc' = [pc EXCEPT ![t] = "open"] /\ UNCHANGED fd /\ pc[t] = "snapshot"
           \/ pc' = [pc EXCEPT ![t] = "write"] /\ fd' = [fd EXCEPT ![t] = tmp']
           \/ pc' = [pc EXCEPT ![t] = "replace"] /\ fd' = [fd EXCEPT ![t] = None]
    BY <1>9 DEF TakeSnapshot, Open, Write, memory
  <2> QED
    BY <2>1 DEF TypeInv, Known
<1>10. ASSUME NEW t \in Threads, Replace(t) \/ ReplaceMissing(t) \/ Fail(t) PROVE JobInv'
  <2>1. UNCHANGED <<atomics, overlapped>> /\ Return(t)
    BY <1>10 DEF Replace, ReplaceMissing, Fail, memory
  <2> QED
    BY <2>1 DEF Return, TypeInv, Known
<1>11. CASE Crash
  BY <1>11 DEF Crash
<1>12. CASE UNCHANGED vars
  BY <1>12 DEF vars, memory, Known
<1> QED
  BY <1>2, <1>3, <1>5, <1>6, <1>7, <1>8, <1>9, <1>10, <1>11, <1>12 DEF Next, Persist

LEMMA FileStep ==
    TypeInv /\ PresenceMatchesHealth /\ ProbeInv /\ JobInv /\ FileInv /\ [Next]_vars => FileInv'
<1> SUFFICES ASSUME TypeInv, PresenceMatchesHealth, ProbeInv, JobInv, FileInv, [Next]_vars,
                    ~ overlapped'
             PROVE  FileInv'
  BY DEF FileInv
<1> USE NoneApart
<1>1. ASSUME ModesKept, UNCHANGED <<job, candidates, disk, fd, settled, overlapped>>,
             \A t \in Threads : pc'[t] \in {"open", "write", "replace"} => pc'[t] = pc[t]
      PROVE  FileInv'
  BY <1>1 DEF FileInv, ModesKept, Known, Backed, Carries, Keeps, disk
<1>2. ASSUME NEW sweep, NEW up, Observe(sweep, up) PROVE FileInv'
  BY <1>1, <1>2, SweepKeepsModes DEF Observe
<1>3. ASSUME NEW health \in {"good", "degraded"}, Measured(health) PROVE FileInv'
  BY <1>1, <1>3, ProbeKeepsModes DEF Measured, TypeInv
<1>4. ASSUME NEW t \in Threads, NEW a \in AtomicId, NEW entry \in Entry, Decide(t, a, entry)
      PROVE  FileInv'
  <2>1. ~ overlapped /\ \A u \in Threads : ~ Writing(u)
    BY <1>4, Zenon DEF Decide
  <2>2. /\ pc' = [pc EXCEPT ![t] = "snapshot"] /\ UNCHANGED disk
        /\ settled' = [settled EXCEPT ![a] = None]
        /\ atomics' = [atomics EXCEPT ![a] = entry]
    BY <1>4 DEF Decide
  <2>3. \A u \in Threads : pc'[u] \notin {"open", "write", "replace"}
    BY <2>1, <2>2 DEF TypeInv, Writing
  <2>4. \A b \in AtomicId : settled'[b] \in Chosen =>
            settled[b] = settled'[b] /\ atomics'[b] = atomics[b]
    BY <2>2 DEF TypeInv, Chosen, Mode
  <2> QED
    BY <2>1, <2>2, <2>3, <2>4 DEF FileInv, Known, Keeps, disk
<1>5. ASSUME NEW t \in ApiThreads, NEW a \in AtomicId, NEW mode \in Mode, SetMode(t, a, mode)
      PROVE  FileInv'
  BY <1>4, <1>5, SetModeDecides
<1>6. ASSUME NEW a \in AtomicId, NEW verdict \in Verdicts, SetRoleAndMode(a, verdict)
      PROVE  FileInv'
  BY <1>4, <1>6, SetRoleDecides
<1>7. ASSUME NEW a \in AtomicId, Probe(a) PROVE FileInv'
  BY <1>1, <1>7 DEF Probe, TypeInv, ModesKept, Known
<1>8. CASE SlowPersist
  <2>1. ~ overlapped /\ \A u \in Threads : ~ Writing(u)
    BY <1>8, Zenon DEF SlowPersist
  <2>2. \A u \in Threads : pc'[u] \notin {"open", "write", "replace"}
    BY <1>8, <2>1 DEF SlowPersist, TypeInv, Writing
  <2> QED
    BY <1>8, <2>1, <2>2 DEF SlowPersist, FileInv, Known, Keeps, disk, memory
<1>9. ASSUME NEW t \in Threads, TakeSnapshot(t) PROVE FileInv'
  <2>1. /\ ~ overlapped /\ Writing(t) /\ UNCHANGED <<atomics, job, fd, disk, settled>>
        /\ candidates' = [candidates EXCEPT ![t] = Snapshot]
        /\ pc' = [pc EXCEPT ![t] = "open"]
    BY <1>9 DEF TakeSnapshot, Writing, memory
  <2>2. \A u \in Threads : u # t => pc'[u] \notin {"open", "write", "replace"}
    BY <2>1 DEF JobInv, Writing, TypeInv
  <2>3. Backed(Snapshot)
    BY <2>1, SnapshotPayload DEF FileInv, Backed
  <2>4. Carries(t, Snapshot)
    BY <2>1, SnapshotPayload DEF JobInv, Carries, TypeInv, Jobs
  <2>5. Backed(candidates[t])' /\ Carries(t, candidates[t])'
    BY <2>1, <2>3, <2>4 DEF Backed, Carries, Keeps, TypeInv
  <2> QED
    BY <2>1, <2>2, <2>5 DEF FileInv, Known, Keeps, disk, TypeInv
<1>10. ASSUME NEW t \in Threads, Open(t) PROVE FileInv'
  <2>1. /\ ~ overlapped /\ pc[t] = "open"
        /\ UNCHANGED <<atomics, job, candidates, live, settled>>
        /\ fd' = [fd EXCEPT ![t] = tmp'] /\ content' = [content EXCEPT ![tmp'] = Empty]
        /\ pc' = [pc EXCEPT ![t] = "write"]
    BY <1>10 DEF Open, memory
  <2>2. tmp' \in Inodes /\ tmp' # live
    BY <1>10, <2>1, InodeIsFree DEF Open, UsedInodes, FileInv, TypeInv
  <2>3. \A u \in Threads : u # t => pc'[u] \notin {"open", "write", "replace"}
    BY <2>1 DEF JobInv, Writing, TypeInv
  <2>4. Backed(candidates[t])' /\ Carries(t, candidates[t])'
    BY <2>1 DEF FileInv, Backed, Carries, Keeps
  <2>5. live # None => content'[live] = content[live]
    BY <2>1, <2>2 DEF TypeInv
  <2> QED
    BY <2>1, <2>2, <2>3, <2>4, <2>5 DEF FileInv, Known, Keeps, TypeInv
<1>11. ASSUME NEW t \in Threads, Write(t) PROVE FileInv'
  <2>1. /\ ~ overlapped /\ pc[t] = "write" /\ pc' = [pc EXCEPT ![t] = "replace"]
        /\ UNCHANGED <<atomics, job, tmp, live, settled>>
    BY <1>11 DEF Write, memory
  <2>2. tmp # None /\ fd[t] = tmp /\ content[tmp] = Empty /\ tmp # live
    BY <2>1 DEF FileInv
  <2>3. content' = Freed([content EXCEPT ![tmp] = candidates[t]])
    BY <1>11, <2>2 DEF Write
  <2>4. content'[tmp] = candidates[t] /\ (live # None => content'[live] = content[live])
    BY <2>1, <2>2, <2>3 DEF Freed, UsedInodes, TypeInv
  <2>5. \A u \in Threads : u # t => pc'[u] \notin {"open", "write", "replace"}
    BY <2>1 DEF JobInv, Writing, TypeInv
  <2>6. candidates[t] \in Payload /\ Backed(candidates[t]) /\ Carries(t, candidates[t])
    BY <2>1 DEF FileInv, TypeInv
  <2>7. Backed(content[tmp])' /\ Carries(t, content[tmp])'
    BY <2>1, <2>4, <2>6 DEF Backed, Carries, Keeps
  <2> QED
    BY <2>1, <2>2, <2>4, <2>5, <2>6, <2>7 DEF FileInv, Known, Keeps, TypeInv
<1>12. ASSUME NEW t \in Threads, Replace(t) PROVE FileInv'
  <2>1. /\ ~ overlapped /\ pc[t] = "replace" /\ pc' = [pc EXCEPT ![t] = "idle"]
        /\ UNCHANGED atomics /\ tmp' = None /\ live' = tmp /\ content' = Freed(content)
    BY <1>12 DEF Replace, Return, memory
  <2>2. /\ tmp # None /\ content[tmp] \in Payload
        /\ Backed(content[tmp]) /\ Carries(t, content[tmp])
    BY <2>1 DEF FileInv
  <2>3. content'[live'] = content[tmp]
    BY <2>1, <2>2 DEF Freed, UsedInodes, TypeInv
  <2>4. \A u \in Threads : pc'[u] \notin {"open", "write", "replace"}
    BY <2>1 DEF JobInv, Writing, TypeInv
  <2>5. ASSUME NEW a \in AtomicId, settled'[a] \in Chosen
        PROVE  Known(a) /\ atomics[a].mode = settled'[a] /\ Keeps(content[tmp], a, settled'[a])
    <3>1. CASE settled'[a] = settled[a]
      BY <2>1, <2>2, <2>5, <3>1 DEF FileInv, Backed
    <3>2. CASE job[t] # None /\ job[t].atomic = a /\ settled'[a] = job[t].mode
      BY <2>1, <2>2, <2>5, <3>2 DEF JobInv, Carries
    <3> QED
      BY <1>12, <3>1, <3>2 DEF Replace, TypeInv
  <2> QED
    BY <2>1, <2>2, <2>3, <2>4, <2>5 DEF FileInv, Known, Keeps
<1>13. ASSUME NEW t \in Threads, ReplaceMissing(t) PROVE FileInv'
  BY <1>13 DEF ReplaceMissing, FileInv
<1>14. ASSUME NEW t \in Threads, Fail(t) PROVE FileInv'
  <2>1. /\ ~ overlapped /\ Writing(t) /\ pc' = [pc EXCEPT ![t] = "idle"]
        /\ UNCHANGED <<atomics, tmp, live, settled>>
        /\ content' = Freed(IF pc[t] = "write" THEN [content EXCEPT ![fd[t]] = Torn] ELSE content)
    BY <1>14 DEF Fail, Return, memory, Writing
  <2>2. \A u \in Threads : pc'[u] \notin {"open", "write", "replace"}
    BY <2>1 DEF JobInv, Writing, TypeInv
  <2>3. live # None => content'[live] = content[live]
    BY <2>1 DEF Freed, UsedInodes, TypeInv, FileInv
  <2> QED
    BY <2>1, <2>2, <2>3 DEF FileInv, Known, Keeps
<1>15. CASE Crash
  <2>1. /\ ~ overlapped /\ UNCHANGED <<tmp, live, settled>> /\ content' = Freed(content)
        /\ atomics' = Load /\ pc' = [t \in Threads |-> "idle"]
    BY <1>15 DEF Crash
  <2>2. live # None => content'[live] = content[live]
    BY <2>1 DEF Freed, UsedInodes, TypeInv
  <2>3. ASSUME NEW a \in AtomicId, settled[a] \in Chosen
        PROVE  Load[a] # None /\ Load[a].mode = settled[a]
    BY <2>1, <2>3, LoadedEntry DEF FileInv, Unreadable, Keeps
  <2> QED
    BY <2>1, <2>2, <2>3 DEF FileInv, Known, Keeps
<1>16. CASE UNCHANGED vars
  BY <1>1, <1>16 DEF vars, memory, ModesKept, Known
<1> QED
  BY <1>2, <1>3, <1>5, <1>6, <1>7, <1>8, <1>9, <1>10, <1>11, <1>12, <1>13, <1>14, <1>15, <1>16
     DEF Next, Persist

-----------------------------------------------------------------------------
(* Theorems *)

LEMMA RegistryInit == Init => RegistryInv
<1> SUFFICES ASSUME Init PROVE RegistryInv
  OBVIOUS
<1> USE NoneApart DEF Init
<1>1. TypeInv
  BY DEF TypeInv, Places
<1>2. PresenceMatchesHealth /\ ProbeInv
  BY DEF PresenceMatchesHealth, ProbeInv, Known, Threads
<1>3. JobInv
  BY DEF JobInv, Writing
<1>4. FileInv
  BY DEF FileInv, Chosen, Mode
<1> QED
  BY <1>1, <1>2, <1>3, <1>4 DEF RegistryInv

\* Types, presence, and what memory, temporary file and state file hold.
THEOREM RegistryInvariant == Spec => []RegistryInv
<1>1. RegistryInv /\ [Next]_vars => RegistryInv'
  BY TypeStep, PresenceStep, ProbeStep, JobStep, FileStep DEF RegistryInv
<1> QED
  BY <1>1, RegistryInit, PTL DEF Spec

\* The registry hands out no absent connection with a health and no present one
\* without: the loop thread that sweeps is the thread that probes, so an answer
\* never arrives for a connection that vanished meanwhile, and _load() brings
\* everything back absent.
THEOREM PresenceAgrees == Spec => []PresenceMatchesHealth
<1>1. RegistryInv => PresenceMatchesHealth
  BY DEF RegistryInv
<1> QED
  BY <1>1, RegistryInvariant, PTL

\* A choice whose persist() replaced the state file survives sweeps, probes,
\* failed writes, later persists of other choices and crashes at any step, while
\* no two persist() calls overlap: the file that carries the name atomics.json is
\* never the one that is written.
THEOREM ChoiceSurvives == Spec => []ChoiceIsRemembered
<1>1. RegistryInv => ChoiceIsRemembered
  BY DEF RegistryInv, FileInv, Chosen, ChoiceIsRemembered
<1> QED
  BY <1>1, RegistryInvariant, PTL
=============================================================================
