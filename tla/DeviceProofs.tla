---------------------------- MODULE DeviceProofs ----------------------------
(***************************************************************************)
(* Theorems about the update, watchdog, boot and first-boot scripts: for   *)
(* any releases, thresholds and numbers of updates, boots and power cuts.  *)
(* The invariants say what each script has done at each of its commands,   *)
(* and so what the files look like wherever it is cut.                     *)
(***************************************************************************)
EXTENDS Device, TLAPS

\* The steps of a script that concern a reset.
Resets == {"reset", "reset_connections", "reset_counter", "restart"}
BootSteps == {"start", "write", "done", "failed"} \union Resets

TypeInv ==
    /\ slot \in [Version -> {None, "partial", "whole"}] /\ current \in Version
    /\ previous \in Version \union {None, Empty}
    /\ counter \in Nat \union {None, Empty} /\ count \in Nat /\ config \in Settings
    /\ wan \in {"user", "half", "default"} /\ key \in {None, "torn", "whole"}
    /\ uptime \in {0, 60, 90} /\ boot \in BootSteps
    /\ first \in {"start", "key", "sentinel", "done", "failed"}
    /\ daemon \in Version \union {None}
    /\ update \in {"idle", "clear", "make", "unpack", "system", "swap", "unmark", "truncate",
                   "remember", "restart"}
    /\ update # "idle" => target \in Version
    /\ update \in {"swap", "unmark", "truncate", "remember"} => found \in Version
    /\ watch \in {"idle", "probe", "mark", "judge", "revert", "restart", "done", "failed"}
    /\ revert \in Version \union {None}
    /\ watch = "revert" => revert \in Version
    /\ short \in 0 .. Threshold /\ rollbacks \in 0 .. 2

FlagInv ==
    /\ sentinel \in BOOLEAN /\ complete \in BOOLEAN /\ condemned \in BOOLEAN
    /\ racing \in BOOLEAN /\ moved \in BOOLEAN /\ miscounted \in BOOLEAN
    /\ fault \in BOOLEAN /\ faulted \in BOOLEAN /\ (fault => faulted)

\* The counter counts the short boots before this one, and this one once it is
\* written; after sixty seconds of a boot that went well there is none.
CountInv ==
    /\ uptime # 0 => boot \in {"done", "restart", "failed"}
    /\ uptime # 0 /\ boot # "failed" => counter \notin Nat
    /\ boot = "restart" => counter \notin Nat
    /\ counter \in Nat =>
          \/ counter <= short + (IF boot = "start" THEN 0 ELSE 1)
          \/ short = Threshold
    /\ boot \notin {"start", "failed"} => count <= short + 1 \/ short = Threshold
    /\ boot \in Resets => count >= Threshold

\* Half a reset is seen only with a counter that makes the next boot go on.
ResetInv ==
    /\ boot \in {"reset", "reset_connections"} => counter = count /\ count >= Threshold
    /\ wan = "half" /\ ~miscounted =>
          /\ boot \in {"start", "failed", "write", "reset", "reset_connections"}
          /\ boot \in {"start", "failed"} => counter \in Nat /\ counter >= Threshold
          /\ boot = "write" => count >= Threshold
    /\ boot = "write" => counter = Empty

\* The key is written only before the sentinel, and only once.
KeyInv == first = "key" => ~sentinel /\ key = "torn"

\* What the links and the scripts' variables name is whole, unless an update is
\* unpacking over it or has not ended doing so.
WholeInv ==
    /\ current \notin reused => slot[current] = "whole"
    /\ previous \in Version /\ previous \notin reused => slot[previous] = "whole"
    /\ watch = "revert" /\ revert \notin reused => slot[revert] = "whole"
    /\ update \in {"make", "unpack"} /\ target \in InUse => target \in reused
    /\ update \in {"system", "swap"} => slot[target] = "whole"
    /\ update \in {"swap", "unmark", "truncate", "remember"} /\ found \notin reused =>
          slot[found] = "whole"

\* An update and the watchdog do not overlap. A rollback makes `current` and
\* `previous` equal, which forbids the next one; a complete update has made
\* `previous` what `current` was before, which a rollback restores.
RollbackInv ==
    ~racing =>
        /\ update # "idle" => ~Validating
        /\ update \in {"unmark", "truncate", "remember"} =>
              rollbacks = 0 /\ found = before /\ ~complete /\ ~condemned
        /\ update = "swap" => found = current
        /\ rollbacks = 0 \/ (rollbacks = 1 /\ previous = current)
        /\ watch = "revert" => rollbacks = 0 /\ revert = previous
        /\ complete => previous = before /\ before \in Version
        /\ watch \in {"idle", "probe", "mark", "judge"} => ~condemned
        /\ watch \in {"restart", "done"} /\ condemned /\ complete => current = before

\* The daemon is bound to the port of config.json, and so is the watchdog, until
\* that port is edited.
ListenInv ==
    /\ daemon # None => boot \in {"done", "failed"} /\ listen \in Settings
    /\ daemon # None /\ ~moved => listen.port = config.port
    /\ watch # "idle" \/ update # "idle" => daemon # None
    /\ watch \in {"probe", "judge"} /\ ~moved => port = config.port

DeviceInv ==
    /\ TypeInv /\ FlagInv /\ CountInv /\ ResetInv /\ KeyInv /\ WholeInv
    /\ RollbackInv /\ ListenInv /\ NoFalseAlarm

-----------------------------------------------------------------------------
(* Types *)

\* The two marks for missing contents are no version, no number and no content.
LEMMA MarksApart ==
    /\ None \notin Version /\ Empty \notin Version /\ None \notin Nat /\ Empty \notin Nat
    /\ None \notin {"partial", "torn", "whole"} /\ None # Empty
BY DeviceAssumption

\* A freshly flashed image satisfies every part of the invariant.
LEMMA DeviceInit == Init => DeviceInv
<1> SUFFICES ASSUME Init PROVE DeviceInv
  OBVIOUS
<1> USE DeviceAssumption DEF Init
<1>1. TypeInv
  BY DEF TypeInv, BootSteps, Resets, Defaults, Settings
<1>2. FlagInv
  BY Zenon DEF FlagInv
<1>3. CountInv /\ ResetInv
  BY MarksApart DEF CountInv, ResetInv, Resets
<1>6. KeyInv
  BY MarksApart DEF KeyInv
<1>4. WholeInv /\ RollbackInv
  BY DEF WholeInv, RollbackInv, Validating
<1>5. ListenInv /\ NoFalseAlarm
  BY DEF ListenInv, NoFalseAlarm
<1> QED
  BY <1>1, <1>2, <1>3, <1>4, <1>5, <1>6 DEF DeviceInv

\* The boot scripts, the updater, the watchdog and the outside keep the types.
LEMMA TypeStep == TypeInv /\ [Next]_vars => TypeInv'
<1> SUFFICES ASSUME TypeInv, [Next]_vars PROVE TypeInv'
  OBVIOUS
<1> USE DeviceAssumption DEF TypeInv, release, state, boots, service, updater, watcher, swaps, marks
<1>1. CASE Booting
  BY <1>1 DEF Booting, Boots, Firsts, StartDaemon, BootSteps, Resets, ReadCount, WriteCount,
       BootFails, ResetState, ResetConnections, ResetCounter, FirstBoot, WriteKey, TouchSentinel,
       FirstFails, ServiceStarts, SixtySeconds, NinetySeconds, Defaults, Settings
<1>2. CASE Updating
  BY <1>2 DEF Updating, Updates, StartDaemon, BeginUpdate, UpdateFails, Clear, Make, Unpack,
       ReadLink, Swap, Unmark, Truncate, Remember, UpdateRestart
<1>3. CASE Watching
  <2>1. CASE StartWatch \/ NoCurl \/ ProbeHealthy \/ ProbeFails \/ Mark \/ WatchFails
             \/ WatchRestart
    BY <2>1 DEF Watches, StartDaemon, StartWatch, NoCurl, ProbeHealthy, ProbeFails, Mark,
       WatchFails, WatchRestart
  <2>2. CASE Judge
    BY <2>2 DEF Judge, MayRevert
  <2>3. CASE Revert
    <3>1. rollbacks' \in 0 .. 2
      BY <2>3 DEF Revert
    <3>2. current' \in Version
      <4>1. watch = "revert" /\ current' = revert
        BY <2>3 DEF Revert, Watches
      <4> QED
        BY <4>1
    <3> QED
      BY <2>3, <3>1, <3>2 DEF Watches, Revert
  <2> QED
    BY <1>3, <2>1, <2>2, <2>3 DEF Watching
<1>4. CASE Outside
  BY <1>4 DEF Outside, Edit, DaemonRestarts, Fault, FaultEnds, PowerCut, StartDaemon, BootSteps
<1>5. CASE UNCHANGED vars
  BY <1>5 DEF vars
<1> QED
  BY <1>1, <1>2, <1>3, <1>4, <1>5 DEF Next

-----------------------------------------------------------------------------
(* What a script leaves alone *)

\* The boot scripts touch neither the releases nor another script.
LEMMA BootingFrame ==
    Booting => UNCHANGED <<release, updater, watcher, swaps, fault, short, faulted, racing, reused>>
BY DEF Booting, ReadCount, WriteCount, BootFails, ResetState, ResetConnections, ResetCounter,
   FirstBoot, WriteKey, TouchSentinel, FirstFails, ServiceStarts, SixtySeconds, NinetySeconds,
   service, marks

\* update_script.sh touches neither the boot state nor the watchdog.
LEMMA UpdatingFrame ==
    Updating => UNCHANGED <<state, boots, watcher, fault, short, faulted, miscounted>>
BY DEF Updating, BeginUpdate, UpdateFails, Clear, Make, Unpack, ReadLink, Swap, Unmark, Truncate,
   Remember, UpdateRestart, service, marks

\* watchdog.sh touches neither the boot state nor the updater nor a slot.
LEMMA WatchingFrame ==
    Watching => UNCHANGED <<slot, previous, state, boots, updater, fault, short, before, complete,
                            faulted, reused, miscounted>>
BY DEF Watching, StartWatch, NoCurl, ProbeHealthy, ProbeFails, Mark, Judge, WatchFails, Revert,
   WatchRestart, release, service, swaps, marks

\* Nothing outside the scripts touches the releases or the key.
LEMMA OutsideFrame ==
    Outside => UNCHANGED <<release, counter, key, sentinel, before, complete, rollbacks, racing,
                           reused>>
BY DEF Outside, Edit, DaemonRestarts, Fault, FaultEnds, PowerCut, state, swaps, marks

-----------------------------------------------------------------------------
(* bootcount.sh *)

\* What bootcount.sh counts.
LEMMA CountStep == TypeInv /\ CountInv /\ [Next]_vars => CountInv'
<1> SUFFICES ASSUME TypeInv, CountInv, [Next]_vars PROVE CountInv'
  OBVIOUS
<1> USE DeviceAssumption, MarksApart DEF CountInv
<1>1. CASE Booting
  <2> USE <1>1, BootingFrame DEF Booting, Boots, Resets, TypeInv, BootSteps
  <2>1. CASE ReadCount
    BY <2>1 DEF ReadCount
  <2>2. CASE WriteCount
    BY <2>2 DEF WriteCount
  <2>3. CASE BootFails
    BY <2>3 DEF BootFails
  <2>4. CASE ResetState \/ ResetConnections \/ ResetCounter
    BY <2>4 DEF ResetState, ResetConnections, ResetCounter
  <2>5. CASE FirstBoot \/ WriteKey \/ TouchSentinel \/ FirstFails \/ ServiceStarts
    BY <2>5 DEF FirstBoot, WriteKey, TouchSentinel, FirstFails, ServiceStarts, boots, state
  <2>6. CASE SixtySeconds
    BY <2>6 DEF SixtySeconds
  <2>7. CASE NinetySeconds
    BY <2>7 DEF NinetySeconds, state
  <2> QED
    BY <2>1, <2>2, <2>3, <2>4, <2>5, <2>6, <2>7
<1>2. CASE Updating \/ Watching
  BY <1>2, UpdatingFrame, WatchingFrame DEF state, boots
<1>3. CASE Outside
  <2>1. CASE PowerCut
    BY <2>1 DEF PowerCut, Resets, TypeInv, BootSteps, state
  <2>2. CASE Edit(config') \/ DaemonRestarts \/ Fault \/ FaultEnds
    BY <2>2 DEF Edit, DaemonRestarts, Fault, FaultEnds, boots, state, marks
  <2> QED
    BY <1>3, <2>1, <2>2 DEF Outside, Edit
<1>4. CASE UNCHANGED vars
  BY <1>4 DEF vars, state, boots, marks
<1> QED
  BY <1>1, <1>2, <1>3, <1>4 DEF Next

\* Where a factory reset can be cut.
LEMMA ResetStep == TypeInv /\ FlagInv /\ CountInv /\ ResetInv /\ ListenInv /\ [Next]_vars => ResetInv'
<1> SUFFICES ASSUME TypeInv, FlagInv, CountInv, ResetInv, ListenInv, [Next]_vars PROVE ResetInv'
  OBVIOUS
<1> USE DeviceAssumption, MarksApart DEF ResetInv
<1>1. CASE Booting
  <2> USE <1>1, BootingFrame DEF Booting, Boots, TypeInv, FlagInv
  <2>1. CASE ReadCount
    BY <2>1 DEF ReadCount, marks
  <2>2. CASE WriteCount
    BY <2>2 DEF WriteCount, marks
  <2>3. CASE BootFails
    BY <2>3 DEF BootFails, CountInv
  <2>4. CASE ResetState
    BY <2>4 DEF ResetState
  <2>5. CASE ResetConnections \/ ResetCounter
    BY <2>5 DEF ResetConnections, ResetCounter, marks
  <2>6. CASE FirstBoot \/ WriteKey \/ TouchSentinel \/ FirstFails \/ ServiceStarts
    BY <2>6 DEF FirstBoot, WriteKey, TouchSentinel, FirstFails, ServiceStarts, boots, state, marks
  <2>7. CASE SixtySeconds
    BY <2>7 DEF SixtySeconds, marks
  <2>8. CASE NinetySeconds
    BY <2>8 DEF NinetySeconds, state, marks
  <2> QED
    BY <2>1, <2>2, <2>3, <2>4, <2>5, <2>6, <2>7, <2>8
<1>2. CASE Updating \/ Watching
  BY <1>2, UpdatingFrame, WatchingFrame DEF state, boots
<1>3. CASE Outside
  <2>1. CASE PowerCut
    <3>1. ~miscounted' => ~miscounted /\ counter # Empty
      BY <2>1 DEF PowerCut
    <3>2. boot' = "start" /\ UNCHANGED <<counter, wan>>
      BY <2>1 DEF PowerCut, state
    <3>3. wan = "half" /\ ~miscounted /\ counter # Empty => counter \in Nat /\ counter >= Threshold
      BY DEF TypeInv
    <3> QED
      BY <3>1, <3>2, <3>3
  <2>2. CASE Edit(config')
    BY <2>2 DEF Edit, boots, marks, ListenInv, TypeInv
  <2>3. CASE DaemonRestarts \/ Fault \/ FaultEnds
    BY <2>3 DEF DaemonRestarts, Fault, FaultEnds, boots, state, marks
  <2> QED
    BY <1>3, <2>1, <2>2, <2>3 DEF Outside, Edit
<1>4. CASE UNCHANGED vars
  BY <1>4 DEF vars, state, boots, marks
<1> QED
  BY <1>1, <1>2, <1>3, <1>4 DEF Next

-----------------------------------------------------------------------------
(* firstboot.sh *)

\* firstboot.sh makes a key only where there is none, and no other script does.
LEMMA KeyStep ==
    TypeInv /\ KeyInv /\ [Next]_vars => KeyInv' /\ (key' # key => ~sentinel /\ key # "whole")
<1> SUFFICES ASSUME TypeInv, KeyInv, [Next]_vars
             PROVE  KeyInv' /\ (key' # key => ~sentinel /\ key # "whole")
  OBVIOUS
<1> USE MarksApart DEF KeyInv
<1>1. CASE Booting
  <2> USE <1>1 DEF Booting, Firsts, TypeInv
  <2>1. CASE FirstBoot
    BY <2>1 DEF FirstBoot
  <2>2. CASE WriteKey \/ TouchSentinel
    BY <2>2 DEF WriteKey, TouchSentinel
  <2>3. CASE ReadCount \/ WriteCount \/ BootFails \/ ResetState \/ ResetConnections \/ ResetCounter
    BY <2>3 DEF ReadCount, WriteCount, BootFails, ResetState, ResetConnections, ResetCounter
  <2>4. CASE FirstFails \/ ServiceStarts \/ SixtySeconds \/ NinetySeconds
    BY <2>4 DEF FirstFails, ServiceStarts, SixtySeconds, NinetySeconds, boots, state
  <2> QED
    BY <2>1, <2>2, <2>3, <2>4
<1>2. CASE Updating \/ Watching
  BY <1>2, UpdatingFrame, WatchingFrame DEF state, boots
<1>3. CASE Outside
  BY <1>3 DEF Outside, Edit, DaemonRestarts, Fault, FaultEnds, PowerCut, boots, state
<1>4. CASE UNCHANGED vars
  BY <1>4 DEF vars, state, boots
<1> QED
  BY <1>1, <1>2, <1>3, <1>4 DEF Next

-----------------------------------------------------------------------------
(* update_script.sh and watchdog.sh: the slots *)

\* The booleans stay booleans.
LEMMA FlagStep == FlagInv /\ [Next]_vars => FlagInv'
<1> SUFFICES ASSUME FlagInv, [Next]_vars PROVE FlagInv'
  OBVIOUS
<1> USE DEF FlagInv
<1>1. CASE Booting
  <2>1. UNCHANGED <<complete, condemned, racing, fault, faulted>>
    BY <1>1, BootingFrame DEF swaps
  <2>2. sentinel' = sentinel \/ sentinel' = TRUE
    BY <1>1 DEF Booting, ReadCount, WriteCount, BootFails, ResetState, ResetConnections,
       ResetCounter, FirstBoot, WriteKey, TouchSentinel, FirstFails, ServiceStarts, SixtySeconds,
       NinetySeconds, state
  <2>3. moved' = moved \/ moved' = (moved /\ watch # "idle")
    BY <1>1 DEF Booting, ReadCount, WriteCount, BootFails, ResetState, ResetConnections,
       ResetCounter, FirstBoot, WriteKey, TouchSentinel, FirstFails, ServiceStarts, SixtySeconds,
       NinetySeconds, service, StartDaemon
  <2>4. miscounted' = miscounted \/ miscounted' = TRUE \/ miscounted' = FALSE
    BY <1>1 DEF Booting, ReadCount, WriteCount, BootFails, ResetState, ResetConnections,
       ResetCounter, FirstBoot, WriteKey, TouchSentinel, FirstFails, ServiceStarts, SixtySeconds,
       NinetySeconds, marks
  <2> QED
    BY <2>1, <2>2, <2>3, <2>4, Zenon
<1>2. CASE Updating
  <2>1. UNCHANGED <<sentinel, miscounted, fault, faulted>>
    BY <1>2, UpdatingFrame DEF state
  <2>2. /\ moved' = moved \/ moved' = (moved /\ watch # "idle")
        /\ complete' = complete \/ complete' = TRUE \/ complete' = FALSE
        /\ condemned' = condemned \/ condemned' = FALSE
        /\ racing' = racing \/ racing' = (racing \/ Validating)
    BY <1>2 DEF Updating, BeginUpdate, UpdateFails, Clear, Make, Unpack, ReadLink, Swap, Unmark,
       Truncate, Remember, UpdateRestart, StartDaemon, service, swaps, marks
  <2> QED
    BY <2>1, <2>2, Zenon
<1>3. CASE Watching
  <2>1. UNCHANGED <<sentinel, miscounted, fault, faulted, complete>>
    BY <1>3, WatchingFrame DEF state
  <2>2. /\ moved' = moved \/ moved' = (moved /\ watch # "idle")
        /\ \/ condemned' = condemned
           \/ condemned' = (before \in Version /\ slot[before] = "whole")
        /\ racing' = racing \/ racing' = (racing \/ update # "idle")
    BY <1>3 DEF Watching, StartWatch, NoCurl, ProbeHealthy, ProbeFails, Mark, Judge, WatchFails,
       Revert, WatchRestart, StartDaemon, service, swaps, marks
  <2> QED
    BY <2>1, <2>2, Zenon
<1>4. CASE Outside
  <2>1. UNCHANGED <<sentinel, complete, racing>>
    BY <1>4, OutsideFrame
  <2>2. CASE \E c \in Settings : Edit(c)
    <3>1. PICK c \in Settings : Edit(c)
      BY <2>2
    <3>2. /\ UNCHANGED <<fault, faulted, condemned, miscounted>>
          /\ moved' = (moved \/ c.port # config.port)
      BY <3>1 DEF Edit, swaps, marks
    <3> QED
      BY <2>1, <3>2, Zenon
  <2>3. CASE DaemonRestarts
    BY <2>1, <2>3, Zenon DEF DaemonRestarts, StartDaemon, swaps
  <2>4. CASE Fault \/ FaultEnds
    BY <2>1, <2>4, Zenon DEF Fault, FaultEnds, swaps, marks
  <2>5. CASE PowerCut
    BY <2>1, <2>5, Zenon DEF PowerCut
  <2> QED
    BY <1>4, <2>2, <2>3, <2>4, <2>5 DEF Outside
<1>5. CASE UNCHANGED vars
  BY <1>5, Zenon DEF vars, state, service, swaps, marks
<1> QED
  BY <1>1, <1>2, <1>3, <1>4, <1>5 DEF Next

\* A slot is named only once it is whole; only an update takes it apart again.
LEMMA WholeStep == TypeInv /\ WholeInv /\ [Next]_vars => WholeInv'
<1> SUFFICES ASSUME TypeInv, WholeInv, [Next]_vars PROVE WholeInv'
  OBVIOUS
<1> USE MarksApart DEF WholeInv, InUse
<1>1. CASE Booting
  BY <1>1, BootingFrame DEF release, updater, watcher
<1>2. CASE Updating
  <2> USE <1>2, UpdatingFrame DEF Updating, Updates, watcher, TypeInv
  <2>1. CASE \E v \in Version : BeginUpdate(v)
    BY <2>1 DEF BeginUpdate, release
  <2>2. CASE UpdateFails \/ UpdateRestart
    BY <2>2 DEF UpdateFails, UpdateRestart, release, marks
  <2>3. CASE Clear
    BY <2>3 DEF Clear
  <2>4. CASE Make
    BY <2>4 DEF Make, marks
  <2>5. CASE Unpack
    BY <2>5 DEF Unpack
  <2>6. CASE ReadLink
    BY <2>6 DEF ReadLink, release, marks
  <2>7. CASE Swap
    BY <2>7 DEF Swap, marks
  <2>8. CASE Unmark \/ Truncate \/ Remember
    BY <2>8 DEF Unmark, Truncate, Remember, marks
  <2> QED
    BY <2>1, <2>2, <2>3, <2>4, <2>5, <2>6, <2>7, <2>8
<1>3. CASE Watching
  <2> USE <1>3, WatchingFrame DEF Watching, Watches, updater, TypeInv
  <2>1. CASE StartWatch \/ NoCurl \/ ProbeHealthy \/ ProbeFails \/ Mark \/ WatchFails
             \/ WatchRestart
    BY <2>1 DEF StartWatch, NoCurl, ProbeHealthy, ProbeFails, Mark, WatchFails, WatchRestart,
       release
  <2>2. CASE Judge
    BY <2>2 DEF Judge, MayRevert, release
  <2>3. CASE Revert
    BY <2>3 DEF Revert
  <2> QED
    BY <2>1, <2>2, <2>3
<1>4. CASE Outside
  <2>1. UNCHANGED <<updater, watcher>> \/ (update' = "idle" /\ watch' = "idle")
    BY <1>4 DEF Outside, Edit, DaemonRestarts, Fault, FaultEnds, PowerCut
  <2> QED
    BY <1>4, <2>1, OutsideFrame DEF release, updater, watcher
<1>5. CASE UNCHANGED vars
  BY <1>5 DEF vars, release, updater, watcher, marks
<1> QED
  BY <1>1, <1>2, <1>3, <1>4, <1>5 DEF Next

-----------------------------------------------------------------------------
(* watchdog.sh: the rollback *)

\* The watchdog reverts what the updater remembered, and then cannot again.
LEMMA RollbackStep == TypeInv /\ FlagInv /\ RollbackInv /\ [Next]_vars => RollbackInv'
<1> SUFFICES ASSUME TypeInv, FlagInv, RollbackInv, [Next]_vars PROVE RollbackInv'
  OBVIOUS
<1> USE MarksApart DEF RollbackInv, Validating
<1>1. CASE Booting
  BY <1>1, BootingFrame DEF release, updater, watcher, swaps
<1>2. CASE Updating
  <2> USE <1>2, UpdatingFrame DEF Updating, Updates, watcher, TypeInv, FlagInv
  <2>1. CASE \E v \in Version : BeginUpdate(v)
    <3>1. PICK v \in Version : BeginUpdate(v)
      BY <2>1
    <3>2. ~racing' => ~racing /\ ~Validating
      BY <3>1 DEF BeginUpdate
    <3>3. UNCHANGED <<release, swaps>> /\ update' = "clear"
      BY <3>1 DEF BeginUpdate
    <3> QED
      BY <3>2, <3>3 DEF release, swaps
  <2>2. CASE UpdateFails \/ UpdateRestart
    BY <2>2 DEF UpdateFails, UpdateRestart, release, swaps, marks
  <2>3. CASE Clear \/ Make \/ Unpack
    BY <2>3 DEF Clear, Make, Unpack, swaps, marks
  <2>4. CASE ReadLink
    BY <2>4 DEF ReadLink, release, swaps, marks
  <2>5. CASE Swap
    BY <2>5 DEF Swap, marks
  <2>6. CASE Unmark
    BY <2>6 DEF Unmark, swaps, marks
  <2>7. CASE Truncate
    BY <2>7 DEF Truncate, swaps, marks
  <2>8. CASE Remember
    BY <2>8 DEF Remember, marks
  <2> QED
    BY <2>1, <2>2, <2>3, <2>4, <2>5, <2>6, <2>7, <2>8
<1>3. CASE Watching
  <2> USE <1>3, WatchingFrame DEF Watching, Watches, updater, TypeInv, FlagInv
  <2>1. CASE StartWatch
    BY <2>1 DEF StartWatch, release, swaps
  <2>2. CASE NoCurl \/ ProbeHealthy \/ ProbeFails \/ Mark \/ WatchFails \/ WatchRestart
    BY <2>2 DEF NoCurl, ProbeHealthy, ProbeFails, Mark, WatchFails, WatchRestart, release, swaps,
       marks
  <2>3. CASE Judge
    BY <2>3 DEF Judge, MayRevert, release, marks
  <2>4. CASE Revert
    BY <2>4 DEF Revert, marks
  <2> QED
    BY <2>1, <2>2, <2>3, <2>4
<1>4. CASE Outside
  <2>1. \/ UNCHANGED <<updater, watcher, condemned>>
        \/ update' = "idle" /\ watch' = "idle" /\ condemned' = FALSE
    BY <1>4 DEF Outside, Edit, DaemonRestarts, Fault, FaultEnds, PowerCut, swaps
  <2> QED
    BY <1>4, <2>1, OutsideFrame DEF release, updater, watcher
<1>5. CASE UNCHANGED vars
  BY <1>5 DEF vars, release, updater, watcher, swaps, marks
<1> QED
  BY <1>1, <1>2, <1>3, <1>4, <1>5 DEF Next

\* The watchdog probes the port the daemon is bound to, until it is edited.
LEMMA ListenStep == TypeInv /\ FlagInv /\ ListenInv /\ [Next]_vars => ListenInv'
<1> SUFFICES ASSUME TypeInv, FlagInv, ListenInv, [Next]_vars PROVE ListenInv'
  OBVIOUS
<1> USE DeviceAssumption, MarksApart DEF ListenInv
<1>1. CASE Booting
  <2> USE <1>1, BootingFrame DEF Booting, watcher, updater
  <2>1. CASE ReadCount \/ WriteCount \/ BootFails
    BY <2>1 DEF ReadCount, WriteCount, BootFails, Boots, service
  <2>2. CASE ResetState \/ ResetConnections \/ ResetCounter
    BY <2>2 DEF ResetState, ResetConnections, ResetCounter, Boots, service
  <2>3. CASE FirstBoot \/ WriteKey \/ TouchSentinel \/ FirstFails \/ SixtySeconds \/ NinetySeconds
    BY <2>3 DEF FirstBoot, WriteKey, TouchSentinel, FirstFails, SixtySeconds, NinetySeconds,
       service, state
  <2>4. CASE ServiceStarts
    BY <2>4 DEF ServiceStarts, StartDaemon, boots, state, TypeInv
  <2> QED
    BY <2>1, <2>2, <2>3, <2>4
<1>2. CASE Updating
  <2> USE <1>2, UpdatingFrame DEF Updating, Updates, watcher, state, boots
  <2>1. CASE \E v \in Version : BeginUpdate(v)
    BY <2>1 DEF BeginUpdate, service
  <2>2. CASE UpdateRestart
    BY <2>2 DEF UpdateRestart, StartDaemon, TypeInv
  <2>3. CASE UpdateFails \/ Clear \/ Make \/ Unpack \/ ReadLink \/ Swap \/ Unmark \/ Truncate
             \/ Remember
    BY <2>3 DEF UpdateFails, Clear, Make, Unpack, ReadLink, Swap, Unmark, Truncate, Remember,
       service
  <2> QED
    BY <2>1, <2>2, <2>3
<1>3. CASE Watching
  <2> USE <1>3, WatchingFrame DEF Watching, Watches, state, boots, updater
  <2>1. CASE StartWatch
    BY <2>1 DEF StartWatch, service
  <2>2. CASE NoCurl \/ ProbeHealthy \/ ProbeFails \/ Mark \/ Judge \/ WatchFails \/ Revert
    BY <2>2 DEF NoCurl, ProbeHealthy, ProbeFails, Mark, Judge, WatchFails, Revert, service
  <2>3. CASE WatchRestart
    BY <2>3 DEF WatchRestart, StartDaemon, TypeInv
  <2> QED
    BY <2>1, <2>2, <2>3
<1>4. CASE Outside
  <2>1. CASE \E c \in Settings : Edit(c)
    <3>1. PICK c \in Settings : Edit(c)
      BY <2>1
    <3> QED
      BY <3>1 DEF Edit, boots, updater, watcher, FlagInv
  <2>2. CASE DaemonRestarts
    BY <2>2 DEF DaemonRestarts, StartDaemon, boots, state, updater, watcher, TypeInv
  <2>3. CASE Fault \/ FaultEnds
    BY <2>3 DEF Fault, FaultEnds, boots, state, updater, watcher
  <2>4. CASE PowerCut
    BY <2>4 DEF PowerCut
  <2> QED
    BY <1>4, <2>1, <2>2, <2>3, <2>4 DEF Outside
<1>5. CASE UNCHANGED vars
  BY <1>5 DEF vars, state, boots, service, updater, watcher
<1> QED
  BY <1>1, <1>2, <1>3, <1>4, <1>5 DEF Next

\* Between the last probe and the verdict nothing but a fault, a restart or an
\* update changes what the probe saw.
LEMMA AlarmStep ==
    TypeInv /\ FlagInv /\ RollbackInv /\ ListenInv /\ NoFalseAlarm /\ [Next]_vars => NoFalseAlarm'
<1> SUFFICES ASSUME TypeInv, FlagInv, RollbackInv, ListenInv, NoFalseAlarm, [Next]_vars,
                    (watch = "judge" /\ listen.host = "any" /\ ~moved /\ ~faulted /\ ~racing)'
             PROVE  ~Answers'
  BY DEF NoFalseAlarm
<1> USE MarksApart DEF Answers
<1>1. CASE Booting
  <2>1. watch = "judge" /\ ~faulted /\ ~racing /\ UNCHANGED <<slot, fault>>
    BY <1>1, BootingFrame DEF watcher, release
  <2>2. UNCHANGED <<daemon, listen, moved>>
    BY <1>1, <2>1 DEF Booting, ReadCount, WriteCount, BootFails, ResetState, ResetConnections,
       ResetCounter, FirstBoot, WriteKey, TouchSentinel, FirstFails, ServiceStarts, SixtySeconds,
       NinetySeconds, service, ListenInv
  <2> QED
    BY <2>1, <2>2 DEF NoFalseAlarm
<1>2. CASE Updating
  <2>1. watch = "judge" /\ ~faulted
    BY <1>2, UpdatingFrame DEF watcher
  <2>2. update # "idle" \/ racing'
    BY <1>2, <2>1 DEF Updating, Updates, BeginUpdate, UpdateFails, Clear, Make, Unpack, ReadLink,
       Swap, Unmark, Truncate, Remember, UpdateRestart, Validating
  <2>3. racing => racing'
    BY <1>2 DEF Updating, BeginUpdate, UpdateFails, Clear, Make, Unpack, ReadLink, Swap, Unmark,
       Truncate, Remember, UpdateRestart, marks, FlagInv
  <2> QED
    BY <2>1, <2>2, <2>3 DEF RollbackInv, Validating
<1>3. CASE Watching
  <2>1. ProbeFails
    BY <1>3 DEF Watching, Watches, StartWatch, NoCurl, ProbeHealthy, Mark, Judge, WatchFails,
       Revert, WatchRestart
  <2> QED
    BY <2>1, <1>3, WatchingFrame DEF ProbeFails, HealthOk, service, ListenInv
<1>4. CASE Outside
  <2>1. CASE \E c \in Settings : Edit(c)
    <3>1. PICK c \in Settings : Edit(c)
      BY <2>1
    <3> QED
      BY <3>1 DEF Edit, release, watcher, marks, NoFalseAlarm, FlagInv
  <2>2. CASE DaemonRestarts
    BY <2>2 DEF DaemonRestarts, watcher
  <2>3. CASE Fault \/ PowerCut
    BY <2>3 DEF Fault, PowerCut
  <2>4. CASE FaultEnds
    BY <2>4 DEF FaultEnds, watcher, marks, FlagInv
  <2> QED
    BY <1>4, <2>1, <2>2, <2>3, <2>4 DEF Outside
<1>5. CASE UNCHANGED vars
  BY <1>5 DEF vars, release, service, watcher, marks, NoFalseAlarm
<1> QED
  BY <1>1, <1>2, <1>3, <1>4, <1>5 DEF Next

-----------------------------------------------------------------------------
(* Theorems *)

\* Every part of the invariant holds wherever a script, or the power, stops.
THEOREM DeviceInvariant == Spec => []DeviceInv
<1>1. Init => DeviceInv
  BY DeviceInit
<1>2. DeviceInv /\ [Next]_vars => DeviceInv'
  BY TypeStep, FlagStep, CountStep, ResetStep, KeyStep, WholeStep, RollbackStep, ListenStep,
     AlarmStep DEF DeviceInv
<1> QED
  BY <1>1, <1>2, PTL DEF Spec

\* watchdog.sh rolls back once at most between two updates that do not overlap
\* it, over any number of boots: after a rollback `current` and `previous` are
\* the same slot, which its loop guard refuses.
THEOREM OneRollback == Spec => []RollbackOnce
<1>1. DeviceInv => RollbackOnce
  BY DEF DeviceInv, RollbackInv, RollbackOnce
<1> QED
  BY <1>1, DeviceInvariant, PTL

\* Wherever the power or a failing command ends update_script.sh or watchdog.sh,
\* `current` points to a release that was unpacked to the end, unless an update
\* took that very slot apart while it was in use and did not end: the link is
\* swapped after the unzip, and only to a slot that was linked before.
THEOREM LinkIsWhole == Spec => []CurrentIsWhole
<1>1. DeviceInv => CurrentIsWhole
  BY DEF DeviceInv, WholeInv, CurrentIsWhole
<1> QED
  BY <1>1, DeviceInvariant, PTL

\* An update that wrote `previous` and that the watchdog condemns, boots later
\* too, is undone if the release before it is still whole at the verdict: what
\* watchdog.sh reads from `previous` is what update_script.sh found linked before
\* its swap.
THEOREM UpdateIsUndone == Spec => []BadUpdateIsUndone
<1>1. DeviceInv => BadUpdateIsUndone
  BY DEF DeviceInv, RollbackInv, BadUpdateIsUndone
<1> QED
  BY <1>1, DeviceInvariant, PTL

\* watchdog.sh condemns no daemon that is bound to all addresses and answers, as
\* long as api_port is not edited under the running daemon: the port it reads from
\* config.json is then the port the daemon bound, however often it was restarted.
THEOREM AlarmIsTrue == Spec => []NoFalseAlarm
<1>1. DeviceInv => NoFalseAlarm
  BY DEF DeviceInv
<1> QED
  BY <1>1, DeviceInvariant, PTL

\* bootcount.sh resets the device only after Threshold - 1 boots in a row that
\* were cut within sixty seconds or in which it failed itself: a torn, a removed
\* or an unwritten counter only ever counts fewer of them.
THEOREM ResetNeedsShortBoots == Spec => []ResetIsDeliberate
<1>1. DeviceInv => ResetIsDeliberate
  BY DeviceAssumption DEF DeviceInv, TypeInv, CountInv, Resets, ResetIsDeliberate
<1> QED
  BY <1>1, DeviceInvariant, PTL

\* A factory reset that is cut is taken up by the next boot, and by a later one if
\* bootcount.sh fails in that, unless the write of the counter is what is cut or
\* fails: bootcount.sh removes the counter last.
THEOREM ResetIsResumed == Spec => []ResetIsFinished
<1>1. DeviceInv => ResetIsFinished
  BY DEF DeviceInv, ResetInv, ResetIsFinished
<1> QED
  BY <1>1, DeviceInvariant, PTL

\* No script changes the key file behind the sentinel, and none makes a whole key
\* again, wherever firstboot.sh is cut or fails.
THEOREM KeyIsNeverRemade == Spec => IdentityIsImmutable
<1>1. DeviceInv /\ [Next]_vars => [key' # key => ~sentinel /\ key # "whole"]_vars
  BY KeyStep DEF DeviceInv
<1> QED
  BY <1>1, DeviceInvariant, PTL DEF Spec, IdentityIsImmutable
=============================================================================
