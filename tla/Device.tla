------------------------------- MODULE Device -------------------------------
(***************************************************************************)
(* The shell scripts that install, validate and reset the appliance:       *)
(* update_script.sh, watchdog.sh, bootcount.sh and firstboot.sh, with the  *)
(* units that order them, on one disk and under power cuts. A command that *)
(* changes the disk is a step of its own; writes reach the disk in order.  *)
(* `ln -sfn` replaces a link at once, `echo > file` truncates and writes.  *)
(* All of them run under `set -e`: a command that needs room on the disk   *)
(* or another program may fail and end its script where it is.             *)
(***************************************************************************)
EXTENDS Naturals, FiniteSets

CONSTANTS
    Version,        \* releases, one slot under versions/ each
    Factory,        \* the release of the image
    Broken,         \* those whose daemon does not answer, once installed
    Hosts,          \* what api_host may be set to in config.json
    Threshold,      \* THRESHOLD of bootcount.sh
    Attempts,       \* HEALTH_ATTEMPTS of watchdog.sh
    None, Empty,    \* no file, and a file that was truncated and not written
    MaxEvents,      \* bound on updates, edits, restarts, faults and commands
                    \* that fail, together (TLC only)
    MaxCount        \* bound on what .bootcount reaches (TLC only)

ASSUME DeviceAssumption ==
    /\ Factory \in Version /\ Broken \subseteq Version
    /\ Hosts \subseteq {"any", "gateway"}
    /\ Threshold \in Nat \ {0} /\ Attempts \in Nat \ {0} /\ MaxEvents \in Nat
    /\ MaxCount \in Nat
    /\ {None, Empty} \intersect (Version \union Nat \union {"partial", "torn", "whole"}) = {}
    /\ None # Empty

VARIABLES
    slot,       \* versions/<v>: None, "partial" or "whole"
    current,    \* the slot `current` points to
    previous,   \* the file `previous`: a slot, Empty or None
    healthy,    \* the file `healthy` exists
    counter,    \* the file .bootcount: a number, Empty or None
    wan,        \* what the user configured (atomics.json, config.json and the
                \* connections of NetworkManager): "user", "half" removed by a
                \* reset, or "default"
    config,     \* api_host and api_port as config.json has them
    key,        \* the WireGuard private key: None, "torn" or "whole"
    sentinel,   \* .identity-generated exists
    uptime,     \* how long this boot has lasted: 0, 60 or 90 seconds
    boot,       \* where bootcount.sh is
    count,      \* its variable of that name
    first,      \* where firstboot.sh is
    daemon,     \* the version wifucked.service runs, or None: not started
    listen,     \* the address and port that daemon has bound
    update,     \* where update_script.sh is
    target,     \* the version it installs
    found,      \* its PREVIOUS
    watch,      \* where watchdog.sh is
    attempt,    \* its variable of that name
    port,       \* its PORT
    revert,     \* its REVERT_REAL
    fault,      \* something outside the release keeps the daemon from answering
    events,     \* what MaxEvents bounds
    short,      \* history: boots in a row before this one that ended within 60
                \* seconds, or in which bootcount.sh failed
    before,     \* history: where `current` pointed before the last swap
    complete,   \* history: the last swap was followed by the write of `previous`
    rollbacks,  \* history: rollbacks since the last swap
    condemned,  \* history: this boot's watchdog found the current version unhealthy
                \* while what ran before the last swap was still whole
    faulted,    \* history: there was a fault in this boot, or the daemon restarted
                \* by itself while the watchdog ran
    racing,     \* history: an update and the watchdog have overlapped
    reused,     \* history: slots an update removed while they were in use and has
                \* not unpacked
    moved,      \* history: api_port was edited since the daemon started, or since
                \* the watchdog did
    miscounted  \* history: the write of .bootcount was cut or failed, and no reset
                \* has begun since

release == <<slot, current, previous, healthy>>
state   == <<counter, wan, config, key, sentinel>>
boots   == <<uptime, boot, count, first>>
service == <<daemon, listen, fault, moved>>
updater == <<update, target, found>>
watcher == <<watch, attempt, port, revert>>
swaps   == <<before, complete, rollbacks, condemned>>
marks   == <<short, faulted, racing, reused, miscounted>>
vars == <<release, state, boots, service, updater, watcher, swaps, marks, events>>

Counted == events < MaxEvents /\ events' = events + 1

-----------------------------------------------------------------------------
(* Configuration and the daemon *)

\* load(): without config.json the daemon binds the gateway address of the LAN.
Defaults == [host |-> "gateway", port |-> "default"]
Settings == [host : Hosts \union {"gateway"}, port : {"default", "moved"}]

\* ExecStart runs what `current` points to, and binds what config.json says: the
\* daemon reads it only here.
StartDaemon ==
    daemon' = current /\ listen' = config /\ moved' = (moved /\ watch # "idle")

Answers == daemon # None /\ daemon \notin Broken /\ slot[daemon] = "whole" /\ ~fault

\* Slip: the probe ignores the port in config.json.
HealthOkOnDefaultPort == Answers /\ listen.host = "any" /\ listen.port = "default"
\* health_ok(): the service is active and /api/health answers on 127.0.0.1.
HealthOk == Answers /\ listen.host = "any" /\ listen.port = port

-----------------------------------------------------------------------------
(* bootcount.sh and firstboot.sh *)

Boots(s, t) == boot = s /\ boot' = t

\* Opening .bootcount for writing empties it; an empty file counts as zero.
ReadCount ==
    /\ Boots("start", "write")
    /\ count' = (IF counter \in Nat THEN counter ELSE 0) + 1
    /\ counter' = Empty
    /\ UNCHANGED <<release, wan, config, key, sentinel, uptime, first, service, updater, watcher,
                   swaps, marks, events>>

WriteCount ==
    /\ boot = "write"
    /\ counter' = count
    /\ boot' = IF count >= Threshold THEN "reset" ELSE "done"
    /\ UNCHANGED <<release, wan, config, key, sentinel, uptime, count, first, service, updater,
                   watcher, swaps, marks, events>>

\* What can fail: the directory and the log at the start, the write of the
\* counter, the lines the script logs before the reset and before it forks its
\* detached part, and `logger` after the reset.
BootFails ==
    /\ boot \in {"start", "write", "reset", "restart"} /\ boot' = "failed"
    /\ uptime = 0 /\ count < MaxCount /\ Counted
    /\ \/ UNCHANGED <<counter, miscounted>> /\ boot # "write"
       \/ UNCHANGED counter /\ miscounted' = TRUE /\ boot = "write"
       \/ counter' = count /\ boot = "write" /\ UNCHANGED miscounted
    /\ UNCHANGED <<release, wan, config, key, sentinel, uptime, count, first, service, updater,
                   watcher, swaps, short, faulted, racing, reused>>

\* Slip: the counter goes first.
ResetStateCounterFirst ==
    /\ Boots("reset", "reset_connections")
    /\ wan' = (IF wan = "default" THEN wan ELSE "half") /\ config' = Defaults
    /\ counter' = None /\ miscounted' = FALSE
    /\ UNCHANGED <<release, key, sentinel, uptime, count, first, service, updater, watcher, swaps,
                   short, faulted, racing, reused, events>>

\* The files of the daemon go, then the connections of NetworkManager ...
ResetState ==
    /\ Boots("reset", "reset_connections")
    /\ wan' = (IF wan = "default" THEN wan ELSE "half") /\ config' = Defaults
    /\ miscounted' = FALSE
    /\ UNCHANGED <<release, counter, key, sentinel, uptime, count, first, service, updater, watcher,
                   swaps, short, faulted, racing, reused, events>>

ResetConnections ==
    /\ Boots("reset_connections", "reset_counter")
    /\ wan' = "default"
    /\ UNCHANGED <<release, counter, config, key, sentinel, uptime, count, first, service, updater,
                   watcher, swaps, marks, events>>

\* ... and last the counter. The script then waits in `systemctl restart` for
\* the start of wifucked.service, which is ordered after the script: only a
\* `logger` that fails leaves "restart", and else the service does not start in
\* this boot.
ResetCounter ==
    /\ Boots("reset_counter", "restart")
    /\ counter' = None
    /\ UNCHANGED <<release, wan, config, key, sentinel, uptime, count, first, service, updater,
                   watcher, swaps, marks, events>>

Firsts(s, t) == first = s /\ first' = t

\* The LAN identity follows from the serial number and is written before the
\* key: writing it again writes the same. The key is made once, and the file is
\* there before `wg genkey` fills it.
\* Slip: only the sentinel guards the key.
FirstBootAgain ==
    /\ first = "start"
    /\ first' = IF sentinel THEN "done" ELSE "key"
    /\ key' = IF ~sentinel THEN "torn" ELSE key
    /\ UNCHANGED <<release, counter, wan, config, sentinel, uptime, boot, count, service, updater,
                   watcher, swaps, marks, events>>
FirstBoot ==
    /\ first = "start"
    /\ first' = IF sentinel THEN "done" ELSE IF key = None THEN "key" ELSE "sentinel"
    /\ key' = IF ~sentinel /\ key = None THEN "torn" ELSE key
    /\ UNCHANGED <<release, counter, wan, config, sentinel, uptime, boot, count, service, updater,
                   watcher, swaps, marks, events>>

WriteKey ==
    /\ Firsts("key", "sentinel")
    /\ key' = "whole"
    /\ UNCHANGED <<release, counter, wan, config, sentinel, uptime, boot, count, service, updater,
                   watcher, swaps, marks, events>>

TouchSentinel ==
    /\ Firsts("sentinel", "done")
    /\ sentinel' = TRUE
    /\ UNCHANGED <<release, counter, wan, config, key, uptime, boot, count, service, updater, watcher,
                   swaps, marks, events>>

\* What can fail: the python that writes the LAN identity, `wg genkey | tee`,
\* which leaves the file as it is, and the touch of the sentinel.
FirstFails ==
    /\ first \in {"start", "key", "sentinel"} /\ first' = "failed"
    /\ ~sentinel /\ Counted
    /\ UNCHANGED <<release, state, uptime, boot, count, service, updater, watcher, swaps, marks>>

\* wifucked.service is ordered after both scripts and requires neither.
ServiceStarts ==
    /\ boot \in {"done", "failed"} /\ first \in {"done", "failed"} /\ daemon = None
    /\ StartDaemon
    /\ UNCHANGED <<release, state, boots, fault, updater, watcher, swaps, marks, events>>

\* Slip: the detached part of bootcount.sh does not survive the script.
SixtySecondsUncleared ==
    /\ uptime = 0 /\ boot \in {"done", "restart", "failed"} /\ first \in {"done", "failed"}
    /\ uptime' = 60
    /\ UNCHANGED <<release, state, boot, count, first, service, updater, watcher, swaps, marks,
                   events>>

\* Sixty seconds: the detached part of bootcount.sh removes the counter, if the
\* script came to fork it.
SixtySeconds ==
    /\ uptime = 0 /\ boot \in {"done", "restart", "failed"} /\ first \in {"done", "failed"}
    /\ uptime' = 60
    /\ counter' = IF boot = "done" THEN None ELSE counter
    /\ UNCHANGED <<release, wan, config, key, sentinel, boot, count, first, service, updater, watcher,
                   swaps, marks, events>>

NinetySeconds ==
    /\ uptime = 60 /\ uptime' = 90
    /\ UNCHANGED <<release, state, boot, count, first, service, updater, watcher, swaps, marks,
                   events>>

-----------------------------------------------------------------------------
(* update_script.sh, run by a person or an OTA client *)

Updates(s, t) == update = s /\ update' = t

Validating == watch \notin {"idle", "done", "failed"}

BeginUpdate(v) ==
    /\ Updates("idle", "clear") /\ Counted
    /\ daemon # None
    /\ target' = v
    /\ racing' = (racing \/ Validating)
    /\ UNCHANGED <<release, state, boots, service, found, watcher, swaps, short, faulted, reused,
                   miscounted>>

\* A command that fails ends the script where it is, before the swap or after it.
UpdateFails ==
    /\ update \notin {"idle", "restart"} /\ update' = "idle" /\ Counted
    /\ UNCHANGED <<release, state, boots, service, target, found, watcher, swaps, marks>>

\* The slots that the links and the watchdog name.
InUse == {current, previous} \union (IF watch = "revert" THEN {revert} ELSE {})

\* `rm -rf` takes a slot apart and then away, mkdir makes it anew, and the unzip
\* is cut short or not.
Clear ==
    /\ update = "clear"
    /\ slot' = [slot EXCEPT ![target] = IF @ = "whole" THEN "partial" ELSE None]
    /\ update' = IF slot[target] = "whole" THEN "clear" ELSE "make"
    /\ reused' = IF target \in InUse THEN reused \union {target} ELSE reused
    /\ UNCHANGED <<current, previous, healthy, state, boots, service, target, found, watcher, swaps,
                   short, faulted, racing, miscounted, events>>

\* Slip: a failed unzip does not end the script.
MakeOnly ==
    /\ Updates("make", "system")
    /\ slot' = [slot EXCEPT ![target] = "partial"]
    /\ UNCHANGED <<current, previous, healthy, state, boots, service, target, found, watcher, swaps,
                   marks, events>>
Make ==
    /\ Updates("make", "unpack")
    /\ slot' = [slot EXCEPT ![target] = "partial"]
    /\ UNCHANGED <<current, previous, healthy, state, boots, service, target, found, watcher, swaps,
                   marks, events>>

Unpack ==
    /\ Updates("unpack", "system")
    /\ slot' = [slot EXCEPT ![target] = "whole"]
    /\ reused' = reused \ {target}
    /\ UNCHANGED <<current, previous, healthy, state, boots, service, target, found, watcher, swaps,
                   short, faulted, racing, miscounted, events>>

\* The system files are copied over (nothing here reads them), then PREVIOUS is
\* read from the link.
ReadLink ==
    /\ Updates("system", "swap")
    /\ found' = current
    /\ UNCHANGED <<release, state, boots, service, target, watcher, swaps, marks, events>>

Swap ==
    /\ Updates("swap", "unmark")
    /\ current' = target
    /\ before' = current /\ complete' = FALSE /\ rollbacks' = 0 /\ condemned' = FALSE
    /\ UNCHANGED <<slot, previous, healthy, state, boots, service, target, found, watcher, marks,
                   events>>

Unmark ==
    /\ Updates("unmark", "truncate")
    /\ healthy' = FALSE
    /\ UNCHANGED <<slot, current, previous, state, boots, service, target, found, watcher, swaps,
                   marks, events>>

Truncate ==
    /\ Updates("truncate", "remember")
    /\ previous' = Empty
    /\ UNCHANGED <<slot, current, healthy, state, boots, service, target, found, watcher, swaps,
                   marks, events>>

\* Slip: the link is read again after the swap.
RememberCurrent ==
    /\ Updates("remember", "restart")
    /\ previous' = current /\ complete' = TRUE
    /\ UNCHANGED <<slot, current, healthy, state, boots, service, target, found, watcher, before,
                   rollbacks, condemned, marks, events>>
Remember ==
    /\ Updates("remember", "restart")
    /\ previous' = found /\ complete' = TRUE
    /\ UNCHANGED <<slot, current, healthy, state, boots, service, target, found, watcher, before,
                   rollbacks, condemned, marks, events>>

UpdateRestart ==
    /\ Updates("restart", "idle")
    /\ StartDaemon
    /\ UNCHANGED <<release, state, boots, fault, target, found, watcher, swaps, marks, events>>

-----------------------------------------------------------------------------
(* watchdog.sh, once per boot, after 90 seconds and after wifucked.service *)

Watches(s, t) == watch = s /\ watch' = t

StartWatch ==
    /\ Watches("idle", "probe")
    /\ uptime = 90 /\ daemon # None
    /\ port' = config.port /\ attempt' = 1
    /\ racing' = (racing \/ update # "idle")
    /\ UNCHANGED <<release, state, boots, service, updater, revert, swaps, short, faulted, reused,
                   miscounted, events>>

\* Without curl nothing is validated.
NoCurl ==
    /\ uptime = 90 /\ daemon # None
    /\ Watches("idle", "done")
    /\ UNCHANGED <<release, state, boots, service, updater, attempt, port, revert, swaps, marks,
                   events>>

ProbeHealthy ==
    /\ Watches("probe", "mark") /\ HealthOk
    /\ UNCHANGED <<release, state, boots, service, updater, attempt, port, revert, swaps, marks,
                   events>>

ProbeFails ==
    /\ watch = "probe" /\ ~HealthOk
    /\ watch' = IF attempt < Attempts THEN "probe" ELSE "judge"
    /\ attempt' = IF attempt < Attempts THEN attempt + 1 ELSE attempt
    /\ UNCHANGED <<release, state, boots, service, updater, port, revert, swaps, marks, events>>

Mark ==
    /\ Watches("mark", "done")
    /\ healthy' = TRUE
    /\ UNCHANGED <<slot, current, previous, state, boots, service, updater, attempt, port, revert,
                   swaps, marks, events>>

\* Slip: nothing compares the two slots.
MayRevertAlways == previous \in Version /\ slot[previous] # None
MayRevert == previous \in Version /\ slot[previous] # None /\ previous # current

Judge ==
    /\ watch = "judge"
    /\ watch' = IF MayRevert THEN "revert" ELSE "done"
    /\ revert' = IF MayRevert THEN previous ELSE revert
    /\ condemned' = (before \in Version /\ slot[before] = "whole")
    /\ UNCHANGED <<release, state, boots, service, updater, attempt, port, before, complete,
                   rollbacks, marks, events>>

\* The touch of `healthy`, or the stamp before the rollback, fails.
WatchFails ==
    /\ watch \in {"mark", "revert"} /\ watch' = "failed" /\ Counted
    /\ UNCHANGED <<release, state, boots, service, updater, attempt, port, revert, swaps, marks>>

Revert ==
    /\ Watches("revert", "restart")
    /\ current' = revert
    /\ rollbacks' = IF rollbacks < 2 THEN rollbacks + 1 ELSE 2
    /\ UNCHANGED <<slot, previous, healthy, state, boots, service, updater, attempt, port, revert,
                   before, complete, condemned, marks, events>>

WatchRestart ==
    /\ Watches("restart", "done")
    /\ StartDaemon
    /\ UNCHANGED <<release, state, boots, fault, updater, attempt, port, revert, swaps, marks, events>>

-----------------------------------------------------------------------------
(* The outside *)

\* The user edits config.json on the running device, host and port each or both,
\* and chooses networks. The daemon reads the file when it starts.
Edit(c) ==
    /\ daemon # None /\ Counted
    /\ config' = c /\ wan' = (IF wan = "half" THEN wan ELSE "user")
    /\ moved' = (moved \/ c.port # config.port)
    /\ UNCHANGED <<release, counter, key, sentinel, boots, daemon, listen, fault, updater, watcher,
                   swaps, marks>>

\* The user restarts wifucked.service, or it crashes and Restart=always does.
DaemonRestarts ==
    /\ daemon # None /\ Counted
    /\ StartDaemon
    /\ faulted' = (faulted \/ watch # "idle")
    /\ UNCHANGED <<release, state, boots, fault, updater, watcher, swaps, short, racing, reused,
                   miscounted>>

\* A fault that is not the release's: a full disk, a busy machine.
Fault ==
    /\ fault' = TRUE /\ ~fault /\ faulted' = TRUE /\ Counted
    /\ UNCHANGED <<release, state, boots, daemon, listen, moved, updater, watcher, swaps, short,
                   racing, reused, miscounted>>

FaultEnds ==
    /\ fault' = FALSE /\ fault
    /\ UNCHANGED <<release, state, boots, daemon, listen, moved, updater, watcher, swaps, marks,
                   events>>

PowerCut ==
    /\ counter \in Nat => counter < MaxCount
    /\ uptime' = 0 /\ boot' = "start" /\ count' = 0 /\ first' = "start"
    /\ daemon' = None /\ listen' = None /\ moved' = FALSE
    /\ update' = "idle" /\ target' = None /\ found' = None
    /\ watch' = "idle" /\ attempt' = 0 /\ port' = None /\ revert' = None
    /\ short' = IF uptime > 0 /\ boot # "failed" THEN 0
                ELSE IF short < Threshold THEN short + 1 ELSE short
    /\ condemned' = FALSE /\ faulted' = fault
    /\ miscounted' = (miscounted \/ counter = Empty)
    /\ UNCHANGED <<release, state, fault, before, complete, rollbacks, racing, reused, events>>

Init ==
    /\ slot = [v \in Version |-> IF v = Factory THEN "whole" ELSE None]
    /\ current = Factory /\ previous = None /\ healthy = FALSE
    /\ counter = None /\ wan = "default" /\ config = Defaults /\ key = None /\ sentinel = FALSE
    /\ uptime = 0 /\ boot = "start" /\ count = 0 /\ first = "start"
    /\ daemon = None /\ listen = None /\ fault = FALSE /\ moved = FALSE
    /\ update = "idle" /\ target = None /\ found = None
    /\ watch = "idle" /\ attempt = 0 /\ port = None /\ revert = None
    /\ before = None /\ complete = FALSE /\ rollbacks = 0 /\ condemned = FALSE
    /\ short = 0 /\ faulted = FALSE /\ racing = FALSE /\ reused = {} /\ miscounted = FALSE
    /\ events = 0

Booting == ReadCount \/ WriteCount \/ BootFails \/ ResetState \/ ResetConnections \/ ResetCounter
           \/ FirstBoot \/ WriteKey \/ TouchSentinel \/ FirstFails \/ ServiceStarts
           \/ SixtySeconds \/ NinetySeconds
Updating == (\E v \in Version : BeginUpdate(v)) \/ UpdateFails \/ Clear \/ Make \/ Unpack
            \/ ReadLink \/ Swap \/ Unmark \/ Truncate \/ Remember \/ UpdateRestart
Watching == StartWatch \/ NoCurl \/ ProbeHealthy \/ ProbeFails \/ Mark \/ Judge \/ WatchFails
            \/ Revert \/ WatchRestart
Outside == (\E c \in Settings : Edit(c)) \/ DaemonRestarts \/ Fault \/ FaultEnds \/ PowerCut

Next == Booting \/ Updating \/ Watching \/ Outside
Spec == Init /\ [][Next]_vars

-----------------------------------------------------------------------------
(* Properties *)

\* The types of the files, of the scripts' variables and of the history.
TypeOK ==
    /\ slot \in [Version -> {None, "partial", "whole"}] /\ current \in Version
    /\ previous \in Version \union {None, Empty} /\ healthy \in BOOLEAN
    /\ counter \in 1 .. MaxCount \union {None, Empty} /\ config \in Settings
    /\ wan \in {"user", "half", "default"} /\ key \in {None, "torn", "whole"}
    /\ daemon \in Version \union {None} /\ revert \in Version \union {None}
    /\ attempt \in 0 .. Attempts /\ short \in 0 .. Threshold /\ rollbacks \in 0 .. 2
    /\ reused \subseteq Version /\ events \in 0 .. MaxEvents

\* The loop guard of watchdog.sh: between two updates there is one rollback at
\* most, however often the device boots and whatever it finds unhealthy, unless
\* an update runs while the watchdog does.
RollbackOnce == ~racing => rollbacks <= 1

\* Wherever an update or a rollback is cut or fails, `current` points to a release
\* that is unpacked as a whole, unless an update began to unpack over that very
\* slot while a link or the watchdog named it, and did not end.
CurrentIsWhole == current \notin reused => slot[current] = "whole"

\* An update that was installed up to its write of `previous` and that the
\* watchdog finds unhealthy, boots later perhaps, is undone when the watchdog
\* ends by itself: the device runs what it ran before, as long as that is still
\* there. It is not when a later update has removed that slot and not unpacked it
\* (watchdog.sh:102 then refuses, or links half a slot), and an update cut between
\* its swap and the write of `previous` (update_script.sh:71-77) is not undone
\* either, or is undone to an older release.
BadUpdateIsUndone ==
    watch = "done" /\ condemned /\ complete /\ ~racing => current = before

\* A daemon bound to all addresses and not disturbed is not condemned, whatever
\* is edited in config.json and whenever it restarts, except when api_port was
\* edited and the daemon not restarted before the watchdog ran: the watchdog reads
\* the file at once (watchdog.sh:43-48), the daemon when it starts, and then a
\* release that works is condemned.
NoFalseAlarm ==
    watch = "judge" /\ listen.host = "any" /\ ~moved /\ ~faulted /\ ~racing => ~Answers

\* watchdog.sh on health_ok(): non-zero only on a definite negative, never on
\* ambiguity it could act on destructively. A release that works and is not
\* disturbed is not rolled back.
WorkingReleaseIsKept ==
    watch = "revert" /\ ~faulted /\ ~racing => ~Answers

\* A factory reset needs Threshold - 1 boots in a row before this one that ended
\* within 60 seconds, or in which bootcount.sh failed: it clears the counter after
\* every longer boot, but not once a line it logs has failed (bootcount.sh:30).
ResetIsDeliberate ==
    boot \in {"reset", "reset_connections", "reset_counter", "restart"} =>
        short >= Threshold - 1

\* A factory reset that was cut is taken up by the next boot, or by the first one
\* that runs bootcount.sh to the end: the counter is the last file to go. It is
\* not when that boot is cut, or fails, between emptying and writing the counter
\* (bootcount.sh:29): the count starts again and half of the reset stays.
ResetIsFinished ==
    wan = "half" /\ boot \in {"start", "failed"} /\ ~miscounted =>
        counter \in Nat /\ counter >= Threshold

\* The identity is immutable (firstboot.sh:153-171): what is in the key file once
\* the sentinel is there is never changed, and a whole key is never made again,
\* wherever the power cuts the script or a command of it fails. A key the cut or
\* the failed command left empty is kept for ever, too.
IdentityIsImmutable == [][key' # key => ~sentinel /\ key # "whole"]_vars
=============================================================================
