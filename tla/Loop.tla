-------------------------------- MODULE Loop --------------------------------
(***************************************************************************)
(* The daemon's one loop thread (Daemon.run_forever, tick and the medium   *)
(* and fast loops) with the work that blocks it: the Wi-Fi scan of         *)
(* wifucked.discovery, the pings of wifucked.probe.LinuxProber, and the    *)
(* channel switch of module Radio. The API thread changes modes, cables    *)
(* come and go, networks fail and the station roams between any two steps. *)
(*                                                                         *)
(* Times are kept relative to now, so that the loop may run for ever: a    *)
(* deadline is the time left until it, a unit is a second or so. What the  *)
(* medium loop decides from the measurements is module Allocator's, what   *)
(* the fast loop installs is module DataPlane's, and the telemetry entry   *)
(* of tick() is module Telemetry's.                                        *)
(***************************************************************************)
EXTENDS Radio, Sequences, SequencesExt, FiniteSets

CONSTANTS
    Order,      \* the cabled connections in the order present() returns them
    FastS, MediumS,     \* loop periods (LoopConfig)
    Budget,     \* probe_budget_s: no ping starts later in a pass
    Timeout,    \* probe_timeout_s: a ping is killed after this long
    PingTime,   \* what `ping -c 3` takes when it is answered: 2 s and a bit
    ScanGap,    \* wifi_scan_min_interval_s
    ScanTime,   \* the longest an `iw scan` takes
    MaxEvents   \* bound on what the world and the user do (TLC only)

Links == Range(Order)
Lines == {"ok", "dead", "nocarrier"}

ASSUME LoopAssumption ==
    /\ {FastS, MediumS, Budget, Timeout, PingTime, ScanGap, ScanTime, MaxEvents}
            \subseteq Nat \ {0}
    /\ PingTime < Timeout

VARIABLES
    pc,         \* where the loop thread is
    untilMedium,    \* time left until _next["medium"]
    untilScan,  \* time left until Discoverer._next_wifi_scan
    cache,      \* _last_wifi_atomics is not empty
    spent,      \* time since begin_pass(): Budget - spent is left
    queue,      \* the connections _measure() has yet to observe, as snapshot
    target,     \* which of PROBE_TARGETS is tried
    lossy,      \* an earlier target's ping ended in total loss
    baseline,   \* PassiveProber._last has a reading of these
    present, mode, health,  \* of the registry's atomics
    plugged, line,          \* the world: cables, and what is behind them
    sinceFast,  \* history: time since the fast loop last ran
    sinceFound,  \* history: time since a scan last found networks, at most ScanGap
    touched,    \* history: modes changed since the loop last read them
    events      \* counted against its bound

discovery == <<untilScan, cache, sinceFound>>
prober    == <<spent, queue, target, lossy, baseline>>
registry  == <<present, mode, health>>
cables    == <<plugged, line>>
history   == <<sinceFast, touched>>
vars      == <<radioVars, pc, untilMedium, discovery, prober, registry, cables,
               history, events>>

AtLeastZero(n) == IF n < 0 THEN 0 ELSE n
AtMost(n, max) == IF n > max THEN max ELSE n

\* Time passes while the thread is blocked.
Elapse(d) ==
    /\ untilMedium' = AtLeastZero(untilMedium - d)
    /\ sinceFast'   = sinceFast + d

-----------------------------------------------------------------------------
(* tick() and the medium loop: discovery *)

\* The fast loop is due at every tick, as run_forever() sleeps fast_s between.
Tick ==
    /\ pc = "tick"
    /\ IF untilMedium = 0
       THEN pc' = "discover" /\ untilMedium' = MediumS
       ELSE pc' = "fast" /\ UNCHANGED untilMedium
    /\ UNCHANGED <<radioVars, discovery, prober, registry, cables, history, events>>

\* _discover_wifi_throttled(). Slip: one look at the clock of the medium loop.
ScanDueEachPass == TRUE
ScanDue == ~ (untilScan > 0 /\ cache)

Cached ==
    /\ pc = "discover" /\ ~ ScanDue
    /\ pc' = "usb"
    /\ UNCHANGED <<radioVars, untilMedium, discovery, prober, registry, cables,
                   history, events>>

\* A scan of d units that finds networks or none, or fails in its parser, which
\* _sweep() survives. The interval counts from its start.
Scan(result, d) ==
    /\ pc = "discover" /\ ScanDue
    /\ pc' = "usb"
    /\ Elapse(d)
    /\ IF result = "error"
       THEN untilScan' = AtLeastZero(untilScan - d) /\ UNCHANGED cache
       ELSE untilScan' = AtLeastZero(ScanGap - d) /\ cache' = (result = "found")
    /\ sinceFound' = AtMost(IF result = "found" THEN d ELSE sinceFound + d, ScanGap)
    /\ UNCHANGED <<radioVars, prober, registry, cables, touched, events>>

\* The health Registry.observe() leaves a connection with.
HealthSeen(l) ==
    IF l \notin plugged THEN "absent"
    ELSE IF l \in present THEN health[l]
    ELSE IF line[l] = "nocarrier" THEN "down" ELSE "good"

\* _discover_usb() and Registry.observe(), then _measure() up to its loop:
\* begin_pass() and the snapshot present() hands out.
\* Slip: the deadline of the first pass stays.
BudgetKept  == spent
FreshBudget == 0

Measure ==
    /\ pc = "usb"
    /\ pc' = "measure"
    /\ present' = plugged
    /\ health' = [l \in Links |-> HealthSeen(l)]
    /\ queue' = LET here == SelectSeq(Order, LAMBDA l : l \in plugged)
                IN  [i \in 1 .. Len(here) |-> [link |-> here[i], mode |-> mode[here[i]]]]
    /\ spent' = FreshBudget
    /\ touched' = {}
    /\ UNCHANGED <<radioVars, untilMedium, discovery, target, lossy, baseline, mode,
                   cables, sinceFast, events>>

-----------------------------------------------------------------------------
(* The measurement pass: LinuxProber.observe() of one connection at a time *)

may_probe_actively(m) == m = "normal"

Exhausted(t) == t >= Budget

\* _health_of(), update_capacity and update_health, and on to the next one.
HealthOf(result) == IF result = "loss" THEN "degraded" ELSE "good"

Finish(l, result) ==
    /\ health' = [health EXCEPT ![l] = HealthOf(result)]
    /\ queue' = Tail(queue)

\* The first reading of a connection is no observation.
Baseline ==
    /\ pc = "measure" /\ queue # <<>>
    /\ Head(queue).link \notin baseline
    /\ baseline' = baseline \union {Head(queue).link}
    /\ queue' = Tail(queue)
    /\ UNCHANGED <<radioVars, pc, untilMedium, discovery, spent, target, lossy,
                   registry, cables, history, events>>

\* Passive only: not a NORMAL connection, or no time left in this pass.
ObservePassively ==
    /\ pc = "measure" /\ queue # <<>>
    /\ Head(queue).link \in baseline
    /\ ~ may_probe_actively(Head(queue).mode) \/ Exhausted(spent)
    /\ Finish(Head(queue).link, "passive")
    /\ UNCHANGED <<radioVars, pc, untilMedium, discovery, spent, target, lossy,
                   baseline, present, mode, cables, history, events>>

StartPing ==
    /\ pc = "measure" /\ queue # <<>>
    /\ Head(queue).link \in baseline
    /\ may_probe_actively(Head(queue).mode) /\ ~ Exhausted(spent)
    /\ pc' = "ping" /\ target' = 1 /\ lossy' = FALSE
    /\ UNCHANGED <<radioVars, untilMedium, discovery, spent, queue, baseline,
                   registry, cables, history, events>>

\* What ping says, and how long it takes to say it: three answers, three losses
\* one second later, or an error at once when there is no device or no route.
Answer(l) ==
    IF l \notin plugged \/ line[l] = "nocarrier" THEN [result |-> "error", time |-> 0]
    ELSE IF line[l] = "ok" THEN [result |-> "rtt", time |-> PingTime]
    ELSE [result |-> "loss", time |-> PingTime + 1]

\* Whether a second target is tried after d more units.
\* Slip: it always is.
TryNextAnyway(d) == target = 1
TryNext(d) == target = 1 /\ ~ Exhausted(spent + d)

\* _active_probe(): one target's ping ends with `result` after d units.
PingEnds(result, d) ==
    /\ Elapse(d)
    /\ spent' = spent + d
    /\ IF result # "rtt" /\ TryNext(d)
       THEN /\ target' = 2 /\ lossy' = (result = "loss")
            /\ UNCHANGED <<pc, queue, health>>
       ELSE /\ pc' = "measure" /\ UNCHANGED <<target, lossy>>
            /\ Finish(Head(queue).link,
                      IF result = "error" /\ lossy THEN "loss" ELSE result)
    /\ untilScan' = AtLeastZero(untilScan - d)
    /\ sinceFound' = AtMost(sinceFound + d, ScanGap)
    /\ UNCHANGED <<radioVars, cache, baseline, present, mode, cables, touched>>

Ping ==
    /\ pc = "ping"
    /\ LET answer == Answer(Head(queue).link)
       IN  PingEnds(answer.result, answer.time)
    /\ UNCHANGED events

\* A ping that hangs is killed after the timeout and counts as an error.
PingHangs ==
    /\ pc = "ping"
    /\ events < MaxEvents /\ events' = events + 1
    /\ PingEnds("error", Timeout)

EndPass ==
    /\ pc = "measure" /\ queue = <<>>
    /\ pc' = "fast" /\ spent' = Budget
    /\ UNCHANGED <<radioVars, untilMedium, discovery, queue, target, lossy, baseline,
                   registry, cables, history, events>>

-----------------------------------------------------------------------------
(* The fast loop *)

\* select_profile(). Slip: only a NORMAL cable anchors the access point.
AnchoredByNormal == \E l \in present : mode[l] = "normal"
Anchored == \E l \in present : mode[l] # "unused"

Fast ==
    /\ pc = "fast"
    /\ ObserveRadio(Anchored)
    /\ pc' = IF radio_state'.conflict THEN "align" ELSE "sleep"
    /\ sinceFast' = 0
    /\ touched' = {}
    /\ UNCHANGED <<untilMedium, discovery, prober, registry, cables, events>>

Align ==
    /\ pc = "align"
    /\ pc' = "sleep"
    /\ (\E ok \in BOOLEAN : Switch(ok)) \/ StayPut
    /\ UNCHANGED <<untilMedium, discovery, prober, registry, cables, sinceFast,
                   touched, events>>

Sleep ==
    /\ pc = "sleep"
    /\ pc' = "tick"
    /\ Elapse(FastS)
    /\ untilScan' = AtLeastZero(untilScan - FastS)
    /\ sinceFound' = AtMost(sinceFound + FastS, ScanGap)
    /\ UNCHANGED <<radioVars, cache, prober, registry, cables, touched,
                   events>>

LoopThread ==
    \/ Tick \/ Cached \/ Measure
    \/ \E result \in {"found", "nothing", "error"}, d \in 0 .. ScanTime : Scan(result, d)
    \/ Baseline \/ ObservePassively \/ StartPing \/ Ping \/ EndPass
    \/ Fast \/ Align \/ Sleep

-----------------------------------------------------------------------------
(* The user and the world *)

loop == <<pc, untilMedium, discovery, prober>>

SetMode(l, m) ==
    /\ l \in present /\ mode[l] # m
    /\ mode' = [mode EXCEPT ![l] = m]
    /\ touched' = touched \union {l}
    /\ UNCHANGED <<radioVars, loop, present, health, cables, sinceFast>>

Plug(l) ==
    /\ plugged' = IF l \in plugged THEN plugged \ {l} ELSE plugged \union {l}
    /\ UNCHANGED <<radioVars, loop, registry, line, history>>

LineChanges(l, x) ==
    /\ line[l] # x /\ line' = [line EXCEPT ![l] = x]
    /\ UNCHANGED <<radioVars, loop, registry, plugged, history>>

RadioWorld ==
    /\ \/ \E c \in Channel \union {None} : StationMoves(c)
       \/ HostapdStops
       \/ HostapdStarts
    /\ UNCHANGED <<loop, registry, cables, history>>

World ==
    /\ events < MaxEvents /\ events' = events + 1
    /\ \/ \E l \in Links, m \in {"normal", "backup", "unused"} : SetMode(l, m)
       \/ \E l \in Links : Plug(l)
       \/ \E l \in Links, x \in Lines : LineChanges(l, x)
       \/ RadioWorld

Init ==
    /\ RadioInit
    /\ pc = "tick" /\ untilMedium = 0
    /\ untilScan = 0 /\ cache = FALSE /\ sinceFound = ScanGap
    /\ spent = Budget /\ queue = <<>> /\ target = 1 /\ lossy = FALSE /\ baseline = {}
    /\ present = {} /\ health = [l \in Links |-> "absent"]
    /\ mode = [l \in Links |-> "normal"]
    /\ plugged \in {{}, Links} /\ line = [l \in Links |-> "ok"]
    /\ sinceFast = 0 /\ touched = {} /\ events = 0

Next == LoopThread \/ PingHangs \/ World
Spec == Init /\ [][Next]_vars

\* The thread is never stopped; what blocks it ends.
FairSpec == Spec /\ WF_vars(LoopThread)

-----------------------------------------------------------------------------
(* Properties *)

\* Every variable keeps its shape, and a connection is ABSENT exactly while the
\* registry has it as not present: a late probe answer never makes an absent one
\* good, and one that returns is never left absent.
TypeOK ==
    /\ pc \in {"tick", "discover", "usb", "measure", "ping", "fast", "align", "sleep"}
    /\ untilMedium \in 0 .. MediumS /\ untilScan \in 0 .. ScanGap
    /\ sinceFound \in 0 .. ScanGap /\ cache \in BOOLEAN
    /\ queue \in Seq([link : Links, mode : {"normal", "backup", "unused"}])
    /\ target \in {1, 2} /\ lossy \in BOOLEAN
    /\ baseline \subseteq Links /\ present \subseteq Links /\ plugged \subseteq Links
    /\ \A l \in Links : /\ health[l] \in {"good", "degraded", "down", "absent"}
                        /\ (health[l] = "absent") = (l \notin present)
    /\ ap \in Channel \union {None} /\ station \in Channel \union {None}
    /\ csa_unavailable \in BOOLEAN

\* Failover is never held up longer than one sleep, one scan and one probing
\* pass: a pass may overrun its budget by a single ping, however many
\* connections there are, whichever of them hang, and whatever is tried as the
\* second target (begin_pass, _budget_exhausted; backlog item 8).
FailoverIsPrompt == sinceFast <= FastS + ScanTime + (Budget - 1) + Timeout

\* After a scan that found networks the next scan, whatever it brings, comes a whole
\* interval later or more, however often the medium loop asks and however long scans
\* and pings take (Discoverer): the radio stays on the AP's channel. It says nothing
\* of two scans in general: one that finds nothing empties the cache, one that fails
\* leaves cache and deadline as they were when it was due, and after either the very
\* next medium loop scans again.
ScanIsRare ==
    [][(\E result \in {"found", "nothing", "error"}, d \in 0 .. ScanTime :
            Scan(result, d)) /\ cache
        => sinceFound >= ScanGap]_vars

\* The appliance moves the access point only when no cabled connection is in
\* use, also not as a BACKUP; only a mode set while the fast loop ran can be
\* missed (select_profile, ADR-013: "a fixed channel that never moves").
AnchorIsStill ==
    [][ap # None /\ ap' # None /\ ap' # ap
        => ~ \E l \in present \ touched : mode[l] # "unused"]_vars

Stuck(c) == ~ Anchored /\ station = c /\ Differ(ap, c)

\* A station on another channel is followed, or the driver has refused.
ConflictEnds == \A c \in Channel : Stuck(c) ~> (~ Stuck(c) \/ csa_unavailable)

Eligible(l) == l \in present /\ mode[l] = "normal"
First(l) ==
    \E i \in DOMAIN Order : /\ Order[i] = l /\ Eligible(l)
                           /\ \A j \in 1 .. i - 1 : ~ Eligible(Order[j])

\* A connection that stops passing traffic loses its good health, if it is the
\* first NORMAL one in the order of the pass: every pass starts with a budget of
\* its own, so the first is always probed (begin_pass).
DeadIsNoticed ==
    \A l \in Links :
        First(l) /\ line[l] = "dead" ~> health[l] # "good" \/ ~ First(l) \/ line[l] # "dead"

\* "Atomics not reached before the budget runs out are simply probed on the next
\* medium-loop pass" (LoopConfig.probe_budget_s): every NORMAL connection that
\* stays is pinged at some time.
EveryLinkIsProbed ==
    \A l \in Links :
        Eligible(l) ~> ~ Eligible(l) \/ (pc = "ping" /\ Head(queue).link = l)
=============================================================================
