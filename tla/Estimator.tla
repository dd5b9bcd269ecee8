----------------------------- MODULE Estimator -----------------------------
(***************************************************************************)
(* What the appliance believes a connection can carry, and how long it     *)
(* believes it: the passive half of wifucked.probe (byte counters, fold,   *)
(* decay_confidence), the demand it samples next to it (wifucked.demand),  *)
(* and the way an estimate survives a restart (Registry.persist and _load),*)
(* on three clocks that do not agree: real time, the kernel's monotonic    *)
(* clock, which a reboot resets, and a wall clock anybody may set.         *)
(*                                                                         *)
(* Time is counted in confidence half-lives. One direction is modelled;    *)
(* the code treats the other alike. Confidence is counted in twentieths:   *)
(* 0.3 is 6, 0.5 is 10, 1.0 is Full.                                       *)
(***************************************************************************)
EXTENDS Integers, FiniteSets, FiniteSetsExt

CONSTANTS
    Link,       \* the connections
    Iface,      \* the WAN interfaces of the kernel
    Radio,      \* the one that outlives its connections: wlan0
    IfaceOf,    \* the interface each connection appears on
    Rate,       \* bytes a connection can carry in a unit of time
    Skews,      \* what the wall clock may be off by
    None,       \* Python's None
    MaxTime,    \* bound on real time (TLC only)
    MaxCrashes, \* bound on restarts (TLC only)
    MaxMoves    \* bound on plugging, roaming and setting the clock (TLC only)

Full == 20

\* What the connections carry in a unit of time: `behind` is the connection
\* behind each interface, `busy` the connections that are used to the full.
Carried(link, busy) == IF link \in busy THEN Rate[link] ELSE 0
Delivered(behind, busy) == MapThenSumSet(LAMBDA i : Carried(behind[i], busy), Iface)
TotalRate == MapThenSumSet(LAMBDA l : Rate[l], Link)

\* Where connections are: each behind its own interface only.
Placed(behind) == \A i \in Iface : behind[i] = None \/ IfaceOf[behind[i]] = i

\* What a busy window earned (history): when, how much, and whether a restart
\* since may have made it look younger.
Earned == [at : Nat, confidence : 0 .. Full, doubtful : BOOLEAN]

ASSUME EstimatorAssumption ==
    /\ IsFiniteSet(Link) /\ IfaceOf \in [Link -> Iface] /\ Radio \in Iface
    /\ Rate \in [Link -> Nat] /\ Skews \subseteq Int /\ 0 \in Skews
    /\ None \notin Link \union Int \union Earned
    /\ MaxTime \in Nat /\ MaxCrashes \in Nat /\ MaxMoves \in Nat

\* Sums over finite sets: a connection is behind one interface at most, so
\* together they deliver no more than the sum of what each can carry.
ASSUME SumAssumption ==
    /\ TotalRate \in Nat
    /\ \A behind \in [Iface -> Link \union {None}] :
          Placed(behind) => \A busy \in SUBSET Link : Delivered(behind, busy) \in 0 .. TotalRate

VARIABLES
    real,       \* real time
    boot,       \* real time of the last boot: where Clock.now() starts at 0
    skew,       \* wall clock minus real time
    on,         \* per interface: the connection behind it now, or None
    counter,    \* per interface: rx_bytes
    station,    \* the Wi-Fi connection the last scan found connected, or None
    lan,        \* byte counter of the clients' interface
    running,    \* the daemon is up
    last,       \* PassiveProber._last
    capacity,   \* Atomic.capacity
    lastLan,    \* CounterDemand._last
    demand,     \* the last sample, or None
    file,       \* the state file, or None
    truth,      \* history: of each estimate, when and how well it was measured
    crashes, moves  \* counted against their bounds

clocks == <<real, boot, skew>>
world  == <<on, counter, lan>>
memory == <<station, last, capacity, lastLan, demand, truth>>
vars   == <<clocks, world, running, memory, file, crashes, moves>>

Now  == real - boot
Wall == real + skew

Unknown == [bps |-> 0, confidence |-> 0, measured_at |-> None]

\* The connections whose Atomic has an ifname: a cabled one while it is plugged
\* in, a Wi-Fi network as of the last scan.
Named == {l \in Link : IF IfaceOf[l] = Radio THEN station = l
                       ELSE on[IfaceOf[l]] = l}

-----------------------------------------------------------------------------
(* The estimate *)

Known(c) == c.confidence > 0

\* 0.5 ** age, on whole half-lives: five leave nothing of a full confidence.
Halved(confidence, age) ==
    IF age < 5 THEN confidence \div <<1, 2, 4, 8, 16>>[age + 1] ELSE 0

decay_confidence(c, now) ==
    IF c.measured_at = None \/ ~ Known(c) THEN 0
    ELSE Halved(c.confidence, Max({0, now - c.measured_at}))

\* The moving average, weighted towards the new sample when little was known;
\* weights in tenths. Slip: the old estimate keeps its full weight.
EwmaAdding(old, new, decayed) == old + (new * (IF decayed > 10 THEN 4 ELSE 7)) \div 10
Ewma(old, new, decayed) ==
    LET w == IF decayed > 10 THEN 4 ELSE 7
    IN  (old * (10 - w) + new * w) \div 10

\* Slip: a quiet window counts as a confirmation of the old estimate.
FoldConfirming(c, bps, saturated, now) ==
    IF ~ saturated THEN [c EXCEPT !.measured_at = IF @ = None THEN None ELSE now]
    ELSE LET decayed == decay_confidence(c, now)
         IN  [bps |-> Ewma(c.bps, bps, decayed),
              confidence |-> Min({Full, decayed + 6}), measured_at |-> now]
fold(c, bps, saturated, now) ==
    LET decayed == decay_confidence(c, now)
    IN  IF ~ saturated THEN [c EXCEPT !.confidence = decayed]
        ELSE [bps |-> Ewma(c.bps, bps, decayed),
              confidence |-> Min({Full, decayed + 6}), measured_at |-> now]

\* Bytes per unit of time since the previous reading; nothing after a reset.
Throughput(bytes, previous, now) ==
    Max({0, bytes - previous.bytes}) \div (now - previous.at)

Usable(previous) == previous # None /\ Now > previous.at

\* CounterDemand.sample(), of one service class.
Sampled == IF Usable(lastLan) THEN Throughput(lan, lastLan, Now) ELSE 0

\* One medium loop: Daemon._measure observes every connection that has an
\* interface and folds what it saw; then the demand is sampled. `saturated`:
\* where the queue held bytes or dropped some.
MediumLoop(saturated) ==
    /\ running
    /\ saturated \subseteq Named
    /\ LET observed == {l \in Named : Usable(last[l])}
           bytes(l) == counter[IfaceOf[l]]
       IN  /\ capacity' = [l \in Link |->
                IF l \in observed
                THEN fold(capacity[l], Throughput(bytes(l), last[l], Now),
                          l \in saturated, Now)
                ELSE capacity[l]]
           /\ last' = [l \in Link |->
                IF l \in Named THEN [at |-> Now, bytes |-> bytes(l)] ELSE last[l]]
           /\ truth' = [l \in Link |->
                IF l \in observed \intersect saturated
                THEN [at |-> real, confidence |-> capacity'[l].confidence,
                      doubtful |-> FALSE]
                ELSE truth[l]]
    /\ demand'  = Sampled
    /\ lastLan' = [at |-> Now, bytes |-> lan]
    /\ UNCHANGED <<clocks, world, running, station, file, crashes, moves>>

\* Discoverer: the scan that tells which network the station is on.
Scan ==
    /\ running /\ station # on[Radio]
    /\ station' = on[Radio]
    /\ UNCHANGED <<clocks, world, running, last, capacity, lastLan, demand, truth,
                   file, crashes, moves>>

-----------------------------------------------------------------------------
(* The state file *)

\* measured_age_s of persist(): how old the estimate is by this boot's clock.
AgeOf(c) == IF c.measured_at = None THEN None ELSE Max({0, Now - c.measured_at})

\* Registry.persist(), as far as capacities go. Its own interleavings and
\* failures are module Registry's; a write that fails leaves the old file.
Persist ==
    /\ running
    /\ file' = [wall |-> Wall, at |-> real, truth |-> truth,
                rows |-> [l \in Link |-> [bps |-> capacity[l].bps,
                                          confidence |-> capacity[l].confidence,
                                          age |-> AgeOf(capacity[l])]]]
    /\ UNCHANGED <<clocks, world, running, memory, crashes, moves>>

Elapsed == Max({0, Wall - file.wall})

_reconstruct_capacity(row) ==
    [bps |-> row.bps, confidence |-> row.confidence,
     measured_at |-> IF row.age = None THEN None ELSE Now - (row.age + Elapsed)]

\* Registry._load() of a process that starts: everything else is forgotten.
Start ==
    /\ ~ running
    /\ running' = TRUE
    /\ IF file = None
       THEN /\ capacity' = [l \in Link |-> Unknown]
            /\ truth' = [l \in Link |-> None]
       ELSE /\ capacity' = [l \in Link |-> _reconstruct_capacity(file.rows[l])]
            /\ truth' = [l \in Link |->
                 IF file.truth[l] = None THEN None
                 ELSE [file.truth[l] EXCEPT
                         !.doubtful = @ \/ Elapsed < real - file.at]]
    /\ last' = [l \in Link |-> None]
    /\ station' = None /\ lastLan' = None /\ demand' = 0
    /\ UNCHANGED <<clocks, world, file, crashes, moves>>

-----------------------------------------------------------------------------
(* The world *)

Init ==
    /\ real = 0 /\ boot = 0 /\ skew = 0
    /\ on = [i \in Iface |-> None]
    /\ counter = [i \in Iface |-> 0]
    /\ lan = 0
    /\ running = TRUE
    /\ station = None /\ lastLan = None /\ demand = 0
    /\ last = [l \in Link |-> None]
    /\ capacity = [l \in Link |-> Unknown]
    /\ truth = [l \in Link |-> None]
    /\ file = None
    /\ crashes = 0 /\ moves = 0

\* A unit of time passes; the connections carry what they can or nothing, and
\* the clients receive it.
Advance(busy) ==
    /\ real < MaxTime
    /\ real' = real + 1
    /\ counter' = [i \in Iface |-> counter[i] + Carried(on[i], busy)]
    /\ lan' = lan + Delivered(on, busy)
    /\ UNCHANGED <<boot, skew, on, running, memory, file, crashes, moves>>

\* A cable is plugged in or pulled, which creates and removes its interface;
\* the station joins, leaves or changes its network.
Move(i, l) ==
    /\ moves < MaxMoves /\ moves' = moves + 1
    /\ on[i] # l
    /\ l \in {None} \union {k \in Link : IfaceOf[k] = i}
    /\ on' = [on EXCEPT ![i] = l]
    /\ counter' = [counter EXCEPT ![i] = IF i = Radio THEN @ ELSE 0]
    /\ UNCHANGED <<clocks, lan, running, memory, file, crashes>>

\* NTP, or a boot without a battery-backed clock.
SetClock(s) ==
    /\ moves < MaxMoves /\ moves' = moves + 1
    /\ s # skew /\ skew' = s
    /\ UNCHANGED <<real, boot, world, running, memory, file, crashes>>

\* The process dies, with the kernel under it or without.
Crash(reboot) ==
    /\ running /\ crashes < MaxCrashes /\ crashes' = crashes + 1
    /\ running' = FALSE
    /\ IF reboot
       THEN /\ boot' = real
            /\ counter' = [i \in Iface |-> 0] /\ lan' = 0
       ELSE UNCHANGED <<boot, counter, lan>>
    /\ UNCHANGED <<real, skew, on, memory, file, moves>>

Next ==
    \/ \E S \in SUBSET Link : MediumLoop(S) \/ Advance(S)
    \/ Scan
    \/ Persist
    \/ Start
    \/ \E i \in Iface, l \in Link \union {None} : Move(i, l)
    \/ \E s \in Skews : SetClock(s)
    \/ \E reboot \in BOOLEAN : Crash(reboot)

Spec == Init /\ [][Next]_vars

-----------------------------------------------------------------------------
(* Properties *)

Estimate == [bps : Nat, confidence : 0 .. Full, measured_at : Int \union {None}]
Reading  == [at : Int, bytes : Nat]

\* Every variable keeps the shape the code gives it, and an estimate has a
\* confidence only if it has a time of measurement, before and after a restart:
\* without one decay_confidence calls it worthless and the allocator takes the
\* link for one never measured (ADR-024).
TypeOK ==
    /\ real \in Nat /\ boot \in Nat /\ boot <= real /\ skew \in Skews
    /\ on \in [Iface -> Link \union {None}] /\ counter \in [Iface -> Nat]
    /\ lan \in Nat /\ demand \in Nat /\ running \in BOOLEAN
    /\ station \in Link \union {None}
    /\ \A l \in Link : last[l] = None \/ last[l] \in Reading
    /\ lastLan = None \/ lastLan \in Reading
    /\ \A l \in Link : /\ capacity[l] \in Estimate
                       /\ Known(capacity[l]) => capacity[l].measured_at # None
                       /\ truth[l] \in Earned \union {None}

\* An estimate is never trusted beyond its age: through any number of quiet
\* windows, restarts and reboots, the confidence the allocator reads is at most
\* what the last busy window earned, halved for every half-life of real time
\* since. Excused is only an estimate loaded while the wall clock had lost time
\* since the file was written, which _load() cannot tell.
ConfidenceIsHonest ==
    running => \A l \in Link :
        IF truth[l] = None THEN decay_confidence(capacity[l], Now) = 0
        ELSE truth[l].doubtful \/
             decay_confidence(capacity[l], Now)
                <= Halved(truth[l].confidence, real - truth[l].at)

\* What is measured is a floor, across unplugging, counter resets and restarts:
\* an estimate never exceeds what the connection can carry (ADR-003: achieved
\* throughput is a floor on capacity), for a connection that has its interface to
\* itself, and the demand never exceeds what the connections together can have
\* delivered (CounterDemand: it never overstates what a class is asking for).
EstimateIsAFloor ==
    /\ \A l \in Link :
          (\A k \in Link \ {l} : IfaceOf[k] # IfaceOf[l]) => capacity[l].bps <= Rate[l]
    /\ demand <= TotalRate
=============================================================================
