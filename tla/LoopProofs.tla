----------------------------- MODULE LoopProofs -----------------------------
(***************************************************************************)
(* For any number of cabled connections, any periods, budgets, timeouts    *)
(* and scan intervals, and whatever the world does: how long the loop      *)
(* thread can be kept from its fast loop, how often it scans, and when the *)
(* access point moves.                                                     *)
(***************************************************************************)
EXTENDS Loop, TLAPS

\* What time has passed since the fast loop, at each place of the thread: one
\* sleep, then one scan, then what the pass has spent. A ping starts only while
\* there is budget left.
PassInv ==
    /\ pc \in {"tick", "discover", "usb", "measure", "ping", "fast", "align", "sleep"}
    /\ sinceFast \in Nat /\ spent \in Nat
    /\ pc \in {"align", "sleep"} => sinceFast = 0
    /\ pc \in {"tick", "discover"} => sinceFast <= FastS
    /\ pc = "usb" => sinceFast <= FastS + ScanTime
    /\ pc \in {"measure", "ping"} => sinceFast <= FastS + ScanTime + spent
    /\ pc = "measure" => spent <= (Budget - 1) + Timeout
    /\ pc = "ping" => spent <= Budget - 1
    /\ FailoverIsPrompt

\* While networks are remembered, the time until the next scan and the time
\* since they were found make up an interval.
ScanInv ==
    /\ untilScan \in Nat /\ sinceFound \in Nat
    /\ cache => untilScan + sinceFound >= ScanGap

\* The thread aligns the radio only after the fast loop found no cable in use;
\* a mode set since then is recorded as such.
AlignInv == pc = "align" => \A l \in present \ touched : mode[l] = "unused"

LoopInv == PassInv /\ ScanInv /\ AlignInv

-----------------------------------------------------------------------------
(* The pass *)

\* A ping that ends by itself ends within the timeout.
LEMMA AnswerInTime ==
    ASSUME NEW l
    PROVE  Answer(l).time \in Nat /\ Answer(l).time <= Timeout
BY LoopAssumption DEF Answer

\* One more ping leaves the pass within its bound, and the thread in a ping only
\* with budget left.
LEMMA PingKeepsPass ==
    ASSUME PassInv, pc = "ping", NEW result, NEW d \in Nat, d <= Timeout, PingEnds(result, d)
    PROVE  PassInv'
<1> USE LoopAssumption
<1>1. spent' = spent + d /\ sinceFast' = sinceFast + d
  BY DEF PingEnds, Elapse
<1>2. CASE result # "rtt" /\ TryNext(d)
  <2>1. pc' = "ping" /\ spent + d <= Budget - 1
    BY <1>2 DEF PingEnds, TryNext, Exhausted, PassInv
  <2> QED
    BY <1>1, <2>1 DEF PassInv, FailoverIsPrompt
<1>3. CASE ~ (result # "rtt" /\ TryNext(d))
  <2>1. pc' = "measure"
    BY <1>3 DEF PingEnds
  <2> QED
    BY <1>1, <2>1 DEF PassInv, FailoverIsPrompt
<1> QED
  BY <1>2, <1>3

\* What the user and the world do takes the thread no time.
LEMMA WorldLeavesLoop ==
    World => /\ UNCHANGED <<pc, untilMedium, spent, sinceFast, untilScan, sinceFound, cache>>
             /\ UNCHANGED <<present, queue>>
BY DEF World, SetMode, Plug, LineChanges, RadioWorld, loop, discovery, prober, registry, history

LEMMA PassStep == PassInv /\ [Next]_vars => PassInv'
<1> SUFFICES ASSUME PassInv, [Next]_vars PROVE PassInv'
  OBVIOUS
<1> USE LoopAssumption
<1>1. CASE Tick \/ Cached
  BY <1>1 DEF Tick, Cached, PassInv, FailoverIsPrompt, prober, history
<1>2. ASSUME NEW result, NEW d \in 0 .. ScanTime, Scan(result, d)
      PROVE  PassInv'
  BY <1>2 DEF Scan, Elapse, PassInv, FailoverIsPrompt, prober
<1>3. CASE Measure
  BY <1>3 DEF Measure, FreshBudget, PassInv, FailoverIsPrompt
<1>4. CASE Baseline \/ ObservePassively
  BY <1>4 DEF Baseline, ObservePassively, PassInv, FailoverIsPrompt, history
<1>5. CASE StartPing
  BY <1>5 DEF StartPing, Exhausted, PassInv, FailoverIsPrompt, history
<1>6. CASE Ping
  BY <1>6, AnswerInTime, PingKeepsPass DEF Ping
<1>7. CASE PingHangs
  BY <1>7, PingKeepsPass DEF PingHangs
<1>8. CASE EndPass
  BY <1>8 DEF EndPass, PassInv, FailoverIsPrompt, history
<1>9. CASE Fast \/ Align
  BY <1>9 DEF Fast, Align, PassInv, FailoverIsPrompt, prober
<1>10. CASE Sleep
  BY <1>10 DEF Sleep, Elapse, PassInv, FailoverIsPrompt, prober
<1>11. CASE World
  BY <1>11, WorldLeavesLoop DEF PassInv, FailoverIsPrompt
<1>12. CASE UNCHANGED vars
  BY <1>12 DEF vars, prober, history, PassInv, FailoverIsPrompt
<1> QED
  BY <1>1, <1>2, <1>3, <1>4, <1>5, <1>6, <1>7, <1>8, <1>9, <1>10, <1>11, <1>12
     DEF Next, LoopThread

-----------------------------------------------------------------------------
(* The scan *)

\* Time that passes is taken from the one and added to the other.
LEMMA TimeKeepsScan ==
    ASSUME ScanInv, NEW d \in Nat, UNCHANGED cache,
           untilScan' = AtLeastZero(untilScan - d), sinceFound' = AtMost(sinceFound + d, ScanGap)
    PROVE  ScanInv'
BY LoopAssumption DEF ScanInv, AtLeastZero, AtMost

LEMMA ScanStep == ScanInv /\ [Next]_vars => ScanInv'
<1> SUFFICES ASSUME ScanInv, [Next]_vars PROVE ScanInv'
  OBVIOUS
<1> USE LoopAssumption
<1>1. ASSUME NEW result, NEW d \in 0 .. ScanTime, Scan(result, d)
      PROVE  ScanInv'
  <2>1. d \in Nat
    OBVIOUS
  <2>2. CASE result = "error"
    BY <1>1, <2>1, <2>2, TimeKeepsScan DEF Scan
  <2>3. CASE result = "found"
    BY <1>1, <2>1, <2>3 DEF Scan, ScanInv, AtLeastZero, AtMost
  <2>4. CASE result \notin {"error", "found"}
    BY <1>1, <2>1, <2>4 DEF Scan, ScanInv, AtLeastZero, AtMost
  <2> QED
    BY <2>2, <2>3, <2>4
<1>2. CASE Ping
  BY <1>2, AnswerInTime, TimeKeepsScan DEF Ping, PingEnds
<1>3. CASE PingHangs
  BY <1>3, TimeKeepsScan DEF PingHangs, PingEnds
<1>4. CASE Sleep
  BY <1>4, TimeKeepsScan DEF Sleep
<1>5. CASE Tick \/ Cached \/ Measure \/ Baseline \/ ObservePassively \/ StartPing \/ EndPass
  <2>1. UNCHANGED discovery
    BY <1>5, Zenon DEF Tick, Cached, Measure, Baseline, ObservePassively, StartPing, EndPass
  <2> QED
    BY <2>1 DEF discovery, ScanInv
<1>6. CASE Fast \/ Align
  BY <1>6 DEF Fast, Align, discovery, ScanInv
<1>7. CASE World
  BY <1>7, WorldLeavesLoop DEF ScanInv
<1>8. CASE UNCHANGED vars
  BY <1>8 DEF vars, discovery, ScanInv
<1> QED
  BY <1>1, <1>2, <1>3, <1>4, <1>5, <1>6, <1>7, <1>8 DEF Next, LoopThread

-----------------------------------------------------------------------------
(* The radio *)

\* Where align() follows the fast loop, no cable was in use.
LEMMA AlignStep == AlignInv /\ [Next]_vars => AlignInv'
<1> SUFFICES ASSUME AlignInv, [Next]_vars, pc' = "align"
             PROVE  (\A l \in present \ touched : mode[l] = "unused")'
  BY DEF AlignInv
<1>1. CASE LoopThread \/ PingHangs
  <2>1. Fast
    BY <1>1, Zenon DEF LoopThread, Tick, Cached, Scan, Measure, Baseline, ObservePassively,
       StartPing, Ping, PingHangs, PingEnds, EndPass, Align, Sleep
  <2>2. radio_state'.conflict
    BY <2>1 DEF Fast
  <2>3. ~ Anchored
    BY <2>1, <2>2 DEF Fast, ObserveRadio
  <2> QED
    BY <2>1, <2>3 DEF Fast, Anchored, registry
<1>2. CASE World
  <2>1. pc = "align" /\ UNCHANGED present
    BY <1>2, WorldLeavesLoop
  <2>2. ASSUME NEW l \in Links, NEW m, SetMode(l, m)
        PROVE  (\A k \in present \ touched : mode[k] = "unused")'
    BY <2>1, <2>2 DEF SetMode, AlignInv
  <2>3. CASE UNCHANGED <<touched, mode>>
    BY <2>1, <2>3 DEF AlignInv
  <2> QED
    BY <1>2, <2>2, <2>3 DEF World, Plug, LineChanges, RadioWorld, registry, history
<1>3. CASE UNCHANGED vars
  BY <1>3 DEF vars, registry, history, AlignInv
<1> QED
  BY <1>1, <1>2, <1>3 DEF Next

\* Only align() takes the access point from one channel to another.
LEMMA OnlyAlignMoves ==
    ASSUME [Next]_vars, ap # None, ap' # None, ap' # ap
    PROVE  pc = "align" /\ UNCHANGED <<present, mode, touched>>
<1>1. CASE Align
  BY <1>1 DEF Align, registry
<1>2. CASE (LoopThread \/ PingHangs) /\ ~ Align
  BY <1>2, Zenon DEF LoopThread, Tick, Cached, Scan, Measure, Baseline, ObservePassively, StartPing,
     Ping, PingHangs, PingEnds, EndPass, Fast, ObserveRadio, Sleep, radioVars
<1>3. CASE World
  BY <1>3 DEF World, SetMode, Plug, LineChanges, RadioWorld, StationMoves, HostapdStops,
     HostapdStarts, radioVars
<1>4. CASE UNCHANGED vars
  BY <1>4 DEF vars, radioVars
<1> QED
  BY <1>1, <1>2, <1>3, <1>4 DEF Next

-----------------------------------------------------------------------------
(* Theorems *)

LEMMA LoopInit == Init => LoopInv
BY LoopAssumption DEF Init, LoopInv, PassInv, ScanInv, AlignInv, FailoverIsPrompt

\* Wherever the loop thread is, in whatever world.
THEOREM LoopInvariant == Spec => []LoopInv
<1>1. LoopInv /\ [Next]_vars => LoopInv'
  BY PassStep, ScanStep, AlignStep DEF LoopInv
<1> QED
  BY <1>1, LoopInit, PTL DEF Spec

\* The fast loop, which moves traffic off a connection that failed, is held up
\* for one sleep, one scan, the probe budget and one ping at most, for any number
\* of connections: LinuxProber asks for the budget before every ping, of the
\* second target too, and begin_pass() renews it once per pass.
THEOREM FailoverBound == Spec => []FailoverIsPrompt
<1>1. LoopInv => FailoverIsPrompt
  BY DEF LoopInv, PassInv
<1> QED
  BY <1>1, LoopInvariant, PTL

\* A step that scans while networks are remembered is ScanGap or more after the
\* newest scan that found any: _next_wifi_scan counts from the start of that scan. A
\* failed scan in between moves neither it nor the cache, so that of two scans of
\* which the first failed or found nothing no distance is claimed.
THEOREM ScansAreApart == Spec => ScanIsRare
<1>1. LoopInv /\ [Next]_vars =>
        [(\E result \in {"found", "nothing", "error"}, d \in 0 .. ScanTime : Scan(result, d)) /\ cache
            => sinceFound >= ScanGap]_vars
  <2> SUFFICES ASSUME LoopInv, cache, NEW result, NEW d, Scan(result, d)
               PROVE  sinceFound >= ScanGap
    OBVIOUS
  <2>1. ~ (untilScan > 0)
    BY DEF Scan, ScanDue
  <2> QED
    BY <2>1, LoopAssumption DEF LoopInv, ScanInv
<1> QED
  BY <1>1, LoopInvariant, PTL DEF Spec, ScanIsRare

\* The access point stays on its channel while a cabled connection is in use, as
\* NORMAL or as BACKUP, except for a mode set between observe() and align() of the
\* same fast loop: only align() moves it, and only on the verdict of
\* select_profile().
THEOREM AnchorHolds == Spec => AnchorIsStill
<1>1. LoopInv /\ [Next]_vars =>
        [ap # None /\ ap' # None /\ ap' # ap
            => ~ \E l \in present \ touched : mode[l] # "unused"]_vars
  BY OnlyAlignMoves DEF LoopInv, AlignInv
<1> QED
  BY <1>1, LoopInvariant, PTL DEF Spec, AnchorIsStill
=============================================================================
