--------------------------- MODULE AllocatorProofs ---------------------------
(***************************************************************************)
(* Machine-checked proofs about the Allocator and the data plane under it, *)
(* for every set of atomics, every set of registry snapshots and demands,  *)
(* and every threshold the assumptions of module Allocator allow.          *)
(***************************************************************************)
EXTENDS AllocatorHistory, DataPlane, TLAPS

-----------------------------------------------------------------------------
(* What one decision computes *)

\* What the allocator believes of a link is a natural number (_usable_capacity).
LEMMA BelievedType ==
    ASSUME NEW v \in AtomicView
    PROVE  Believed(v) \in Nat
BY ThresholdsAssumption DEF Believed, AtomicView

\* Critical demand is a natural number, zero in the single-hotspot LAN mode.
LEMMA CriticalDemandType ==
    ASSUME NEW d \in Demands
    PROVE  CriticalDemand(d) \in Nat
BY DemandsAssumption DEF CriticalDemand, ClassDemand

\* The ceiling a class is given out of the believed capacity is natural: the
\* classes above it never take more than there is (_build).
LEMMA GiveType ==
    ASSUME NEW d \in Demands, NEW cap \in Nat, NEW p \in Profiles
    PROVE  Give(cap, d, p) \in Nat
<1>1. \A q \in Profiles : WantNormal(d, q) \in Nat
  BY DemandsAssumption DEF WantNormal, Greatest, ClassDemand
<1>2. QED
  BY <1>1 DEF Give, Least

\* Atomics of the NORMAL pool and BACKUP atomics are different atomics.
LEMMA PoolAndBackupsDisjoint ==
    ASSUME NEW w
    PROVE  Pool(w) \intersect Backups(w) = {}
BY DEF Pool, Backups, InNormalPool

\* decide() builds a well-typed allocation that uses BACKUP exactly when the
\* hysteresis is ACTIVE and a usable BACKUP exists, and that never both shares
\* and quiesces an atomic nor gives one class two ceilings on one atomic.
LEMMA DecideAllocation ==
    ASSUME NEW w \in Worlds, NEW d \in Demands, Decide(w, d)
    PROVE  /\ last' \in Allocation
           /\ last'.backup_active <=> state' = "active" /\ UsableBackups(w) # {}
           /\ \A s \in last'.shares : s.atomic \notin last'.quiesced
           /\ \A s, t \in last'.shares :
                 s.atomic = t.atomic /\ s.profile = t.profile => s = t
<1> DEFINE cap == UsableCapacity(w)
<1> DEFINE backupOptions == IF UsableBackups(w) = {} THEN {None}
                            ELSE ChosenBackups(w)
<1> DEFINE active(b) == state' = "active" /\ b # None
<1> DEFINE primaryOptions(b) == IF Pool(w) # {} THEN Best(w)
                                ELSE {IF active(b) THEN b ELSE None}
<1>1. PICK b \in backupOptions : \E p \in primaryOptions(b) :
                last' = Build(w, d, cap, p, b, active(b))
  BY DEF Decide
<1>2. PICK p \in primaryOptions(b) : last' = Build(w, d, cap, p, b, active(b))
  BY <1>1
<1>3. cap \in Nat
  BY CapacityAssumption
<1>4. b = None \/ b \in UsableBackups(w)
  BY <1>1 DEF ChosenBackups
<1>5. b # None <=> UsableBackups(w) # {}
  BY <1>1, <1>4, NoneAssumption DEF ChosenBackups, UsableBackups, Backups
<1>6. b = None \/ b \in AtomicId \ Pool(w)
  BY <1>4, PoolAndBackupsDisjoint DEF UsableBackups, Backups
<1>7. \/ p \in Pool(w)
      \/ Pool(w) = {} /\ p = b /\ active(b)
      \/ Pool(w) = {} /\ p = None /\ ~ active(b)
  BY DEF Best
<1>8. Pool(w) \subseteq AtomicId
  BY DEF Pool
<1>9. \A q \in Profiles : Give(cap, d, q) \in Nat /\ d[q].down \in Nat
  BY <1>3, GiveType, DemandsAssumption DEF ClassDemand
<1> HIDE DEF cap, backupOptions, primaryOptions
<1>10. ASSUME NEW a \in AtomicId
       PROVE  /\ PrimaryShares(a, cap, d) \subseteq Share
              /\ BackupShares(a, d) \subseteq Share
  BY <1>9 DEF PrimaryShares, BackupShares, Share
<1>11. last'.shares \subseteq Share
  BY <1>2, <1>6, <1>7, <1>8, <1>10 DEF Build
<1>12. last' \in Allocation
  BY <1>2, <1>6, <1>7, <1>8, <1>11 DEF Build, Allocation
<1>13. last'.backup_active <=> state' = "active" /\ UsableBackups(w) # {}
  BY <1>2, <1>5 DEF Build
<1>14. ASSUME NEW s \in last'.shares
       PROVE  /\ s.atomic \notin last'.quiesced
              /\ \/ s \in PrimaryShares(p, cap, d) /\ p # b /\ s.atomic = p
                 \/ s \in BackupShares(b, d) /\ s.atomic = b
  <2>1. \/ s \in PrimaryShares(p, cap, d) /\ p # None /\ p # b
        \/ s \in BackupShares(b, d) /\ active(b)
    BY <1>2 DEF Build
  <2>2. CASE s \in PrimaryShares(p, cap, d) /\ p # None /\ p # b
    <3>1. s.atomic = p
      BY <2>2 DEF PrimaryShares
    <3>2. QED
      BY <2>2, <3>1, <1>2 DEF Build
  <2>3. CASE s \in BackupShares(b, d) /\ active(b)
    <3>1. s.atomic = b
      BY <2>3 DEF BackupShares
    <3>2. QED
      BY <2>3, <3>1, <1>2, <1>6 DEF Build
  <2>4. QED
    BY <2>1, <2>2, <2>3
<1>15. ASSUME NEW s \in last'.shares, NEW t \in last'.shares,
              s.atomic = t.atomic, s.profile = t.profile
       PROVE  s = t
  <2>1. \/ s \in PrimaryShares(p, cap, d) /\ t \in PrimaryShares(p, cap, d)
        \/ s \in BackupShares(b, d) /\ t \in BackupShares(b, d)
    BY <1>14, <1>15
  <2>2. QED
    BY <2>1, <1>15 DEF PrimaryShares, BackupShares
<1>16. QED
  BY <1>12, <1>13, <1>14, <1>15

-----------------------------------------------------------------------------
(* Types *)

\* The history kept of a run of samples is a time at which a decision was made.
LEMMA RunType ==
    ASSUME now \in Nat, NEW run \in Times, NEW holds
    PROVE  Run(run, holds) \in Times
BY DEF Run, Times

\* A pass of the medium loop keeps every variable in its type.
LEMMA MediumLoopType ==
    ASSUME TypeOK, NEW w \in Worlds, NEW d \in Demands,
           MediumLoop(w, d), Observe(w, d)
    PROVE  TypeOK'
<1> USE DEF TypeOK
<1>1. now' = now /\ Decide(w, d) /\ SpendLivenessBudget(w)
  BY DEF MediumLoop
<1>2. state' \in BackupStates /\ since' \in Nat /\ transitions' \in Nat
  BY <1>1 DEF Decide, StepHysteresis, Enter, EnterCounted, Stay, hysteresis,
              BackupStates
<1>3. last' \in Allocation
  BY <1>1, DecideAllocation
<1>4. decision' \in Decision \union {None}
  <2>1. RecordedAction(last', state') \in Actions
    BY DEF RecordedAction, Actions
  <2>2. [action |-> RecordedAction(last', state'), of |-> last'] \in Decision
    BY <2>1, <1>3 DEF Decision
  <2>3. QED
    BY <1>1, <2>2 DEF Decide
<1>5. \A a \in AtomicId : Baseline(w)[a] \in Times
  BY DEF Baseline, Times
<1>6. last_liveness' \in [AtomicId -> Times] /\ probes' \in [AtomicId -> Nat]
  BY <1>1, <1>5 DEF SpendLivenessBudget, Times
<1>7. short' \in Times /\ need' \in Times
  BY RunType DEF Observe
<1>8. decidedAt' \in Times
  BY DEF Observe, Times
<1>9. QED
  BY <1>1, <1>2, <1>3, <1>4, <1>6, <1>7, <1>8

\* Every variable has its type when the daemon starts.
LEMMA InitialType == HInit => TypeOK
<1> SUFFICES ASSUME HInit PROVE TypeOK
  OBVIOUS
<1>1. last_liveness \in [AtomicId -> Times] /\ probes \in [AtomicId -> Nat]
  BY DEF HInit, Init, Times
<1>2. now \in Nat /\ since \in Nat /\ transitions \in Nat
  BY DEF HInit, Init
<1>3. /\ state \in BackupStates
      /\ last \in Allocation \union {None} /\ decision \in Decision \union {None}
  BY Zenon DEF HInit, Init, BackupStates
<1>4. /\ short \in Times /\ need \in Times
      /\ decidedAt \in Times
  BY DEF HInit, Times
<1>5. QED
  BY <1>1, <1>2, <1>3, <1>4 DEF TypeOK

\* A restart keeps every variable in its type.
LEMMA RestartType ==
    ASSUME TypeOK, Restart, Forget
    PROVE  TypeOK'
<1>1. last_liveness' \in [AtomicId -> Times] /\ probes' \in [AtomicId -> Nat]
  BY DEF TypeOK, Restart, Times
<1>2. now' \in Nat /\ since' \in Nat /\ transitions' \in Nat
  BY DEF TypeOK, Restart, Forget
<1>3. /\ state' \in BackupStates
      /\ last' \in Allocation \union {None} /\ decision' \in Decision \union {None}
  BY Zenon DEF TypeOK, Restart, Forget, BackupStates
<1>4. /\ short' \in Times /\ need' \in Times
      /\ decidedAt' \in Times
  BY DEF Forget, Times
<1>5. QED
  BY <1>1, <1>2, <1>3, <1>4 DEF TypeOK

\* Every variable has its type in every reachable state.
THEOREM TypeCorrect == HSpec => []TypeOK
<1>1. HInit => TypeOK
  BY InitialType
<1>2. TypeOK /\ [HNext]_allvars => TypeOK'
  <2> SUFFICES ASSUME TypeOK, [HNext]_allvars
               PROVE  TypeOK'
    OBVIOUS
  <2>1. CASE \E w \in Worlds, d \in Demands : MediumLoop(w, d) /\ Observe(w, d)
    BY <2>1, MediumLoopType
  <2>2. CASE Restart /\ Forget
    BY <2>2, RestartType
  <2>3. CASE Tick /\ UNCHANGED history
    BY <2>3 DEF Tick, TypeOK, history, hysteresis
  <2>4. CASE UNCHANGED allvars
    BY <2>4 DEF TypeOK, allvars, vars, history, hysteresis
  <2>5. QED
    BY <2>1, <2>2, <2>3, <2>4 DEF HNext
<1>3. QED
  BY <1>1, <1>2, PTL DEF HSpec

-----------------------------------------------------------------------------
(* Hysteresis: when BACKUP may be in use, and when it must be *)

\* The inductive strengthening. ARMING was entered while NORMAL was short;
\* ACTIVE after a shortfall of the whole dwell; a run of needy samples started
\* no earlier than the ARMING it is waited out in.
HystInv ==
    /\ since <= now
    /\ state = "active" <=> InUse(last)
    /\ short # None => short <= now
    /\ decidedAt # None => decidedAt <= now
    /\ state = "arming" => short # None /\ short <= since
    /\ state = "active" => short # None /\ since - short >= ActivationDwell
    /\ need # None =>
          /\ state \in {"arming", "active"}
          /\ decidedAt # None /\ need <= decidedAt
          /\ state = "arming" =>
               since <= need /\ decidedAt - since < ActivationDwell

IInv == TypeOK /\ HystInv

\* A deficit excludes recovery, whatever the thresholds are: the two conditions
\* _step_hysteresis compares against can never hold of one sample.
LEMMA DeficitExcludesRecovery ==
    ASSUME NEW cap \in Nat, NEW crit \in Nat, InDeficit(cap, crit)
    PROVE  ~ Recovered(cap, crit)
BY ThresholdsAssumption DEF InDeficit, Recovered

\* The history variables see the sample that _step_hysteresis sees.
LEMMA ObserveSample ==
    ASSUME NEW w \in Worlds, NEW d \in Demands, Observe(w, d)
    PROVE  LET cap  == UsableCapacity(w)
               crit == CriticalDemand(d)
           IN  /\ short' = Run(short, ~ Recovered(cap, crit))
               /\ need' = Run(need, InDeficit(cap, crit) /\ UsableBackups(w) # {})
               /\ decidedAt' = now
<1>1. UsableBackups(w) # {} <=>
        \E a \in AtomicId : w[a].present /\ w[a].mode = "backup"
                              /\ w[a].health # "down"
  BY DEF UsableBackups, Backups
<1>2. QED
  BY <1>1 DEF Observe, CriticalDemand, InDeficit, Recovered

\* A pass of the medium loop preserves the invariant.
LEMMA MediumLoopHyst ==
    ASSUME IInv, NEW w \in Worlds, NEW d \in Demands,
           MediumLoop(w, d), Observe(w, d)
    PROVE  HystInv'
<1> DEFINE cap  == UsableCapacity(w)
           crit == CriticalDemand(d)
           got  == UsableBackups(w) # {}
<1>1. TypeOK /\ HystInv /\ TypeOK'
  BY MediumLoopType DEF IInv
<1>2. cap \in Nat /\ crit \in Nat
  BY CapacityAssumption, CriticalDemandType
<1>3. InDeficit(cap, crit) => ~ Recovered(cap, crit)
  BY <1>2, DeficitExcludesRecovery
<1>4. /\ short' = Run(short, ~ Recovered(cap, crit))
      /\ need' = Run(need, InDeficit(cap, crit) /\ got)
      /\ decidedAt' = now
  BY ObserveSample
<1>5. StepHysteresis(cap, crit, got) /\ now' = now
  BY DEF MediumLoop, Decide
<1>6. /\ InUse(last)' <=> state' = "active" /\ got
      /\ last' # None
  BY DecideAllocation, NoneAssumption DEF MediumLoop, InUse
<1> HIDE DEF cap, crit, got
<1>7. /\ now \in Nat /\ since \in Nat /\ state \in BackupStates
      /\ short \in Times /\ need \in Times /\ decidedAt \in Times
  BY <1>1 DEF TypeOK
<1>8. /\ since' <= now' /\ (short' # None => short' <= now')
      /\ decidedAt' # None => decidedAt' <= now'
  BY <1>1, <1>4, <1>5, <1>7 DEF HystInv, StepHysteresis, Enter, EnterCounted,
        Stay, hysteresis, Run, Times
<1>9. state' = "active" => got
  BY <1>5 DEF StepHysteresis, Enter, EnterCounted, Stay, hysteresis
<1>10. state' = "active" <=> InUse(last)'
  BY <1>6, <1>9
<1>11. state' = "arming" => short' # None /\ short' <= since'
  BY <1>1, <1>3, <1>4, <1>5, <1>7, NoneAssumption DEF HystInv, StepHysteresis,
        Enter, EnterCounted, Stay, hysteresis, Run, Times
<1>12. state' = "active" => short' # None /\ since' - short' >= ActivationDwell
  BY <1>1, <1>3, <1>4, <1>5, <1>7, ThresholdsAssumption, NoneAssumption
     DEF HystInv, StepHysteresis, Enter, EnterCounted, Stay, hysteresis, Run, Times
<1>13. ASSUME need' # None
       PROVE  /\ state' \in {"arming", "active"}
              /\ decidedAt' # None /\ need' <= decidedAt'
              /\ state' = "arming" =>
                    since' <= need' /\ decidedAt' - since' < ActivationDwell
  <2>1. InDeficit(cap, crit) /\ got /\ ~ Recovered(cap, crit)
    BY <1>13, <1>4, <1>3 DEF Run
  <2>2. need' = IF need = None THEN now ELSE need
    BY <2>1, <1>4 DEF Run
  <2>3. decidedAt' # None /\ need' <= decidedAt'
    BY <2>2, <1>1, <1>4, <1>7, NoneAssumption DEF HystInv, TypeOK, Times
  <2>4. state' \in {"arming", "active"}
    BY <2>1, <1>5, <1>7 DEF StepHysteresis, Enter, EnterCounted, Stay, hysteresis,
          BackupStates
  <2>5. ASSUME state' = "arming"
        PROVE  since' <= need' /\ decidedAt' - since' < ActivationDwell
    <3>1. \/ since' = now /\ state # "arming"
          \/ since' = since /\ state = "arming" /\ now - since < ActivationDwell
      BY <2>1, <2>5, <1>5, <1>7, ThresholdsAssumption DEF StepHysteresis, Enter,
            EnterCounted, Stay, hysteresis, BackupStates
    <3>2. CASE since' = now /\ state # "arming"
      BY <3>2, <2>1, <2>2, <2>5, <1>1, <1>4, <1>5, <1>7, ThresholdsAssumption
         DEF HystInv, StepHysteresis, Enter, EnterCounted, Stay, hysteresis
    <3>3. CASE since' = since /\ state = "arming" /\ now - since < ActivationDwell
      BY <3>3, <2>2, <1>1, <1>4, <1>7 DEF HystInv, Times
    <3>4. QED
      BY <3>1, <3>2, <3>3
  <2>6. QED
    BY <2>3, <2>4, <2>5
<1>14. QED
  BY <1>8, <1>10, <1>11, <1>12, <1>13 DEF HystInv

\* The invariant is inductive.
THEOREM HysteresisInvariant == HSpec => []IInv
<1>1. HInit => IInv
  <2>1. HInit => TypeOK
    BY InitialType
  <2>2. HInit => HystInv
    BY DEF HInit, Init, HystInv, InUse
  <2>3. QED
    BY <2>1, <2>2 DEF IInv
<1>2. IInv /\ TypeOK' /\ [HNext]_allvars => IInv'
  <2> SUFFICES ASSUME IInv, TypeOK', [HNext]_allvars
               PROVE  HystInv'
    BY DEF IInv
  <2>1. CASE \E w \in Worlds, d \in Demands : MediumLoop(w, d) /\ Observe(w, d)
    BY <2>1, MediumLoopHyst
  <2>2. CASE Restart /\ Forget
    BY <2>2 DEF Restart, Forget, IInv, TypeOK, HystInv, InUse
  <2>3. CASE Tick /\ UNCHANGED history
    BY <2>3 DEF Tick, IInv, TypeOK, HystInv, InUse, history, hysteresis, Times
  <2>4. CASE UNCHANGED allvars
    BY <2>4 DEF IInv, HystInv, InUse, allvars, vars, history, hysteresis
  <2>5. QED
    BY <2>1, <2>2, <2>3, <2>4 DEF HNext
<1>3. QED
  BY <1>1, <1>2, TypeCorrect, PTL DEF HSpec

\* Money is spent late, for every threshold and every input: BACKUP is in use
\* only after NORMAL was found short by every decision of a whole dwell.
THEOREM SpendingIsLate == HSpec => []BackupOnlyAfterSustainedShortfall
<1>1. IInv => BackupOnlyAfterSustainedShortfall
  BY DEF IInv, HystInv, BackupOnlyAfterSustainedShortfall
<1>2. QED
  BY <1>1, HysteresisInvariant, PTL

\* Help comes in time: a deficit that every decision of a dwell has seen, with a
\* usable BACKUP at hand, has BACKUP in use.
THEOREM HelpIsPrompt == HSpec => []PromptActivation
<1>1. IInv => PromptActivation
  BY ThresholdsAssumption DEF IInv, TypeOK, Times, HystInv, PromptActivation
<1>2. QED
  BY <1>1, HysteresisInvariant, PTL

\* No step takes BACKUP into use except out of an ARMING of at least the dwell.
THEOREM NoBounceTheorem == HSpec => NoBounce
<1>1. IInv /\ [HNext]_allvars =>
        [~ InUse(last) /\ InUse(last')
           => state = "arming" /\ now - since >= ActivationDwell]_allvars
  <2> SUFFICES ASSUME IInv, [HNext]_allvars, ~ InUse(last), InUse(last')
               PROVE  state = "arming" /\ now - since >= ActivationDwell
    OBVIOUS
  <2>1. PICK w \in Worlds, d \in Demands : MediumLoop(w, d) /\ Observe(w, d)
    BY DEF HNext, Restart, Tick, InUse, allvars, vars
  <2>2. state' = "active"
    BY <2>1, DecideAllocation DEF MediumLoop, InUse
  <2>3. state # "active"
    BY DEF IInv, HystInv
  <2>4. QED
    BY <2>1, <2>2, <2>3 DEF MediumLoop, Decide, StepHysteresis, Enter,
          EnterCounted, Stay, hysteresis
<1>2. QED
  BY <1>1, HysteresisInvariant, PTL DEF HSpec, NoBounce

-----------------------------------------------------------------------------
(* The allocation, its journal and the liveness budget *)

\* render() never raises on the allocator's account: the allocation in force
\* never shares an atomic it quiesces.
THEOREM SharesTheorem == HSpec => []SharesAreConsistent
<1>1. HInit => SharesAreConsistent
  BY DEF HInit, Init, SharesAreConsistent
<1>2. SharesAreConsistent /\ [HNext]_allvars => SharesAreConsistent'
  <2> SUFFICES ASSUME SharesAreConsistent, [HNext]_allvars
               PROVE  SharesAreConsistent'
    OBVIOUS
  <2>1. CASE \E w \in Worlds, d \in Demands : MediumLoop(w, d) /\ Observe(w, d)
    BY <2>1, DecideAllocation DEF MediumLoop, SharesAreConsistent
  <2>2. CASE Restart /\ Forget
    BY <2>2 DEF Restart, SharesAreConsistent
  <2>3. CASE last' = last
    BY <2>3 DEF SharesAreConsistent
  <2>4. QED
    BY <2>1, <2>2, <2>3 DEF HNext, Tick, allvars, vars
<1>3. QED
  BY <1>1, <1>2, PTL DEF HSpec

\* The newest decision record names the spending exactly while it goes on:
\* Allocation.key() contains backup_active, and _record tests it first.
THEOREM JournalTheorem == HSpec => []JournalExplainsSpending
<1>1. HInit => JournalExplainsSpending
  BY DEF HInit, Init, JournalExplainsSpending
<1>2. JournalExplainsSpending /\ [HNext]_allvars => JournalExplainsSpending'
  <2> SUFFICES ASSUME JournalExplainsSpending, [HNext]_allvars
               PROVE  JournalExplainsSpending'
    OBVIOUS
  <2>1. ASSUME NEW w \in Worlds, NEW d \in Demands, MediumLoop(w, d)
        PROVE  JournalExplainsSpending'
    <3>1. last' \in Allocation
      BY <2>1, DecideAllocation DEF MediumLoop
    <3>2. decision' = IF last = None \/ Key(last') # Key(last)
                      THEN [action |-> RecordedAction(last', state'), of |-> last']
                      ELSE decision
      BY <2>1 DEF MediumLoop, Decide
    <3>3. CASE last = None \/ Key(last') # Key(last)
      <4>1. decision'.action = RecordedAction(last', state')
        BY <3>2, <3>3
      <4>2. QED
        BY <4>1, <3>1 DEF JournalExplainsSpending, RecordedAction
    <3>4. CASE last # None /\ Key(last') = Key(last)
      <4>1. last'.backup_active = last.backup_active /\ decision' = decision
        BY <3>2, <3>4 DEF Key
      <4>2. QED
        BY <4>1, <3>4 DEF JournalExplainsSpending
    <3>5. QED
      BY <3>3, <3>4
  <2>2. CASE Restart /\ Forget
    BY <2>2 DEF Restart, JournalExplainsSpending
  <2>3. CASE last' = last /\ decision' = decision
    BY <2>3 DEF JournalExplainsSpending
  <2>4. QED
    BY <2>1, <2>2, <2>3 DEF HNext, Tick, allvars, vars
<1>3. QED
  BY <1>1, <1>2, PTL DEF HSpec

\* The inductive form of the budget: the probes of an atomic fit into the time
\* up to the newest one (or up to now, while its clock has not started).
BudgetInv ==
    \A a \in AtomicId :
        /\ last_liveness[a] # None => last_liveness[a] <= now
        /\ probes[a] * LivenessInterval
              <= IF last_liveness[a] = None THEN now ELSE last_liveness[a]

\* One more probe costs one more interval.
LEMMA OneMoreProbe ==
    ASSUME NEW n \in Nat, NEW k \in Nat
    PROVE  (n + 1) * k = n * k + k /\ n * k \in Nat
OBVIOUS

\* A pass of the medium loop spends at most what the elapsed time allows.
LEMMA MediumLoopBudget ==
    ASSUME TypeOK, BudgetInv, NEW w \in Worlds, NEW d \in Demands,
           MediumLoop(w, d)
    PROVE  BudgetInv'
<1> SUFFICES ASSUME NEW a \in AtomicId
             PROVE  /\ last_liveness'[a] # None => last_liveness'[a] <= now'
                    /\ probes'[a] * LivenessInterval
                          <= IF last_liveness'[a] = None THEN now'
                             ELSE last_liveness'[a]
  BY DEF BudgetInv
<1> DEFINE base == Baseline(w)[a]
           spent == probes[a] * LivenessInterval
<1>1. now' = now /\ now \in Nat /\ probes[a] \in Nat /\ LivenessInterval \in Nat
  BY ThresholdsAssumption DEF MediumLoop, TypeOK
<1>2. base \in Times /\ (base # None => base <= now)
  BY <1>1 DEF Baseline, BudgetInv, TypeOK, Times
<1>3. spent \in Nat /\ spent <= IF base = None THEN now ELSE base
  BY <1>1, OneMoreProbe, NoneAssumption DEF Baseline, BudgetInv, TypeOK, Times
<1>4. CASE DueForLiveness(w, a)
  <2>1. last_liveness'[a] = now /\ probes'[a] = probes[a] + 1
    BY <1>4 DEF MediumLoop, SpendLivenessBudget
  <2>2. base # None /\ now - base >= LivenessInterval
    BY <1>4 DEF DueForLiveness
  <2>3. probes'[a] * LivenessInterval = spent + LivenessInterval
    BY <2>1, <1>1, OneMoreProbe
  <2>4. spent + LivenessInterval <= now
    <3> HIDE DEF base, spent
    <3> QED BY <2>2, <1>1, <1>2, <1>3 DEF Times
  <2>5. QED
    BY <2>1, <2>3, <2>4, <1>1, NoneAssumption
<1>5. CASE ~ DueForLiveness(w, a)
  <2>1. last_liveness'[a] = base /\ probes'[a] = probes[a]
    BY <1>5 DEF MediumLoop, SpendLivenessBudget
  <2>2. QED
    BY <2>1, <1>1, <1>2, <1>3
<1>6. QED
  BY <1>4, <1>5

\* ADR-006's budget holds for every interval, across restarts of the daemon.
THEOREM BudgetTheorem == HSpec => []LivenessBudget
<1>1. HInit => BudgetInv
  <2> SUFFICES ASSUME HInit, NEW a \in AtomicId
               PROVE  /\ last_liveness[a] = None /\ now = 0
                      /\ probes[a] * LivenessInterval <= 0
    BY DEF BudgetInv
  <2>1. last_liveness[a] = None /\ now = 0 /\ probes[a] = 0
    BY DEF HInit, Init
  <2>2. QED
    BY <2>1, ThresholdsAssumption
<1>2. TypeOK /\ BudgetInv /\ [HNext]_allvars => BudgetInv'
  <2> SUFFICES ASSUME TypeOK, BudgetInv, [HNext]_allvars
               PROVE  BudgetInv'
    OBVIOUS
  <2>1. CASE \E w \in Worlds, d \in Demands : MediumLoop(w, d) /\ Observe(w, d)
    BY <2>1, MediumLoopBudget
  <2> DEFINE Fits(a, t) == probes[a] * LivenessInterval <= t
  <2>2. \A a \in AtomicId : /\ probes[a] * LivenessInterval \in Nat
                            /\ Fits(a, now)
    BY OneMoreProbe, ThresholdsAssumption DEF BudgetInv, TypeOK, Times
  <2>3. CASE Restart /\ Forget
    BY <2>2, <2>3 DEF Restart, BudgetInv
  <2>4. CASE Tick
    <3>1. /\ last_liveness' = last_liveness /\ probes' = probes
          /\ now' = now + 1 /\ now \in Nat
      BY <2>4 DEF Tick, TypeOK
    <3>2. QED
      BY <3>1, <2>2 DEF BudgetInv, TypeOK, Times
  <2>5. CASE UNCHANGED <<last_liveness, probes, now>>
    BY <2>5 DEF BudgetInv
  <2>6. QED
    BY <2>1, <2>3, <2>4, <2>5 DEF HNext, allvars, vars
<1>3. TypeOK /\ BudgetInv => LivenessBudget
  BY OneMoreProbe, ThresholdsAssumption
     DEF BudgetInv, LivenessBudget, TypeOK, Times
<1>4. QED
  BY <1>1, <1>2, <1>3, TypeCorrect, PTL DEF HSpec

\* ADR-020: with one hotspot and no critical class, whatever the worlds and
\* the demand, the hysteresis never leaves IDLE and BACKUP is never used.
THEOREM SingleHotspotTheorem == HSpec => []SingleHotspotNeverSpends
<1>1. HInit => SingleHotspotNeverSpends
  BY DEF HInit, Init, SingleHotspotNeverSpends, InUse
<1>2. SingleHotspotNeverSpends /\ [HNext]_allvars => SingleHotspotNeverSpends'
  <2> SUFFICES ASSUME SingleHotspotNeverSpends, [HNext]_allvars,
                      Critical \notin Profiles
               PROVE  state' = "idle" /\ ~ InUse(last')
    BY DEF SingleHotspotNeverSpends
  <2>1. state = "idle" /\ ~ InUse(last)
    BY DEF SingleHotspotNeverSpends
  <2>2. ASSUME NEW w \in Worlds, NEW d \in Demands, MediumLoop(w, d)
        PROVE  state' = "idle" /\ ~ InUse(last')
    <3>1. UsableCapacity(w) \in Nat /\ CriticalDemand(d) = 0
      BY CapacityAssumption DEF CriticalDemand
    <3>2. ~ InDeficit(UsableCapacity(w), CriticalDemand(d))
      BY <3>1, ThresholdsAssumption DEF InDeficit
    <3>3. state' = "idle"
      BY <2>1, <2>2, <3>2 DEF MediumLoop, Decide, StepHysteresis, Stay, hysteresis
    <3>4. ~ last'.backup_active
      BY <2>2, <3>3, DecideAllocation DEF MediumLoop
    <3>5. QED
      BY <3>3, <3>4 DEF InUse
  <2>3. CASE Restart
    BY <2>3 DEF Restart, InUse
  <2>4. CASE UNCHANGED <<state, last>>
    BY <2>1, <2>4 DEF InUse
  <2>5. QED
    BY <2>2, <2>3, <2>4 DEF HNext, Tick, hysteresis, allvars, vars
<1>3. QED
  BY <1>1, <1>2, PTL DEF HSpec

-----------------------------------------------------------------------------
(* The data plane under the allocator *)

\* The allocation in force gives best effort nothing of a BACKUP: what
\* render()'s test for a zero ceiling relies on.
BestEffortGetsZero(alloc) ==
    \A s \in alloc.shares :
        AlwaysBackup(s.atomic) /\ s.profile = BestEffort => s.ceiling = 0

RoutingInv == /\ last # None => BestEffortGetsZero(last)
              /\ NoBestEffortTableOnBackup

\* _build(): whichever BACKUP and primary were picked, best effort gets a
\* share of the primary's capacity only where the primary is in the NORMAL pool.
LEMMA BuildGivesZero ==
    ASSUME NEW w \in Worlds, NEW d, NEW cap, NEW primary, NEW backup,
           NEW active \in BOOLEAN,
           \/ primary \in Pool(w)
           \/ primary = backup
           \/ primary = None
    PROVE  BestEffortGetsZero(Build(w, d, cap, primary, backup, active))
<1> DEFINE alloc == Build(w, d, cap, primary, backup, active)
<1> SUFFICES ASSUME NEW s \in alloc.shares,
                    AlwaysBackup(s.atomic), s.profile = BestEffort
             PROVE  s.ceiling = 0
    BY DEF BestEffortGetsZero
<1>1. \/ primary # None /\ primary # backup /\ s \in PrimaryShares(primary, cap, d)
      \/ s \in BackupShares(backup, d)
    BY DEF Build
<1>2. ASSUME primary # None, primary # backup, s \in PrimaryShares(primary, cap, d)
      PROVE  FALSE
    <2>1. s.atomic = primary
        BY <1>2 DEF PrimaryShares
    <2>2. w[primary].mode = "normal"
        BY <1>2 DEF Pool, InNormalPool
    <2> QED BY <2>1, <2>2 DEF AlwaysBackup
<1>3. CASE s \in BackupShares(backup, d)
    BY <1>3 DEF BackupShares, MayUseBackup, Critical, BestEffort
<1> QED BY <1>1, <1>2, <1>3

\* decide(): so does every allocation it returns.
LEMMA DecideGivesZero ==
    ASSUME NEW w \in Worlds, NEW d \in Demands, Decide(w, d)
    PROVE  BestEffortGetsZero(last')
<1> DEFINE cap == UsableCapacity(w)
           backups == IF UsableBackups(w) = {} THEN {None} ELSE ChosenBackups(w)
           active(b) == state' = "active" /\ b # None
           primaries(b) == IF Pool(w) # {} THEN Best(w)
                           ELSE {IF active(b) THEN b ELSE None}
<1>1. PICK b \in backups : \E p \in primaries(b) :
              last' = Build(w, d, cap, p, b, active(b))
    BY DEF Decide
<1>2. PICK p \in primaries(b) : last' = Build(w, d, cap, p, b, active(b))
    BY <1>1
<1>3. p \in Pool(w) \/ p = b \/ p = None
    BY <1>2 DEF Best
<1>4. active(b) \in BOOLEAN
    OBVIOUS
<1>5. BestEffortGetsZero(Build(w, d, cap, p, b, active(b)))
    <2> HIDE DEF active
    <2> QED BY <1>3, <1>4, BuildGivesZero
<1> QED BY <1>2, <1>5

\* The host route itself, for the main table may lead the same way by chance.
BindingInv == via # None /\ ~lost => host_route = via

\* What a successful bind_to has made, nothing but the two events `lost` records
\* undoes: no refused bind, no other interface that comes or goes, no reconcile, wipe
\* or restart leaves the tunnel on a link other than the one bind_to remembers. The
\* two (its own interface went; a replace killed after it took effect) are in the
\* model, are not noticed by bind_to (tunnel:424), and are not claimed to agree.
THEOREM RouteFollowsBindingTheorem == DSpec => []RouteFollowsBinding
<1>1. DInit => BindingInv
    BY DEF DInit, BindingInv
<1>2. ASSUME BindingInv, [DNext]_dvars
      PROVE  BindingInv'
    <2> USE DEF BindingInv
    <2>1. ASSUME NEW w \in Worlds, NEW d \in Demands, Decides(w, d)
          PROVE  BindingInv'
        BY <1>2, <2>1 DEF Decides, kernel, binding
    <2>2. ASSUME NEW failed, FastLoop(failed)
          PROVE  BindingInv'
        BY <1>2, <2>2 DEF FastLoop, BindTunnel, BindTo, binding
    <2>3. CASE Restarts
        BY <2>3 DEF Restarts
    <2>4. ASSUME NEW a \in AtomicId, Plug(a) \/ Unplug(a)
          PROVE  BindingInv'
        BY <1>2, <2>4 DEF Plug, Unplug, kernel, binding
    <2>5. CASE Wipe \/ Time \/ UNCHANGED dvars
        BY <1>2, <2>5 DEF Wipe, Time, dvars, kernel, binding
    <2> QED
        BY <1>2, <2>1, <2>2, <2>3, <2>4, <2>5 DEF DNext, Reconciles, FailingLoop
<1>3. BindingInv => RouteFollowsBinding
    BY DEF BindingInv, RouteFollowsBinding, Carriers
<1> QED BY <1>1, <1>2, <1>3, PTL DEF DSpec

\* Enforcement keeps the classes apart in its tables: a connection that has
\* only ever been BACKUP has no best-effort route, in every run of the system.
THEOREM BestEffortTablesTheorem == DSpec => []NoBestEffortTableOnBackup
<1>1. DInit => RoutingInv
    BY DEF DInit, Init, RoutingInv, NoBestEffortTableOnBackup
<1>2. ASSUME RoutingInv, [DNext]_dvars
      PROVE  RoutingInv'
    <2> USE <1>2 DEF RoutingInv
    <2>1. ASSUME NEW w \in Worlds, NEW d \in Demands, Decides(w, d)
          PROVE  RoutingInv'
        <3>1. BestEffortGetsZero(last)'
            BY <2>1, DecideGivesZero DEF Decides, MediumLoop, BestEffortGetsZero, AlwaysBackup
        <3>2. NoBestEffortTableOnBackup'
            BY <2>1 DEF Decides, kernel, NoBestEffortTableOnBackup, AlwaysBackup
        <3> QED BY <3>1, <3>2
    <2>2. ASSUME NEW failed, FastLoop(failed)
          PROVE  RoutingInv'
        <3>1. UNCHANGED last /\ last # None
            BY <2>2 DEF FastLoop, vars
        <3>2. \A a \in AtomicId : AlwaysBackup(a) => <<BestEffort, a>> \notin Routes(last, world)
            BY <3>1 DEF Routes, BestEffortGetsZero
        <3>3. rules' \subseteq rules \union Routes(last, world)
            BY <2>2 DEF FastLoop, Reconcile, ApplyRoutes
        <3>4. NoBestEffortTableOnBackup'
            BY <3>2, <3>3 DEF NoBestEffortTableOnBackup, AlwaysBackup
        <3> QED BY <3>1, <3>4 DEF BestEffortGetsZero, AlwaysBackup
    <2>3. CASE Restarts
        BY <2>3 DEF Restarts, Restart, NoBestEffortTableOnBackup, AlwaysBackup
    <2>4. ASSUME NEW a \in AtomicId, Plug(a) \/ Unplug(a)
          PROVE  RoutingInv'
        BY <2>4 DEF Plug, Unplug, kernel, vars, NoBestEffortTableOnBackup,
                    BestEffortGetsZero, AlwaysBackup
    <2>5. CASE Wipe
        BY <2>5 DEF Wipe, vars, NoBestEffortTableOnBackup, BestEffortGetsZero,
                    AlwaysBackup
    <2>6. CASE Time \/ UNCHANGED dvars
        BY <2>6 DEF Time, Tick, dvars, vars, kernel, NoBestEffortTableOnBackup,
                    BestEffortGetsZero, AlwaysBackup
    <2> QED
        BY <2>1, <2>2, <2>3, <2>4, <2>5, <2>6 DEF DNext, Reconciles, FailingLoop
<1>3. RoutingInv => NoBestEffortTableOnBackup
    BY DEF RoutingInv
<1> QED BY <1>1, <1>2, <1>3, PTL DEF DSpec
=============================================================================
