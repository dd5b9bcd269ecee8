------------------------------ MODULE Allocator ------------------------------
(***************************************************************************)
(* The controller of the appliance (wifucked.allocator.Allocator) as the   *)
(* daemon's medium loop drives it: given what the registry knows of every  *)
(* connection ("atomic") and what the LAN classes demand, step the         *)
(* asymmetric BACKUP hysteresis, build an Allocation, write a decision     *)
(* record when the allocation changed, and spend the liveness budget.      *)
(*                                                                         *)
(* The registry and the demand estimator are other components: what they   *)
(* hand to decide() is an input, chosen from Worlds and Demands.           *)
(***************************************************************************)
EXTENDS Integers, FiniteSets, FiniteSetsExt

CONSTANTS
    AtomicId,            \* identities of connections (Atomic.id)
    None,                \* Python's None
    Profiles,            \* the service profiles of the LAN mode (ADR-020)
    Worlds,              \* registry snapshots decide() may be given
    Demands,             \* demand samples decide() may be given
    ActivationDeficit,   \* Thresholds.activation_deficit_bps
    RecoveryMargin,      \* Thresholds.recovery_margin_bps
    ActivationDwell,     \* Thresholds.activation_dwell_s
    RecoveryDwell,       \* Thresholds.recovery_dwell_s
    LivenessInterval,    \* Thresholds.liveness_interval_s
    BootstrapHeadroom,   \* BOOTSTRAP_HEADROOM_BPS
    MaxTime              \* bound on the modelled clock (TLC only)

Critical   == "Stable_critical"
BestEffort == "Stable_besteffort"

\* What decide() reads of one Atomic. `trust` abstracts the confidence of its
\* capacity estimate: at or above min_confidence after decay, below it though
\* once measured, or never measured (measured_at is None).
Modes    == {"normal", "backup", "unused"}
Healths  == {"good", "degraded", "down", "absent", "unknown"}
AtomicView ==
    [present : BOOLEAN, role : {"wan", "lan_out"}, mode : Modes,
     health : Healths, down : Nat, trust : {"confident", "stale", "never"}]

ClassDemand == [down : Nat, up : Nat]

Share      == [atomic : AtomicId, profile : Profiles, ceiling : Nat]
Allocation == [primary : AtomicId \union {None}, backup_active : BOOLEAN,
               shares : SUBSET Share, quiesced : SUBSET AtomicId]

BackupStates == {"idle", "arming", "active", "releasing"}
Actions == {"activate_backup", "arming_backup", "no_connectivity",
            "allocate_normal"}

\* A decision record: the action it names, and the allocation it was written
\* for (which stands for the inputs and thresholds the record quotes).
Decision == [action : Actions, of : Allocation]

VARIABLES
    now,             \* Clock.now()
    state, since,    \* _Hysteresis.state, .since
    transitions,     \* _Hysteresis.transitions
    last_liveness,   \* _Hysteresis.last_liveness
    last,            \* Allocator._last, also Daemon.allocation
    decision,        \* newest decision record in the journal (telemetry)
    probes           \* liveness probes accounted so far, per atomic

hysteresis == <<state, since, transitions>>
vars == <<now, hysteresis, last_liveness, last, decision, probes>>

-----------------------------------------------------------------------------
(* What the inputs say *)

\* Slip: any mode but UNUSED is let into the NORMAL pool.
InNormalPoolAnyMode(v) == v.present /\ v.role = "wan" /\ v.mode # "unused"
                          /\ v.health \in {"good", "degraded"}

InNormalPool(v) == /\ v.present
                   /\ v.role = "wan"
                   /\ v.mode = "normal"
                   /\ v.health \in {"good", "degraded"}

Pool(w)    == {a \in AtomicId : InNormalPool(w[a])}
Backups(w) == {a \in AtomicId : w[a].mode = "backup" /\ w[a].present}
UsableBackups(w) == {b \in Backups(w) : w[b].health # "down"}

\* Only a confident estimate counts; a link never measured at all gets the
\* bootstrap allowance, an aged estimate counts for nothing (ADR-024).
Believed(v) == IF v.trust = "confident" THEN v.down
               ELSE IF v.trust = "never" THEN BootstrapHeadroom ELSE 0

UsableCapacity(w) == MapThenSumSet(LAMBDA a : Believed(w[a]), Pool(w))

CriticalDemand(d) == IF Critical \in Profiles THEN d[Critical].down ELSE 0

\* Best members of the NORMAL pool: GOOD ones if there are any, then by
\* (confident, down_bps). Ties, which the code breaks by RTT and then by list
\* order, are left open.
Better(v, u) == \/ v.trust = "confident" /\ u.trust # "confident"
                \/ /\ (v.trust = "confident") = (u.trust = "confident")
                   /\ v.down > u.down
Best(w) ==
    LET good    == {a \in Pool(w) : w[a].health = "good"}
        healthy == IF good # {} THEN good ELSE Pool(w)
    IN  {a \in healthy : \A b \in healthy : ~ Better(w[b], w[a])}

ChosenBackups(w) ==
    {b \in UsableBackups(w) : \A c \in UsableBackups(w) : w[c].down <= w[b].down}

-----------------------------------------------------------------------------
(* _step_hysteresis *)

InDeficit(cap, crit) == crit - cap > ActivationDeficit
\* Slip: the recovery margin on the wrong side.
RecoveredEarly(cap, crit) == cap + RecoveryMargin >= crit
Recovered(cap, crit) == cap >= crit + RecoveryMargin

\* Slips: the dwell clock is not restarted; RELEASING goes back to ACTIVE.
EnterKeepingClock(target) == state' = target /\ UNCHANGED <<since, transitions>>
EnterResuming(target) ==
    /\ state' = IF state = "releasing" THEN "active" ELSE target
    /\ since' = now /\ UNCHANGED transitions

Enter(target) == state' = target /\ since' = now /\ UNCHANGED transitions
EnterCounted(target) ==
    state' = target /\ since' = now /\ transitions' = transitions + 1
Stay == UNCHANGED hysteresis

StepHysteresis(cap, crit, haveBackup) ==
    LET elapsed == now - since
        needed  == InDeficit(cap, crit) /\ haveBackup
        enough  == Recovered(cap, crit)
    IN  \/ /\ state = "idle"
           /\ IF needed THEN Enter("arming") ELSE Stay
        \/ /\ state = "arming"
           /\ IF ~ needed THEN Enter("idle")
              ELSE IF elapsed >= ActivationDwell THEN EnterCounted("active")
              ELSE Stay
        \/ /\ state = "active"
           /\ IF ~ haveBackup THEN Enter("idle")
              ELSE IF enough THEN Enter("releasing") ELSE Stay
        \/ /\ state = "releasing"
           /\ IF ~ enough THEN Enter("arming")
              ELSE IF elapsed >= RecoveryDwell THEN EnterCounted("idle")
              ELSE Stay

-----------------------------------------------------------------------------
(* _build: shares and quiesced atomics *)

Least(x, y)    == IF x <= y THEN x ELSE y
Greatest(x, y) == IF x >= y THEN x ELSE y

WantNormal(d, p) == Greatest(d[p].down, d[p].up)

\* Slip: what a class wants, not what it is given, leaves the remainder.
GiveOverdrawn(cap, d, p) ==
    Least(WantNormal(d, p),
          cap - (IF p # Critical /\ Critical \in Profiles
                 THEN WantNormal(d, Critical) ELSE 0))

\* Classes are served in priority order out of the believed capacity.
Give(cap, d, p) ==
    LET taken == IF p # Critical /\ Critical \in Profiles
                 THEN Least(WantNormal(d, Critical), cap) ELSE 0
    IN  Least(WantNormal(d, p), cap - taken)

MayUseBackup(p) == p = Critical

PrimaryShares(primary, cap, d) ==
    {[atomic |-> primary, profile |-> p, ceiling |-> Give(cap, d, p)] :
        p \in Profiles}
BackupShares(backup, d) ==
    {[atomic |-> backup, profile |-> p,
      ceiling |-> IF MayUseBackup(p) THEN d[p].down ELSE 0] : p \in Profiles}

Build(w, d, cap, primary, backup, backupActive) ==
    [primary       |-> primary,
     backup_active |-> backupActive,
     shares        |->
        (IF primary # None /\ primary # backup
         THEN PrimaryShares(primary, cap, d) ELSE {})
        \union (IF backupActive THEN BackupShares(backup, d) ELSE {}),
     quiesced      |->
        (IF backup # None /\ ~ backupActive THEN {backup} ELSE {})
        \union (Pool(w) \ {primary})]

\* Slip: only the primary tells two allocations apart.
KeyOfPrimary(alloc) == alloc.primary

\* Allocation.key(): quiesced is not part of it.
Key(alloc) == <<alloc.primary, alloc.backup_active, alloc.shares>>

\* _record: what the journal says about an allocation made in state s.
RecordedAction(alloc, s) ==
    IF alloc.backup_active THEN "activate_backup"
    ELSE IF s = "arming"   THEN "arming_backup"
    ELSE IF alloc.primary = None THEN "no_connectivity"
    ELSE "allocate_normal"

\* decide()
Decide(w, d) ==
    LET cap  == UsableCapacity(w)
        crit == CriticalDemand(d)
        backupOptions == IF UsableBackups(w) = {} THEN {None} ELSE ChosenBackups(w)
    IN  /\ StepHysteresis(cap, crit, UsableBackups(w) # {})
        /\ \E backup \in backupOptions :
             LET backupActive   == state' = "active" /\ backup # None
                 primaryOptions == IF Pool(w) # {} THEN Best(w)
                                   ELSE {IF backupActive THEN backup ELSE None}
             IN  \E primary \in primaryOptions :
                   last' = Build(w, d, cap, primary, backup, backupActive)
        /\ decision' = IF last = None \/ Key(last') # Key(last)
                       THEN [action |-> RecordedAction(last', state'),
                             of     |-> last']
                       ELSE decision

-----------------------------------------------------------------------------
(* Liveness budget (ADR-006) *)

\* decide() starts the clock of a BACKUP it sees for the first time.
Baseline(w) == [a \in AtomicId |-> IF a \in Backups(w) /\ last_liveness[a] = None
                                   THEN now ELSE last_liveness[a]]

\* Slip: a BACKUP this process never probed is due at once.
DueWhenNeverProbed(w, a) == /\ a \in Backups(w)
                            /\ state' # "active"
                            /\ \/ last_liveness[a] = None
                               \/ now - Baseline(w)[a] >= LivenessInterval

DueForLiveness(w, a) == /\ a \in Backups(w)
                        /\ state' # "active"
                        /\ Baseline(w)[a] # None
                        /\ now - Baseline(w)[a] >= LivenessInterval

\* _spend_liveness_budget, in the same medium loop as decide()
SpendLivenessBudget(w) ==
    /\ last_liveness' = [a \in AtomicId |->
                           IF DueForLiveness(w, a) THEN now ELSE Baseline(w)[a]]
    /\ probes' = [a \in AtomicId |->
                    IF DueForLiveness(w, a) THEN probes[a] + 1 ELSE probes[a]]

-----------------------------------------------------------------------------
(* The specification *)

Init ==
    /\ now = 0
    /\ state = "idle" /\ since = now /\ transitions = 0
    /\ last_liveness = [a \in AtomicId |-> None]
    /\ last = None
    /\ decision = None
    /\ probes = [a \in AtomicId |-> 0]

\* One pass of Daemon._medium_loop, discovery and measurement being inputs.
MediumLoop(w, d) ==
    /\ Decide(w, d)
    /\ SpendLivenessBudget(w)
    /\ now' = now

\* The daemon process dies and systemd starts it again: the allocator's memory
\* is gone, the journal and the accounted cost are not.
Restart ==
    /\ last # None
    /\ state' = "idle" /\ since' = now /\ transitions' = 0
    /\ last_liveness' = [a \in AtomicId |-> None]
    /\ last' = None
    /\ UNCHANGED <<now, decision, probes>>

Tick ==
    /\ now < MaxTime
    /\ now' = now + 1
    /\ UNCHANGED <<hysteresis, last_liveness, last, decision, probes>>

Next == \/ \E w \in Worlds, d \in Demands : MediumLoop(w, d)
        \/ Restart
        \/ Tick

Spec == Init /\ [][Next]_vars

-----------------------------------------------------------------------------
(* Assumptions on the constants *)

ASSUME ProfilesAssumption == Profiles \in {{Critical, BestEffort}, {BestEffort}}

\* Registry.observe keeps health ABSENT exactly for atomics that are not there.
ASSUME WorldsAssumption ==
    \A w \in Worlds :
        /\ w \in [AtomicId -> AtomicView]
        /\ \A a \in AtomicId : w[a].present <=> w[a].health # "absent"

ASSUME DemandsAssumption == Demands \subseteq [Profiles -> ClassDemand]

\* The activation dwell is positive: without one there is no hysteresis.
ASSUME ThresholdsAssumption ==
    /\ ActivationDeficit \in Nat /\ RecoveryMargin \in Nat
    /\ ActivationDwell \in Nat \ {0} /\ RecoveryDwell \in Nat
    /\ LivenessInterval \in Nat /\ BootstrapHeadroom \in Nat
    /\ MaxTime \in Nat

\* A sum of naturals over the finite pool is a natural: true of every finite
\* AtomicId, an assumption because it takes an induction to prove.
ASSUME CapacityAssumption == \A w \in Worlds : UsableCapacity(w) \in Nat

ASSUME NoneAssumption ==
    /\ None \notin AtomicId
    /\ None \notin Nat
    /\ None \notin Allocation
    /\ None \notin Decision
=============================================================================
