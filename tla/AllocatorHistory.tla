-------------------------- MODULE AllocatorHistory --------------------------
(***************************************************************************)
(* The Allocator with history variables, and the properties they state.    *)
(* The history variables record what the code does not: since when the     *)
(* samples handed to decide() have said the same thing without a break.    *)
(* They read the inputs and never guard a step.                            *)
(***************************************************************************)
EXTENDS Allocator

VARIABLES
    short,      \* since when every decide() saw NORMAL not recovered
    need,       \* since when every decide() saw a deficit and a usable BACKUP
    decidedAt   \* time of the newest decide()

history == <<short, need, decidedAt>>
allvars == <<vars, history>>

Times == Nat \union {None}

\* A run of samples goes on while the sample says so, and starts at its first.
Run(run, holds) == IF ~ holds THEN None ELSE IF run = None THEN now ELSE run

InUse(alloc) == alloc # None /\ alloc.backup_active

Observe(w, d) ==
    LET cap  == UsableCapacity(w)
        crit == IF Critical \in Profiles THEN d[Critical].down ELSE 0
        poor == crit - cap > ActivationDeficit
        rich == cap >= crit + RecoveryMargin
        held == \E a \in AtomicId : /\ w[a].present
                                    /\ w[a].mode = "backup"
                                    /\ w[a].health # "down"
    IN  /\ short' = Run(short, ~ rich)
        /\ need' = Run(need, poor /\ held)
        /\ decidedAt' = now

Forget == short' = None /\ need' = None /\ decidedAt' = None

HInit == /\ Init
         /\ short = None /\ need = None /\ decidedAt = None

HNext == \/ \E w \in Worlds, d \in Demands : MediumLoop(w, d) /\ Observe(w, d)
         \/ Restart /\ Forget
         \/ Tick /\ UNCHANGED history

HSpec == HInit /\ [][HNext]_allvars

-----------------------------------------------------------------------------
(* Properties that hold *)

\* Every variable has the type the code gives it.
TypeOK ==
    /\ now \in Nat
    /\ state \in BackupStates /\ since \in Nat /\ transitions \in Nat
    /\ last_liveness \in [AtomicId -> Times]
    /\ last \in Allocation \union {None}
    /\ decision \in Decision \union {None}
    /\ probes \in [AtomicId -> Nat]
    /\ short \in Times /\ need \in Times /\ decidedAt \in Times

\* Money is spent late: whenever the metered BACKUP is in use, every decision
\* for at least the activation dwell before it was activated, and every one
\* since, found NORMAL short of critical demand plus the recovery margin.
\* Best-effort demand has no part in it (policy: may_use_backup).
BackupOnlyAfterSustainedShortfall ==
    InUse(last) => /\ short # None
                   /\ since - short >= ActivationDwell

\* Help comes in time: once every decision has seen a deficit and a usable
\* BACKUP for the activation dwell, BACKUP is in use; before that it is arming.
\* No path through RELEASING, a lost sample or a changed backup delays it.
PromptActivation ==
    need # None =>
        /\ state \in {"arming", "active"}
        /\ decidedAt - need >= ActivationDwell => InUse(last)

\* The contract enforce.render() raises ValueError on: no atomic is both
\* quiesced and given a share, and no (atomic, profile) has two ceilings.
SharesAreConsistent ==
    last # None =>
        /\ \A s \in last.shares : s.atomic \notin last.quiesced
        /\ \A s, t \in last.shares :
              s.atomic = t.atomic /\ s.profile = t.profile => s = t

\* The journal never explains spending away: the newest record says
\* activate_backup exactly while the allocation in force uses BACKUP (ADR-009).
JournalExplainsSpending ==
    last # None => (decision.action = "activate_backup" <=> last.backup_active)

\* ADR-006, "the number that must not creep": the probes accounted to an atomic
\* never exceed one per liveness interval of its life, restarts included.
LivenessBudget ==
    \A a \in AtomicId : probes[a] * LivenessInterval <= now

\* ADR-020: without a critical class nothing a client does can spend the
\* BACKUP's money, nor even start to arm it.
SingleHotspotNeverSpends ==
    Critical \notin Profiles => state = "idle" /\ ~ InUse(last)

\* A step may bring BACKUP into use only out of ARMING that has lasted the
\* activation dwell: no bounce from RELEASING (or IDLE) straight to ACTIVE.
NoBounce ==
    [][~ InUse(last) /\ InUse(last')
         => state = "arming" /\ now - since >= ActivationDwell]_allvars
=============================================================================
