------------------------------ MODULE DataPlane ------------------------------
(***************************************************************************)
(* The data plane under the Allocator: Daemon._fast_loop renders the       *)
(* allocation in force (wifucked.enforce.render), reconciles the kernel    *)
(* with it (LinuxEnforcer.reconcile: CAKE, nftables marks, policy routes)  *)
(* and binds the tunnel to the primary (WireGuardTunnel.bind_to). Every    *)
(* marked class leaves through the tunnel (ADR-019), so the host route of  *)
(* the fabric's endpoint says which connection really carries it, and the  *)
(* main table's default route does where there is no such route. Kernel    *)
(* state outlives the daemon and is never torn down (ADR-008), but cables, *)
(* NetworkManager and people remove it (ADR-007).                          *)
(***************************************************************************)
EXTENDS Allocator

CONSTANTS
    Upload,         \* per atomic: its measured upload rate
    MaxMoves,       \* bound on plugging and unplugging (TLC only)
    MaxFaults,      \* bound on failing passes and on wiped state (TLC only)
    MaxFailing      \* bound on the failing commands of one pass (TLC only)

ASSUME DataPlaneAssumption ==
    /\ Upload \in [AtomicId -> Nat]
    /\ MaxMoves \in Nat /\ MaxFaults \in Nat /\ MaxFailing \in Nat

VARIABLES
    plugged,    \* the atomics whose interface exists
    world,      \* Registry.all(), as the newest medium loop left it
    attached,   \* the tunnel interface is configured with the fabric peer
    rules,      \* <<profile, atomic>>: an ip rule and its table's default route
    shaping,    \* per atomic: the rates CAKE shapes its interface (up) and its IFB
                \* device (down) to, or None
    marks,      \* the nft table: the LAN-out ports it marks; None without one
    via,        \* WireGuardTunnel._via_atomic_id
    host_route, \* the atomic the fabric endpoint's host route leads over, or None
    lost,       \* history: the route is not what the last successful bind_to made
                \* it: it went with its interface, or a replace that was reported
                \* failed has taken effect
    beat,       \* flips at every medium loop: one that changes nothing is a step
    moves, faults   \* counted against their bounds

kernel  == <<attached, rules, shaping, marks, host_route>>
binding == <<via, lost>>
bounds  == <<moves, faults>>
dvars   == <<vars, plugged, world, kernel, binding, beat, bounds>>

-----------------------------------------------------------------------------
(* render() *)

\* Slip: a ceiling of zero still gets its route.
RoutesEvenAtZero(alloc, w) ==
    {<<s.profile, s.atomic>> : s \in {s \in alloc.shares : w[s.atomic].present}}

Routes(alloc, w) ==
    {<<s.profile, s.atomic>> :
        s \in {s \in alloc.shares : s.ceiling # 0 /\ w[s.atomic].present}}

\* Interfaces to shape, and the rates: slightly under the measured capacity.
Shaped(alloc, w) ==
    {a \in {s.atomic : s \in alloc.shares} : w[a].present /\ w[a].trust # "never"}
Rate95(bps) == (bps * 95) \div 100
UpRate(a) == Rate95(Upload[a])
DownRate(a, w) == Rate95(w[a].down)

LanOutPorts(w) == {a \in AtomicId : w[a].role = "lan_out" /\ w[a].present}

-----------------------------------------------------------------------------
(* LinuxEnforcer.reconcile() *)

\* _close(): equal within what CAKE's rendering of a rate can tell apart.
Close(a, b) == 100 * (Greatest(a, b) - Least(a, b)) <= 2 * Greatest(a, b)

\* _read_shaping(): a rate of zero is no limit, and reads back as no shaper: on
\* the interface the pair is then missing, on the IFB device it counts as zero.
Shapers(cake) ==
    IF cake.up \in {None, 0} THEN None
    ELSE [up |-> cake.up, down |-> IF cake.down = None THEN 0 ELSE cake.down]

\* actual(): the kernel as read back; a part that cannot be read is missing.
Unread == {<<"tc -j">>, <<"nft -j">>, <<"ip -j">>}
Actual(failed) ==
    [shaping |-> [a \in AtomicId |-> IF <<"tc -j">> \in failed THEN None ELSE Shapers(shaping[a])],
     marks   |-> IF <<"nft -j">> \in failed THEN None ELSE marks,
     rules   |-> IF <<"ip -j">> \in failed THEN {} ELSE rules]

\* Slip: a qdisc that is there is taken to have the right rate.
ConvergedOnPresence(current, alloc, w) ==
    /\ \A a \in Shaped(alloc, w) : current.shaping[a] # None
    /\ Routes(alloc, w) \subseteq current.rules
    /\ current.marks # None

\* _converged(): every desired piece is there; more may be. Which LAN-out ports
\* are marked is not compared: their mark is the best-effort class's own.
Converged(current, alloc, w) ==
    /\ \A a \in Shaped(alloc, w) : /\ current.shaping[a] # None
                                   /\ Close(current.shaping[a].up, UpRate(a))
                                   /\ Close(current.shaping[a].down, DownRate(a, w))
    /\ Routes(alloc, w) \subseteq current.rules
    /\ current.marks # None

\* _apply_cake() and _apply_ingress_shaping(): each direction on a device of its
\* own. tc fails on an interface that is gone; the IFB device stays. (Whether the
\* redirect to it is in place is never read back, and is left out.)
ApplyCake(alloc, w, failed) ==
    shaping' = [a \in AtomicId |->
        IF a \notin Shaped(alloc, w) THEN shaping[a]
        ELSE [up   |-> IF a \in plugged /\ <<"cake", a>> \notin failed
                       THEN UpRate(a) ELSE shaping[a].up,
              down |-> IF <<"ingress", a>> \notin failed
                       THEN DownRate(a, w) ELSE shaping[a].down]]

\* _apply_marks(): the whole table is replaced, in one transaction.
ApplyMarks(w, failed) ==
    marks' = IF <<"marks">> \in failed THEN marks ELSE LanOutPorts(w)

\* _apply_route(): the rule, and the table's default route into the tunnel,
\* which cannot be installed before the tunnel was attached.
ApplyRoutes(alloc, w, failed) ==
    rules' = rules \union
        {r \in Routes(alloc, w) : attached /\ <<"route", r>> \notin failed}

Reconcile(alloc, w, failed) ==
    IF Converged(Actual(failed), alloc, w)
    THEN UNCHANGED <<shaping, marks, rules>>
    ELSE /\ ApplyCake(alloc, w, failed)
         /\ ApplyMarks(w, failed)
         /\ ApplyRoutes(alloc, w, failed)

\* The commands of one pass: any of them may fail, is logged and swallowed.
Commands(alloc, w) ==
    Unread \union {"cake", "ingress"} \X Shaped(alloc, w) \union
    {<<"route", r>> : r \in Routes(alloc, w)} \union {<<"marks">>, <<"bind">>}

-----------------------------------------------------------------------------
(* WireGuardTunnel.bind_to(), called by Daemon._bind_tunnel *)

\* bind_to() returns at once for the binding it remembers, and on an endpoint it
\* does not know.
Rebinds(a) == a # via /\ attached

\* Slips: the binding is noted before the route is in; only the first binds.
BindToEarly(a, failed) ==
    IF ~Rebinds(a) THEN UNCHANGED <<binding, host_route>>
    ELSE /\ via' = a /\ UNCHANGED lost
         /\ host_route' = IF a \in plugged /\ <<"bind">> \notin failed THEN a ELSE host_route
BindToOnce(a, failed) ==
    IF via = None /\ Rebinds(a) /\ a \in plugged /\ <<"bind">> \notin failed
    THEN via' = a /\ host_route' = a /\ lost' = FALSE
    ELSE UNCHANGED <<binding, host_route>>

\* `ip route replace` installs the route, or is refused, or is killed by its
\* timeout after it has taken effect: _run() reports the last two alike.
BindTo(a, failed) ==
    \/ /\ Rebinds(a) /\ a \in plugged /\ <<"bind">> \notin failed
       /\ via' = a /\ host_route' = a /\ lost' = FALSE
    \/ /\ Rebinds(a) /\ a \in plugged /\ <<"bind">> \in failed
       /\ host_route' = a /\ lost' = TRUE /\ UNCHANGED via
    \/ /\ Rebinds(a) /\ a \in plugged => <<"bind">> \in failed
       /\ UNCHANGED <<binding, host_route>>

BindTunnel(alloc, w, failed) ==
    IF alloc.primary # None /\ w[alloc.primary].present
    THEN BindTo(alloc.primary, failed)
    ELSE UNCHANGED <<binding, host_route>>

-----------------------------------------------------------------------------
(* The loops, and what happens to the kernel behind their back *)

FastLoop(failed) ==
    /\ last # None
    /\ Reconcile(last, world, failed)
    /\ BindTunnel(last, world, failed)
    /\ UNCHANGED <<vars, plugged, world, attached, beat, moves>>

Reconciles == FastLoop({}) /\ UNCHANGED faults

FailingLoop ==
    /\ last # None /\ faults < MaxFaults
    /\ \E failed \in SUBSET Commands(last, world) :
          Cardinality(failed) \in 1 .. MaxFailing /\ FastLoop(failed)
    /\ faults' = faults + 1

\* The medium loop sees what is plugged in, and decides. (Connections with an
\* interface: a network that was only scanned has none, and carries nothing.)
Decides(w, d) ==
    /\ \A a \in AtomicId : w[a].present <=> a \in plugged
    /\ MediumLoop(w, d)
    /\ world' = w
    /\ beat' = ~ beat
    /\ UNCHANGED <<plugged, kernel, binding, bounds>>

\* Registration with the fabric is tried once per start of the daemon.
Attach(was) == {was, TRUE}

Restarts ==
    /\ Restart
    /\ faults < MaxFaults
    /\ attached' \in Attach(attached)
    /\ via' = None /\ lost' = FALSE
    /\ faults' = faults + 1
    /\ UNCHANGED <<plugged, world, rules, shaping, marks, host_route, beat, moves>>

Plug(a) ==
    /\ a \notin plugged /\ moves < MaxMoves
    /\ plugged' = plugged \union {a}
    /\ moves' = moves + 1
    /\ UNCHANGED <<vars, world, kernel, binding, beat, faults>>

\* The interface goes, and its qdiscs and every route over it go too; its IFB
\* device is one of its own.
Unplug(a) ==
    /\ a \in plugged /\ moves < MaxMoves
    /\ plugged' = plugged \ {a}
    /\ shaping' = [shaping EXCEPT ![a].up = None]
    /\ host_route' = IF host_route = a THEN None ELSE host_route
    /\ lost' = (lost \/ host_route = a)
    /\ moves' = moves + 1
    /\ UNCHANGED <<vars, world, attached, rules, marks, via, beat, faults>>

\* NetworkManager, or somebody debugging, removes what enforce installed.
Wipe ==
    /\ faults < MaxFaults
    /\ faults' = faults + 1
    /\ \/ rules' = {} /\ UNCHANGED <<shaping, marks>>
       \/ marks' = None /\ UNCHANGED <<shaping, rules>>
       \/ \E a \in AtomicId : /\ \/ shaping' = [shaping EXCEPT ![a].up = None]
                                 \/ shaping' = [shaping EXCEPT ![a].down = None]
                              /\ UNCHANGED <<rules, marks>>
    /\ UNCHANGED <<vars, plugged, world, attached, binding, host_route, beat, moves>>

Time == Tick /\ UNCHANGED <<plugged, world, kernel, binding, beat, bounds>>

DInit ==
    /\ Init
    /\ world \in Worlds /\ plugged = {a \in AtomicId : world[a].present}
    /\ attached \in Attach(FALSE)
    /\ rules = {} /\ marks = None
    /\ shaping = [a \in AtomicId |-> [up |-> None, down |-> None]]
    /\ via = None /\ host_route = None /\ lost = FALSE
    /\ beat = FALSE
    /\ moves = 0 /\ faults = 0

DNext == \/ \E w \in Worlds, d \in Demands : Decides(w, d)
         \/ Reconciles
         \/ FailingLoop
         \/ Restarts
         \/ \E a \in AtomicId : Plug(a) \/ Unplug(a)
         \/ Wipe
         \/ Time

DSpec == DInit /\ [][DNext]_dvars

\* tick() runs both loops again and again; time passes.
Fairness == /\ WF_dvars(\E w \in Worlds, d \in Demands : Decides(w, d))
            /\ WF_dvars(Reconciles)
            /\ WF_dvars(Time)

FairDSpec == DSpec /\ Fairness

-----------------------------------------------------------------------------
(* Properties *)

\* Every variable of the data plane has the type the code gives it.
DTypeOK ==
    /\ plugged \subseteq AtomicId /\ world \in Worlds
    /\ attached \in BOOLEAN
    /\ rules \subseteq Profiles \X AtomicId
    /\ shaping \in [AtomicId -> [up : Nat \union {None}, down : Nat \union {None}]]
    /\ marks \in (SUBSET AtomicId) \union {None}
    /\ via \in AtomicId \union {None} /\ host_route \in AtomicId \union {None}
    /\ beat \in BOOLEAN /\ lost \in BOOLEAN
    /\ moves \in 0 .. MaxMoves /\ faults \in 0 .. MaxFaults

\* The links over which the tunnel's packets may leave: the host route's, and
\* without one whichever plugged link the main table's default route prefers.
Carriers == IF host_route = None THEN plugged ELSE {host_route}

\* After a successful bind_to the tunnel leaves over the atomic the dashboard names
\* (tunnel.via) and over no other, whatever fails later and whatever else is
\* unplugged. Two things break that, neither of which bind_to notices, since it
\* compares ids only (tunnel:424): the interface goes and comes back, and the
\* endpoint follows the main table; a replace is killed by its timeout after it
\* took effect, and the tunnel is on the new link under the name of the old one.
RouteFollowsBinding == via # None /\ ~lost => Carriers = {via}

\* Share: a ceiling of "0 means not routed here". A connection that has only
\* ever been BACKUP never gets a best-effort rule into its table, although the
\* allocator hands render() a best-effort share of it whenever it is active.
AlwaysBackup(a) == \A w \in Worlds : w[a].mode = "backup"
NoBestEffortTableOnBackup ==
    \A a \in AtomicId : AlwaysBackup(a) => <<BestEffort, a>> \notin rules

\* Reconciliation, not command (ADR-007): whatever failed, was wiped or was
\* unplugged, the kernel keeps coming back to what the allocation in force
\* asks for, rates included.
KernelConverges ==
    []<>(attached /\ last # None =>
           /\ marks # None
           /\ \A s \in last.shares :
                 s.ceiling # 0 /\ world[s.atomic].present
                   => <<s.profile, s.atomic>> \in rules
           /\ \A s \in last.shares :
                 (s.atomic \in plugged /\ world[s.atomic].present
                    /\ world[s.atomic].trust # "never")
                   => /\ None \notin {shaping[s.atomic].up, shaping[s.atomic].down}
                      /\ Close(shaping[s.atomic].up, UpRate(s.atomic))
                      /\ Close(shaping[s.atomic].down, DownRate(s.atomic, world)))

\* Failover reaches the kernel: an attached tunnel comes to leave over the primary,
\* and not only in the daemon's memory, while that one is there to be bound to. It
\* does not if the primary is the very atomic bind_to remembers and its route was
\* lost (tunnel:424), and with no primary nothing is asked (daemon.py:492).
TunnelFollowsPrimary ==
    \A a \in AtomicId :
        attached /\ last # None /\ last.primary = a
            ~> \/ host_route = a
               \/ via = a /\ lost
               \/ last = None \/ last.primary # a \/ a \notin plugged
=============================================================================
