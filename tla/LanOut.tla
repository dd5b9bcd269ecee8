------------------------------- MODULE LanOut -------------------------------
(***************************************************************************)
(* The LAN-out classifier (wifucked.lanout.LanOutClassifier, ADR-023): for *)
(* each wired port a background pipeline tries for a DHCP lease, listens   *)
(* for a foreign DHCP server, and only then becomes a DHCP server itself;  *)
(* the medium loop starts pipelines, harvests them and applies their       *)
(* verdicts to the registry. Composed with what they touch: the ports'     *)
(* registry entries, their kernel addresses and dnsmasq's configuration,   *)
(* which outlive the daemon (ADR-008), and the hands that move cables.     *)
(***************************************************************************)
EXTENDS Naturals, FiniteSets

CONSTANTS
    Port,          \* wired ports (USB_ETHERNET and ETHERNET atomics)
    None,          \* Python's None
    MaxWorkers,    \* ThreadPoolExecutor(max_workers)
    MaxMoves,      \* bound on plugging, unplugging and moving (TLC only)
    MaxRestarts,   \* bound on restarts of the daemon (TLC only)
    MaxChoices,    \* bound on modes chosen by the user (TLC only)
    MaxFaults      \* bound on tools that fail (TLC only)

\* What a cable leads to: a network whose DHCP server answers a client in time,
\* one that is too slow to answer but is heard by a listener, a device and no
\* network, or nothing at all. Both kinds of network have an owner.
Segments == {"answers", "slow", "bare", "nothing"}
Owned    == {"answers", "slow"}

\* NORMAL and BACKUP, which nothing here tells apart, and UNUSED.
Modes == {"normal", "unused"}

\* A port's registry entry; "bad" stands for every health but GOOD.
Entry == [present : BOOLEAN, role : {"wan", "lan_out"}, mode : Modes,
          health : {"good", "bad"}, ever_connected : BOOLEAN]

Verdict == [role : {"wan", "lan_out"}, mode : Modes]
Stages  == {"queued", "lease", "listen", "serve", "done"}

ASSUME LanOutAssumption ==
    /\ None \notin Port \union Stages
    /\ MaxWorkers \in Nat \ {0}
    /\ MaxMoves \in Nat /\ MaxRestarts \in Nat
    /\ MaxChoices \in Nat /\ MaxFaults \in Nat

VARIABLES
    plugged, segment,   \* is the adapter plugged in, and where the cable leads
    addr,               \* IPv4 addresses of the port: a "lease", its "own"
    conf,               \* the port's dnsmasq drop-in: "none", "written", "loaded"
    atomics,            \* registry entries, None when unknown
    was_present,        \* LanOutClassifier._was_present
    decided,            \* LanOutClassifier._decided
    in_flight,          \* LanOutClassifier._in_flight: a stage, None without one
    outcome,            \* what the port's future will return
    undisturbed,        \* history: since the pipeline began that configured the
                        \* port's server, no hand touched the port, and neither
                        \* its listener nor its server failed
    moves, restarts, choices, faults    \* counted against their bounds

wires   == <<plugged, segment>>
kernel  == <<addr, conf>>
memory  == <<was_present, decided, in_flight, outcome>>
bounds  == <<moves, restarts, choices, faults>>
vars    == <<wires, kernel, atomics, memory, undisturbed, bounds>>

Serving(p) == plugged[p] /\ conf[p] = "loaded" /\ "own" \in addr[p]

Candidate(entry) == /\ entry # None
                    /\ entry.present
                    /\ entry.role = "wan"
                    /\ entry.health = "good"

-----------------------------------------------------------------------------
(* The user's hands *)

Plug(p, s) ==
    /\ ~ plugged[p] /\ moves < MaxMoves
    /\ plugged' = [plugged EXCEPT ![p] = TRUE]
    /\ segment' = [segment EXCEPT ![p] = s]
    /\ undisturbed' = [undisturbed EXCEPT ![p] = FALSE]
    /\ moves' = moves + 1
    /\ UNCHANGED <<kernel, atomics, memory, restarts, choices, faults>>

\* The interface goes and its addresses with it; the drop-in stays.
Unplug(p) ==
    /\ plugged[p] /\ moves < MaxMoves
    /\ plugged' = [plugged EXCEPT ![p] = FALSE]
    /\ segment' = [segment EXCEPT ![p] = "nothing"]
    /\ addr' = [addr EXCEPT ![p] = {}]
    /\ undisturbed' = [undisturbed EXCEPT ![p] = FALSE]
    /\ moves' = moves + 1
    /\ UNCHANGED <<conf, atomics, memory, restarts, choices, faults>>

\* The adapter stays and its cable is moved: no atomic disappears.
MoveCable(p, s) ==
    /\ plugged[p] /\ segment[p] # s /\ moves < MaxMoves
    /\ segment' = [segment EXCEPT ![p] = s]
    /\ undisturbed' = [undisturbed EXCEPT ![p] = FALSE]
    /\ moves' = moves + 1
    /\ UNCHANGED <<plugged, kernel, atomics, memory, restarts,
                   choices, faults>>

\* NetworkManager manages wired interfaces and gets a lease of its own accord.
NetworkManagerLease(p) ==
    /\ plugged[p] /\ segment[p] = "answers" /\ "lease" \notin addr[p]
    /\ addr' = [addr EXCEPT ![p] = @ \union {"lease"}]
    /\ UNCHANGED <<wires, conf, atomics, memory, undisturbed, bounds>>

\* POST /api/atomics/<id>/mode; the role of the port is not asked for. (The mode it
\* has already would change nothing.)
SetMode(p, mode) ==
    /\ atomics[p] # None /\ atomics[p].mode # mode /\ choices < MaxChoices
    /\ atomics' = [atomics EXCEPT ![p].mode = mode]
    /\ choices' = choices + 1
    /\ UNCHANGED <<wires, kernel, memory, undisturbed, moves, restarts, faults>>

-----------------------------------------------------------------------------
(* The pipeline, on a thread of its own *)

Goes(p, stage) == in_flight' = [in_flight EXCEPT ![p] = stage] /\ UNCHANGED outcome

Ends(p, role, mode) ==
    /\ in_flight' = [in_flight EXCEPT ![p] = "done"]
    /\ outcome'   = [outcome EXCEPT ![p] = [role |-> role, mode |-> mode]]

Running == {p \in Port : in_flight[p] \in {"lease", "listen", "serve"}}

\* Slip: the pool keeps a worker back.
StartWorkerSpare(p) ==
    /\ in_flight[p] = "queued"
    /\ Cardinality(Running) + 1 < MaxWorkers
    /\ Goes(p, "lease")
    /\ UNCHANGED <<wires, kernel, atomics, was_present, decided, undisturbed, bounds>>

StartWorker(p) ==
    /\ in_flight[p] = "queued"
    /\ Cardinality(Running) < MaxWorkers
    /\ Goes(p, "lease")
    /\ UNCHANGED <<wires, kernel, atomics, was_present, decided, undisturbed, bounds>>

\* attempt_client_lease: an address the port has already counts as a lease.
AttemptClientLease(p) ==
    /\ in_flight[p] = "lease"
    /\ \/ /\ addr[p] # {}
          /\ Ends(p, "wan", "normal") /\ UNCHANGED addr
       \/ /\ addr[p] = {} /\ plugged[p] /\ segment[p] = "answers"
          /\ Ends(p, "wan", "normal")
          /\ addr' = [addr EXCEPT ![p] = {"lease"}]
       \/ /\ addr[p] = {} /\ ~ (plugged[p] /\ segment[p] = "answers")
          /\ Goes(p, "listen") /\ UNCHANGED addr
    /\ UNCHANGED <<wires, conf, atomics, was_present, decided, undisturbed, bounds>>

\* dhclient fails or is cut off by its timeout, even where a server answers, when
\* it may have set its address already; or `ip -j addr` fails: no lease is read.
LeaseFails(p) ==
    /\ in_flight[p] = "lease" /\ faults < MaxFaults
    /\ Goes(p, "listen")
    /\ addr' \in {addr, [addr EXCEPT ![p] = @ \union
                            {a \in {"lease"} : plugged[p] /\ segment[p] = "answers"}]}
    /\ faults' = faults + 1
    /\ UNCHANGED <<wires, conf, atomics, was_present, decided, undisturbed,
                   moves, restarts, choices>>

\* Slip: only a server that would have leased us an address counts.
HeardAnswering(p) == plugged[p] /\ segment[p] = "answers"
Heard(p) == plugged[p] /\ segment[p] \in Owned

PassiveListen(p) ==
    /\ in_flight[p] = "listen"
    /\ IF Heard(p) THEN Ends(p, "wan", "unused") ELSE Goes(p, "serve")
    /\ UNCHANGED <<wires, kernel, atomics, was_present, decided, undisturbed, bounds>>

\* Only a failure to run `timeout` is an exception, and taken for "heard";
\* tcpdump exiting early, or missing, prints no reply and is "nothing heard".
ListenFails(p) ==
    /\ in_flight[p] = "listen" /\ faults < MaxFaults
    /\ \/ Ends(p, "wan", "unused") \/ Goes(p, "serve")
    /\ undisturbed' = [undisturbed EXCEPT ![p] = FALSE]
    /\ faults' = faults + 1
    /\ UNCHANGED <<wires, kernel, atomics, was_present, decided, 
                   moves, restarts, choices>>

\* Slip: the server gets no address of its own.
OwnAddressSkipped(p) == addr

\* `ip addr add`, whose failure is ignored, on a port that is gone for a start.
OwnAddress(p) == [addr EXCEPT ![p] = IF plugged[p] THEN @ \union {"own"} ELSE @]

\* A reload takes up every drop-in.
Reloaded(p) == [q \in Port |-> IF q = p \/ conf[q] = "written" THEN "loaded" ELSE conf[q]]

\* start_server: drop-in, address, reload.
StartServer(p) ==
    /\ in_flight[p] = "serve"
    /\ addr' = OwnAddress(p)
    /\ conf' = Reloaded(p)
    /\ Ends(p, "lan_out", "unused")
    /\ UNCHANGED <<wires, atomics, was_present, decided, undisturbed, bounds>>

\* The drop-in could not be written; or dnsmasq was not reloaded, or its reload was
\* reported failed after it took effect, with the address added or not; or only the
\* address failed, which nobody asks about: the port is LAN_OUT all the same.
StartServerFails(p) ==
    /\ in_flight[p] = "serve" /\ faults < MaxFaults
    /\ \/ UNCHANGED kernel /\ Ends(p, "wan", "unused")
       \/ /\ addr' \in {addr, OwnAddress(p)}
          /\ conf' \in {[conf EXCEPT ![p] = IF @ = "none" THEN "written" ELSE @], Reloaded(p)}
          /\ Ends(p, "wan", "unused")
       \/ /\ conf' = Reloaded(p) /\ UNCHANGED addr
          /\ Ends(p, "lan_out", "unused")
    /\ undisturbed' = [undisturbed EXCEPT ![p] = FALSE]
    /\ faults' = faults + 1
    /\ UNCHANGED <<wires, atomics, was_present, decided, moves,
                   restarts, choices>>

\* An unhandled exception; consider() turns it into an inert port.
PipelineError(p) ==
    /\ in_flight[p] \in {"lease", "listen", "serve"} /\ faults < MaxFaults
    /\ Ends(p, "wan", "unused")
    /\ undisturbed' = [undisturbed EXCEPT ![p] = FALSE]
    /\ faults' = faults + 1
    /\ UNCHANGED <<wires, kernel, atomics, was_present, decided, 
                   moves, restarts, choices>>

Pipeline(p) == \/ StartWorker(p)
               \/ AttemptClientLease(p)
               \/ PassiveListen(p)
               \/ StartServer(p)

-----------------------------------------------------------------------------
(* The medium loop: discovery, consider(), applying verdicts, measuring *)

Carrier(p) == IF segment[p] = "nothing" THEN "bad" ELSE "good"

Observed(p) ==
    IF plugged[p]
    THEN IF atomics[p] = None
         THEN [present |-> TRUE, role |-> "wan", mode |-> "normal",
               health |-> Carrier(p), ever_connected |-> Carrier(p) = "good"]
         ELSE [atomics[p] EXCEPT
                 !.present = TRUE,
                 !.health = IF atomics[p].present THEN @ ELSE Carrier(p),
                 !.ever_connected = @ \/ Carrier(p) = "good"]
    ELSE IF atomics[p] = None THEN None
    ELSE [atomics[p] EXCEPT !.present = FALSE, !.health = "bad"]

Present(p)  == Observed(p) # None /\ Observed(p).present
Forgotten   == {p \in Port : Present(p) /\ ~ was_present[p]}
StillDecided == decided \ Forgotten

Begins(p)   == /\ Candidate(Observed(p))
               /\ p \notin StillDecided
               /\ in_flight[p] = None

Finished(p) == in_flight[p] = "done"

Applied(p, entry) ==
    [entry EXCEPT !.role = outcome[p].role, !.mode = outcome[p].mode]

MediumLoop(measured) ==
    /\ atomics' = [p \in Port |->
         LET entry == IF Finished(p) /\ Observed(p) # None
                      THEN Applied(p, Observed(p)) ELSE Observed(p)
         IN  IF entry # None /\ entry.present
             THEN [entry EXCEPT !.health = measured[p]] ELSE entry]
    /\ was_present' = [p \in Port |-> Present(p)]
    /\ decided' = StillDecided \union {p \in Port : Finished(p)}
    /\ in_flight' = [p \in Port |-> IF Finished(p) THEN None
                                    ELSE IF Begins(p) THEN "queued" ELSE in_flight[p]]
    /\ outcome' = [p \in Port |-> IF Finished(p) THEN None ELSE outcome[p]]
    /\ undisturbed' = [p \in Port |-> \/ Begins(p) /\ conf[p] = "none"
                                      \/ undisturbed[p]]
    /\ UNCHANGED <<wires, kernel, bounds>>

\* What _measure leaves the ports' health at, a probe without an answer included.
Measurements == [Port -> {"good", "bad"}]

\* The daemon dies, with its pipelines, and starts again. set_mode and
\* set_role_and_mode persist before they return (Registry): an entry comes back
\* if it is worth a row.
Restart ==
    /\ restarts < MaxRestarts
    /\ restarts' = restarts + 1
    /\ atomics' = [p \in Port |->
         IF atomics[p] = None THEN None
         ELSE IF atomics[p].mode # "unused" \/ atomics[p].ever_connected
         THEN [atomics[p] EXCEPT !.present = FALSE, !.health = "bad"] ELSE None]
    /\ was_present' = [p \in Port |-> FALSE]
    /\ decided' = {}
    /\ in_flight' = [p \in Port |-> None] /\ outcome' = [p \in Port |-> None]
    /\ UNCHANGED <<wires, kernel, undisturbed, moves, choices, faults>>

Init ==
    /\ plugged = [p \in Port |-> FALSE] /\ segment = [p \in Port |-> "nothing"]
    /\ addr = [p \in Port |-> {}] /\ conf = [p \in Port |-> "none"]
    /\ atomics = [p \in Port |-> None]
    /\ was_present = [p \in Port |-> FALSE]
    /\ decided = {}
    /\ in_flight = [p \in Port |-> None] /\ outcome = [p \in Port |-> None]
    /\ undisturbed = [p \in Port |-> FALSE]
    /\ moves = 0 /\ restarts = 0 /\ choices = 0 /\ faults = 0

Next ==
    \/ \E p \in Port :
         \/ \E s \in Segments : Plug(p, s) \/ MoveCable(p, s)
         \/ Unplug(p)
         \/ NetworkManagerLease(p)
         \/ \E mode \in Modes : SetMode(p, mode)
         \/ Pipeline(p)
         \/ LeaseFails(p) \/ ListenFails(p) \/ StartServerFails(p) \/ PipelineError(p)
    \/ \E measured \in Measurements : MediumLoop(measured)
    \/ Restart

Spec == Init /\ [][Next]_vars

\* The loop keeps ticking: it does not leave undone forever what its next pass
\* would change in the classifier. Every step of a pipeline has a timeout.
Fairness == /\ WF_memory(\E measured \in Measurements : MediumLoop(measured))
            /\ \A p \in Port : WF_vars(Pipeline(p))

FairSpec == Spec /\ Fairness

-----------------------------------------------------------------------------
(* Properties *)

\* Every variable has the type the code gives it.
TypeOK ==
    /\ plugged \in [Port -> BOOLEAN] /\ segment \in [Port -> Segments]
    /\ addr \in [Port -> SUBSET {"lease", "own"}]
    /\ conf \in [Port -> {"none", "written", "loaded"}]
    /\ atomics \in [Port -> Entry \union {None}]
    /\ was_present \in [Port -> BOOLEAN]
    /\ decided \subseteq Port
    /\ in_flight \in [Port -> Stages \union {None}]
    /\ outcome \in [Port -> Verdict \union {None}]
    /\ undisturbed \in [Port -> BOOLEAN]
    /\ moves \in 0 .. MaxMoves /\ restarts \in 0 .. MaxRestarts
    /\ choices \in 0 .. MaxChoices /\ faults \in 0 .. MaxFaults

\* The asymmetry of ADR-022: while nobody moves the cable and the listener and the
\* server's own start work, a port whose pipeline made it a DHCP server is not on a
\* network with an owner, even if dhclient fails where it would have been answered,
\* and whatever other ports, restarts and the user do meanwhile.
ServerOnlyWhereQuiet ==
    \A p \in Port : Serving(p) /\ undisturbed[p] => segment[p] \notin Owned

\* Role and kernel agree: a port the registry calls LAN_OUT really serves, as
\* long as it was left alone, even if the daemon restarted in between. (A failing
\* `ip addr add` leaves a LAN_OUT that does not, linux.py:765; it is a fault, and
\* the port then no longer counts as left alone.)
LanOutIsServed ==
    \A p \in Port :
        atomics[p] # None /\ atomics[p].role = "lan_out" /\ undisturbed[p]
            => Serving(p)

\* No port waits forever: a candidate is classified or stops being one, though
\* it may have to queue for a worker, be replugged or see the daemon restart.
EveryPortIsClassified ==
    \A p \in Port :
        Candidate(atomics[p]) /\ p \notin decided
            ~> p \in decided \/ ~ Candidate(atomics[p])
=============================================================================
