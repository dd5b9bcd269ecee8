---------------------------- MODULE LanOutProofs ----------------------------
(***************************************************************************)
(* Theorems about the LAN-out classifier, for any number of ports and      *)
(* workers and any number of moved cables, restarts, choices and faults: a *)
(* port serves DHCP only where nobody else does, and a port that is called *)
(* LAN_OUT serves.                                                         *)
(***************************************************************************)
EXTENDS LanOut, TLAPS

\* A port that was left alone is plugged in; the pipeline is about to make it a
\* server, or has, only where the listener heard nobody.
QuietInv ==
    \A p \in Port : undisturbed[p] =>
        /\ plugged[p]
        /\ in_flight[p] = "serve" \/ conf[p] # "none" => segment[p] \notin Owned

\* A verdict of LAN_OUT that waits for the medium loop, or was applied by it,
\* stands for a server that runs.
ServedInv ==
    \A p \in Port : undisturbed[p] =>
        /\ in_flight[p] = "done" /\ outcome[p].role = "lan_out" => Serving(p)
        /\ atomics[p] # None /\ atomics[p].role = "lan_out" => Serving(p)

\* A pipeline that is done has a verdict.
OutcomeInv == \A p \in Port : in_flight[p] = "done" => outcome[p] \in Verdict

LanOutInv == TypeOK /\ OutcomeInv /\ QuietInv /\ ServedInv

-----------------------------------------------------------------------------
(* Entries *)

\* What a sweep makes of an entry: its role stays, a new one is a WAN.
LEMMA ObservedEntry ==
    ASSUME TypeOK, NEW p \in Port
    PROVE  /\ Observed(p) # None => Observed(p) \in Entry
           /\ Observed(p) # None /\ Observed(p).role = "lan_out" =>
                 atomics[p] # None /\ atomics[p].role = "lan_out"
           /\ Observed(p) # None /\ Observed(p).present => plugged[p]
<1>1. Carrier(p) \in {"good", "bad"}
  BY DEF Carrier
<1>2. (Carrier(p) = "good") \in BOOLEAN
  OBVIOUS
<1>3. CASE plugged[p] /\ atomics[p] = None
  BY <1>1, <1>2, <1>3 DEF Observed, Entry, Modes
<1>4. CASE plugged[p] /\ atomics[p] # None
  <2>1. atomics[p] \in Entry
    BY <1>4 DEF TypeOK
  <2>2. (atomics[p].ever_connected \/ Carrier(p) = "good") \in BOOLEAN
    BY Zenon
  <2> QED
    BY <1>1, <1>4, <2>1, <2>2 DEF Observed, Entry
<1>5. CASE ~ plugged[p]
  <2>1. CASE atomics[p] = None
    BY <1>5, <2>1 DEF Observed
  <2>2. CASE atomics[p] # None
    <3>1. atomics[p] \in Entry
      BY <2>2 DEF TypeOK
    <3>2. Observed(p) = [atomics[p] EXCEPT !.present = FALSE, !.health = "bad"]
      BY <1>5, <2>2 DEF Observed
    <3> QED
      BY <2>2, <3>1, <3>2 DEF Entry
  <2> QED
    BY <2>1, <2>2
<1> QED
  BY <1>3, <1>4, <1>5 DEF TypeOK

\* What is left of it after a verdict and a measurement.
LEMMA LoopedEntry ==
    ASSUME TypeOK, OutcomeInv, NEW measured \in Measurements, MediumLoop(measured),
           NEW p \in Port
    PROVE  /\ atomics'[p] \in Entry \union {None}
           /\ atomics'[p] # None /\ atomics'[p].role = "lan_out" =>
                 \/ in_flight[p] = "done" /\ outcome[p].role = "lan_out"
                 \/ atomics[p] # None /\ atomics[p].role = "lan_out"
<1> DEFINE entry == IF Finished(p) /\ Observed(p) # None THEN Applied(p, Observed(p)) ELSE Observed(p)
           final == IF entry # None /\ entry.present
                    THEN [entry EXCEPT !.health = measured[p]] ELSE entry
<1>1. atomics'[p] = final
  BY DEF MediumLoop
<1>2. CASE Observed(p) = None
  BY <1>1, <1>2
<1>3. CASE Observed(p) # None /\ ~ Finished(p)
  <2>1. Observed(p) \in Entry /\ entry = Observed(p)
    BY <1>3, ObservedEntry
  <2>2. final \in Entry /\ final.role = Observed(p).role
    BY <2>1 DEF Entry, Measurements
  <2> QED
    BY <1>1, <1>3, <2>2, ObservedEntry
<1>4. CASE Observed(p) # None /\ Finished(p)
  <2>1. Observed(p) \in Entry /\ outcome[p] \in Verdict
    BY <1>4, ObservedEntry DEF OutcomeInv, Finished
  <2>2. /\ Applied(p, Observed(p)) \in Entry
        /\ Applied(p, Observed(p)).role = outcome[p].role
    BY <2>1 DEF Applied, Entry, Verdict
  <2>3. entry = Applied(p, Observed(p))
    BY <1>4
  <2>4. final \in Entry /\ final.role = outcome[p].role
    BY <2>2, <2>3 DEF Entry, Measurements
  <2> QED
    BY <1>1, <1>4, <2>4 DEF Finished
<1> QED
  BY <1>2, <1>3, <1>4

\* What the registry remembers of an entry over a restart.
LEMMA RestartedEntry ==
    ASSUME TypeOK, Restart, NEW p \in Port
    PROVE  /\ atomics'[p] \in Entry \union {None}
           /\ atomics'[p] # None => atomics[p] # None /\ atomics'[p].role = atomics[p].role
<1> DEFINE kept == [atomics[p] EXCEPT !.present = FALSE, !.health = "bad"]
<1>1. atomics'[p] = None \/ (atomics[p] # None /\ atomics'[p] = kept)
  BY DEF Restart
<1>2. ASSUME atomics[p] # None
      PROVE  kept \in Entry /\ kept.role = atomics[p].role
  <2>1. atomics[p] \in Entry
    BY <1>2 DEF TypeOK
  <2> QED
    BY <2>1 DEF Entry
<1> HIDE DEF kept
<1> QED
  BY <1>1, <1>2

-----------------------------------------------------------------------------
(* Types *)

LEMMA TypeStep == TypeOK /\ OutcomeInv /\ [Next]_vars => TypeOK'
<1> SUFFICES ASSUME TypeOK, OutcomeInv, [Next]_vars PROVE TypeOK'
  OBVIOUS
<1> USE LanOutAssumption DEF wires, kernel, memory, bounds
<1>1. ASSUME NEW p \in Port, NEW s \in Segments, Plug(p, s) \/ MoveCable(p, s) PROVE TypeOK'
  <2>1. moves' \in 0 .. MaxMoves
    BY <1>1 DEF TypeOK, Plug, MoveCable
  <2>2. plugged' \in [Port -> BOOLEAN] /\ undisturbed' \in [Port -> BOOLEAN]
    BY <1>1 DEF TypeOK, Plug, MoveCable
  <2>3. segment' \in [Port -> Segments]
    BY <1>1 DEF TypeOK, Plug, MoveCable
  <2> QED
    BY <1>1, <2>1, <2>2, <2>3 DEF TypeOK, Plug, MoveCable
<1>2. ASSUME NEW p \in Port, Unplug(p) \/ NetworkManagerLease(p) PROVE TypeOK'
  <2>1. moves' \in 0 .. MaxMoves
    BY <1>2 DEF TypeOK, Unplug, NetworkManagerLease
  <2>2. plugged' \in [Port -> BOOLEAN] /\ undisturbed' \in [Port -> BOOLEAN]
    BY <1>2 DEF TypeOK, Unplug, NetworkManagerLease
  <2>3. addr' \in [Port -> SUBSET {"lease", "own"}]
    BY <1>2 DEF TypeOK, Unplug, NetworkManagerLease
  <2>4. segment' \in [Port -> Segments]
    BY <1>2 DEF TypeOK, Unplug, NetworkManagerLease, Segments
  <2> QED
    BY <1>2, <2>1, <2>2, <2>3, <2>4 DEF TypeOK, Unplug, NetworkManagerLease
<1>3. ASSUME NEW p \in Port, NEW mode \in Modes, SetMode(p, mode) PROVE TypeOK'
  <2>1. [atomics[p] EXCEPT !.mode = mode] \in Entry
    BY <1>3 DEF SetMode, TypeOK, Entry
  <2> QED
    BY <1>3, <2>1 DEF SetMode, TypeOK
<1>4. ASSUME NEW p \in Port, Pipeline(p) PROVE TypeOK'
  BY <1>4 DEF TypeOK, Pipeline, StartWorker, AttemptClientLease, PassiveListen, StartServer,
     OwnAddress, Reloaded, Goes, Ends, Stages, Verdict, Modes
<1>5. ASSUME NEW p \in Port, ListenFails(p) \/ StartServerFails(p) \/ PipelineError(p) PROVE TypeOK'
  <2>1. /\ undisturbed' = [undisturbed EXCEPT ![p] = FALSE]
        /\ faults < MaxFaults /\ faults' = faults + 1
        /\ UNCHANGED <<plugged, segment, atomics, was_present, decided, moves, restarts, choices>>
    BY <1>5 DEF ListenFails, StartServerFails, PipelineError
  <2>2. faults' \in 0 .. MaxFaults
    BY <2>1 DEF TypeOK
  <2>3. undisturbed' \in [Port -> BOOLEAN]
    BY <2>1 DEF TypeOK
  <2>4. in_flight' \in [Port -> Stages \union {None}] /\ outcome' \in [Port -> Verdict \union {None}]
    BY <1>5 DEF TypeOK, ListenFails, StartServerFails, PipelineError, Goes, Ends, Stages, Verdict,
       Modes
  <2>5. addr' \in [Port -> SUBSET {"lease", "own"}] /\ conf' \in [Port -> {"none", "written", "loaded"}]
    BY <1>5 DEF TypeOK, ListenFails, StartServerFails, PipelineError, OwnAddress,
       Reloaded
  <2> QED
    BY <2>1, <2>2, <2>3, <2>4, <2>5 DEF TypeOK
<1>6. ASSUME NEW measured \in Measurements, MediumLoop(measured) PROVE TypeOK'
  <2>1. atomics' \in [Port -> Entry \union {None}]
    <3>1. \A p \in Port : atomics'[p] \in Entry \union {None}
      BY <1>6, LoopedEntry
    <3>2. DOMAIN atomics' = Port /\ atomics' = [p \in Port |-> atomics'[p]]
      BY <1>6 DEF MediumLoop
    <3> QED
      BY <3>1, <3>2
  <2>2. /\ was_present' \in [Port -> BOOLEAN] /\ undisturbed' \in [Port -> BOOLEAN]
        /\ decided' \subseteq Port
    <3>1. \A p \in Port : Present(p) \in BOOLEAN
      BY Zenon DEF Present
    <3>2. \A p \in Port : ((Begins(p) /\ conf[p] = "none") \/ undisturbed[p]) \in BOOLEAN
      BY Zenon
    <3> QED
      BY <1>6, <3>1, <3>2 DEF MediumLoop, TypeOK, StillDecided
  <2>3. in_flight' \in [Port -> Stages \union {None}] /\ outcome' \in [Port -> Verdict \union {None}]
    BY <1>6 DEF MediumLoop, TypeOK, Stages
  <2> QED
    BY <1>6, <2>1, <2>2, <2>3 DEF MediumLoop, TypeOK
<1>7. CASE Restart
  <2>1. atomics' \in [Port -> Entry \union {None}]
    <3>1. \A p \in Port : atomics'[p] \in Entry \union {None}
      BY <1>7, RestartedEntry
    <3>2. atomics' = [p \in Port |-> atomics'[p]]
      BY <1>7 DEF Restart
    <3> QED
      BY <3>1, <3>2
  <2>2. restarts' \in 0 .. MaxRestarts
    <3>1. restarts < MaxRestarts /\ restarts' = restarts + 1
      BY <1>7 DEF Restart
    <3>2. restarts \in 0 .. MaxRestarts
      BY DEF TypeOK
    <3> QED
      BY <3>1, <3>2
  <2>3. was_present' \in [Port -> BOOLEAN]
    BY <1>7 DEF Restart
  <2> QED
    BY <1>7, <2>1, <2>2, <2>3 DEF Restart, TypeOK
<1>8. CASE UNCHANGED vars
  BY <1>8 DEF vars, TypeOK
<1>9. ASSUME NEW p \in Port, LeaseFails(p) PROVE TypeOK'
  <2>1. faults' \in 0 .. MaxFaults
    BY <1>9 DEF TypeOK, LeaseFails
  <2>2. addr' \in [Port -> SUBSET {"lease", "own"}]
    BY <1>9 DEF TypeOK, LeaseFails
  <2> QED
    BY <1>9, <2>1, <2>2 DEF TypeOK, LeaseFails, Goes, Stages
<1> QED
  BY <1>1, <1>2, <1>3, <1>4, <1>5, <1>6, <1>7, <1>8, <1>9 DEF Next

\* A pipeline ends with a verdict, which stays until the medium loop takes it.
LEMMA OutcomeStep == TypeOK /\ OutcomeInv /\ [Next]_vars => OutcomeInv'
<1> SUFFICES ASSUME TypeOK, OutcomeInv, [Next]_vars PROVE OutcomeInv'
  OBVIOUS
<1> USE LanOutAssumption DEF OutcomeInv
<1>1. CASE UNCHANGED <<in_flight, outcome>>
  BY <1>1
<1>2. ASSUME NEW p \in Port, NEW stage \in Stages \ {"done"}, Goes(p, stage) PROVE OutcomeInv'
  BY <1>2 DEF Goes, TypeOK
<1>3. ASSUME NEW p \in Port, NEW role \in {"wan", "lan_out"}, NEW mode \in Modes, Ends(p, role, mode)
      PROVE  OutcomeInv'
  BY <1>3 DEF Ends, TypeOK, Verdict
<1>4. ASSUME NEW p \in Port, Pipeline(p) PROVE OutcomeInv'
  BY <1>2, <1>3, <1>4 DEF Pipeline, StartWorker, AttemptClientLease, PassiveListen, StartServer,
     Stages, Modes
<1>5. ASSUME NEW p \in Port,
             LeaseFails(p) \/ ListenFails(p) \/ StartServerFails(p) \/ PipelineError(p)
      PROVE  OutcomeInv'
  BY <1>2, <1>3, <1>5 DEF LeaseFails, ListenFails, StartServerFails, PipelineError, Stages, Modes
<1>6. ASSUME NEW measured, MediumLoop(measured) PROVE OutcomeInv'
  BY <1>6 DEF MediumLoop, Finished, Stages
<1>7. CASE Restart
  BY <1>7 DEF Restart, Stages
<1> QED
  BY <1>1, <1>4, <1>5, <1>6, <1>7 DEF Next, Plug, MoveCable, Unplug, NetworkManagerLease, SetMode,
     memory, vars

-----------------------------------------------------------------------------
(* Where a port may serve *)

\* A port that is left alone stays plugged in, on the segment the listener
\* listened to.
LEMMA QuietStep == TypeOK /\ QuietInv /\ [Next]_vars => QuietInv'
<1> SUFFICES ASSUME TypeOK, QuietInv, [Next]_vars, NEW q \in Port, undisturbed'[q]
             PROVE  /\ plugged'[q]
                    /\ in_flight'[q] = "serve" \/ conf'[q] # "none" => segment'[q] \notin Owned
  BY DEF QuietInv
<1> DEFINE Goal == /\ plugged'[q]
                   /\ in_flight'[q] = "serve" \/ conf'[q] # "none" => segment'[q] \notin Owned
<1> USE LanOutAssumption
<1>1. ASSUME UNCHANGED <<plugged, segment, conf>>, undisturbed[q],
             in_flight'[q] = "serve" => in_flight[q] = "serve"
      PROVE  Goal
  BY <1>1 DEF QuietInv
<1>2. ASSUME NEW p \in Port, NEW s, Plug(p, s) \/ MoveCable(p, s) \/ Unplug(p) PROVE Goal
  <2>1. p # q
    BY <1>2 DEF Plug, MoveCable, Unplug, TypeOK
  <2>2. /\ undisturbed[q] /\ plugged'[q] = plugged[q] /\ segment'[q] = segment[q]
        /\ UNCHANGED <<conf, in_flight>>
    BY <1>2, <2>1 DEF Plug, MoveCable, Unplug, TypeOK, kernel, memory
  <2> QED
    BY <2>2 DEF QuietInv
<1>3. ASSUME NEW p \in Port, NEW mode, NetworkManagerLease(p) \/ SetMode(p, mode) PROVE Goal
  BY <1>1, <1>3 DEF NetworkManagerLease, SetMode, wires, kernel, memory
<1>4. ASSUME NEW p \in Port, StartWorker(p) \/ AttemptClientLease(p) \/ LeaseFails(p) PROVE Goal
  BY <1>1, <1>4 DEF StartWorker, AttemptClientLease, LeaseFails, Goes, Ends, wires, kernel, TypeOK
<1>5. ASSUME NEW p \in Port, PassiveListen(p) PROVE Goal
  <2>1. CASE p = q
    BY <1>5, <2>1 DEF PassiveListen, Heard, Goes, Ends, wires, kernel, TypeOK, QuietInv
  <2>2. CASE p # q
    BY <1>1, <1>5, <2>2 DEF PassiveListen, Goes, Ends, wires, kernel, TypeOK
  <2> QED
    BY <2>1, <2>2
<1>6. ASSUME NEW p \in Port, StartServer(p) PROVE Goal
  <2>1. conf'[q] # "none" => conf[q] # "none" \/ in_flight[q] = "serve"
    BY <1>6 DEF StartServer, Reloaded
  <2>2. undisturbed[q] /\ UNCHANGED wires /\ (in_flight'[q] = "serve" => in_flight[q] = "serve")
    BY <1>6 DEF StartServer, Ends, TypeOK
  <2> QED
    BY <2>1, <2>2 DEF QuietInv, wires
<1>7. ASSUME NEW p \in Port, ListenFails(p) \/ StartServerFails(p) \/ PipelineError(p) PROVE Goal
  <2>1. p # q
    BY <1>7 DEF ListenFails, StartServerFails, PipelineError, TypeOK
  <2>2. /\ undisturbed[q] /\ UNCHANGED wires
        /\ (conf'[q] # "none" => conf[q] # "none") /\ in_flight'[q] = in_flight[q]
    BY <1>7, <2>1 DEF ListenFails, StartServerFails, PipelineError, Reloaded, Goes, Ends,
       TypeOK, kernel
  <2> QED
    BY <2>2 DEF QuietInv, wires
<1>8. ASSUME NEW measured, MediumLoop(measured) PROVE Goal
  <2>1. in_flight'[q] = "serve" => in_flight[q] = "serve"
    BY <1>8 DEF MediumLoop, Stages
  <2>2. CASE undisturbed[q]
    BY <1>1, <1>8, <2>1, <2>2 DEF MediumLoop, wires, kernel
  <2>3. CASE ~ undisturbed[q]
    <3>1. Begins(q) /\ conf[q] = "none"
      BY <1>8, <2>3 DEF MediumLoop
    <3>2. plugged[q]
      BY <3>1, ObservedEntry DEF Begins, Candidate
    <3>3. in_flight'[q] # "serve"
      BY <2>1, <3>1 DEF Begins, Stages
    <3> QED
      BY <1>8, <3>1, <3>2, <3>3 DEF MediumLoop, wires, kernel
  <2> QED
    BY <2>2, <2>3
<1>9. CASE Restart
  BY <1>1, <1>9 DEF Restart, wires, kernel, Stages
<1>10. CASE UNCHANGED vars
  BY <1>1, <1>10 DEF vars, wires, kernel, memory
<1> QED
  BY <1>2, <1>3, <1>4, <1>5, <1>6, <1>7, <1>8, <1>9, <1>10 DEF Next, Pipeline

\* A server stays a server while the port is left alone: nothing takes back its
\* address or its drop-in.
LEMMA ServedStep == TypeOK /\ OutcomeInv /\ QuietInv /\ ServedInv /\ [Next]_vars => ServedInv'
<1> DEFINE Claims(q) == \/ in_flight[q] = "done" /\ outcome[q].role = "lan_out"
                        \/ atomics[q] # None /\ atomics[q].role = "lan_out"
<1> SUFFICES ASSUME TypeOK, OutcomeInv, QuietInv, ServedInv, [Next]_vars,
                    NEW q \in Port, undisturbed'[q], Claims(q)'
             PROVE  Serving(q)'
  BY DEF ServedInv
<1> USE LanOutAssumption
<1>1. ASSUME UNCHANGED <<plugged, addr, conf>>, undisturbed[q], Claims(q) PROVE Serving(q)'
  BY <1>1 DEF ServedInv, Serving
<1>2. ASSUME NEW p \in Port, NEW s, Plug(p, s) \/ MoveCable(p, s) \/ Unplug(p) PROVE Serving(q)'
  <2>1. p # q
    BY <1>2 DEF Plug, MoveCable, Unplug, TypeOK
  <2>2. /\ undisturbed[q] /\ plugged'[q] = plugged[q] /\ addr'[q] = addr[q] /\ Claims(q)
        /\ UNCHANGED conf
    BY <1>2, <2>1 DEF Plug, MoveCable, Unplug, TypeOK, kernel, memory
  <2> QED
    BY <2>2 DEF ServedInv, Serving
<1>3. ASSUME NEW p \in Port, NetworkManagerLease(p) PROVE Serving(q)'
  <2>1. undisturbed[q] /\ Claims(q) /\ UNCHANGED <<plugged, conf>> /\ addr[q] \subseteq addr'[q]
    BY <1>3 DEF NetworkManagerLease, TypeOK, wires, memory
  <2> QED
    BY <2>1 DEF ServedInv, Serving
<1>4. ASSUME NEW p \in Port, NEW mode \in Modes, SetMode(p, mode) PROVE Serving(q)'
  <2>1. atomics[p] \in Entry
    BY <1>4 DEF SetMode, TypeOK
  <2>2. [atomics[p] EXCEPT !.mode = mode].role = atomics[p].role
    BY <2>1 DEF Entry
  <2>3. Claims(q)
    BY <1>4, <2>2 DEF SetMode, TypeOK, memory
  <2> QED
    BY <1>1, <1>4, <2>3 DEF SetMode, wires, kernel
<1>5. ASSUME NEW p \in Port, StartWorker(p) \/ PassiveListen(p) PROVE Serving(q)'
  <2>1. Claims(q)
    BY <1>5 DEF StartWorker, PassiveListen, Goes, Ends, TypeOK
  <2> QED
    BY <1>1, <1>5, <2>1 DEF StartWorker, PassiveListen, wires, kernel
<1>6. ASSUME NEW p \in Port, AttemptClientLease(p) \/ LeaseFails(p) PROVE Serving(q)'
  <2>1. Claims(q)
    BY <1>6 DEF AttemptClientLease, LeaseFails, Goes, Ends, TypeOK
  <2>2. undisturbed[q] /\ UNCHANGED <<plugged, conf>> /\ addr[q] \subseteq addr'[q]
    BY <1>6 DEF AttemptClientLease, LeaseFails, TypeOK, wires
  <2> QED
    BY <2>1, <2>2 DEF ServedInv, Serving
<1>7. ASSUME NEW p \in Port, StartServer(p) PROVE Serving(q)'
  <2>1. undisturbed[q] /\ UNCHANGED plugged /\ addr[q] \subseteq addr'[q]
    BY <1>7 DEF StartServer, OwnAddress, TypeOK, wires
  <2>2. conf[q] = "loaded" => conf'[q] = "loaded"
    BY <1>7 DEF StartServer, Reloaded
  <2>3. CASE p = q
    BY <1>7, <2>1, <2>3 DEF StartServer, OwnAddress, Reloaded, QuietInv, Serving, TypeOK
  <2>4. CASE p # q
    <3>1. Claims(q)
      BY <1>7, <2>4 DEF StartServer, Ends, TypeOK
    <3> QED
      BY <2>1, <2>2, <3>1 DEF ServedInv, Serving
  <2> QED
    BY <2>3, <2>4
<1>8. ASSUME NEW p \in Port, ListenFails(p) \/ StartServerFails(p) \/ PipelineError(p)
      PROVE  Serving(q)'
  <2>1. p # q
    BY <1>8 DEF ListenFails, StartServerFails, PipelineError, TypeOK
  <2>2. /\ undisturbed[q] /\ UNCHANGED plugged /\ addr'[q] = addr[q] /\ Claims(q)
        /\ conf[q] = "loaded" => conf'[q] = "loaded"
    BY <1>8, <2>1 DEF ListenFails, StartServerFails, PipelineError, OwnAddress, Reloaded, Goes, Ends, TypeOK,
       kernel, wires
  <2> QED
    BY <2>2 DEF ServedInv, Serving
<1>9. ASSUME NEW measured \in Measurements, MediumLoop(measured) PROVE Serving(q)'
  <2>1. in_flight'[q] # "done"
    BY <1>9 DEF MediumLoop, Finished, Stages
  <2>2. Claims(q)
    BY <1>9, <2>1, LoopedEntry
  <2>3. undisturbed[q]
    <3>1. CASE Begins(q)
      <4>1. Observed(q) # None /\ Observed(q).role = "wan" /\ in_flight[q] = None
        BY <3>1 DEF Begins, Candidate
      <4>2. ~ Finished(q)
        BY <4>1 DEF Finished, Stages
      <4>3. Observed(q) \in Entry
        BY <4>1, ObservedEntry
      <4>4. atomics'[q].role = "wan"
        BY <1>9, <4>1, <4>2, <4>3 DEF MediumLoop, Entry, Measurements
      <4> QED
        BY <2>1, <4>4
    <3>2. CASE ~ Begins(q)
      BY <1>9, <3>2 DEF MediumLoop
    <3> QED
      BY <3>1, <3>2
  <2> QED
    BY <1>1, <1>9, <2>2, <2>3 DEF MediumLoop, wires, kernel
<1>10. CASE Restart
  <2>1. Claims(q)
    BY <1>10, RestartedEntry DEF Restart, Stages
  <2> QED
    BY <1>1, <1>10, <2>1 DEF Restart, wires, kernel
<1>11. CASE UNCHANGED vars
  BY <1>1, <1>11 DEF vars, wires, kernel, memory
<1> QED
  BY <1>2, <1>3, <1>4, <1>5, <1>6, <1>7, <1>8, <1>9, <1>10, <1>11 DEF Next, Pipeline

-----------------------------------------------------------------------------
(* Theorems *)

LEMMA LanOutInit == Init => LanOutInv
<1> SUFFICES ASSUME Init PROVE LanOutInv
  OBVIOUS
<1> USE LanOutAssumption DEF Init
<1>1. TypeOK
  BY DEF TypeOK, Segments
<1>2. OutcomeInv
  BY DEF OutcomeInv, Stages
<1>3. QuietInv /\ ServedInv
  BY DEF QuietInv, ServedInv
<1> QED
  BY <1>1, <1>2, <1>3 DEF LanOutInv

\* Types, verdicts, and what a port that is left alone stands for.
THEOREM LanOutInvariant == Spec => []LanOutInv
<1>1. LanOutInv /\ [Next]_vars => LanOutInv'
  BY TypeStep, OutcomeStep, QuietStep, ServedStep DEF LanOutInv
<1> QED
  BY <1>1, LanOutInit, PTL DEF Spec

\* While its cable stays and its listener and its server's start work, the port a
\* pipeline made a DHCP server is on no network that has an owner, although dhclient
\* may fail where it would have been answered, drop-ins outlive the daemon, and a
\* reload for one port loads those of all: a drop-in is written only after a listener
\* that heard nothing on the very segment.
THEOREM ServerIsAlone == Spec => []ServerOnlyWhereQuiet
<1>1. LanOutInv => ServerOnlyWhereQuiet
  BY DEF LanOutInv, QuietInv, Serving, ServerOnlyWhereQuiet
<1> QED
  BY <1>1, LanOutInvariant, PTL

\* A port with the role LAN_OUT serves, also after a restart that remembers the
\* role, as long as no hand moved its cable and no command of start_server failed:
\* a failing `ip addr add` is ignored there, and leaves a LAN_OUT that cannot serve.
THEOREM RoleMeansServer == Spec => []LanOutIsServed
<1>1. LanOutInv => LanOutIsServed
  BY DEF LanOutInv, ServedInv, LanOutIsServed
<1> QED
  BY <1>1, LanOutInvariant, PTL
=============================================================================
