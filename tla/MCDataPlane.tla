---------------------------- MODULE MCDataPlane ----------------------------
(* Small instances of the DataPlane for TLC, in the units of MCAllocator. *)
EXTENDS DataPlane, TLC

CONSTANTS wifi, phone

View(role, mode, health, down, trust) ==
    [role |-> role, mode |-> mode, health |-> health, down |-> down,
     trust |-> trust, present |-> health # "absent"]

TwoLinks == {wifi, phone}
Both     == {Critical, BestEffort}

\* The phone's upload has never been seen: its rate is zero.
Uploads == (wifi :> 100) @@ (phone :> 0)

Rate(down, up) == [down |-> down, up |-> up]
Demand(c, b)   == (Critical :> c) @@ (BestEffort :> b)

\* The main link at two rates or unplugged; the phone as BACKUP, there or not.
FailoverWorlds ==
    {(wifi :> m) @@ (phone :> p) :
        m \in {View("wan", "normal", "good", 400, "confident"),
               View("wan", "normal", "good", 100, "confident"),
               View("wan", "normal", "absent", 400, "stale")},
        p \in {View("wan", "backup", "good", 200, "stale"),
               View("wan", "backup", "absent", 200, "stale")}}

\* Critical demand that only the better main link meets.
FailoverDemands == {Demand(Rate(200, 0), Rate(100, 0))}
=============================================================================
