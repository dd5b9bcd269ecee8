---------------------------- MODULE MCAllocator ----------------------------
(* Small instances of the Allocator for TLC. One unit of rate is 256 kb/s, *)
(* so that the bootstrap headroom is 1, the activation deficit 2 and the   *)
(* recovery margin 4; time is counted in units of about a minute.          *)
EXTENDS AllocatorHistory, TLC

CONSTANTS wifi, usb, phone

View(mode, health, down, trust) ==
    [role |-> "wan", mode |-> mode, health |-> health, down |-> down,
     trust |-> trust, present |-> health # "absent"]

ThreeLinks == {wifi, usb, phone}
Both       == {Critical, BestEffort}

Rate(down, up) == [down |-> down, up |-> up]
Demand(c, b)   == (Critical :> c) @@ (BestEffort :> b)

\* The main link is good, worthless or gone, the phone a usable BACKUP or gone:
\* what the dwell times are about.
TimingWorlds ==
    {(wifi :> m) @@ (usb :> View("normal", "absent", 3, "stale")) @@ (phone :> p) :
        m \in {View("normal", "good", 5, "confident"),
               View("normal", "good", 5, "stale"),
               View("normal", "absent", 5, "stale")},
        p \in {View("backup", "good", 3, "stale"),
               View("backup", "absent", 3, "stale")}}

\* Two NORMAL links or two BACKUPs at once, degraded, unknown, down and never
\* measured: what building an allocation is about.
BuildWorlds ==
    {(wifi :> View("normal", "degraded", 6, "confident")) @@
     (usb :> View("normal", "good", 3, "confident")) @@
     (phone :> View("backup", "unknown", 3, "never")),
     (wifi :> View("normal", "degraded", 6, "confident")) @@
     (usb :> View("backup", "good", 2, "stale")) @@
     (phone :> View("backup", "down", 3, "stale")),
     (wifi :> View("normal", "good", 0, "never")) @@
     (usb :> View("backup", "good", 2, "stale")) @@
     (phone :> View("backup", "unknown", 3, "never"))}

AllWorlds == TimingWorlds \union BuildWorlds

\* Critical demand is small, or a deficit without the main link and within the
\* margin with it; best effort wants all there is.
AllDemands == {Demand(Rate(1, 0), Rate(9, 1)), Demand(Rate(3, 1), Rate(9, 0))}
=============================================================================
