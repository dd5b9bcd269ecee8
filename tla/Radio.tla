------------------------------- MODULE Radio -------------------------------
(***************************************************************************)
(* One radio, two jobs (wifucked.radio): the access point, which hostapd   *)
(* runs, and a station, which may join a network on another channel. The   *)
(* manager looks at both in every fast loop, and in the SHARED profile     *)
(* asks hostapd to follow the station. Its steps are composed with the     *)
(* rest of the daemon in module Loop.                                      *)
(***************************************************************************)
EXTENDS Integers

CONSTANTS
    Channel,        \* 2.4 GHz channels
    DefaultChannel, \* the one hostapd is configured with
    None            \* Python's None

ASSUME RadioAssumption == DefaultChannel \in Channel /\ None \notin Channel

VARIABLES
    ap,             \* the channel hostapd reports, None while it is down
    station,        \* the channel of the station's network, None without one
    csa_unavailable,    \* RadioManager.csa_unavailable
    radio_state     \* Daemon.radio_state, as far as align() reads it

radioVars == <<ap, station, csa_unavailable, radio_state>>

RadioInit ==
    /\ ap = DefaultChannel /\ station = None
    /\ csa_unavailable = FALSE
    /\ radio_state = [profile |-> "shared", station |-> None, conflict |-> FALSE]

Differ(a, s) == a # None /\ s # None /\ a # s

\* RadioManager.observe(), `anchored` being select_profile()'s verdict.
ObserveRadio(anchored) ==
    /\ radio_state' = [profile  |-> IF anchored THEN "anchor" ELSE "shared",
                       station  |-> station,
                       conflict |-> ~ anchored /\ Differ(ap, station)]
    /\ UNCHANGED <<ap, station, csa_unavailable>>

\* The guard of align() that leads to a request.
MaySwitch == radio_state.conflict /\ ~ csa_unavailable

\* The channel asked for: the one observe() saw the station on, a few commands
\* ago. Slip: the AP is sent home instead.
Home == DefaultChannel
Destination == radio_state.station

\* align(): hostapd_cli chan_switch, which the driver may refuse and which is
\* also refused while hostapd is down.
Switch(ok) ==
    /\ MaySwitch
    /\ ok => ap # None
    /\ ap' = IF ok THEN Destination ELSE ap
    /\ csa_unavailable' = ~ ok
    /\ UNCHANGED <<station, radio_state>>

\* align() without a request: nothing to do, or a refusal remembered.
StayPut == ~ MaySwitch /\ UNCHANGED radioVars

\* The world: the station joins, roams and leaves; hostapd goes down and
\* systemd starts it again on its configured channel.
StationMoves(c) ==
    /\ c # station /\ station' = c
    /\ UNCHANGED <<ap, csa_unavailable, radio_state>>

HostapdStops  == ap # None /\ ap' = None /\ UNCHANGED <<station, csa_unavailable, radio_state>>
HostapdStarts == ap = None /\ ap' = DefaultChannel
                 /\ UNCHANGED <<station, csa_unavailable, radio_state>>
=============================================================================
