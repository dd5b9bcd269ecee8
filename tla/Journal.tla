------------------------------ MODULE Journal ------------------------------
(***************************************************************************)
(* What the store of telemetry promises, without clocks, threads, errors   *)
(* or a scheduler: records wait in memory, become persistent together or   *)
(* are lost together, are never stored twice, and leave the store oldest   *)
(* first and only beyond the retention. A power cut may take back the last *)
(* transactions, whole ones, from the newest on.                           *)
(***************************************************************************)
EXTENDS Naturals, Sequences

CONSTANTS
    Kinds,      \* the tables
    Wall,       \* what the wall clock may say
    Retain      \* rows kept in each table

VARIABLES
    pending,    \* per table, the records that are only in memory
    versions,   \* the store after each transaction a power cut can return to
    serial      \* how many records there have been

Nothing == [k \in Kinds |-> <<>>]

JInit == pending = Nothing /\ versions = <<Nothing>> /\ serial = 0

Current == versions[Len(versions)]

Record ==
    /\ serial' = serial + 1
    /\ \E k \in Kinds, at \in Wall :
          pending' = [pending EXCEPT ![k] = Append(@, [id |-> serial + 1, at |-> at])]
    /\ UNCHANGED versions

\* Everything pending becomes persistent in one transaction ...
Store ==
    /\ versions' = Append(versions, [k \in Kinds |-> Current[k] \o pending[k]])
    /\ pending' = Nothing
    /\ UNCHANGED serial

\* ... or nothing of it does.
Lose == pending' = Nothing /\ UNCHANGED <<versions, serial>>

\* A table gives up its oldest rows, and keeps Retain[k] or all it has.
Suffixes(s, keep) ==
    {SubSeq(s, n + 1, Len(s)) : n \in {m \in 0 .. Len(s) : m = 0 \/ Len(s) - m >= keep}}
Forget ==
    /\ \E db \in [Kinds -> UNION {Suffixes(Current[k], Retain[k]) : k \in Kinds}] :
          /\ \A k \in Kinds : db[k] \in Suffixes(Current[k], Retain[k])
          /\ versions' = Append(versions, db)
    /\ UNCHANGED <<pending, serial>>

\* The store reaches the medium: no power cut goes behind this.
Sync == versions' = <<Current>> /\ UNCHANGED <<pending, serial>>

PowerLoss ==
    /\ \E n \in 1 .. Len(versions) : versions' = SubSeq(versions, 1, n)
    /\ pending' = Nothing
    /\ UNCHANGED serial

JNext == Record \/ Store \/ Lose \/ Forget \/ Sync \/ PowerLoss

JSpec == JInit /\ [][JNext]_<<pending, versions, serial>>
=============================================================================
