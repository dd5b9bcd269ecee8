------------------------------- MODULE Fabric -------------------------------
(***************************************************************************)
(* The fabric server (fabric.app, fabric.peers, fabric.wireguard): several *)
(* gunicorn workers, each with a FabricWireGuard of its own, register      *)
(* appliances over one address registry file, one key file and one kernel  *)
(* interface. Appliances attach once per start of their daemon             *)
(* (WireGuardTunnel.attach); calls may time out, workers may die at any    *)
(* step, and the container may be restarted, with its volume mounted.      *)
(***************************************************************************)
EXTENDS Naturals, FiniteSets

CONSTANTS
    Key,            \* appliances, by their WireGuard public key
    Worker,         \* gunicorn's worker processes
    None,           \* Python's None
    PoolSize,       \* host addresses of the tunnel pool
    MaxCalls,       \* bound on calls of attach() (TLC only)
    MaxCrashes,     \* bound on dying workers and container restarts (TLC only)
    MaxFaults       \* bound on failing commands, reads and writes (TLC only)

ASSUME FabricAssumption ==
    /\ None \notin Key \union Worker \union Nat
    /\ PoolSize \in Nat \ {0}
    /\ MaxCalls \in Nat /\ MaxCrashes \in Nat /\ MaxFaults \in Nat

Hosts == 1 .. PoolSize
ServerAddress == 1      \* PeerRegistry.server_address

\* A call of attach() has a number of its own, a private key too; 0 stands for
\* a key file that was truncated and not written yet.
Request == [key : Key, call : Nat]
Link    == [fabric : Nat, address : Hosts, boot : Nat]

VARIABLES
    key_file,       \* the fabric's private key on the volume, None without a file
    peers,          \* peers.json: the address of every key, None when it has none
    lock,           \* the worker that holds the flock of PeerRegistry._guard
    wg_key,         \* private key of the kernel's interface, None without one
    wg_peers,       \* the kernel's peers: the tunnel address each is allowed
    pc, request,    \* per worker: where it is in register(), and for whom
    private_key, ready, \* FabricWireGuard._private_key and _ready, per worker
    loaded,         \* per worker: the registry allocate() has read
    address,        \* per worker: the address it allocated
    backlog,        \* requests no worker has accepted yet
    waits,          \* per appliance: the call it waits on, or None
    link,           \* per appliance: how its tunnel is configured, or None
    boots, generated, calls, crashes, faults,   \* counted, against their bounds
    provisioned,    \* history: the key file was there before the first start
    unread          \* history: a file that was there could not be read

volume    == <<key_file, peers>>
interface == <<wg_key, wg_peers>>
worker    == <<pc, request, private_key, ready, loaded, address>>
clients   == <<backlog, waits, link, calls>>
failures  == <<crashes, faults, unread>>
vars == <<volume, lock, interface, worker, clients, boots, generated, failures,
          provisioned>>

Goes(w, step) == pc' = [pc EXCEPT ![w] = step]

-----------------------------------------------------------------------------
(* The appliance: WireGuardTunnel.attach, called once per start of the daemon *)

\* (When /health, the versions or the appliance's own key stop it, nothing is sent.)
Attach(k) ==
    /\ waits[k] = None /\ calls < MaxCalls
    /\ calls' = calls + 1
    /\ backlog' = backlog \union {[key |-> k, call |-> calls']}
    /\ waits' = [waits EXCEPT ![k] = calls']
    /\ UNCHANGED <<volume, lock, interface, worker, link, boots, generated,
                   failures, provisioned>>

\* The call times out or the appliance cannot use the answer; the request may
\* be in the backlog still, or be worked on.
GiveUp(k) ==
    /\ waits[k] # None
    /\ waits' = [waits EXCEPT ![k] = None]
    /\ UNCHANGED <<volume, lock, interface, worker, backlog, link, calls, boots,
                   generated, failures, provisioned>>

Hung(r) == IF waits[r.key] = r.call THEN [waits EXCEPT ![r.key] = None] ELSE waits

-----------------------------------------------------------------------------
(* register(): authentication and version, then the tunnel, then an address *)

\* 400, 401 or 409
Refuse(r) ==
    /\ backlog' = backlog \ {r}
    /\ waits' = Hung(r)
    /\ UNCHANGED <<volume, lock, interface, worker, link, calls, boots, generated,
                   failures, provisioned>>

Accept(w, r) ==
    /\ pc[w] = "idle"
    /\ backlog' = backlog \ {r}
    /\ request' = [request EXCEPT ![w] = r]
    /\ Goes(w, IF ready[w] THEN "allocate" ELSE "key")
    /\ UNCHANGED <<volume, lock, interface, private_key, ready, loaded, address,
                   waits, link, calls, boots, generated, failures, provisioned>>

\* Slip: a worker makes a key of its own without looking for the file.
ReadKeyNever(w) ==
    /\ pc[w] = "key"
    /\ IF private_key[w] # None
       THEN Goes(w, "set_key") /\ UNCHANGED <<private_key, generated>>
       ELSE /\ generated' = generated + 1
            /\ private_key' = [private_key EXCEPT ![w] = generated']
            /\ Goes(w, "truncate")
    /\ UNCHANGED <<volume, lock, interface, request, ready, loaded, address, clients,
                   boots, failures, provisioned>>

\* _load_or_create_key: cached, else read, else generated.
ReadKey(w) ==
    /\ pc[w] = "key"
    /\ \/ /\ private_key[w] # None
          /\ Goes(w, "set_key") /\ UNCHANGED <<private_key, generated>>
       \/ /\ private_key[w] = None /\ key_file \notin {None, 0}
          /\ private_key' = [private_key EXCEPT ![w] = key_file]
          /\ Goes(w, "set_key") /\ UNCHANGED generated
       \/ /\ private_key[w] = None /\ key_file \in {None, 0}
          /\ generated' = generated + 1
          /\ private_key' = [private_key EXCEPT ![w] = generated']
          /\ Goes(w, "truncate")
    /\ UNCHANGED <<volume, lock, interface, request, ready, loaded, address, clients,
                   boots, failures, provisioned>>

KeyUnreadable(w) ==
    /\ pc[w] = "key" /\ private_key[w] = None /\ key_file # None /\ faults < MaxFaults
    /\ generated' = generated + 1
    /\ private_key' = [private_key EXCEPT ![w] = generated']
    /\ Goes(w, "truncate")
    /\ faults' = faults + 1 /\ unread' = TRUE
    /\ UNCHANGED <<volume, lock, interface, request, ready, loaded, address, clients,
                   boots, crashes, provisioned>>

\* write_text() opens and truncates the file, then writes it.
WriteKey(w) ==
    /\ \/ pc[w] = "truncate" /\ key_file' = 0 /\ Goes(w, "write_key")
       \/ pc[w] = "write_key" /\ key_file' = private_key[w] /\ Goes(w, "set_key")
    /\ UNCHANGED <<peers, lock, interface, request, private_key, ready, loaded,
                   address, clients, boots, generated, failures, provisioned>>

\* The key lives only for this process.
KeyNotPersisted(w) ==
    /\ pc[w] \in {"truncate", "write_key"} /\ faults < MaxFaults
    /\ Goes(w, "set_key")
    /\ faults' = faults + 1
    /\ UNCHANGED <<volume, lock, interface, request, private_key, ready, loaded,
                   address, clients, boots, generated, crashes, unread, provisioned>>

\* ensure_ready: `wg set` gives the interface this worker's key; address, routes,
\* forwarding and NAT are the same whichever worker sets them up.
EnsureReady(w) ==
    /\ pc[w] = "set_key"
    /\ wg_key' = private_key[w]
    /\ ready' = [ready EXCEPT ![w] = TRUE]
    /\ Goes(w, "allocate")
    /\ UNCHANGED <<volume, lock, wg_peers, request, private_key, loaded, address,
                   clients, boots, generated, failures, provisioned>>

-----------------------------------------------------------------------------
(* PeerRegistry.allocate, under its lock *)

\* Slip: the registry is read before the lock is taken.
LoadUnguarded(w) ==
    /\ pc[w] = "allocate"
    /\ lock' = w
    /\ loaded' = [loaded EXCEPT ![w] = peers]
    /\ Goes(w, "loaded")
    /\ UNCHANGED <<volume, interface, request, private_key, ready, address, clients,
                   boots, generated, failures, provisioned>>

Load(w) ==
    /\ pc[w] = "allocate" /\ lock = None
    /\ lock' = w
    /\ loaded' = [loaded EXCEPT ![w] = peers]
    /\ Goes(w, "loaded")
    /\ UNCHANGED <<volume, interface, request, private_key, ready, address, clients,
                   boots, generated, failures, provisioned>>

\* A registry that cannot be read or parsed counts as empty.
LoadUnreadable(w) ==
    /\ pc[w] = "allocate" /\ lock = None /\ faults < MaxFaults
    /\ lock' = w
    /\ loaded' = [loaded EXCEPT ![w] = [k \in Key |-> None]]
    /\ Goes(w, "loaded")
    /\ faults' = faults + 1 /\ unread' = TRUE
    /\ UNCHANGED <<volume, interface, request, private_key, ready, address, clients,
                   boots, generated, crashes, provisioned>>

Free(table) == Hosts \ ({table[k] : k \in Key} \union {ServerAddress})

Allocated(w, h) ==
    /\ address' = [address EXCEPT ![w] = h]
    /\ loaded' = [loaded EXCEPT ![w] = None]
    /\ lock' = None
    /\ Goes(w, "add_peer")

\* Slip: the peer is added only for an address that is new.
KnownIsAdded(w) ==
    /\ pc[w] = "loaded" /\ loaded[w][request[w].key] # None
    /\ address' = [address EXCEPT ![w] = loaded[w][request[w].key]]
    /\ loaded' = [loaded EXCEPT ![w] = None]
    /\ lock' = None
    /\ Goes(w, "answer")
    /\ UNCHANGED <<volume, interface, request, private_key, ready, clients, boots,
                   generated, failures, provisioned>>

Known(w) ==
    /\ pc[w] = "loaded" /\ loaded[w][request[w].key] # None
    /\ Allocated(w, loaded[w][request[w].key])
    /\ UNCHANGED <<volume, interface, request, private_key, ready, clients, boots,
                   generated, failures, provisioned>>

\* Slip: a key that is known gets another address.
StoreAlways(w) ==
    /\ pc[w] = "loaded"
    /\ \E h \in Free(loaded[w]) :
         /\ peers' = [loaded[w] EXCEPT ![request[w].key] = h]
         /\ Allocated(w, h)
    /\ UNCHANGED <<key_file, interface, request, private_key, ready, clients, boots,
                   generated, failures, provisioned>>

\* The first free address; the file is replaced in one rename.
Store(w) ==
    /\ pc[w] = "loaded" /\ loaded[w][request[w].key] = None
    /\ \E h \in Free(loaded[w]) :
         /\ \A g \in Free(loaded[w]) : h <= g
         /\ peers' = [loaded[w] EXCEPT ![request[w].key] = h]
         /\ Allocated(w, h)
    /\ UNCHANGED <<key_file, interface, request, private_key, ready, clients, boots,
                   generated, failures, provisioned>>

-----------------------------------------------------------------------------
(* The peer, and the answer *)

\* An address is allowed to one peer: giving it to this one takes it from another.
AddPeer(w) ==
    /\ pc[w] = "add_peer"
    /\ wg_peers' = [k \in Key |-> IF k = request[w].key THEN address[w]
                                  ELSE IF wg_peers[k] = address[w] THEN None
                                  ELSE wg_peers[k]]
    /\ Goes(w, "answer")
    /\ UNCHANGED <<volume, lock, wg_key, request, private_key, ready, loaded, address,
                   clients, boots, generated, failures, provisioned>>

\* The worker is done with its request.
Over(w) ==
    /\ Goes(w, "idle")
    /\ request' = [request EXCEPT ![w] = None]
    /\ loaded' = [loaded EXCEPT ![w] = None]
    /\ address' = [address EXCEPT ![w] = None]

\* The appliance, if it still waits on this call, configures its interface.
Answer(w) ==
    /\ pc[w] = "answer"
    /\ link' = IF waits[request[w].key] # request[w].call THEN link
               ELSE [link EXCEPT ![request[w].key] =
                       [fabric |-> private_key[w], address |-> address[w],
                        boot |-> boots]]
    /\ waits' = Hung(request[w])
    /\ Over(w)
    /\ UNCHANGED <<volume, lock, interface, private_key, ready, backlog, calls, boots,
                   generated, failures, provisioned>>

\* Slip: the guard is left without unlocking.
ExhaustedLocked(w) ==
    /\ pc[w] = "loaded" /\ loaded[w][request[w].key] = None
    /\ Free(loaded[w]) = {}
    /\ waits' = Hung(request[w])
    /\ Over(w)
    /\ UNCHANGED <<volume, lock, interface, private_key, ready, backlog, link, calls,
                   boots, generated, failures, provisioned>>

\* PoolExhausted: 503, and the lock is released.
Exhausted(w) ==
    /\ pc[w] = "loaded" /\ loaded[w][request[w].key] = None
    /\ Free(loaded[w]) = {}
    /\ lock' = None
    /\ waits' = Hung(request[w])
    /\ Over(w)
    /\ UNCHANGED <<volume, interface, private_key, ready, backlog, link, calls, boots,
                   generated, failures, provisioned>>

Unlocked(w) == IF lock = w THEN None ELSE lock

\* WireGuardError (503) or an OSError of _store (500). The address stays
\* allocated, the interface as far as it got.
Fail(w) ==
    /\ pc[w] \in {"key", "set_key", "loaded", "add_peer", "answer"}
    /\ faults < MaxFaults
    /\ faults' = faults + 1
    /\ lock' = Unlocked(w)
    /\ waits' = Hung(request[w])
    /\ Over(w)
    /\ wg_key' \in IF pc[w] = "set_key" THEN {wg_key, private_key[w]} ELSE {wg_key}
    /\ UNCHANGED <<volume, wg_peers, private_key, ready, backlog, link, calls, boots,
                   generated, crashes, unread, provisioned>>

-----------------------------------------------------------------------------
(* Crashes *)

\* A worker dies; the kernel drops its flock, gunicorn starts another.
WorkerDies(w) ==
    /\ crashes < MaxCrashes
    /\ crashes' = crashes + 1
    /\ Over(w)
    /\ private_key' = [private_key EXCEPT ![w] = None]
    /\ ready' = [ready EXCEPT ![w] = FALSE]
    /\ lock' = Unlocked(w)
    /\ UNCHANGED <<volume, interface, clients, boots, generated, faults, unread,
                   provisioned>>

\* A container restart keeps the volume, and nothing else.
ContainerRestart ==
    /\ crashes < MaxCrashes
    /\ crashes' = crashes + 1 /\ boots' = boots + 1
    /\ pc' = [w \in Worker |-> "idle"]
    /\ request' = [w \in Worker |-> None]
    /\ loaded' = [w \in Worker |-> None] /\ address' = [w \in Worker |-> None]
    /\ private_key' = [w \in Worker |-> None] /\ ready' = [w \in Worker |-> FALSE]
    /\ lock' = None
    /\ wg_key' = None /\ wg_peers' = [k \in Key |-> None]
    /\ backlog' = {}
    /\ UNCHANGED <<volume, waits, link, calls, generated, faults, unread, provisioned>>

Init ==
    /\ provisioned \in BOOLEAN
    /\ generated = IF provisioned THEN 1 ELSE 0
    /\ key_file = IF provisioned THEN 1 ELSE None
    /\ peers = [k \in Key |-> None]
    /\ lock = None
    /\ wg_key = None /\ wg_peers = [k \in Key |-> None]
    /\ pc = [w \in Worker |-> "idle"]
    /\ request = [w \in Worker |-> None]
    /\ private_key = [w \in Worker |-> None] /\ ready = [w \in Worker |-> FALSE]
    /\ loaded = [w \in Worker |-> None] /\ address = [w \in Worker |-> None]
    /\ backlog = {} /\ waits = [k \in Key |-> None] /\ link = [k \in Key |-> None]
    /\ boots = 0 /\ calls = 0 /\ crashes = 0 /\ faults = 0
    /\ unread = FALSE

Handle(w) ==
    \/ ReadKey(w) \/ WriteKey(w) \/ EnsureReady(w)
    \/ Load(w) \/ Known(w) \/ Store(w) \/ Exhausted(w)
    \/ AddPeer(w) \/ Answer(w)

Next ==
    \/ \E k \in Key : Attach(k) \/ GiveUp(k)
    \/ \E r \in backlog : Refuse(r) \/ \E w \in Worker : Accept(w, r)
    \/ \E w \in Worker : \/ Handle(w)
                         \/ KeyUnreadable(w) \/ KeyNotPersisted(w)
                         \/ LoadUnreadable(w) \/ Fail(w)
                         \/ WorkerDies(w)
    \/ ContainerRestart

Spec == Init /\ [][Next]_vars

\* A worker that has accepted a request goes on with it: every command it runs
\* has a timeout. Whether an appliance starts again is not up to the fabric.
Fairness == \A w \in Worker : WF_vars(Handle(w))

FairSpec == Spec /\ Fairness

-----------------------------------------------------------------------------
(* Properties *)

Steps == {"idle", "key", "truncate", "write_key", "set_key", "allocate", "loaded",
          "add_peer", "answer"}

\* Every variable has the type the code gives it.
TypeOK ==
    /\ key_file \in Nat \union {None}
    /\ peers \in [Key -> Hosts \union {None}]
    /\ lock \in Worker \union {None}
    /\ wg_key \in Nat \union {None} /\ wg_peers \in [Key -> Hosts \union {None}]
    /\ pc \in [Worker -> Steps]
    /\ request \in [Worker -> Request \union {None}]
    /\ private_key \in [Worker -> Nat \union {None}] /\ ready \in [Worker -> BOOLEAN]
    /\ loaded \in [Worker -> [Key -> Hosts \union {None}] \union {None}]
    /\ address \in [Worker -> Hosts \union {None}]
    /\ backlog \subseteq Request
    /\ waits \in [Key -> Nat \union {None}]
    /\ link \in [Key -> Link \union {None}]
    /\ boots \in Nat /\ generated \in Nat /\ calls \in Nat
    /\ crashes \in Nat /\ faults \in Nat
    /\ provisioned \in BOOLEAN /\ unread \in BOOLEAN

\* peers.py: "a silent double-allocation would hand two appliances the same
\* tunnel IP". No two appliances are ever configured with one address, nor one
\* with the fabric's own, through racing workers, retries of calls still being
\* worked on, crashes and restarts, unless a registry could not be read.
NoSharedAddress ==
    ~ unread =>
        \A k \in Key : link[k] # None =>
            /\ link[k].address # ServerAddress
            /\ \A l \in Key \ {k} :
                  link[l] # None => link[k].address # link[l].address

\* "Registration is idempotent": an appliance that attaches again, whatever
\* became of its earlier calls, keeps the tunnel address it had.
AddressIsKept ==
    [][\A k \in Key : link[k] # None /\ ~ unread'
                        => link'[k].address = link[k].address]_vars

\* Whoever was answered is a peer of the kernel's interface, under the address
\* it was told, until the container restarts: also when a retry followed a call
\* that died between allocating the address and adding the peer.
AttachedIsServed ==
    ~ unread =>
        \A k \in Key : link[k] # None /\ link[k].boot = boots
                         => wg_peers[k] = link[k].address

\* With its key file in place the fabric has one identity: every worker and
\* every start gives the interface the key that appliances were told.
IdentityIsKept ==
    provisioned /\ ~ unread =>
        \A k \in Key : link[k] # None /\ wg_key # None => link[k].fabric = wg_key

\* Exactly the worker that has read the registry and not yet answered for it
\* holds the lock: whatever becomes of it (an exhausted pool, a failing write,
\* its death), no other worker waits for a lock that nobody will release, and
\* none writes over what another is about to write.
LockMeansInside == \A w \in Worker : lock = w <=> pc[w] = "loaded"

-----------------------------------------------------------------------------
(* A promise of the fabric's README that the code does not keep *)

\* "With the volume, the key and the pubkey->address map survive restarts, and
\* appliances stay attached." The interface of the new container has no peers,
\* and an appliance that holds a link does not call again.
AppliancesStayAttached ==
    \A k \in Key : link[k] # None ~> link[k] # None /\ wg_peers[k] = link[k].address
=============================================================================
