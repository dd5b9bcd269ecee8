---------------------------- MODULE FabricProofs ----------------------------
(***************************************************************************)
(* Theorems about the fabric server, for any number of appliances, workers *)
(* and addresses, and any number of calls, crashes and failing commands.   *)
(***************************************************************************)
EXTENDS Fabric, TLAPS

Table == [Key -> Hosts \union {None}]

\* What a worker knows at each step of register().
WorkInv ==
    \A w \in Worker :
        /\ pc[w] # "idle" => request[w] \in Request
        /\ pc[w] \in {"truncate", "write_key", "set_key"} \/ ready[w]
              => private_key[w] \in Nat
        /\ pc[w] \in {"allocate", "loaded", "add_peer", "answer"} => ready[w]
        /\ pc[w] = "loaded" => loaded[w] \in Table
        /\ pc[w] \in {"add_peer", "answer"} => address[w] \in Hosts

TypeInv == TypeOK /\ WorkInv

\* None is no address, no worker and no number.
LEMMA NoneIsApart ==
    /\ None \notin Hosts /\ None \notin Nat /\ None \notin Worker
    /\ Hosts \subseteq Nat /\ ServerAddress \in Hosts
BY FabricAssumption DEF Hosts, ServerAddress

\* An appliance that stops waiting leaves waits well typed.
LEMMA HungType ==
    ASSUME NEW r \in Request, waits \in [Key -> Nat \union {None}]
    PROVE  Hung(r) \in [Key -> Nat \union {None}]
BY DEF Hung, Request

-----------------------------------------------------------------------------
(* Types *)

\* No worker has a request yet.
LEMMA InitType == Init => TypeInv
<1> SUFFICES ASSUME Init PROVE TypeInv
    OBVIOUS
<1>1. key_file \in Nat \union {None} /\ generated \in Nat
    BY DEF Init
<1>2. pc \in [Worker -> Steps]
    BY DEF Init, Steps
<1>3. TypeOK
    BY <1>1, <1>2 DEF Init, TypeOK
<1>4. WorkInv
    BY DEF Init, WorkInv
<1> QED BY <1>3, <1>4 DEF TypeInv

\* One step per action: types and what each worker knows.
LEMMA NextType == TypeInv /\ [Next]_vars => TypeInv'
<1> SUFFICES ASSUME TypeInv, [Next]_vars PROVE TypeInv'
    OBVIOUS
<1> USE NoneIsApart DEF TypeInv, Table
<1>1. ASSUME NEW k \in Key, Attach(k) PROVE TypeInv'
    <2>1. calls' \in Nat /\ [key |-> k, call |-> calls'] \in Request
        BY <1>1 DEF Attach, TypeOK, Request
    <2>2. TypeOK'
        BY <1>1, <2>1 DEF Attach, TypeOK, volume, interface, worker, failures
    <2>3. WorkInv'
        BY <1>1 DEF Attach, WorkInv, worker
    <2> QED BY <2>2, <2>3
<1>2. ASSUME NEW k \in Key, GiveUp(k) PROVE TypeInv'
    BY <1>2 DEF GiveUp, TypeOK, WorkInv, volume, interface, worker, failures
<1>3. ASSUME NEW r \in backlog, Refuse(r) PROVE TypeInv'
    <2>1. r \in Request
        BY <1>3 DEF TypeOK
    <2>2. waits' \in [Key -> Nat \union {None}]
        BY <1>3, <2>1, HungType DEF Refuse, TypeOK
    <2> QED BY <1>3, <2>2 DEF Refuse, TypeOK, WorkInv, volume, interface, worker, failures
<1>4. ASSUME NEW r \in backlog, NEW w \in Worker, Accept(w, r) PROVE TypeInv'
    <2>1. r \in Request
        BY <1>4 DEF TypeOK
    <2>2. TypeOK'
        BY <1>4, <2>1 DEF Accept, Goes, TypeOK, Steps, volume, interface, failures
    <2>3. WorkInv'
        BY <1>4, <2>1 DEF Accept, Goes, TypeOK, Steps, WorkInv
    <2> QED BY <2>2, <2>3
<1>5. ASSUME NEW w \in Worker, ReadKey(w) \/ KeyUnreadable(w) PROVE TypeInv'
    <2>1. private_key' \in [Worker -> Nat \union {None}]
        <3>1. \/ private_key' = private_key
              \/ private_key' = [private_key EXCEPT ![w] = key_file]
              \/ /\ generated' = generated + 1
                 /\ private_key' = [private_key EXCEPT ![w] = generated']
            BY <1>5 DEF ReadKey, KeyUnreadable
        <3>2. /\ key_file \in Nat \union {None} /\ generated \in Nat
              /\ private_key \in [Worker -> Nat \union {None}]
            BY DEF TypeOK
        <3> QED BY <3>1, <3>2
    <2>2. /\ generated' \in Nat /\ faults' \in Nat
          /\ unread' \in BOOLEAN
        <3>1. generated' \in Nat /\ faults' \in Nat
            BY <1>5 DEF ReadKey, KeyUnreadable, TypeOK, failures
        <3>2. unread' = unread \/ unread' = TRUE
            BY <1>5 DEF ReadKey, KeyUnreadable, failures
        <3> QED BY <3>1, <3>2 DEF TypeOK
    <2>3. pc' \in [Worker -> Steps]
        BY <1>5 DEF ReadKey, KeyUnreadable, Goes, TypeOK, Steps
    <2>4. TypeOK'
        BY <1>5, <2>1, <2>2, <2>3
        DEF ReadKey, KeyUnreadable, TypeOK, volume, interface, clients, failures
    <2>5. WorkInv'
        BY <1>5 DEF ReadKey, KeyUnreadable, Goes, TypeOK, Steps, WorkInv
    <2> QED BY <2>4, <2>5
<1>6. ASSUME NEW w \in Worker, WriteKey(w) \/ KeyNotPersisted(w) PROVE TypeInv'
    <2>1. TypeOK'
        BY <1>6 DEF WriteKey, KeyNotPersisted, Goes, TypeOK, Steps, volume, interface,
               clients, failures
    <2>2. WorkInv'
        BY <1>6 DEF WriteKey, KeyNotPersisted, Goes, TypeOK, Steps, WorkInv
    <2> QED BY <2>1, <2>2
<1>7. ASSUME NEW w \in Worker, EnsureReady(w) PROVE TypeInv'
    <2>1. TypeOK'
        BY <1>7 DEF EnsureReady, Goes, TypeOK, Steps, volume, interface,
               clients, failures
    <2>2. WorkInv'
        BY <1>7 DEF EnsureReady, Goes, TypeOK, Steps, WorkInv
    <2> QED BY <2>1, <2>2
<1>8. ASSUME NEW w \in Worker, Load(w) \/ LoadUnreadable(w) PROVE TypeInv'
    <2>1. PICK table \in Table : loaded' = [loaded EXCEPT ![w] = table]
        BY <1>8 DEF Load, LoadUnreadable, TypeOK
    <2>2. loaded' \in [Worker -> Table \union {None}]
        BY <2>1 DEF TypeOK
    <2>3. lock' \in Worker \union {None} /\ pc' \in [Worker -> Steps]
        BY <1>8 DEF Load, LoadUnreadable, Goes, TypeOK, Steps
    <2>4. /\ faults' \in Nat /\ crashes' \in Nat
          /\ unread' \in BOOLEAN
        <3>1. faults' \in Nat /\ crashes' \in Nat
            BY <1>8 DEF Load, LoadUnreadable, TypeOK, failures
        <3>2. unread' = unread \/ unread' = TRUE
            BY <1>8 DEF Load, LoadUnreadable, failures
        <3> QED BY <3>1, <3>2 DEF TypeOK
    <2>5. UNCHANGED <<volume, interface, request, private_key, ready, address, clients,
                      boots, generated, provisioned>>
        BY <1>8 DEF Load, LoadUnreadable
    <2>6. TypeOK'
        BY <2>2, <2>3, <2>4, <2>5 DEF TypeOK, volume, interface, clients
    <2>7. WorkInv'
        BY <1>8, <2>1 DEF Load, LoadUnreadable, Goes, TypeOK, Steps, WorkInv
    <2> QED BY <2>6, <2>7
<1>9. ASSUME NEW w \in Worker, Known(w) \/ Store(w) PROVE TypeInv'
    <2>1. request[w].key \in Key /\ loaded[w] \in Table
        BY <1>9 DEF Known, Store, TypeOK, WorkInv, Request
    <2>2. PICK h \in Hosts :
             /\ Allocated(w, h)
             /\ peers' = peers \/ peers' = [loaded[w] EXCEPT ![request[w].key] = h]
        <3>1. CASE Known(w)
            BY <2>1, <3>1 DEF Known, volume
        <3>2. CASE Store(w)
            BY <3>2 DEF Store, Free
        <3> QED BY <1>9, <3>1, <3>2
    <2>3. peers' \in Table
        BY <2>1, <2>2 DEF TypeOK
    <2>4. UNCHANGED <<key_file, interface, request, private_key, ready, clients, boots,
                      generated, failures, provisioned>>
        BY <1>9 DEF Known, Store, volume
    <2>5. TypeOK'
        BY <2>2, <2>3, <2>4 DEF Allocated, Goes, TypeOK, Steps, interface, clients, failures
    <2>6. WorkInv'
        BY <1>9, <2>2, <2>4 DEF Known, Store, Allocated, Goes, TypeOK, Steps, WorkInv
    <2> QED BY <2>5, <2>6
<1>10. ASSUME NEW w \in Worker, AddPeer(w) PROVE TypeInv'
    <2>1. TypeOK'
        BY <1>10 DEF AddPeer, Goes, TypeOK, WorkInv, Steps, volume, clients, failures
    <2>2. WorkInv'
        BY <1>10 DEF AddPeer, Goes, TypeOK, Steps, WorkInv
    <2> QED BY <2>1, <2>2
<1>11. ASSUME NEW w \in Worker, Answer(w) PROVE TypeInv'
    <2>1. request[w] \in Request /\ request[w].key \in Key
        BY <1>11 DEF Answer, WorkInv, Request
    <2>2. waits' \in [Key -> Nat \union {None}]
        BY <1>11, <2>1, HungType DEF Answer, TypeOK
    <2>3. link' \in [Key -> Link \union {None}]
        <3>1. private_key[w] \in Nat /\ address[w] \in Hosts /\ boots \in Nat
            BY <1>11 DEF Answer, WorkInv, TypeOK
        <3>2. [fabric |-> private_key[w], address |-> address[w], boot |-> boots] \in Link
            BY <3>1 DEF Link
        <3> QED BY <1>11, <2>1, <3>2 DEF Answer, TypeOK
    <2>4. TypeOK'
        BY <1>11, <2>2, <2>3 DEF Answer, Over, Goes, TypeOK, Steps, volume,
               interface, failures
    <2>5. WorkInv'
        BY <1>11 DEF Answer, Over, Goes, TypeOK, Steps, WorkInv
    <2> QED BY <2>4, <2>5
<1>12. ASSUME NEW w \in Worker, Exhausted(w) \/ Fail(w) PROVE TypeInv'
    <2>1. request[w] \in Request
        BY <1>12 DEF Exhausted, Fail, WorkInv
    <2>2. waits' \in [Key -> Nat \union {None}]
        BY <1>12, <2>1, HungType DEF Exhausted, Fail, TypeOK
    <2>3. wg_key' \in Nat \union {None} /\ lock' \in Worker \union {None}
        BY <1>12 DEF Exhausted, Fail, Unlocked, TypeOK, interface
    <2>4. TypeOK'
        BY <1>12, <2>2, <2>3 DEF Exhausted, Fail, Over, Goes, TypeOK, Steps, volume,
               interface, failures
    <2>5. WorkInv'
        BY <1>12 DEF Exhausted, Fail, Over, Goes, TypeOK, Steps, WorkInv
    <2> QED BY <2>4, <2>5
<1>13. ASSUME NEW w \in Worker, WorkerDies(w) PROVE TypeInv'
    <2>1. TypeOK'
        BY <1>13 DEF WorkerDies, Unlocked, Over, Goes, TypeOK, Steps, volume, interface,
               clients, failures
    <2>2. WorkInv'
        BY <1>13 DEF WorkerDies, Over, Goes, TypeOK, Steps, WorkInv
    <2> QED BY <2>1, <2>2
<1>14. CASE ContainerRestart
    BY <1>14 DEF ContainerRestart, TypeOK, WorkInv, Steps, volume
<1>15. CASE UNCHANGED vars
    BY <1>15 DEF vars, TypeOK, WorkInv, volume, interface, worker, clients, failures
<1> QED
    BY <1>1, <1>2, <1>3, <1>4, <1>5, <1>6, <1>7, <1>8, <1>9, <1>10, <1>11, <1>12, <1>13,
       <1>14, <1>15 DEF Next, Handle

\* What a worker knows at each step holds throughout.
LEMMA TypeInvariant == Spec => []TypeInv
BY InitType, NextType, PTL DEF Spec

\* Every variable keeps the type the code gives it: no worker answers without a
\* key or an address, and no address lies outside the pool.
THEOREM TypeTheorem == Spec => []TypeOK
BY TypeInvariant, PTL DEF TypeInv

-----------------------------------------------------------------------------
(* The lock *)

\* Every step that enters the guarded section takes the free lock, every one that
\* leaves it gives the lock back, and no other touches it.
LEMMA NextLock == TypeInv /\ LockMeansInside /\ [Next]_vars => LockMeansInside'
<1> SUFFICES ASSUME TypeInv, LockMeansInside, [Next]_vars PROVE LockMeansInside'
    OBVIOUS
<1> USE NoneIsApart DEF TypeInv, LockMeansInside
<1>0. pc \in [Worker -> Steps] /\ lock \in Worker \union {None}
    BY DEF TypeOK
<1>1. ASSUME UNCHANGED <<pc, lock>> PROVE LockMeansInside'
    BY <1>1
<1>2. ASSUME NEW w \in Worker, NEW step, step # "loaded", pc[w] # "loaded",
             Goes(w, step), lock' = lock
      PROVE  LockMeansInside'
    BY <1>0, <1>2 DEF Goes
<1>3. ASSUME NEW w \in Worker, lock = None, lock' = w, Goes(w, "loaded")
      PROVE  LockMeansInside'
    BY <1>0, <1>3 DEF Goes
<1>4. ASSUME NEW w \in Worker, NEW step, step # "loaded", lock' = Unlocked(w),
             Goes(w, step)
      PROVE  LockMeansInside'
    BY <1>0, <1>4 DEF Goes, Unlocked
<1>5. ASSUME NEW k \in Key, Attach(k) \/ GiveUp(k) PROVE LockMeansInside'
    BY <1>1, <1>5 DEF Attach, GiveUp, worker
<1>6. ASSUME NEW r \in backlog, Refuse(r) PROVE LockMeansInside'
    BY <1>1, <1>6 DEF Refuse, worker
<1>7. ASSUME NEW r \in backlog, NEW w \in Worker, Accept(w, r) PROVE LockMeansInside'
    BY <1>2, <1>7 DEF Accept
<1>8. ASSUME NEW w \in Worker,
             \/ ReadKey(w) \/ KeyUnreadable(w) \/ WriteKey(w) \/ KeyNotPersisted(w)
             \/ EnsureReady(w) \/ AddPeer(w)
      PROVE  LockMeansInside'
    <2>1. PICK step : step # "loaded" /\ Goes(w, step)
        BY <1>8 DEF ReadKey, KeyUnreadable, WriteKey, KeyNotPersisted, EnsureReady, AddPeer
    <2>2. pc[w] # "loaded" /\ lock' = lock
        BY <1>8 DEF ReadKey, KeyUnreadable, WriteKey, KeyNotPersisted, EnsureReady, AddPeer
    <2> QED BY <1>2, <2>1, <2>2
<1>9. ASSUME NEW w \in Worker, Load(w) \/ LoadUnreadable(w) PROVE LockMeansInside'
    BY <1>3, <1>9 DEF Load, LoadUnreadable
<1>10. ASSUME NEW w \in Worker, Known(w) \/ Store(w) PROVE LockMeansInside'
    <2>1. lock = w /\ lock' = None /\ Goes(w, "add_peer")
        BY <1>10 DEF Known, Store, Allocated
    <2> QED BY <1>4, <2>1 DEF Unlocked
<1>11. ASSUME NEW w \in Worker, Answer(w) PROVE LockMeansInside'
    BY <1>2, <1>11 DEF Answer, Over
<1>12. ASSUME NEW w \in Worker, Exhausted(w) \/ Fail(w) \/ WorkerDies(w)
       PROVE  LockMeansInside'
    <2>1. lock' = Unlocked(w) /\ Goes(w, "idle")
        BY <1>12 DEF Exhausted, Fail, WorkerDies, Over, Unlocked
    <2> QED BY <1>4, <2>1
<1>13. CASE ContainerRestart
    BY <1>13 DEF ContainerRestart
<1>14. CASE UNCHANGED vars
    BY <1>1, <1>14 DEF vars, worker
<1> QED
    BY <1>5, <1>6, <1>7, <1>8, <1>9, <1>10, <1>11, <1>12, <1>13, <1>14 DEF Next, Handle

\* Whatever happens to the worker inside the guarded section, the lock is held
\* exactly while a worker is there: none waits for it in vain.
THEOREM LockTheorem == Spec => []LockMeansInside
<1>1. Init => LockMeansInside
    BY NoneIsApart DEF Init, LockMeansInside
<1> QED BY <1>1, NextLock, TypeInvariant, PTL DEF Spec

-----------------------------------------------------------------------------
(* Addresses: unique, never the server's, and kept *)

\* The inductive invariant. The registry gives every address to one key; a
\* worker inside the guard has seen the registry as it is; what workers have
\* allocated and appliances have configured is what the registry says.
AddressInv ==
    ~ unread =>
        /\ \A k \in Key : peers[k] # ServerAddress
        /\ \A k, l \in Key : peers[k] = peers[l] /\ peers[k] # None => k = l
        /\ \A w \in Worker : pc[w] = "loaded" => loaded[w] = peers
        /\ \A w \in Worker : pc[w] \in {"add_peer", "answer"}
                                => address[w] = peers[request[w].key]
        /\ \A k \in Key : link[k] # None => link[k].address = peers[k]

\* The workers that hold an address go on holding it, and no other comes by one.
HoldsOn(v) ==
    /\ pc'[v] = "loaded" => pc[v] = "loaded" /\ loaded'[v] = loaded[v]
    /\ pc'[v] \in {"add_peer", "answer"} =>
          /\ pc[v] \in {"add_peer", "answer"}
          /\ address'[v] = address[v] /\ request'[v] = request[v]

\* An unread file stays in the history.
LEMMA UnreadStays == [Next]_vars /\ ~ unread' => ~ unread
<1> SUFFICES ASSUME [Next]_vars, unread PROVE unread'
    OBVIOUS
<1>1. unread' = unread \/ unread' = TRUE
    BY DEF Next, Handle, Attach, GiveUp, Refuse, Accept, ReadKey, WriteKey, EnsureReady,
           Load, Known, Store, Exhausted, AddPeer, Answer, KeyUnreadable, KeyNotPersisted,
           LoadUnreadable, Fail, WorkerDies, ContainerRestart, vars, failures
<1> QED BY <1>1

\* Of all the steps only a Store changes the registry; Answer alone changes a
\* link; an address is come by in Known and Store alone.
LEMMA QuietStep ==
    ASSUME TypeInv, [Next]_vars, ~ unread',
           \A w \in Worker : ~ (Load(w) \/ Known(w) \/ Store(w) \/ Answer(w))
    PROVE  UNCHANGED <<peers, link>> /\ \A v \in Worker : HoldsOn(v)
<1> USE DEF HoldsOn
<1>0. pc \in [Worker -> Steps] /\ loaded \in [Worker -> Table \union {None}]
      /\ address \in [Worker -> Hosts \union {None}]
      /\ request \in [Worker -> Request \union {None}]
    BY DEF TypeInv, TypeOK, Table
<1>1. ASSUME NEW k \in Key, Attach(k) \/ GiveUp(k)
      PROVE  UNCHANGED <<peers, link>> /\ \A v \in Worker : HoldsOn(v)
    BY <1>1 DEF Attach, GiveUp, volume, worker
<1>2. ASSUME NEW r \in backlog, Refuse(r)
      PROVE  UNCHANGED <<peers, link>> /\ \A v \in Worker : HoldsOn(v)
    BY <1>2 DEF Refuse, volume, worker
<1>3. ASSUME NEW r \in backlog, NEW w \in Worker, Accept(w, r)
      PROVE  UNCHANGED <<peers, link>> /\ \A v \in Worker : HoldsOn(v)
    BY <1>0, <1>3 DEF Accept, Goes, volume
<1>4. ASSUME NEW w \in Worker, ReadKey(w) \/ WriteKey(w) \/ EnsureReady(w)
      PROVE  UNCHANGED <<peers, link>> /\ \A v \in Worker : HoldsOn(v)
    BY <1>0, <1>4 DEF ReadKey, WriteKey, EnsureReady, Goes, volume, clients
<1>5. ASSUME NEW w \in Worker, KeyNotPersisted(w) \/ AddPeer(w)
      PROVE  UNCHANGED <<peers, link>> /\ \A v \in Worker : HoldsOn(v)
    BY <1>0, <1>5 DEF KeyNotPersisted, AddPeer, Goes, volume, clients
<1>6. ASSUME NEW w \in Worker, KeyUnreadable(w) \/ LoadUnreadable(w)
      PROVE  FALSE
    BY <1>6 DEF KeyUnreadable, LoadUnreadable
<1>7. ASSUME NEW w \in Worker, Exhausted(w) \/ Fail(w) \/ WorkerDies(w)
      PROVE  UNCHANGED <<peers, link>> /\ \A v \in Worker : HoldsOn(v)
    <2>1. Over(w) /\ UNCHANGED <<peers, link>>
        BY <1>7 DEF Exhausted, Fail, WorkerDies, volume, clients
    <2> QED BY <1>0, <2>1 DEF Over, Goes
<1>8. CASE ContainerRestart
    BY <1>8 DEF ContainerRestart, volume
<1>9. CASE UNCHANGED vars
    BY <1>9 DEF vars, volume, worker, clients
<1> QED
    BY <1>1, <1>2, <1>3, <1>4, <1>5, <1>6, <1>7, <1>8, <1>9 DEF Next, Handle

\* Store is the hard case: no other worker is inside the guard, and no key that
\* anyone holds an address of is the one that has none.
LEMMA NextAddress ==
    TypeInv /\ LockMeansInside /\ AddressInv /\ [Next]_vars => AddressInv'
<1> SUFFICES ASSUME TypeInv, LockMeansInside, AddressInv, [Next]_vars, ~ unread'
             PROVE  AddressInv'
    BY DEF AddressInv
<1> USE NoneIsApart
<1>0. ~ unread
    BY UnreadStays
<1>1. CASE \A w \in Worker : ~ (Load(w) \/ Known(w) \/ Store(w) \/ Answer(w))
    <2>1. UNCHANGED <<peers, link>> /\ \A v \in Worker : HoldsOn(v)
        BY <1>1, QuietStep
    <2> QED BY <1>0, <2>1 DEF AddressInv, HoldsOn
<1>2. ASSUME NEW w \in Worker, Load(w) PROVE AddressInv'
    BY <1>0, <1>2 DEF Load, Goes, AddressInv, TypeInv, TypeOK, volume, clients
<1>3. ASSUME NEW w \in Worker, Known(w) PROVE AddressInv'
    BY <1>0, <1>3 DEF Known, Allocated, Goes, AddressInv, TypeInv, TypeOK, volume, clients
<1>4. ASSUME NEW w \in Worker, Store(w) PROVE AddressInv'
    <2> DEFINE key == request[w].key
    <2>1. key \in Key /\ peers \in Table /\ loaded[w] = peers /\ peers[key] = None
        BY <1>0, <1>4 DEF Store, AddressInv, TypeInv, TypeOK, WorkInv, Request, Table
    <2>2. PICK h \in Free(peers) :
             peers' = [peers EXCEPT ![key] = h] /\ Allocated(w, h)
        BY <1>4, <2>1 DEF Store
    <2>3. h \in Hosts /\ h # ServerAddress /\ \A k \in Key : peers[k] # h
        BY <2>2 DEF Free
    <2>4. /\ \A k \in Key : peers'[k] # ServerAddress
          /\ \A k, l \in Key : peers'[k] = peers'[l] /\ peers'[k] # None => k = l
        BY <1>0, <2>1, <2>2, <2>3 DEF AddressInv, Table
    <2>5. \A v \in Worker : pc'[v] # "loaded"
        BY <1>4, <2>2 DEF Store, Allocated, Goes, LockMeansInside, TypeInv, TypeOK
    <2>6. ASSUME NEW v \in Worker, pc'[v] \in {"add_peer", "answer"}
          PROVE  address'[v] = peers'[request'[v].key]
        <3>1. request' = request
            BY <1>4 DEF Store
        <3>2. CASE v = w
            BY <2>1, <2>2, <3>1, <3>2 DEF Allocated, TypeInv, TypeOK, Table
        <3>3. CASE v # w
            <4>1. pc[v] \in {"add_peer", "answer"} /\ address'[v] = address[v]
                BY <2>2, <2>6, <3>3 DEF Allocated, Goes, TypeInv, TypeOK
            <4>2. address[v] \in Hosts /\ request[v].key \in Key
                BY <4>1 DEF TypeInv, WorkInv, Request
            <4>3. address[v] = peers[request[v].key]
                BY <1>0, <4>1 DEF AddressInv
            <4>4. request[v].key # key
                BY <2>1, <4>2, <4>3
            <4> QED BY <2>1, <2>2, <3>1, <4>1, <4>2, <4>3, <4>4 DEF Table
        <3> QED BY <3>2, <3>3
    <2>7. ASSUME NEW k \in Key, link'[k] # None
          PROVE  link'[k].address = peers'[k]
        <3>1. link' = link
            BY <1>4 DEF Store, clients
        <3>2. link[k].address \in Hosts /\ link[k].address = peers[k]
            BY <1>0, <2>7, <3>1 DEF AddressInv, TypeInv, TypeOK, Link
        <3> QED BY <2>1, <2>2, <3>1, <3>2 DEF Table
    <2> QED BY <2>4, <2>5, <2>6, <2>7 DEF AddressInv
<1>5. ASSUME NEW w \in Worker, Answer(w) PROVE AddressInv'
    <2>1. request[w].key \in Key /\ address[w] = peers[request[w].key]
        BY <1>0, <1>5 DEF Answer, AddressInv, TypeInv, WorkInv, Request
    <2>2. peers' = peers /\ \A v \in Worker : HoldsOn(v)
        BY <1>5 DEF Answer, Over, Goes, HoldsOn, TypeInv, TypeOK, volume
    <2>3. ASSUME NEW k \in Key, link'[k] # None
          PROVE  link'[k].address = peers'[k]
        BY <1>0, <1>5, <2>1, <2>2, <2>3 DEF Answer, AddressInv, TypeInv, TypeOK
    <2> QED BY <1>0, <2>2, <2>3 DEF AddressInv, HoldsOn
<1> QED BY <1>1, <1>2, <1>3, <1>4, <1>5

FabricInv == TypeInv /\ LockMeansInside /\ AddressInv

\* Types, lock and addresses are inductive together.
LEMMA FabricInvariant == Spec => []FabricInv
<1>1. Init => FabricInv
    <2>1. Init => LockMeansInside /\ AddressInv
        BY NoneIsApart DEF Init, LockMeansInside, AddressInv
    <2> QED BY <2>1, InitType DEF FabricInv
<1>2. FabricInv /\ [Next]_vars => FabricInv'
    BY NextType, NextLock, NextAddress DEF FabricInv
<1> QED BY <1>1, <1>2, PTL DEF Spec

\* No two appliances are configured with one tunnel address, and none with the
\* fabric's own, however many workers race, die and are retried.
THEOREM NoSharedAddressTheorem == Spec => []NoSharedAddress
<1>1. FabricInv => NoSharedAddress
    <2> SUFFICES ASSUME FabricInv, ~ unread, NEW k \in Key, link[k] # None
                 PROVE  /\ link[k].address # ServerAddress
                        /\ \A l \in Key \ {k} :
                              link[l] # None => link[k].address # link[l].address
        BY DEF NoSharedAddress
    <2>1. link[k].address \in Hosts
        BY DEF FabricInv, TypeInv, TypeOK, Link
    <2> QED BY <2>1, NoneIsApart DEF FabricInv, AddressInv
<1> QED BY <1>1, FabricInvariant, PTL

\* An appliance that registers again keeps the address it had.
THEOREM AddressIsKeptTheorem == Spec => AddressIsKept
<1>1. FabricInv /\ FabricInv' /\ [Next]_vars =>
        [\A k \in Key : link[k] # None /\ ~ unread'
                          => link'[k].address = link[k].address]_vars
    <2> SUFFICES ASSUME FabricInv, FabricInv', [Next]_vars,
                        NEW k \in Key, link[k] # None, ~ unread'
                 PROVE  link'[k].address = link[k].address
        OBVIOUS
    <2> USE NoneIsApart
    <2>1. ~ unread
        BY UnreadStays
    <2>2. link[k].address = peers[k] /\ peers[k] \in Hosts
        BY <2>1 DEF FabricInv, AddressInv, TypeInv, TypeOK, Link
    <2>3. CASE \A w \in Worker : ~ (Load(w) \/ Known(w) \/ Store(w) \/ Answer(w))
        BY <2>3, QuietStep DEF FabricInv
    <2>4. ASSUME NEW w \in Worker, Load(w) \/ Known(w)
          PROVE  link' = link
        BY <2>4 DEF Load, Known, clients
    <2>5. ASSUME NEW w \in Worker, Store(w)
          PROVE  link' = link
        BY <2>5 DEF Store, clients
    <2>6. ASSUME NEW w \in Worker, Answer(w)
          PROVE  link'[k].address = link[k].address
        <3>1. request[w].key \in Key /\ address[w] = peers[request[w].key]
            BY <2>1, <2>6 DEF Answer, FabricInv, AddressInv, TypeInv, WorkInv, Request
        <3> QED BY <2>2, <2>6, <3>1 DEF Answer, FabricInv, TypeInv, TypeOK
    <2> QED BY <2>3, <2>4, <2>5, <2>6
<1> QED BY <1>1, FabricInvariant, PTL DEF Spec, AddressIsKept

-----------------------------------------------------------------------------
(* Whoever was answered is a peer *)

\* The kernel's peers are the registry's; a worker about to answer has made the
\* appliance one; no link is of a container yet to come.
ServedInv ==
    /\ \A k \in Key : link[k] # None => link[k].boot <= boots
    /\ ~ unread =>
          /\ \A k \in Key : wg_peers[k] # None => wg_peers[k] = peers[k]
          /\ \A w \in Worker : pc[w] = "answer" => wg_peers[request[w].key] = address[w]
    /\ AttachedIsServed

\* Only AddPeer brings a worker to its answer.
LEMMA AnswerFollowsAddPeer ==
    ASSUME TypeInv, [Next]_vars, \A w \in Worker : ~ AddPeer(w),
           NEW v \in Worker, pc'[v] = "answer"
    PROVE  pc[v] = "answer" /\ request'[v] = request[v] /\ address'[v] = address[v]
<1> DEFINE Stays == pc[v] = "answer" /\ request'[v] = request[v] /\ address'[v] = address[v]
<1>0. /\ pc \in [Worker -> Steps] /\ request \in [Worker -> Request \union {None}]
      /\ address \in [Worker -> Hosts \union {None}]
    BY DEF TypeInv, TypeOK
<1>1. ASSUME NEW k \in Key, Attach(k) \/ GiveUp(k) PROVE Stays
    BY <1>1 DEF Attach, GiveUp, worker
<1>2. ASSUME NEW r \in backlog, Refuse(r) PROVE Stays
    BY <1>2 DEF Refuse, worker
<1>3. ASSUME NEW r \in backlog, NEW w \in Worker, Accept(w, r) PROVE Stays
    BY <1>0, <1>3 DEF Accept, Goes
<1>4. ASSUME NEW w \in Worker,
             ReadKey(w) \/ KeyUnreadable(w) \/ WriteKey(w) \/ KeyNotPersisted(w)
      PROVE  Stays
    BY <1>0, <1>4 DEF ReadKey, KeyUnreadable, WriteKey, KeyNotPersisted, Goes
<1>5. ASSUME NEW w \in Worker, EnsureReady(w) \/ Load(w) \/ LoadUnreadable(w)
      PROVE  Stays
    BY <1>0, <1>5 DEF EnsureReady, Load, LoadUnreadable, Goes
<1>6. ASSUME NEW w \in Worker, Known(w) \/ Store(w) PROVE Stays
    BY <1>0, <1>6 DEF Known, Store, Allocated, Goes
<1>7. ASSUME NEW w \in Worker, Over(w) PROVE Stays
    BY <1>0, <1>7 DEF Over, Goes
<1>8. ASSUME NEW w \in Worker, Answer(w) \/ Exhausted(w) \/ Fail(w) \/ WorkerDies(w)
      PROVE  Stays
    BY <1>7, <1>8 DEF Answer, Exhausted, Fail, WorkerDies
<1>9. CASE ContainerRestart
    BY <1>9 DEF ContainerRestart
<1>10. CASE UNCHANGED vars
    BY <1>10 DEF vars, worker
<1> QED
    BY <1>1, <1>2, <1>3, <1>4, <1>5, <1>6, <1>8, <1>9, <1>10 DEF Next, Handle

\* AddPeer is the hard case: the address it gives is nobody else's, so that no
\* other peer loses its own.
LEMMA NextServed == FabricInv /\ FabricInv' /\ ServedInv /\ [Next]_vars => ServedInv'
<1> SUFFICES ASSUME FabricInv, FabricInv', ServedInv, [Next]_vars
             PROVE  ServedInv'
    OBVIOUS
<1> USE NoneIsApart DEF FabricInv, TypeInv
<1>0. /\ boots \in Nat /\ \A k \in Key : link[k] # None => link[k] \in Link
      /\ link \in [Key -> Link \union {None}]
      /\ pc \in [Worker -> Steps] /\ request \in [Worker -> Request \union {None}]
      /\ address \in [Worker -> Hosts \union {None}]
    BY DEF TypeOK
<1>1. ASSUME NEW w \in Worker, AddPeer(w) PROVE ServedInv'
    <2> DEFINE key == request[w].key
    <2>1. key \in Key /\ address[w] \in Hosts
        BY <1>1 DEF AddPeer, WorkInv, Request
    <2>2. UNCHANGED <<peers, link, boots, unread, request, address>>
        BY <1>1 DEF AddPeer, volume, clients, failures
    <2>3. ASSUME ~ unread
          PROVE  /\ address[w] = peers[key]
                 /\ \A k \in Key \ {key} : wg_peers'[k] = wg_peers[k]
                 /\ wg_peers'[key] = address[w]
        <3>1. address[w] = peers[key]
            BY <1>1, <2>3 DEF AddPeer, AddressInv
        <3>2. \A k \in Key \ {key} : wg_peers[k] # address[w]
            BY <2>1, <2>3, <3>1 DEF ServedInv, AddressInv
        <3> QED BY <1>1, <2>1, <3>1, <3>2 DEF AddPeer
    <2>4. ASSUME ~ unread, NEW k \in Key, wg_peers'[k] # None
          PROVE  wg_peers'[k] = peers'[k]
        BY <2>1, <2>2, <2>3, <2>4 DEF ServedInv
    <2>5. ASSUME ~ unread, NEW v \in Worker, pc'[v] = "answer"
          PROVE  wg_peers'[request'[v].key] = address'[v]
        <3>1. CASE v = w
            BY <2>2, <2>3, <2>5, <3>1
        <3>2. CASE v # w
            <4>1. pc[v] = "answer"
                BY <1>0, <1>1, <2>5, <3>2 DEF AddPeer, Goes
            <4>2. wg_peers[request[v].key] = address[v] /\ request[v].key \in Key
                  /\ address[v] = peers[request[v].key]
                BY <2>5, <4>1 DEF ServedInv, WorkInv, AddressInv, Request
            <4> QED BY <2>2, <2>3, <2>5, <4>2
        <3> QED BY <3>1, <3>2
    <2>6. AttachedIsServed'
        <3> SUFFICES ASSUME ~ unread, NEW k \in Key, link[k] # None, link[k].boot = boots
                     PROVE  wg_peers'[k] = link[k].address
            BY <2>2 DEF AttachedIsServed
        <3>1. wg_peers[k] = link[k].address /\ link[k].address = peers[k]
            BY DEF ServedInv, AttachedIsServed, AddressInv
        <3> QED BY <2>1, <2>3, <3>1
    <2> QED BY <2>2, <2>4, <2>5, <2>6 DEF ServedInv
<1>2. ASSUME NEW w \in Worker, Answer(w) PROVE ServedInv'
    <2> DEFINE key == request[w].key
    <2>1. key \in Key
        BY <1>2 DEF Answer, WorkInv, Request
    <2>2. UNCHANGED <<peers, wg_peers, boots, unread>>
        BY <1>2 DEF Answer, volume, interface, failures
    <2>3. ASSUME NEW k \in Key
          PROVE  \/ link'[k] = link[k]
                 \/ k = key /\ link'[k].boot = boots /\ link'[k].address = address[w]
        BY <1>0, <1>2 DEF Answer
    <2>4. ~ unread => wg_peers[key] = address[w]
        BY <1>2 DEF Answer, ServedInv
    <2>5. \A v \in Worker : pc'[v] = "answer" =>
             pc[v] = "answer" /\ request'[v] = request[v] /\ address'[v] = address[v]
        BY <1>0, <1>2 DEF Answer, Over, Goes
    <2>6. AttachedIsServed'
        BY <2>2, <2>3, <2>4 DEF ServedInv, AttachedIsServed
    <2>7. \A k \in Key : link'[k] # None => link'[k].boot <= boots'
        BY <1>0, <2>2, <2>3 DEF ServedInv
    <2> QED BY <2>2, <2>5, <2>6, <2>7 DEF ServedInv
<1>3. CASE ContainerRestart
    <2>1. link' = link /\ boots' = boots + 1 /\ \A k \in Key : wg_peers'[k] = None
        BY <1>3 DEF ContainerRestart
    <2>2. \A w \in Worker : pc'[w] = "idle"
        BY <1>3 DEF ContainerRestart
    <2>3. \A k \in Key : link'[k] # None => link'[k].boot < boots'
        BY <1>0, <2>1 DEF ServedInv, Link
    <2>4. \A k \in Key : link'[k] # None => link'[k].boot \in Nat /\ boots' \in Nat
        BY <1>0, <2>1 DEF Link
    <2> QED BY <2>1, <2>2, <2>3, <2>4 DEF ServedInv, AttachedIsServed
<1>4. CASE /\ ~ ContainerRestart
           /\ \A w \in Worker : ~ (AddPeer(w) \/ Answer(w))
    <2>1. UNCHANGED <<wg_peers, link, boots>>
        BY <1>4 DEF Next, Handle, Attach, GiveUp, Refuse, Accept, ReadKey, WriteKey, EnsureReady,
           Load, Known, Store, Exhausted, KeyUnreadable, KeyNotPersisted,
           LoadUnreadable, Fail, WorkerDies, vars, interface, clients
    <2>2. ~ unread' => ~ unread
        BY UnreadStays
    <2>3. ASSUME ~ unread', NEW k \in Key, wg_peers'[k] # None
          PROVE  wg_peers'[k] = peers'[k]
        <3>1. wg_peers[k] = peers[k] /\ peers[k] \in Hosts
            BY <2>1, <2>2, <2>3 DEF ServedInv, TypeOK
        <3>3. CASE \E w \in Worker : Store(w)
            <4>1. PICK w \in Worker : Store(w)
                BY <3>3
            <4>2. loaded[w] = peers /\ peers[request[w].key] = None
                BY <2>2, <2>3, <4>1 DEF Store, AddressInv
            <4> QED BY <2>1, <3>1, <4>1, <4>2 DEF Store, TypeOK
        <3>4. CASE \A w \in Worker : ~ Store(w)
            <4>1. peers' = peers
                BY <1>4, <3>4 DEF Next, Handle, Attach, GiveUp, Refuse, Accept, ReadKey,
                   WriteKey, EnsureReady, Load, Known, Exhausted, KeyUnreadable,
                   KeyNotPersisted, LoadUnreadable, Fail, WorkerDies, vars, volume
            <4> QED BY <2>1, <3>1, <4>1
        <3> QED BY <3>3, <3>4
    <2>4. ASSUME ~ unread', NEW v \in Worker, pc'[v] = "answer"
          PROVE  wg_peers'[request'[v].key] = address'[v]
        <3>1. pc[v] = "answer" /\ request'[v] = request[v] /\ address'[v] = address[v]
            BY <1>4, <2>4, AnswerFollowsAddPeer
        <3> QED BY <2>1, <2>2, <2>4, <3>1 DEF ServedInv
    <2>5. AttachedIsServed'
        BY <2>1, <2>2 DEF ServedInv, AttachedIsServed
    <2> QED BY <2>1, <2>3, <2>4, <2>5 DEF ServedInv
<1> QED BY <1>1, <1>2, <1>3, <1>4

\* Whoever was answered since the container started is a peer of the kernel's
\* interface under the address it was told.
THEOREM AttachedIsServedTheorem == Spec => []AttachedIsServed
<1>1. Init => ServedInv
    BY NoneIsApart DEF Init, ServedInv, AttachedIsServed
<1>2. ServedInv => AttachedIsServed
    BY DEF ServedInv
<1> QED BY <1>1, <1>2, NextServed, FabricInvariant, PTL DEF Spec

-----------------------------------------------------------------------------
(* One identity *)

\* With a key file that can be read no worker ever makes a key, so the first
\* one is the only one: on disk, in memory, in the kernel and with appliances.
IdentityInv ==
    provisioned /\ ~ unread =>
        /\ key_file = 1
        /\ \A w \in Worker : /\ private_key[w] \in {None, 1}
                             /\ pc[w] \notin {"truncate", "write_key"}
        /\ wg_key \in {None, 1}
        /\ \A k \in Key : link[k] # None => link[k].fabric = 1

\* Only a worker that finds no key, or cannot read it, makes one.
LEMMA NextIdentity == TypeInv /\ IdentityInv /\ [Next]_vars => IdentityInv'
<1> SUFFICES ASSUME TypeInv, IdentityInv, [Next]_vars, provisioned', ~ unread'
             PROVE  IdentityInv'
    BY DEF IdentityInv
<1>0. /\ pc \in [Worker -> Steps] /\ private_key \in [Worker -> Nat \union {None}]
      /\ link \in [Key -> Link \union {None}]
    BY DEF TypeInv, TypeOK
<1>1. provisioned /\ ~ unread
    <2>1. provisioned' = provisioned
        BY DEF Next, Handle, Attach, GiveUp, Refuse, Accept, ReadKey, WriteKey, EnsureReady,
           Load, Known, Store, Exhausted, AddPeer, Answer, KeyUnreadable, KeyNotPersisted,
           LoadUnreadable, Fail, WorkerDies, ContainerRestart, vars
    <2> QED BY <2>1, UnreadStays
<1> USE <1>0, <1>1 DEF IdentityInv
<1>2. ASSUME NEW w \in Worker, NEW step, step \notin {"truncate", "write_key"},
             Goes(w, step), UNCHANGED <<key_file, private_key, wg_key, link>>
      PROVE  IdentityInv'
    BY <1>2 DEF Goes
<1>3. ASSUME UNCHANGED <<key_file, private_key, pc, wg_key, link>> PROVE IdentityInv'
    BY <1>3
<1>4. ASSUME NEW k \in Key, Attach(k) \/ GiveUp(k) PROVE IdentityInv'
    BY <1>3, <1>4 DEF Attach, GiveUp, volume, interface, worker
<1>5. ASSUME NEW r \in backlog, Refuse(r) PROVE IdentityInv'
    BY <1>3, <1>5 DEF Refuse, volume, interface, worker
<1>6. ASSUME NEW r \in backlog, NEW w \in Worker, Accept(w, r) PROVE IdentityInv'
    BY <1>2, <1>6 DEF Accept, volume, interface
<1>7. ASSUME NEW w \in Worker, ReadKey(w) PROVE IdentityInv'
    BY <1>7, NoneIsApart DEF ReadKey, Goes, volume, interface, clients
<1>8. ASSUME NEW w \in Worker, WriteKey(w) \/ KeyNotPersisted(w) PROVE FALSE
    BY <1>8 DEF WriteKey, KeyNotPersisted
<1>9. ASSUME NEW w \in Worker, KeyUnreadable(w) \/ LoadUnreadable(w) PROVE FALSE
    BY <1>9 DEF KeyUnreadable, LoadUnreadable
<1>10. ASSUME NEW w \in Worker, EnsureReady(w) PROVE IdentityInv'
    BY <1>10 DEF EnsureReady, Goes, volume, clients
<1>11. ASSUME NEW w \in Worker, Load(w) \/ Known(w) \/ Store(w) \/ AddPeer(w)
       PROVE  IdentityInv'
    BY <1>2, <1>11 DEF Load, Known, Store, Allocated, AddPeer, volume, interface, clients
<1>12. ASSUME NEW w \in Worker, Answer(w) PROVE IdentityInv'
    <2>1. private_key[w] = 1
        BY <1>12, NoneIsApart DEF Answer, TypeInv, WorkInv
    <2> QED BY <1>12, <2>1 DEF Answer, Over, Goes, volume, interface
<1>13. ASSUME NEW w \in Worker, Exhausted(w) PROVE IdentityInv'
    BY <1>2, <1>13 DEF Exhausted, Over, volume, interface
<1>14. ASSUME NEW w \in Worker, Fail(w) PROVE IdentityInv'
    BY <1>14 DEF Fail, Over, Goes, volume
<1>15. ASSUME NEW w \in Worker, WorkerDies(w) PROVE IdentityInv'
    BY <1>15 DEF WorkerDies, Over, Goes, volume, interface, clients
<1>16. CASE ContainerRestart
    BY <1>16 DEF ContainerRestart, volume
<1>17. CASE UNCHANGED vars
    BY <1>3, <1>17 DEF vars, volume, interface, worker, clients
<1> QED
    BY <1>4, <1>5, <1>6, <1>7, <1>8, <1>9, <1>10, <1>11, <1>12, <1>13, <1>14, <1>15,
       <1>16, <1>17 DEF Next, Handle

\* With its key file in place the fabric keeps one identity: the key that
\* appliances were told is the one the interface has.
THEOREM IdentityTheorem == Spec => []IdentityIsKept
<1>1. Init => IdentityInv
    BY DEF Init, IdentityInv
<1>2. IdentityInv => IdentityIsKept
    BY DEF IdentityInv, IdentityIsKept
<1> QED BY <1>1, <1>2, NextIdentity, TypeInvariant, PTL DEF Spec
=============================================================================
