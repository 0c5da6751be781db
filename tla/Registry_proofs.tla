-------------------------- MODULE Registry_proofs --------------------------
(* The invariants of the registry for every set of slots, edges, monitors   *)
(* and geometries, and what the geometry of the barriers that it registers  *)
(* guarantees for every layout of displays and movement of the cursor.      *)
EXTENDS Registry, Geometry, WellFoundedInduction, TLAPS

(* no two active clients of a slab share a key *)
Distinct(cs) ==
    \A g, h \in active_clients(cs) : get_key(cs, g) = get_key(cs, h) => g = h

LEMMA MkClientType ==
    ASSUME NEW p \in Position, NEW m \in Monitor \union {None}, NEW a \in BOOLEAN
    PROVE  /\ MkClient(p, m, a) \in Client
           /\ MkClient(p, m, a) # None
           /\ MkClient(p, m, a).pos = p
           /\ MkClient(p, m, a).monitor = m
           /\ MkClient(p, m, a).active = a
  BY RegistryAssumption DEF MkClient, Client

LEMMA SetActiveType ==
    ASSUME NEW c \in Client, NEW a \in BOOLEAN
    PROVE  /\ SetActive(c, a) \in Client
           /\ SetActive(c, a) # None
           /\ SetActive(c, a).pos = c.pos
           /\ SetActive(c, a).monitor = c.monitor
           /\ SetActive(c, a).active = a
           /\ c.active = a => SetActive(c, a) = c
  <1>1. c.pos \in Position /\ c.monitor \in Monitor \union {None}
    BY DEF Client
  <1>2. c.active = a => MkClient(c.pos, c.monitor, a) = c
    BY DEF Client, MkClient
  <1> QED
    BY <1>1, <1>2, MkClientType DEF SetActive

LEMMA ClientOfSlab ==
    ASSUME NEW cs \in Slab, NEW h \in Registered(cs)
    PROVE  /\ h \in Handle
           /\ cs[h] \in Client
           /\ cs[h].active \in BOOLEAN
           /\ get_key(cs, h) \in BarrierKey
  BY DEF Slab, Registered, Client, get_key, BarrierKey

(* activate_client: the client is active, the others at its key are not,    *)
(* and no key changes                                                       *)
LEMMA ActivatedFacts ==
    ASSUME NEW cs \in Slab, NEW h \in Registered(cs)
    PROVE  /\ Activated(cs, h) \in Slab
           /\ active_clients(Activated(cs, h)) = (active_clients(cs) \ client_at(cs, h)) \union {h}
           /\ Registered(Activated(cs, h)) = Registered(cs)
           /\ \A x \in Registered(cs) : get_key(Activated(cs, h), x) = get_key(cs, x)
           /\ \A x \in Handle \ ({h} \union client_at(cs, h)) : Activated(cs, h)[x] = cs[x]
  <1> DEFINE as == Activated(cs, h)
  <1>1. \A x \in Handle : as[x] = IF x = h THEN SetActive(cs[x], TRUE)
                                  ELSE IF x \in client_at(cs, h) THEN SetActive(cs[x], FALSE)
                                  ELSE cs[x]
    BY DEF Activated
  <1>2. client_at(cs, h) \subseteq Registered(cs)
    BY DEF client_at, active_clients
  <1>3. \A x \in Registered(cs) :
            /\ as[x] \in Client
            /\ as[x] # None
            /\ as[x].pos = cs[x].pos
            /\ as[x].monitor = cs[x].monitor
            /\ as[x].active = IF x = h THEN TRUE ELSE IF x \in client_at(cs, h) THEN FALSE ELSE cs[x].active
    <2> SUFFICES ASSUME NEW x \in Registered(cs)
                 PROVE  /\ as[x] \in Client
                        /\ as[x] # None
                        /\ as[x].pos = cs[x].pos
                        /\ as[x].monitor = cs[x].monitor
                        /\ as[x].active = IF x = h THEN TRUE ELSE IF x \in client_at(cs, h) THEN FALSE ELSE cs[x].active
      OBVIOUS
    <2>1. x \in Handle /\ cs[x] \in Client /\ cs[x] # None
      BY ClientOfSlab DEF Registered
    <2>2. CASE x = h
      <3>1. as[x] = SetActive(cs[x], TRUE)
        BY <2>1, <2>2, <1>1
      <3>2. TRUE \in BOOLEAN
        OBVIOUS
      <3>3. /\ SetActive(cs[x], TRUE) \in Client
            /\ SetActive(cs[x], TRUE) # None
            /\ SetActive(cs[x], TRUE).pos = cs[x].pos
            /\ SetActive(cs[x], TRUE).monitor = cs[x].monitor
            /\ SetActive(cs[x], TRUE).active = TRUE
        BY <2>1, <3>2, SetActiveType, Zenon
      <3> HIDE DEF as
      <3> QED
        BY <2>2, <3>1, <3>3
    <2>3. CASE x # h /\ x \in client_at(cs, h)
      <3>1. as[x] = SetActive(cs[x], FALSE)
        BY <2>1, <2>3, <1>1
      <3>2. FALSE \in BOOLEAN
        OBVIOUS
      <3>3. /\ SetActive(cs[x], FALSE) \in Client
            /\ SetActive(cs[x], FALSE) # None
            /\ SetActive(cs[x], FALSE).pos = cs[x].pos
            /\ SetActive(cs[x], FALSE).monitor = cs[x].monitor
            /\ SetActive(cs[x], FALSE).active = FALSE
        BY <2>1, <3>2, SetActiveType, Zenon
      <3> HIDE DEF as
      <3> QED
        BY <2>3, <3>1, <3>3
    <2>4. CASE x # h /\ x \notin client_at(cs, h)
      BY <2>1, <2>4, <1>1
    <2> QED
      BY <2>2, <2>3, <2>4
  <1>4. \A x \in Handle \ Registered(cs) : as[x] = None
    BY <1>1, <1>2 DEF Registered
  <1>5. as \in Slab
    <2>1. as = [x \in Handle |-> as[x]]
      BY DEF Activated
    <2>2. \A x \in Handle : as[x] \in Client \union {None}
      BY <1>3, <1>4
    <2> HIDE DEF as
    <2> QED
      BY <2>1, <2>2 DEF Slab
  <1>6. Registered(as) = Registered(cs)
    BY <1>3, <1>4 DEF Registered
  <1>7. active_clients(as) = (active_clients(cs) \ client_at(cs, h)) \union {h}
    <2>1. h \notin client_at(cs, h)
      BY DEF client_at
    <2> HIDE DEF as
    <2> QED
      BY <1>3, <1>6, <2>1 DEF active_clients
  <1>8. \A x \in Registered(cs) : get_key(as, x) = get_key(cs, x)
    BY <1>3 DEF get_key
  <1>9. \A x \in Handle \ ({h} \union client_at(cs, h)) : as[x] = cs[x]
    BY <1>1
  <1> QED
    BY <1>5, <1>6, <1>7, <1>8, <1>9

(* activation keeps the keys of active clients apart, whatever the key of   *)
(* the activated client was before                                          *)
LEMMA ActivatedDistinct ==
    ASSUME NEW cs \in Slab, NEW h \in Registered(cs),
           \A g, k \in active_clients(cs) \ {h} : get_key(cs, g) = get_key(cs, k) => g = k
    PROVE  Distinct(Activated(cs, h))
  <1> DEFINE as == Activated(cs, h)
  <1> SUFFICES ASSUME NEW g \in active_clients(as), NEW k \in active_clients(as),
                      get_key(as, g) = get_key(as, k)
               PROVE  g = k
    BY DEF Distinct
  <1>1. /\ g \in (active_clients(cs) \ client_at(cs, h)) \union {h}
        /\ k \in (active_clients(cs) \ client_at(cs, h)) \union {h}
    BY ActivatedFacts
  <1>2. get_key(cs, g) = get_key(cs, k)
    BY <1>1, ActivatedFacts DEF active_clients
  <1> QED
    BY <1>1, <1>2 DEF client_at

(* the clients of a file: what activation in slab order leaves *)
LEMMA RestoredFacts ==
    ASSUME NEW cfg \in Slab
    PROVE  Restored(cfg) \in Slab /\ Distinct(Restored(cfg))
  <1> DEFINE last(h) == cfg[h].active /\ \A later \in client_at(cfg, h) : later < h
             rs == Restored(cfg)
  <1>1. \A h \in Registered(cfg) :
            /\ rs[h] \in Client
            /\ rs[h] # None
            /\ rs[h].pos = cfg[h].pos
            /\ rs[h].monitor = cfg[h].monitor
            /\ rs[h].active = last(h)
    <2> SUFFICES ASSUME NEW h \in Registered(cfg)
                 PROVE  /\ rs[h] \in Client
                        /\ rs[h] # None
                        /\ rs[h].pos = cfg[h].pos
                        /\ rs[h].monitor = cfg[h].monitor
                        /\ rs[h].active = last(h)
      OBVIOUS
    <2>1. h \in Handle /\ cfg[h] \in Client /\ cfg[h] # None
      BY ClientOfSlab DEF Registered
    <2>2. rs[h] = SetActive(cfg[h], last(h))
      BY <2>1 DEF Restored
    <2>3. last(h) \in BOOLEAN
      BY <2>1 DEF Client
    <2> HIDE DEF last, rs
    <2> QED
      BY <2>1, <2>2, <2>3, SetActiveType
  <1>2. \A h \in Handle \ Registered(cfg) : rs[h] = None
    BY DEF Registered, Restored
  <1>3. rs \in Slab
    <2>1. rs = [h \in Handle |-> rs[h]]
      BY DEF Restored
    <2> HIDE DEF rs
    <2> QED
      BY <1>1, <1>2, <2>1 DEF Slab
  <1>4. Distinct(rs)
    <2> SUFFICES ASSUME NEW g \in active_clients(rs), NEW h \in active_clients(rs),
                        get_key(rs, g) = get_key(rs, h), g # h
                 PROVE  FALSE
      BY DEF Distinct
    <2>1. g \in Registered(cfg) /\ h \in Registered(cfg) /\ last(g) /\ last(h)
      <3> HIDE DEF last, rs
      <3> QED
        BY <1>1, <1>2 DEF active_clients, Registered
    <2>2. get_key(cfg, g) = get_key(cfg, h)
      <3> HIDE DEF last, rs
      <3> QED
        BY <1>1, <2>1 DEF get_key
    <2>3. g \in client_at(cfg, h) /\ h \in client_at(cfg, g)
      BY <2>1, <2>2 DEF client_at, active_clients
    <2>4. g < h /\ h < g
      BY <2>1, <2>3
    <2> QED
      BY <2>1, <2>4, RegistryAssumption DEF Registered
  <1> QED
    BY <1>3, <1>4

(* a registry without conflicts survives a restart unchanged *)
LEMMA RestoredSame ==
    ASSUME NEW cs \in Slab, Distinct(cs)
    PROVE  Restored(cs) = cs
  <1>1. ASSUME NEW h \in Handle, cs[h] # None
        PROVE  SetActive(cs[h], /\ cs[h].active
                                /\ \A later \in client_at(cs, h) : later < h) = cs[h]
    <2>1. cs[h] \in Client /\ cs[h].active \in BOOLEAN /\ h \in Registered(cs)
      BY <1>1, ClientOfSlab DEF Registered
    <2>2. CASE cs[h].active
      <3>1. client_at(cs, h) = {}
        BY <2>1, <2>2 DEF client_at, Distinct, active_clients
      <3>2. (cs[h].active /\ \A later \in client_at(cs, h) : later < h) = cs[h].active
        BY <2>1, <3>1
      <3> QED
        BY <2>1, <3>2, SetActiveType
    <2>3. CASE ~cs[h].active
      <3>2. (cs[h].active /\ \A later \in client_at(cs, h) : later < h) = cs[h].active
        BY <2>1, <2>3
      <3> QED
        BY <2>1, <3>2, SetActiveType
    <2> QED
      BY <2>2, <2>3
  <1>2. cs = [h \in Handle |-> cs[h]]
    BY DEF Slab
  <1> QED
    BY <1>1, <1>2 DEF Restored

-----------------------------------------------------------------------------
(* What a handler of the service has to respect: the requests it queues for *)
(* the capture task are those that lead from the barriers of the active     *)
(* clients before it to those after it, and it broadcasts what it changed.  *)
GoodRequest(cs, destroys, creates, notified) ==
    /\ cs \in Slab
    /\ Distinct(cs)
    /\ \A h \in Handle \ (destroys \union creates) :
            h \in active_clients(cs) => h \in active_clients(clients) /\ get_key(cs, h) = get_key(clients, h)
    /\ \A h \in Handle \ (destroys \union creates) :
            h \in active_clients(clients) => h \in active_clients(cs)
    /\ creates \subseteq active_clients(cs)
    /\ (creates \ destroys) \intersect active_clients(clients) = {}
    /\ (destroys \ creates) \intersect active_clients(cs) = {}
    /\ \A h \in Handle \ notified : cs[h] = clients[h]

(* The inductive invariant. *)
IInv ==
    /\ TypeOK
    /\ Distinct(clients)
    /\ BarriersBelong
    /\ ActiveIsCaptured
    /\ FrontendUpToDate
    /\ SavedIsCurrent

LEMMA OneBarrier ==
    ASSUME NEW k \in BarrierKey
    PROVE  <<k>> \in Seq(BarrierKey) /\ <<k>> # <<>>
  <1> HIDE DEF BarrierKey
  <1>1. Len(<<k>>) = 1 /\ Len(<<>>) = 0
    OBVIOUS
  <1> QED
    BY <1>1

(* the barriers after the requests of a handler *)
LEMMA RequestsKeepBarriers ==
    ASSUME TypeOK, BarriersBelong, ActiveIsCaptured, crash = "no",
           NEW cs, NEW destroys, NEW creates, NEW notified,
           GoodRequest(cs, destroys, creates, notified),
           Requests(destroys, creates, cs),
           clients' = cs, last_monitors' = last_monitors
    PROVE  /\ captures' \in [Handle -> Seq(BarrierKey)]
           /\ crash' \in {"no", "create", "destroy"}
           /\ BarriersBelong'
           /\ ActiveIsCaptured'
  <1> USE DEF GoodRequest
  <1>1. crash' \in {"no", "create", "destroy"}
    BY DEF Requests
  <1>2. ASSUME NEW h \in Handle
        PROVE  /\ h \in creates => captures'[h] = <<get_key(cs, h)>>
               /\ h \notin creates /\ h \in destroys => captures'[h] = <<>>
               /\ h \notin creates /\ h \notin destroys => captures'[h] = captures[h]
    <2>1. captures[h] \in Seq(BarrierKey)
      BY DEF TypeOK
    <2>2. h \in creates \ destroys => captures[h] = <<>>
      BY DEF BarriersBelong
    <2>3. h \in creates => captures'[h] = Append(<<>>, get_key(cs, h))
      BY <2>2 DEF Requests
    <2>4. Append(<<>>, get_key(cs, h)) = <<get_key(cs, h)>>
      OBVIOUS
    <2> QED
      BY <2>3, <2>4 DEF Requests
  <1>3. \A h \in active_clients(cs) : get_key(cs, h) \in BarrierKey /\ h \in Handle
    BY ClientOfSlab DEF active_clients
  <1>4. captures' \in [Handle -> Seq(BarrierKey)]
    <2>1. captures' = [h \in Handle |-> captures'[h]]
      BY DEF Requests
    <2>2. ASSUME NEW h \in Handle
          PROVE  captures'[h] \in Seq(BarrierKey)
      <3>1. captures[h] \in Seq(BarrierKey)
        BY DEF TypeOK
      <3>2. CASE h \in creates
        <4>1. get_key(cs, h) \in BarrierKey /\ captures'[h] = <<get_key(cs, h)>>
          BY <1>2, <1>3, <3>2
        <4> QED
          BY <4>1, OneBarrier
      <3>3. CASE h \notin creates
        <4>1. captures'[h] = <<>> \/ captures'[h] = captures[h]
          BY <1>2, <3>3
        <4>2. <<>> \in Seq(BarrierKey)
          OBVIOUS
        <4> QED
          BY <3>1, <4>1, <4>2, Zenon
      <3> QED
        BY <3>2, <3>3
    <2> QED
      BY <2>1, <2>2
  <1>5. BarriersBelong'
    <2> SUFFICES ASSUME NEW h \in Handle, captures'[h] # <<>>
                 PROVE  /\ h \in active_clients(cs)
                        /\ \A i \in DOMAIN captures'[h] : captures'[h][i] = get_key(cs, h)
      BY DEF BarriersBelong
    <2>1. CASE h \in creates
      BY <1>2, <2>1
    <2>2. CASE h \notin creates
      <3>1. h \notin destroys /\ captures'[h] = captures[h]
        BY <1>2, <2>2
      <3>2. h \in active_clients(clients)
        BY <3>1 DEF BarriersBelong
      <3>3. h \in active_clients(cs) /\ get_key(cs, h) = get_key(clients, h)
        BY <2>2, <3>1, <3>2
      <3> QED
        BY <3>1, <3>3 DEF BarriersBelong
    <2> QED
      BY <2>1, <2>2
  <1>6. ActiveIsCaptured'
    <2> SUFFICES ASSUME NEW h \in active_clients(cs)
                 PROVE  \/ captures'[h] # <<>>
                        \/ last_monitors # None /\ cs[h].monitor # None
                                                /\ cs[h].monitor \notin DOMAIN last_monitors
      BY DEF ActiveIsCaptured
    <2>1. CASE h \in creates
      BY <1>2, <1>3, <2>1, OneBarrier
    <2>2. CASE h \notin creates
      <3>1. h \in Handle /\ h \notin destroys /\ captures'[h] = captures[h]
        BY <1>2, <1>3, <2>2
      <3>2. h \in active_clients(clients) /\ cs[h].monitor = clients[h].monitor
        BY <2>2, <3>1 DEF get_key
      <3> QED
        BY <3>1, <3>2 DEF ActiveIsCaptured
    <2> QED
      BY <2>1, <2>2
  <1> QED
    BY <1>1, <1>4, <1>5, <1>6

(* a frontend request whose handler queues the right requests *)
LEMMA GoodRequestKeepsIInv ==
    ASSUME IInv, NEW cs, NEW destroys, NEW creates, NEW notified,
           GoodRequest(cs, destroys, creates, notified),
           Request(cs, destroys, creates, notified)
    PROVE  IInv'
  <1>1. cs \in Slab /\ Distinct(cs)
    BY DEF GoodRequest
  <1>2. /\ captures' \in [Handle -> Seq(BarrierKey)]
        /\ crash' \in {"no", "create", "destroy"}
        /\ BarriersBelong'
        /\ ActiveIsCaptured'
    BY RequestsKeepBarriers DEF IInv, Request
  <1>3. told' = cs
    <2>1. told = clients /\ told \in Slab
      BY DEF IInv, FrontendUpToDate, TypeOK
    <2>2. told' = [h \in Handle |-> cs[h]]
      BY <2>1 DEF Request, Broadcast, GoodRequest
    <2>3. cs = [h \in Handle |-> cs[h]]
      BY <1>1 DEF Slab
    <2> QED
      BY <2>2, <2>3
  <1>4. config' \in Slab /\ (cs = NoClients \/ Restored(config') = cs)
    BY <1>1, RestoredSame DEF Request, save_config, IInv, TypeOK
  <1>5. clients' = cs /\ enabled' = enabled /\ last_monitors' = last_monitors
    BY DEF Request
  <1>6. TypeOK'
    BY <1>1, <1>2, <1>3, <1>4, <1>5 DEF IInv, TypeOK
  <1>7. Distinct(clients)'
    BY <1>1, <1>5 DEF Distinct, active_clients, Registered, get_key
  <1>8. FrontendUpToDate' /\ SavedIsCurrent'
    BY <1>3, <1>4, <1>5 DEF FrontendUpToDate, SavedIsCurrent, NoClients, Restored, client_at,
                            active_clients, Registered, get_key, SetActive, MkClient
  <1> QED
    BY <1>2, <1>6, <1>7, <1>8 DEF IInv

-----------------------------------------------------------------------------
LEMMA AddKeepsIInv ==
    ASSUME IInv, NEW h \in Handle, AddClient(h)
    PROVE  IInv'
  <1> DEFINE cs == [clients EXCEPT ![h] = MkClient(DefaultPosition, None, FALSE)]
  <1>1. clients \in Slab /\ h \notin Registered(clients)
    BY DEF IInv, TypeOK, AddClient
  <1>2. /\ MkClient(DefaultPosition, None, FALSE) \in Client
        /\ ~MkClient(DefaultPosition, None, FALSE).active
    BY MkClientType, RegistryAssumption
  <1>3. cs \in Slab
    BY <1>1, <1>2 DEF Slab
  <1>4. \A x \in Handle : cs[x] = IF x = h THEN MkClient(DefaultPosition, None, FALSE) ELSE clients[x]
    BY <1>1 DEF Slab
  <1> HIDE DEF cs
  <1>5. /\ active_clients(cs) = active_clients(clients)
        /\ \A x \in active_clients(clients) : get_key(cs, x) = get_key(clients, x)
    BY <1>1, <1>2, <1>4 DEF active_clients, Registered, get_key
  <1>6. GoodRequest(cs, {}, {}, {h})
    BY <1>3, <1>4, <1>5 DEF GoodRequest, Distinct, IInv
  <1>7. Request(cs, {}, {}, {h})
    BY DEF AddClient, cs
  <1> QED
    BY <1>6, <1>7, GoodRequestKeepsIInv

LEMMA RemoveKeepsIInv ==
    ASSUME IInv, NEW h \in Handle, RemoveClient(h)
    PROVE  IInv'
  <1> DEFINE cs == [clients EXCEPT ![h] = None]
             gone == active_clients(clients) \intersect {h}
  <1>1. clients \in Slab
    BY DEF IInv, TypeOK
  <1>2. cs \in Slab
    BY <1>1 DEF Slab
  <1>3. \A x \in Handle : cs[x] = IF x = h THEN None ELSE clients[x]
    BY <1>1 DEF Slab
  <1> HIDE DEF cs
  <1>4. /\ active_clients(cs) = active_clients(clients) \ {h}
        /\ \A x \in active_clients(cs) : get_key(cs, x) = get_key(clients, x)
    BY <1>3 DEF active_clients, Registered, get_key
  <1>5. GoodRequest(cs, gone, {}, {h})
    BY <1>2, <1>3, <1>4 DEF GoodRequest, Distinct, IInv
  <1>6. Request(cs, gone, {}, {h})
    BY DEF RemoveClient, cs
  <1> QED
    BY <1>5, <1>6, GoodRequestKeepsIInv

LEMMA DeactivateKeepsIInv ==
    ASSUME IInv, NEW h \in Handle, DeactivateClient(h)
    PROVE  IInv'
  <1> DEFINE c == SetActive(clients[h], FALSE)
             cs == [clients EXCEPT ![h] = c]
  <1>1. clients \in Slab /\ h \in Registered(clients)
    BY DEF IInv, TypeOK, DeactivateClient, active_clients
  <1>2. FALSE \in BOOLEAN /\ clients[h] \in Client
    BY <1>1, ClientOfSlab
  <1>3. c \in Client /\ c # None /\ c.active = FALSE
    BY <1>2, SetActiveType, Zenon
  <1>4. Request(cs, {h}, {}, {h})
    BY DEF DeactivateClient
  <1> HIDE DEF c
  <1>5. cs \in Slab
    BY <1>1, <1>3 DEF Slab
  <1>6. \A x \in Handle : cs[x] = IF x = h THEN c ELSE clients[x]
    BY <1>1 DEF Slab
  <1> HIDE DEF cs
  <1>7. /\ active_clients(cs) = active_clients(clients) \ {h}
        /\ \A x \in active_clients(cs) : get_key(cs, x) = get_key(clients, x)
    BY <1>3, <1>6 DEF active_clients, Registered, get_key
  <1>8. GoodRequest(cs, {h}, {}, {h})
    BY <1>5, <1>6, <1>7 DEF GoodRequest, Distinct, IInv
  <1> QED
    BY <1>4, <1>8, GoodRequestKeepsIInv

LEMMA ActivateKeepsIInv ==
    ASSUME IInv, NEW h \in Handle, ActivateClient(h)
    PROVE  IInv'
  <1> DEFINE cs == Activated(clients, h)
             others == client_at(clients, h)
             fresh == {h} \ active_clients(clients)
  <1>1. clients \in Slab /\ h \in Registered(clients) /\ Distinct(clients)
    BY DEF IInv, TypeOK, ActivateClient
  <1>2. Request(cs, others, fresh, {h} \union others)
    BY DEF ActivateClient
  <1>3. Distinct(cs)
    BY <1>1, ActivatedDistinct DEF Distinct
  <1>4. /\ cs \in Slab
        /\ active_clients(cs) = (active_clients(clients) \ others) \union {h}
        /\ \A x \in Registered(clients) : get_key(cs, x) = get_key(clients, x)
        /\ \A x \in Handle \ ({h} \union others) : cs[x] = clients[x]
    BY <1>1, ActivatedFacts
  <1>5. others \subseteq active_clients(clients) /\ h \notin others
    BY DEF client_at
  <1>6. active_clients(clients) \subseteq Registered(clients)
    BY DEF active_clients
  <1> HIDE DEF cs, others
  <1>7. GoodRequest(cs, others, fresh, {h} \union others)
    BY <1>1, <1>3, <1>4, <1>5, <1>6 DEF GoodRequest
  <1> QED
    BY <1>2, <1>7, GoodRequestKeepsIInv

LEMMA RebindKeepsIInv ==
    ASSUME IInv, NEW h \in Handle, NEW c \in Client, c.active = clients[h].active, Rebind(h, c)
    PROVE  IInv'
  <1> DEFINE moved == [clients EXCEPT ![h] = c]
             cs == Activated(moved, h)
             others == client_at(moved, h)
  <1>1. clients \in Slab /\ h \in Registered(clients) /\ Distinct(clients)
    BY DEF IInv, TypeOK, Rebind
  <1>2. c # None
    BY RegistryAssumption DEF Client
  <1>3. moved \in Slab
    BY <1>1 DEF Slab
  <1>4. \A x \in Handle : moved[x] = IF x = h THEN c ELSE clients[x]
    BY <1>1 DEF Slab
  <1>5. /\ h \in active_clients(clients) => Request(cs, {h} \union others, {h}, {h} \union others)
        /\ h \notin active_clients(clients) => Request(moved, {}, {}, {h})
    BY DEF Rebind
  <1> HIDE DEF moved
  <1>6. /\ active_clients(moved) = active_clients(clients)
        /\ Registered(moved) = Registered(clients)
        /\ \A x \in Registered(clients) \ {h} : get_key(moved, x) = get_key(clients, x)
    BY <1>1, <1>2, <1>4 DEF active_clients, Registered, get_key
  <1>7. active_clients(clients) \subseteq Registered(clients) /\ Registered(clients) \subseteq Handle
    BY DEF active_clients, Registered
  <1>8. CASE h \in active_clients(clients)
    <2>1. Distinct(cs)
      BY <1>1, <1>3, <1>6, <1>7, ActivatedDistinct DEF Distinct
    <2>2. /\ cs \in Slab
          /\ active_clients(cs) = (active_clients(moved) \ others) \union {h}
          /\ \A x \in Registered(moved) : get_key(cs, x) = get_key(moved, x)
          /\ \A x \in Handle \ ({h} \union others) : cs[x] = moved[x]
      BY <1>1, <1>3, <1>6, ActivatedFacts
    <2>3. others \subseteq active_clients(moved) /\ h \notin others
      BY DEF client_at
    <2> HIDE DEF cs, others
    <2>4. GoodRequest(cs, {h} \union others, {h}, {h} \union others)
      BY <1>4, <1>6, <1>7, <1>8, <2>1, <2>2, <2>3 DEF GoodRequest
    <2> QED
      BY <1>5, <1>8, <2>4, GoodRequestKeepsIInv
  <1>9. CASE h \notin active_clients(clients)
    <2>1. Distinct(moved)
      BY <1>1, <1>6, <1>7, <1>9 DEF Distinct
    <2>2. GoodRequest(moved, {}, {}, {h})
      BY <1>3, <1>4, <1>6, <1>7, <1>9, <2>1 DEF GoodRequest
    <2> QED
      BY <1>5, <1>9, <2>2, GoodRequestKeepsIInv
  <1> QED
    BY <1>8, <1>9

LEMMA SaveKeepsIInv ==
    ASSUME IInv, SaveConfiguration
    PROVE  IInv'
  <1>1. GoodRequest(clients, {}, {}, {})
    BY DEF GoodRequest, IInv, TypeOK
  <1> QED
    BY <1>1, GoodRequestKeepsIInv DEF SaveConfiguration

(* handle_config_change removes the barriers of all active clients and      *)
(* creates those of the new ones                                            *)
LEMMA ConfigChangeKeepsIInv ==
    ASSUME IInv, NEW cfg \in Slab, ConfigChange(cfg)
    PROVE  IInv'
  <1> DEFINE cs == Restored(cfg)
             old == active_clients(clients)
             new == active_clients(cs)
  <1>1. cs \in Slab /\ Distinct(cs)
    BY RestoredFacts
  <1>2. /\ clients' = cs /\ config' = cfg /\ told' = cs /\ crash = "no"
        /\ enabled' = enabled /\ last_monitors' = last_monitors
    BY DEF ConfigChange
  <1>3. Requests(old, new, cs)
    <2>1. Requests(old, active_clients(clients'), clients')
      BY DEF ConfigChange
    <2> HIDE DEF cs
    <2> QED
      BY <1>2, <2>1 DEF Requests, active_clients, Registered, get_key
  <1>4. GoodRequest(cs, old, new, Handle)
    <2> HIDE DEF cs
    <2> QED
      BY <1>1 DEF GoodRequest, active_clients, Registered
  <1>5. /\ captures' \in [Handle -> Seq(BarrierKey)]
        /\ crash' \in {"no", "create", "destroy"}
        /\ BarriersBelong'
        /\ ActiveIsCaptured'
    <2> HIDE DEF cs, old, new
    <2> QED
      BY <1>2, <1>3, <1>4, RequestsKeepBarriers DEF IInv
  <1>6. TypeOK'
    BY <1>1, <1>2, <1>5 DEF IInv, TypeOK
  <1>7. Distinct(clients)'
    <2> HIDE DEF cs
    <2> QED
      BY <1>1, <1>2 DEF Distinct, active_clients, Registered, get_key
  <1>8. FrontendUpToDate'
    BY <1>2 DEF FrontendUpToDate
  <1>9. SavedIsCurrent'
    <2>1. clients' = Restored(config)'
      BY <1>2 DEF Restored, client_at, active_clients, Registered, get_key, SetActive, MkClient
    <2> QED
      BY <2>1 DEF SavedIsCurrent
  <1> QED
    BY <1>5, <1>6, <1>7, <1>8, <1>9 DEF IInv

LEMMA MonitorsChangedKeepsIInv ==
    ASSUME IInv, NEW new \in Snapshot, MonitorsChanged(new)
    PROVE  IInv'
  <1>1. /\ clients' = clients /\ config' = config /\ enabled' = enabled
        /\ last_monitors' = new /\ crash = "no"
    BY DEF MonitorsChanged
  <1>2. new # None
    BY RegistryAssumption DEF Snapshot
  <1>3. Distinct(clients)' /\ SavedIsCurrent'
    BY <1>1 DEF IInv, Distinct, active_clients, Registered, get_key, SavedIsCurrent, Restored,
                client_at, SetActive, MkClient, NoClients
  <1>4. CASE last_monitors = None
    <2>1. captures' = captures /\ crash' = crash /\ told' = told
      BY <1>4 DEF MonitorsChanged
    <2>2. TypeOK' /\ FrontendUpToDate'
      BY <1>1, <2>1 DEF IInv, TypeOK, FrontendUpToDate
    <2>3. BarriersBelong'
      BY <1>1, <2>1 DEF IInv, BarriersBelong, active_clients, Registered, get_key
    <2>4. ActiveIsCaptured'
      BY <1>1, <1>4, <2>1 DEF IInv, ActiveIsCaptured, active_clients, Registered
    <2> QED
      BY <1>3, <2>2, <2>3, <2>4 DEF IInv
  <1>5. CASE last_monitors # None
    <2> DEFINE off == Detached(last_monitors, new)
               on == Reattached(last_monitors, new)
               again == Recreated(last_monitors, new)
    <2>1. Requests(off \union again, on \union again, clients)
      BY <1>5 DEF MonitorsChanged
    <2>2. told' = clients
      <3>1. told = clients /\ clients \in Slab
        BY DEF IInv, TypeOK, FrontendUpToDate
      <3>2. told' = [h \in Handle |-> clients[h]]
        BY <1>5, <3>1 DEF MonitorsChanged, Broadcast
      <3> QED
        BY <3>1, <3>2 DEF Slab
    <2>3. crash' \in {"no", "create", "destroy"}
      BY <2>1 DEF Requests
    <2>4. /\ off \subseteq active_clients(clients)
          /\ on \subseteq active_clients(clients)
          /\ again \subseteq active_clients(clients)
          /\ \A h \in off : clients[h].monitor \notin DOMAIN new /\ clients[h].monitor # None
          /\ \A h \in on : clients[h].monitor \notin DOMAIN last_monitors
          /\ off \intersect (on \union again) = {}
          /\ \A h \in active_clients(clients) \ (off \union on \union again) :
                clients[h].monitor \in DOMAIN last_monitors => clients[h].monitor \in DOMAIN new
          /\ \A h \in active_clients(clients) \ (off \union on \union again) :
                clients[h].monitor \in DOMAIN new => clients[h].monitor \in DOMAIN last_monitors
      <3>1. DOMAIN last_monitors \subseteq Monitor
        BY <1>5 DEF IInv, TypeOK, Snapshot
      <3> QED
        BY <3>1, RegistryAssumption DEF Detached, Reattached, Recreated, BoundTo
    <2> HIDE DEF off, on, again
    <2>5. ASSUME NEW h \in Handle
          PROVE  /\ h \in again => captures'[h] = Append(<<>>, get_key(clients, h))
                 /\ h \in on \ again => captures'[h] = Append(captures[h], get_key(clients, h))
                 /\ h \in off => captures'[h] = <<>>
                 /\ h \notin off \union on \union again => captures'[h] = captures[h]
      BY <2>1, <2>4 DEF Requests
    <2>6. \A h \in active_clients(clients) : get_key(clients, h) \in BarrierKey /\ h \in Handle
      BY ClientOfSlab DEF active_clients, IInv, TypeOK
    <2>7. ASSUME NEW q \in Seq(BarrierKey), NEW k \in BarrierKey
          PROVE  /\ Append(q, k) \in Seq(BarrierKey)
                 /\ Append(q, k) # <<>>
                 /\ DOMAIN Append(q, k) = 1 .. (Len(q) + 1)
                 /\ \A i \in 1 .. Len(q) : Append(q, k)[i] = q[i]
                 /\ Append(q, k)[Len(q) + 1] = k
      <3> HIDE DEF BarrierKey
      <3>1. Len(Append(q, k)) = Len(q) + 1 /\ Len(q) \in Nat /\ Len(<<>>) = 0
        OBVIOUS
      <3> QED
        BY <3>1
    <2>8. \A h \in Handle : captures[h] \in Seq(BarrierKey) /\ <<>> \in Seq(BarrierKey)
      BY DEF IInv, TypeOK
    <2>9. captures' \in [Handle -> Seq(BarrierKey)]
      <3>1. captures' = [h \in Handle |-> captures'[h]]
        BY <2>1 DEF Requests
      <3>2. ASSUME NEW h \in Handle
            PROVE  captures'[h] \in Seq(BarrierKey)
        <4>1. CASE h \in again
          <5>1. get_key(clients, h) \in BarrierKey /\ captures'[h] = Append(<<>>, get_key(clients, h))
            BY <2>4, <2>5, <2>6, <4>1
          <5> QED
            BY <2>7, <2>8, <5>1
        <4>2. CASE h \in on \ again
          <5>1. get_key(clients, h) \in BarrierKey /\ captures'[h] = Append(captures[h], get_key(clients, h))
            BY <2>4, <2>5, <2>6, <4>2
          <5> QED
            BY <2>7, <2>8, <5>1
        <4>3. h \notin on \union again => captures'[h] \in Seq(BarrierKey)
          BY <2>5, <2>8, Zenon
        <4> QED
          BY <4>1, <4>2, <4>3
      <3> QED
        BY <3>1, <3>2
    <2>10. BarriersBelong'
      <3> SUFFICES ASSUME NEW h \in Handle, captures'[h] # <<>>
                   PROVE  /\ h \in active_clients(clients)
                          /\ \A i \in DOMAIN captures'[h] : captures'[h][i] = get_key(clients, h)
        BY <1>1 DEF BarriersBelong, active_clients, Registered, get_key
      <3>1. ASSUME NEW q \in Seq(BarrierKey), h \in active_clients(clients),
                   \A i \in 1 .. Len(q) : q[i] = get_key(clients, h),
                   captures'[h] = Append(q, get_key(clients, h))
            PROVE  \A i \in DOMAIN captures'[h] : captures'[h][i] = get_key(clients, h)
        BY <2>6, <2>7, <3>1
      <3>2. captures[h] # <<>> => /\ h \in active_clients(clients)
                                  /\ \A i \in DOMAIN captures[h] : captures[h][i] = get_key(clients, h)
        BY <1>1 DEF IInv, BarriersBelong
      <3>3. CASE h \in again
        <4>1. \A i \in 1 .. Len(<<>>) : <<>>[i] = get_key(clients, h)
          OBVIOUS
        <4> QED
          BY <2>4, <2>5, <2>8, <3>1, <3>3, <4>1
      <3>4. CASE h \in on \ again
        <4>1. DOMAIN captures[h] = 1 .. Len(captures[h])
          BY <2>8
        <4>2. \A i \in 1 .. Len(captures[h]) : captures[h][i] = get_key(clients, h)
          BY <3>2, <4>1, <2>8
        <4> QED
          BY <2>4, <2>5, <2>8, <3>1, <3>4, <4>2
      <3>5. CASE h \notin on \union again
        BY <2>5, <3>2, <3>5
      <3> QED
        BY <3>3, <3>4, <3>5
    <2>11. ActiveIsCaptured'
      <3> SUFFICES ASSUME NEW h \in active_clients(clients)
                   PROVE  \/ captures'[h] # <<>>
                          \/ clients[h].monitor # None /\ clients[h].monitor \notin DOMAIN new
        BY <1>1, <1>2 DEF ActiveIsCaptured, active_clients, Registered
      <3>1. CASE h \in on \union again
        <4>1. h \in Handle /\ get_key(clients, h) \in BarrierKey
          BY <2>6
        <4>2. CASE h \in again
          <5>1. captures'[h] = Append(<<>>, get_key(clients, h))
            BY <2>5, <4>1, <4>2
          <5> QED
            BY <2>7, <2>8, <4>1, <5>1
        <4>3. CASE h \in on \ again
          <5>1. captures'[h] = Append(captures[h], get_key(clients, h))
            BY <2>5, <4>1, <4>3
          <5> QED
            BY <2>7, <2>8, <4>1, <5>1
        <4> QED
          BY <3>1, <4>2, <4>3
      <3>2. CASE h \in off
        BY <2>4, <3>2
      <3>3. CASE h \notin off \union on \union again
        <4>1. captures'[h] = captures[h]
          BY <2>5, <2>6, <3>3
        <4> QED
          BY <1>1, <2>4, <3>3, <4>1 DEF IInv, ActiveIsCaptured
      <3> QED
        BY <3>1, <3>2, <3>3
    <2>12. TypeOK' /\ FrontendUpToDate'
      BY <1>1, <2>2, <2>3, <2>9 DEF IInv, TypeOK, FrontendUpToDate
    <2> QED
      BY <1>3, <2>10, <2>11, <2>12 DEF IInv
  <1> QED
    BY <1>4, <1>5

(* Started and Restart: a process that comes up from a file *)
LEMMA RestartKeepsIInv ==
    ASSUME IInv, Restart
    PROVE  IInv'
  <1> DEFINE cs == Restored(config)
  <1>1. cs \in Slab /\ Distinct(cs) /\ config \in Slab
    BY RestoredFacts DEF IInv, TypeOK
  <1>2. /\ clients' = cs /\ config' = config /\ told' = cs /\ crash' = "no"
        /\ enabled' = TRUE /\ last_monitors' = None
    BY DEF Restart
  <1>3. clients' = Restored(config)'
    BY <1>2 DEF Restored, client_at, active_clients, Registered, get_key, SetActive, MkClient
  <1>4. captures' = [h \in Handle |->
                        IF h \in active_clients(clients') THEN <<get_key(clients', h)>> ELSE <<>>]
    BY DEF Restart
  <1> HIDE DEF cs
  <1>5. /\ clients' \in Slab
        /\ Distinct(clients')
        /\ \A h \in active_clients(clients') : get_key(clients', h) \in BarrierKey
    BY <1>1, <1>2, ClientOfSlab DEF active_clients
  <1>6. \A h \in Handle : /\ h \in active_clients(clients') => captures'[h] = <<get_key(clients', h)>>
                          /\ h \notin active_clients(clients') => captures'[h] = <<>>
    BY <1>4
  <1>7. captures' \in [Handle -> Seq(BarrierKey)]
    <2>1. ASSUME NEW h \in Handle
          PROVE  captures'[h] \in Seq(BarrierKey)
      <3>1. CASE h \in active_clients(clients')
        BY <1>5, <1>6, <3>1, OneBarrier, Zenon
      <3>2. CASE h \notin active_clients(clients')
        <4>1. captures'[h] = <<>>
          BY <1>6, <3>2
        <4> QED
          BY <4>1
      <3> QED
        BY <3>1, <3>2
    <2>2. captures' = [h \in Handle |-> captures'[h]]
      BY <1>4
    <2> QED
      BY <2>1, <2>2
  <1>8. TypeOK'
    BY <1>1, <1>2, <1>7 DEF TypeOK
  <1>9. BarriersBelong'
    <2> SUFFICES ASSUME NEW h \in Handle, captures'[h] # <<>>
                 PROVE  /\ h \in active_clients(clients')
                        /\ \A i \in DOMAIN captures'[h] : captures'[h][i] = get_key(clients', h)
      BY DEF BarriersBelong, active_clients, Registered, get_key
    <2>1. h \in active_clients(clients') /\ captures'[h] = <<get_key(clients', h)>>
      BY <1>6
    <2> QED
      BY <2>1
  <1>10. ActiveIsCaptured'
    <2> SUFFICES ASSUME NEW h \in active_clients(clients')
                 PROVE  captures'[h] # <<>>
      BY DEF ActiveIsCaptured, active_clients, Registered
    <2>1. h \in Handle
      BY DEF active_clients, Registered
    <2> QED
      BY <1>5, <1>6, <2>1, OneBarrier, Zenon
  <1>11. Distinct(clients)'
    BY <1>5 DEF Distinct, active_clients, Registered, get_key
  <1>12. FrontendUpToDate' /\ SavedIsCurrent'
    BY <1>2, <1>3 DEF FrontendUpToDate, SavedIsCurrent
  <1> QED
    BY <1>8, <1>9, <1>10, <1>11, <1>12 DEF IInv

LEMMA InitIInv == Init => IInv
  <1> SUFFICES ASSUME NEW cfg \in Slab, Started(cfg)
               PROVE  IInv
    BY DEF Init
  <1> DEFINE cs == Restored(cfg)
  <1>1. cs \in Slab /\ Distinct(cs)
    BY RestoredFacts
  <1>2. /\ clients = cs /\ config = cfg /\ told = cs /\ crash = "no"
        /\ enabled = TRUE /\ last_monitors = None
        /\ captures = [h \in Handle |->
                        IF h \in active_clients(clients) THEN <<get_key(clients, h)>> ELSE <<>>]
    BY DEF Started
  <1>3. SavedIsCurrent /\ FrontendUpToDate
    BY <1>2 DEF SavedIsCurrent, FrontendUpToDate
  <1> HIDE DEF cs
  <1>4. /\ clients \in Slab
        /\ Distinct(clients)
        /\ \A h \in active_clients(clients) : get_key(clients, h) \in BarrierKey /\ h \in Handle
    BY <1>1, <1>2, ClientOfSlab DEF active_clients
  <1>5. \A h \in Handle : /\ h \in active_clients(clients) => captures[h] = <<get_key(clients, h)>>
                          /\ h \notin active_clients(clients) => captures[h] = <<>>
    BY <1>2
  <1>6. captures \in [Handle -> Seq(BarrierKey)]
    <2>1. ASSUME NEW h \in Handle
          PROVE  captures[h] \in Seq(BarrierKey)
      <3>1. CASE h \in active_clients(clients)
        BY <1>4, <1>5, <3>1, OneBarrier, Zenon
      <3>2. CASE h \notin active_clients(clients)
        <4>1. captures[h] = <<>>
          BY <1>5, <3>2
        <4> QED
          BY <4>1
      <3> QED
        BY <3>1, <3>2
    <2>2. captures = [h \in Handle |-> captures[h]]
      BY <1>2
    <2> QED
      BY <2>1, <2>2
  <1>7. TypeOK
    BY <1>1, <1>2, <1>6 DEF TypeOK
  <1>8. BarriersBelong
    <2> SUFFICES ASSUME NEW h \in Handle, captures[h] # <<>>
                 PROVE  /\ h \in active_clients(clients)
                        /\ \A i \in DOMAIN captures[h] : captures[h][i] = get_key(clients, h)
      BY DEF BarriersBelong
    <2>1. h \in active_clients(clients) /\ captures[h] = <<get_key(clients, h)>>
      BY <1>5
    <2> QED
      BY <2>1
  <1>9. ActiveIsCaptured
    BY <1>4, <1>5, OneBarrier, Zenon DEF ActiveIsCaptured
  <1> QED
    BY <1>3, <1>4, <1>7, <1>8, <1>9 DEF IInv

LEMMA StepKeepsIInv == IInv /\ [Next]_vars => IInv'
  <1> SUFFICES ASSUME IInv, [Next]_vars
               PROVE  IInv'
    OBVIOUS
  <1>1. ASSUME NEW h \in Handle, NEW p \in Position, UpdatePos(h, p)
        PROVE  IInv'
    <2>1. clients[h] \in Client
      BY <1>1, ClientOfSlab DEF UpdatePos, IInv, TypeOK
    <2>2. clients[h].monitor \in Monitor \union {None} /\ clients[h].active \in BOOLEAN
      BY <2>1 DEF Client
    <2> DEFINE c == MkClient(p, clients[h].monitor, clients[h].active)
    <2>3. c \in Client /\ c.active = clients[h].active
      BY <2>2, MkClientType
    <2> QED
      BY <1>1, <2>3, RebindKeepsIInv DEF UpdatePos
  <1>2. ASSUME NEW h \in Handle, NEW m \in Monitor \union {None}, UpdateMonitor(h, m)
        PROVE  IInv'
    <2>1. clients[h] \in Client
      BY <1>2, ClientOfSlab DEF UpdateMonitor, IInv, TypeOK
    <2>2. clients[h].pos \in Position /\ clients[h].active \in BOOLEAN
      BY <2>1 DEF Client
    <2> DEFINE c == MkClient(clients[h].pos, m, clients[h].active)
    <2>3. c \in Client /\ c.active = clients[h].active
      BY <2>2, MkClientType
    <2> QED
      BY <1>2, <2>3, RebindKeepsIInv DEF UpdateMonitor
  <1>3. ASSUME UNCHANGED <<clients, captures, last_monitors, config, told>>,
               enabled' \in BOOLEAN, crash' \in {"no", "create", "destroy"},
               crash' = "no" => crash = "no"
        PROVE  IInv'
    <2>1. TypeOK' /\ FrontendUpToDate'
      BY <1>3 DEF IInv, TypeOK, FrontendUpToDate
    <2>2. BarriersBelong' /\ ActiveIsCaptured'
      BY <1>3 DEF IInv, BarriersBelong, ActiveIsCaptured, active_clients, Registered, get_key
    <2>3. Distinct(clients)' /\ SavedIsCurrent'
      BY <1>3 DEF IInv, Distinct, active_clients, Registered, get_key, SavedIsCurrent, Restored,
                  client_at, SetActive, MkClient, NoClients
    <2> QED
      BY <2>1, <2>2, <2>3 DEF IInv
  <1>4. CASE SessionEnds
    BY <1>3, <1>4 DEF SessionEnds
  <1>5. CASE Reenable
    BY <1>3, <1>5 DEF Reenable
  <1>6. CASE UNCHANGED vars
    BY <1>3, <1>6 DEF vars, IInv, TypeOK
  <1> QED
    BY <1>1, <1>2, <1>4, <1>5, <1>6, AddKeepsIInv, RemoveKeepsIInv, ActivateKeepsIInv,
       DeactivateKeepsIInv, SaveKeepsIInv, ConfigChangeKeepsIInv, MonitorsChangedKeepsIInv,
       RestartKeepsIInv DEF Next

LEMMA Invariance == Spec => []IInv
  BY InitIInv, StepKeepsIInv, PTL DEF Spec

(* The state of the registry, of the capture task's list and of the file    *)
(* keeps its type.                                                          *)
THEOREM TypeCorrect == Spec => []TypeOK
  <1>1. IInv => TypeOK
    BY DEF IInv
  <1> QED
    BY <1>1, Invariance, PTL

(* For any number of slots, edges and monitors no two active clients ever   *)
(* share a BarrierKey.                                                      *)
THEOREM OneActivePerKey == Spec => []OneClientPerKey
  <1>1. IInv => OneClientPerKey
    BY DEF IInv, Distinct, OneClientPerKey
  <1> QED
    BY <1>1, Invariance, PTL

(* No handler of the service leaves a barrier behind: every barrier is one  *)
(* of an active client at its present key.                                  *)
THEOREM NoStrayBarrier == Spec => []BarriersBelong
  <1>1. IInv => BarriersBelong
    BY DEF IInv
  <1> QED
    BY <1>1, Invariance, PTL

(* An active client has its barrier whenever its monitor is there, through  *)
(* any sequence of edits, reloads, monitor changes and sessions.            *)
THEOREM NoLostBarrier == Spec => []ActiveIsCaptured
  <1>1. IInv => ActiveIsCaptured
    BY DEF IInv
  <1> QED
    BY <1>1, Invariance, PTL

(* The frontends are never behind the registry when a handler has returned. *)
THEOREM FrontendsFollow == Spec => []FrontendUpToDate
  <1>1. IInv => FrontendUpToDate
    BY DEF IInv
  <1> QED
    BY <1>1, Invariance, PTL

(* Whatever ends the process, a restart brings back the clients it had,     *)
(* except that the file never forgets the last one.                         *)
THEOREM RestartRestores == Spec => []SavedIsCurrent
  <1>1. IInv => SavedIsCurrent
    BY DEF IInv
  <1> QED
    BY <1>1, Invariance, PTL

(* Registry and capture agree after every handler: one active client per    *)
(* key, and the barriers of the active clients and no others.               *)
THEOREM BarriersFollow == Spec => []BarriersAgree
  BY OneActivePerKey, NoStrayBarrier, NoLostBarrier, PTL DEF BarriersAgree

(* After every handler the frontends show the registry as it is, and the    *)
(* file brings it back.                                                     *)
THEOREM RegistryFollowed == Spec => []RegistryIsPublished
  BY FrontendsFollow, RestartRestores, PTL DEF RegistryIsPublished

-----------------------------------------------------------------------------
(* The barrier geometry. *)

\* A set of natural numbers that is not empty has a least element.
LEMMA LeastNatural ==
  ASSUME NEW T, T \subseteq Nat, T # {}
  PROVE  \E i \in T : \A j \in T : ~(j < i)
<1>1. PICK i \in T : \A j \in T : ~(<<j, i>> \in OpToRel(<, Nat))
  BY WFMin, NatLessThanWellFounded
<1>2. \A j \in T : ~(j < i)
  BY <1>1 DEF OpToRel
<1>. QED  BY <1>2

\* display_containing_idx finds a display with the point, and the first one.
LEMMA ContainingDisplay ==
  ASSUME NEW displays \in Seq(Rect), NEW p \in Point, in_display_region(p, displays)
  PROVE  /\ display_containing_idx(displays, p) \in DOMAIN displays
         /\ is_within_dp_region(p, displays[display_containing_idx(displays, p)])
<1>. DEFINE T == {i \in DOMAIN displays : is_within_dp_region(p, displays[i])}
<1>1. T \subseteq Nat /\ T # {}
  BY DEF in_display_region
<1>. HIDE DEF T
<1>2. PICK i \in T : \A j \in T : ~(j < i)
  BY <1>1, LeastNatural
<1>3. \E k \in DOMAIN displays :
        /\ is_within_dp_region(p, displays[k])
        /\ \A j \in DOMAIN displays : j < k => ~is_within_dp_region(p, displays[j])
  BY <1>2 DEF T
<1>. QED  BY <1>3 DEF display_containing_idx

\* Past an edge of the display it started on, the cursor has moved towards it.
LEMMA MovedTowardsEdge ==
  ASSUME NEW d \in Rect, NEW prev \in Point, NEW curr \in Point,
         is_within_dp_region(prev, d), NEW pos \in Edges, pos \in Crosses(curr, d)
  PROVE  Towards(prev, curr, pos)
<1>1. is_within_dp_boundary(prev, d, pos) /\ ~is_within_dp_boundary(curr, d, pos)
  BY DEF is_within_dp_region, Crosses
<1>2. /\ d.x \in Int /\ d.y \in Int /\ d.w \in Int /\ d.h \in Int
      /\ prev[1] \in Int /\ prev[2] \in Int /\ curr[1] \in Int /\ curr[2] \in Int
  BY DEF Point, Rect
<1>3. CASE pos = "Left"
  BY <1>1, <1>2, <1>3 DEF is_within_dp_boundary, Towards
<1>4. CASE pos = "Right"
  BY <1>1, <1>2, <1>4 DEF is_within_dp_boundary, Towards
<1>5. CASE pos = "Top"
  BY <1>1, <1>2, <1>5 DEF is_within_dp_boundary, Towards
<1>6. CASE pos = "Bottom"
  BY <1>1, <1>2, <1>6 DEF is_within_dp_boundary, Towards
<1>. QED  BY <1>3, <1>4, <1>5, <1>6 DEF Edges

\* The direction check of entered_barrier rejects nothing: the edge is that of
\* the display the cursor was on which it is past, if that is the only one.
THEOREM EdgeIsAlwaysGeometric ==
  ASSUME NEW displays \in Seq(Rect), NEW prev \in Point, NEW curr \in Point
  PROVE  EdgeIsGeometric(prev, curr, displays)
<1>. SUFFICES ASSUME NEW pos \in Edges
     PROVE entered_barrier(prev, curr, displays) = pos <=>
             /\ in_display_region(prev, displays) /\ ~in_display_region(curr, displays)
             /\ Crosses(curr, displays[display_containing_idx(displays, prev)]) = {pos}
  BY DEF EdgeIsGeometric
<1>0. Unset \notin Edges
  BY DEF Unset, Edges
<1>1. CASE ~in_display_region(prev, displays) \/ in_display_region(curr, displays)
  BY <1>0, <1>1 DEF entered_barrier
<1>2. CASE in_display_region(prev, displays) /\ ~in_display_region(curr, displays)
  <2>. DEFINE d == displays[display_containing_idx(displays, prev)]
             crossed == Crosses(curr, d)
  <2>1. d \in Rect /\ is_within_dp_region(prev, d)
    BY <1>2, ContainingDisplay
  <2>. HIDE DEF d
  <2>2. \A q \in Edges : crossed = {q} => Towards(prev, curr, q)
    BY <2>1, MovedTowardsEdge
  <2>3. entered_barrier(prev, curr, displays) =
          IF \E q \in Edges : crossed = {q} /\ Towards(prev, curr, q)
          THEN CHOOSE q \in Edges : crossed = {q} ELSE Unset
    BY <1>2 DEF entered_barrier, d
  <2>. HIDE DEF crossed
  <2>4. CASE crossed = {pos}
    <3>1. (CHOOSE q \in Edges : crossed = {q}) = pos
      BY <2>4
    <3>. QED  BY <1>2, <2>2, <2>3, <2>4, <3>1 DEF crossed, d
  <2>5. CASE crossed # {pos}
    <3>1. CASE \E q \in Edges : crossed = {q} /\ Towards(prev, curr, q)
      <4>1. crossed = {CHOOSE q \in Edges : crossed = {q}}
        BY <3>1
      <4>. QED  BY <2>3, <2>5, <3>1, <4>1 DEF crossed, d
    <3>2. CASE ~\E q \in Edges : crossed = {q} /\ Towards(prev, curr, q)
      BY <1>0, <2>3, <2>5, <3>2 DEF crossed, d
    <3>. QED  BY <3>1, <3>2
  <2>. QED  BY <2>4, <2>5
<1>. QED  BY <1>1, <1>2

\* Clamp stays within the extent of a display that is not empty.
LEMMA ClampStaysInside ==
  ASSUME NEW v \in Int, NEW low \in Int, NEW len \in Int, len > 0
  PROVE  LET c == Clamp(v, low, low + len - 1) IN c \in Int /\ low <= c /\ c < low + len
BY DEF Clamp

\* A cursor is parked on the display it came from, whatever the movement.
THEOREM AlwaysParkedOnDisplay ==
  ASSUME NEW displays \in Seq(Rect), NEW prev \in Point, NEW curr \in Point
  PROVE  ParkedOnDisplay(prev, curr, displays)
<1>. SUFFICES ASSUME in_display_region(prev, displays)
     PROVE is_within_dp_region(clamp_to_display_bounds(displays, prev, curr),
                               displays[display_containing_idx(displays, prev)])
  BY DEF ParkedOnDisplay
<1>. DEFINE d == displays[display_containing_idx(displays, prev)]
           x == Clamp(curr[1], d.x, d.x + d.w - 1)
           y == Clamp(curr[2], d.y, d.y + d.h - 1)
<1>1. d \in Rect /\ is_within_dp_region(prev, d)
  BY ContainingDisplay
<1>2. clamp_to_display_bounds(displays, prev, curr) = <<x, y>>
  BY DEF clamp_to_display_bounds
<1>. HIDE DEF d
<1>3. d.w > 0 /\ d.h > 0
  BY <1>1 DEF is_within_dp_region, is_within_dp_boundary, Edges, Point, Rect
<1>0. /\ d.x \in Int /\ d.y \in Int /\ d.w \in Int /\ d.h \in Int
      /\ curr[1] \in Int /\ curr[2] \in Int
  BY <1>1 DEF Point, Rect
<1>4. x \in Int /\ d.x <= x /\ x < d.x + d.w
  BY <1>0, <1>3, ClampStaysInside
<1>5. y \in Int /\ d.y <= y /\ y < d.y + d.h
  BY <1>0, <1>3, ClampStaysInside
<1>. HIDE DEF x, y
<1>6. is_within_dp_region(<<x, y>>, d)
  BY <1>1, <1>4, <1>5 DEF is_within_dp_region, is_within_dp_boundary, Edges, Rect
<1>. QED  BY <1>2, <1>6 DEF d

\* The barrier found is registered and on the edge crossed, and a client that
\* names no monitor is found on every display.
THEOREM BarrierIsAlwaysRegistered ==
  ASSUME NEW bounds, NEW registered \in SUBSET (Edges \X STRING),
         NEW prev, NEW curr
  PROVE  BarrierIsRegistered(prev, curr, bounds, registered)
<1>. DEFINE pos == entered_barrier(prev, curr, Rects(bounds))
           own == bounds[display_containing_idx(Rects(bounds), prev)].monitor_id
           key == query_pure(prev, curr, bounds, registered)
<1>1. key = IF pos = Unset THEN NoKey
            ELSE IF <<pos, own>> \in registered THEN <<pos, own>>
            ELSE IF <<pos, Unset>> \in registered THEN <<pos, Unset>> ELSE NoKey
  BY DEF query_pure
<1>. HIDE DEF pos, own, key
<1>2. <<pos, own>> # NoKey /\ <<pos, Unset>> # NoKey
  BY DEF NoKey
<1>3. /\ key # NoKey => key \in registered /\ key[1] = pos /\ key[2] \in {own, Unset}
      /\ key = NoKey => pos = Unset \/ \A m \in {own, Unset} : <<pos, m>> \notin registered
  BY <1>1, <1>2
<1>. QED  BY <1>3 DEF BarrierIsRegistered, pos, own, key
=============================================================================
