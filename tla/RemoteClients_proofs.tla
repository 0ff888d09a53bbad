------------------------ MODULE RemoteClients_proofs ------------------------
(***************************************************************************)
(* The client cache hands out clients of the right site and of the version *)
(* that was read, for any references, any number of callers and edits.     *)
(***************************************************************************)
EXTENDS RemoteClients, SequenceTheorems, TLAPS

(***************************************************************************)
(* What makes the properties inductive: an entry was built from the        *)
(* reference that is its key and from the version it records, and a call   *)
(* that falls back has read no version.                                    *)
(***************************************************************************)
EntriesTrue ==
  \A r \in RefSet :
    LET ent == clients[cacheKey(r)]
    IN  ent # NoClient => ent.cli.ref = r /\ ent.cli.rv = ent.resourceVersion

NothingRead == \A t \in Callers : call[t].pc \in {"load", "fallback"} => call[t].rv = 0

CallsTrue ==
  \A t \in Callers :
    call[t].got # NoClient =>
      /\ call[t].pc = "idle"
      /\ call[t].got.ref = RefOf(t)
      /\ call[t].rv # 0 => call[t].got.rv = call[t].rv

Inv == TypeOK /\ EntriesTrue /\ NothingRead /\ CallsTrue

\* There is a first and a last reference.
LEMMA RefsFacts ==
  /\ Len(Refs) \in Nat \ {0}
  /\ \A i \in 1 .. Len(Refs) :
       Refs[i] \in [namespace : STRING, name : STRING, key : STRING]
<1>1. Len(Refs) \in Nat /\ Len(Refs) # 0
  BY RefsAssumption, EmptySeq
<1> QED
  BY <1>1, RefsAssumption, ElementOfSeq

\* A position of the loop names a reference, and its cache key is in the map.
LEMMA Positions ==
  ASSUME TypeOK, NEW t \in Callers
  PROVE  /\ RefOf(t) \in RefSet
         /\ cacheKey(RefOf(t)) \in CacheKeys
         /\ SecretOf(RefOf(t)) \in Secrets
         /\ RefOf(t).key \in Keys
BY DEF TypeOK, Call, RefOf, RefSet, CacheKeys, Secrets, Keys

\* Different references have different cache keys.
LEMMA KeysApart ==
  ASSUME NEW r \in RefSet, NEW q \in RefSet, cacheKey(r) = cacheKey(q)
  PROVE  r = q
<1>1. r \in [namespace : STRING, name : STRING, key : STRING]
  BY RefsFacts DEF RefSet
<1>2. q \in [namespace : STRING, name : STRING, key : STRING]
  BY RefsFacts DEF RefSet
<1>3. r.namespace = q.namespace /\ r.name = q.name /\ r.key = q.key
  BY DEF cacheKey
<1> QED
  BY <1>1, <1>2, <1>3

\* A call may go from one step to another that is not the fallback.
LEMMA Moves ==
  ASSUME Inv, NEW t \in Callers, ~At(t, "idle"),
         NEW step \in {"fallback", "lookup", "build", "put"}, Goto(t, step),
         step = "fallback" => At(t, "load")
  PROVE  call' \in [Callers -> Call] /\ NothingRead' /\ CallsTrue'
<1>1. call' \in [Callers -> Call]
  BY DEF Inv, TypeOK, Goto, Call
<1>2. NothingRead'
  BY DEF Inv, TypeOK, Goto, At, NothingRead
<1>3. CallsTrue'
  BY DEF Inv, TypeOK, Goto, At, CallsTrue, RefOf
<1> QED
  BY <1>1, <1>2, <1>3

\* A call may end with nothing, or with a client of its reference and version.
LEMMA Deliveries ==
  ASSUME Inv, NEW t \in Callers, NEW cli \in Client \cup {NoClient}, Deliver(t, cli),
         cli # NoClient => cli.ref = RefOf(t) /\ (call[t].rv # 0 => cli.rv = call[t].rv)
  PROVE  call' \in [Callers -> Call] /\ NothingRead' /\ CallsTrue'
<1>1. call' \in [Callers -> Call]
  <2>1. [call[t] EXCEPT !.pc = "idle", !.got = cli] \in Call
    BY DEF Inv, TypeOK, Call
  <2> QED
    BY <2>1 DEF Inv, TypeOK, Deliver
<1>2. NothingRead'
  BY DEF Inv, TypeOK, Deliver, NothingRead
<1>3. CallsTrue'
  BY DEF Inv, TypeOK, Deliver, CallsTrue, RefOf
<1> QED
  BY <1>1, <1>2, <1>3

\* The empty cache satisfies the invariant.
LEMMA InvInit == Init => Inv
<1> SUFFICES ASSUME Init PROVE Inv
  OBVIOUS
<1>1. Len(Refs) \in 1 .. Len(Refs)
  BY RefsFacts
<1>2. Absent \in Secret
  BY DEF Absent, Secret, Content
<1>3. TypeOK
  BY <1>1, <1>2 DEF Init, TypeOK, Call, Content
<1>4. EntriesTrue
  BY DEF Init, EntriesTrue, CacheKeys
<1> QED
  BY <1>3, <1>4 DEF Init, Inv, NothingRead, CallsTrue

\* The entry a call looks up is of its reference.
LEMMA EntryFound ==
  ASSUME Inv, NEW t \in Callers, clients[cacheKey(RefOf(t))] # NoClient
  PROVE  LET ent == clients[cacheKey(RefOf(t))]
         IN  ent.cli \in Client /\ ent.cli.ref = RefOf(t)
             /\ ent.cli.rv = ent.resourceVersion
<1>1. TypeOK /\ EntriesTrue
  BY DEF Inv
<1>2. RefOf(t) \in RefSet /\ cacheKey(RefOf(t)) \in CacheKeys
  BY <1>1, Positions
<1>3. clients[cacheKey(RefOf(t))] \in cachedClient
  BY <1>1, <1>2 DEF TypeOK
<1> QED
  BY <1>1, <1>2, <1>3 DEF EntriesTrue, cachedClient

\* GetOrCreate keeps the invariant, step by step.
LEMMA InvCall ==
  ASSUME Inv, NEW t \in Callers, GetOrCreate(t)
  PROVE  Inv'
<1>i. TypeOK /\ EntriesTrue /\ NothingRead /\ CallsTrue
  BY DEF Inv
<1>p. /\ RefOf(t) \in RefSet
      /\ cacheKey(RefOf(t)) \in CacheKeys
      /\ SecretOf(RefOf(t)) \in Secrets
      /\ RefOf(t).key \in Keys
  BY <1>i, Positions
<1>c. call[t] \in Call /\ call \in [Callers -> Call]
  BY <1>i DEF TypeOK
<1>q. ASSUME UNCHANGED <<secret, seen, rev, clients>>, faults' \in Nat,
             call' \in [Callers -> Call], NothingRead', CallsTrue'
      PROVE  Inv'
  BY <1>i, <1>q DEF Inv, TypeOK, EntriesTrue
<1>1. CASE StartCall(t)
  <2>1. call' \in [Callers -> Call]
    <3>1. (IF call[t].at = Len(Refs) THEN 1 ELSE call[t].at + 1) \in 1 .. Len(Refs)
      BY <1>c, RefsFacts DEF Call
    <3> QED
      BY <1>1, <1>c, <3>1 DEF StartCall, Call, Content
  <2>2. NothingRead' /\ CallsTrue'
    BY <1>1, <1>i, <1>c DEF StartCall, NothingRead, CallsTrue, RefOf
  <2> QED
    BY <1>1, <1>i, <1>q, <2>1, <2>2 DEF StartCall, TypeOK
<1>2. CASE Load(t)
  <2> DEFINE s == seen[SecretOf(RefOf(t))]
  <2>0. s.rv \in Nat /\ s.data[RefOf(t).key] \in Content
    BY <1>i, <1>p DEF TypeOK, Secret
  <2>1. CASE Goto(t, "fallback")
    <3>1. call' \in [Callers -> Call] /\ NothingRead' /\ CallsTrue'
      BY <1>2, <2>1, Moves DEF Load, At
    <3> QED
      BY <1>2, <1>i, <1>q, <3>1 DEF Load, TypeOK
  <2>2. CASE ~Goto(t, "fallback")
    <3>0. call' = [call EXCEPT ![t].pc = "lookup", ![t].rv = s.rv,
                               ![t].content = s.data[RefOf(t).key]]
      BY <1>2, <2>2 DEF Load
    <3>1. call' \in [Callers -> Call]
      BY <3>0, <1>c, <2>0 DEF Call
    <3>2. NothingRead'
      BY <3>0, <1>i, <1>c DEF NothingRead
    <3>3. call[t].got = NoClient
      BY <1>2, <1>i DEF Load, At, CallsTrue
    <3>4. CallsTrue'
      <4>1. call'[t].got = NoClient
        BY <3>0, <3>3, <1>c DEF Call
      <4>2. \A u \in Callers \ {t} : call'[u] = call[u]
        BY <3>0, <1>c
      <4> QED
        BY <4>1, <4>2, <1>i DEF CallsTrue, RefOf
    <3> QED
      BY <1>2, <1>i, <1>q, <3>1, <3>2, <3>4 DEF Load, TypeOK
  <2> QED
    BY <2>1, <2>2
<1>3. CASE LoadFails(t)
  <2>1. call' \in [Callers -> Call] /\ NothingRead' /\ CallsTrue'
    BY <1>3, Moves DEF LoadFails, At
  <2> QED
    BY <1>3, <1>i, <1>q, <2>1 DEF LoadFails, TypeOK
<1>4. CASE Fallback(t)
  <2> DEFINE cli == IF clients[cacheKey(RefOf(t))] = NoClient THEN NoClient
                    ELSE clients[cacheKey(RefOf(t))].cli
  <2>1. cli \in Client \cup {NoClient} /\ (cli # NoClient => cli.ref = RefOf(t))
    BY EntryFound
  <2>2. call[t].rv = 0
    BY <1>4, <1>i DEF Fallback, At, NothingRead
  <2>3. Deliver(t, cli)
    BY <1>4 DEF Fallback
  <2> HIDE DEF cli
  <2>4. call' \in [Callers -> Call] /\ NothingRead' /\ CallsTrue'
    BY <2>1, <2>2, <2>3, Deliveries
  <2> QED
    BY <1>4, <1>i, <1>q, <2>4 DEF Fallback, TypeOK
<1>5. CASE Lookup(t)
  <2> DEFINE ent == clients[cacheKey(RefOf(t))]
  <2>1. CASE usable(ent, call[t].rv)
    <3>1. /\ ent.cli \in Client /\ ent.cli.ref = RefOf(t)
          /\ ent.cli.rv = call[t].rv
      BY <2>1, EntryFound DEF usable
    <3>2. Deliver(t, ent.cli)
      BY <1>5, <2>1 DEF Lookup
    <3>3. call' \in [Callers -> Call] /\ NothingRead' /\ CallsTrue'
      BY <3>1, <3>2, Deliveries
    <3> QED
      BY <1>5, <1>i, <1>q, <3>3 DEF Lookup, TypeOK
  <2>2. CASE ~usable(ent, call[t].rv)
    <3>1. call' \in [Callers -> Call] /\ NothingRead' /\ CallsTrue'
      BY <1>5, <2>2, Moves DEF Lookup, At
    <3> QED
      BY <1>5, <1>i, <1>q, <3>1 DEF Lookup, TypeOK
  <2> QED
    BY <2>1, <2>2
<1>6. CASE Build(t)
  <2>1. call' \in [Callers -> Call] /\ NothingRead' /\ CallsTrue'
    BY <1>6, Moves, Deliveries DEF Build, At
  <2> QED
    BY <1>6, <1>i, <1>q, <2>1 DEF Build, TypeOK
<1>7. CASE Put(t)
  <2> DEFINE cli == [ref |-> RefOf(t), rv |-> call[t].rv]
             ent == [cli |-> cli, resourceVersion |-> call[t].rv]
  <2>1. cli \in Client /\ ent \in cachedClient
    BY <1>p, <1>c DEF Client, cachedClient, Call
  <2>2. clients' = [clients EXCEPT ![cacheKey(RefOf(t))] = ent]
    BY <1>7 DEF Put
  <2>3. Deliver(t, cli)
    BY <1>7 DEF Put
  <2>4. ent.cli.ref = RefOf(t) /\ ent.cli.rv = ent.resourceVersion
        /\ cli.ref = RefOf(t) /\ cli.rv = call[t].rv
    OBVIOUS
  <2> HIDE DEF cli, ent
  <2>5. call' \in [Callers -> Call] /\ NothingRead' /\ CallsTrue'
    BY <2>1, <2>3, <2>4, Deliveries
  <2>6. EntriesTrue'
    <3> SUFFICES ASSUME NEW r \in RefSet, clients'[cacheKey(r)] # NoClient
                 PROVE  /\ clients'[cacheKey(r)].cli.ref = r
                        /\ clients'[cacheKey(r)].cli.rv
                             = clients'[cacheKey(r)].resourceVersion
      BY DEF EntriesTrue
    <3>1. cacheKey(r) \in CacheKeys
      BY DEF CacheKeys
    <3>2. CASE r = RefOf(t)
      BY <3>2, <2>2, <2>4, <1>i, <1>p DEF TypeOK
    <3>3. CASE r # RefOf(t)
      <4>1. cacheKey(r) # cacheKey(RefOf(t))
        BY <3>3, <1>p, KeysApart
      <4>2. clients'[cacheKey(r)] = clients[cacheKey(r)]
        BY <4>1, <3>1, <2>2, <1>i DEF TypeOK
      <4> QED
        BY <4>2, <1>i DEF EntriesTrue
    <3> QED
      BY <3>2, <3>3
  <2> QED
    BY <1>7, <1>i, <2>1, <2>2, <2>5, <2>6 DEF Put, TypeOK, Inv
<1> QED
  BY <1>1, <1>2, <1>3, <1>4, <1>5, <1>6, <1>7 DEF GetOrCreate

\* Dropping an entry keeps the others true.
LEMMA InvInvalidate ==
  ASSUME Inv, NEW r \in RefSet, Invalidate(r)
  PROVE  Inv'
<1>1. TypeOK'
  BY DEF Inv, TypeOK, Invalidate
<1>2. EntriesTrue'
  BY DEF Inv, TypeOK, Invalidate, EntriesTrue, CacheKeys
<1> QED
  BY <1>1, <1>2 DEF Inv, Invalidate, NothingRead, CallsTrue, RefOf

\* Edits of the Secrets and the informer touch neither the map nor the calls.
LEMMA InvSecrets ==
  ASSUME Inv, NEW n \in Secrets,
         (\E data \in [Keys -> Content] : Edit(n, data)) \/ Delete(n) \/ Sync(n)
  PROVE  Inv'
<1>1. UNCHANGED <<clients, call, faults>>
  BY DEF Edit, Delete, Sync
<1>2. Absent \in Secret
  BY DEF Absent, Secret, Content
<1>3. secret' \in [Secrets -> Secret] /\ seen' \in [Secrets -> Secret] /\ rev' \in Nat
  <2>1. ASSUME NEW data \in [Keys -> Content], Edit(n, data)
        PROVE  secret' \in [Secrets -> Secret] /\ seen' = seen /\ rev' \in Nat
    <3>1. [rv |-> rev + 1, data |-> data] \in Secret
      BY DEF Inv, TypeOK, Secret
    <3> QED
      BY <2>1, <3>1 DEF Inv, TypeOK, Edit
  <2>2. CASE Delete(n)
    BY <1>2, <2>2 DEF Inv, TypeOK, Delete
  <2>3. CASE Sync(n)
    BY <2>3 DEF Inv, TypeOK, Sync
  <2> QED
    BY <2>1, <2>2, <2>3 DEF Inv, TypeOK
<1> QED
  BY <1>1, <1>3 DEF Inv, TypeOK, EntriesTrue, NothingRead, CallsTrue, RefOf

\* The invariant holds in every reachable state.
THEOREM InvAlways == Spec => []Inv
<1>1. Inv /\ [Next]_vars => Inv'
  <2> SUFFICES ASSUME Inv, [Next]_vars PROVE Inv'
    OBVIOUS
  <2>1. CASE UNCHANGED vars
    BY <2>1 DEF vars, Inv, TypeOK, EntriesTrue, NothingRead, CallsTrue, RefOf
  <2> QED
    BY <2>1, InvCall, InvInvalidate, InvSecrets DEF Next
<1> QED
  BY <1>1, InvInit, PTL DEF Spec

(***************************************************************************)
(* GetOrCreate and Invalidate keep the map and the calls in their types,   *)
(* for any references and callers.                                         *)
(***************************************************************************)
THEOREM TypeCorrect == Spec => []TypeOK
BY InvAlways, PTL DEF Inv

(***************************************************************************)
(* No caller of GetOrCreate is ever handed the client of another site.     *)
(***************************************************************************)
THEOREM ClientsAreOwn == Spec => []OwnKubeconfig
<1>1. Inv => OwnKubeconfig
  BY DEF Inv, CallsTrue, OwnKubeconfig
<1> QED
  BY <1>1, InvAlways, PTL

(***************************************************************************)
(* Whatever callers interleave in GetOrCreate, a call that read the Secret *)
(* returns a client of the version it read.                                *)
(***************************************************************************)
THEOREM ReadsAreUsed == Spec => []ReadIsUsed
<1>1. Inv => ReadIsUsed
  BY DEF Inv, CallsTrue, ReadIsUsed
<1> QED
  BY <1>1, InvAlways, PTL

-----------------------------------------------------------------------------
(***************************************************************************)
(* Versions in the map.  Two callers may put an older client over a newer  *)
(* one: a call that read an older version can be the last to store.  The   *)
(* manager is set up with the default of one worker, and then the map only *)
(* moves forward.                                                          *)
(***************************************************************************)
MovesForward ==
  \A r \in RefSet :
    clients[cacheKey(r)] # NoClient /\ clients'[cacheKey(r)] # NoClient =>
      clients[cacheKey(r)].resourceVersion <= clients'[cacheKey(r)].resourceVersion

\* A version is no newer than the Secret s, when there is a Secret.
NoNewer(v, s) == s.rv = 0 \/ v <= s.rv

Known(v, r) ==
  v <= rev /\ NoNewer(v, secret[SecretOf(r)]) /\ NoNewer(v, seen[SecretOf(r)])

InHand(t) == call[t].pc \in {"lookup", "build", "put"}

SecretsOrdered ==
  \A n \in Secrets :
    /\ secret[n].rv <= rev /\ seen[n].rv <= rev
    /\ NoNewer(seen[n].rv, secret[n])
    /\ secret[n].rv = 0 => secret[n] = Absent
    /\ seen[n].rv = 0 => seen[n] = Absent

EntriesKnown ==
  \A r \in RefSet :
    clients[cacheKey(r)] # NoClient => Known(clients[cacheKey(r)].resourceVersion, r)

CallsKnown == \A t \in Callers : InHand(t) => Known(call[t].rv, RefOf(t))

\* The version in hand is not older than the entry it may replace.
CallsAhead ==
  \A t \in Callers :
    InHand(t) /\ clients[cacheKey(RefOf(t))] # NoClient =>
      clients[cacheKey(RefOf(t))].resourceVersion <= call[t].rv

Ordered == SecretsOrdered /\ EntriesKnown /\ CallsKnown /\ CallsAhead

\* What a step of GetOrCreate does to the version in hand and to the map.
LEMMA CallKinds ==
  ASSUME Inv, NEW t \in Callers, GetOrCreate(t)
  PROVE  /\ UNCHANGED <<secret, seen, rev>>
         /\ \/ clients' = clients /\ ~InHand(t)'
            \/ /\ clients' = clients /\ InHand(t)
               /\ RefOf(t)' = RefOf(t) /\ call'[t].rv = call[t].rv
            \/ /\ clients' = clients /\ RefOf(t)' = RefOf(t)
               /\ call'[t].rv = seen[SecretOf(RefOf(t))].rv
               /\ seen[SecretOf(RefOf(t))].data[RefOf(t).key] # "empty"
            \/ /\ InHand(t) /\ ~InHand(t)'
               /\ clients' = [clients EXCEPT ![cacheKey(RefOf(t))] =
                                [cli |-> [ref |-> RefOf(t), rv |-> call[t].rv],
                                 resourceVersion |-> call[t].rv]]
<1>c. call \in [Callers -> Call] /\ call[t] \in Call
  BY DEF Inv, TypeOK
<1>d. ASSUME NEW cli, Deliver(t, cli) PROVE ~InHand(t)'
  BY <1>c, <1>d DEF Deliver, InHand, Call
<1>g. ASSUME NEW step, Goto(t, step)
      PROVE  /\ call'[t].pc = step /\ call'[t].rv = call[t].rv
             /\ RefOf(t)' = RefOf(t)
  BY <1>c, <1>g DEF Goto, RefOf, Call
<1>1. CASE StartCall(t) \/ LoadFails(t)
  <2>1. call'[t].pc \in {"load", "fallback"}
    BY <1>1, <1>c, <1>g DEF StartCall, LoadFails
  <2> QED
    BY <1>1, <2>1 DEF StartCall, LoadFails, InHand
<1>2. CASE Load(t)
  <2> DEFINE s == seen[SecretOf(RefOf(t))]
  <2>1. CASE Goto(t, "fallback")
    BY <1>2, <2>1, <1>g DEF Load, InHand
  <2>2. CASE ~Goto(t, "fallback")
    <3>1. /\ call' = [call EXCEPT ![t].pc = "lookup", ![t].rv = s.rv,
                                  ![t].content = s.data[RefOf(t).key]]
          /\ s.data[RefOf(t).key] # "empty"
      BY <1>2, <2>2 DEF Load
    <3>2. call'[t].rv = s.rv /\ call'[t].at = call[t].at
      BY <3>1, <1>c DEF Call
    <3> QED
      BY <1>2, <3>1, <3>2 DEF Load, RefOf
  <2> QED
    BY <2>1, <2>2
<1>3. CASE Fallback(t)
  BY <1>3, <1>d DEF Fallback
<1>4. CASE Lookup(t) \/ Build(t)
  <2>1. (\E cli : Deliver(t, cli)) \/ \E step : Goto(t, step)
    BY <1>4 DEF Lookup, Build
  <2>2. UNCHANGED <<secret, seen, rev, clients>> /\ InHand(t)
    BY <1>4 DEF Lookup, Build, InHand, At
  <2> QED
    BY <2>1, <2>2, <1>d, <1>g
<1>5. CASE Put(t)
  <2>1. InHand(t) /\ ~InHand(t)'
    BY <1>5, <1>d DEF Put, At, InHand
  <2> QED
    BY <1>5, <2>1 DEF Put
<1> QED
  BY <1>1, <1>2, <1>3, <1>4, <1>5 DEF GetOrCreate

\* A caller that has the map to itself keeps the versions ordered.
LEMMA OrderedCall ==
  ASSUME Inv, Ordered, NEW t \in Callers, \A u \in Callers : u = t, GetOrCreate(t)
  PROVE  Ordered' /\ MovesForward
<1>i. TypeOK /\ SecretsOrdered /\ EntriesKnown /\ CallsKnown /\ CallsAhead
  BY DEF Inv, Ordered
<1> DEFINE r0 == RefOf(t)
           n0 == SecretOf(r0)
<1>p. r0 \in RefSet /\ cacheKey(r0) \in CacheKeys /\ n0 \in Secrets /\ r0.key \in Keys
  BY <1>i, Positions
<1>n. ASSUME NEW r \in RefSet, clients[cacheKey(r)] # NoClient
      PROVE  clients[cacheKey(r)].resourceVersion \in Nat
  <2>1. cacheKey(r) \in CacheKeys
    BY DEF CacheKeys
  <2> QED
    BY <1>n, <2>1, <1>i DEF TypeOK, cachedClient
<1>u. UNCHANGED <<secret, seen, rev>>
  BY CallKinds
<1>s. SecretsOrdered'
  BY <1>i, <1>u DEF SecretsOrdered, NoNewer
<1>k. ASSUME NEW v, NEW r, Known(v, r) PROVE Known(v, r)'
  BY <1>k, <1>u DEF Known, NoNewer
<1>m. ASSUME clients' = clients PROVE EntriesKnown' /\ MovesForward
  <2>1. EntriesKnown'
    BY <1>m, <1>k, <1>i, <1>u DEF EntriesKnown, Known, NoNewer
  <2>2. MovesForward
    BY <1>m, <1>n DEF MovesForward
  <2> QED
    BY <2>1, <2>2
<1>1. CASE clients' = clients /\ ~InHand(t)'
  BY <1>1, <1>m, <1>s DEF Ordered, CallsKnown, CallsAhead
<1>2. CASE /\ clients' = clients /\ InHand(t)
           /\ RefOf(t)' = RefOf(t) /\ call'[t].rv = call[t].rv
  <2>1. CallsKnown'
    BY <1>2, <1>i, <1>u DEF CallsKnown, Known, NoNewer
  <2>2. CallsAhead'
    BY <1>2, <1>i DEF CallsAhead
  <2> QED
    BY <1>2, <1>m, <1>s, <2>1, <2>2 DEF Ordered
<1>3. CASE /\ clients' = clients /\ RefOf(t)' = RefOf(t)
           /\ call'[t].rv = seen[n0].rv
           /\ seen[n0].data[r0.key] # "empty"
  <2>1. seen[n0].rv # 0 /\ seen[n0].rv \in Nat
    BY <1>3, <1>i, <1>p DEF SecretsOrdered, Absent, TypeOK, Secret
  <2>2. Known(seen[n0].rv, r0)
    BY <2>1, <1>i, <1>p DEF SecretsOrdered, Known, NoNewer
  <2>3. CallsKnown'
    BY <1>3, <2>2, <1>k DEF CallsKnown
  <2>4. CallsAhead'
    BY <1>3, <2>1, <1>i, <1>p DEF CallsAhead, EntriesKnown, Known, NoNewer
  <2> QED
    BY <1>3, <1>m, <1>s, <2>3, <2>4 DEF Ordered
<1>4. CASE /\ InHand(t) /\ ~InHand(t)'
           /\ clients' = [clients EXCEPT ![cacheKey(r0)] =
                            [cli |-> [ref |-> r0, rv |-> call[t].rv],
                             resourceVersion |-> call[t].rv]]
  <2>1. clients'[cacheKey(r0)].resourceVersion = call[t].rv
    BY <1>4, <1>p, <1>i DEF TypeOK
  <2>2. ASSUME NEW r \in RefSet, r # r0 PROVE clients'[cacheKey(r)] = clients[cacheKey(r)]
    <3>1. cacheKey(r) # cacheKey(r0) /\ cacheKey(r) \in CacheKeys
      BY <2>2, <1>p, KeysApart DEF CacheKeys
    <3> QED
      BY <3>1, <1>4, <1>i DEF TypeOK
  <2>3. Known(call[t].rv, r0)
    BY <1>4, <1>i DEF CallsKnown
  <2>4. EntriesKnown'
    <3> SUFFICES ASSUME NEW r \in RefSet, clients'[cacheKey(r)] # NoClient
                 PROVE  Known(clients[cacheKey(r)].resourceVersion, r)'
      BY DEF EntriesKnown
    <3>1. Known(clients'[cacheKey(r)].resourceVersion, r)
      BY <2>1, <2>2, <2>3, <1>i DEF EntriesKnown
    <3> QED
      BY <3>1, <1>u DEF Known, NoNewer
  <2>5. MovesForward
    BY <2>1, <2>2, <1>4, <1>i, <1>n DEF MovesForward, CallsAhead
  <2>6. CallsKnown' /\ CallsAhead'
    BY <1>4 DEF CallsKnown, CallsAhead
  <2> QED
    BY <1>s, <2>4, <2>5, <2>6 DEF Ordered
<1> QED
  BY <1>1, <1>2, <1>3, <1>4, CallKinds

\* An entry that is dropped has no version to compare with.
LEMMA OrderedInvalidate ==
  ASSUME Inv, Ordered, NEW q \in RefSet, Invalidate(q)
  PROVE  Ordered' /\ MovesForward
<1>1. UNCHANGED <<secret, seen, rev, call>>
  BY DEF Invalidate
<1>2. ASSUME NEW r \in RefSet, clients'[cacheKey(r)] # NoClient
      PROVE  clients'[cacheKey(r)] = clients[cacheKey(r)]
  BY <1>2 DEF Invalidate, Inv, TypeOK, CacheKeys
<1>3. SecretsOrdered' /\ EntriesKnown'
  BY <1>1, <1>2 DEF Ordered, SecretsOrdered, EntriesKnown, Known, NoNewer
<1>4. CallsKnown'
  BY <1>1 DEF Ordered, CallsKnown, Known, NoNewer, InHand, RefOf
<1>5. ASSUME NEW t \in Callers PROVE RefOf(t) \in RefSet
  BY Positions DEF Inv
<1>6. CallsAhead'
  BY <1>1, <1>2, <1>5 DEF Ordered, CallsAhead, InHand, RefOf
<1>7. MovesForward
  <2> SUFFICES ASSUME NEW r \in RefSet, clients'[cacheKey(r)] # NoClient
               PROVE  clients[cacheKey(r)].resourceVersion
                        <= clients'[cacheKey(r)].resourceVersion
    BY DEF MovesForward
  <2>1. clients[cacheKey(r)] = clients'[cacheKey(r)] /\ cacheKey(r) \in CacheKeys
    BY <1>2 DEF CacheKeys
  <2>2. clients[cacheKey(r)].resourceVersion \in Nat
    BY <2>1 DEF Inv, TypeOK, cachedClient
  <2> QED
    BY <2>1, <2>2
<1> QED
  BY <1>3, <1>4, <1>6, <1>7 DEF Ordered

\* An edit gets a version above all known ones, a deletion leaves none to be
\* compared with, and the informer only takes over what the hub holds.
LEMMA OrderedSecrets ==
  ASSUME Inv, Ordered, NEW n \in Secrets,
         (\E data \in [Keys -> Content] : Edit(n, data)) \/ Delete(n) \/ Sync(n)
  PROVE  Ordered' /\ MovesForward
<1>i. TypeOK /\ SecretsOrdered /\ EntriesKnown /\ CallsKnown /\ CallsAhead
  BY DEF Inv, Ordered
<1>1. UNCHANGED <<clients, call>>
  BY DEF Edit, Delete, Sync
<1>t. /\ rev \in Nat /\ \A m \in Secrets : secret[m].rv \in Nat /\ seen[m].rv \in Nat
      /\ secret \in [Secrets -> Secret] /\ seen \in [Secrets -> Secret]
  BY <1>i DEF TypeOK, Secret
<1>2. /\ SecretsOrdered'
      /\ \A v \in Nat, r \in RefSet : Known(v, r) => Known(v, r)'
  <2>s. \A r \in RefSet : SecretOf(r) \in Secrets
    BY DEF Secrets
  <2>1. ASSUME NEW data \in [Keys -> Content], Edit(n, data)
        PROVE  /\ SecretsOrdered'
               /\ \A v \in Nat, r \in RefSet : Known(v, r) => Known(v, r)'
    <3>1. /\ rev' = rev + 1 /\ seen' = seen
          /\ secret' = [secret EXCEPT ![n] = [rv |-> rev + 1, data |-> data]]
      BY <2>1 DEF Edit
    <3>2. secret'[n].rv = rev + 1 /\ \A m \in Secrets \ {n} : secret'[m] = secret[m]
      BY <3>1, <1>t
    <3>3. SecretsOrdered'
      BY <3>1, <3>2, <1>t, <1>i DEF SecretsOrdered, NoNewer
    <3>4. \A v \in Nat, r \in RefSet : Known(v, r) => Known(v, r)'
      BY <3>1, <3>2, <1>t, <2>s DEF Known, NoNewer
    <3> QED
      BY <3>3, <3>4
  <2>2. CASE Delete(n)
    <3>1. rev' = rev + 1 /\ seen' = seen /\ secret' = [secret EXCEPT ![n] = Absent]
      BY <2>2 DEF Delete
    <3>2. /\ secret'[n] = Absent /\ Absent.rv = 0
          /\ \A m \in Secrets \ {n} : secret'[m] = secret[m]
      BY <3>1, <1>t DEF Absent
    <3>3. SecretsOrdered'
      BY <3>1, <3>2, <1>t, <1>i DEF SecretsOrdered, NoNewer
    <3>4. \A v \in Nat, r \in RefSet : Known(v, r) => Known(v, r)'
      BY <3>1, <3>2, <1>t, <2>s DEF Known, NoNewer
    <3> QED
      BY <3>3, <3>4
  <2>3. CASE Sync(n)
    <3>1. rev' = rev /\ secret' = secret /\ seen' = [seen EXCEPT ![n] = secret[n]]
      BY <2>3 DEF Sync
    <3>2. seen'[n] = secret[n] /\ \A m \in Secrets \ {n} : seen'[m] = seen[m]
      BY <3>1, <1>t
    <3>3. SecretsOrdered'
      BY <3>1, <3>2, <1>t, <1>i DEF SecretsOrdered, NoNewer
    <3>4. \A v \in Nat, r \in RefSet : Known(v, r) => Known(v, r)'
      BY <3>1, <3>2, <1>t, <2>s DEF Known, NoNewer
    <3> QED
      BY <3>3, <3>4
  <2> QED
    BY <2>1, <2>2, <2>3
<1>n. ASSUME NEW r \in RefSet, clients[cacheKey(r)] # NoClient
      PROVE  clients[cacheKey(r)].resourceVersion \in Nat
  <2>1. cacheKey(r) \in CacheKeys
    BY DEF CacheKeys
  <2> QED
    BY <1>n, <2>1, <1>i DEF TypeOK, cachedClient
<1>3. EntriesKnown'
  <2> SUFFICES ASSUME NEW r \in RefSet, clients[cacheKey(r)] # NoClient
               PROVE  Known(clients[cacheKey(r)].resourceVersion, r)'
    BY <1>1 DEF EntriesKnown
  <2>1. Known(clients[cacheKey(r)].resourceVersion, r)
    BY <1>i DEF EntriesKnown
  <2> QED
    BY <2>1, <1>1, <1>2, <1>n DEF Known
<1>4. CallsKnown'
  <2> SUFFICES ASSUME NEW t \in Callers, InHand(t)
               PROVE  Known(call[t].rv, RefOf(t))'
    BY <1>1 DEF CallsKnown, InHand
  <2>1. Known(call[t].rv, RefOf(t)) /\ call[t].rv \in Nat /\ RefOf(t) \in RefSet
    BY <1>i, Positions DEF CallsKnown, TypeOK, Call
  <2> QED
    BY <2>1, <1>1, <1>2 DEF Known, RefOf
<1>5. CallsAhead'
  BY <1>1, <1>i DEF CallsAhead, InHand, RefOf
<1>6. MovesForward
  BY <1>1, <1>n DEF MovesForward
<1> QED
  BY <1>2, <1>3, <1>4, <1>5, <1>6 DEF Ordered

(***************************************************************************)
(* With one worker Put never replaces a cached client by one of an older   *)
(* version of its Secret, through rotations, deletions and recreations, an *)
(* informer that lags, failed reads and invalidations.                     *)
(***************************************************************************)
THEOREM OneCallerMovesForward ==
  ASSUME \A t, u \in Callers : t = u
  PROVE  Spec => [][MovesForward]_vars
<1>1. Init => Ordered
  BY DEF Init, Ordered, SecretsOrdered, EntriesKnown, CallsKnown, CallsAhead,
         NoNewer, InHand, Absent, CacheKeys
<1>2. Inv /\ Ordered /\ Next => Ordered' /\ MovesForward
  <2> SUFFICES ASSUME Inv, Ordered, Next PROVE Ordered' /\ MovesForward
    OBVIOUS
  <2>1. ASSUME NEW t \in Callers, GetOrCreate(t) PROVE Ordered' /\ MovesForward
    BY <2>1, OrderedCall
  <2> QED
    BY <2>1, OrderedInvalidate, OrderedSecrets DEF Next
<1>3. Ordered /\ UNCHANGED vars => Ordered'
  BY DEF vars, Ordered, SecretsOrdered, EntriesKnown, CallsKnown, CallsAhead,
         Known, NoNewer, InHand, RefOf
<1> QED
  BY <1>1, <1>2, <1>3, InvAlways, PTL DEF Spec
=============================================================================
