---------------------------- MODULE RemoteClients ----------------------------
(***************************************************************************)
(* The cache of clients for the remote sites, internal/remoteclient: the   *)
(* calls of GetOrCreate by concurrent reconciles, one action per access to *)
(* the hub or to the map, while the kubeconfig Secrets are rotated,        *)
(* emptied, broken and deleted.                                            *)
(***************************************************************************)
EXTENDS Naturals, Sequences

CONSTANTS
  Refs,      \* the Secret references of the replicas, in the order of the loop
  Callers,   \* the workers that reconcile
  NoClient,  \* nil
  MaxEdits,  \* bound for TLC: edits of Secrets
  MaxFaults  \* bound for TLC: failed reads

RefSet == {Refs[i] : i \in 1 .. Len(Refs)}

ASSUME RefsAssumption ==
  /\ Refs \in Seq([namespace : STRING, name : STRING, key : STRING]) /\ Refs # <<>>
  /\ MaxEdits \in Nat /\ MaxFaults \in Nat

SecretOf(r) == <<r.namespace, r.name>>

Secrets == {SecretOf(r) : r \in RefSet}

Keys == {r.key : r \in RefSet}

(***************************************************************************)
(* A Secret is its resourceVersion and what each key holds; an absent      *)
(* Secret has version 0 and no data.                                       *)
(***************************************************************************)
Content == {"empty", "malformed", "valid"}

Secret == [rv : Nat, data : [Keys -> Content]]

Absent == [rv |-> 0, data |-> [k \in Keys |-> "empty"]]

\* A client knows the kubeconfig it was built from: whose, and which version.
Client == [ref : RefSet, rv : Nat]

cachedClient == [cli : Client, resourceVersion : Nat]

VARIABLES
  secret,   \* the Secrets in the hub's API server
  seen,     \* the Secrets in the operator's informer cache
  rev,      \* the last resourceVersion given out
  clients,  \* the map from cache key to cachedClient
  call,     \* the GetOrCreate each caller is in
  faults    \* failed reads so far

vars == <<secret, seen, rev, clients, call, faults>>

\* Variant: the key inside the Secret is left out.
cacheKeyWithoutKey(r) == <<r.namespace, r.name>>

\* namespace/name#key; none of the parts can hold a separator.
cacheKey(r) == <<r.namespace, r.name, r.key>>

CacheKeys == {cacheKey(r) : r \in RefSet}

(***************************************************************************)
(* pc       the next step of the call                                      *)
(* at       the position of the reference it is for                        *)
(* rv       the version loadKubeconfig returned, 0 after an error          *)
(* content  the kubeconfig it returned                                     *)
(* got      once the call is over: the client it returned, or nil          *)
(***************************************************************************)
Call == [pc : {"idle", "load", "fallback", "lookup", "build", "put"},
         at : 1 .. Len(Refs), rv : Nat, content : Content,
         got : Client \cup {NoClient}]

Init ==
  /\ secret = [n \in Secrets |-> Absent]
  /\ seen = secret
  /\ rev = 0
  /\ clients = [k \in CacheKeys |-> NoClient]
  /\ call = [t \in Callers |-> [pc |-> "idle", at |-> Len(Refs), rv |-> 0,
                                content |-> "empty", got |-> NoClient]]
  /\ faults = 0

-----------------------------------------------------------------------------
(***************************************************************************)
(* GetOrCreate.                                                            *)
(***************************************************************************)
RefOf(t) == Refs[call[t].at]

At(t, step) == call[t].pc = step

Goto(t, step) == call' = [call EXCEPT ![t].pc = step]

Deliver(t, cli) == call' = [call EXCEPT ![t].pc = "idle", ![t].got = cli]

\* Variant: the loop runs past the last replica.
StartPastEnd(t) ==
  /\ At(t, "idle")
  /\ call' = [call EXCEPT ![t] =
       [pc |-> "load", at |-> @.at + 1, rv |-> 0, content |-> "empty",
        got |-> NoClient]]
  /\ UNCHANGED <<secret, seen, rev, clients, faults>>

\* The caller's loop comes to the next replica, and after the last one starts
\* again with the first.
StartCall(t) ==
  /\ At(t, "idle")
  /\ call' = [call EXCEPT ![t] =
       [pc |-> "load", at |-> IF @.at = Len(Refs) THEN 1 ELSE @.at + 1,
        rv |-> 0, content |-> "empty", got |-> NoClient]]
  /\ UNCHANGED <<secret, seen, rev, clients, faults>>

\* loadKubeconfig: the Secret is missing, or the key in it is missing or empty.
Load(t) ==
  LET s == seen[SecretOf(RefOf(t))]
      content == s.data[RefOf(t).key]
  IN  /\ At(t, "load")
      /\ \/ /\ content # "empty"
            /\ call' = [call EXCEPT ![t].pc = "lookup", ![t].rv = s.rv,
                                    ![t].content = content]
         \/ /\ content = "empty"
            /\ Goto(t, "fallback")
      /\ UNCHANGED <<secret, seen, rev, clients, faults>>

\* The Get fails for another reason.
LoadFails(t) ==
  /\ At(t, "load")
  /\ faults < MaxFaults
  /\ faults' = faults + 1
  /\ Goto(t, "fallback")
  /\ UNCHANGED <<secret, seen, rev, clients>>

\* Without a kubeconfig any cached client will do.
Fallback(t) ==
  LET ent == clients[cacheKey(RefOf(t))]
  IN  /\ At(t, "fallback")
      /\ Deliver(t, IF ent = NoClient THEN NoClient ELSE ent.cli)
      /\ UNCHANGED <<secret, seen, rev, clients, faults>>

\* Variant: a cached client is used whatever its version.
usableOnceBuilt(ent, rv) == ent # NoClient

usable(ent, rv) == ent # NoClient /\ ent.resourceVersion = rv

Lookup(t) ==
  LET ent == clients[cacheKey(RefOf(t))]
  IN  /\ At(t, "lookup")
      /\ IF usable(ent, call[t].rv) THEN Deliver(t, ent.cli) ELSE Goto(t, "build")
      /\ UNCHANGED <<secret, seen, rev, clients, faults>>

\* clientFromKubeconfig: a failure leaves the cached client where it is.
Build(t) ==
  /\ At(t, "build")
  /\ IF call[t].content = "valid" THEN Goto(t, "put") ELSE Deliver(t, NoClient)
  /\ UNCHANGED <<secret, seen, rev, clients, faults>>

\* Variant: whoever stored a client first wins.
PutIfAbsent(t) ==
  LET cli == [ref |-> RefOf(t), rv |-> call[t].rv]
  IN  /\ At(t, "put")
      /\ clients' = [clients EXCEPT ![cacheKey(RefOf(t))] =
                       IF @ # NoClient THEN @
                       ELSE [cli |-> cli, resourceVersion |-> call[t].rv]]
      /\ Deliver(t, cli)
      /\ UNCHANGED <<secret, seen, rev, faults>>

\* Another caller may have stored another version since Lookup.
Put(t) ==
  LET cli == [ref |-> RefOf(t), rv |-> call[t].rv]
  IN  /\ At(t, "put")
      /\ clients' = [clients EXCEPT ![cacheKey(RefOf(t))] =
                       [cli |-> cli, resourceVersion |-> call[t].rv]]
      /\ Deliver(t, cli)
      /\ UNCHANGED <<secret, seen, rev, faults>>

GetOrCreate(t) ==
  \/ StartCall(t) \/ Load(t) \/ LoadFails(t) \/ Fallback(t)
  \/ Lookup(t) \/ Build(t) \/ Put(t)

Invalidate(r) ==
  /\ clients[cacheKey(r)] # NoClient
  /\ clients' = [clients EXCEPT ![cacheKey(r)] = NoClient]
  /\ UNCHANGED <<secret, seen, rev, call, faults>>

-----------------------------------------------------------------------------
(***************************************************************************)
(* The Secrets: created, rotated, deleted by humans; every write gets a    *)
(* resourceVersion of its own.  The informer follows.                      *)
(***************************************************************************)
Edit(n, data) ==
  /\ rev < MaxEdits
  /\ rev' = rev + 1
  /\ secret' = [secret EXCEPT ![n] = [rv |-> rev + 1, data |-> data]]
  /\ UNCHANGED <<seen, clients, call, faults>>

Delete(n) ==
  /\ rev < MaxEdits
  /\ secret[n].rv # 0
  /\ rev' = rev + 1
  /\ secret' = [secret EXCEPT ![n] = Absent]
  /\ UNCHANGED <<seen, clients, call, faults>>

Sync(n) ==
  /\ seen[n] # secret[n]
  /\ seen' = [seen EXCEPT ![n] = secret[n]]
  /\ UNCHANGED <<secret, rev, clients, call, faults>>

Next ==
  \/ \E t \in Callers : GetOrCreate(t)
  \/ \E r \in RefSet : Invalidate(r)
  \/ \E n \in Secrets :
       \/ \E data \in [Keys -> Content] : Edit(n, data)
       \/ Delete(n) \/ Sync(n)

Spec == Init /\ [][Next]_vars

\* Reconciles go on for ever and informers catch up; nothing else must happen.
Fairness ==
  /\ \A t \in Callers : WF_vars(GetOrCreate(t))
  /\ \A n \in Secrets : WF_vars(Sync(n))

FairSpec == Spec /\ Fairness

-----------------------------------------------------------------------------
(***************************************************************************)
(* Properties.                                                             *)
(***************************************************************************)
TypeOK ==
  /\ secret \in [Secrets -> Secret]
  /\ seen \in [Secrets -> Secret]
  /\ rev \in Nat
  /\ clients \in [CacheKeys -> cachedClient \cup {NoClient}]
  /\ call \in [Callers -> Call]
  /\ faults \in Nat

(***************************************************************************)
(* GetOrCreate never hands out a client of another site: whatever is       *)
(* returned, fallbacks included, was built from the Secret and the key     *)
(* that was asked for.  The promotion of a site writes through it.         *)
(***************************************************************************)
OwnKubeconfig ==
  \A t \in Callers : call[t].got # NoClient => call[t].got.ref = RefOf(t)

(***************************************************************************)
(* A call that could read the Secret returns a client built from exactly   *)
(* the version it read, or none: never an older one from the map, also     *)
(* when another caller stores an older version meanwhile.                  *)
(***************************************************************************)
ReadIsUsed ==
  \A t \in Callers :
    call[t].got # NoClient /\ call[t].rv # 0 => call[t].got.rv = call[t].rv

(***************************************************************************)
(* A rotated kubeconfig is picked up without a restart: it is impossible   *)
(* that for ever a Secret holds a valid kubeconfig and the cached client   *)
(* is of another version.                                                  *)
(***************************************************************************)
Outdated(r) ==
  /\ secret[SecretOf(r)].data[r.key] = "valid"
  /\ LET ent == clients[cacheKey(r)]
     IN  ent = NoClient \/ ent.resourceVersion # secret[SecretOf(r)].rv

RotationPickedUp == \A r \in RefSet : ~<>[]Outdated(r)
=============================================================================
