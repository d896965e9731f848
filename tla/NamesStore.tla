----------------------------- MODULE NamesStore -----------------------------
(***************************************************************************)
(* The on-disk name store (internal/names: store.go, names.go, claims.go): *)
(* the signed snapshot with its detached signature, the claims file and    *)
(* the observed tier, with the two caches kept in memory.                  *)
(*                                                                         *)
(* A signature is identified with the artifact it was made over, so a pair *)
(* of files verifies when both name the same artifact and a trust root     *)
(* signed it.  A file of the pair has contents and, apart from them, what  *)
(* Stat reports: its size and time of writing, one value of Stats.  The    *)
(* store's own writes come at a time of their own; anybody else's may      *)
(* carry any size and time.  Time is whole seconds.                        *)
(***************************************************************************)
EXTENDS Integers, FiniteSets, Sequences

CONSTANTS
    Names, IPs, Anchors,
    Artifacts,      \* snapshots: serial, gen, ttl, rec (name -> ip), bind (name -> anchor)
    Signed,         \* the artifacts a trust root signed
    Claims,         \* claim envelopes, see VerifyClaim
    Stats,          \* what Stat may report of a file: size and modification time
    ObservedTTL, ObsSuppress, ObservedMax,
    MaxTime,        \* bound on the clock
    None

ASSUME StoreParameters ==
    /\ Signed \subseteq Artifacts
    /\ None \notin Names /\ None \notin IPs /\ None \notin Anchors /\ None \notin Artifacts
    /\ ObservedTTL \in Nat /\ ObsSuppress \in Nat /\ MaxTime \in Nat
    /\ ObservedMax \in Nat \ {0}
    /\ \A a \in Artifacts : /\ a.serial \in Nat /\ a.gen \in Nat /\ a.ttl \in Nat
                            /\ a.rec \in [Names -> IPs \cup {None}]
                            /\ a.bind \in [Names -> Anchors \cup {None}]
    /\ \A c \in Claims : c.issued \in Nat

ASSUME StatsAssumption ==
    /\ None \notin Stats
    /\ \A s, k \in Stats \cup {None} : \E x \in Stats : x # s /\ x # k

VARIABLES
    snapFile, sigFile,    \* name-snapshot.json and name-snapshot.json.sig
    snapStat, sigStat,    \* what Stat reports of them, None while there is no file
    claimsFile,           \* claims.json: a sequence of envelopes
    observed,             \* observed-names.json: a set of records
    snapCache, cacheKey,  \* the verified copy in memory, and the key it is valid for
    lastObs,              \* the suppression memo
    now                   \* the clock

pairVars == <<snapFile, sigFile, snapStat, sigStat>>
diskVars == <<pairVars, claimsFile, observed>>
memVars == <<snapCache, cacheKey, lastObs>>
storeVars == <<diskVars, memVars, now>>

StoreInit ==
    /\ snapFile = None /\ sigFile = None
    /\ snapStat = None /\ sigStat = None
    /\ claimsFile = <<>> /\ observed = {}
    /\ snapCache = None /\ cacheKey = None
    /\ lastObs = [n \in Names |-> None]
    /\ now = 1

-----------------------------------------------------------------------------
(* The snapshot.                                                           *)

Verifies(art, sig) == sig = art /\ art \in Signed

\* A plausible mistake: the key is taken from the artifact alone.
StatKey_ArtifactOnly == IF snapStat = None THEN None ELSE <<snapStat, snapStat>>

\* snapStatKey: no key while either file is missing.
StatKey == IF snapStat = None \/ sigStat = None THEN None ELSE <<snapStat, sigStat>>

\* What Stat reports after writeAtomic replaced a file: neither what it reported
\* before nor what the cache key has for it.
Restat(stat, i) == CHOOSE x \in Stats : x # stat /\ (cacheKey # None => x # cacheKey[i])

CacheHit == snapCache # None /\ StatKey # None /\ StatKey = cacheKey

\* What reading and verifying the pair of files gives, None for an error.
ReadVerified == IF Verifies(snapFile, sigFile) THEN snapFile ELSE None

\* The result of loadSnapshotLocked; None stands for its error.
Loaded == IF CacheHit THEN snapCache ELSE ReadVerified

\* The caches loadSnapshotLocked leaves: a missing file leaves them alone, a pair
\* that does not verify clears them.
CachesAfterLoad ==
    IF CacheHit \/ StatKey = None
    THEN UNCHANGED <<snapCache, cacheKey>>
    ELSE /\ snapCache' = ReadVerified
         /\ cacheKey' = IF ReadVerified = None THEN None ELSE StatKey

\* Plausible mistakes: no rule at all; a gap demanded between serials.
Newer_Unchecked(cand) == TRUE
Newer_Gap(cand) == Loaded = None \/ cand.serial > Loaded.serial + 1

\* PutSnapshot's monotonic rule: strictly newer, or no valid cache.
Newer(cand) == Loaded = None \/ cand.serial > Loaded.serial

\* GradeAt: a snapshot without a generation time is never served.
Expired(a, t) == a.gen = 0 \/ t >= a.gen + a.ttl

-----------------------------------------------------------------------------
(* Claims.  An envelope records whether its leaf chains to a root and its  *)
(* signature verifies (ok), the leaf's identity and validity window, and   *)
(* the artifact's own fields.                                              *)

ClaimAge(c, t) == IF t >= c.issued THEN t - c.issued ELSE 0

\* A plausible mistake: the leaf's own word is taken for the name's owner.
VerifyClaim_AnyOwner(c, snap, t) ==
    /\ c.ok
    /\ c.from <= t /\ t <= c.until
    /\ c.leaf # None /\ c.leaf = c.anchor
    /\ c.issued # 0 /\ t < c.issued + c.ttl

VerifyClaim(c, snap, t) ==
    /\ c.ok
    /\ c.from <= t /\ t <= c.until
    /\ c.leaf # None /\ c.leaf = c.anchor
    /\ snap.bind[c.name] = c.anchor
    /\ c.issued # 0 /\ t < c.issued + c.ttl

\* LookupClaim: the youngest valid claim for the name, the first one of a tie.
LookupClaim(n, snap, t) ==
    LET valid == {i \in DOMAIN claimsFile : /\ claimsFile[i].name = n
                                            /\ VerifyClaim(claimsFile[i], snap, t)}
        age(i) == ClaimAge(claimsFile[i], t)
    IN  IF valid = {} THEN None
        ELSE claimsFile[CHOOSE i \in valid :
                 \A j \in valid : age(i) < age(j) \/ (age(i) = age(j) /\ i <= j)]

-----------------------------------------------------------------------------
(* The observed tier.                                                      *)

Stale(o, t) == t >= o.at + ObservedTTL

\* A plausible mistake: any observation of the name within the window is a no-op.
Suppressed_AnyBinding(n, ip) == lastObs[n] # None /\ now - lastObs[n].at < ObsSuppress

Suppressed(n, ip) ==
    /\ lastObs[n] # None
    /\ lastObs[n].ip = ip
    /\ now - lastObs[n].at < ObsSuppress

\* The file RecordObservation may write: the name's old record and the expired ones
\* go, the new one comes, and beyond ObservedMax the oldest are cut.  The sort is not
\* stable, so among records of one second any may be cut.
Upserts(n, ip) ==
    LET kept == {o \in observed : o.name # n /\ ~Stale(o, now)}
                    \cup {[name |-> n, ip |-> ip, at |-> now]}
    IN  {K \in SUBSET kept :
            /\ Cardinality(K) = IF Cardinality(kept) > ObservedMax THEN ObservedMax
                                ELSE Cardinality(kept)
            /\ \A k \in K, d \in kept \ K : k.at >= d.at}

\* RecordObservation under the store's lock.  The memo is set before the write.
RecordObservation(n, ip, ok) ==
    IF Suppressed(n, ip)
    THEN UNCHANGED <<observed, lastObs>>
    ELSE /\ lastObs' = [lastObs EXCEPT ![n] = [ip |-> ip, at |-> now]]
         /\ IF ok THEN observed' \in Upserts(n, ip) ELSE UNCHANGED observed

LookupObserved(n, t) ==
    LET live == {o \in observed : o.name = n /\ ~Stale(o, t)}
    IN  IF live = {} THEN None
        ELSE CHOOSE o \in live : \A p \in live : p.at <= o.at

-----------------------------------------------------------------------------
(* PickFallback: the decision between a snapshot and an observation, both   *)
(* possibly None.  The result is the tier that answers and its address.    *)

PickFallback(snap, obs, n, t) ==
    LET usable == snap # None /\ ~Expired(snap, t) /\ snap.rec[n] # None
        hotfix == obs # None /\ obs.ip # snap.rec[n] /\ obs.at > snap.gen
    IN  IF usable /\ ~hotfix THEN [src |-> "snapshot", ip |-> snap.rec[n]]
        ELSE IF obs # None THEN [src |-> "observed", ip |-> obs.ip]
        ELSE [src |-> "none", ip |-> None]

=============================================================================
