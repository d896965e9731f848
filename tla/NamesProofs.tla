----------------------------- MODULE NamesProofs ----------------------------
(***************************************************************************)
(* The safety properties of NamesService for any artifacts, claims,        *)
(* editions, queries, addresses and faults, and for every life time,       *)
(* suppression window and cap of the observed tier.                        *)
(***************************************************************************)
EXTENDS NamesService, WellFoundedInduction, TLAPS

Kept == [at : {"idle", "sig", "put", "putSig", "putSnap", "putKey", "claims", "putClaims"},
         art : Artifacts \cup {None}, sig : Artifacts \cup {None}, claims : Seq(Claims)]
Addresses == IPs \cup {c.ip : c \in Claims} \cup {None}
Answer == [name : Names \cup {None}, type : {"A", "AAAA", None}, t : Nat,
           snap : Signed \cup {None}, src : {"none", "snapshot", "claim", "observed"},
           ip : Addresses]
Observation == [name : Names, ip : IPs, at : Nat]

(***************************************************************************)
(* What the refresh loop works with: the pair it is about to store         *)
(* verifies, and the signature on disk is the one of the artifact that     *)
(* follows it.                                                             *)
(***************************************************************************)
RefreshInv ==
    /\ latest \in 1..Len(Editions) /\ origin \in 0..Len(Editions)
    /\ ref \in Kept
    /\ snapFile \in Artifacts \cup {None} /\ sigFile \in Artifacts \cup {None}
    /\ claimsFile \in Seq(Claims)
    /\ ref.at \in {"putSig", "putSnap", "putKey"} => Verifies(ref.art, ref.sig)
    /\ ref.at \in {"putSnap", "putKey"} => sigFile = ref.sig

\* The copy in memory is of a signed artifact.  While the key is what Stat reports,
\* the files hold that artifact, or they were rewritten so that no Stat can tell.
KeyFits == cacheKey # None /\ snapStat = cacheKey[1] /\ sigStat = cacheKey[2]

CacheInv ==
    /\ snapStat \in Stats \cup {None} /\ sigStat \in Stats \cup {None}
    /\ snapCache \in Signed \cup {None} /\ cacheKey \in (Stats \X Stats) \cup {None}
    /\ ~blind /\ snapCache # None /\ KeyFits => snapFile = snapCache /\ sigFile = snapCache
    /\ ~blind /\ ref.at = "putKey" => snapFile = ref.art

\* Unless torn or tampered with, the pair on disk is the newest ever stored, and the
\* one PutSnapshot is busy with is newer.
StoredInv ==
    /\ accepted \in Int /\ accepted >= -1
    /\ blind => cut
    /\ ~cut => /\ ref.at \in {"putSig", "putSnap"} => ref.art.serial > accepted
               /\ ref.at # "putSnap" =>
                     \/ accepted = -1 /\ snapFile = None
                     \/ /\ accepted # -1 /\ snapFile = sigFile /\ snapFile \in Signed
                        /\ snapFile.serial = accepted

\* One record per name; what is remembered of a name, in memory or on disk, is its
\* latest live address.
ObservedInv ==
    /\ now \in Nat
    /\ observed \subseteq Observation
    /\ \A o, p \in observed : o.name = p.name => o = p
    /\ DOMAIN lastObs = Names /\ livest \in [Names -> IPs \cup {None}]
    /\ \A n \in Names : lastObs[n] # None => lastObs[n].ip = livest[n]
    /\ ~missed => \A o \in observed : o.ip = livest[o.name]

\* A query holds a signed snapshot or none, and one wherever a claim is looked at.
Justified(r) ==
    /\ r.src = "snapshot" => /\ r.snap \in Signed /\ ~Expired(r.snap, r.t)
                             /\ r.ip = r.snap.rec[r.name]
    /\ r.src = "claim" => /\ r.snap \in Signed
                          /\ \E c \in Claims : /\ c.ok /\ c.name = r.name /\ c.ip = r.ip
                                               /\ r.t < c.issued + c.ttl
                                               /\ c.leaf = r.snap.bind[r.name]

QueryInv ==
    /\ qpc \in [Queries -> {"idle", "snapshot", "claim", "observed", "answered"}]
    /\ loc \in [Queries -> Answer]
    /\ \A q \in Queries : /\ qpc[q] # "idle" => loc[q].name \in Names
                          /\ qpc[q] = "claim" => loc[q].snap \in Signed
                          /\ qpc[q] = "answered" => Justified(loc[q])

-----------------------------------------------------------------------------
(* The store's operators. *)

\* Every nonempty set of natural numbers has a least element.
LEMMA LeastNumber ==
    ASSUME NEW S \in SUBSET Nat, S # {}
    PROVE  \E m \in S : \A k \in S : m <= k
<1>1. PICK m \in S : \A k \in S : ~(<<k, m>> \in OpToRel(<, Nat))
  BY NatLessThanWellFounded, WFMin, Zenon
<1>2. ASSUME NEW k \in S PROVE m <= k
  <2>1. k \in Nat /\ m \in Nat /\ <<k, m>> \in Nat \X Nat
    OBVIOUS
  <2>2. ~(k < m)
    BY <1>1, <2>1 DEF OpToRel
  <2> QED
    BY <2>1, <2>2
<1> QED
  BY <1>2

\* The youngest valid claim exists as soon as one is valid, so that what LookupClaim
\* returns is a valid claim of the file (the loop of LookupClaim).
LEMMA LookupClaimIsValid ==
    ASSUME NEW n \in Names, NEW snap \in Signed, NEW t \in Nat, claimsFile \in Seq(Claims),
           LookupClaim(n, snap, t) # None
    PROVE  /\ LookupClaim(n, snap, t) \in Claims
           /\ LookupClaim(n, snap, t).name = n
           /\ VerifyClaim(LookupClaim(n, snap, t), snap, t)
<1> DEFINE valid == {i \in DOMAIN claimsFile : /\ claimsFile[i].name = n
                                               /\ VerifyClaim(claimsFile[i], snap, t)}
           age(i) == ClaimAge(claimsFile[i], t)
           First(i) == \A j \in valid : age(i) < age(j) \/ (age(i) = age(j) /\ i <= j)
           ages == {age(i) : i \in valid}
<1>1. valid # {}
  BY DEF LookupClaim
<1>2. valid \subseteq Nat
  OBVIOUS
<1>3. ASSUME NEW i \in valid PROVE age(i) \in Nat
  <2>1. claimsFile[i] \in Claims
    OBVIOUS
  <2>2. claimsFile[i].issued \in Nat
    BY <2>1, StoreParameters
  <2> QED
    BY <2>2 DEF ClaimAge
<1> HIDE DEF age
<1>4. ages \in SUBSET Nat /\ ages # {}
  BY <1>1, <1>3
<1>5. PICK a \in ages : \A k \in ages : a <= k
  BY <1>4, LeastNumber
<1> DEFINE youngest == {i \in valid : age(i) = a}
<1>6. youngest \in SUBSET Nat /\ youngest # {}
  BY <1>2
<1>7. PICK i \in youngest : \A j \in youngest : i <= j
  BY <1>6, LeastNumber
<1>8. First(i)
  <2> SUFFICES ASSUME NEW j \in valid PROVE age(i) < age(j) \/ (age(i) = age(j) /\ i <= j)
    OBVIOUS
  <2>1. age(i) = a /\ a <= age(j) /\ a \in Nat /\ age(j) \in Nat
    BY <1>3, <1>5
  <2>2. CASE age(j) = a
    BY <1>7, <2>1, <2>2
  <2>3. CASE age(j) # a
    BY <2>1, <2>3
  <2> QED
    BY <2>2, <2>3
<1> DEFINE k == CHOOSE x \in valid : First(x)
<1>9. k \in valid
  <2>1. \E x \in valid : First(x)
    BY <1>8
  <2> HIDE DEF First, valid
  <2> QED
    BY <2>1
<1>10. LookupClaim(n, snap, t) = claimsFile[k]
  BY <1>1 DEF LookupClaim, age
<1> HIDE DEF k
<1> QED
  BY <1>9, <1>10

\* What LookupObserved returns is the name's record.
LEMMA LookupObservedIsRecord ==
    ASSUME ObservedInv, NEW n \in Names, NEW t \in Nat, LookupObserved(n, t) # None
    PROVE  LookupObserved(n, t) \in observed /\ LookupObserved(n, t).name = n
<1> DEFINE live == {o \in observed : o.name = n /\ ~Stale(o, t)}
           Last(o) == \A p \in live : p.at <= o.at
<1>1. live # {}
  BY DEF LookupObserved
<1>2. PICK o \in live : TRUE
  BY <1>1
<1>3. \A p \in live : p = o /\ p.at \in Nat
  BY DEF ObservedInv, Observation
<1>4. \E x \in live : Last(x)
  BY <1>2, <1>3
<1>5. LookupObserved(n, t) = CHOOSE x \in live : Last(x)
  BY <1>1 DEF LookupObserved
<1>6. (CHOOSE x \in live : Last(x)) \in live
  <2> HIDE DEF Last, live
  <2> QED
    BY <1>4
<1> QED
  BY <1>5, <1>6

\* A load gives a signed artifact or none; and what reading and verifying the files
\* gives, cached or not, unless they were rewritten so that no Stat can tell.
LEMMA LoadedIsVerified ==
    ASSUME CacheInv
    PROVE  Loaded \in Signed \cup {None} /\ (~blind => Loaded = ReadVerified)
<1>1. CASE CacheHit
  <2>1. KeyFits /\ snapCache # None
    BY <1>1 DEF CacheHit, StatKey, KeyFits
  <2>2. snapCache \in Signed
    BY <2>1 DEF CacheInv
  <2>3. ~blind => snapFile = snapCache /\ sigFile = snapCache
    BY <2>1 DEF CacheInv
  <2> QED
    BY <1>1, <2>2, <2>3 DEF Loaded, ReadVerified, Verifies
<1>2. CASE ~CacheHit
  BY <1>2 DEF Loaded, ReadVerified, Verifies
<1> QED
  BY <1>1, <1>2

LEMMA LoadKeepsCache ==
    ASSUME CacheInv, CachesAfterLoad, UNCHANGED <<pairVars, blind>>,
           ref'.at = "putKey" => ref' = ref
    PROVE  CacheInv'
<1> USE DEF pairVars
<1>1. CASE CacheHit \/ StatKey = None
  BY <1>1 DEF CachesAfterLoad, CacheInv, KeyFits
<1>2. CASE ~(CacheHit \/ StatKey = None)
  <2>1. /\ snapCache' = ReadVerified
        /\ cacheKey' = IF ReadVerified = None THEN None ELSE StatKey
    BY <1>2 DEF CachesAfterLoad
  <2>2. StatKey = <<snapStat, sigStat>> /\ snapStat \in Stats /\ sigStat \in Stats
    BY <1>2 DEF StatKey, CacheInv
  <2>3. snapCache' \in Signed \cup {None} /\ cacheKey' \in (Stats \X Stats) \cup {None}
    BY <2>1, <2>2 DEF ReadVerified, Verifies
  <2>4. snapCache' # None => snapFile = snapCache' /\ sigFile = snapCache'
    BY <2>1 DEF ReadVerified, Verifies
  <2> QED
    BY <2>3, <2>4 DEF CacheInv
<1> QED
  BY <1>1, <1>2

\* A write of the store's own changes what Stat reports, and away from the key.
LEMMA RestatIsNew ==
    ASSUME NEW st \in Stats \cup {None}, NEW i \in {1, 2},
           cacheKey \in (Stats \X Stats) \cup {None}
    PROVE  /\ Restat(st, i) \in Stats
           /\ cacheKey # None => Restat(st, i) # cacheKey[i]
<1> DEFINE Fresh(x) == x # st /\ (cacheKey # None => x # cacheKey[i])
<1>1. \E x \in Stats : Fresh(x)
  <2>1. CASE cacheKey = None
    BY <2>1, StatsAssumption
  <2>2. CASE cacheKey # None
    <3>1. cacheKey[i] \in Stats \cup {None}
      BY <2>2
    <3>2. \A s, k \in Stats \cup {None} : \E x \in Stats : x # s /\ x # k
      BY StatsAssumption
    <3> QED
      BY <3>1, <3>2
  <2> QED
    BY <2>1, <2>2
<1>2. Restat(st, i) = CHOOSE x \in Stats : Fresh(x)
  BY DEF Restat
<1>3. Restat(st, i) \in Stats /\ Fresh(Restat(st, i))
  <2> HIDE DEF Fresh
  <2> QED
    BY <1>1, <1>2
<1> QED
  BY <1>3

-----------------------------------------------------------------------------
(* The snapshot: refresh loop, cache and files. *)

SnapInv == RefreshInv /\ CacheInv /\ StoredInv

LEMMA SnapHolds == Init => SnapInv
BY ServiceParameters
   DEF Init, StoreInit, NoRef, Kept, SnapInv, RefreshInv, CacheInv, KeyFits, StoredInv

\* An edition the origin serves.
LEMMA EditionTyped ==
    ASSUME NEW e \in 1..Len(Editions)
    PROVE  Editions[e].art \in Artifacts /\ Editions[e].claims \in Seq(Claims)
<1> DEFINE Edition == [art : Artifacts, claims : Seq(Claims)]
<1>1. Editions[e] \in Edition
  <2>1. Editions \in Seq(Edition)
    BY ServiceParameters
  <2> HIDE DEF Edition
  <2> QED
    BY <2>1
<1> QED
  BY <1>1

LEMMA NoRefKept == NoRef \in Kept /\ NoRef.at = "idle"
<1>1. <<>> \in Seq(Claims)
  OBVIOUS
<1> QED
  BY <1>1 DEF NoRef, Kept

LEMMA FetchedSnap ==
    ASSUME SnapInv, ref' \in Kept, ref'.at \notin {"putSig", "putSnap", "putKey"},
           ref.at # "putSnap",
           UNCHANGED <<diskVars, snapCache, cacheKey, origin, latest, accepted, cut, blind>>
    PROVE  SnapInv'
BY DEF SnapInv, RefreshInv, CacheInv, KeyFits, StoredInv, pairVars, diskVars, Verifies

LEMMA SnapUntouched ==
    ASSUME SnapInv, UNCHANGED <<pairVars, claimsFile, snapCache, cacheKey, origin, latest, ref,
                                accepted, cut, blind>>
    PROVE  SnapInv'
BY DEF SnapInv, RefreshInv, CacheInv, KeyFits, StoredInv, pairVars, Verifies

LEMMA NextSnap == SnapInv /\ [Next]_vars => SnapInv'
<1> SUFFICES ASSUME SnapInv, [Next]_vars PROVE SnapInv'
  OBVIOUS
<1> USE DEF SnapInv
<1>1. CASE FetchArtifact
  <2>1. Editions[origin].art \in Artifacts
    BY <1>1, EditionTyped DEF FetchArtifact, RefreshInv
  <2>2. ref' \in Kept /\ ref'.at = "sig"
    BY <1>1, <2>1, NoRefKept DEF FetchArtifact, Kept
  <2> QED
    BY <1>1, <2>2, FetchedSnap DEF FetchArtifact, storeVars, memVars
<1>2. CASE FetchSignature
  <2>1. ref' \in Kept /\ ref'.at \in {"idle", "put"}
    <3>1. CASE origin = 0
      BY <1>2, <3>1, NoRefKept DEF FetchSignature
    <3>2. CASE origin # 0
      <4>1. Editions[origin].art \in Artifacts /\ ref \in Kept
        BY <3>2, EditionTyped DEF RefreshInv
      <4> QED
        BY <1>2, <3>2, <4>1 DEF FetchSignature, Kept
    <3> QED
      BY <3>1, <3>2
  <2> QED
    BY <1>2, <2>1, FetchedSnap DEF FetchSignature, storeVars, memVars
<1>3. CASE PutSnapshot
  <2>1. CASE ~Verifies(ref.art, ref.sig) \/ ~Newer(ref.art)
    <3>1. ref' \in Kept /\ ref'.at = "idle"
      BY <1>3, <2>1, NoRefKept DEF PutSnapshot
    <3>2. CacheInv'
      <4>1. CASE CachesAfterLoad
        BY <1>3, <3>1, <4>1, LoadKeepsCache DEF PutSnapshot, diskVars
      <4>2. CASE UNCHANGED <<snapCache, cacheKey>>
        BY <1>3, <3>1, <4>2 DEF PutSnapshot, diskVars, pairVars, CacheInv, KeyFits
      <4> QED
        BY <1>3, <4>1, <4>2 DEF PutSnapshot
    <3> QED
      BY <1>3, <3>1, <3>2 DEF PutSnapshot, diskVars, pairVars, RefreshInv, StoredInv
  <2>2. CASE Verifies(ref.art, ref.sig) /\ Newer(ref.art)
    <3>1. /\ ref' \in Kept /\ ref'.at = "putSig"
          /\ ref'.art = ref.art /\ ref'.sig = ref.sig
      BY <1>3, <2>2 DEF PutSnapshot, RefreshInv, Kept
    <3>2. CacheInv'
      BY <1>3, <2>2, <3>1, LoadKeepsCache DEF PutSnapshot, diskVars
    <3>3. RefreshInv'
      BY <1>3, <2>2, <3>1 DEF PutSnapshot, diskVars, pairVars, RefreshInv, Verifies
    <3>4. StoredInv'
      <4>1. ref.art \in Artifacts /\ ref.art.serial \in Nat
        BY <2>2, StoreParameters DEF Verifies
      <4>2. ASSUME ~cut PROVE ref.art.serial > accepted
        <5>1. CASE accepted = -1
          BY <4>1, <5>1
        <5>2. CASE accepted # -1
          <6>1. ReadVerified = snapFile /\ snapFile # None /\ snapFile.serial = accepted
            BY <1>3, <4>2, <5>2, StoreParameters
               DEF PutSnapshot, StoredInv, ReadVerified, Verifies
          <6> QED
            BY <2>2, <4>2, <6>1, LoadedIsVerified DEF Newer, StoredInv
        <5> QED
          BY <5>1, <5>2
      <4> QED
        BY <1>3, <3>1, <4>2 DEF PutSnapshot, diskVars, pairVars, StoredInv
    <3> QED
      BY <3>2, <3>3, <3>4
  <2> QED
    BY <2>1, <2>2
<1>4. CASE PutSig
  <2>1. UNCHANGED <<snapFile, snapStat, claimsFile, snapCache, cacheKey, origin, latest,
                    accepted, cut, blind>>
    BY <1>4 DEF PutSig, memVars
  <2>2. ref.at = "putSig"
    BY <1>4 DEF PutSig
  <2>3. CASE /\ sigFile' = ref.sig /\ sigStat' = Restat(sigStat, 2)
             /\ ref' = [ref EXCEPT !.at = "putSnap"]
    <3>1. /\ ref' \in Kept /\ ref'.at = "putSnap"
          /\ ref'.art = ref.art /\ ref'.sig = ref.sig
      BY <2>3 DEF RefreshInv, Kept
    <3>2. ref.sig \in Artifacts \cup {None}
      BY DEF RefreshInv, Kept
    <3>3. sigStat' \in Stats /\ (cacheKey # None => sigStat' # cacheKey[2])
      BY <2>3, RestatIsNew DEF CacheInv
    <3>4. CacheInv'
      BY <2>1, <3>1, <3>3 DEF CacheInv, KeyFits
    <3> QED
      BY <2>1, <2>2, <2>3, <3>1, <3>2, <3>4 DEF RefreshInv, StoredInv, Verifies
  <2>4. CASE ref' = NoRef /\ UNCHANGED <<sigFile, sigStat>>
    <3>1. ref' \in Kept /\ ref'.at = "idle"
      BY <2>4, NoRefKept
    <3> QED
      BY <2>1, <2>2, <2>4, <3>1 DEF RefreshInv, CacheInv, KeyFits, StoredInv, Verifies
  <2> QED
    BY <1>4, <2>3, <2>4 DEF PutSig
<1>5. CASE PutArtifact
  <2>1. UNCHANGED <<sigFile, sigStat, claimsFile, snapCache, cacheKey, origin, latest>>
    BY <1>5 DEF PutArtifact, memVars
  <2>2. ref.at = "putSnap"
    BY <1>5 DEF PutArtifact
  <2>3. CASE /\ snapFile' = ref.art /\ snapStat' = Restat(snapStat, 1)
             /\ accepted' = IF ref.art.serial > accepted THEN ref.art.serial ELSE accepted
             /\ ref' = [ref EXCEPT !.at = "putKey"]
             /\ blind' = FALSE
             /\ UNCHANGED cut
    <3>1. /\ ref' \in Kept /\ ref'.at = "putKey"
          /\ ref'.art = ref.art /\ ref'.sig = ref.sig
      BY <2>3 DEF RefreshInv, Kept
    <3>2. ref.art \in Signed /\ sigFile = ref.art /\ ref.art.serial \in Nat
      BY <2>2, StoreParameters DEF RefreshInv, Verifies
    <3>3. RefreshInv'
      BY <2>1, <2>2, <2>3, <3>1, <3>2, StoreParameters DEF RefreshInv, Verifies
    <3>4. snapStat' \in Stats /\ (cacheKey # None => snapStat' # cacheKey[1])
      BY <2>3, RestatIsNew DEF CacheInv
    <3>5. CacheInv'
      BY <2>1, <2>3, <3>1, <3>4 DEF CacheInv, KeyFits
    <3>6. StoredInv'
      BY <2>1, <2>2, <2>3, <3>1, <3>2 DEF StoredInv
    <3> QED
      BY <3>3, <3>5, <3>6
  <2>4. CASE /\ ref' = NoRef /\ cut' = TRUE
             /\ UNCHANGED <<snapFile, snapStat, accepted, blind>>
    <3>1. ref' \in Kept /\ ref'.at = "idle"
      BY <2>4, NoRefKept
    <3> QED
      BY <2>1, <2>4, <3>1 DEF RefreshInv, CacheInv, KeyFits, StoredInv
  <2> QED
    BY <1>5, <2>3, <2>4 DEF PutArtifact
<1>16. CASE PutKey
  <2>1. UNCHANGED <<snapFile, sigFile, snapStat, sigStat, claimsFile, origin, latest,
                    accepted, cut, blind>>
    BY <1>16 DEF PutKey, diskVars, pairVars
  <2>2. ref.at = "putKey" /\ snapCache' = ref.art /\ cacheKey' = StatKey
    BY <1>16 DEF PutKey
  <2>3. ref' \in Kept /\ ref'.at = "claims"
    BY <1>16, NoRefKept DEF PutKey, Kept
  <2>4. ref.art \in Signed /\ sigFile = ref.art
    BY <2>2 DEF RefreshInv, Verifies
  <2>5. cacheKey' \in (Stats \X Stats) \cup {None}
    BY <2>2 DEF StatKey, CacheInv
  <2>6. CacheInv'
    BY <2>1, <2>2, <2>3, <2>4, <2>5 DEF CacheInv, KeyFits
  <2>7. RefreshInv'
    BY <2>1, <2>3 DEF RefreshInv
  <2>8. StoredInv'
    BY <2>1, <2>2, <2>3 DEF StoredInv
  <2> QED
    BY <2>6, <2>7, <2>8
<1>6. CASE FetchClaims
  <2>1. ref' \in Kept /\ ref'.at \in {"idle", "putClaims"}
    <3>1. CASE origin = 0
      BY <1>6, <3>1, NoRefKept DEF FetchClaims
    <3>2. CASE origin # 0
      <4>1. Editions[origin].claims \in Seq(Claims) /\ ref \in Kept
        BY <3>2, EditionTyped DEF RefreshInv
      <4> QED
        BY <1>6, <3>2, <4>1 DEF FetchClaims, Kept
    <3> QED
      BY <3>1, <3>2
  <2> QED
    BY <1>6, <2>1, FetchedSnap DEF FetchClaims, storeVars, memVars
<1>7. CASE PutClaims
  <2>1. ref' \in Kept /\ ref'.at = "idle"
    BY <1>7, NoRefKept DEF PutClaims
  <2>2. claimsFile' \in Seq(Claims)
    BY <1>7 DEF PutClaims, RefreshInv, Kept
  <2> QED
    BY <1>7, <2>1, <2>2 DEF PutClaims, pairVars, memVars, RefreshInv, CacheInv, KeyFits,
       StoredInv
<1>8. ASSUME NEW q \in Queries, NEW n, NEW ip, AnswerLive(q, n, ip) PROVE SnapInv'
  BY <1>8, SnapUntouched DEF AnswerLive
<1>9. ASSUME NEW q \in Queries, NEW n, NEW type, FallThrough(q, n, type) PROVE SnapInv'
  BY <1>9, SnapUntouched DEF FallThrough, storeVars, diskVars, memVars
<1>10. ASSUME CachesAfterLoad, UNCHANGED <<diskVars, origin, latest, ref, accepted, cut,
                                           blind>>
       PROVE  SnapInv'
  <2>1. CacheInv'
    BY <1>10, LoadKeepsCache DEF diskVars
  <2> QED
    BY <1>10, <2>1 DEF diskVars, pairVars, RefreshInv, StoredInv, Verifies
<1>11. ASSUME NEW q \in Queries, ReadClaim(q) \/ ReadObserved(q) \/ Reply(q) PROVE SnapInv'
  BY <1>11, SnapUntouched DEF ReadClaim, ReadObserved, Reply, storeVars, diskVars, memVars
<1>12. ASSUME NEW q \in Queries, ReadSnapshot(q) PROVE SnapInv'
  BY <1>10, <1>12 DEF ReadSnapshot
<1>13. CASE StatusSnapshot
  BY <1>10, <1>13 DEF StatusSnapshot, svcVars
<1>14. CASE Tick
  BY <1>14, SnapUntouched DEF Tick, diskVars, memVars, svcVars
<1>15. ASSUME NEW e \in 0..Len(Editions), OriginChange(e) PROVE SnapInv'
  BY <1>15, ServiceParameters
     DEF OriginChange, storeVars, diskVars, pairVars, memVars, RefreshInv, CacheInv, KeyFits,
         StoredInv, Verifies
<1>17. ASSUME NEW a \in Artifacts \ Signed, NEW st \in Stats, Tamper(a, st) PROVE SnapInv'
  <2>1. /\ snapFile' = a /\ snapStat' = st /\ cut'
        /\ UNCHANGED <<sigFile, sigStat, claimsFile, snapCache, cacheKey, origin, latest,
                       ref, accepted>>
    BY <1>17 DEF Tamper, memVars
  <2>2. ~blind' => ref.at # "putKey" /\ (cacheKey # None => st # cacheKey[1])
    BY <1>17, Zenon DEF Tamper
  <2>3. CacheInv'
    BY <2>1, <2>2 DEF CacheInv, KeyFits
  <2>4. RefreshInv' /\ StoredInv'
    BY <2>1 DEF RefreshInv, StoredInv, Verifies
  <2> QED
    BY <2>3, <2>4
<1>18. CASE Crash
  <2>1. ref' \in Kept /\ ref'.at = "idle"
    BY <1>18, NoRefKept DEF Crash
  <2>2. ~cut' => ~cut /\ ref.at # "putSnap"
    BY <1>18, Zenon DEF Crash
  <2> QED
    BY <1>18, <2>1, <2>2 DEF Crash, diskVars, pairVars, RefreshInv, CacheInv, KeyFits,
       StoredInv
<1>19. CASE UNCHANGED vars
  BY <1>19, SnapUntouched DEF vars, storeVars, diskVars, memVars, svcVars
<1> QED
  BY <1>1, <1>2, <1>3, <1>4, <1>5, <1>6, <1>7, <1>8, <1>9, <1>11, <1>12, <1>13, <1>14,
     <1>15,
     <1>16, <1>17, <1>18, <1>19 DEF Next, Refresh

(***************************************************************************)
(* As long as no write was torn and nobody else wrote the files, the pair  *)
(* on disk is outside PutSnapshot the highest serial ever stored, whatever *)
(* editions the origin replays and wherever a crash falls.                 *)
(***************************************************************************)
THEOREM ReplayAlwaysBounded == Spec => []ReplayBound
<1>1. SnapInv => ReplayBound
  BY StoreParameters
     DEF SnapInv, StoredInv, ReplayBound, LockFree, ReadVerified, Verifies
<1> QED
  BY <1>1, SnapHolds, NextSnap, PTL DEF Spec

(***************************************************************************)
(* The copy in memory is used only while it is what reading and verifying  *)
(* the files again would give, for files whose size and time of writing    *)
(* have nothing to do with their contents; except after a foreign rewrite  *)
(* that no Stat can tell (loadSnapshotLocked, snapStatKey, PutSnapshot).   *)
(***************************************************************************)
THEOREM CacheAlwaysCoherent == Spec => []CacheIsCoherent
<1>1. SnapInv => CacheIsCoherent
  BY LoadedIsVerified DEF SnapInv, CacheIsCoherent, Loaded
<1> QED
  BY <1>1, SnapHolds, NextSnap, PTL DEF Spec

-----------------------------------------------------------------------------
(* The observed tier. *)

LEMMA ObservedUntouched ==
    ASSUME ObservedInv, UNCHANGED <<now, observed, lastObs, livest, missed>>
    PROVE  ObservedInv'
BY DEF ObservedInv

\* A live answer is remembered, suppressed or missed.
LEMMA LiveObserved ==
    ASSUME ObservedInv, NEW n \in Names, NEW ip \in IPs, NEW ok \in BOOLEAN,
           RecordObservation(n, ip, ok), now' = now,
           livest' = [livest EXCEPT ![n] = ip],
           ~ok => missed', ok => missed' = missed
    PROVE  ObservedInv'
<1> DEFINE new == [name |-> n, ip |-> ip, at |-> now]
           kept == {o \in observed : o.name # n /\ ~Stale(o, now)} \cup {new}
<1>1. CASE Suppressed(n, ip)
  <2>1. UNCHANGED <<observed, lastObs>>
    BY <1>1 DEF RecordObservation
  <2>2. ip = livest[n]
    BY <1>1 DEF Suppressed, ObservedInv
  <2>3. livest' = livest
    BY <2>2 DEF ObservedInv
  <2>4. ~missed' => ~missed
    OBVIOUS
  <2> QED
    BY <2>1, <2>3, <2>4 DEF ObservedInv
<1>2. CASE ~Suppressed(n, ip)
  <2>1. /\ lastObs' = [lastObs EXCEPT ![n] = [ip |-> ip, at |-> now]]
        /\ ok => observed' \in Upserts(n, ip)
        /\ ~ok => observed' = observed
    BY <1>2 DEF RecordObservation
  <2>2. ASSUME NEW m \in Names, lastObs'[m] # None PROVE lastObs'[m].ip = livest'[m]
    <3>1. CASE m = n
      BY <2>1, <3>1 DEF ObservedInv
    <3>2. CASE m # n
      BY <2>1, <2>2, <3>2 DEF ObservedInv
    <3> QED
      BY <3>1, <3>2
  <2>3. DOMAIN lastObs' = Names /\ livest' \in [Names -> IPs \cup {None}] /\ now' \in Nat
    BY <2>1 DEF ObservedInv
  <2>4. CASE ~ok
    BY <2>1, <2>2, <2>3, <2>4 DEF ObservedInv
  <2>5. CASE ok
    <3>1. observed' \subseteq kept
      BY <2>1, <2>5 DEF Upserts
    <3>2. new \in Observation /\ new.name = n /\ new.ip = ip
      BY DEF ObservedInv, Observation
    <3> HIDE DEF new
    <3>3. \A o \in kept : o = new \/ (o \in observed /\ o.name # n)
      OBVIOUS
    <3> HIDE DEF kept
    <3>4. observed' \subseteq Observation
      BY <3>1, <3>2, <3>3 DEF ObservedInv
    <3>5. \A o, p \in observed' : o.name = p.name => o = p
      BY <3>1, <3>2, <3>3 DEF ObservedInv
    <3>6. ASSUME ~missed', NEW o \in observed' PROVE o.ip = livest'[o.name]
      <4>1. CASE o = new
        BY <3>2, <4>1 DEF ObservedInv
      <4>2. CASE o \in observed /\ o.name # n
        <5>1. o.ip = livest[o.name] /\ o.name \in Names
          BY <2>5, <3>6, <4>2 DEF ObservedInv, Observation
        <5> QED
          BY <4>2, <5>1 DEF ObservedInv
      <4> QED
        BY <3>1, <3>3, <3>6, <4>1, <4>2
    <3> QED
      BY <2>2, <2>3, <3>4, <3>5, <3>6 DEF ObservedInv
  <2> QED
    BY <2>4, <2>5
<1> QED
  BY <1>1, <1>2

LEMMA NextObserved == ObservedInv /\ [Next]_vars => ObservedInv'
<1> SUFFICES ASSUME ObservedInv, [Next]_vars PROVE ObservedInv'
  OBVIOUS
<1>1. CASE Refresh
  BY <1>1, ObservedUntouched
     DEF Refresh, FetchArtifact, FetchSignature, PutSnapshot, PutSig, PutArtifact, PutKey,
         FetchClaims, PutClaims, storeVars, diskVars, memVars
<1>2. ASSUME NEW q \in Queries, NEW a \in LiveAnswers, AnswerLive(q, a[1], a[2])
      PROVE  ObservedInv'
  <2>1. a[1] \in Names /\ a[2] \in IPs
    BY ServiceParameters
  <2>2. livest' = [livest EXCEPT ![a[1]] = a[2]] /\ now' = now
    BY <1>2 DEF AnswerLive
  <2>3. CASE RecordObservation(a[1], a[2], TRUE) /\ UNCHANGED missed
    <3>1. \E ok \in BOOLEAN : ok /\ RecordObservation(a[1], a[2], ok)
      BY <2>3, Zenon
    <3> QED
      BY <2>1, <2>2, <2>3, <3>1, LiveObserved
  <2>4. CASE RecordObservation(a[1], a[2], FALSE) /\ missed' = TRUE
    <3>1. \E ok \in BOOLEAN : ~ok /\ RecordObservation(a[1], a[2], ok)
      BY <2>4, Zenon
    <3> QED
      BY <2>1, <2>2, <2>4, <3>1, LiveObserved
  <2> QED
    BY <1>2, <2>3, <2>4 DEF AnswerLive
<1>3. ASSUME NEW q \in Queries,
             \/ \E x \in Questions : FallThrough(q, x[1], x[2])
             \/ ReadSnapshot(q) \/ ReadClaim(q) \/ ReadObserved(q) \/ Reply(q)
      PROVE  ObservedInv'
  BY <1>3, ObservedUntouched
     DEF FallThrough, ReadSnapshot, ReadClaim, ReadObserved, Reply, storeVars, diskVars, memVars
<1>4. CASE StatusSnapshot
  BY <1>4, ObservedUntouched DEF StatusSnapshot, diskVars, svcVars
<1>5. CASE Tick
  BY <1>5 DEF Tick, diskVars, memVars, svcVars, ObservedInv
<1>6. ASSUME NEW e \in 0..Len(Editions), OriginChange(e) PROVE ObservedInv'
  BY <1>6, ObservedUntouched DEF OriginChange, storeVars, diskVars, memVars
<1>7. ASSUME NEW a \in Artifacts \ Signed, NEW st \in Stats, Tamper(a, st) PROVE ObservedInv'
  BY <1>7, ObservedUntouched DEF Tamper, memVars
<1>8. CASE Crash
  BY <1>8 DEF Crash, diskVars, ObservedInv
<1>9. CASE UNCHANGED vars
  BY <1>9, ObservedUntouched DEF vars, storeVars, diskVars, memVars, svcVars
<1> QED
  BY <1>1, <1>2, <1>3, <1>4, <1>5, <1>6, <1>7, <1>8, <1>9 DEF Next

(***************************************************************************)
(* While its writes succeed the observed tier never serves a binding that  *)
(* a later live answer replaced, for any window of suppression, any life   *)
(* time of a record and any cap (RecordObservation, LookupObserved).       *)
(***************************************************************************)
THEOREM ObservedAlwaysLatest == Spec => []ObservedIsLatest
<1>1. Init => ObservedInv
  BY DEF Init, StoreInit, ObservedInv
<1>2. ObservedInv => ObservedIsLatest
  <2> SUFFICES ASSUME ObservedInv, ~missed, NEW n \in Names, LookupObserved(n, now) # None
               PROVE  LookupObserved(n, now).ip = livest[n]
    BY DEF ObservedIsLatest
  <2>1. LookupObserved(n, now) \in observed /\ LookupObserved(n, now).name = n
    BY LookupObservedIsRecord DEF ObservedInv
  <2> QED
    BY <2>1 DEF ObservedInv
<1> QED
  BY <1>1, <1>2, NextObserved, PTL DEF Spec

-----------------------------------------------------------------------------
(* Queries. *)

\* One query moves.
LEMMA QueryMoves ==
    ASSUME QueryInv, NEW q \in Queries, NEW r \in Answer,
           NEW to \in {"idle", "snapshot", "claim", "observed", "answered"},
           to # "idle" => r.name \in Names,
           to = "claim" => r.snap \in Signed,
           to = "answered" => Justified(r),
           qpc' = [qpc EXCEPT ![q] = to], loc' = [loc EXCEPT ![q] = r]
    PROVE  QueryInv'
<1>1. /\ qpc' \in [Queries -> {"idle", "snapshot", "claim", "observed", "answered"}]
      /\ loc' \in [Queries -> Answer]
  BY DEF QueryInv
<1>2. ASSUME NEW p \in Queries
      PROVE  /\ qpc'[p] # "idle" => loc'[p].name \in Names
             /\ qpc'[p] = "claim" => loc'[p].snap \in Signed
             /\ qpc'[p] = "answered" => Justified(loc'[p])
  <2>1. CASE p = q
    BY <2>1 DEF QueryInv
  <2>2. CASE p # q
    BY <2>2 DEF QueryInv
  <2> QED
    BY <2>1, <2>2
<1> QED
  BY <1>1, <1>2 DEF QueryInv

\* A query finishes with an answer that is justified.
LEMMA QueryFinishes ==
    ASSUME QueryInv, NEW q \in Queries, qpc[q] # "idle",
           NEW src \in {"none", "snapshot", "claim", "observed"}, NEW ip \in Addresses,
           src = "snapshot" => /\ loc[q].snap \in Signed /\ ~Expired(loc[q].snap, loc[q].t)
                               /\ ip = loc[q].snap.rec[loc[q].name],
           src = "claim" => /\ loc[q].snap \in Signed
                            /\ \E c \in Claims : /\ c.ok /\ c.name = loc[q].name /\ c.ip = ip
                                                 /\ loc[q].t < c.issued + c.ttl
                                                 /\ c.leaf = loc[q].snap.bind[loc[q].name],
           Finish(q, src, ip)
    PROVE  QueryInv'
<1> DEFINE r == [loc[q] EXCEPT !.src = src, !.ip = ip]
<1>1. loc[q] \in Answer
  BY DEF QueryInv
<1>2. /\ r \in Answer /\ r.src = src /\ r.ip = ip
      /\ r.snap = loc[q].snap /\ r.t = loc[q].t /\ r.name = loc[q].name
  BY <1>1 DEF Answer
<1>3. qpc' = [qpc EXCEPT ![q] = "answered"] /\ loc' = [loc EXCEPT ![q] = r]
  BY DEF Finish, QueryInv
<1> HIDE DEF r
<1>4. Justified(r)
  BY <1>2 DEF Justified
<1>5. r.name \in Names
  BY <1>2 DEF QueryInv
<1> QED
  BY <1>2, <1>3, <1>4, <1>5, QueryMoves

LEMMA NoQueryTyped == NoQuery \in Answer
BY DEF NoQuery, Answer, Addresses

LEMMA NextQuery == SnapInv /\ ObservedInv /\ QueryInv /\ [Next]_vars => QueryInv'
<1> SUFFICES ASSUME SnapInv, ObservedInv, QueryInv, [Next]_vars PROVE QueryInv'
  OBVIOUS
<1>1. CASE UNCHANGED <<qpc, loc>>
  BY <1>1 DEF QueryInv
<1>2. ASSUME NEW q \in Queries, NEW x \in Questions, FallThrough(q, x[1], x[2])
      PROVE  QueryInv'
  <2> DEFINE r == [NoQuery EXCEPT !.name = x[1], !.type = x[2], !.t = now]
  <2>1. x[1] \in Names /\ x[2] \in {"A", "AAAA"} /\ now \in Nat
    BY ServiceParameters DEF ObservedInv
  <2>2. r \in Answer /\ r.name = x[1]
    BY <2>1, NoQueryTyped DEF Answer
  <2>3. qpc' = [qpc EXCEPT ![q] = "snapshot"] /\ loc' = [loc EXCEPT ![q] = r]
    BY <1>2 DEF FallThrough
  <2> HIDE DEF r
  <2> QED
    BY <2>1, <2>2, <2>3, QueryMoves
<1>3. ASSUME NEW q \in Queries, ReadSnapshot(q) PROVE QueryInv'
  <2> DEFINE r == [loc[q] EXCEPT !.snap = Loaded]
             to == IF Loaded = None THEN "observed" ELSE "claim"
  <2>1. Loaded \in Signed \cup {None}
    BY LoadedIsVerified DEF SnapInv
  <2>2. loc[q] \in Answer /\ loc[q].name \in Names
    BY <1>3 DEF QueryInv, ReadSnapshot
  <2>3. r \in Answer /\ r.name = loc[q].name /\ r.snap = Loaded
    BY <2>1, <2>2 DEF Answer
  <2>4. qpc' = [qpc EXCEPT ![q] = to] /\ loc' = [loc EXCEPT ![q] = r]
    BY <1>3 DEF ReadSnapshot, QueryInv
  <2>5. to \in {"observed", "claim"} /\ (to = "claim" => Loaded \in Signed)
    BY <2>1
  <2> HIDE DEF r, to
  <2> QED
    BY <2>2, <2>3, <2>4, <2>5, QueryMoves
<1>4. ASSUME NEW q \in Queries, ReadClaim(q) PROVE QueryInv'
  <2> DEFINE n == loc[q].name
             s == loc[q].snap
             t == loc[q].t
             c == LookupClaim(n, s, t)
  <2>1. n \in Names /\ s \in Signed /\ t \in Nat /\ loc[q] \in Answer /\ claimsFile \in Seq(Claims)
    BY <1>4 DEF QueryInv, ReadClaim, Answer, SnapInv, RefreshInv
  <2>2. CASE c # None /\ FamilyFits(c.ip, loc[q].type)
    <3>1. c \in Claims /\ c.name = n /\ VerifyClaim(c, s, t)
      BY <2>1, <2>2, LookupClaimIsValid
    <3>2. Finish(q, "claim", c.ip) /\ qpc[q] = "claim"
      BY <1>4, <2>2 DEF ReadClaim
    <3> HIDE DEF c
    <3>3. c.ip \in Addresses
      BY <3>1 DEF Addresses
    <3>4. c.ok /\ t < c.issued + c.ttl /\ c.leaf = s.bind[n]
      BY <3>1 DEF VerifyClaim
    <3> QED
      BY <2>1, <3>1, <3>2, <3>3, <3>4, QueryFinishes
  <2>3. CASE ~(c # None /\ FamilyFits(c.ip, loc[q].type))
    <3>1. qpc' = [qpc EXCEPT ![q] = "observed"] /\ loc' = loc
      BY <1>4, <2>3 DEF ReadClaim
    <3>2. loc' = [loc EXCEPT ![q] = loc[q]]
      BY <3>1 DEF QueryInv
    <3> HIDE DEF c
    <3> QED
      BY <2>1, <3>1, <3>2, QueryMoves
  <2> QED
    BY <2>2, <2>3
<1>5. ASSUME NEW q \in Queries, ReadObserved(q) PROVE QueryInv'
  <2> DEFINE n == loc[q].name
             s == loc[q].snap
             t == loc[q].t
             o == LookupObserved(n, t)
             ans == PickFallback(s, o, n, t)
  <2>1. n \in Names /\ s \in Signed \cup {None} /\ t \in Nat /\ loc[q] \in Answer
    BY <1>5 DEF QueryInv, ReadObserved, Answer
  <2>2. o # None => o.ip \in IPs
    BY <2>1, LookupObservedIsRecord DEF ObservedInv, Observation
  <2>3. qpc[q] = "observed"
    BY <1>5 DEF ReadObserved
  <2>4. CASE ans.src # "none" /\ FamilyFits(ans.ip, loc[q].type)
    <3>1. Finish(q, ans.src, ans.ip)
      BY <1>5, <2>4 DEF ReadObserved
    <3> HIDE DEF o
    <3>2. /\ ans.src \in {"none", "snapshot", "observed"}
          /\ ans.src = "snapshot" => s # None /\ ~Expired(s, t) /\ ans.ip = s.rec[n]
          /\ ans.src = "observed" => o # None /\ ans.ip = o.ip
      BY DEF PickFallback
    <3> HIDE DEF ans
    <3>3. ans.src = "snapshot" => s \in Signed /\ ans.ip \in IPs \cup {None}
      BY <2>1, <3>2, StoreParameters
    <3>4. ans.ip \in Addresses
      BY <2>2, <2>4, <3>2, <3>3 DEF Addresses
    <3> QED
      BY <2>1, <2>3, <3>1, <3>2, <3>3, <3>4, QueryFinishes
  <2>5. CASE ~(ans.src # "none" /\ FamilyFits(ans.ip, loc[q].type))
    <3>1. Finish(q, "none", None)
      BY <1>5, <2>5 DEF ReadObserved
    <3> HIDE DEF ans
    <3>2. None \in Addresses
      BY DEF Addresses
    <3> QED
      BY <2>3, <3>1, <3>2, QueryFinishes
  <2> QED
    BY <2>4, <2>5
<1>6. ASSUME NEW q \in Queries, Reply(q) PROVE QueryInv'
  BY <1>6, NoQueryTyped, QueryMoves DEF Reply
<1>7. CASE Crash
  BY <1>7, NoQueryTyped DEF Crash, QueryInv
<1>8. CASE UNCHANGED vars
  BY <1>8, <1>1 DEF vars, svcVars
<1>9. CASE Refresh
  BY <1>9, <1>1
     DEF Refresh, FetchArtifact, FetchSignature, PutSnapshot, PutSig, PutArtifact, PutKey,
         FetchClaims, PutClaims
<1>10. ASSUME NEW q \in Queries, NEW a \in LiveAnswers, AnswerLive(q, a[1], a[2])
       PROVE  QueryInv'
  BY <1>10, <1>1 DEF AnswerLive
<1>11. CASE StatusSnapshot \/ Tick
  BY <1>11, <1>1 DEF StatusSnapshot, Tick, svcVars
<1>12. ASSUME NEW e \in 0..Len(Editions), OriginChange(e) PROVE QueryInv'
  BY <1>12, <1>1 DEF OriginChange
<1>13. ASSUME NEW a \in Artifacts \ Signed, NEW st \in Stats, Tamper(a, st) PROVE QueryInv'
  BY <1>13, <1>1 DEF Tamper
<1> QED
  BY <1>2, <1>3, <1>4, <1>5, <1>6, <1>7, <1>8, <1>9, <1>10, <1>11, <1>12, <1>13 DEF Next

(***************************************************************************)
(* An address served from a fallback tier is covered by a signed artifact: *)
(* as its record, not expired at the query's time, or as a claim in force  *)
(* of the anchor to which the artifact binds that name, whatever was torn, *)
(* tampered with or raced on the way (Forwarder.handle).                   *)
(***************************************************************************)
THEOREM AnswersAlwaysJustified == Spec => []AnswersAreJustified
<1>1. Init => ObservedInv /\ QueryInv
  BY NoQueryTyped DEF Init, StoreInit, ObservedInv, QueryInv
<1>2. QueryInv => AnswersAreJustified
  BY DEF QueryInv, Justified, AnswersAreJustified
<1> QED
  BY <1>1, <1>2, SnapHolds, NextSnap, NextObserved, NextQuery, PTL DEF Spec

=============================================================================
