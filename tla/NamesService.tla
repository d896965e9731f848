---------------------------- MODULE NamesService ----------------------------
(***************************************************************************)
(* The names subsystem at work (internal/names: refresh.go, service.go,    *)
(* forwarder.go): the refresh loop that fetches snapshot, signature and    *)
(* claims in three GETs and stores them, the queries the forwarder answers *)
(* live first and from the store otherwise, and the status call, all over  *)
(* one NamesStore, with failing writes, crashes and foreign writes.        *)
(*                                                                         *)
(* A query is a goroutine of its own.  One step is a GET, a write, or a    *)
(* section under the store's lock; LookupClaim reads without the lock.     *)
(* Left out: the wire format, counters and log lines, the listener         *)
(* (HostDns).                                                              *)
(***************************************************************************)
EXTENDS NamesStore

CONSTANTS
    Queries,        \* goroutines that answer a query
    Editions,       \* what the origin publishes: [art, claims], in publication order
    Faults,         \* subset of {"io", "crash", "tamper"}
    MaxFaults,      \* bound on faults
    V6,             \* the addresses of family 6
    LiveAnswers,    \* what the upstreams may answer: pairs of a name and an address
    Questions       \* what is asked while they do not: pairs of a name and a type

ASSUME ServiceParameters ==
    /\ Editions \in Seq([art : Artifacts, claims : Seq(Claims)]) /\ Editions # <<>>
    /\ Faults \subseteq {"io", "crash", "tamper"} /\ MaxFaults \in Nat
    /\ V6 \subseteq IPs
    /\ LiveAnswers \subseteq Names \X IPs /\ Questions \subseteq Names \X {"A", "AAAA"}

VARIABLES
    origin,         \* get.<site>: index of the edition it serves, 0 while unreachable
    latest,         \* the newest edition published
    ref,            \* refresh loop: place, artifact and signature fetched
    qpc, loc,       \* queries: place; question, time and snapshot they work with, answer
    accepted,       \* history: highest serial PutSnapshot stored, -1 for none
    cut,            \* history: the pair was torn or rewritten by somebody else
    blind,          \* history: somebody else rewrote the artifact so that no Stat can
                    \* tell, with the size and time of the cache key or before the key
                    \* was taken
    missed,         \* history: a write of the observed tier failed
    livest,         \* history: the latest live address per name
    faults

svcVars == <<origin, latest, ref, qpc, loc, accepted, cut, blind,
                   missed, livest, faults>>
vars == <<storeVars, svcVars>>

NoRef == [at |-> "idle", art |-> None, sig |-> None, claims |-> <<>>]
NoQuery == [name |-> None, type |-> None, t |-> 0, snap |-> None, src |-> "none", ip |-> None]

Init ==
    /\ StoreInit
    /\ origin = 1 /\ latest = 1
    /\ ref = NoRef
    /\ qpc = [q \in Queries |-> "idle"] /\ loc = [q \in Queries |-> NoQuery]
    /\ accepted = -1 /\ cut = FALSE /\ blind = FALSE /\ missed = FALSE
    /\ livest = [n \in Names |-> None]
    /\ faults = 0

Fault(f) == f \in Faults /\ faults < MaxFaults /\ faults' = faults + 1

\* From its first write to its last statement PutSnapshot holds the store's lock.
LockFree == ref.at \notin {"putSig", "putSnap", "putKey"}

-----------------------------------------------------------------------------
(* Refresh.                                                                *)

\* The first GET; refreshLoop's tick.  A failed GET ends the attempt.
FetchArtifact ==
    /\ ref.at = "idle" /\ origin # 0
    /\ ref' = [NoRef EXCEPT !.at = "sig", !.art = Editions[origin].art]
    /\ UNCHANGED <<storeVars, origin, latest, qpc, loc, accepted, cut, blind,
                   missed, livest, faults>>

\* The second GET: the origin may have moved on in between.
FetchSignature ==
    /\ ref.at = "sig"
    /\ ref' = IF origin = 0 THEN NoRef
              ELSE [ref EXCEPT !.at = "put", !.sig = Editions[origin].art]
    /\ UNCHANGED <<storeVars, origin, latest, qpc, loc, accepted, cut, blind,
                   missed, livest, faults>>

\* PutSnapshot up to its first write: an unverified or not newer pair ends Refresh.
PutSnapshot ==
    /\ ref.at = "put"
    /\ IF Verifies(ref.art, ref.sig)
       THEN /\ CachesAfterLoad
            /\ ref' = IF Newer(ref.art) THEN [ref EXCEPT !.at = "putSig"] ELSE NoRef
       ELSE /\ ref' = NoRef
            /\ UNCHANGED <<snapCache, cacheKey>>
    /\ UNCHANGED <<diskVars, lastObs, now, origin, latest, qpc, loc, accepted, cut, blind,
                   missed, livest, faults>>

PutSig ==
    /\ ref.at = "putSig"
    /\ \/ /\ sigFile' = ref.sig /\ sigStat' = Restat(sigStat, 2)
          /\ ref' = [ref EXCEPT !.at = "putSnap"]
          /\ UNCHANGED faults
       \/ /\ Fault("io")
          /\ ref' = NoRef
          /\ UNCHANGED <<sigFile, sigStat>>
    /\ UNCHANGED <<snapFile, snapStat, claimsFile, observed, memVars, now, origin, latest,
                   qpc, loc, accepted, cut, blind, missed, livest>>

\* The artifact last.
PutArtifact ==
    /\ ref.at = "putSnap"
    /\ \/ /\ snapFile' = ref.art /\ snapStat' = Restat(snapStat, 1)
          /\ accepted' = IF ref.art.serial > accepted THEN ref.art.serial ELSE accepted
          /\ ref' = [ref EXCEPT !.at = "putKey"]
          /\ blind' = FALSE
          /\ UNCHANGED <<faults, cut>>
       \/ /\ Fault("io")
          /\ ref' = NoRef /\ cut' = TRUE
          /\ UNCHANGED <<snapFile, snapStat, accepted, blind>>
    /\ UNCHANGED <<sigFile, sigStat, claimsFile, observed, memVars, now, origin, latest,
                   qpc, loc, missed, livest>>

\* The verified copy in memory becomes the new one, under the key that the files have
\* by now: the lock keeps out nobody but this process.
PutKey ==
    /\ ref.at = "putKey"
    /\ snapCache' = ref.art /\ cacheKey' = StatKey
    /\ ref' = [NoRef EXCEPT !.at = "claims"]
    /\ UNCHANGED <<diskVars, lastObs, now, origin, latest, qpc, loc, accepted, cut, blind,
                   missed, livest, faults>>

\* The third GET, only after a newer snapshot was stored.
FetchClaims ==
    /\ ref.at = "claims"
    /\ ref' = IF origin = 0 THEN NoRef
              ELSE [ref EXCEPT !.at = "putClaims", !.claims = Editions[origin].claims]
    /\ UNCHANGED <<storeVars, origin, latest, qpc, loc, accepted, cut, blind,
                   missed, livest, faults>>

PutClaims ==
    /\ ref.at = "putClaims"
    /\ ref' = NoRef
    /\ \/ claimsFile' = ref.claims /\ UNCHANGED faults
       \/ Fault("io") /\ UNCHANGED claimsFile
    /\ UNCHANGED <<pairVars, observed, memVars, now, origin, latest, qpc, loc, accepted,
                   cut, blind, missed, livest>>

-----------------------------------------------------------------------------
(* Queries.                                                                *)

\* A definitive upstream answer is relayed; an address is remembered first.
AnswerLive(q, n, ip) ==
    /\ qpc[q] = "idle" /\ LockFree
    /\ \/ RecordObservation(n, ip, TRUE) /\ UNCHANGED <<faults, missed>>
       \/ Fault("io") /\ RecordObservation(n, ip, FALSE) /\ missed' = TRUE
    /\ livest' = [livest EXCEPT ![n] = ip]
    /\ UNCHANGED <<pairVars, claimsFile, snapCache, cacheKey, now, origin, latest, ref,
                   qpc, loc, accepted, cut, blind>>

\* No upstream answers, or with SERVFAIL or nothing: the fallback tiers, for
\* addresses only.
FallThrough(q, n, type) ==
    /\ qpc[q] = "idle"
    /\ qpc' = [qpc EXCEPT ![q] = "snapshot"]
    /\ loc' = [loc EXCEPT ![q] = [NoQuery EXCEPT !.name = n, !.type = type, !.t = now]]
    /\ UNCHANGED <<storeVars, origin, latest, ref, accepted, cut, blind, missed,
                   livest, faults>>

ReadSnapshot(q) ==
    /\ qpc[q] = "snapshot" /\ LockFree
    /\ CachesAfterLoad
    /\ loc' = [loc EXCEPT ![q].snap = Loaded]
    /\ qpc' = [qpc EXCEPT ![q] = IF Loaded = None THEN "observed" ELSE "claim"]
    /\ UNCHANGED <<diskVars, lastObs, now, origin, latest, ref, accepted, cut, blind,
                   missed, livest, faults>>

FamilyFits(ip, type) == (ip \in V6) = (type = "AAAA")

Finish(q, src, ip) ==
    /\ qpc' = [qpc EXCEPT ![q] = "answered"]
    /\ loc' = [loc EXCEPT ![q].src = src, ![q].ip = ip]

\* A valid claim of the question's family answers; any other falls through.
ReadClaim(q) ==
    /\ qpc[q] = "claim"
    /\ LET c == LookupClaim(loc[q].name, loc[q].snap, loc[q].t)
       IN  IF c # None /\ FamilyFits(c.ip, loc[q].type)
           THEN Finish(q, "claim", c.ip)
           ELSE /\ qpc' = [qpc EXCEPT ![q] = "observed"]
                /\ UNCHANGED loc
    /\ UNCHANGED <<storeVars, origin, latest, ref, accepted, cut, blind, missed,
                   livest, faults>>

\* The observation is read under the lock; an answer of the other family is empty.
ReadObserved(q) ==
    /\ qpc[q] = "observed" /\ LockFree
    /\ LET ans == PickFallback(loc[q].snap, LookupObserved(loc[q].name, loc[q].t),
                               loc[q].name, loc[q].t)
       IN  IF ans.src # "none" /\ FamilyFits(ans.ip, loc[q].type)
           THEN Finish(q, ans.src, ans.ip)
           ELSE Finish(q, "none", None)
    /\ UNCHANGED <<storeVars, origin, latest, ref, accepted, cut, blind, missed,
                   livest, faults>>

\* The reply goes out.
Reply(q) ==
    /\ qpc[q] = "answered"
    /\ qpc' = [qpc EXCEPT ![q] = "idle"] /\ loc' = [loc EXCEPT ![q] = NoQuery]
    /\ UNCHANGED <<storeVars, origin, latest, ref, accepted, cut, blind, missed,
                   livest, faults>>

\* StatusSnapshot: reads, and refreshes the verified copy on the way.
StatusSnapshot ==
    /\ LockFree
    /\ CachesAfterLoad
    /\ UNCHANGED <<diskVars, lastObs, now, svcVars>>

-----------------------------------------------------------------------------
(* The world around it.                                                    *)

Tick ==
    /\ now < MaxTime
    /\ now' = now + 1
    /\ UNCHANGED <<diskVars, memVars, svcVars>>

\* The origin publishes the next edition, serves an older one again, or is lost.
OriginChange(e) ==
    /\ e # origin /\ e <= latest + 1
    /\ origin' = e /\ latest' = IF e > latest THEN e ELSE latest
    /\ UNCHANGED <<storeVars, ref, qpc, loc, accepted, cut, blind,
                   missed, livest, faults>>

\* Somebody else rewrites the artifact with bytes that no root signed, and any size
\* and time; the store's lock does not stop them.
Tamper(a, st) ==
    /\ Fault("tamper") /\ a # snapFile
    /\ snapFile' = a /\ snapStat' = st
    /\ cut' = TRUE
    /\ blind' = (blind \/ ref.at = "putKey" \/ (cacheKey # None /\ st = cacheKey[1]))
    /\ UNCHANGED <<sigFile, sigStat, claimsFile, observed, memVars, now, origin, latest,
                   ref, qpc, loc, accepted, missed, livest>>

\* The daemon dies and starts again with what is on disk.
Crash ==
    /\ Fault("crash")
    /\ snapCache' = None /\ cacheKey' = None
    /\ lastObs' = [n \in Names |-> None]
    /\ cut' = (cut \/ ref.at = "putSnap") /\ blind' = FALSE
    /\ ref' = NoRef
    /\ qpc' = [q \in Queries |-> "idle"] /\ loc' = [q \in Queries |-> NoQuery]
    /\ UNCHANGED <<diskVars, now, origin, latest, accepted, missed, livest>>

Refresh == FetchArtifact \/ FetchSignature \/ PutSnapshot \/ PutSig \/ PutArtifact
             \/ PutKey \/ FetchClaims \/ PutClaims

Next ==
    \/ Refresh
    \/ \E q \in Queries :
          \/ \E a \in LiveAnswers : AnswerLive(q, a[1], a[2])
          \/ \E x \in Questions : FallThrough(q, x[1], x[2])
          \/ ReadSnapshot(q) \/ ReadClaim(q) \/ ReadObserved(q) \/ Reply(q)
    \/ StatusSnapshot
    \/ Tick
    \/ \E e \in 0..Len(Editions) : OriginChange(e)
    \/ \E a \in Artifacts \ Signed, st \in Stats : Tamper(a, st)
    \/ Crash

\* The ticker fires and GETs return; nothing is assumed of the origin or of faults.
Spec == Init /\ [][Next]_vars /\ WF_vars(Refresh)

-----------------------------------------------------------------------------
(* Properties.                                                             *)

\* Whatever was torn, tampered with or raced on the way, an address served from a
\* fallback tier is covered: a snapshot answer is a record of a signed artifact that
\* had not expired when the query looked at the clock, and a claim answer is in force
\* and signed by the anchor to which a signed artifact binds that very name (Forwarder.handle).
AnswersAreJustified ==
    \A q \in Queries : qpc[q] = "answered" =>
        LET r == loc[q] IN
        /\ r.src = "snapshot" => /\ r.snap \in Signed /\ ~Expired(r.snap, r.t)
                                 /\ r.ip = r.snap.rec[r.name]
        /\ r.src = "claim" => /\ r.snap \in Signed
                              /\ \E c \in Claims : /\ c.ok /\ c.name = r.name /\ c.ip = r.ip
                                                   /\ r.t < c.issued + c.ttl
                                                   /\ c.leaf = r.snap.bind[r.name]

\* The replay bound: as long as no write was torn and nobody else wrote the files,
\* the pair on disk is, outside PutSnapshot, the highest serial ever stored, so a
\* restart comes back with it (Store.PutSnapshot).
ReplayBound ==
    ~cut /\ LockFree =>
        IF accepted < 0 THEN snapFile = None
        ELSE ReadVerified # None /\ ReadVerified.serial = accepted

\* The verified copy is used only while it is what reading and verifying the files
\* again would give: a rewrite of either file, torn or foreign, makes the next read
\* verify.  The exceptions are the rewrites that no Stat can tell: a foreign one that
\* keeps size and time, or one after PutSnapshot's rename and before its Stat
\* (Store.loadSnapshotLocked, Store.snapStatKey, Store.PutSnapshot).
CacheIsCoherent == LockFree /\ CacheHit /\ ~blind => snapCache = ReadVerified

\* While its writes succeed the observed tier never serves a binding that a later
\* live answer replaced, however suppression, expiry and the cap interleave
\* (Store.RecordObservation, Store.LookupObserved).
ObservedIsLatest ==
    ~missed => \A n \in Names : LET o == LookupObserved(n, now)
                                IN  o # None => o.ip = livest[n]

\* Once the origin settles on its newest edition, the store ends up serving its
\* snapshot, or one as new, past torn writes and crashes; and from the disk, unless a
\* rewrite that no Stat can tell hides behind the copy in memory (Service.refreshLoop).
Settled == origin = latest /\ Editions[latest].art \in Signed
RefreshConverges ==
    <>[]Settled => <>[](/\ Loaded # None /\ Loaded.serial >= Editions[latest].art.serial
                        /\ blind \/ Loaded = ReadVerified)

=============================================================================
