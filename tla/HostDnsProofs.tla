---------------------------- MODULE HostDnsProofs ---------------------------
(***************************************************************************)
(* The safety properties of HostDns for any number of connections,         *)
(* configurations, health changes and calls, for every length of the       *)
(* ladder and every capability of the host adapter; and those of           *)
(* DnsAdapters, which is what HostDns sees of the host, for any            *)
(* configurations, domains, limits and faults.                             *)
(***************************************************************************)
EXTENDS HostDns, DnsAdapters, NaturalsInduction, WellFoundedInduction, TLAPS

USE HostDnsAssumption

(* What a goroutine's place says of the configuration it works with.       *)
HasConfig(at, c) == at \in {"record", "choose", "fronted", "direct"} => c \in Configs

TypeInv ==
    /\ TypeOK
    /\ \A a \in Actors : HasConfig(pc[a], loc[a])

(***************************************************************************)
(* While no two of them ran at once and the adapter obeyed: at most one    *)
(* goroutine is at work; with nobody at work the host is settled, and how  *)
(* far the one at work has got says what is left to do.                    *)
(***************************************************************************)
Calm == ~overlap /\ ~failed

Alone == \A a, b \in Actors : pc[a] # "idle" /\ pc[b] # "idle" => a = b

Settled ==
    IF lastDNS = None THEN host = None
    ELSE /\ host # None /\ host.cfg = lastDNS
         /\ host.kind = "fronted" => healthy /\ upstreams = lastDNS

Track(a) ==
    /\ pc[a] = "record" => loc[a] = upstreams
    /\ pc[a] = "stateRead" => (lastDNS = None => host = None)
    /\ pc[a] \in {"choose", "fronted", "direct"} => loc[a] = lastDNS
    /\ pc[a] = "fronted" => healthy
    /\ pc[a] = "restore" => lastDNS = None

HostInv ==
    Calm => /\ Alone
            /\ (lastDNS # None /\ \A a \in Actors : pc[a] # "record") => upstreams = lastDNS
            /\ Quiet => Settled
            /\ \A a \in Actors : Track(a)

-----------------------------------------------------------------------------
(* Types. *)

LEMMA ActorsTyped ==
    /\ Conns \subseteq Actors
    /\ \A k \in 0..MaxChanges : k < MaxChanges => k + 1 \in Actors
BY DEF Actors, Callbacks

(* One goroutine moves. *)
LEMMA MovesTyped ==
    ASSUME TypeInv, NEW a \in Actors, NEW c \in Configs \cup {None},
           NEW to \in {"idle", "record", "stateRead", "choose", "fronted", "direct", "restore"},
           HasConfig(to, c),
           pc' = [pc EXCEPT ![a] = to], loc' = [loc EXCEPT ![a] = c]
    PROVE  /\ pc' \in [Actors -> {"idle", "record", "stateRead", "choose", "fronted", "direct",
                                  "restore"}]
           /\ loc' \in [Actors -> Configs \cup {None}]
           /\ \A b \in Actors : HasConfig(pc'[b], loc'[b])
BY DEF TypeInv, TypeOK

LEMMA InitTyped == Init => TypeInv
<1> SUFFICES ASSUME Init PROVE TypeInv
  OBVIOUS
<1>1. healthy \in BOOLEAN /\ portFree \in BOOLEAN /\ overlap \in BOOLEAN /\ failed \in BOOLEAN
  BY Zenon DEF Init
<1> QED
  BY <1>1 DEF Init, TypeInv, TypeOK, HasConfig

LEMMA SetHealthyTyped ==
    ASSUME TypeInv, NEW up \in BOOLEAN, SetHealthy(up)
    PROVE  /\ healthy' \in BOOLEAN /\ changes' \in 0..MaxChanges /\ overlap' \in BOOLEAN
           /\ pc' \in [Actors -> {"idle", "record", "stateRead", "choose", "fronted", "direct",
                                  "restore"}]
           /\ loc' \in [Actors -> Configs \cup {None}]
           /\ \A b \in Actors : HasConfig(pc'[b], loc'[b])
<1>1. healthy' \in BOOLEAN
  BY DEF SetHealthy
<1>2. \/ /\ changes < MaxChanges /\ changes' = changes + 1 /\ overlap' \in BOOLEAN
         /\ pc' = [pc EXCEPT ![changes + 1] = "stateRead"]
         /\ loc' = [loc EXCEPT ![changes + 1] = None]
      \/ UNCHANGED <<changes, pc, loc, overlap>>
  BY Zenon DEF SetHealthy, Begin
<1>3. HasConfig("stateRead", None)
  BY DEF HasConfig
<1>4. CASE changes' = changes + 1
  <2>1. /\ changes + 1 \in Actors /\ changes' \in 0..MaxChanges /\ overlap' \in BOOLEAN
        /\ pc' = [pc EXCEPT ![changes + 1] = "stateRead"]
        /\ loc' = [loc EXCEPT ![changes + 1] = None]
    BY <1>2, <1>4, ActorsTyped DEF TypeInv, TypeOK
  <2> QED
    BY <1>1, <1>3, <2>1, MovesTyped
<1>5. CASE UNCHANGED <<changes, pc, loc, overlap>>
  BY <1>1, <1>5 DEF TypeInv, TypeOK
<1> QED
  BY <1>2, <1>4, <1>5

LEMMA NextTyped == TypeInv /\ [Next]_vars => TypeInv'
<1> SUFFICES ASSUME TypeInv, [Next]_vars PROVE TypeInv'
  OBVIOUS
<1> USE DEF TypeInv
<1>0. HasConfig("idle", None) /\ HasConfig("restore", None)
  BY DEF HasConfig
<1>1. ASSUME ServeEnds \/ RebindFails \/ PortChange PROVE TypeInv'
  <2>1. rung' \in 0..Rungs
    BY <1>1 DEF ServeEnds, RebindFails, NextRung, PortChange, TypeOK
  <2>2. portFree' \in BOOLEAN /\ fwd' \in {"off", "serving", "rebinding"}
    BY <1>1 DEF ServeEnds, RebindFails, PortChange, TypeOK
  <2>3. UNCHANGED <<healthy, upstreams, lastDNS, host, pc, loc, changes, calls, overlap,
                    failed>>
    BY <1>1 DEF ServeEnds, RebindFails, PortChange, histVars
  <2> QED
    BY <2>1, <2>2, <2>3 DEF TypeOK
<1>2. ASSUME LadderExhausted PROVE TypeInv'
  BY <1>2, SetHealthyTyped DEF LadderExhausted, TypeOK
<1>3. ASSUME Rebinds PROVE TypeInv'
  BY <1>3, SetHealthyTyped DEF Rebinds, TypeOK
<1>4. ASSUME NEW c \in Conns, NEW cfg \in Configs, ApplyDNS(c, cfg) PROVE TypeInv'
  <2>1. HasConfig("record", cfg) /\ c \in Actors
    BY ActorsTyped DEF HasConfig
  <2> QED
    <3>1. overlap' \in BOOLEAN
      BY <1>4 DEF ApplyDNS, Begin
    <3>2. calls' \in 0..MaxCalls
      BY <1>4 DEF ApplyDNS, TypeOK
    <3> QED
      BY <1>4, <2>1, <3>1, <3>2, MovesTyped DEF ApplyDNS, Begin, TypeOK, fwdVars
<1>5. ASSUME NEW c \in Conns, RestoreDNS(c) PROVE TypeInv'
  <2>1. overlap' \in BOOLEAN
    BY <1>5 DEF RestoreDNS, Begin
  <2>2. calls' \in 0..MaxCalls
    BY <1>5 DEF RestoreDNS, TypeOK
  <2> QED
    BY <1>0, <1>5, <2>1, <2>2, MovesTyped, ActorsTyped DEF RestoreDNS, Begin, TypeOK,
       fwdVars
<1>6. ASSUME NEW a \in Actors, Record(a) \/ Choose(a) PROVE TypeInv'
  <2>1. loc[a] \in Configs
    BY <1>6 DEF Record, Choose, HasConfig
  <2>2. PICK to \in {"choose", "fronted", "direct"} : Goto(a, to, loc[a])
    BY <1>6 DEF Record, Choose, Variant
  <2>3. HasConfig(to, loc[a])
    BY <2>1 DEF HasConfig
  <2> QED
    BY <1>6, <2>1, <2>2, <2>3, MovesTyped DEF Record, Choose, Goto, TypeOK, fwdVars,
       histVars
<1>7. ASSUME NEW a \in Actors, StateRead(a) PROVE TypeInv'
  <2>1. PICK to \in {"idle", "choose"}, c \in Configs \cup {None} : Goto(a, to, c) /\ HasConfig(to, c)
    BY <1>0, <1>7 DEF StateRead, Done, TypeOK, HasConfig
  <2> QED
    BY <1>7, <2>1, MovesTyped DEF StateRead, Goto, TypeOK, fwdVars, histVars
<1>8. ASSUME NEW a \in Actors, ApplyFronted(a) PROVE TypeInv'
  <2>1. loc[a] \in Configs /\ [kind |-> "fronted", cfg |-> loc[a]] \in Resolver
    BY <1>8 DEF ApplyFronted, HasConfig, Resolver
  <2>2. PICK to \in {"idle", "direct"}, c \in Configs \cup {None} : Goto(a, to, c) /\ HasConfig(to, c)
    BY <1>0, <1>8, <2>1 DEF ApplyFronted, Done, TypeOK, HasConfig
  <2> QED
    BY <1>8, <2>1, <2>2, MovesTyped DEF ApplyFronted, Goto, TypeOK, fwdVars, histVars
<1>9. ASSUME NEW a \in Actors, ApplyDirect(a) \/ Restore(a) PROVE TypeInv'
  <2>1. pc[a] = "direct" => [kind |-> "direct", cfg |-> loc[a]] \in Resolver
    BY DEF HasConfig, Resolver
  <2> QED
    BY <1>0, <1>9, <2>1, MovesTyped DEF ApplyDirect, Restore, Done, Goto, TypeOK, fwdVars
<1>10. CASE UNCHANGED vars
  BY <1>10 DEF vars, TypeOK
<1> QED
  BY <1>1, <1>2, <1>3, <1>4, <1>5, <1>6, <1>7, <1>8, <1>9, <1>10 DEF Next, Supervise, Work

(***************************************************************************)
(* The forwarder, the daemon's record and the installed resolver keep      *)
(* their types, and no goroutine works on a configuration it does not have.*)
(***************************************************************************)
THEOREM HostDnsTypeCorrect == Spec => []TypeOK
<1>1. TypeInv => TypeOK
  BY DEF TypeInv
<1> QED
  BY <1>1, InitTyped, NextTyped, PTL DEF Spec

-----------------------------------------------------------------------------
(***************************************************************************)
(* Whoever finds the forwarder serving finds its health flag set           *)
(* (Forwarder.supervise, setHealthy), on whatever rung it came back.       *)
(***************************************************************************)
THEOREM ServingAlwaysHealthy == Spec => []ServingIsHealthy
<1>1. Init => ServingIsHealthy
  BY DEF Init, ServingIsHealthy
<1>2. ServingIsHealthy /\ [Next]_vars => ServingIsHealthy'
  <2> SUFFICES ASSUME ServingIsHealthy, [Next]_vars PROVE ServingIsHealthy'
    OBVIOUS
  <2> USE DEF ServingIsHealthy
  <2>1. ASSUME ServeEnds \/ RebindFails \/ PortChange PROVE ServingIsHealthy'
    BY <2>1 DEF ServeEnds, RebindFails, PortChange
  <2>2. ASSUME LadderExhausted \/ Rebinds PROVE ServingIsHealthy'
    BY <2>2 DEF LadderExhausted, Rebinds, SetHealthy
  <2>3. ASSUME NEW c \in Conns, (\E cfg \in Configs : ApplyDNS(c, cfg)) \/ RestoreDNS(c)
        PROVE  ServingIsHealthy'
    BY <2>3 DEF ApplyDNS, RestoreDNS, fwdVars
  <2>4. ASSUME NEW a \in Actors, Work(a) PROVE ServingIsHealthy'
    BY <2>4 DEF Work, Record, StateRead, Choose, ApplyFronted, ApplyDirect, Restore, fwdVars
  <2>5. CASE UNCHANGED vars
    BY <2>5 DEF vars
  <2> QED
    BY <2>1, <2>2, <2>3, <2>4, <2>5 DEF Next, Supervise
<1> QED
  BY <1>1, <1>2, PTL DEF Spec

-----------------------------------------------------------------------------
(* The host and the forwarder. *)

(* It is enough to follow the one goroutine that is, or was, at work. *)
LEMMA HostFollowed ==
    ASSUME NEW a \in Actors,
           Calm' => /\ \A b \in Actors \ {a} : pc'[b] = "idle"
                    /\ lastDNS' # None /\ pc'[a] # "record" => upstreams' = lastDNS'
                    /\ pc'[a] = "idle" => Settled'
                    /\ Track(a)'
    PROVE  HostInv'
<1> SUFFICES ASSUME Calm'
             PROVE  (/\ Alone
                     /\ (lastDNS # None /\ \A b \in Actors : pc[b] # "record")
                            => upstreams = lastDNS
                     /\ Quiet => Settled
                     /\ \A b \in Actors : Track(b))'
  BY DEF HostInv
<1>1. ASSUME NEW b \in Actors \ {a} PROVE Track(b)'
  BY <1>1 DEF Track
<1> QED
  BY <1>1 DEF Alone, Quiet

LEMMA HostUntouched ==
    ASSUME HostInv, UNCHANGED <<healthy, upstreams, lastDNS, host, pc, loc, overlap, failed>>
    PROVE  HostInv'
<1>1. \A a \in Actors : Track(a) => Track(a)'
  BY DEF Track
<1> QED
  BY <1>1 DEF HostInv, Calm, Alone, Quiet, Settled

(* A goroutine that begins undisturbed finds nobody at work. *)
LEMMA BeginsAlone ==
    ASSUME TypeInv, HostInv, NEW a \in Actors, NEW at, NEW c, Begin(a, at, c), failed' = failed
    PROVE  /\ pc'[a] = at /\ loc'[a] = c
           /\ Calm' => /\ Calm /\ Settled /\ (lastDNS # None => upstreams = lastDNS)
                       /\ \A b \in Actors \ {a} : pc'[b] = "idle"
<1>1. pc'[a] = at /\ loc'[a] = c /\ \A b \in Actors \ {a} : pc'[b] = pc[b]
  BY DEF Begin, TypeInv, TypeOK
<1>2. Calm' => Calm /\ Quiet
  BY DEF Begin, Calm, Quiet
<1> QED
  BY <1>1, <1>2 DEF HostInv, Quiet

(* One that goes on is still the only one. *)
LEMMA GoesAlone ==
    ASSUME TypeInv, HostInv, NEW a \in Actors, NEW to, NEW c, Goto(a, to, c), pc[a] # "idle",
           overlap' = overlap, failed => failed'
    PROVE  /\ pc'[a] = to /\ loc'[a] = c
           /\ Calm' => /\ Calm /\ Track(a)
                       /\ lastDNS # None /\ pc[a] # "record" => upstreams = lastDNS
                       /\ \A b \in Actors \ {a} : pc'[b] = "idle"
<1>1. pc'[a] = to /\ loc'[a] = c /\ \A b \in Actors \ {a} : pc'[b] = pc[b]
  BY DEF Goto, TypeInv, TypeOK
<1>2. Calm' => Calm
  BY Zenon DEF Calm
<1>3. ASSUME Calm PROVE Track(a) /\ \A b \in Actors \ {a} : pc[b] = "idle"
  BY <1>3 DEF HostInv, Alone
<1>4. ASSUME Calm, lastDNS # None, pc[a] # "record" PROVE upstreams = lastDNS
  BY <1>3, <1>4 DEF HostInv
<1> QED
  BY <1>1, <1>2, <1>3, <1>4

LEMMA SetHealthyFollowed ==
    ASSUME TypeInv, HostInv, NEW up \in BOOLEAN, SetHealthy(up),
           UNCHANGED <<upstreams, lastDNS, host, failed>>
    PROVE  HostInv'
<1>1. CASE changes < MaxChanges /\ Begin(changes + 1, "stateRead", None)
  <2>1. changes + 1 \in Actors
    BY <1>1, ActorsTyped DEF TypeInv, TypeOK
  <2>2. Calm' => Settled
    BY <1>1, <2>1, BeginsAlone
  <2> QED
    BY <1>1, <2>1, <2>2, BeginsAlone, HostFollowed DEF Track, Settled
<1>2. CASE healthy' = healthy /\ UNCHANGED <<changes, pc, loc, overlap>>
  BY <1>2, HostUntouched
<1> QED
  BY <1>1, <1>2, Zenon DEF SetHealthy

LEMMA NextHost == TypeInv /\ HostInv /\ [Next]_vars => HostInv'
<1> SUFFICES ASSUME TypeInv, HostInv, [Next]_vars PROVE HostInv'
  OBVIOUS
<1>1. ASSUME ServeEnds \/ RebindFails \/ PortChange \/ UNCHANGED vars PROVE HostInv'
  BY <1>1, HostUntouched DEF ServeEnds, RebindFails, PortChange, histVars, vars
<1>2. ASSUME LadderExhausted \/ Rebinds PROVE HostInv'
  <2>1. \E up \in BOOLEAN : SetHealthy(up)
    BY <1>2, Zenon DEF LadderExhausted, Rebinds
  <2> QED
    BY <1>2, <2>1, SetHealthyFollowed DEF LadderExhausted, Rebinds
<1>3. ASSUME NEW c \in Conns, NEW cfg \in Configs, ApplyDNS(c, cfg) PROVE HostInv'
  BY <1>3, ActorsTyped, BeginsAlone, HostFollowed DEF ApplyDNS, Track
<1>4. ASSUME NEW c \in Conns, RestoreDNS(c) PROVE HostInv'
  BY <1>4, ActorsTyped, BeginsAlone, HostFollowed DEF RestoreDNS, Track
<1>5. ASSUME NEW a \in Actors, Record(a) PROVE HostInv'
  <2>1. /\ Goto(a, "choose", loc[a]) /\ pc[a] = "record" /\ lastDNS' = loc[a]
        /\ UNCHANGED <<healthy, upstreams, host, overlap, failed>>
    BY <1>5 DEF Record, fwdVars, histVars
  <2>2. failed => failed'
    BY <2>1
  <2> QED
    BY <2>1, <2>2, GoesAlone, HostFollowed DEF Track
<1>6. ASSUME NEW a \in Actors, StateRead(a) PROVE HostInv'
  <2>1. /\ IF lastDNS = None THEN Goto(a, "idle", None) ELSE Goto(a, "choose", lastDNS)
        /\ pc[a] = "stateRead"
        /\ UNCHANGED <<healthy, upstreams, lastDNS, host, overlap, failed>>
    BY <1>6 DEF StateRead, Done, fwdVars, histVars
  <2>2. failed => failed'
    BY <2>1
  <2> QED
    BY <2>1, <2>2, GoesAlone, HostFollowed DEF Track, Settled
<1>7. ASSUME NEW a \in Actors, Choose(a) PROVE HostInv'
  <2>1. /\ Goto(a, Variant(healthy), loc[a]) /\ pc[a] = "choose"
        /\ UNCHANGED <<healthy, upstreams, lastDNS, host, overlap, failed>>
    BY <1>7 DEF Choose, fwdVars, histVars
  <2>2. failed => failed'
    BY <2>1
  <2>3. \/ healthy /\ Goto(a, "fronted", loc[a])
        \/ Goto(a, "direct", loc[a])
    BY <2>1 DEF Variant
  <2> QED
    BY <2>1, <2>2, <2>3, GoesAlone, HostFollowed DEF Track
<1>8. ASSUME NEW a \in Actors, ApplyFronted(a) PROVE HostInv'
  <2>1. /\ \/ Goto(a, "idle", None) /\ host' = [kind |-> "fronted", cfg |-> loc[a]]
           \/ Goto(a, "direct", loc[a])
        /\ pc[a] = "fronted"
        /\ UNCHANGED <<healthy, upstreams, lastDNS, overlap, failed>>
    BY <1>8 DEF ApplyFronted, Done, fwdVars, histVars
  <2>2. failed => failed'
    BY <2>1
  <2>3. loc[a] \in Configs /\ [kind |-> "fronted", cfg |-> loc[a]] # None
    BY <2>1 DEF TypeInv, HasConfig, Resolver
  <2>4. CASE Goto(a, "direct", loc[a])
    BY <2>1, <2>2, <2>4, GoesAlone, HostFollowed DEF Track
  <2>5. CASE Goto(a, "idle", None) /\ host' = [kind |-> "fronted", cfg |-> loc[a]]
    <3>1. Calm' => Settled'
      BY <2>1, <2>2, <2>3, <2>5, GoesAlone DEF Track, Settled
    <3> QED
      BY <2>1, <2>2, <2>5, <3>1, GoesAlone, HostFollowed DEF Track
  <2> QED
    BY <2>1, <2>4, <2>5
<1>9. ASSUME NEW a \in Actors, ApplyDirect(a) PROVE HostInv'
  <2>1. /\ Goto(a, "idle", None) /\ pc[a] = "direct"
        /\ host' = [kind |-> "direct", cfg |-> loc[a]] \/ failed'
        /\ UNCHANGED <<healthy, upstreams, lastDNS, overlap>> /\ (failed => failed')
    BY <1>9 DEF ApplyDirect, Done, fwdVars
  <2>2. loc[a] \in Configs /\ [kind |-> "direct", cfg |-> loc[a]] # None
    BY <2>1 DEF TypeInv, HasConfig, Resolver
  <2>3. Calm' => Settled'
    BY <2>1, <2>2, GoesAlone DEF Track, Settled, Calm
  <2> QED
    BY <2>1, <2>3, GoesAlone, HostFollowed DEF Track
<1>10. ASSUME NEW a \in Actors, Restore(a) PROVE HostInv'
  <2>1. /\ Goto(a, "idle", None) /\ pc[a] = "restore" /\ (host' = None \/ failed')
        /\ UNCHANGED <<healthy, upstreams, lastDNS, overlap>> /\ (failed => failed')
    BY <1>10 DEF Restore, Done, fwdVars
  <2>2. Calm' => Settled'
    BY <2>1, GoesAlone DEF Track, Settled, Calm
  <2> QED
    BY <2>1, <2>2, GoesAlone, HostFollowed DEF Track
<1> QED
  BY <1>1, <1>2, <1>3, <1>4, <1>5, <1>6, <1>7, <1>8, <1>9, <1>10 DEF Next, Supervise, Work

(***************************************************************************)
(* As long as no two of them ran at once and the adapter obeyed, the host  *)
(* is on the recorded configuration or on its own, and asks the forwarder  *)
(* only while that is healthy and forwards to the same configuration       *)
(* (applyDNS, onForwarderState, restoreDNS).                               *)
(***************************************************************************)
THEOREM HostAlwaysFollows == Spec => []HostFollowsForwarder
<1>1. Init => HostInv
  BY DEF Init, HostInv, Alone, Settled, Track
<1>2. Spec => []TypeInv
  BY InitTyped, NextTyped, PTL DEF Spec
<1>3. HostInv => HostFollowsForwarder
  BY DEF HostInv, HostFollowsForwarder, Calm, Settled
<1> QED
  BY <1>1, <1>2, <1>3, NextHost, PTL DEF Spec

-----------------------------------------------------------------------------
(***************************************************************************)
(* The adapters.                                                           *)
(*                                                                         *)
(* Nothing below needs what HostDns assumes of its constants.              *)
(***************************************************************************)
HIDE HostDnsAssumption

\* The keys of the first n entries, and a host that is a map from keys.
IsMap(f) == f = [k \in DOMAIN f |-> f[k]]
KeysOf(es, n) == {es[i].key : i \in 1..n}

AdapterType ==
    /\ platform \in {"linux", "darwin", "windows"}
    /\ IsMap(hostEntries)
    /\ ruleCount \in Nat

\* The adapter's book covers what the host holds, unless it lost track of an entry: on
\* Linux the settings of a link go with the link, and there are none unless both flags say
\* so; on macOS every entry is a created key; on Windows a counted rule.
BookInv ==
    /\ AdapterType
    /\ platform = "linux" /\ ~link => hostEntries = NoEntries
    /\ ~forgot =>
         /\ platform = "linux" /\ ~(applied /\ path) => hostEntries = NoEntries
         /\ platform = "darwin" => DOMAIN hostEntries \subseteq keys
         /\ platform = "windows" => DOMAIN hostEntries \subseteq Rules(ruleCount)
         /\ outcome = "restored" => hostEntries = NoEntries

-----------------------------------------------------------------------------
(* The host after some entries were written or removed. *)

LEMMA WrittenDomain ==
    ASSUME NEW h, NEW es, NEW n
    PROVE  /\ DOMAIN Written(h, es, n) = DOMAIN h \cup KeysOf(es, n)
           /\ IsMap(Written(h, es, n))
BY DEF Written, IsMap, KeysOf

LEMMA WithoutDomain ==
    ASSUME NEW h, NEW ks
    PROVE  /\ DOMAIN Without(h, ks) = DOMAIN h \ ks /\ IsMap(Without(h, ks))
           /\ \A k \in DOMAIN h \ ks : Without(h, ks)[k] = h[k]
BY DEF Without, IsMap

LEMMA NothingLeft ==
    ASSUME NEW h, IsMap(h), DOMAIN h = {}
    PROVE  h = NoEntries
BY DEF NoEntries, IsMap

LEMMA NothingTyped ==
    DOMAIN NoEntries = {} /\ IsMap(NoEntries)
BY DEF NoEntries, IsMap

-----------------------------------------------------------------------------
(* The entries of a configuration. *)

LEMMA Division ==
    ASSUME NEW m \in Nat \ {0}, NEW a \in Nat, NEW q, q = a \div m
    PROVE  q \in Nat /\ q * m <= a /\ a < q * m + m
OBVIOUS

LEMMA ConfigTyped ==
    ASSUME NEW cfg \in DnsConfigs
    PROVE  /\ cfg.search \in Seq(DOMAIN Bytes) /\ cfg.match \in Seq(DOMAIN Bytes)
           /\ cfg.search \o cfg.match \in Seq(DOMAIN Bytes)
           /\ cfg.port \in {"default", "front"}
<1>1. cfg \in [search : Seq(DOMAIN Bytes), match : Seq(DOMAIN Bytes), port : {"default", "front"}]
  BY AdapterParameters
<1>2. PICK S, s, m : /\ S = DOMAIN Bytes /\ s = cfg.search /\ m = cfg.match
                     /\ s \in Seq(S) /\ m \in Seq(S)
  BY <1>1
<1>3. s \o m \in Seq(S)
  BY <1>2
<1> QED
  BY <1>1, <1>2, <1>3

LEMMA ChunksCount ==
    ASSUME NEW S, NEW d \in Seq(S), MaxDomains \in Nat \ {0},
           NEW cs, cs = Chunks(d), NEW c, c = (Len(d) + MaxDomains - 1) \div MaxDomains
    PROVE  /\ c \in Nat /\ cs \in Seq(Seq(S)) /\ Len(cs) = c
<1>1. PICK m, l, a : /\ m = MaxDomains /\ l = Len(d) /\ a = l + m - 1
                     /\ m \in Nat \ {0} /\ l \in Nat /\ a \in Nat
  OBVIOUS
<1>2. c \in Nat /\ c * m <= a
  BY <1>1, Division
<1>3. ASSUME NEW i \in 1..c
      PROVE  SubSeq(d, (i - 1) * m + 1, IF i * m < l THEN i * m ELSE l) \in Seq(S)
  <2>1. (i - 1) * m + 1 \in Nat \ {0} /\ i * m \in Nat
    BY <1>1, <1>2
  <2>2. PICK x, y : x = (i - 1) * m + 1 /\ y = (IF i * m < l THEN i * m ELSE l) /\ x \in Nat \ {0}
                    /\ y \in Nat /\ y <= l
    BY <1>1, <2>1
  <2>3. SubSeq(d, x, y) \in Seq(S)
    BY <1>1, <2>2
  <2> QED
    BY <2>2, <2>3
<1>4. cs = [i \in 1..c |-> SubSeq(d, (i - 1) * m + 1, IF i * m < l THEN i * m ELSE l)]
  BY <1>1 DEF Chunks
<1>5. cs \in [1..c -> Seq(S)]
  BY <1>3, <1>4
<1> QED
  BY <1>2, <1>5

LEMMA FunctionIsSequence ==
    ASSUME NEW c \in Nat, NEW f, f = [i \in 1..c |-> f[i]]
    PROVE  Len(f) = c
<1>1. PICK S : S = {f[i] : i \in 1..c}
  OBVIOUS
<1>2. f \in [1..c -> S]
  BY <1>1
<1> QED
  BY <1>2

LEMMA EntriesAt ==
    ASSUME NEW kind, NEW bs, Len(bs) \in Nat, NEW port, NEW es, es = Entries(kind, bs, port)
    PROVE  /\ es = [i \in 1..Len(bs) |-> es[i]] /\ Len(es) = Len(bs)
           /\ \A i \in 1..Len(bs) : /\ es[i].key = <<kind, i>>
                                    /\ es[i].batch = bs[i] /\ es[i].port = port
<1>1. PICK l : l = Len(bs) /\ l \in Nat
  OBVIOUS
<1>2. es = [i \in 1..l |-> [key |-> <<kind, i>>, batch |-> bs[i], port |-> port]]
  BY <1>1 DEF Entries
<1>3. es = [i \in 1..l |-> es[i]]
  BY <1>2
<1>4. Len(es) = l
  BY <1>1, <1>3, FunctionIsSequence
<1> QED
  BY <1>1, <1>2, <1>3, <1>4

-----------------------------------------------------------------------------
(* The book is kept, platform by platform. *)

LEMMA LinkTyped ==
    ASSUME NEW h, IsMap(h), NEW cfg,
           NEW w \in {h, LinkDNS(h, cfg), LinkDomains(LinkDNS(h, cfg), cfg)}
    PROVE  IsMap(w)
<1>1. PICK x, y : x = LinkDNS(h, cfg) /\ y = LinkDomains(x, cfg)
  OBVIOUS
<1>2. IsMap(x)
  BY <1>1, WrittenDomain DEF LinkDNS
<1>3. IsMap(y)
  BY <1>1, <1>2, WrittenDomain DEF LinkDomains
<1> QED
  BY <1>1, <1>2, <1>3

LEMMA BookSystemdApplies ==
    ASSUME BookInv, NEW cfg, platform = "linux", SystemdApply(cfg) \/ SystemdGone,
           UNCHANGED <<platform, link, keys, ruleCount>>
    PROVE  BookInv'
<1>1. CASE SystemdGone
  BY <1>1 DEF SystemdGone, Answers, BookInv, AdapterType
<1>2. CASE SystemdApply(cfg)
  <2>1. hostEntries' \in {hostEntries, LinkDNS(hostEntries, cfg),
                      LinkDomains(LinkDNS(hostEntries, cfg), cfg)}
    BY <1>2 DEF SystemdApply
  <2>2. AdapterType'
    BY <2>1, LinkTyped DEF BookInv, AdapterType
  <2>3. CASE path' /\ applied' /\ outcome' = "applied" /\ link
    BY <2>2, <2>3 DEF BookInv, AdapterType
  <2>4. CASE outcome' = "none" /\ UNCHANGED <<hostEntries, path, applied, forgot>>
    BY <2>2, <2>4 DEF BookInv, AdapterType
  <2>5. CASE /\ outcome' = "none" /\ link /\ path' = TRUE /\ applied' = applied
             /\ forgot' = (forgot \/ (~applied /\ hostEntries' # hostEntries))
    <3>1. ~forgot' => ~forgot /\ (~applied => hostEntries' = hostEntries)
      BY <2>5, Zenon
    <3> QED
      BY <2>2, <2>5, <3>1 DEF BookInv, AdapterType
  <2> QED
    BY <1>2, <2>3, <2>4, <2>5 DEF SystemdApply, Succeeds, Fails, Answers
<1> QED
  BY <1>1, <1>2

LEMMA BookSystemdRestores ==
    ASSUME BookInv, platform = "linux", SystemdRestore,
           UNCHANGED <<platform, link, keys, ruleCount>>
    PROVE  BookInv'
<1>1. AdapterType'
  BY NothingTyped DEF SystemdRestore, BookInv, AdapterType
<1> QED
  BY <1>1 DEF SystemdRestore, Succeeds, Fails, Answers, BookInv

LEMMA BookScutilApplies ==
    ASSUME BookInv, NEW cfg, platform = "darwin", ScutilApply(cfg),
           UNCHANGED <<platform, link, path, applied, ruleCount>>
    PROVE  BookInv'
<1>1. PICK stuck \in SUBSET keys :
        LET es == ScutilEntries(cfg)
            cleaned == Without(hostEntries, keys \ stuck)
            booked == StillBooked(stuck)
        IN  \/ /\ hostEntries' = Written(cleaned, es, Len(es))
               /\ keys' = booked \cup {es[i].key : i \in 1..Len(es)}
               /\ Answers("applied", {cfg}) /\ UNCHANGED forgot
               /\ IF stuck = {} THEN UNCHANGED faults ELSE Fault
            \/ \E n \in 0..(Len(es) - 1), late \in {0, 1} :
                 /\ hostEntries' = Written(cleaned, es, n + late)
                 /\ keys' = booked \cup {es[i].key : i \in 1..n}
                 /\ forgot' = (forgot \/ ~(DOMAIN hostEntries' \subseteq keys'))
                 /\ Fails
  BY Zenon DEF ScutilApply
<1>2. PICK es, cleaned : es = ScutilEntries(cfg) /\ cleaned = Without(hostEntries, keys \ stuck)
  OBVIOUS
<1>3. DOMAIN cleaned = DOMAIN hostEntries \ (keys \ stuck)
  BY <1>2, WithoutDomain
<1>4. CASE /\ hostEntries' = Written(cleaned, es, Len(es))
           /\ keys' = stuck \cup KeysOf(es, Len(es))
           /\ outcome' = "applied" /\ forgot' = forgot
  <2>1. /\ DOMAIN hostEntries' = DOMAIN cleaned \cup KeysOf(es, Len(es))
        /\ IsMap(hostEntries')
    BY <1>4, WrittenDomain
  <2> QED
    BY <1>3, <1>4, <2>1 DEF BookInv, AdapterType
<1>5. ASSUME NEW n, NEW late, hostEntries' = Written(cleaned, es, n + late),
             forgot' = (forgot \/ ~(DOMAIN hostEntries' \subseteq keys')), outcome' = "none"
      PROVE  BookInv'
  <2>1. IsMap(hostEntries')
    BY <1>5, WrittenDomain
  <2> QED
    BY <1>5, <2>1 DEF BookInv, AdapterType
<1> QED
  BY <1>1, <1>2, <1>4, <1>5 DEF KeysOf, StillBooked, Answers, Fails

LEMMA BookScutilRestores ==
    ASSUME BookInv, platform = "darwin", ScutilRestore,
           UNCHANGED <<platform, link, path, applied, ruleCount>>
    PROVE  BookInv'
<1>1. PICK stuck \in SUBSET keys :
        /\ hostEntries' = Without(hostEntries, keys \ stuck) /\ keys' = {}
        /\ forgot' = (forgot \/ stuck # {})
  BY DEF ScutilRestore
<1>2. /\ DOMAIN hostEntries' = DOMAIN hostEntries \ (keys \ stuck)
      /\ IsMap(hostEntries')
  BY <1>1, WithoutDomain
<1>3. ~forgot' => hostEntries' = NoEntries /\ DOMAIN hostEntries' = {}
  BY <1>1, <1>2, NothingLeft DEF BookInv
<1> QED
  BY <1>1, <1>2, <1>3 DEF BookInv, AdapterType

LEMMA NrptEntriesAt ==
    ASSUME NEW cfg \in DnsConfigs, NEW es, es = NrptEntries(cfg)
    PROVE  /\ Len(es) \in Nat
           /\ \A i \in 1..Len(es) : es[i].key = <<"Rule", i>>
<1>1. PICK d, cs : d = cfg.search \o cfg.match /\ cs = Chunks(d)
  OBVIOUS
<1>2. d \in Seq(DOMAIN Bytes) /\ MaxDomains \in Nat \ {0}
  BY <1>1, ConfigTyped, AdapterParameters
<1>3. cs \in Seq(Seq(DOMAIN Bytes))
  BY <1>1, <1>2, ChunksCount
<1>4. PICK l : l = Len(cs) /\ l \in Nat
  BY <1>3
<1>5. PICK port, kind : port = cfg.port /\ kind = "Rule"
  OBVIOUS
<1>6. es = Entries(kind, cs, port)
  BY <1>1, <1>5 DEF NrptEntries
<1>7. Len(cs) \in Nat
  BY <1>4
<1>8. Len(es) = Len(cs)
  BY <1>6, <1>7, EntriesAt
<1>9. \A i \in 1..Len(cs) : es[i].key = <<kind, i>>
  BY <1>6, <1>7 DEF Entries
<1> QED
  BY <1>5, <1>7, <1>8, <1>9

LEMMA BookNrptApplies ==
    ASSUME BookInv, NEW cfg \in DnsConfigs, platform = "windows",
           NrptApply(cfg) \/ NrptRefuses(cfg),
           UNCHANGED <<platform, link, path, applied, keys>>
    PROVE  BookInv'
<1>1. PICK es : es = NrptEntries(cfg)
  OBVIOUS
<1>2. Len(es) \in Nat /\ \A i \in 1..Len(es) : es[i].key = <<"Rule", i>>
  BY <1>1, NrptEntriesAt
<1>3. CASE NrptRefuses(cfg)
  BY <1>3 DEF NrptRefuses, Answers, BookInv, AdapterType
<1>4. CASE NrptApply(cfg) /\ es = <<>>
  BY <1>1, <1>4 DEF NrptApply, Succeeds, Answers, BookInv, AdapterType
<1>5. CASE NrptApply(cfg) /\ es # <<>>
  <2>1. PICK stuck, cleaned :
          /\ stuck \in SUBSET Rules(ruleCount)
          /\ cleaned = Without(hostEntries, Rules(ruleCount) \ stuck)
          /\ \/ /\ hostEntries' = Written(cleaned, es, Len(es)) /\ ruleCount' = Len(es)
                /\ forgot' = (forgot \/ ~(stuck \subseteq Rules(Len(es))))
                /\ outcome' = "applied"
             \/ \E n \in 0..(Len(es) - 1), created \in {0, 1} :
                  /\ hostEntries' = Written(cleaned, es, n + created) /\ ruleCount' = n
                  /\ forgot' = (forgot \/ created = 1 \/ ~(stuck \subseteq Rules(n)))
                  /\ outcome' = "none"
    BY <1>1, <1>5 DEF NrptApply, RuleFailed, Fails, Answers
  <2>2. DOMAIN cleaned = DOMAIN hostEntries \ (Rules(ruleCount) \ stuck)
    BY <2>1, WithoutDomain
  <2>3. ~forgot => DOMAIN cleaned \subseteq stuck
    BY <2>2 DEF BookInv
  <2>4. \A n \in 0..Len(es) : KeysOf(es, n) = Rules(n)
    <3>1. ASSUME NEW n \in 0..Len(es) PROVE KeysOf(es, n) = Rules(n)
      <4>1. \A i \in 1..n : es[i].key = <<"Rule", i>>
        BY <1>2
      <4> QED
        BY <4>1, Zenon DEF KeysOf, Rules
    <3> QED
      BY <3>1
  <2>5. CASE /\ hostEntries' = Written(cleaned, es, Len(es)) /\ ruleCount' = Len(es)
             /\ forgot' = (forgot \/ ~(stuck \subseteq Rules(Len(es))))
             /\ outcome' = "applied"
    <3>1. /\ DOMAIN hostEntries' = DOMAIN cleaned \cup KeysOf(es, Len(es))
          /\ IsMap(hostEntries')
      BY <2>5, WrittenDomain
    <3>2. ~forgot' => DOMAIN hostEntries' \subseteq Rules(ruleCount')
      <4>1. ~forgot' => ~forgot /\ stuck \subseteq Rules(Len(es))
        BY <2>5, Zenon
      <4>2. KeysOf(es, Len(es)) = Rules(Len(es))
        BY <1>2, <2>4
      <4> QED
        BY <2>3, <2>5, <3>1, <4>1, <4>2
    <3>3. ~forgot' => DOMAIN hostEntries' \subseteq Rules(ruleCount)'
      BY <3>2 DEF Rules
    <3> QED
      BY <1>2, <2>5, <3>1, <3>3 DEF BookInv, AdapterType
  <2>6. ASSUME NEW n \in 0..(Len(es) - 1), NEW created \in {0, 1},
               hostEntries' = Written(cleaned, es, n + created), ruleCount' = n,
               forgot' = (forgot \/ created = 1 \/ ~(stuck \subseteq Rules(n))),
               outcome' = "none"
        PROVE  BookInv'
    <3>1. /\ DOMAIN hostEntries' = DOMAIN cleaned \cup KeysOf(es, n + created)
          /\ IsMap(hostEntries')
      BY <2>6, WrittenDomain
    <3>2. ~forgot' => DOMAIN hostEntries' \subseteq Rules(n)
      <4>1. ~forgot' => ~forgot /\ created # 1 /\ stuck \subseteq Rules(n)
        BY <2>6, Zenon
      <4>2. created # 1 => n + created = n
        BY <1>2
      <4>3. KeysOf(es, n) = Rules(n)
        BY <1>2, <2>4
      <4> QED
        BY <2>3, <3>1, <4>1, <4>2, <4>3
    <3>3. ~forgot' => DOMAIN hostEntries' \subseteq Rules(ruleCount)'
      BY <2>6, <3>2 DEF Rules
    <3> QED
      BY <1>2, <2>6, <3>1, <3>3 DEF BookInv, AdapterType
  <2> QED
    BY <2>1, <2>5, <2>6
<1> QED
  BY <1>3, <1>4, <1>5

LEMMA BookNrptRestores ==
    ASSUME BookInv, platform = "windows", NrptRestore,
           UNCHANGED <<platform, link, path, applied, keys>>
    PROVE  BookInv'
<1>1. PICK stuck \in SUBSET Rules(ruleCount) :
        /\ hostEntries' = Without(hostEntries, Rules(ruleCount) \ stuck) /\ ruleCount' = 0
        /\ forgot' = (forgot \/ stuck # {})
  BY DEF NrptRestore
<1>2. /\ DOMAIN hostEntries' = DOMAIN hostEntries \ (Rules(ruleCount) \ stuck)
      /\ IsMap(hostEntries')
  BY <1>1, WithoutDomain
<1>3. ~forgot' => hostEntries' = NoEntries /\ DOMAIN hostEntries' = {}
  BY <1>1, <1>2, NothingLeft DEF BookInv
<1> QED
  BY <1>1, <1>2, <1>3 DEF BookInv, AdapterType

LEMMA BookLinks ==
    ASSUME BookInv, LinkUp \/ LinkLost \/ Exit \/ UNCHANGED adapterVars
    PROVE  BookInv'
<1>1. CASE LinkUp
  BY <1>1 DEF LinkUp, bookVars, BookInv, AdapterType, Rules
<1>2. CASE LinkLost
  BY <1>2, NothingTyped DEF LinkLost, LinkGone, Answers, bookVars, Rules,
                            BookInv, AdapterType
<1>3. CASE Exit
  BY <1>3, NothingTyped DEF Exit, LinkGone, Answers, BookInv, AdapterType
<1>4. CASE UNCHANGED adapterVars
  BY <1>4 DEF adapterVars, bookVars, BookInv, AdapterType, Rules
<1> QED
  BY <1>1, <1>2, <1>3, <1>4

LEMMA BookKept ==
    ASSUME BookInv, [AdapterNext]_adapterVars
    PROVE  BookInv'
<1>1. ASSUME NEW cfg \in DnsConfigs, AdapterApply(cfg) PROVE BookInv'
  <2>1. UNCHANGED <<platform, link>>
    BY <1>1 DEF AdapterApply
  <2>2. CASE platform = "linux"
    BY <1>1, <2>1, <2>2, BookSystemdApplies DEF AdapterApply
  <2>3. CASE platform = "darwin"
    BY <1>1, <2>1, <2>3, BookScutilApplies DEF AdapterApply
  <2>4. CASE platform = "windows"
    BY <1>1, <2>1, <2>4, BookNrptApplies DEF AdapterApply
  <2> QED
    BY <2>2, <2>3, <2>4 DEF BookInv, AdapterType
<1>2. CASE AdapterRestore
  <2>1. UNCHANGED <<platform, link>>
    BY <1>2 DEF AdapterRestore
  <2>2. CASE platform = "linux"
    BY <1>2, <2>1, <2>2, BookSystemdRestores DEF AdapterRestore
  <2>3. CASE platform = "darwin"
    BY <1>2, <2>1, <2>3, BookScutilRestores DEF AdapterRestore
  <2>4. CASE platform = "windows"
    BY <1>2, <2>1, <2>4, BookNrptRestores DEF AdapterRestore
  <2> QED
    BY <2>2, <2>3, <2>4 DEF BookInv, AdapterType
<1> QED
  BY <1>1, <1>2, BookLinks DEF AdapterNext

(***************************************************************************)
(* A Restore that returned nil left nothing of ours in the host, on every  *)
(* platform and after any sequence of failing host calls, unless the       *)
(* adapter had lost track of an entry before (Restore, Apply).             *)
(***************************************************************************)
THEOREM RestoredHostIsClean ==
    AdapterSpec => []RestoreLeavesNothing
<1>1. AdapterInit => BookInv
  BY NothingTyped, AdapterParameters DEF AdapterInit, BookInv, AdapterType
<1>2. BookInv /\ [AdapterNext]_adapterVars => BookInv'
  BY BookKept
<1>3. BookInv => RestoreLeavesNothing
  BY DEF BookInv, RestoreLeavesNothing
<1> QED
  BY <1>1, <1>2, <1>3, PTL DEF AdapterSpec

-----------------------------------------------------------------------------
(* The batches of splitDomainsIntoBatches. *)

\* A batch the host tool takes: one domain, or several within both limits.
Limited(b) == Len(b) # 1 => Len(b) <= MaxDomains /\ Joined(b) <= MaxBytes
Holds(b, x) == \E m \in DOMAIN b : b[m] = x
\* Batches that keep to the limits and hold the first n domains.
Good(bs, d, n) ==
    /\ bs \in Seq(Seq(DOMAIN Bytes))
    /\ \A i \in 1..Len(bs) : Limited(bs[i])
    /\ \A j \in 1..n : \E i \in 1..Len(bs) : Holds(bs[i], d[j])

\* Every nonempty set of natural numbers has a least element.
LEMMA LeastNumber ==
    ASSUME NEW S \in SUBSET Nat, S # {}
    PROVE  \E m \in S : \A k \in S : m <= k
<1>1. PICK m \in S : \A k \in S : ~(<<k, m>> \in OpToRel(<, Nat))
  BY NatLessThanWellFounded, WFMin, Zenon
<1>2. ASSUME NEW k \in S PROVE m <= k
  <2>1. k \in Nat /\ m \in Nat /\ <<k, m>> \in Nat \X Nat
    OBVIOUS
  <2>2. ~(k < m)
    BY <1>1, <2>1 DEF OpToRel
  <2> QED
    BY <2>1, <2>2
<1> QED
  BY <1>2

\* Induction up to l, for a set of numbers: the least number left out has a predecessor.
LEMMA UpTo ==
    ASSUME NEW l \in Nat, NEW T \in SUBSET Nat, 0 \in T,
           \A n \in 1..l : n - 1 \in T => n \in T
    PROVE  0..l \subseteq T
<1>1. SUFFICES ASSUME (0..l) \ T # {} PROVE FALSE
  OBVIOUS
<1>2. PICK U : U = (0..l) \ T
  OBVIOUS
<1>3. U \in SUBSET Nat /\ U # {}
  BY <1>2, <1>1
<1>4. PICK m \in U : \A k \in U : m <= k
  BY <1>3, LeastNumber
<1>5. m \in 1..l /\ m - 1 \in 0..l /\ ~(m <= m - 1)
  BY <1>2, <1>4
<1> QED
  BY <1>2, <1>4, <1>5

\* The recursive function of Splits exists: extended from n - 1 to n.
SplitsUpTo(f, d, n) ==
    f = [k \in 0..n |-> IF k = 0 THEN <<>> ELSE WithDomain(f[k - 1], d[k])]

LEMMA SplitsExist ==
    ASSUME NEW d, NEW l \in Nat
    PROVE  \E f : SplitsUpTo(f, d, l)
<1>1. PICK T : T = {n \in Nat : \E f : SplitsUpTo(f, d, n)}
  OBVIOUS
<1>2. 0 \in T
  <2>1. PICK f : f = [k \in 0..0 |-> <<>>]
    OBVIOUS
  <2>2. SplitsUpTo(f, d, 0)
    BY <2>1 DEF SplitsUpTo
  <2> QED
    BY <1>1, <2>2
<1>3. ASSUME NEW n \in 1..l, n - 1 \in T PROVE n \in T
  <2>1. PICK f : SplitsUpTo(f, d, n - 1)
    BY <1>1, <1>3
  <2>2. PICK g : g = [k \in 0..n |-> IF k = n THEN WithDomain(f[n - 1], d[n]) ELSE f[k]]
    OBVIOUS
  <2>3. \A k \in 0..(n - 1) : f[k] = IF k = 0 THEN <<>> ELSE WithDomain(f[k - 1], d[k])
    BY <2>1 DEF SplitsUpTo
  <2>4. \A k \in 0..(n - 1) : g[k] = f[k]
    BY <2>2
  <2>5. ASSUME NEW k \in 0..n PROVE g[k] = IF k = 0 THEN <<>> ELSE WithDomain(g[k - 1], d[k])
    <3>1. CASE k = n
      BY <2>2, <2>4, <3>1
    <3>2. CASE k # n
      <4>1. k \in 0..(n - 1) /\ (k # 0 => k - 1 \in 0..(n - 1))
        BY <3>2
      <4> QED
        BY <2>3, <2>4, <4>1
    <3> QED
      BY <3>1, <3>2
  <2>6. SplitsUpTo(g, d, n)
    BY <2>2, <2>5 DEF SplitsUpTo
  <2> QED
    BY <1>1, <2>6
<1>4. 0..l \subseteq T
  BY <1>1, <1>2, <1>3, UpTo
<1> QED
  BY <1>1, <1>4

LEMMA SplitsAt ==
    ASSUME NEW d, Len(d) \in Nat, NEW s, s = Splits(d)
    PROVE  s[0] = <<>> /\ \A n \in 1..Len(d) : s[n] = WithDomain(s[n - 1], d[n])
<1>1. PICK l : l = Len(d) /\ l \in Nat
  OBVIOUS
<1>2. \E f : f = [k \in 0..Len(d) |-> IF k = 0 THEN <<>> ELSE WithDomain(f[k - 1], d[k])]
  BY <1>1, SplitsExist DEF SplitsUpTo
<1>3. s = [k \in 0..Len(d) |-> IF k = 0 THEN <<>> ELSE WithDomain(s[k - 1], d[k])]
  BY <1>2 DEF Splits
<1> QED
  BY <1>1, <1>3

LEMMA LimitedBatch ==
    ASSUME NEW b \in Seq(DOMAIN Bytes), NEW x \in DOMAIN Bytes
    PROVE  /\ Limited(<<x>>) /\ Holds(<<x>>, x) /\ <<x>> \in Seq(DOMAIN Bytes)
           /\ Append(b, x) \in Seq(DOMAIN Bytes) /\ Holds(Append(b, x), x)
           /\ Fits(b, x) => Limited(Append(b, x))
           /\ \A y : Holds(b, y) => Holds(Append(b, x), y)
<1>1. PICK D : D = DOMAIN Bytes /\ b \in Seq(D) /\ x \in D
  OBVIOUS
<1>2. PICK c, o : c = Append(b, x) /\ o = <<x>>
  OBVIOUS
<1>3. /\ c \in Seq(D) /\ Len(c) = Len(b) + 1 /\ Len(b) \in Nat /\ c[Len(b) + 1] = x
      /\ \A m \in 1..Len(b) : c[m] = b[m]
  BY <1>1, <1>2
<1>4. o \in Seq(D) /\ Len(o) = 1 /\ o[1] = x
  BY <1>1, <1>2
<1>5. Limited(o) /\ Holds(o, x)
  BY <1>4 DEF Limited, Holds
<1>6. Holds(c, x) /\ \A y : Holds(b, y) => Holds(c, y)
  BY <1>3 DEF Holds
<1>7. ASSUME Fits(b, x) PROVE Limited(c)
  <2>1. CASE b = <<>>
    BY <1>3, <2>1 DEF Limited
  <2>2. CASE b # <<>>
    <3>1. Len(b) < MaxDomains /\ Joined(c) <= MaxBytes
      BY <1>2, <1>7, <2>2 DEF Fits
    <3> QED
      BY <1>3, <3>1, AdapterParameters DEF Limited
  <2> QED
    BY <2>1, <2>2
<1> QED
  BY <1>1, <1>2, <1>3, <1>4, <1>5, <1>6, <1>7

\* One more domain, in the last batch if it fits or in a batch of its own.
LEMMA WithDomainGood ==
    ASSUME NEW d \in Seq(DOMAIN Bytes), NEW n \in 1..Len(d),
           NEW bs, Good(bs, d, n - 1)
    PROVE  Good(WithDomain(bs, d[n]), d, n)
<1>1. PICK B, x, l, cs : /\ B = Seq(DOMAIN Bytes) /\ x = d[n] /\ l = Len(bs)
                         /\ cs = WithDomain(bs, x)
  OBVIOUS
<1>2. bs \in Seq(B) /\ l \in Nat /\ x \in DOMAIN Bytes /\ n \in Nat \ {0}
  BY <1>1 DEF Good
<1>3. CASE bs # <<>> /\ Fits(bs[l], x)
  <2>1. PICK b, c : b = bs[l] /\ c = Append(b, x)
    OBVIOUS
  <2>2. cs = [bs EXCEPT ![l] = c]
    BY <1>1, <1>3, <2>1 DEF WithDomain
  <2>3. l \in 1..l /\ b \in B
    BY <1>1, <1>2, <1>3, <2>1
  <2>4. c \in B /\ Limited(c) /\ Holds(c, x) /\ \A y : Holds(b, y) => Holds(c, y)
    BY <1>1, <1>2, <1>3, <2>1, <2>3, LimitedBatch
  <2>5. /\ cs \in Seq(B) /\ Len(cs) = l /\ cs[l] = c
        /\ \A i \in 1..l : i # l => cs[i] = bs[i]
    BY <1>1, <1>2, <2>2, <2>3, <2>4
  <2>6. \A i \in 1..l : Limited(cs[i])
    BY <1>1, <2>4, <2>5 DEF Good
  <2>7. \A i \in 1..l : \A y : Holds(bs[i], y) => Holds(cs[i], y)
    BY <2>1, <2>4, <2>5
  <2>8. ASSUME NEW j \in 1..n PROVE \E i \in 1..l : Holds(cs[i], d[j])
    <3>1. CASE j = n
      BY <1>1, <2>3, <2>4, <2>5, <3>1
    <3>2. CASE j # n
      <4>1. PICK i \in 1..l : Holds(bs[i], d[j])
        BY <1>1, <1>2, <3>2 DEF Good
      <4> QED
        BY <2>7, <4>1
    <3> QED
      BY <3>1, <3>2
  <2> QED
    BY <1>1, <2>5, <2>6, <2>8 DEF Good
<1>4. CASE ~(bs # <<>> /\ Fits(bs[l], x))
  <2>1. PICK c : c = <<x>>
    OBVIOUS
  <2>2. cs = Append(bs, c)
    BY <1>1, <1>4, <2>1 DEF WithDomain
  <2>3. c \in B /\ Limited(c) /\ Holds(c, x)
    BY <1>1, <1>2, <2>1, LimitedBatch
  <2>4. /\ cs \in Seq(B) /\ Len(cs) = l + 1 /\ cs[l + 1] = c
        /\ \A i \in 1..l : cs[i] = bs[i]
    BY <1>1, <1>2, <2>2, <2>3
  <2>5. ASSUME NEW i \in 1..(l + 1) PROVE Limited(cs[i])
    <3>1. CASE i = l + 1
      BY <2>3, <2>4, <3>1
    <3>2. CASE i # l + 1
      <4>1. i \in 1..l
        BY <1>2, <3>2
      <4> QED
        BY <1>1, <2>4, <4>1 DEF Good
    <3> QED
      BY <3>1, <3>2
  <2>6. ASSUME NEW j \in 1..n PROVE \E i \in 1..(l + 1) : Holds(cs[i], d[j])
    <3>1. CASE j = n
      <4>1. l + 1 \in 1..(l + 1)
        BY <1>2
      <4>2. Holds(cs[l + 1], d[j])
        BY <1>1, <2>3, <2>4, <3>1
      <4> QED
        BY <4>1, <4>2
    <3>2. CASE j # n
      <4>1. PICK i \in 1..l : Holds(bs[i], d[j])
        BY <1>1, <1>2, <3>2 DEF Good
      <4> QED
        BY <1>2, <2>4, <4>1
    <3> QED
      BY <3>1, <3>2
  <2> QED
    BY <1>1, <2>4, <2>5, <2>6 DEF Good
<1> QED
  BY <1>3, <1>4

(***************************************************************************)
(* For every list of domains, of whatever lengths, every domain is in a    *)
(* batch, and a batch of more than one domain passes neither limit         *)
(* (splitDomainsIntoBatches).                                              *)
(***************************************************************************)
THEOREM SplitLosesNothing ==
    ASSUME NEW d \in Seq(DOMAIN Bytes)
    PROVE  Good(Batches(d), d, Len(d))
<1>1. PICK l, s : l = Len(d) /\ l \in Nat /\ s = Splits(d)
  OBVIOUS
<1>2. s[0] = <<>> /\ \A n \in 1..l : s[n] = WithDomain(s[n - 1], d[n])
  BY <1>1, SplitsAt
<1>3. PICK T : T = {n \in Nat : Good(s[n], d, n)}
  OBVIOUS
<1>4. 0 \in T
  <2>1. PICK B : B = Seq(DOMAIN Bytes)
    OBVIOUS
  <2>2. <<>> \in Seq(B) /\ 1..Len(<<>>) = {} /\ 1..0 = {}
    OBVIOUS
  <2>3. Good(<<>>, d, 0)
    BY <2>1, <2>2 DEF Good
  <2> QED
    BY <1>2, <1>3, <2>3
<1>5. ASSUME NEW n \in 1..l, n - 1 \in T PROVE n \in T
  <2>1. Good(s[n - 1], d, n - 1) /\ n \in 1..Len(d) /\ n \in Nat
    BY <1>1, <1>3, <1>5
  <2>2. Good(WithDomain(s[n - 1], d[n]), d, n)
    BY <2>1, WithDomainGood
  <2> QED
    BY <1>2, <1>3, <2>1, <2>2
<1>6. 0..l \subseteq T
  BY <1>1, <1>3, <1>4, <1>5, UpTo
<1>7. Good(s[l], d, l)
  BY <1>1, <1>3, <1>6
<1> QED
  BY <1>1, <1>7 DEF Batches

\* The j-th domain is in chunk (j - 1) \div MaxDomains + 1.
LEMMA ChunksCover ==
    ASSUME NEW S, NEW d \in Seq(S), MaxDomains \in Nat \ {0}, NEW cs, cs = Chunks(d),
           NEW j \in 1..Len(d)
    PROVE  \E i \in 1..Len(cs) : Holds(cs[i], d[j])
<1>1. PICK m, l, c, q : /\ m = MaxDomains /\ l = Len(d)
                        /\ c = (l + m - 1) \div m /\ q = (j - 1) \div m
  OBVIOUS
<1>2. m \in Nat \ {0} /\ l \in Nat /\ j \in Nat /\ j >= 1 /\ j <= l
  BY <1>1
<1>3. PICK a, e : a = l + m - 1 /\ e = j - 1 /\ a \in Nat /\ e \in Nat
  BY <1>2
<1>4. c \in Nat /\ q \in Nat
  BY <1>1, <1>2, <1>3, Division
<1>5. a < c * m + m /\ q * m <= e /\ e < q * m + m
  BY <1>1, <1>2, <1>3, Division
<1>6. q < c
  <2>1. q * m < c * m
    BY <1>2, <1>3, <1>4, <1>5
  <2>2. ASSUME c <= q PROVE FALSE
    <3>1. PICK z \in Nat : q = c + z
      BY <1>4, <2>2
    <3>2. q * m = c * m + z * m /\ z * m >= 0
      BY <1>2, <1>4, <3>1
    <3> QED
      BY <1>2, <1>4, <2>1, <3>1, <3>2
  <2> QED
    BY <1>4, <2>2
<1>7. PICK i : i = q + 1 /\ i \in 1..c
  BY <1>4, <1>6
<1>8. PICK x, y : x = q * m + 1 /\ y = IF q * m + m < l THEN q * m + m ELSE l
  OBVIOUS
<1>9. x \in Nat \ {0} /\ y \in Nat /\ y <= l /\ j \in x..y
  BY <1>2, <1>3, <1>4, <1>5, <1>8
<1>10. Len(cs) = c
  BY <1>1, ChunksCount
<1>11. cs[i] = SubSeq(d, x, y)
  <2>1. (i - 1) * m + 1 = x /\ i * m = q * m + m
    BY <1>2, <1>4, <1>7, <1>8
  <2> QED
    BY <1>1, <1>7, <1>8, <2>1 DEF Chunks
<1>12. PICK b : b = SubSeq(d, x, y)
  OBVIOUS
<1>13. b[j - x + 1] = d[j] /\ Len(b) = y - x + 1
  BY <1>1, <1>9, <1>12
<1>14. j - x + 1 \in 1..Len(b)
  BY <1>9, <1>13
<1>15. Holds(b, d[j])
  BY <1>13, <1>14 DEF Holds
<1> QED
  BY <1>7, <1>10, <1>11, <1>12, <1>15

-----------------------------------------------------------------------------
(* What was written is what the host routes. *)

Distinct(es, n) == \A i, j \in 1..n : es[i].key = es[j].key => i = j

LEMMA WrittenAt ==
    ASSUME NEW h, NEW es, NEW n, Distinct(es, n), NEW i \in 1..n, NEW w, w = Written(h, es, n)
    PROVE  /\ es[i].key \in DOMAIN w
           /\ w[es[i].key].batch = es[i].batch /\ w[es[i].key].port = es[i].port
<1>1. PICK k : k = es[i].key
  OBVIOUS
<1>2. (CHOOSE j \in 1..n : es[j].key = k) = i
  BY <1>1 DEF Distinct
<1>3. k \in DOMAIN w
  BY <1>1 DEF Written
<1>4. w[k] = [batch |-> es[i].batch, port |-> es[i].port]
  BY <1>1, <1>2, <1>3 DEF Written
<1> QED
  BY <1>1, <1>3, <1>4

LEMMA WrittenElsewhere ==
    ASSUME NEW h, NEW es, NEW n, NEW k \in DOMAIN h, k \notin KeysOf(es, n)
    PROVE  Written(h, es, n)[k] = h[k]
BY DEF Written, KeysOf

\* Every batch in the host keeps to the limits, whichever Apply left it there; what the
\* last Apply served is routed.
CutInv == platform = "darwin" => \A k \in DOMAIN hostEntries : Limited(hostEntries[k].batch)
RouteInv ==
    \A cfg \in served : ToSet(cfg.search \o cfg.match) \subseteq Routed(cfg.port)
ServeInv == AdapterType /\ CutInv /\ RouteInv

\* Entries under different keys, all for port p, that hold every domain between them.
Covers(es, p, d) ==
    /\ Len(es) \in Nat /\ Distinct(es, Len(es))
    /\ \A i \in 1..Len(es) : es[i].port = p
    /\ \A j \in 1..Len(d) : \E i \in 1..Len(es) : Holds(es[i].batch, d[j])

LEMMA NrptCovers ==
    ASSUME NEW cfg \in DnsConfigs
    PROVE  Covers(NrptEntries(cfg), cfg.port, cfg.search \o cfg.match)
<1>1. PICK d, cs, es, port, kind : /\ d = cfg.search \o cfg.match /\ cs = Chunks(d)
        /\ port = cfg.port /\ kind = "Rule" /\ es = NrptEntries(cfg)
  OBVIOUS
<1>2. d \in Seq(DOMAIN Bytes) /\ MaxDomains \in Nat \ {0}
  BY <1>1, ConfigTyped, AdapterParameters
<1>3. Len(cs) \in Nat
  BY <1>1, <1>2, ChunksCount
<1>4. es = Entries(kind, cs, port)
  BY <1>1 DEF NrptEntries
<1>5. Len(es) = Len(cs)
  BY <1>3, <1>4, EntriesAt
<1>6. \A i \in 1..Len(cs) : es[i].key = <<kind, i>> /\ es[i].batch = cs[i] /\ es[i].port = port
  BY <1>3, <1>4 DEF Entries
<1>7. Distinct(es, Len(es))
  BY <1>5, <1>6 DEF Distinct
<1>8. ASSUME NEW j \in 1..Len(d) PROVE \E i \in 1..Len(es) : Holds(es[i].batch, d[j])
  <2>1. PICK i \in 1..Len(cs) : Holds(cs[i], d[j])
    BY <1>1, <1>2, ChunksCover
  <2> QED
    BY <1>5, <1>6, <2>1
<1> QED
  BY <1>1, <1>3, <1>5, <1>6, <1>7, <1>8 DEF Covers

LEMMA Concatenation ==
    ASSUME NEW s, NEW t, Len(s) \in Nat, Len(t) \in Nat,
           s = [i \in 1..Len(s) |-> s[i]], t = [i \in 1..Len(t) |-> t[i]]
    PROVE  /\ Len(s \o t) = Len(s) + Len(t)
           /\ \A i \in 1..Len(s) : (s \o t)[i] = s[i]
           /\ \A i \in 1..Len(t) : (s \o t)[Len(s) + i] = t[i]
<1>1. PICK l, m : l = Len(s) /\ m = Len(t) /\ l \in Nat /\ m \in Nat
  OBVIOUS
<1>2. PICK S : S = {s[i] : i \in 1..l} \cup {t[i] : i \in 1..m}
  OBVIOUS
<1>3. s \in [1..l -> S] /\ t \in [1..m -> S]
  BY <1>1, <1>2
<1>4. s \in Seq(S) /\ t \in Seq(S)
  BY <1>1, <1>3
<1> QED
  BY <1>1, <1>4

LEMMA ScutilCovers ==
    ASSUME NEW cfg \in DnsConfigs, NEW es, es = ScutilEntries(cfg)
    PROVE  /\ Covers(es, cfg.port, cfg.search \o cfg.match)
           /\ \A i \in 1..Len(es) : Limited(es[i].batch)
<1>1. PICK sd, md, sb, mb, port : /\ sd = cfg.search /\ md = cfg.match /\ port = cfg.port
        /\ sb = Batches(sd) /\ mb = Batches(md)
  OBVIOUS
<1>2. PICK sk, mk : sk = "Search" /\ mk = "Match" /\ sk # mk
  OBVIOUS
<1>3. PICK se, me : se = Entries(sk, sb, port) /\ me = Entries(mk, mb, port)
  OBVIOUS
<1>4. es = se \o me
  BY <1>1, <1>2, <1>3 DEF ScutilEntries
<1>5. sd \in Seq(DOMAIN Bytes) /\ md \in Seq(DOMAIN Bytes)
  BY <1>1, ConfigTyped
<1>6. Good(sb, sd, Len(sd)) /\ Good(mb, md, Len(md))
  BY <1>1, <1>5, SplitLosesNothing
<1>7. Len(sb) \in Nat /\ Len(mb) \in Nat
  BY <1>6 DEF Good
<1>8. PICK l, m : l = Len(sb) /\ m = Len(mb) /\ l \in Nat /\ m \in Nat
  BY <1>7
<1>9. Len(se) = l /\ Len(me) = m /\ se = [i \in 1..l |-> se[i]] /\ me = [i \in 1..m |-> me[i]]
  <2>1. Len(se) = Len(sb) /\ Len(me) = Len(mb)
    <3>1. Len(se) = Len(sb)
      BY <1>3, <1>7, EntriesAt
    <3>2. Len(me) = Len(mb)
      BY <1>3, <1>7, EntriesAt
    <3> QED
      BY <3>1, <3>2
  <2>2. se = [i \in 1..l |-> se[i]] /\ me = [i \in 1..m |-> me[i]]
    BY <1>3, <1>8 DEF Entries
  <2> QED
    BY <1>8, <2>1, <2>2
<1>10. /\ \A i \in 1..l : se[i].key = <<sk, i>> /\ se[i].batch = sb[i] /\ se[i].port = port
       /\ \A i \in 1..m : me[i].key = <<mk, i>> /\ me[i].batch = mb[i] /\ me[i].port = port
  BY <1>3, <1>8 DEF Entries
<1>11. /\ Len(es) = l + m
       /\ \A i \in 1..l : es[i] = se[i]
       /\ \A i \in 1..m : es[l + i] = me[i]
  BY <1>4, <1>8, <1>9, Concatenation
<1>12. \A i \in 1..l : es[i].key = <<sk, i>> /\ es[i].batch = sb[i] /\ es[i].port = port
  BY <1>10, <1>11
<1>13. \A i \in 1..m : es[l + i].key = <<mk, i>> /\ es[l + i].batch = mb[i] /\ es[l + i].port = port
  BY <1>10, <1>11
<1>14. ASSUME NEW i \in 1..(l + m) PROVE i \in 1..l \/ \E k \in 1..m : i = l + k
  <2>1. ~(i \in 1..l) => i - l \in 1..m /\ i = l + (i - l)
    BY <1>8
  <2> QED
    BY <2>1
<1>15. ASSUME NEW i \in 1..Len(es) PROVE es[i].port = port /\ Limited(es[i].batch)
  <2>1. CASE i \in 1..l
    BY <1>8, <1>12, <1>6, <2>1 DEF Good
  <2>2. ASSUME NEW k \in 1..m, i = l + k PROVE es[i].port = port /\ Limited(es[i].batch)
    BY <1>8, <1>13, <1>6, <2>2 DEF Good
  <2> QED
    BY <1>11, <1>14, <2>1, <2>2
<1>16. ASSUME NEW i \in 1..Len(es), NEW j \in 1..Len(es), es[i].key = es[j].key PROVE i = j
  <2>1. CASE i \in 1..l /\ j \in 1..l
    BY <1>12, <1>16, <2>1
  <2>2. ASSUME NEW a \in 1..m, NEW b \in 1..m, i = l + a, j = l + b PROVE i = j
    BY <1>13, <1>16, <2>2
  <2>3. ASSUME i \in 1..l, NEW b \in 1..m, j = l + b PROVE FALSE
    BY <1>2, <1>12, <1>13, <1>16, <2>3
  <2>4. ASSUME j \in 1..l, NEW b \in 1..m, i = l + b PROVE FALSE
    BY <1>2, <1>12, <1>13, <1>16, <2>4
  <2> QED
    BY <1>11, <1>14, <2>1, <2>2, <2>3, <2>4
<1>17. PICK d : d = sd \o md
  OBVIOUS
<1>18. ASSUME NEW j \in 1..Len(d) PROVE \E i \in 1..Len(es) : Holds(es[i].batch, d[j])
  <2>1. CASE j \in 1..Len(sd)
    <3>1. d[j] = sd[j]
      BY <1>5, <1>17, <2>1
    <3>2. PICK i \in 1..l : Holds(sb[i], sd[j])
      BY <1>6, <1>8, <2>1 DEF Good
    <3>3. i \in 1..Len(es)
      BY <1>8, <1>11
    <3> QED
      BY <1>12, <3>1, <3>2, <3>3
  <2>2. CASE j \notin 1..Len(sd)
    <3>1. PICK a : a = j - Len(sd) /\ a \in 1..Len(md) /\ d[j] = md[a]
      BY <1>5, <1>17, <2>2
    <3>2. PICK i \in 1..m : Holds(mb[i], md[a])
      BY <1>6, <1>8, <3>1 DEF Good
    <3>3. l + i \in 1..Len(es)
      BY <1>8, <1>11
    <3> QED
      BY <1>13, <3>1, <3>2, <3>3
  <2> QED
    BY <2>1, <2>2
<1>19. Len(es) \in Nat
  BY <1>8, <1>11
<1> QED
  BY <1>1, <1>15, <1>16, <1>17, <1>18, <1>19 DEF Covers, Distinct

LEMMA CoveredIsRouted ==
    ASSUME platform' # "linux", NEW h, NEW es, NEW p, NEW S, NEW d \in Seq(S), Covers(es, p, d),
           hostEntries' = Written(h, es, Len(es))
    PROVE  ToSet(d) \subseteq Routed(p)'
<1>1. ASSUME NEW j \in 1..Len(d) PROVE d[j] \in Routed(p)'
  <2>1. PICK w, n : w = hostEntries' /\ n = Len(es)
    OBVIOUS
  <2>2. PICK i \in 1..n : Holds(es[i].batch, d[j])
    BY <2>1 DEF Covers
  <2>3. Distinct(es, n) /\ es[i].port = p
    BY <2>1 DEF Covers
  <2>4. PICK k, b : k = es[i].key /\ b = es[i].batch
    OBVIOUS
  <2>5. k \in DOMAIN w /\ w[k].batch = b /\ w[k].port = p
    BY <2>1, <2>3, <2>4, WrittenAt
  <2>6. d[j] \in ToSet(b)
    <3>1. PICK m \in DOMAIN b : b[m] = d[j]
      BY <2>2, <2>4 DEF Holds
    <3> QED
      BY <3>1 DEF ToSet
  <2> QED
    BY <2>1, <2>5, <2>6 DEF Routed
<1>2. \A x \in ToSet(d) : \E j \in 1..Len(d) : x = d[j]
  BY DEF ToSet
<1> QED
  BY <1>1, <1>2

-----------------------------------------------------------------------------
(* The routes are kept, platform by platform. *)

LEMMA LinkRoutes ==
    ASSUME NEW cfg, NEW h, platform' = "linux",
           hostEntries' = LinkDomains(LinkDNS(h, cfg), cfg)
    PROVE  ToSet(cfg.search \o cfg.match) \subseteq Routed(cfg.port)'
<1>1. PICK all, p, x, w : /\ all = cfg.search \o cfg.match /\ p = cfg.port
                          /\ x = LinkDNS(h, cfg) /\ w = hostEntries'
  OBVIOUS
<1>2. CASE all = <<>>
  BY <1>1, <1>2 DEF ToSet
<1>3. CASE all # <<>>
  <2>1. PICK r, es : r = [key |-> "dns", batch |-> <<>>, port |-> p] /\ es = <<r>>
    OBVIOUS
  <2>2. PICK s, fs : s = [key |-> "domains", batch |-> all, port |-> "default"] /\ fs = <<s>>
    OBVIOUS
  <2>3. es[1] = r /\ fs[1] = s /\ 1..1 = {1}
    BY <2>1, <2>2
  <2>4. es[1].key = "dns" /\ es[1].port = p /\ fs[1].key = "domains" /\ fs[1].batch = all
    BY <2>1, <2>2, <2>3
  <2>5. Distinct(es, 1) /\ Distinct(fs, 1)
    BY <2>3 DEF Distinct
  <2>6. x = Written(h, es, 1) /\ w = Written(x, fs, 1)
    BY <1>1, <1>3, <2>1, <2>2 DEF LinkDNS, LinkDomains
  <2>7. "dns" \in DOMAIN x /\ x["dns"].port = p
    <3>1. 1 \in 1..1
      OBVIOUS
    <3>2. es[1].key \in DOMAIN x /\ x[es[1].key].port = es[1].port
      BY <2>5, <2>6, <3>1, WrittenAt
    <3> QED
      BY <2>4, <3>2
  <2>8. "domains" \in DOMAIN w /\ w["domains"].batch = all
    <3>1. 1 \in 1..1
      OBVIOUS
    <3>2. fs[1].key \in DOMAIN w /\ w[fs[1].key].batch = fs[1].batch
      BY <2>5, <2>6, <3>1, WrittenAt
    <3> QED
      BY <2>4, <3>2
  <2>9. "dns" \in DOMAIN w /\ w["dns"].port = p
    <3>1. "dns" \notin KeysOf(fs, 1)
      BY <2>3, <2>4 DEF KeysOf
    <3>2. w["dns"] = x["dns"]
      BY <2>6, <2>7, <3>1, WrittenElsewhere
    <3>3. DOMAIN w = DOMAIN x \cup KeysOf(fs, 1)
      BY <2>6, WrittenDomain
    <3> QED
      BY <2>7, <3>2, <3>3
  <2> QED
    BY <1>1, <2>8, <2>9 DEF Routed
<1> QED
  BY <1>2, <1>3

LEMMA ServeSystemd ==
    ASSUME ServeInv, platform = "linux", UNCHANGED <<platform, ruleCount>>,
           \/ SystemdRestore \/ SystemdGone
           \/ \E cfg \in DnsConfigs : SystemdApply(cfg)
    PROVE  ServeInv'
<1>1. CutInv' /\ platform' = "linux"
  BY DEF CutInv
<1>2. CASE SystemdRestore
  <2>1. AdapterType'
    BY <1>2, NothingTyped DEF SystemdRestore, ServeInv, AdapterType
  <2>2. served' = {}
    BY <1>2 DEF SystemdRestore, Succeeds, Fails, Answers
  <2> QED
    BY <1>1, <2>1, <2>2 DEF ServeInv, RouteInv
<1>3. CASE SystemdGone
  BY <1>1, <1>3 DEF SystemdGone, Answers, ServeInv, RouteInv, AdapterType
<1>4. ASSUME NEW cfg \in DnsConfigs, SystemdApply(cfg) PROVE ServeInv'
  <2>1. hostEntries' \in {hostEntries, LinkDNS(hostEntries, cfg),
                      LinkDomains(LinkDNS(hostEntries, cfg), cfg)}
    BY <1>4 DEF SystemdApply
  <2>2. AdapterType'
    BY <2>1, LinkTyped DEF ServeInv, AdapterType
  <2>3. \/ served' = {}
        \/ served' = {cfg} /\ hostEntries' = LinkDomains(LinkDNS(hostEntries, cfg), cfg)
    BY <1>4 DEF SystemdApply, Succeeds, Fails, Answers
  <2>4. CASE served' = {}
    BY <1>1, <2>2, <2>4 DEF ServeInv, RouteInv
  <2>5. CASE served' = {cfg} /\ hostEntries' = LinkDomains(LinkDNS(hostEntries, cfg), cfg)
    <3>1. ToSet(cfg.search \o cfg.match) \subseteq Routed(cfg.port)'
      BY <1>1, <2>5, LinkRoutes
    <3>2. RouteInv'
      BY <2>5, <3>1 DEF RouteInv
    <3> QED
      BY <1>1, <2>2, <3>2 DEF ServeInv
  <2> QED
    BY <2>3, <2>4, <2>5
<1> QED
  BY <1>2, <1>3, <1>4

LEMMA WrittenLimited ==
    ASSUME NEW h, \A k \in DOMAIN h : Limited(h[k].batch),
           NEW es, NEW n, Distinct(es, n), \A i \in 1..n : Limited(es[i].batch),
           NEW w, w = Written(h, es, n), NEW k \in DOMAIN w
    PROVE  Limited(w[k].batch)
<1>1. CASE k \in KeysOf(es, n)
  <2>1. PICK i \in 1..n : k = es[i].key
    BY <1>1 DEF KeysOf
  <2>2. w[k].batch = es[i].batch
    BY <2>1, WrittenAt
  <2> QED
    BY <2>2
<1>2. CASE k \notin KeysOf(es, n)
  <2>1. k \in DOMAIN h
    <3>1. DOMAIN w = DOMAIN h \cup KeysOf(es, n)
      BY WrittenDomain
    <3> QED
      BY <1>2, <3>1
  <2>2. w[k] = h[k]
    BY <1>2, <2>1, WrittenElsewhere
  <2> QED
    BY <2>1, <2>2
<1> QED
  BY <1>1, <1>2

LEMMA WithoutLimited ==
    ASSUME NEW h, \A k \in DOMAIN h : Limited(h[k].batch), NEW ks, NEW w, w = Without(h, ks)
    PROVE  IsMap(w) /\ \A k \in DOMAIN w : Limited(w[k].batch)
<1>1. DOMAIN w = DOMAIN h \ ks /\ IsMap(w)
  BY WithoutDomain
<1>2. \A k \in DOMAIN w : k \in DOMAIN h /\ w[k] = h[k]
  BY <1>1 DEF Without
<1> QED
  BY <1>1, <1>2

LEMMA ServeScutilApplies ==
    ASSUME ServeInv, NEW cfg \in DnsConfigs, platform = "darwin",
           ScutilApply(cfg), UNCHANGED <<platform, ruleCount>>
    PROVE  ServeInv'
<1>1. PICK stuck \in SUBSET keys :
        LET es == ScutilEntries(cfg)
            cleaned == Without(hostEntries, keys \ stuck)
            booked == StillBooked(stuck)
        IN  \/ /\ hostEntries' = Written(cleaned, es, Len(es))
               /\ keys' = booked \cup {es[i].key : i \in 1..Len(es)}
               /\ Answers("applied", {cfg}) /\ UNCHANGED forgot
               /\ IF stuck = {} THEN UNCHANGED faults ELSE Fault
            \/ \E n \in 0..(Len(es) - 1), late \in {0, 1} :
                 /\ hostEntries' = Written(cleaned, es, n + late)
                 /\ keys' = booked \cup {es[i].key : i \in 1..n}
                 /\ forgot' = (forgot \/ ~(DOMAIN hostEntries' \subseteq keys'))
                 /\ Fails
  BY Zenon DEF ScutilApply
<1>2. PICK es, cleaned, d, p : /\ es = ScutilEntries(cfg) /\ p = cfg.port
        /\ cleaned = Without(hostEntries, keys \ stuck) /\ d = cfg.search \o cfg.match
  OBVIOUS
<1>3. Covers(es, p, d) /\ \A i \in 1..Len(es) : Limited(es[i].batch)
  BY <1>2, ScutilCovers
<1>4. \A k \in DOMAIN cleaned : Limited(cleaned[k].batch)
  <2>1. \A k \in DOMAIN hostEntries : Limited(hostEntries[k].batch)
    BY DEF ServeInv, CutInv
  <2>2. PICK ks : cleaned = Without(hostEntries, ks)
    BY <1>2
  <2> QED
    BY <2>1, <2>2, WithoutLimited
<1>5. ASSUME NEW n \in 0..Len(es), hostEntries' = Written(cleaned, es, n)
      PROVE  AdapterType' /\ CutInv'
  <2>1. Len(es) \in Nat /\ Distinct(es, Len(es))
    BY <1>3 DEF Covers
  <2>2. Distinct(es, n) /\ \A i \in 1..n : Limited(es[i].batch)
    BY <1>3, <2>1 DEF Distinct
  <2>3. PICK w : w = hostEntries'
    OBVIOUS
  <2>4. IsMap(w) /\ \A k \in DOMAIN w : Limited(w[k].batch)
    BY <1>4, <1>5, <2>2, <2>3, WrittenLimited, WrittenDomain
  <2>5. CutInv'
    BY <2>3, <2>4 DEF CutInv, Limited
  <2> QED
    BY <2>3, <2>4, <2>5 DEF AdapterType, ServeInv
<1>6. CASE hostEntries' = Written(cleaned, es, Len(es)) /\ served' = {cfg}
  <2>1. Len(es) \in 0..Len(es)
    BY <1>3 DEF Covers
  <2>2. d \in Seq(DOMAIN Bytes)
    BY <1>2, ConfigTyped
  <2>3. ToSet(d) \subseteq Routed(p)'
    BY <1>3, <1>6, <2>2, CoveredIsRouted
  <2>4. RouteInv'
    BY <1>2, <1>6, <2>3 DEF RouteInv
  <2> QED
    BY <1>5, <1>6, <2>1, <2>4 DEF ServeInv
<1>7. ASSUME NEW n \in 0..Len(es), hostEntries' = Written(cleaned, es, n), served' = {}
      PROVE  ServeInv'
  BY <1>5, <1>7 DEF ServeInv, RouteInv
<1>8. ASSUME NEW n \in 0..(Len(es) - 1), NEW late \in {0, 1} PROVE n + late \in 0..Len(es)
  BY <1>3 DEF Covers
<1> QED
  BY <1>1, <1>2, <1>6, <1>7, <1>8 DEF Answers, Fails

LEMMA ServeScutilRestores ==
    ASSUME ServeInv, platform = "darwin", ScutilRestore, UNCHANGED <<platform, ruleCount>>
    PROVE  ServeInv'
<1>1. PICK ks : hostEntries' = Without(hostEntries, ks)
  BY DEF ScutilRestore
<1>2. served' = {}
  BY DEF ScutilRestore, Succeeds, Fails, Answers
<1>3. PICK w : w = hostEntries'
  OBVIOUS
<1>4. IsMap(w) /\ \A k \in DOMAIN w : Limited(w[k].batch)
  BY <1>1, <1>3, WithoutLimited DEF ServeInv, CutInv
<1>5. CutInv'
  BY <1>3, <1>4 DEF CutInv, Limited
<1> QED
  BY <1>2, <1>3, <1>4, <1>5 DEF ServeInv, AdapterType, RouteInv

LEMMA ServeNrptApplies ==
    ASSUME ServeInv, NEW cfg \in DnsConfigs, platform = "windows",
           NrptApply(cfg) \/ NrptRefuses(cfg), UNCHANGED platform
    PROVE  ServeInv'
<1>1. PICK es, d, p : es = NrptEntries(cfg) /\ p = cfg.port /\ d = cfg.search \o cfg.match
  OBVIOUS
<1>2. Covers(es, p, d) /\ Len(es) \in Nat
  BY <1>1, NrptCovers DEF Covers
<1>3. CutInv'
  BY DEF CutInv
<1>4. CASE NrptRefuses(cfg)
  BY <1>3, <1>4 DEF NrptRefuses, Answers, ServeInv, RouteInv, AdapterType
<1>5. CASE NrptApply(cfg) /\ es = <<>>
  BY <1>1, <1>3, <1>5 DEF NrptApply, Succeeds, Answers, ServeInv, RouteInv, AdapterType
<1>6. CASE NrptApply(cfg) /\ es # <<>>
  <2>1. PICK stuck, cleaned :
          /\ stuck \in SUBSET Rules(ruleCount)
          /\ cleaned = Without(hostEntries, Rules(ruleCount) \ stuck)
          /\ \/ /\ hostEntries' = Written(cleaned, es, Len(es)) /\ ruleCount' = Len(es)
                /\ served' = {cfg}
             \/ \E n \in 0..(Len(es) - 1), created \in {0, 1} :
                  /\ hostEntries' = Written(cleaned, es, n + created) /\ ruleCount' = n
                  /\ served' = {}
    BY <1>1, <1>6 DEF NrptApply, RuleFailed, Fails, Answers
  <2>2. ruleCount' \in Nat
    BY <1>2, <2>1
  <2>3. PICK w, m : w = hostEntries' /\ w = Written(cleaned, es, m)
    BY <2>1
  <2>4. IsMap(w)
    BY <2>3, WrittenDomain
  <2>5. AdapterType'
    BY <2>2, <2>3, <2>4 DEF ServeInv, AdapterType
  <2>6. CASE hostEntries' = Written(cleaned, es, Len(es)) /\ served' = {cfg}
    <3>1. d \in Seq(DOMAIN Bytes)
      BY <1>1, ConfigTyped
    <3>2. ToSet(d) \subseteq Routed(p)'
      BY <1>2, <2>6, <3>1, CoveredIsRouted
    <3>3. RouteInv'
      BY <1>1, <2>6, <3>2 DEF RouteInv
    <3> QED
      BY <1>3, <2>5, <3>3 DEF ServeInv
  <2>7. CASE served' = {}
    BY <1>3, <2>5, <2>7 DEF ServeInv, RouteInv
  <2> QED
    BY <2>1, <2>6, <2>7
<1> QED
  BY <1>4, <1>5, <1>6

LEMMA ServeNrptRestores ==
    ASSUME ServeInv, platform = "windows", NrptRestore, UNCHANGED platform
    PROVE  ServeInv'
<1>1. PICK ks, w : w = hostEntries' /\ w = Without(hostEntries, ks)
  BY DEF NrptRestore
<1>2. ruleCount' = 0 /\ served' = {}
  BY DEF NrptRestore, Succeeds, Fails, Answers
<1>3. IsMap(w)
  BY <1>1 DEF Without, IsMap
<1>4. CutInv'
  BY DEF CutInv
<1> QED
  BY <1>1, <1>2, <1>3, <1>4 DEF ServeInv, AdapterType, RouteInv

LEMMA ServeLinks ==
    ASSUME ServeInv, LinkUp \/ LinkLost \/ Exit \/ UNCHANGED adapterVars
    PROVE  ServeInv'
<1>1. CASE LinkUp \/ UNCHANGED adapterVars
  <2>1. UNCHANGED <<platform, hostEntries, ruleCount, served>>
    BY <1>1 DEF LinkUp, adapterVars, bookVars
  <2> QED
    BY <2>1 DEF ServeInv, AdapterType, CutInv, RouteInv, Routed
<1>2. CASE LinkLost \/ Exit
  <2>1. /\ served' = {} /\ platform' = platform /\ (ruleCount' = ruleCount \/ ruleCount' = 0)
        /\ hostEntries' = IF platform = "linux" THEN NoEntries ELSE hostEntries
    BY <1>2 DEF LinkLost, Exit, LinkGone, Answers, bookVars
  <2>2. AdapterType'
    BY <2>1, NothingTyped DEF ServeInv, AdapterType
  <2>3. CutInv'
    BY <2>1 DEF ServeInv, CutInv
  <2> QED
    BY <2>1, <2>2, <2>3 DEF ServeInv, RouteInv
<1> QED
  BY <1>1, <1>2

LEMMA ServeKept ==
    ASSUME ServeInv, [AdapterNext]_adapterVars
    PROVE  ServeInv'
<1>1. ASSUME NEW cfg \in DnsConfigs, AdapterApply(cfg) PROVE ServeInv'
  <2>1. CASE platform = "linux"
    <3>1. UNCHANGED <<platform, ruleCount>> /\ (SystemdApply(cfg) \/ SystemdGone)
      BY <1>1, <2>1 DEF AdapterApply
    <3> QED
      BY <2>1, <3>1, ServeSystemd
  <2>2. CASE platform = "darwin"
    BY <1>1, <2>2, ServeScutilApplies DEF AdapterApply
  <2>3. CASE platform = "windows"
    BY <1>1, <2>3, ServeNrptApplies DEF AdapterApply
  <2> QED
    BY <2>1, <2>2, <2>3 DEF ServeInv, AdapterType
<1>2. CASE AdapterRestore
  <2>1. CASE platform = "linux"
    <3>1. UNCHANGED <<platform, ruleCount>> /\ SystemdRestore
      BY <1>2, <2>1 DEF AdapterRestore
    <3> QED
      BY <2>1, <3>1, ServeSystemd
  <2>2. CASE platform = "darwin"
    BY <1>2, <2>2, ServeScutilRestores DEF AdapterRestore
  <2>3. CASE platform = "windows"
    BY <1>2, <2>3, ServeNrptRestores DEF AdapterRestore
  <2> QED
    BY <2>1, <2>2, <2>3 DEF ServeInv, AdapterType
<1> QED
  BY <1>1, <1>2, ServeLinks DEF AdapterNext

(***************************************************************************)
(* After an Apply that returned nil the host routes every domain of the    *)
(* configuration to its port, and no scutil key passes the limits, however *)
(* many domains there are, of whatever lengths, and whatever failed        *)
(* before (Apply, splitDomainsIntoBatches).                                *)
(***************************************************************************)
THEOREM AppliedAlwaysServed ==
    AdapterSpec => []AppliedIsServed
<1>1. AdapterInit => ServeInv
  BY NothingTyped, AdapterParameters DEF AdapterInit, ServeInv, AdapterType, CutInv,
     RouteInv
<1>2. ServeInv /\ [AdapterNext]_adapterVars => ServeInv'
  BY ServeKept
<1>3. ServeInv => AppliedIsServed
  BY DEF ServeInv, CutInv, RouteInv, Limited, AppliedIsServed
<1> QED
  BY <1>1, <1>2, <1>3, PTL DEF AdapterSpec

=============================================================================
