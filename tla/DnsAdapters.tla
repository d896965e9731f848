----------------------------- MODULE DnsAdapters -----------------------------
(***************************************************************************)
(* The host-DNS adapters (internal/tunnel/dns): systemd-resolved on Linux, *)
(* scutil on macOS, the NRPT on Windows.  Apply points the host at the     *)
(* mesh resolver for a list of domains, Restore takes that back; between   *)
(* the two stand host calls any of which may fail half-way, the adapter's  *)
(* own book of what it registered, and a tunnel interface that is made on  *)
(* the daemon's first connect and stays until the daemon exits, whatever   *)
(* connects and disconnects come in between.                               *)
(*                                                                         *)
(* Each adapter holds its mutex for the whole of Apply and of Restore: a   *)
(* call is one action, and the host call that fails in it is chosen.  A    *)
(* host entry is a key with the domains and the port registered under it.  *)
(***************************************************************************)
EXTENDS Naturals, Sequences, FiniteSets, SequencesExt

CONSTANTS
    Platforms,      \* a subset of {"linux", "darwin", "windows"}
    DnsConfigs,     \* configurations the daemon applies
    Bytes,          \* length of each domain
    MaxDomains,     \* scutilMaxDomainsPerKey, nrptMaxDomainsPerRule
    MaxBytes,       \* scutilMaxBytesPerKey
    MaxFaults       \* bound on failing host calls and exits

ASSUME AdapterParameters ==
    /\ Platforms \subseteq {"linux", "darwin", "windows"}
    /\ MaxDomains \in Nat \ {0} /\ MaxBytes \in Nat /\ MaxFaults \in Nat
    /\ \A d \in DOMAIN Bytes : Bytes[d] \in Nat \ {0}
    /\ DnsConfigs \subseteq [search : Seq(DOMAIN Bytes), match : Seq(DOMAIN Bytes),
                             port : {"default", "front"}]

VARIABLES
    platform,
    device,         \* this daemon has made its tunnel interface
    link,           \* the interface is there
    hostEntries,    \* host entries of ours: key -> [batch, port]
    path, applied,  \* Linux: whether the link is memoised, whether Apply got through
    keys,           \* macOS: createdKeys
    ruleCount,      \* Windows
    outcome,        \* history: what the last call came to: "applied", "restored",
                    \* else "none"
    served,         \* history: the configuration, after "applied" (else empty)
    faults,         \* history: faults so far
    forgot          \* history: the adapter lost track of an entry

bookVars == <<path, applied, keys, ruleCount>>
adapterVars == <<platform, device, link, hostEntries, bookVars, outcome, served, faults, forgot>>

NoEntries == [k \in {} |-> {}]

AdapterInit ==
    /\ platform \in Platforms /\ device = FALSE /\ link = FALSE /\ hostEntries = NoEntries
    /\ path = FALSE /\ applied = FALSE /\ keys = {} /\ ruleCount = 0
    /\ outcome = "none" /\ served = {} /\ faults = 0 /\ forgot = FALSE

-----------------------------------------------------------------------------
(* Keys and batches.                                                       *)

Joined(batch) == IF batch = <<>> THEN 0
                 ELSE FoldLeft(LAMBDA n, d : n + Bytes[d], Len(batch) - 1, batch)

\* A plausible mistake: the check comes after the domain was added.
Fits_Late(batch, d) == Len(batch) <= MaxDomains /\ Joined(batch) <= MaxBytes

\* A domain joins the current batch if neither limit is passed; the first always does.
Fits(batch, d) ==
    batch # <<>> => Len(batch) < MaxDomains /\ Joined(Append(batch, d)) <= MaxBytes

WithDomain(bs, d) ==
    IF bs # <<>> /\ Fits(bs[Len(bs)], d)
    THEN [bs EXCEPT ![Len(bs)] = Append(@, d)] ELSE Append(bs, <<d>>)

\* splitDomainsIntoBatches: the batches after each number of domains.
Splits(domains) ==
    LET split[n \in 0..Len(domains)] ==
            IF n = 0 THEN <<>> ELSE WithDomain(split[n - 1], domains[n])
    IN  split
Batches(domains) == Splits(domains)[Len(domains)]

\* The NRPT rules: the domains by MaxDomains.
Chunks(domains) ==
    [i \in 1..((Len(domains) + MaxDomains - 1) \div MaxDomains) |->
        SubSeq(domains, (i - 1) * MaxDomains + 1,
               IF i * MaxDomains < Len(domains) THEN i * MaxDomains ELSE Len(domains))]

\* The entries of a kind, in the order they are written.
Entries(kind, batches, port) ==
    [i \in 1..Len(batches) |-> [key |-> <<kind, i>>, batch |-> batches[i], port |-> port]]
ScutilEntries(cfg) ==
    Entries("Search", Batches(cfg.search), cfg.port)
        \o Entries("Match", Batches(cfg.match), cfg.port)
NrptEntries(cfg) == Entries("Rule", Chunks(cfg.search \o cfg.match), cfg.port)

\* The host after the first n of some entries were written.
Written(h, es, n) ==
    [k \in DOMAIN h \cup {es[i].key : i \in 1..n} |->
        IF \E i \in 1..n : es[i].key = k
        THEN LET e == es[CHOOSE i \in 1..n : es[i].key = k] IN [batch |-> e.batch, port |-> e.port]
        ELSE h[k]]

Without(h, ks) == [k \in DOMAIN h \ ks |-> h[k]]

-----------------------------------------------------------------------------
(* Outcomes.                                                               *)

Fault == faults < MaxFaults /\ faults' = faults + 1
Answers(o, cfgs) == outcome' = o /\ served' = cfgs
Succeeds(o, cfgs) == Answers(o, cfgs) /\ UNCHANGED faults
Fails == Answers("none", {}) /\ Fault

-----------------------------------------------------------------------------
(* Linux.                                                                  *)

\* An interface that is gone: resolveLink does not find it, or the memoised link knows no
\* methods any more.
SystemdGone ==
    /\ ~link
    /\ Answers("none", {}) /\ UNCHANGED <<hostEntries, path, applied, faults, forgot>>

LinkDNS(h, cfg) == Written(h, <<[key |-> "dns", batch |-> <<>>, port |-> cfg.port]>>, 1)
LinkDomains(h, cfg) ==
    LET all == cfg.search \o cfg.match
    IN  IF all = <<>> THEN h
        ELSE Written(h, <<[key |-> "domains", batch |-> all, port |-> "default"]>>, 1)

\* resolveLink, which memoises the link; SetDNS or SetDNSEx, the settings that only log,
\* SetDomains.  A call that timed out may have taken effect.  applied is set at the end: a
\* failure of SetDomains on a fresh link leaves a resolver behind that Restore will not
\* take back.
SystemdApply(cfg) ==
    /\ link
    /\ \/ /\ path' = TRUE /\ applied' = TRUE
          /\ hostEntries' = LinkDomains(LinkDNS(hostEntries, cfg), cfg)
          /\ Succeeds("applied", {cfg}) /\ UNCHANGED forgot
       \/ Fails /\ UNCHANGED <<hostEntries, path, applied, forgot>>
       \/ /\ Fails /\ path' = TRUE /\ UNCHANGED applied
          /\ hostEntries' \in {hostEntries, LinkDNS(hostEntries, cfg),
                               LinkDomains(LinkDNS(hostEntries, cfg), cfg)}
          /\ forgot' = (forgot \/ (~applied /\ hostEntries' # hostEntries))

\* Revert; an interface that is gone took its settings along.
SystemdRestore ==
    \/ /\ ~applied \/ ~path
       /\ Succeeds("restored", {}) /\ UNCHANGED <<hostEntries, path, applied, forgot>>
    \/ /\ applied /\ path /\ link
       /\ \/ /\ hostEntries' = NoEntries /\ applied' = FALSE
             /\ Succeeds("restored", {}) /\ UNCHANGED <<path, forgot>>
          \/ /\ Fails /\ hostEntries' \in {hostEntries, NoEntries}
             /\ UNCHANGED <<path, applied, forgot>>
    \/ /\ applied /\ path /\ ~link
       /\ applied' = FALSE /\ path' = FALSE
       /\ Succeeds("restored", {}) /\ UNCHANGED <<hostEntries, forgot>>

-----------------------------------------------------------------------------
(* macOS.                                                                  *)

\* A plausible mistake: the keys of the last Apply are dropped from the book whether or
\* not they could be removed.
StillBooked_None(stuck) == {}

\* removeKeysContaining: a key that could not be removed stays in the book.
StillBooked(stuck) == stuck

\* Apply removes the keys of the last one (a failure is logged), then writes key by key
\* until one fails, having taken effect or not.
ScutilApply(cfg) ==
    \E stuck \in SUBSET keys :
        LET es == ScutilEntries(cfg)
            cleaned == Without(hostEntries, keys \ stuck)
            booked == StillBooked(stuck)
        IN     \/ /\ hostEntries' = Written(cleaned, es, Len(es))
                  /\ keys' = booked \cup {es[i].key : i \in 1..Len(es)}
                  /\ Answers("applied", {cfg}) /\ UNCHANGED forgot
                  /\ IF stuck = {} THEN UNCHANGED faults ELSE Fault
               \/ \E n \in 0..(Len(es) - 1), late \in {0, 1} :
                      /\ hostEntries' = Written(cleaned, es, n + late)
                      /\ keys' = booked \cup {es[i].key : i \in 1..n}
                      /\ forgot' = (forgot \/ ~(DOMAIN hostEntries' \subseteq keys'))
                      /\ Fails

\* Restore removes every key and empties the book, failures or not.
ScutilRestore ==
    \E stuck \in SUBSET keys :
        /\ hostEntries' = Without(hostEntries, keys \ stuck) /\ keys' = {}
        /\ forgot' = (forgot \/ stuck # {})
        /\ IF stuck = {} THEN Succeeds("restored", {}) ELSE Fails

-----------------------------------------------------------------------------
(* Windows.                                                                *)

Rules(n) == {<<"Rule", i>> : i \in 1..n}

\* NRPT cannot express a port: the daemon falls back to the direct configuration.
NrptRefuses(cfg) ==
    /\ cfg.port # "default"
    /\ Answers("none", {}) /\ UNCHANGED <<hostEntries, ruleCount, faults, forgot>>

\* The host when rule n + 1 could not be written: its key was created first, or not.
RuleFailed(h, es, n, created) == Written(h, es, n + created)

\* removeRulesLocked deletes the rules counted and forgets the count, failures or not;
\* then rule by rule, until one fails, before its key was created or after.
NrptApply(cfg) ==
    LET es == NrptEntries(cfg)
    IN  /\ cfg.port = "default"
        /\ \/ /\ es = <<>> /\ Succeeds("none", {})
              /\ UNCHANGED <<hostEntries, ruleCount, forgot>>
           \/ /\ es # <<>>
              /\ \E stuck \in SUBSET Rules(ruleCount) :
                    LET cleaned == Without(hostEntries, Rules(ruleCount) \ stuck)
                    IN  \/ /\ hostEntries' = Written(cleaned, es, Len(es))
                           /\ ruleCount' = Len(es)
                           /\ forgot' = (forgot \/ ~(stuck \subseteq Rules(Len(es))))
                           /\ Answers("applied", {cfg})
                           /\ IF stuck = {} THEN UNCHANGED faults ELSE Fault
                        \/ \E n \in 0..(Len(es) - 1), created \in {0, 1} :
                               /\ hostEntries' = RuleFailed(cleaned, es, n, created)
                               /\ ruleCount' = n
                               /\ forgot' = (forgot \/ created = 1 \/ ~(stuck \subseteq Rules(n)))
                               /\ Fails

NrptRestore ==
    \E stuck \in SUBSET Rules(ruleCount) :
        /\ hostEntries' = Without(hostEntries, Rules(ruleCount) \ stuck) /\ ruleCount' = 0
        /\ forgot' = (forgot \/ stuck # {})
        /\ IF stuck = {} THEN Succeeds("restored", {}) ELSE Fails

-----------------------------------------------------------------------------
(* The daemon and the tunnel.                                              *)

\* applyDNS after a connect, or again as the forwarder's health changes.
AdapterApply(cfg) ==
    /\ device
    /\ \/ /\ platform = "linux"
          /\ SystemdApply(cfg) \/ SystemdGone
          /\ UNCHANGED <<keys, ruleCount>>
       \/ platform = "darwin" /\ ScutilApply(cfg) /\ UNCHANGED <<path, applied, ruleCount>>
       \/ /\ platform = "windows"
          /\ NrptApply(cfg) \/ NrptRefuses(cfg)
          /\ UNCHANGED <<path, applied, keys>>
    /\ UNCHANGED <<platform, device, link>>

\* restoreDNS, before the tunnel goes down or again at shutdown.
AdapterRestore ==
    /\ \/ platform = "linux" /\ SystemdRestore /\ UNCHANGED <<keys, ruleCount>>
       \/ platform = "darwin" /\ ScutilRestore /\ UNCHANGED <<path, applied, ruleCount>>
       \/ platform = "windows" /\ NrptRestore /\ UNCHANGED <<path, applied, keys>>
    /\ UNCHANGED <<platform, device, link>>

\* The first connect opens the device; later ones find it (Down keeps the device).
LinkUp ==
    /\ ~device /\ device' = TRUE /\ link' = TRUE
    /\ UNCHANGED <<platform, hostEntries, bookVars, outcome, served, faults, forgot>>

\* What resolved knew of a link goes with it.
LinkGone ==
    /\ link' = FALSE /\ hostEntries' = IF platform = "linux" THEN NoEntries ELSE hostEntries

\* The interface is removed under the daemon.
LinkLost ==
    /\ link /\ LinkGone
    /\ Answers("none", {})
    /\ UNCHANGED <<platform, device, bookVars, faults, forgot>>

\* The daemon exits, with or without a shutdown, and starts again: its book is lost, its
\* interface goes.
Exit ==
    /\ Fault /\ LinkGone /\ device' = FALSE
    /\ path' = FALSE /\ applied' = FALSE /\ keys' = {} /\ ruleCount' = 0
    /\ forgot' = (forgot \/ hostEntries' # NoEntries)
    /\ Answers("none", {})
    /\ UNCHANGED platform

AdapterNext ==
    \/ \E cfg \in DnsConfigs : AdapterApply(cfg)
    \/ AdapterRestore \/ LinkUp \/ LinkLost \/ Exit

AdapterSpec == AdapterInit /\ [][AdapterNext]_adapterVars

-----------------------------------------------------------------------------
(* Properties.                                                             *)

\* The domains the host sends to our resolver on a port.
Routed(port) ==
    IF platform = "linux"
    THEN IF /\ {"dns", "domains"} \subseteq DOMAIN hostEntries
            /\ hostEntries["dns"].port = port
         THEN ToSet(hostEntries["domains"].batch) ELSE {}
    ELSE UNION {ToSet(hostEntries[k].batch) :
                   k \in {k \in DOMAIN hostEntries : hostEntries[k].port = port}}

\* After an Apply that returned nil, whatever failed before, the host routes every
\* domain of the configuration to its port, and no key carries more than the host tool
\* takes (Apply, splitDomainsIntoBatches).
AppliedIsServed ==
    \A cfg \in served :
        /\ ToSet(cfg.search \o cfg.match) \subseteq Routed(cfg.port)
        /\ platform = "darwin" => \A k \in DOMAIN hostEntries :
               LET b == hostEntries[k].batch
               IN  Len(b) # 1 => Len(b) <= MaxDomains /\ Joined(b) <= MaxBytes

\* A Restore that returned nil left nothing of ours in the host, unless the adapter had
\* lost track of an entry before: by an exit, by a removal that failed in Restore (or,
\* on Windows, in Apply), by a key half written, or by SetDomains failing on a link
\* without our settings (Restore, Apply).
RestoreLeavesNothing == outcome = "restored" /\ ~forgot => hostEntries = NoEntries

\* "Restore removes whatever Apply registered": without the exceptions above.  On Linux
\* the adapter takes nothing back after an Apply that set the resolver and failed to set
\* the domains (Apply, Restore).
RestoreRemovesAll == outcome = "restored" => hostEntries = NoEntries

==============================================================================
