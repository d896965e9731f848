------------------------------ MODULE HostDns -------------------------------
(***************************************************************************)
(* Host DNS: which resolver the operating system asks for the mesh's names.*)
(* The daemon applies either the mesh's own nameservers ("direct") or the  *)
(* names forwarder on loopback ("fronted"), re-applies on a health change  *)
(* of the forwarder and restores the host's own settings on teardown       *)
(* (internal/daemon applyDNS ... restoreDNS, internal/names Forwarder).    *)
(*                                                                         *)
(* Three kinds of goroutine meet here without a common lock: the handlers  *)
(* that connect and tear down, the forwarder's supervise loop, and one     *)
(* detached goroutine per health change.  Each step is one section under   *)
(* d.mu, under the forwarder's lock, or one call of the host adapter.      *)
(*                                                                         *)
(* Left out: the answers the forwarder gives, the delays of its ladder,    *)
(* the process's end.                                                      *)
(***************************************************************************)
EXTENDS Naturals

CONSTANTS
    Conns,          \* IPC connections
    Configs,        \* direct DNS configurations a tunnel configuration yields
    Rungs,          \* length of the forwarder's ladder of rebind delays
    MaxChanges,     \* bound on health changes in a behaviour
    MaxCalls,       \* bound on applyDNS and restoreDNS calls
    NamesFronting,  \* the fronting knob
    PortSupported,  \* the host adapter can name a port
    MayFail,        \* whether the host adapter may fail
    None

Resolver == [kind : {"direct", "fronted"}, cfg : Configs]

ASSUME HostDnsAssumption ==
    /\ Rungs \in Nat \ {0} /\ MaxChanges \in Nat /\ MaxCalls \in Nat
    /\ NamesFronting \in BOOLEAN /\ PortSupported \in BOOLEAN /\ MayFail \in BOOLEAN
    /\ None \notin Configs /\ None \notin Resolver
    /\ Conns \cap (1..MaxChanges) = {}

Callbacks == 1..MaxChanges
Actors == Conns \cup Callbacks

VARIABLES
    fwd,            \* the forwarder: "off" (its bind failed), "serving", "rebinding"
    rung, healthy,  \* place on the ladder; Forwarder.healthy
    portFree,       \* the forwarder's address can be bound
    upstreams,      \* what the forwarder forwards to: a configuration
    lastDNS,        \* d.lastDNS: the configuration to re-apply
    host,           \* what the host adapter last installed
    pc, loc,        \* per actor: its place, the configuration it works with
    changes, calls, \* counters of the bounds
    overlap,        \* history: two actors were at work at once
    failed          \* history: the host adapter failed

fwdVars == <<fwd, rung, healthy, portFree>>
histVars == <<changes, calls, overlap, failed>>
vars == <<fwd, rung, healthy, portFree, upstreams, lastDNS, host, pc, loc,
          changes, calls, overlap, failed>>

Init ==
    /\ fwd \in {"off", "serving"}
    /\ healthy = (fwd = "serving")
    /\ rung = 0
    /\ portFree \in BOOLEAN
    /\ upstreams = None /\ lastDNS = None /\ host = None
    /\ pc = [a \in Actors |-> "idle"]
    /\ loc = [a \in Actors |-> None]
    /\ changes = 0 /\ calls = 0
    /\ overlap = FALSE /\ failed = FALSE

Begin(a, at, c) ==
    /\ pc' = [pc EXCEPT ![a] = at]
    /\ loc' = [loc EXCEPT ![a] = c]
    /\ overlap' = (overlap \/ \E o \in Actors : pc[o] # "idle")

Goto(a, to, c) ==
    /\ pc' = [pc EXCEPT ![a] = to]
    /\ loc' = [loc EXCEPT ![a] = c]

Done(a) == Goto(a, "idle", None)

-----------------------------------------------------------------------------
(* The forwarder's supervise loop. *)

(* setHealthy: record the flag, and on a change start the daemon's         *)
(* onForwarderState on a goroutine of its own.                             *)
SetHealthy(up) ==
    /\ healthy' = up
    /\ IF healthy # up
         THEN /\ changes < MaxChanges
              /\ changes' = changes + 1
              /\ Begin(changes + 1, "stateRead", None)
         ELSE UNCHANGED <<changes, pc, loc, overlap>>

ServeEnds ==
    /\ fwd = "serving"
    /\ fwd' = "rebinding"
    /\ rung' = 0
    /\ UNCHANGED <<healthy, portFree, upstreams, lastDNS, host, pc, loc, histVars>>

(* Every delay of the ladder was waited for in vain. *)
LadderExhausted ==
    /\ fwd = "rebinding" /\ rung = Rungs /\ healthy
    /\ SetHealthy(FALSE)
    /\ UNCHANGED <<fwd, rung, portFree, upstreams, lastDNS, host, calls, failed>>

(* A delay passed.  After the last rung the retries go on at its delay.    *)
MayRebind_OnLadder == fwd = "rebinding" /\ rung < Rungs
MayRebind == fwd = "rebinding" /\ (rung = Rungs => ~healthy)

NextRung_Unclamped == rung + 1
NextRung == IF rung < Rungs THEN rung + 1 ELSE rung

RebindFails ==
    /\ MayRebind /\ ~portFree
    /\ rung' = NextRung
    /\ UNCHANGED <<fwd, healthy, portFree, upstreams, lastDNS, host, pc, loc, histVars>>

Rebinds_Unreported ==
    /\ MayRebind /\ portFree
    /\ fwd' = "serving"
    /\ UNCHANGED <<rung, healthy, portFree, upstreams, lastDNS, host, pc, loc, histVars>>

Rebinds ==
    /\ MayRebind /\ portFree
    /\ fwd' = "serving"
    /\ SetHealthy(TRUE)
    /\ UNCHANGED <<rung, portFree, upstreams, lastDNS, host, calls, failed>>

(* External: another process takes or frees the address. *)
PortChange ==
    /\ fwd # "serving"
    /\ portFree' = ~portFree
    /\ UNCHANGED <<fwd, rung, healthy, upstreams, lastDNS, host, pc, loc, histVars>>

-----------------------------------------------------------------------------
(* applyDNS, called when the tunnel came up: feed the forwarder, record    *)
(* the configuration, apply it.                                            *)
ApplyDNS(c, cfg) ==
    /\ pc[c] = "idle"
    /\ calls < MaxCalls
    /\ calls' = calls + 1
    /\ upstreams' = cfg
    /\ Begin(c, "record", cfg)
    /\ UNCHANGED <<fwdVars, lastDNS, host, changes, failed>>

Record(c) ==
    /\ pc[c] = "record"
    /\ lastDNS' = loc[c]
    /\ Goto(c, "choose", loc[c])
    /\ UNCHANGED <<fwdVars, upstreams, host, histVars>>

(* onForwarderState: nothing to do without a recorded configuration.       *)
StateRead(k) ==
    /\ pc[k] = "stateRead"
    /\ IF lastDNS = None THEN Done(k) ELSE Goto(k, "choose", lastDNS)
    /\ UNCHANGED <<fwdVars, upstreams, lastDNS, host, histVars>>

(* applyDNSCurrent reads the forwarder's health, then calls the adapter.   *)
Variant_Always(up) == "fronted"
Variant(up) == IF NamesFronting /\ up THEN "fronted" ELSE "direct"

Choose(a) ==
    /\ pc[a] = "choose"
    /\ Goto(a, Variant(healthy), loc[a])
    /\ UNCHANGED <<fwdVars, upstreams, lastDNS, host, histVars>>

ApplyFronted(a) ==
    /\ pc[a] = "fronted"
    /\ \/ /\ PortSupported
          /\ host' = [kind |-> "fronted", cfg |-> loc[a]]
          /\ Done(a)
       \/ /\ MayFail \/ ~PortSupported
          /\ Goto(a, "direct", loc[a])
          /\ UNCHANGED host
    /\ UNCHANGED <<fwdVars, upstreams, lastDNS, histVars>>

ApplyDirect(a) ==
    /\ pc[a] = "direct"
    /\ \/ /\ host' = [kind |-> "direct", cfg |-> loc[a]]
          /\ UNCHANGED failed
       \/ /\ MayFail
          /\ failed' = TRUE
          /\ UNCHANGED host
    /\ Done(a)
    /\ UNCHANGED <<fwdVars, upstreams, lastDNS, changes, calls, overlap>>

(* restoreDNS: forget the configuration, then restore the host. *)
RestoreDNS(c) ==
    /\ pc[c] = "idle"
    /\ calls < MaxCalls
    /\ calls' = calls + 1
    /\ lastDNS' = None
    /\ Begin(c, "restore", None)
    /\ UNCHANGED <<fwdVars, upstreams, host, changes, failed>>

Restore(c) ==
    /\ pc[c] = "restore"
    /\ \/ host' = None /\ UNCHANGED failed
       \/ MayFail /\ failed' = TRUE /\ UNCHANGED host
    /\ Done(c)
    /\ UNCHANGED <<fwdVars, upstreams, lastDNS, changes, calls, overlap>>

-----------------------------------------------------------------------------
Supervise == LadderExhausted \/ RebindFails \/ Rebinds

Work(a) == Record(a) \/ StateRead(a) \/ Choose(a) \/ ApplyFronted(a) \/ ApplyDirect(a)
             \/ Restore(a)

Next ==
    \/ ServeEnds \/ Supervise \/ PortChange
    \/ \E c \in Conns : (\E cfg \in Configs : ApplyDNS(c, cfg)) \/ RestoreDNS(c)
    \/ \E a \in Actors : Work(a)

(* The supervise loop's timers fire and every goroutine is scheduled.      *)
Fairness == WF_vars(Supervise) /\ \A a \in Actors : WF_vars(Work(a))

Spec == Init /\ [][Next]_vars /\ Fairness

-----------------------------------------------------------------------------
(* The forwarder, the recorded and the installed configuration and the     *)
(* goroutines' places are well formed.                                     *)
TypeOK ==
    /\ fwd \in {"off", "serving", "rebinding"} /\ rung \in 0..Rungs
    /\ healthy \in BOOLEAN /\ portFree \in BOOLEAN
    /\ upstreams \in Configs \cup {None} /\ lastDNS \in Configs \cup {None}
    /\ host \in Resolver \cup {None}
    /\ pc \in [Actors -> {"idle", "record", "stateRead", "choose", "fronted", "direct",
                          "restore"}]
    /\ loc \in [Actors -> Configs \cup {None}]
    /\ changes \in 0..MaxChanges /\ calls \in 0..MaxCalls
    /\ overlap \in BOOLEAN /\ failed \in BOOLEAN

Quiet == \A a \in Actors : pc[a] = "idle"

(* As long as no two of them ran at once and the adapter obeyed, the host  *)
(* is on the recorded configuration or on its own, and asks the forwarder  *)
(* only while that is healthy and forwards to the same configuration.      *)
HostFollowsForwarder ==
    Quiet /\ ~overlap /\ ~failed =>
        IF lastDNS = None THEN host = None
        ELSE /\ host # None /\ host.cfg = lastDNS
             /\ host.kind = "fronted" => healthy /\ upstreams = lastDNS

(* An answering forwarder is a healthy one: whoever reads the flag after   *)
(* a rebind fronts again, on whatever rung the listener came back.         *)
ServingIsHealthy == fwd = "serving" => healthy

(* "retries continue at the last delay": a lost listener is back as soon   *)
(* as its address stays free, however long the ladder was exhausted.       *)
ListenerComesBack ==
    (fwd = "rebinding") ~> (fwd = "serving" \/ ~portFree \/ changes = MaxChanges)

=============================================================================
