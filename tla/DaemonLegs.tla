----------------------------- MODULE DaemonLegs -----------------------------
(***************************************************************************)
(* The daemon's two legs and the handlers that move them: the outer wg-cp0 *)
(* tunnel behind tunnel.Manager, the inner mesh behind innermesh.Netbird,  *)
(* host DNS, the operator's standing intent meshWanted and the supervisor  *)
(* goroutine that acts on it (internal/daemon, internal/innermesh,         *)
(* internal/tunnel).                                                       *)
(*                                                                         *)
(* A handler first reads the daemon's fields under d.mu and then works     *)
(* through calls, each atomic under the callee's own lock; other handlers  *)
(* and the supervisor interleave between the calls.  prog[a] is what actor *)
(* a still has to do, loc[a] the mesh pointer and mode it read; an early   *)
(* return empties prog[a].  Mesh Start runs outside every lock and may     *)
(* take arbitrarily long.                                                  *)
(*                                                                         *)
(* Left out: which profile is loaded (DaemonProfiles), which resolver the  *)
(* DNS configuration names (HostDns), the supervisor's back-off delays.    *)
(***************************************************************************)
EXTENDS Naturals, Sequences, FiniteSets

CONSTANTS
    Conns,          \* IPC connections
    Bundles,        \* enrolment bundles, each the set of legs it has settings for
    MaxCalls,       \* bound on the requests of a behaviour, Shutdown included
    None

Supervisor == "supervisor"
Main == "main"
Handlers == Conns \cup {Main}
Actors == Handlers \cup {Supervisor}
Modes == {"wg-cp0-only", "netbird-only", "combined"}
IncludesWGCP0(m) == m # "netbird-only"
IncludesNetbird(m) == m # "wg-cp0-only"

ASSUME LegsAssumption ==
    /\ MaxCalls \in Nat
    /\ {Supervisor, Main} \cap Conns = {}
    /\ Bundles \subseteq SUBSET {"outer", "inner"}
    /\ None \notin Nat /\ None \notin Modes /\ None \notin Bundles

(* Bounds that follow from MaxCalls: a request makes at most one mesh, and *)
(* starts at most one client that a later one of the supervisor replaces.  *)
Meshes == 1..(MaxCalls + 1)
Clients == 1..(2 * MaxCalls)
States == {"closed", "configuring", "up", "error"}

VARIABLES
    mode, wanted, handle, bundle,   \* d.currentMode, meshWanted, mesh, currentBundle
    meshState, meshClient, meshClosed, meshCfg,     \* per Netbird object
    running,        \* embed clients started and not stopped
    made,           \* mesh objects made so far
    tunState, tunOpen,              \* tunnel.Manager: state, tun # nil
    dns,            \* the mesh's DNS configuration on the host: none; applied, and no
                    \* Restore tried since; or what a failed call left of it
    reach,          \* the management plane: answers, refuses, or is silent
    prog, loc,      \* per actor: remaining calls, locals
    calls,          \* requests so far
    stopped,        \* Shutdown was called
    crossed,        \* history: two requests were at work at once
    raced,          \* history: the supervisor was at work beside a request
    enabled         \* history: EnableInnerMesh was never called, called with a
                    \* profile loaded, or called "bare", with none

daemonVars == <<mode, wanted, handle, bundle>>
meshVars == <<meshState, meshClient, meshClosed, meshCfg, running>>
tunVars == <<tunState, tunOpen>>
ctlVars == <<calls, stopped, crossed, raced, enabled>>
vars == <<daemonVars, meshVars, made, tunVars, dns, reach, prog, loc, ctlVars>>

NoLoc == [mesh |-> None, mode |-> None, bundle |-> None]

Busy(a) == prog[a] # <<>>

(* New makes a mesh when the configured mode includes it; adopting the     *)
(* active profile then sets its mode and leaves the mesh as it is.         *)
Init ==
    /\ mode \in Modes
    /\ wanted = FALSE
    /\ bundle \in Bundles \cup {None}
    /\ handle \in IF bundle # None THEN {None, 1}
                  ELSE IF IncludesNetbird(mode) THEN {1} ELSE {None}
    /\ made = IF handle = None THEN 0 ELSE 1
    /\ meshState = [m \in Meshes |-> "closed"]
    /\ meshClient = [m \in Meshes |-> None]
    /\ meshClosed = [m \in Meshes |-> FALSE]
    /\ meshCfg = [m \in Meshes |-> FALSE]
    /\ running = {}
    /\ tunState = "closed" /\ tunOpen = FALSE
    /\ dns = "none"
    /\ reach \in {"ok", "refuse", "silent"}
    /\ prog = [a \in Actors |-> <<>>]
    /\ loc = [a \in Actors |-> NoLoc]
    /\ calls = 0
    /\ stopped = FALSE
    /\ crossed = FALSE /\ raced = FALSE /\ enabled = "never"

-----------------------------------------------------------------------------
(* Calls a handler makes, as entries of its program.  abort: an error of   *)
(* this call ends the handler; dns: applyDNS follows a success; bounded:   *)
(* the call goes through connectMesh's deadline.                           *)

Call(op) == [op |-> op, abort |-> FALSE, dns |-> FALSE, bounded |-> FALSE]
TunUp(abort, withDns) == [Call("tunUp") EXCEPT !.abort = abort, !.dns = withDns]
TunDown(abort) == [Call("tunDown") EXCEPT !.abort = abort]
MeshStart(bounded) == [Call("meshStart") EXCEPT !.bounded = bounded]
MeshUp(bounded) == <<Call("meshConfigure"), MeshStart(bounded)>>
TearDownWG_DnsLast == <<TunDown(FALSE), Call("dnsRestore")>>
TearDownWG == <<Call("dnsRestore"), TunDown(FALSE)>>

When(cond, cs) == IF cond THEN cs ELSE <<>>

(* What is left to do after the current call, and the end of a handler. *)
Become(a, p, l) ==
    /\ prog' = [prog EXCEPT ![a] = p]
    /\ loc' = [loc EXCEPT ![a] = IF p = <<>> THEN NoLoc ELSE l]

Proceed(a) == Become(a, Tail(prog[a]), loc[a])

(* The process ends when Shutdown returns. *)
Exited == stopped /\ ~Busy(Main)

At(a, op) == ~Exited /\ Busy(a) /\ Head(prog[a]).op = op

-----------------------------------------------------------------------------
(* tunnel.Manager, every method under its mutex. *)

(* The legs a bundle has the settings of: FromBundle of the tunnel and of  *)
(* the inner mesh fails on the others.                                     *)
HasOuter(b) == "outer" \in b
HasInner(b) == "inner" \in b

(* Configure then Connect, both with the configuration of this handler. An *)
(* error of Configure leaves the state; one of Connect records it.         *)
DoTunUp(a) ==
    LET c == Head(prog[a])
        failed == Become(a, IF c.abort THEN <<>> ELSE Tail(prog[a]), loc[a])
    IN
    /\ At(a, "tunUp")
    /\ \/ /\ tunState' = "up" /\ tunOpen' = TRUE
          /\ Become(a, When(c.dns, <<Call("dnsApply")>>) \o Tail(prog[a]), loc[a])
       \/ tunState' = "error" /\ tunOpen' = TRUE /\ failed
       \/ UNCHANGED tunVars /\ tunOpen /\ c.abort /\ failed
    /\ UNCHANGED <<daemonVars, meshVars, made, dns, reach, ctlVars>>

(* Disconnect: the device is kept; it may refuse to go down. *)
DoTunDown(a) ==
    /\ At(a, "tunDown")
    /\ \/ tunState' = "closed" /\ Proceed(a)
       \/ /\ tunOpen
          /\ tunState' = "error"
          /\ Become(a, IF Head(prog[a]).abort THEN <<>> ELSE Tail(prog[a]), loc[a])
    /\ UNCHANGED <<daemonVars, meshVars, made, tunOpen, dns, reach, ctlVars>>

(* Close drops the device; without one it does not touch the state. *)
TunCloseState_Kept == tunState
TunCloseState == IF tunOpen THEN "closed" ELSE tunState

DoTunClose(a) ==
    /\ At(a, "tunClose")
    /\ tunState' = TunCloseState
    /\ tunOpen' = FALSE
    /\ Proceed(a)
    /\ UNCHANGED <<daemonVars, meshVars, made, dns, reach, ctlVars>>

(* applyDNS: a failing Apply is logged, and leaves the host as it was or   *)
(* with some of the new configuration.                                     *)
DoDnsApply(a) ==
    /\ At(a, "dnsApply")
    /\ dns' \in {"applied", "left", dns}
    /\ Proceed(a)
    /\ UNCHANGED <<daemonVars, meshVars, made, tunVars, reach, ctlVars>>

(* restoreDNS: no caller stops at an error of Restore; all of them go on   *)
(* to take the tunnel down.                                                *)
DoDnsRestore(a) ==
    /\ At(a, "dnsRestore")
    /\ dns' \in IF dns = "none" THEN {"none"} ELSE {"none", "left"}
    /\ Proceed(a)
    /\ UNCHANGED <<daemonVars, meshVars, made, tunVars, reach, ctlVars>>

-----------------------------------------------------------------------------
(* innermesh.Netbird.  Connect takes its lock twice, around Start. *)

(* Configure refuses a closed mesh and a bundle without mesh settings. *)
DoMeshConfigure(a) ==
    LET m == loc[a].mesh IN
    /\ At(a, "meshConfigure")
    /\ IF meshClosed[m] \/ ~HasInner(loc[a].bundle)
         THEN UNCHANGED <<meshCfg, meshState>>
         ELSE /\ meshCfg' = [meshCfg EXCEPT ![m] = TRUE]
              /\ meshState' = [meshState EXCEPT ![m] = "configuring"]
    /\ Proceed(a)
    /\ UNCHANGED <<daemonVars, meshClient, meshClosed, running,
                   made, tunVars, dns, reach, ctlVars>>

(* Connect's first half: refuse when closed or unconfigured, else enter Start. *)
DoMeshStart(a) ==
    LET m == loc[a].mesh IN
    /\ At(a, "meshStart")
    /\ IF meshClosed[m] \/ ~meshCfg[m]
         THEN Proceed(a) /\ UNCHANGED meshState
         ELSE /\ meshState' = [meshState EXCEPT ![m] = "configuring"]
              /\ Become(a, <<[Head(prog[a]) EXCEPT !.op = "starting"]>> \o Tail(prog[a]),
                        loc[a])
    /\ UNCHANGED <<daemonVars, meshClient, meshClosed, meshCfg,
                   running, made, tunVars, dns, reach, ctlVars>>

(* Start returns without error: the second half stores the client. *)
StartOk(a) ==
    LET m == loc[a].mesh IN
    /\ At(a, "starting")
    /\ reach = "ok"
    /\ \E k \in Clients \ running :
         /\ \A j \in Clients \ running : k <= j
         /\ running' = running \cup {k}
         /\ meshClient' = [meshClient EXCEPT ![m] = k]
    /\ meshState' = [meshState EXCEPT ![m] = "up"]
    /\ Proceed(a)
    /\ UNCHANGED <<daemonVars, meshClosed, meshCfg, made, tunVars,
                   dns, reach, ctlVars>>

(* Start returns an error: refused, the deadline of connectMesh passed, or *)
(* the daemon's context was cancelled.                                     *)
StartFail(a) ==
    /\ At(a, "starting")
    /\ \/ reach = "refuse"
       \/ reach = "silent" /\ Head(prog[a]).bounded
       \/ stopped
    /\ meshState' = [meshState EXCEPT ![loc[a].mesh] = "error"]
    /\ Proceed(a)
    /\ UNCHANGED <<daemonVars, meshClient, meshClosed, meshCfg,
                   running, made, tunVars, dns, reach, ctlVars>>

DoMeshDisconnect(a) ==
    LET m == loc[a].mesh IN
    /\ At(a, "meshDisconnect")
    /\ running' = running \ {meshClient[m]}
    /\ meshClient' = [meshClient EXCEPT ![m] = None]
    /\ meshState' = [meshState EXCEPT ![m] = "closed"]
    /\ Proceed(a)
    /\ UNCHANGED <<daemonVars, meshClosed, meshCfg, made, tunVars,
                   dns, reach, ctlVars>>

DoMeshClose(a) ==
    LET m == loc[a].mesh IN
    /\ At(a, "meshClose")
    /\ running' = running \ {meshClient[m]}
    /\ meshClient' = [meshClient EXCEPT ![m] = None]
    /\ meshState' = [meshState EXCEPT ![m] = "closed"]
    /\ meshClosed' = [meshClosed EXCEPT ![m] = TRUE]
    /\ Proceed(a)
    /\ UNCHANGED <<daemonVars, meshCfg, made, tunVars, dns, reach,
                   ctlVars>>

-----------------------------------------------------------------------------
(* Sections of the handlers under d.mu. *)

(* Connect makes a mesh when its read found none. *)
DoMeshEnsure(a) ==
    /\ At(a, "meshEnsure")
    /\ made' = made + 1
    /\ handle' = made + 1
    /\ Become(a, Tail(prog[a]), [loc[a] EXCEPT !.mesh = made + 1])
    /\ UNCHANGED <<mode, wanted, bundle, meshVars, tunVars, dns, reach, ctlVars>>

DoWant(a) ==
    /\ At(a, "want") \/ At(a, "unwant")
    /\ wanted' = At(a, "want")
    /\ Proceed(a)
    /\ UNCHANGED <<mode, handle, bundle, meshVars, made, tunVars, dns, reach, ctlVars>>

(* Detach the mesh from the daemon, then disconnect and close it.  The     *)
(* profile teardowns clear the intent in the same section, SetMode's and   *)
(* Shutdown's detach does not.                                             *)
DetachWanted(op) == IF op = "detachUnwant" THEN FALSE ELSE wanted

DetachCalls_DropsHandle(m) == <<>>
DetachCalls(m) == When(m # None, <<Call("meshDisconnect"), Call("meshClose")>>)

DoDetach(a) ==
    /\ At(a, "detach") \/ At(a, "detachUnwant")
    /\ handle' = None
    /\ wanted' = DetachWanted(Head(prog[a]).op)
    /\ Become(a, DetachCalls(handle) \o Tail(prog[a]), [loc[a] EXCEPT !.mesh = handle])
    /\ UNCHANGED <<mode, bundle, meshVars, made, tunVars, dns, reach, ctlVars>>

(* SetMode entering inner-mesh territory makes a mesh. *)
DoAttach(a) ==
    /\ At(a, "attach")
    /\ made' = made + 1
    /\ handle' = made + 1
    /\ Proceed(a)
    /\ UNCHANGED <<mode, wanted, bundle, meshVars, tunVars, dns, reach, ctlVars>>

(* SetMode's bring-up: each leg looks at the daemon again.  Neither leg    *)
(* applies DNS, and the mesh is started with the request's own context.    *)
DoModeUp(a) ==
    /\ At(a, "modeUp")
    /\ Become(a, When(bundle # None /\ HasOuter(bundle), <<TunUp(FALSE, FALSE)>>)
                   \o Tail(prog[a]), loc[a])
    /\ UNCHANGED <<daemonVars, meshVars, made, tunVars, dns, reach, ctlVars>>

DoModeMeshUp(a) ==
    /\ At(a, "modeMeshUp")
    /\ Become(a, When(handle # None /\ bundle # None, MeshUp(FALSE)) \o Tail(prog[a]),
              [loc[a] EXCEPT !.mesh = handle, !.bundle = bundle])
    /\ UNCHANGED <<daemonVars, meshVars, made, tunVars, dns, reach, ctlVars>>

(* The guard on mesh.State() that SetRosenpass and the supervisor read     *)
(* after they released d.mu.                                               *)
ReconnectFrom_Closed(a) == IF a = Supervisor THEN "closed" ELSE "up"
ReconnectFrom(a) == IF a = Supervisor THEN "error" ELSE "up"

DoReconnect(a) ==
    /\ At(a, "reconnect")
    /\ Become(a, IF meshState[loc[a].mesh] # ReconnectFrom(a) THEN <<>>
                 ELSE IF a = Supervisor THEN MeshUp(TRUE)
                 ELSE <<Call("meshDisconnect")>> \o MeshUp(FALSE), loc[a])
    /\ UNCHANGED <<daemonVars, meshVars, made, tunVars, dns, reach, ctlVars>>

(* setActiveLocked adopts the target profile it loaded at the start, then  *)
(* brings up the legs of its mode.                                         *)
DoAdopt(a) ==
    LET m == loc[a].mode
        b == loc[a].bundle
        fresh == IncludesNetbird(m) /\ handle = None
        h == IF fresh THEN made + 1 ELSE IF IncludesNetbird(m) THEN handle ELSE None
    IN
    /\ At(a, "adopt")
    /\ mode' = m
    /\ bundle' = b
    /\ handle' = h
    /\ made' = IF fresh THEN made + 1 ELSE made
    /\ Become(a, When(IncludesWGCP0(m) /\ HasOuter(b), <<TunUp(FALSE, TRUE)>>)
                   \o When(IncludesNetbird(m), MeshUp(FALSE)),
              [loc[a] EXCEPT !.mesh = h])
    /\ UNCHANGED <<wanted, meshVars, tunVars, dns, reach, ctlVars>>

DoForget_ZeroMode(a) ==
    /\ At(a, "forget")
    /\ bundle' = None /\ mode' = None
    /\ Proceed(a)
    /\ UNCHANGED <<wanted, handle, meshVars, made, tunVars, dns, reach, ctlVars>>

(* RemoveProfile drops the bundle of the profile it is about to delete. *)
DoForget(a) ==
    /\ At(a, "forget")
    /\ bundle' = None
    /\ Proceed(a)
    /\ UNCHANGED <<mode, wanted, handle, meshVars, made, tunVars, dns, reach, ctlVars>>

-----------------------------------------------------------------------------
(* The handlers: what each reads at its start, and the calls it will make. *)

Enter(a, p, l) ==
    /\ ~Busy(a)
    /\ Become(a, p, l)
    /\ LET others == {o \in Actors \ {a} : Busy(o)} IN
         /\ crossed' = (crossed \/ (a \in Handlers /\ others \cap Handlers # {}))
         /\ raced' = (raced \/ (others # {} /\ Supervisor \in others \cup {a}))
    /\ UNCHANGED <<handle, meshVars, made, tunVars, dns, reach>>

Request(a, p, l) ==
    /\ ~stopped
    /\ calls < MaxCalls
    /\ calls' = calls + 1
    /\ Enter(a, p, l)
    /\ UNCHANGED stopped

Here == [mesh |-> handle, mode |-> mode, bundle |-> bundle]

Connect(a) ==
    /\ bundle # None
    /\ IncludesWGCP0(mode) => HasOuter(bundle)
    /\ Request(a,
               When(IncludesWGCP0(mode), <<TunUp(TRUE, TRUE)>>)
                 \o When(IncludesNetbird(mode),
                         When(handle = None, <<Call("meshEnsure")>>)
                           \o <<Call("want")>> \o MeshUp(TRUE)),
               Here)
    /\ UNCHANGED <<mode, wanted, bundle, enabled>>

Disconnect(a) ==
    /\ Request(a,
               When(IncludesWGCP0(mode), <<Call("dnsRestore"), TunDown(TRUE)>>)
                 \o When(IncludesNetbird(mode) /\ handle # None,
                         <<Call("unwant"), Call("meshDisconnect")>>),
               Here)
    /\ UNCHANGED <<mode, wanted, bundle, enabled>>

LeavesWG_Never(from, to) == FALSE
LeavesWG(from, to) == IncludesWGCP0(from) /\ ~IncludesWGCP0(to)

SetMode(a) ==
    \E m \in Modes \ {mode} :
        /\ mode' = m
        /\ Request(a,
                   When(LeavesWG(mode, m), TearDownWG)
                     \o When(IncludesNetbird(mode) /\ ~IncludesNetbird(m), <<Call("detach")>>)
                     \o When(~IncludesNetbird(mode) /\ IncludesNetbird(m), <<Call("attach")>>)
                     \o When(IncludesWGCP0(m), <<Call("modeUp")>>)
                     \o When(IncludesNetbird(m), <<Call("modeMeshUp")>>),
                   Here)
        /\ UNCHANGED <<wanted, bundle, enabled>>

(* SetActiveProfile, and AddProfile with SetActive; the target was stored. *)
SetActiveProfile(a) ==
    \E m \in Modes, b \in Bundles :
        /\ Request(a,
                   When(bundle # None,
                        When(IncludesWGCP0(mode), TearDownWG)
                          \o When(IncludesNetbird(mode), <<Call("detachUnwant")>>))
                     \o <<Call("adopt")>>,
                   [Here EXCEPT !.mode = m, !.bundle = b])
        /\ UNCHANGED <<mode, wanted, bundle, enabled>>

(* RemoveProfile of the active profile. *)
RemoveActiveProfile(a) ==
    /\ bundle # None
    /\ Request(a, TearDownWG \o <<Call("detachUnwant"), Call("forget")>>, Here)
    /\ UNCHANGED <<mode, wanted, bundle, enabled>>

(* ImportBundle stores a bundle and configures the tunnel; no leg moves.   *)
ImportBundle(a) ==
    /\ ~Busy(a) /\ ~stopped /\ calls < MaxCalls
    /\ \E b \in Bundles \ {bundle} : bundle' = b
    /\ calls' = calls + 1
    /\ UNCHANGED <<mode, wanted, handle, meshVars, made, tunVars, dns, reach, prog, loc,
                   stopped, crossed, raced, enabled>>

EnableInnerMesh(a) ==
    /\ IncludesNetbird(mode) /\ handle # None
    /\ Request(a, <<Call("want"), MeshStart(TRUE)>>, Here)
    /\ enabled' = IF enabled = "bare" \/ bundle = None THEN "bare" ELSE "loaded"
    /\ UNCHANGED <<mode, wanted, bundle>>

DisableInnerMesh(a) ==
    /\ wanted' = FALSE
    /\ Request(a, When(handle # None, <<Call("meshDisconnect")>>), Here)
    /\ UNCHANGED <<mode, bundle, enabled>>

(* The request carries its own mesh settings. *)
SetInnerMeshProfile(a) ==
    /\ IncludesNetbird(mode) /\ handle # None
    /\ Request(a, <<Call("meshConfigure")>>, [Here EXCEPT !.bundle = {"inner"}])
    /\ UNCHANGED <<mode, wanted, bundle, enabled>>

SetRosenpass(a) ==
    /\ IncludesNetbird(mode) /\ handle # None /\ bundle # None
    /\ Request(a, <<Call("reconnect")>>, Here)
    /\ UNCHANGED <<mode, wanted, bundle, enabled>>

(* The main goroutine, once the context is cancelled; it waits neither for *)
(* the handlers in progress nor for the supervisor.                        *)
Shutdown ==
    /\ ~stopped
    /\ calls < MaxCalls
    /\ calls' = calls + 1
    /\ stopped' = TRUE
    /\ Enter(Main, TearDownWG \o <<Call("detach"), Call("tunClose")>>, Here)
    /\ UNCHANGED <<mode, wanted, bundle, enabled>>

(* runMeshSupervisor: the timer fires and the snapshot asks for a mesh. *)
SupervisorTick ==
    /\ ~Exited
    /\ wanted /\ IncludesNetbird(mode) /\ handle # None /\ bundle # None
    /\ Enter(Supervisor, <<Call("reconnect")>>, Here)
    /\ UNCHANGED <<mode, wanted, bundle, calls, stopped, enabled>>

(* External: the management plane comes, goes and falls silent. *)
ReachChange ==
    /\ reach' \in {"ok", "refuse", "silent"} \ {reach}
    /\ UNCHANGED <<daemonVars, meshVars, made, tunVars, dns, prog, loc, ctlVars>>

Step(a) ==
    \/ DoTunUp(a) \/ DoTunDown(a) \/ DoTunClose(a)
    \/ DoDnsApply(a) \/ DoDnsRestore(a)
    \/ DoMeshConfigure(a) \/ DoMeshStart(a) \/ StartOk(a) \/ StartFail(a)
    \/ DoMeshDisconnect(a) \/ DoMeshClose(a)
    \/ DoMeshEnsure(a) \/ DoWant(a) \/ DoDetach(a) \/ DoAttach(a)
    \/ DoModeUp(a) \/ DoModeMeshUp(a) \/ DoReconnect(a) \/ DoAdopt(a) \/ DoForget(a)

Requests(a) ==
    \/ Connect(a) \/ Disconnect(a) \/ SetMode(a) \/ SetActiveProfile(a)
    \/ RemoveActiveProfile(a) \/ ImportBundle(a) \/ EnableInnerMesh(a)
    \/ DisableInnerMesh(a) \/ SetInnerMeshProfile(a) \/ SetRosenpass(a)

Next ==
    \/ \E a \in Actors : Step(a)
    \/ \E a \in Conns : Requests(a)
    \/ Shutdown
    \/ SupervisorTick
    \/ ReachChange

(* Goroutines are scheduled, lock sections end, the supervisor's timer     *)
(* fires.  Nothing makes an operator call or the management plane answer.  *)
Fairness ==
    /\ \A a \in Actors : WF_vars(Step(a))
    /\ WF_vars(SupervisorTick)

Spec == Init /\ [][Next]_vars /\ Fairness

-----------------------------------------------------------------------------
CallRec == [op : {"tunUp", "tunDown", "tunClose", "dnsApply", "dnsRestore",
                  "meshConfigure", "meshStart", "starting", "meshDisconnect", "meshClose",
                  "meshEnsure", "want", "unwant", "detach", "detachUnwant", "attach",
                  "modeUp", "modeMeshUp", "reconnect", "adopt", "forget"},
            abort : BOOLEAN, dns : BOOLEAN, bounded : BOOLEAN]

(* The daemon's fields, the mesh objects, the tunnel manager and every     *)
(* actor's remaining program stay well formed.                             *)
TypeOK ==
    /\ mode \in Modes /\ wanted \in BOOLEAN
    /\ handle \in Meshes \cup {None} /\ bundle \in Bundles \cup {None}
    /\ meshState \in [Meshes -> States]
    /\ meshClient \in [Meshes -> Clients \cup {None}]
    /\ meshClosed \in [Meshes -> BOOLEAN] /\ meshCfg \in [Meshes -> BOOLEAN]
    /\ running \subseteq Clients /\ made \in 0..(MaxCalls + 1)
    /\ tunState \in States /\ tunOpen \in BOOLEAN
    /\ dns \in {"none", "applied", "left"} /\ reach \in {"ok", "refuse", "silent"}
    /\ \A a \in Actors : prog[a] \in Seq(CallRec)
    /\ \A a \in Actors : loc[a] \in [mesh : Meshes \cup {None}, mode : Modes \cup {None},
                                   bundle : (SUBSET {"outer", "inner"}) \cup {None}]
    /\ calls \in 0..MaxCalls /\ stopped \in BOOLEAN
    /\ crossed \in BOOLEAN /\ raced \in BOOLEAN /\ enabled \in {"never", "loaded", "bare"}

Quiet == \A a \in Actors : ~Busy(a)
Settled == Quiet /\ ~crossed /\ ~raced

(* Whatever sequence of requests ran, one after the other, a mode without  *)
(* the outer leg has neither the tunnel up nor a DNS configuration on the  *)
(* host that no Restore was tried on: every path into such a mode          *)
(* (SetMode, setActiveLocked) tears both down.  A Restore that fails is    *)
(* logged, so what it leaves stays on the host.                            *)
OuterWithinMode ==
    ~crossed /\ (\A c \in Conns : ~Busy(c)) /\ ~IncludesWGCP0(mode)
        => tunState # "up" /\ dns # "applied"

(* "Tear DNS down before the tunnel": whichever handler takes the tunnel   *)
(* down, Restore was tried on the applied configuration first.  Only what  *)
(* a failing Apply or Restore left can sit in front of a closed tunnel.    *)
DnsRestoredBeforeDown == ~crossed /\ dns = "applied" => tunState # "closed"

(* An embed client that a Netbird object holds is the one the daemon       *)
(* refers to, in a mode with the inner leg: SetMode, setActiveLocked and   *)
(* RemoveProfile disconnect what they detach.  Requests one after the      *)
(* other; the mesh enabled with no profile loaded is the exception, since  *)
(* setActiveLocked tears nothing down when no profile was active.          *)
MeshWithinMode ==
    Settled /\ enabled # "bare" =>
        \A m \in Meshes : meshClient[m] # None => m = handle /\ IncludesNetbird(mode)

(* Shutdown leaves no leg: the tunnel closed even when Disconnect failed,  *)
(* Restore tried on the host's DNS, no mesh holding a client.              *)
ShutdownReleases ==
    stopped /\ Settled /\ enabled # "bare" =>
        tunState = "closed" /\ dns # "applied" /\ \A m \in Meshes : meshClient[m] = None

WantedMesh == wanted /\ IncludesNetbird(mode) /\ handle # None /\ bundle # None

(* Configured and left there: nobody is about to start this mesh. *)
Parked(m) ==
    /\ meshState[m] = "configuring"
    /\ \A a \in Actors : loc[a].mesh = m =>
          \A i \in DOMAIN prog[a] : prog[a][i].op \notin {"meshStart", "starting"}

(* A failed bring-up the operator still wants is retried until it is up,   *)
(* as long as the management plane answers: runMeshSupervisor.  The        *)
(* supervisor leaves alone a mesh that was configured and never started.   *)
FailedBringUpIsRetried ==
    (WantedMesh /\ meshState[handle] = "error")
        ~> (~WantedMesh \/ reach # "ok" \/ stopped
            \/ meshState[handle] = "up" \/ Parked(handle))

-----------------------------------------------------------------------------
(* Stated by the repository's comments and README; the runs named after    *)
(* them show how the code departs from them.                               *)

(* README and main.go call Connect idempotent: after any requests, one     *)
(* after the other, every embed client running is one a mesh object holds  *)
(* and can stop.  A second Connect overwrites the client of the first.     *)
NoOrphanClient ==
    Settled /\ enabled = "never" => running \subseteq {meshClient[m] : m \in Meshes}

=============================================================================
