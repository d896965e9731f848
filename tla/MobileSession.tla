---------------------------- MODULE MobileSession ----------------------------
(***************************************************************************)
(* A tunnel session of the mobile SDKs (mobile/android/GoatClientSDK,      *)
(* mobile/ios/GoatClientSDK, internal/tunnel/runmobile*.go) under the      *)
(* native shell that drives it (GoatVpnService.kt,                         *)
(* PacketTunnelProvider.swift): Run brings the mode's legs up and blocks,  *)
(* Stop cancels the context that Run registered, and the shell may start   *)
(* the next Run while the last one is still winding down.                  *)
(*                                                                         *)
(* Android has one Client per process, shared by its Runs; iOS makes one   *)
(* for every start.  A Run is a number; its mesh and its tun device bear   *)
(* the same number.  The stored bundle is there or not, and in time or     *)
(* expired; it drives both legs.                                           *)
(***************************************************************************)
EXTENDS Naturals, FiniteSets

CONSTANTS
    Platforms,      \* a subset of {"android", "ios"}
    MaxRuns         \* bound on Runs

ASSUME MobileParameters == Platforms \subseteq {"android", "ios"} /\ MaxRuns \in Nat \ {0}

Runs == 1..MaxRuns
Modes == {"wg-cp0-only", "netbird-only", "combined"}
HasOuter(m) == m \in {"wg-cp0-only", "combined"}
HasInner(m) == m \in {"netbird-only", "combined"}

VARIABLES
    platform,
    job,            \* the shell: the Run it would stop (0: none)
    attached,       \* the shell: the VpnService is in the TunAdapter
    leaving,        \* Android: stopSelf was called, onDestroy is yet to come
    at,             \* per Run: where it is
    mode,           \* per client: SetMode
    runMode,        \* per Run: the mode it read
    cancelled,      \* Runs whose context is cancelled
    ctxCancel,      \* per client: the Run Stop would cancel (0: nil)
    state,          \* per client: c.state, stateAtomic
    innerMesh,      \* per client: the mesh of this Run (0: nil)
    meshUp, tunUp,  \* Runs whose mesh, whose device is up
    fds,            \* Android: Runs whose descriptor from detachFd is open
    bundle,         \* the stored bundle: "none", "good", "expired"
    outrun,         \* history: Runs the shell let go of uncancelled, and Runs whose cancel
                    \* one of those overwrote
    overlap         \* history: a Run began while another was under way

shellVars == <<platform, job, attached, leaving>>
clientVars == <<mode, ctxCancel, state, innerMesh>>
legVars == <<meshUp, tunUp, fds>>
vars == <<shellVars, at, runMode, cancelled, clientVars, legVars, bundle, outrun, overlap>>

\* A plausible mistake: one Client for every start on iOS too.
Client_Shared(r) == 1

Client(r) == IF platform = "android" THEN 1 ELSE r
Over(r) == at[r] \in {"none", "done"}
Live(r) == ~Over(r)

Init ==
    /\ platform \in Platforms /\ job = 0 /\ attached = FALSE /\ leaving = FALSE
    /\ at = [r \in Runs |-> "none"] /\ runMode = [r \in Runs |-> "none"]
    /\ mode = [c \in Runs |-> "none"] /\ ctxCancel = [c \in Runs |-> 0]
    /\ innerMesh = [c \in Runs |-> 0]
    /\ state = [c \in Runs |->
                   IF platform = "android" THEN "unconfigured" ELSE "disconnected"]
    /\ cancelled = {} /\ meshUp = {} /\ tunUp = {} /\ fds = {} /\ bundle = "none"
    /\ outrun = {} /\ overlap = FALSE

-----------------------------------------------------------------------------
(* The shell.                                                              *)

Unused == {r \in Runs : at[r] = "none"}

\* A plausible mistake: no look at the job under way.
MayStart_Always == TRUE

\* startEngine returns when the job is active; the system starts a provider only
\* after the last session ended.
MayStart == job # 0 => at[job] = "done"

\* startEngine, startTunnel: the new Run is queued behind the call.
Start(m) ==
    /\ MayStart
    /\ platform = "ios" => bundle # "none"
    /\ \E r \in Unused :
          /\ \A y \in Unused : r <= y
          /\ at' = [at EXCEPT ![r] = "queued"]
          /\ mode' = [mode EXCEPT ![Client(r)] = m]
          /\ job' = r
    /\ attached' = (platform = "android")
    /\ UNCHANGED <<platform, leaving, runMode, cancelled, ctxCancel, state, innerMesh,
                   legVars, bundle, outrun, overlap>>

\* The shell forgets its job.  On Android one that has not begun does not begin any
\* more; what goes on uncancelled is out of its hands.
LetGo ==
    /\ job' = 0
    /\ at' = IF job # 0 /\ platform = "android" /\ at[job] = "queued"
             THEN [at EXCEPT ![job] = "done"] ELSE at
    /\ outrun' = IF job # 0 /\ at'[job] # "done" /\ job \notin cancelled'
                 THEN outrun \cup {job} ELSE outrun

\* stopEngine and stopTunnel: Client.Stop takes the registered cancel, if any.  On
\* Android it is called with or without a job; on iOS the state is stored whatever the
\* Run does.
Stop ==
    /\ platform = "ios" => job # 0
    /\ LET c == Client(job)
           r == ctxCancel[c]
       IN  /\ cancelled' = IF r # 0 THEN cancelled \cup {r} ELSE cancelled
           /\ ctxCancel' = [ctxCancel EXCEPT ![c] = 0]
           /\ state' = IF platform = "ios"
                       THEN [state EXCEPT ![c] = "disconnected"] ELSE state
    /\ LetGo /\ attached' = FALSE /\ leaving' = (platform = "android")
    /\ UNCHANGED <<platform, runMode, mode, innerMesh, legVars, bundle, overlap>>

\* onDestroy: the service stopSelf was called on goes, with the job of a start that came
\* in between.
Destroy ==
    /\ leaving /\ leaving' = FALSE
    /\ UNCHANGED <<platform, attached, runMode, cancelled, clientVars, legVars, bundle,
                   overlap>>
    /\ LetGo

\* Verify against the trust anchors, and the bundle's time.
Verifies == bundle = "good"

\* ImportBundle verifies, then renames the file into place; on Android the client
\* also leaves its first state or an error.
ImportAndroid ==
    /\ platform = "android" /\ ~Verifies /\ bundle' = "good"
    /\ state' = IF state[1] \in {"unconfigured", "error"}
                THEN [state EXCEPT ![1] = "imported"] ELSE state
    /\ UNCHANGED <<shellVars, at, runMode, cancelled, mode, ctxCancel, innerMesh, legVars,
                   outrun, overlap>>

\* On iOS the app imports, in another process than the Runs'.
ImportIos ==
    /\ platform = "ios" /\ ~Verifies /\ bundle' = "good"
    /\ UNCHANGED <<shellVars, at, runMode, cancelled, clientVars, legVars, outrun, overlap>>

\* The bundle's time is over.
Expire ==
    /\ Verifies /\ bundle' = "expired"
    /\ UNCHANGED <<shellVars, at, runMode, cancelled, clientVars, legVars, outrun, overlap>>

-----------------------------------------------------------------------------
(* Client.Run.                                                             *)

Goto(r, p) == at' = [at EXCEPT ![r] = p]
SetState(r, s) == state' = [state EXCEPT ![Client(r)] = s]

\* The coroutine, the task, begins.
Begin(r) ==
    /\ at[r] = "queued" /\ Goto(r, "called")
    /\ overlap' = (overlap \/ \E q \in Runs \ {r} : Live(q))
    /\ UNCHANGED <<shellVars, runMode, cancelled, clientVars, legVars, bundle, outrun>>

\* The first lock section; on iOS it stores the state and no more.
Enter(r) ==
    /\ at[r] = "called" /\ Goto(r, "load") /\ SetState(r, "connecting")
    /\ IF platform = "android"
       THEN /\ ctxCancel' = [ctxCancel EXCEPT ![1] = r]
            /\ runMode' = [runMode EXCEPT ![r] = mode[1]]
            /\ outrun' = IF r \in outrun THEN outrun \cup ({ctxCancel[1]} \ {0}) ELSE outrun
       ELSE UNCHANGED <<ctxCancel, runMode, outrun>>
    /\ UNCHANGED <<shellVars, cancelled, mode, innerMesh, legVars, bundle, overlap>>

\* The bundle is read and verified again.
Load(r) ==
    /\ at[r] = "load"
    /\ IF Verifies
       THEN Goto(r, IF platform = "android" THEN "mesh" ELSE "register") /\ UNCHANGED state
       ELSE Goto(r, "done") /\ SetState(r, "error")
    /\ UNCHANGED <<shellVars, runMode, cancelled, mode, ctxCancel, innerMesh, legVars,
                   bundle, outrun, overlap>>

\* iOS: the mode is read and the cancel registered.
Register(r) ==
    /\ at[r] = "register" /\ Goto(r, "mesh")
    /\ ctxCancel' = [ctxCancel EXCEPT ![Client(r)] = r]
    /\ runMode' = [runMode EXCEPT ![r] = mode[Client(r)]]
    /\ UNCHANGED <<shellVars, cancelled, mode, state, innerMesh, legVars, bundle, outrun,
                   overlap>>

\* A step fails: the error is recorded, the deferred clean-up runs if there is a mesh.
Fail(r) ==
    /\ SetState(r, "error")
    /\ Goto(r, IF at[r] # "mesh" /\ HasInner(runMode[r]) THEN "cleanup" ELSE "done")

\* The inner mesh comes up and becomes the client's; a Connect whose context is
\* cancelled fails, and others may.
Mesh(r) ==
    /\ at[r] = "mesh"
    /\ \/ /\ ~HasInner(runMode[r])
          /\ Goto(r, "outer") /\ UNCHANGED <<state, innerMesh, meshUp>>
       \/ /\ HasInner(runMode[r]) /\ r \notin cancelled
          /\ meshUp' = meshUp \cup {r} /\ innerMesh' = [innerMesh EXCEPT ![Client(r)] = r]
          /\ Goto(r, "outer") /\ UNCHANGED state
       \/ HasInner(runMode[r]) /\ Fail(r) /\ UNCHANGED <<innerMesh, meshUp>>
    /\ UNCHANGED <<shellVars, runMode, cancelled, mode, ctxCancel, tunUp, fds, bundle,
                   outrun, overlap>>

\* netbird-only blocks from here; else Android asks the VpnService for a tun fd, which
\* it detaches and hands over.
Outer(r) ==
    /\ at[r] = "outer"
    /\ \/ /\ ~HasOuter(runMode[r])
          /\ SetState(r, "connected") /\ Goto(r, "up") /\ UNCHANGED fds
       \/ /\ HasOuter(runMode[r]) /\ (platform = "android" => attached)
          /\ SetState(r, "connected") /\ Goto(r, "engine")
          /\ fds' = IF platform = "android" THEN fds \cup {r} ELSE fds
       \/ HasOuter(runMode[r]) /\ platform = "android" /\ Fail(r) /\ UNCHANGED fds
    /\ UNCHANGED <<shellVars, runMode, cancelled, mode, ctxCancel, innerMesh, meshUp, tunUp,
                   bundle, outrun, overlap>>

\* RunOnMobile duplicates the fd, wraps the duplicate and brings the device over it up,
\* or fails and closes what it made; the fd it was given stays open either way.
Engine(r) ==
    /\ at[r] = "engine"
    /\ \/ tunUp' = tunUp \cup {r} /\ Goto(r, "up") /\ UNCHANGED state
       \/ Fail(r) /\ UNCHANGED tunUp
    /\ UNCHANGED <<shellVars, runMode, cancelled, mode, ctxCancel, innerMesh, meshUp, fds,
                   bundle, outrun, overlap>>

\* A plausible mistake: the device is closed on errors only.
Wake_KeepsDevice(r) ==
    /\ at[r] = "up" /\ r \in cancelled
    /\ SetState(r, "disconnected")
    /\ Goto(r, IF HasInner(runMode[r]) THEN "cleanup" ELSE "done")
    /\ UNCHANGED <<shellVars, runMode, cancelled, mode, ctxCancel, innerMesh, legVars,
                   bundle, outrun, overlap>>

\* A plausible mistake: a Run without the outer leg waits for something else.
Wake_OuterOnly(r) ==
    /\ at[r] = "up" /\ r \in cancelled /\ HasOuter(runMode[r])
    /\ tunUp' = tunUp \ {r} /\ SetState(r, "disconnected")
    /\ Goto(r, IF HasInner(runMode[r]) THEN "cleanup" ELSE "done")
    /\ UNCHANGED <<shellVars, runMode, cancelled, mode, ctxCancel, innerMesh, meshUp, fds,
                   bundle, outrun, overlap>>

\* The context is cancelled: the device is closed and with it the duplicate, the state
\* written.
Wake(r) ==
    /\ at[r] = "up" /\ r \in cancelled
    /\ tunUp' = tunUp \ {r} /\ SetState(r, "disconnected")
    /\ Goto(r, IF HasInner(runMode[r]) THEN "cleanup" ELSE "done")
    /\ UNCHANGED <<shellVars, runMode, cancelled, mode, ctxCancel, innerMesh, meshUp, fds,
                   bundle, outrun, overlap>>

\* The deferred clean-up closes whatever mesh the client has.
Cleanup(r) ==
    LET c == Client(r)
    IN  /\ at[r] = "cleanup" /\ Goto(r, "done")
        /\ meshUp' = meshUp \ {innerMesh[c]} /\ innerMesh' = [innerMesh EXCEPT ![c] = 0]
        /\ UNCHANGED <<shellVars, runMode, cancelled, mode, ctxCancel, state, tunUp, fds,
                       bundle, outrun, overlap>>

\* What the shell polls: the state, the inner mesh if there is one, on iOS the file too.
GetTunnelStatus(c) == [state |-> state[c], inner |-> innerMesh[c] # 0]
GetStatusJSON(c) ==
    [state |-> state[c], inner |-> innerMesh[c] # 0, imported |-> bundle # "none"]
Polled(c) == IF platform = "android" THEN GetTunnelStatus(c) ELSE GetStatusJSON(c)

Run(r) == Begin(r) \/ Enter(r) \/ Load(r) \/ Register(r) \/ Mesh(r) \/ Outer(r) \/ Engine(r)
            \/ Wake(r) \/ Cleanup(r)

Next ==
    \/ \E m \in Modes : Start(m)
    \/ Stop \/ Destroy \/ ImportAndroid \/ ImportIos \/ Expire
    \/ \E r \in Runs : Run(r)

\* A Run goes on: nothing it calls blocks for ever (mesh.Connect returns at the latest
\* with its context, mesh.Disconnect after its timeout).
Spec == Init /\ [][Next]_vars /\ \A r \in Runs : WF_vars(Run(r))

-----------------------------------------------------------------------------
(* Properties.                                                             *)

\* With no Run under way, a client's status says neither connecting nor connected and
\* shows no inner mesh, and every device the engine made over a duplicate is closed; and if
\* no Run ever began while another was winding down, no mesh is up either (Run's clean-up
\* closes the mesh the client has, which may be another Run's).  The descriptor Android
\* handed over is not among what is released: it stays open (RunOnMobile).
IdleReleases ==
    (\A r \in Runs : Over(r)) =>
        /\ \A c \in Runs : /\ Polled(c).state \notin {"connecting", "connected"}
                           /\ ~Polled(c).inner
        /\ tunUp = {} /\ (~overlap => meshUp = {})

\* "The inner mesh keeps running in its own goroutines": a Run that blocks in a mode with
\* the inner leg has its mesh up, whatever Runs before and after it do, as long as every
\* Run has a Client of its own or none began while another was under way.  Else the
\* clean-up of one may close the mesh of the next (Run's deferred clean-up).
MeshKeepsRunning ==
    platform = "ios" \/ ~overlap =>
        \A r \in Runs : at[r] = "up" /\ HasInner(runMode[r]) => r \in meshUp

\* A Run that is under way, has registered and is not cancelled is the one Stop would
\* cancel.  Only two things break this: the shell let go of the Run before it had
\* registered, or a Run it had so let go of overwrote its cancel (Run, Stop).
OrphanOnlyByEarlyStop ==
    \A r \in Runs :
        Live(r) /\ at[r] \notin {"queued", "called", "register"} /\ r \notin cancelled
            /\ (platform = "android" \/ at[r] # "load") =>
                ctxCancel[Client(r)] = r \/ r \in outrun

\* If the shell stops for good, every Run ends, but for those it let go of before they had
\* registered and those whose cancel such a Run overwrote (Stop, RunOnMobile).
StopEndsRuns == <>[](job = 0) => <>[](\A r \in Runs : Over(r) \/ r \in outrun)

=============================================================================
