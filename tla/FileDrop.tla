------------------------------ MODULE FileDrop ------------------------------
(***************************************************************************)
(* goatdrop (internal/filedrop, internal/daemon/filedrop.go): the loop     *)
(* that starts and stops the receiver with the mesh, the PUT handlers that *)
(* run beside each other on one inbox, the ring of received files, and the *)
(* sender's view of a transfer.                                            *)
(*                                                                         *)
(* A drop is identified by its number; a file of the inbox is the number   *)
(* of the drop it holds.  "name (k).ext" is the pair of name and k, and    *)
(* k = 0 the bare name.  A handler's step is one system call.              *)
(***************************************************************************)
EXTENDS MeshView, Sequences

CONSTANTS
    Handlers,       \* request goroutines
    SafeNames,      \* names safeName accepts
    BadNames,       \* names it rejects
    MaxCopies,      \* the last k placeUniquely tries (9999)
    RingCap,        \* receivedRingCap
    MaxDrops,       \* bound on drops
    MaxCrashes      \* bound on crashes

ASSUME DropParameters ==
    /\ MaxCopies \in Nat /\ RingCap \in Nat \ {0} /\ MaxDrops \in Nat /\ MaxCrashes \in Nat
    /\ SafeNames \cap BadNames = {}

VARIABLES
    loop,           \* runFileServer: "wait", or "bind" between its reads of the mesh
    running,        \* its flag
    srv,            \* the server it started last: state and address
    late,           \* addresses of servers cancelled before they reached net.Listen
    closing,        \* addresses of cancelled servers whose listener is still open
    pc, job,        \* handlers: place; drop number, source, name, candidate
    temps,          \* .goatdrop-* files in the inbox: the drops they belong to
    inbox,          \* (name, k) -> number of the drop stored there, 0 for no file
    buf, head, n,   \* receivedRing
    drops, crashes,
    acked,          \* history: drops whose sender was told they are stored
    log,            \* history: every record OnReceive was given since the start
    raced,          \* history: two handlers had chosen one free name
    seenDown        \* history: the loop saw the mesh unwanted and has not started since

loopVars == <<loop, running, srv, late, closing, seenDown>>
dropVars == <<pc, job, temps, inbox, buf, head, n, drops, acked, log, raced>>
vars == <<meshVars, loopVars, dropVars, crashes>>

Slots == SafeNames \X (0..MaxCopies)
NoServer == [st |-> "none", addr |-> None]
NoJob == [id |-> 0, src |-> None, name |-> None, k |-> 0]

Init ==
    /\ MeshInit
    /\ loop = "wait" /\ running = FALSE /\ srv = NoServer /\ late = {} /\ closing = {}
    /\ seenDown = TRUE
    /\ pc = [h \in Handlers |-> "idle"] /\ job = [h \in Handlers |-> NoJob]
    /\ temps = {} /\ inbox = [s \in Slots |-> 0]
    /\ buf = [i \in 0..(RingCap - 1) |-> 0] /\ head = 0 /\ n = 0
    /\ drops = 0 /\ crashes = 0
    /\ acked = {} /\ log = <<>> /\ raced = FALSE

-----------------------------------------------------------------------------
(* The reconcile loop.                                                     *)

\* stop(): a listener that is open closes on its own time; a goroutine that has yet to
\* open its own goes on.
Stop ==
    /\ running' = FALSE
    /\ srv' = NoServer
    /\ closing' = IF running /\ srv.st = "listening" THEN closing \cup {srv.addr} ELSE closing
    /\ late' = IF running /\ srv.st = "starting" THEN late \cup {srv.addr} ELSE late

\* A plausible mistake: a loop that runs a server looks no further.
LoopTick_Latched ==
    /\ loop = "wait"
    /\ IF ~Wanted /\ ~running
       THEN seenDown' = TRUE /\ UNCHANGED <<loop, running, srv, late, closing>>
       ELSE /\ loop' = IF running THEN "wait" ELSE "bind"
            /\ UNCHANGED <<running, srv, late, closing, seenDown>>
    /\ UNCHANGED <<meshVars, dropVars, crashes>>

\* The tick up to mesh.State().
LoopTick ==
    /\ loop = "wait"
    /\ IF ~Wanted
       THEN Stop /\ seenDown' = TRUE /\ UNCHANGED loop
       ELSE /\ loop' = IF running THEN "wait" ELSE "bind"
            /\ UNCHANGED <<running, srv, late, closing, seenDown>>
    /\ UNCHANGED <<meshVars, dropVars, crashes>>

\* mesh.LocalIP(), and the server's goroutine is started.
LoopBind ==
    /\ loop = "bind" /\ loop' = "wait"
    /\ IF ip = None
       THEN UNCHANGED <<running, srv, seenDown>>
       ELSE /\ srv' = [st |-> "starting", addr |-> ip]
            /\ running' = TRUE /\ seenDown' = FALSE
    /\ UNCHANGED <<meshVars, late, closing, dropVars, crashes>>

\* net.Listen succeeds on an address of the host that nothing listens on.
Bindable(a) == bindable /\ ip = a /\ a \notin closing /\ srv # [st |-> "listening", addr |-> a]

\* ListenAndServe opens its listener, or ends with an error that is only logged.
Listen ==
    /\ srv.st = "starting"
    /\ srv' = [srv EXCEPT !.st = IF Bindable(srv.addr) THEN "listening" ELSE "failed"]
    /\ UNCHANGED <<meshVars, loop, running, late, closing, seenDown, dropVars, crashes>>

\* The same of a server that was cancelled first.
LateListen(a) ==
    /\ a \in late /\ late' = late \ {a}
    /\ closing' = IF Bindable(a) THEN closing \cup {a} ELSE closing
    /\ UNCHANGED <<meshVars, loop, running, srv, seenDown, dropVars, crashes>>

\* The cancelled server's listener closes.
Closed(a) ==
    /\ a \in closing /\ closing' = closing \ {a}
    /\ UNCHANGED <<meshVars, loop, running, srv, late, seenDown, dropVars, crashes>>

-----------------------------------------------------------------------------
(* The handlers.                                                           *)

\* authorizer: the live peer list, per call.
Authorized(src) == src \in members

\* safeName: no separator, not reserved.
SafeName(name) == name \in SafeNames

\* handlePut up to the temporary file, on any listener that is open.  A refusal changes
\* nothing on this side and is an error to the sender, as is an inbox that cannot be
\* created.
Put(h, src, name) ==
    /\ pc[h] = "idle" /\ drops < MaxDrops
    /\ srv.st = "listening" \/ closing # {}
    /\ drops' = drops + 1
    /\ \/ /\ Authorized(src) /\ SafeName(name)
          /\ temps' = temps \cup {drops + 1}
          /\ pc' = [pc EXCEPT ![h] = "copy"]
          /\ job' = [job EXCEPT ![h] = [id |-> drops + 1, src |-> src, name |-> name, k |-> 0]]
       \/ UNCHANGED <<temps, pc, job>>
    /\ UNCHANGED <<meshVars, loopVars, inbox, buf, head, n, acked, log, raced, crashes>>

\* The request ends with an error: the deferred Remove takes the temporary file.
Fail(h) ==
    /\ temps' = temps \ {job[h].id}
    /\ pc' = [pc EXCEPT ![h] = "idle"] /\ job' = [job EXCEPT ![h] = NoJob]

\* A plausible mistake: the temporary file of a failed transfer stays.
CopyFails_KeepsTemp(h) ==
    /\ pc[h] = "copy"
    /\ pc' = [pc EXCEPT ![h] = "idle"] /\ job' = [job EXCEPT ![h] = NoJob]
    /\ UNCHANGED <<meshVars, loopVars, temps, inbox, buf, head, n, drops, acked, log, raced,
                   crashes>>

\* The body ends early, is too long, or the server is closed under it.
CopyFails(h) ==
    /\ pc[h] = "copy"
    /\ Fail(h)
    /\ UNCHANGED <<meshVars, loopVars, inbox, buf, head, n, drops, acked, log, raced,
                   crashes>>

Copy(h) ==
    /\ pc[h] = "copy"
    /\ pc' = [pc EXCEPT ![h] = "stat"]
    /\ UNCHANGED <<meshVars, loopVars, job, temps, inbox, buf, head, n, drops, acked, log,
                   raced, crashes>>

\* A plausible mistake: only the bare name is looked up.
Free_BareOnly(s) == s[2] > 0 \/ inbox[s] = 0

\* os.Stat finds nothing.
Free(s) == inbox[s] = 0

Candidate(h) == <<job[h].name, job[h].k>>

\* placeUniquely: stat, then rename, candidate after candidate.
Stat(h) ==
    /\ pc[h] = "stat"
    /\ IF Free(Candidate(h))
       THEN pc' = [pc EXCEPT ![h] = "rename"] /\ UNCHANGED <<job, temps>>
       ELSE IF job[h].k = MaxCopies THEN Fail(h)
       ELSE job' = [job EXCEPT ![h].k = @ + 1] /\ UNCHANGED <<pc, temps>>
    /\ raced' = (raced \/ \E g \in Handlers \ {h} :
                    /\ Free(Candidate(h)) /\ pc[g] = "rename" /\ Candidate(g) = Candidate(h))
    /\ UNCHANGED <<meshVars, loopVars, inbox, buf, head, n, drops, acked, log, crashes>>

\* os.Rename replaces whatever is there by then.
Rename(h) ==
    /\ pc[h] = "rename"
    /\ inbox' = [inbox EXCEPT ![Candidate(h)] = job[h].id]
    /\ temps' = temps \ {job[h].id}
    /\ pc' = [pc EXCEPT ![h] = "record"]
    /\ UNCHANGED <<meshVars, loopVars, job, buf, head, n, drops, acked, log, raced,
                   crashes>>

RenameFails(h) ==
    /\ pc[h] = "rename"
    /\ Fail(h)
    /\ UNCHANGED <<meshVars, loopVars, inbox, buf, head, n, drops, acked, log, raced,
                   crashes>>

\* A plausible mistake: the count stops one short of the capacity.
RingCount_Short == IF n < RingCap - 1 THEN n + 1 ELSE n

RingCount == IF n < RingCap THEN n + 1 ELSE n

\* receivedRing.add.
RingAdd(id) ==
    /\ buf' = [buf EXCEPT ![head] = id]
    /\ head' = (head + 1) % RingCap
    /\ n' = RingCount

\* receivedRing.list: newest first.
RingList == [i \in 1..n |-> buf[(head - i + RingCap) % RingCap]]

GetIncomingFiles == RingList

\* Send at the other end: stored is what a 2xx reply says, and the reply may be lost.
Told(id) == acked' = acked \cup {id} \/ UNCHANGED acked

\* OnReceive and the reply.
Record(h) ==
    /\ pc[h] = "record"
    /\ RingAdd(job[h].id)
    /\ log' = Append(log, job[h].id)
    /\ Told(job[h].id)
    /\ pc' = [pc EXCEPT ![h] = "idle"] /\ job' = [job EXCEPT ![h] = NoJob]
    /\ UNCHANGED <<meshVars, loopVars, temps, inbox, drops, raced, crashes>>

\* The daemon dies and starts again: the inbox is what is left, temporary files too.
Crash ==
    /\ crashes < MaxCrashes /\ crashes' = crashes + 1
    /\ loop' = "wait" /\ running' = FALSE /\ srv' = NoServer /\ late' = {} /\ closing' = {}
    /\ seenDown' = TRUE
    /\ pc' = [h \in Handlers |-> "idle"] /\ job' = [h \in Handlers |-> NoJob]
    /\ buf' = [i \in 0..(RingCap - 1) |-> 0] /\ head' = 0 /\ n' = 0 /\ log' = <<>>
    /\ UNCHANGED <<meshVars, temps, inbox, drops, acked, raced>>

LoopStep == LoopTick \/ LoopBind

Next ==
    \/ MeshChange /\ UNCHANGED <<loopVars, dropVars, crashes>>
    \/ LoopStep
    \/ Listen
    \/ \E a \in IPs : LateListen(a) \/ Closed(a)
    \/ \E h \in Handlers :
          \/ \E src \in Peers, name \in SafeNames \cup BadNames : Put(h, src, name)
          \/ Copy(h) \/ CopyFails(h) \/ Stat(h) \/ Rename(h) \/ RenameFails(h) \/ Record(h)
    \/ Crash

\* The ticker fires and started goroutines run.
Spec ==
    /\ Init /\ [][Next]_vars
    /\ WF_vars(LoopStep) /\ WF_vars(Listen)
    /\ \A a \in IPs : WF_vars(LateListen(a)) /\ WF_vars(Closed(a))

-----------------------------------------------------------------------------
(* Properties.                                                             *)

\* A drop whose sender was told that it is stored is in the inbox for good, past
\* later drops of the same name, failures and crashes, as long as no two handlers
\* stood between their stat and their rename on one name (Server.handlePut).
DropsAreKept == ~raced => acked \subseteq {inbox[s] : s \in Slots}

\* Of the same drops the list shows the last RingCap, newest first, wherever the
\* ring's head stands and in whatever order the handlers finish (receivedRing).
RingIsRecent ==
    /\ n = IF Len(log) < RingCap THEN Len(log) ELSE RingCap
    /\ \A i \in 1..n : GetIncomingFiles[i] = log[Len(log) + 1 - i]

\* A temporary file belongs to a transfer in progress: no failure leaves one behind,
\* only a crash does (handlePut's deferred Remove).
NoStrayTemp ==
    crashes = 0 => temps = {job[h].id : h \in {g \in Handlers : pc[g] \in {"copy", "stat", "rename"}}}

\* The receiver follows the mesh (runFileServer).  Once the mesh is gone or the mode
\* excludes it, for good, nothing listens any more.  After the loop has seen the mesh
\* unwanted it comes back with a receiver on the overlay address, if from then on
\* nothing stands in the way.
ReceiverFollowsMesh ==
    /\ <>[]~Wanted => <>[](srv.st = "none" /\ late \cup closing = {})
    /\ \A i \in IPs :
          (seenDown /\ late \cup closing = {} /\ []Good(i)) ~> (srv.st = "listening" /\ srv.addr = i)

=============================================================================
