----------------------------- MODULE IpcSession -----------------------------
(***************************************************************************)
(* IPC between the desktop tray and the daemon (internal/ipc: client.go,   *)
(* dispatch.go, server.go; internal/ui/tray.go): the tray's connection,    *)
(* line-framed requests and replies, the connection's dispatcher that      *)
(* answers in order, a client whose goroutines share the connection behind *)
(* a mutex and give a call up at its deadline, and the tray that polls,    *)
(* shows what it was told and sends what is clicked.                       *)
(*                                                                         *)
(* The daemon is its tunnel state and its active profile; other clients,   *)
(* on connections of their own, may change both at any time.  The uid gate *)
(* is abstract: a request that changes the daemon may be refused.  A reply *)
(* that is decoded as another method's gives that method's zero value, as  *)
(* encoding/json does.  Ids are compared only with ids of the same         *)
(* connection, a few calls apart: they are counted modulo IdSpace.         *)
(***************************************************************************)
EXTENDS Integers, Sequences, FiniteSets

CONSTANTS
    Slugs,
    MaxTimeouts,    \* bound on calls given up
    IdSpace,        \* modulus of the ids
    None

Poll == "poll"      \* startPolling's goroutine
Click == "click"    \* handleClicks and the row watchers
Goroutines == {Poll, Click}

Reads == {"getStatus", "listProfiles"}
Legs == {"connect", "disconnect"}
Call(m, a) == [m |-> m, a |-> a]
Calls == {Call(m, None) : m \in Reads \cup Legs}
            \cup {Call("setActiveProfile", s) : s \in Slugs}
Request == [id : Nat, call : Calls]

ASSUME SessionParameters ==
    /\ MaxTimeouts \in Nat /\ IdSpace \in Nat /\ IdSpace > MaxTimeouts
    /\ None \notin Slugs /\ None \notin Request

VARIABLES
    todo,           \* per goroutine: the calls it still has to make
    cur,            \* per goroutine: the call it waits for
    got,            \* per goroutine: what its refresh was told, and what is next
    lastId,         \* the tray's idGenerator
    reqs, reps,     \* lines on their way
    stopping,       \* the server's context is cancelled
    tun, active,    \* the daemon: tunnel up or down, active profile
    row, lastState, \* the tray: active row shown (None: no rows), last state noted
    icon, menu,     \* the tray: state that icon and menu show
    overlap,        \* history: a refresh noted its state between another's and its icon
    timeouts        \* history: calls the tray gave up

wireVars == <<lastId, reqs, reps, stopping>>
trayVars == <<row, lastState, icon, menu, overlap>>
daemonVars == <<tun, active>>
vars == <<todo, cur, got, wireVars, daemonVars, trayVars, timeouts>>

Refresh == <<Call("getStatus", None), Call("listProfiles", None)>>

Init ==
    /\ todo = [g \in Goroutines |-> <<>>] /\ cur = [g \in Goroutines |-> None]
    /\ got = [g \in Goroutines |-> None]
    /\ lastId = 0
    /\ reqs = <<>> /\ reps = <<>> /\ stopping = FALSE
    /\ tun = "down" /\ active \in Slugs
    /\ row = None /\ lastState = "down" /\ icon = "down" /\ menu = "down" /\ overlap = FALSE
    /\ timeouts = 0

-----------------------------------------------------------------------------
(* The tray decides what to call.                                          *)

Free(g) == todo[g] = <<>> /\ cur[g] = None /\ got[g] = None

\* startPolling's ticker.
Tick ==
    /\ Free(Poll)
    /\ todo' = [todo EXCEPT ![Poll] = Refresh]
    /\ UNCHANGED <<cur, got, wireVars, daemonVars, trayVars, timeouts>>

\* The menu offers Connect or Disconnect by the state it shows, and the inactive rows;
\* after the call the tray refreshes.
Clicked(call) ==
    /\ Free(Click)
    /\ \/ call.m = "connect" /\ menu = "down"
       \/ call.m = "disconnect" /\ menu = "up"
       \/ call.m = "setActiveProfile" /\ row \notin {None, call.a}
    /\ todo' = [todo EXCEPT ![Click] = <<call>> \o Refresh]
    /\ UNCHANGED <<cur, got, wireVars, daemonVars, trayVars, timeouts>>

-----------------------------------------------------------------------------
(* rpcClient.call.                                                         *)

\* A plausible mistake: the mutex guards the write alone.
Unlocked_Always == TRUE

\* c.mu: held from the write of the request to the read of its reply.
Unlocked == \A g \in Goroutines : cur[g] = None

Write(g) ==
    LET id == (lastId + 1) % IdSpace
    IN  /\ todo[g] # <<>> /\ cur[g] = None /\ Unlocked
        /\ lastId' = id
        /\ reqs' = Append(reqs, [id |-> id, call |-> Head(todo[g])])
        /\ cur' = [cur EXCEPT ![g] = [id |-> id, call |-> Head(todo[g])]]
        /\ todo' = [todo EXCEPT ![g] = Tail(@)]
        /\ UNCHANGED <<got, reps, stopping, daemonVars, trayVars, timeouts>>

\* What a call's result type makes of a reply.
Decoded(m, r) ==
    CASE m = "getStatus" -> IF r.kind = "status" THEN r.val ELSE "down"
      [] m = "listProfiles" -> IF r.kind = "profiles" THEN r.val ELSE None
      [] OTHER -> None

\* refresh keeps the status until it has the profiles.
Keeps(g, m, r) ==
    CASE m = "getStatus" -> [state |-> Decoded(m, r), row |-> None, at |-> "profiles"]
      [] m = "listProfiles" -> [got[g] EXCEPT !.row = Decoded(m, r), !.at = "rows"]
      [] OTHER -> got[g]

\* A call that fails: refresh gives up without the status and does without the
\* profiles, switchProfile gives up, connect and disconnect refresh all the same.
Failed(g) ==
    LET m == cur[g].call.m
    IN  /\ cur' = [cur EXCEPT ![g] = None]
        /\ todo' = [todo EXCEPT ![g] = IF m \in Legs THEN @ ELSE <<>>]
        /\ got' = IF m = "listProfiles" THEN [got EXCEPT ![g].at = "note"] ELSE got

\* The next line is the reply, whatever its id.
ReadReply(g) ==
    LET r == Head(reps)
    IN  /\ cur[g] # None /\ reps # <<>>
        /\ reps' = Tail(reps)
        /\ IF r.kind = "error" THEN Failed(g)
           ELSE /\ cur' = [cur EXCEPT ![g] = None]
                /\ got' = [got EXCEPT ![g] = Keeps(g, cur[g].call.m, r)]
                /\ UNCHANGED todo
        /\ UNCHANGED <<lastId, reqs, stopping, daemonVars, trayVars, timeouts>>

\* The deadline passes; the reply will come all the same, and the tray goes on with
\* the connection.
GiveUp(g) ==
    /\ cur[g] # None /\ timeouts < MaxTimeouts
    /\ timeouts' = timeouts + 1
    /\ Failed(g)
    /\ UNCHANGED <<wireVars, daemonVars, trayVars>>

\* A dispatcher that scans a line under a cancelled context ends, and with it the
\* connection: the call fails, and so does every later one.  The tray does not dial
\* again.
CallFails(g) ==
    /\ stopping /\ cur[g] # None /\ reps = <<>>
    /\ Failed(g)
    /\ reqs' = <<>>
    /\ UNCHANGED <<lastId, reps, stopping, daemonVars, trayVars, timeouts>>

At(g, place) == got[g] # None /\ got[g].at = place

\* refreshProfiles rewrites the rows under t.mu.
ShowRows(g) ==
    /\ At(g, "rows")
    /\ row' = got[g].row
    /\ got' = [got EXCEPT ![g].at = "note"]
    /\ UNCHANGED <<todo, cur, wireVars, daemonVars, lastState, icon, menu, overlap, timeouts>>

\* A plausible mistake: compared after the assignment.
Changed_Never(g) == FALSE

Changed(g) == got[g].state # lastState

\* refresh notes the state under t.mu; whether it changed decides on the icon.
NoteState(g) ==
    /\ At(g, "note")
    /\ lastState' = got[g].state
    /\ got' = [got EXCEPT ![g].at = IF Changed(g) THEN "icon" ELSE "menu"]
    /\ overlap' = (overlap \/ \E h \in Goroutines \ {g} : At(h, "icon"))
    /\ UNCHANGED <<todo, cur, wireVars, daemonVars, row, icon, menu, timeouts>>

\* What follows is outside the lock: the icon, if the state changed,
SetIcon(g) ==
    /\ At(g, "icon")
    /\ icon' = got[g].state
    /\ got' = [got EXCEPT ![g].at = "menu"]
    /\ UNCHANGED <<todo, cur, wireVars, daemonVars, row, lastState, menu, overlap, timeouts>>

\* and the menu's titles and buttons, every time.
SetMenu(g) ==
    /\ At(g, "menu")
    /\ menu' = got[g].state
    /\ got' = [got EXCEPT ![g] = None]
    /\ UNCHANGED <<todo, cur, wireVars, daemonVars, row, lastState, icon, overlap, timeouts>>

Show(g) == ShowRows(g) \/ NoteState(g) \/ SetIcon(g) \/ SetMenu(g)

-----------------------------------------------------------------------------
(* Server and dispatcher.                                                  *)

\* Serve scans a line, handles it and writes the reply with the request's id.
Answer(kind, val) ==
    /\ reqs' = Tail(reqs)
    /\ reps' = Append(reps, [id |-> Head(reqs).id, kind |-> kind, val |-> val])
    /\ UNCHANGED <<todo, cur, got, lastId, stopping, trayVars, timeouts>>

Scans == ~stopping /\ reqs # <<>>

\* A peer of another uid than the daemon's owner, or a handler that fails.
HandleRefused ==
    /\ Scans /\ Head(reqs).call.m \notin Reads
    /\ Answer("error", None)
    /\ UNCHANGED daemonVars

\* What the reading handlers report: the tunnel's state, the stored profiles of which
\* one is marked active.
GetStatus == tun
ListProfiles == active

\* A handler that reads.
HandleRead ==
    /\ Scans
    /\ LET m == Head(reqs).call.m
       IN  \/ m = "getStatus" /\ Answer("status", GetStatus)
           \/ m = "listProfiles" /\ Answer("profiles", ListProfiles)
    /\ UNCHANGED daemonVars

\* A handler that changes the daemon.
HandleChange ==
    /\ Scans
    /\ LET call == Head(reqs).call
       IN  \/ call.m = "connect" /\ tun' = "up" /\ UNCHANGED active
           \/ call.m = "disconnect" /\ tun' = "down" /\ UNCHANGED active
           \/ call.m = "setActiveProfile" /\ active' = call.a /\ UNCHANGED tun
    /\ Answer("empty", None)

\* The dispatcher of another connection, the command line's say, handles a request
\* there: any of the mutating methods, the ones the tray has no click for included.
HandleElsewhere ==
    /\ ~stopping
    /\ tun' \in {"up", "down"} /\ active' \in Slugs
    /\ UNCHANGED <<todo, cur, got, wireVars, trayVars, timeouts>>

\* The signal handler cancels the context: the listener closes, dispatchers go on
\* until their next line.
Shutdown ==
    /\ ~stopping /\ stopping' = TRUE
    /\ UNCHANGED <<todo, cur, got, lastId, reqs, reps, daemonVars, trayVars, timeouts>>

Client(g) == Write(g) \/ ReadReply(g) \/ CallFails(g) \/ Show(g)
Dispatch == HandleRead \/ HandleChange \/ HandleRefused

Next ==
    \/ Tick
    \/ \E call \in Calls : Clicked(call)
    \/ \E g \in Goroutines : Client(g) \/ GiveUp(g)
    \/ Dispatch \/ HandleElsewhere \/ Shutdown

\* The ticker fires, the tray's replies are read, its dispatcher makes progress; the
\* mutex is not starved (a waiting goroutine gets sync.Mutex in the end).  Nothing is
\* asked of the other clients.
Spec ==
    /\ Init /\ [][Next]_vars
    /\ WF_vars(Tick) /\ SF_vars(Client(Poll)) /\ SF_vars(Client(Click))
    /\ WF_vars(Dispatch)

-----------------------------------------------------------------------------
(* Properties.                                                             *)

\* A call is about to read the reply of the call that many calls before it as were
\* given up on the connection: its own, as long as none was, whatever the goroutines
\* do; once calls were given up it never is again, since the id is not compared
\* (rpcClient.call).
RepliesShiftByTimeouts ==
    \A g \in Goroutines :
        cur[g] # None /\ reps # <<>> => (cur[g].id - Head(reps).id) % IdSpace = timeouts

\* While no call is given up and the daemon runs, the tray ends up showing the
\* daemon's state and profile, unless they keep changing: a status read before a
\* click's and noted, or put in the menu, after it does not stay.  The icon, which is
\* drawn only on a change and outside the lock, does so too as long as no refresh
\* noted its state between another's note and icon (trayApp.refresh).
TrayConverges ==
    []<><<daemonVars' # daemonVars>>_vars \/
        <>[](\/ timeouts > 0 \/ stopping
             \/ lastState = tun /\ menu = tun /\ row = active /\ (icon = tun \/ overlap))

=============================================================================
