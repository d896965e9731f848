------------------------------ MODULE PeerConn ------------------------------
(***************************************************************************)
(* Peer latency (internal/peerping; runPeerConn and GetPeerConnectivity of *)
(* internal/daemon): the loop that starts and stops the manager with the   *)
(* mesh, the manager's pingers, one per peer, the echoes on the wire, and  *)
(* the rolling history each pinger writes.                                 *)
(*                                                                         *)
(* A pinger owns its socket, so the echoes on their way to it vanish with  *)
(* it.  Round-trip times are left out: a sample says which probe it counts *)
(* and whether its echo came.                                              *)
(***************************************************************************)
EXTENDS MeshView, Sequences

CONSTANTS
    History,        \* capacity of a ring
    MaxSeq          \* bound on the probes of one pinger

ASSUME PingParameters == History \in Nat \ {0} /\ MaxSeq \in Nat /\ None # ""

VARIABLES
    pingLoop,       \* runPeerConn: "wait", "start" or "targets" between its reads
    ctrl,           \* the manager: None, or the address its responder is bound to ("" for none)
    failedBind,
    peerConn,       \* d.peerConn: the manager is published as the source of RTTs
    pinger,         \* per peer: None, or sequence number, wire and ring of its pinger
    pingSeen        \* history: the loop saw the mesh unwanted and has not started since

pingVars == <<pingLoop, ctrl, failedBind, peerConn, pinger, pingSeen>>
peerVars == <<meshVars, pingVars>>

NoSample == [seq |-> 0, lost |-> FALSE, echo |-> 0]
Index == 0..(History - 1)

PingInit ==
    /\ MeshInit
    /\ pingLoop = "wait" /\ ctrl = None /\ failedBind = None /\ peerConn = FALSE
    /\ pinger = [p \in Peers |-> None]
    /\ pingSeen = TRUE

-----------------------------------------------------------------------------
(* The reconcile loop.                                                     *)

\* A plausible mistake: the failed bind outlives the mesh it failed on.
StopManager_KeepsFailedBind ==
    /\ ctrl' = None /\ peerConn' = FALSE
    /\ pinger' = [p \in Peers |-> None]
    /\ UNCHANGED failedBind

\* stop(), with Manager.Stop: responder and pingers go, the failed bind is forgotten.
StopManager ==
    /\ ctrl' = None /\ peerConn' = FALSE
    /\ pinger' = [p \in Peers |-> None]
    /\ failedBind' = None

\* reconcile up to mesh.State().
PingTick ==
    /\ pingLoop = "wait"
    /\ IF ~Wanted
       THEN StopManager /\ pingSeen' = TRUE /\ UNCHANGED pingLoop
       ELSE /\ pingLoop' = IF ctrl = None THEN "start" ELSE "targets"
            /\ UNCHANGED <<ctrl, failedBind, peerConn, pinger, pingSeen>>
    /\ UNCHANGED meshVars

\* mesh.LocalIP() and Manager.Start: without an address there is no responder, with
\* one the socket opens or the address is remembered as failed.
PingStart ==
    /\ pingLoop = "start"
    /\ \/ /\ ip # None /\ ip = failedBind
          /\ pingLoop' = "wait"
          /\ UNCHANGED <<ctrl, failedBind, peerConn, pingSeen>>
       \/ /\ ip # None /\ ip # failedBind /\ ~bindable
          /\ pingLoop' = "wait" /\ failedBind' = ip /\ pingSeen' = FALSE
          /\ UNCHANGED <<ctrl, peerConn>>
       \/ /\ ip = None \/ (ip # failedBind /\ bindable)
          /\ pingLoop' = "targets" /\ failedBind' = None /\ pingSeen' = FALSE
          /\ ctrl' = IF ip = None THEN "" ELSE ip
          /\ peerConn' = TRUE
    /\ UNCHANGED <<meshVars, pinger>>

Fresh == [seq |-> 0, waiting |-> FALSE, wire |-> {},
          buf |-> [i \in Index |-> NoSample], head |-> 0, n |-> 0]

\* mesh.Peers() and SetTargets: pingers of departed peers are cancelled, new peers
\* get one, the others keep theirs with its history.  Without a peer list all stay.
PingTargets ==
    /\ pingLoop = "targets" /\ pingLoop' = "wait"
    /\ \/ pinger' = [p \in Peers |-> IF p \notin members THEN None
                                     ELSE IF pinger[p] = None THEN Fresh ELSE pinger[p]]
       \/ UNCHANGED pinger
    /\ UNCHANGED <<meshVars, ctrl, failedBind, peerConn, pingSeen>>

-----------------------------------------------------------------------------
(* A pinger.                                                               *)

SampleCount(g) == IF g.n < History THEN g.n + 1 ELSE g.n

\* Ring.Add.
SampleAdd(g, s) == [g EXCEPT !.waiting = FALSE, !.buf[g.head] = s,
                             !.head = (@ + 1) % History, !.n = SampleCount(g)]

\* Ring.Samples: oldest first.
Samples(g) == [i \in 1..g.n |-> g.buf[(((g.head - g.n + History) % History) + i - 1) % History]]

\* Ring.Stats: how many samples there are and how many of them are lost.
Stats(g) == [n |-> g.n, lost |-> Cardinality({i \in 1..g.n : Samples(g)[i].lost})]

\* Probe sends; the peer's responder echoes it, or the datagram is lost.
Send(p) ==
    /\ pinger[p] # None /\ ~pinger[p].waiting /\ pinger[p].seq < MaxSeq
    /\ \E echoed \in BOOLEAN :
          pinger' = [pinger EXCEPT ![p].seq = @ + 1, ![p].waiting = TRUE,
                        ![p].wire = IF echoed THEN @ \cup {pinger[p].seq + 1} ELSE @]
    /\ UNCHANGED <<meshVars, pingLoop, ctrl, failedBind, peerConn, pingSeen>>

\* A plausible mistake: any echo is taken for the awaited one.
Awaited_Any(g, e) == TRUE

\* The echo's sequence number is the one of the probe in progress.
Awaited(g, e) == e = g.seq

\* An echo arrives, once or again; one that is not awaited is skipped.
Receive(p, e) ==
    /\ pinger[p] # None /\ pinger[p].waiting /\ e \in pinger[p].wire
    /\ \E again \in BOOLEAN :
          LET g == [pinger[p] EXCEPT !.wire = IF again THEN @ ELSE @ \ {e}]
          IN  pinger' = [pinger EXCEPT ![p] =
                  IF Awaited(g, e) THEN SampleAdd(g, [seq |-> g.seq, lost |-> FALSE, echo |-> e])
                  ELSE g]
    /\ UNCHANGED <<meshVars, pingLoop, ctrl, failedBind, peerConn, pingSeen>>

\* The deadline passes, or the socket fails: a lost sample.
Timeout(p) ==
    /\ pinger[p] # None /\ pinger[p].waiting
    /\ pinger' = [pinger EXCEPT ![p] =
           SampleAdd(@, [seq |-> pinger[p].seq, lost |-> TRUE, echo |-> 0])]
    /\ UNCHANGED <<meshVars, pingLoop, ctrl, failedBind, peerConn, pingSeen>>

\* GetPeerConnectivity: a peer is measured when the published manager holds samples.
Measured(p) == nb /\ p \in members /\ peerConn /\ pinger[p] # None /\ Stats(pinger[p]).n > 0

PingStep == PingTick \/ PingStart \/ PingTargets

PingNext ==
    \/ MeshChange /\ UNCHANGED pingVars
    \/ PingStep
    \/ \E p \in Peers : Send(p) \/ (\E e \in 1..MaxSeq : Receive(p, e)) \/ Timeout(p)

\* The ticker fires.
PingSpec == PingInit /\ [][PingNext]_peerVars /\ WF_peerVars(PingStep)

-----------------------------------------------------------------------------
(* Properties.                                                             *)

\* Every probe is counted once and in order: the history holds the last probes that
\* ended, consecutively, oldest first, and a success stands for the echo of that very
\* probe, whatever late or duplicate echoes came in between; what is shown as measured
\* comes from a running manager (Pinger.Run, Ring, GetPeerConnectivity).
EveryProbeCounted ==
    \A p \in Peers : pinger[p] # None =>
        LET g == pinger[p]
            ended == IF g.waiting THEN g.seq - 1 ELSE g.seq
        IN  /\ g.n = IF ended < History THEN ended ELSE History
            /\ \A i \in 1..g.n : /\ Samples(g)[i].seq = ended - g.n + i
                                 /\ Samples(g)[i].lost \/ Samples(g)[i].echo = Samples(g)[i].seq
            /\ Measured(p) => ctrl # None /\ Stats(g).lost <= ended

\* Once the mesh is gone or the mode excludes it, for good, responder and pingers
\* are gone too; and after the loop has seen that, a mesh on which nothing stands in
\* the way gets a responder on its address, a bind that failed before notwithstanding
\* (runPeerConn: "gets exactly one fresh attempt").
PingingFollowsMesh ==
    /\ <>[]~Wanted => <>[](ctrl = None /\ ~peerConn /\ \A p \in Peers : pinger[p] = None)
    /\ \A i \in IPs : (pingSeen /\ []Good(i)) ~> (ctrl = i /\ peerConn)

=============================================================================
