------------------------------ MODULE MeshView ------------------------------
(***************************************************************************)
(* The inner mesh as the daemon's two peer services see it: whether it is  *)
(* up, whether the mode includes it, the overlay address it reports, its   *)
(* peers, and whether a socket on that address can be opened on this host  *)
(* (not in netstack mode, where the address exists only in the process).   *)
(* DaemonLegs models how the mesh gets there; here it moves freely.        *)
(***************************************************************************)
EXTENDS Integers, FiniteSets

CONSTANTS
    IPs,            \* overlay addresses of this node
    Peers,          \* overlay addresses of other nodes
    None

ASSUME MeshParameters == None \notin IPs /\ None \notin Peers

VARIABLES
    up,             \* mesh.State() = StateUp
    nb,             \* the current mode includes the inner mesh
    ip,             \* mesh.LocalIP(), None while unknown
    members,        \* mesh.Peers()
    bindable        \* a socket on ip can be opened

meshVars == <<up, nb, ip, members, bindable>>

MeshInit == up = FALSE /\ nb = TRUE /\ ip = None /\ members = {} /\ bindable \in BOOLEAN

Wanted == up /\ nb

\* A fresh client: an address, or none yet, and a tun device or netstack.
MeshComesUp(i, b) ==
    /\ ~up
    /\ up' = TRUE /\ ip' = i /\ bindable' = b
    /\ UNCHANGED <<nb, members>>

\* The client is gone and with it what it reported.
MeshGoesDown ==
    /\ up
    /\ up' = FALSE /\ ip' = None /\ members' = {}
    /\ UNCHANGED <<nb, bindable>>

LearnIP(i) == up /\ ip = None /\ ip' = i /\ UNCHANGED <<up, nb, members, bindable>>

\* Another process takes or frees the port.
PortChange == bindable' = ~bindable /\ UNCHANGED <<up, nb, ip, members>>

SwitchMode == nb' = ~nb /\ UNCHANGED <<up, ip, members, bindable>>

PeersChange(m) == up /\ m # members /\ members' = m /\ UNCHANGED <<up, nb, ip, bindable>>

MeshChange ==
    \/ \E i \in IPs \cup {None}, b \in BOOLEAN : MeshComesUp(i, b)
    \/ MeshGoesDown
    \/ \E i \in IPs : LearnIP(i)
    \/ PortChange
    \/ SwitchMode
    \/ \E m \in SUBSET Peers : PeersChange(m)

\* Nothing stands in the way of serving on address i.
Good(i) == Wanted /\ ip = i /\ bindable

=============================================================================
