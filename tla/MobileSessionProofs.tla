------------------------- MODULE MobileSessionProofs ------------------------
(***************************************************************************)
(* The safety properties of MobileSession for any number of Runs, on       *)
(* either platform.                                                        *)
(***************************************************************************)
EXTENDS MobileSession, TLAPS

Places == {"none", "queued", "called", "load", "register", "mesh", "outer", "engine", "up",
           "cleanup", "done"}

TypeInv ==
    /\ platform \in {"android", "ios"} /\ job \in Runs \cup {0}
    /\ at \in [Runs -> Places] /\ runMode \in [Runs -> Modes \cup {"none"}]
    /\ mode \in [Runs -> Modes \cup {"none"}]
    /\ ctxCancel \in [Runs -> Runs \cup {0}] /\ innerMesh \in [Runs -> Runs \cup {0}]
    /\ state \in [Runs -> {"unconfigured", "imported", "disconnected", "connecting", "connected",
                           "error"}]
    /\ cancelled \subseteq Runs /\ meshUp \subseteq Runs /\ tunUp \subseteq Runs
    /\ fds \subseteq Runs /\ outrun \subseteq Runs

\* A client says it is connecting or connected for a Run that has yet to write its end.
StateInv ==
    \A c \in Runs : state[c] \in {"connecting", "connected"} =>
        \E r \in Runs : Client(r) = c /\ at[r] \in {"load", "register", "mesh", "outer", "engine", "up"}

\* A Run's device is up only while it blocks.
DeviceInv == \A r \in tunUp : at[r] = "up"

\* A Run that has the mesh to clean up.
Owes(r) == at[r] \in {"outer", "engine", "up", "cleanup"} /\ HasInner(runMode[r])
Begun(r) == Live(r) /\ at[r] # "queued"

\* A client has a mesh for a Run that will clean it up; while no two Runs overlapped,
\* at most one is under way and the mesh its client has is the one that is up.
OwedInv == \A c \in Runs : innerMesh[c] # 0 => \E r \in Runs : Client(r) = c /\ Owes(r)
AloneInv ==
    ~overlap => /\ \A r, q \in Runs : Begun(r) /\ Begun(q) => r = q
                /\ \A r \in meshUp : innerMesh[Client(r)] = r

\* While a client has one Run at a time, a Run that owes a clean-up has its mesh up, and
\* it is the one its client has.
KeepInv ==
    /\ \A r \in Runs : at[r] = "cleanup" => HasInner(runMode[r])
    /\ platform = "ios" \/ ~overlap =>
          \A r \in Runs : Owes(r) => r \in meshUp /\ innerMesh[Client(r)] = r

\* A Run that has registered its cancel.
Registered(r) ==
    /\ at[r] \in {"load", "register", "mesh", "outer", "engine", "up", "cleanup"}
    /\ platform = "ios" => at[r] \notin {"load", "register"}

\* On Android there is no step of its own to register in.
PlaceInv == platform = "android" => \A r \in Runs : at[r] # "register"

Fresh(r) == at[r] \in {"none", "queued", "called"}

\* No Run is cancelled, or registered for a Stop, before it has entered.  A Run the shell
\* let go of is cancelled or among the outrun ones.
CancelInv ==
    /\ \A r \in cancelled : ~Fresh(r)
    /\ \A c \in Runs : ctxCancel[c] # 0 => ~Fresh(ctxCancel[c])
    /\ platform = "android" =>
          \A r \in Runs : Live(r) /\ r # job => r \in cancelled \cup outrun
    /\ \A r \in Runs : Registered(r) /\ r \notin cancelled =>
                          ctxCancel[Client(r)] = r \/ r \in outrun

Inv == TypeInv /\ StateInv /\ DeviceInv /\ OwedInv /\ AloneInv /\ KeepInv
         /\ PlaceInv /\ CancelInv

-----------------------------------------------------------------------------
(* Types. *)

LEMMA RunNumbers == 0 \notin Runs /\ 1 \in Runs /\ \A r \in Runs : Client(r) \in Runs
BY MobileParameters DEF Client, Runs

LEMMA InitHolds == Init => Inv
<1> SUFFICES ASSUME Init PROVE Inv
  OBVIOUS
<1>1. TypeInv
  BY MobileParameters DEF Init, TypeInv, Places
<1>2. StateInv /\ DeviceInv
  BY RunNumbers DEF Init, StateInv, DeviceInv
<1>3. OwedInv /\ AloneInv
  BY RunNumbers DEF Init, OwedInv, AloneInv, Begun, Live, Over
<1>5. KeepInv
  BY DEF Init, KeepInv, Owes
<1>4. PlaceInv /\ CancelInv
  BY RunNumbers DEF Init, PlaceInv, CancelInv, Fresh, Registered, Live, Over
<1> QED
  BY <1>1, <1>2, <1>3, <1>4, <1>5 DEF Inv

States == {"unconfigured", "imported", "disconnected", "connecting", "connected", "error"}

\* A Run moves and may write the state.
LEMMA RunTyped ==
    ASSUME TypeInv, NEW r \in Runs, NEW p \in Places, at' = [at EXCEPT ![r] = p],
           state' = state \/ \E s \in States : state' = [state EXCEPT ![Client(r)] = s]
    PROVE  at' \in [Runs -> Places] /\ state' \in [Runs -> States]
BY RunNumbers DEF TypeInv, States

LEMMA FailsTyped ==
    ASSUME TypeInv, NEW r \in Runs, Fail(r)
    PROVE  at' \in [Runs -> Places] /\ state' \in [Runs -> States]
<1>1. PICK p \in Places : at' = [at EXCEPT ![r] = p]
  BY DEF Fail, Goto, Places
<1> QED
  BY <1>1, RunTyped DEF Fail, SetState, States

LEMMA NextTyped == TypeInv /\ [Next]_vars => TypeInv'
<1> SUFFICES ASSUME TypeInv, [Next]_vars PROVE TypeInv'
  OBVIOUS
<1> USE DEF shellVars, clientVars, legVars, States
<1>1. ASSUME NEW m \in Modes, Start(m) PROVE TypeInv'
  <2>1. PICK r \in Runs : /\ at' = [at EXCEPT ![r] = "queued"]
                          /\ mode' = [mode EXCEPT ![Client(r)] = m]
                          /\ job' = r
    BY <1>1 DEF Start, Unused
  <2>2. at' \in [Runs -> Places] /\ mode' \in [Runs -> Modes \cup {"none"}] /\ job' \in Runs \cup {0}
    BY <2>1, RunNumbers DEF TypeInv, Places
  <2> QED
    BY <1>1, <2>2 DEF Start, TypeInv
<1>2. CASE Stop
  <2>1. Client(job) \in Runs
    BY <1>2, RunNumbers DEF Stop, TypeInv, Client
  <2>2. cancelled' \subseteq Runs /\ outrun' \subseteq Runs /\ job' = 0
    BY <1>2, <2>1 DEF Stop, LetGo, TypeInv
  <2>3. ctxCancel' \in [Runs -> Runs \cup {0}]
    BY <1>2, <2>1 DEF Stop, TypeInv
  <2>4. state' \in [Runs -> States]
    BY <1>2, <2>1 DEF Stop, TypeInv
  <2>5. at' \in [Runs -> Places]
    BY <1>2, <2>1 DEF Stop, LetGo, TypeInv, Places
  <2> QED
    BY <1>2, <2>2, <2>3, <2>4, <2>5 DEF Stop, TypeInv
<1>14. CASE Destroy
  <2>1. outrun' \subseteq Runs /\ at' \in [Runs -> Places] /\ job' = 0
    BY <1>14 DEF Destroy, LetGo, TypeInv, Places
  <2> QED
    BY <1>14, <2>1 DEF Destroy, TypeInv
<1>3. CASE ImportAndroid \/ ImportIos \/ Expire
  BY <1>3 DEF ImportAndroid, ImportIos, Expire, TypeInv
<1>4. ASSUME NEW r \in Runs, Begin(r) PROVE TypeInv'
  BY <1>4 DEF Begin, Goto, Places, TypeInv
<1>5. ASSUME NEW r \in Runs, Enter(r) PROVE TypeInv'
  <2>1. at' \in [Runs -> Places] /\ state' \in [Runs -> States]
    BY <1>5, RunTyped DEF Enter, Goto, SetState, Places
  <2>2. ctxCancel' \in [Runs -> Runs \cup {0}] /\ runMode' \in [Runs -> Modes \cup {"none"}]
    BY <1>5, RunNumbers DEF Enter, TypeInv
  <2>3. outrun' \subseteq Runs
    BY <1>5, RunNumbers DEF Enter, TypeInv
  <2> QED
    BY <1>5, <2>1, <2>2, <2>3 DEF Enter, TypeInv
<1>6. ASSUME NEW r \in Runs, Load(r) PROVE TypeInv'
  <2>1. at' \in [Runs -> Places] /\ state' \in [Runs -> States]
    BY <1>6, RunTyped DEF Load, Goto, SetState, Places
  <2> QED
    BY <1>6, <2>1 DEF Load, TypeInv
<1>7. ASSUME NEW r \in Runs, Register(r) PROVE TypeInv'
  BY <1>7, RunNumbers DEF Register, Goto, Places, TypeInv
<1>8. ASSUME NEW r \in Runs, Mesh(r) PROVE TypeInv'
  <2>1. at' \in [Runs -> Places] /\ state' \in [Runs -> States]
    BY <1>8, RunTyped, FailsTyped DEF Mesh, Goto, Places
  <2>2. innerMesh' \in [Runs -> Runs \cup {0}] /\ meshUp' \subseteq Runs
    BY <1>8, RunNumbers DEF Mesh, TypeInv
  <2> QED
    BY <1>8, <2>1, <2>2 DEF Mesh, TypeInv
<1>9. ASSUME NEW r \in Runs, Outer(r) PROVE TypeInv'
  <2>1. at' \in [Runs -> Places] /\ state' \in [Runs -> States]
    BY <1>9, RunTyped, FailsTyped DEF Outer, Goto, SetState, Places
  <2> QED
    BY <1>9, <2>1 DEF Outer, TypeInv
<1>10. ASSUME NEW r \in Runs, Engine(r) PROVE TypeInv'
  <2>1. at' \in [Runs -> Places] /\ state' \in [Runs -> States]
    BY <1>10, RunTyped, FailsTyped DEF Engine, Goto, Places
  <2> QED
    BY <1>10, <2>1 DEF Engine, TypeInv
<1>11. ASSUME NEW r \in Runs, Wake(r) PROVE TypeInv'
  <2>1. at' \in [Runs -> Places] /\ state' \in [Runs -> States]
    BY <1>11, RunTyped DEF Wake, Goto, SetState, Places
  <2> QED
    BY <1>11, <2>1 DEF Wake, TypeInv
<1>12. ASSUME NEW r \in Runs, Cleanup(r) PROVE TypeInv'
  BY <1>12, RunNumbers DEF Cleanup, Goto, Places, TypeInv
<1>13. CASE UNCHANGED vars
  BY <1>13 DEF vars, TypeInv
<1> QED
  BY <1>1, <1>2, <1>3, <1>4, <1>5, <1>6, <1>7, <1>8, <1>9, <1>10, <1>11, <1>12, <1>13,
     <1>14 DEF Next, Run

-----------------------------------------------------------------------------
(* What a client reports. *)

Busy == {"load", "register", "mesh", "outer", "engine", "up"}

\* A Run moves and leaves the state alone, or writes a state that fits its place.
LEMMA RunReports ==
    ASSUME TypeInv, StateInv, NEW r \in Runs, NEW p \in Places, NEW s \in States,
           UNCHANGED platform, at' = [at EXCEPT ![r] = p],
           \/ state' = state /\ (at[r] \in Busy => p \in Busy)
           \/ /\ state' = [state EXCEPT ![Client(r)] = s]
              /\ s \in {"connecting", "connected"} => p \in Busy
    PROVE  StateInv'
<1> SUFFICES ASSUME NEW c \in Runs, state'[c] \in {"connecting", "connected"}
             PROVE  \E q \in Runs : Client(q)' = c /\ at'[q] \in Busy
  BY DEF StateInv, Busy
<1>1. \A q \in Runs : Client(q)' = Client(q)
  BY DEF Client
<1>2. CASE state' = state /\ (at[r] \in Busy => p \in Busy)
  <2>1. PICK q \in Runs : Client(q) = c /\ at[q] \in Busy
    BY <1>2 DEF StateInv, Busy
  <2>2. at'[q] \in Busy
    BY <1>2, <2>1 DEF TypeInv
  <2> QED
    BY <1>1, <2>1, <2>2
<1>3. CASE /\ state' = [state EXCEPT ![Client(r)] = s]
           /\ s \in {"connecting", "connected"} => p \in Busy
  <2>1. CASE c = Client(r)
    <3>1. at'[r] = p /\ p \in Busy
      BY <1>3, <2>1 DEF TypeInv
    <3> QED
      BY <1>1, <2>1, <3>1
  <2>2. CASE c # Client(r)
    <3>1. PICK q \in Runs : Client(q) = c /\ at[q] \in Busy
      BY <1>3, <2>2 DEF StateInv, Busy, TypeInv
    <3>2. at'[q] = at[q]
      BY <2>2, <3>1 DEF TypeInv
    <3> QED
      BY <1>1, <3>1, <3>2
  <2> QED
    BY <2>1, <2>2
<1> QED
  BY <1>2, <1>3

LEMMA NextReports == TypeInv /\ StateInv /\ [Next]_vars => StateInv'
<1> SUFFICES ASSUME TypeInv, StateInv, [Next]_vars PROVE StateInv'
  OBVIOUS
<1> USE DEF shellVars, clientVars, Goto, SetState, Places, Busy, States
<1>1. ASSUME NEW m \in Modes, Start(m) PROVE StateInv'
  <2>1. PICK r \in Runs : at[r] = "none" /\ at' = [at EXCEPT ![r] = "queued"]
    BY <1>1 DEF Start, Unused
  <2> QED
    BY <1>1, <2>1, RunReports DEF Start
<1>2. CASE Stop \/ Destroy
  <2> SUFFICES ASSUME NEW c \in Runs, state'[c] \in {"connecting", "connected"}
               PROVE  \E q \in Runs : Client(q)' = c /\ at'[q] \in Busy
    BY DEF StateInv
  <2>1. \A q \in Runs : Client(q)' = Client(q)
    BY <1>2 DEF Client, Stop, Destroy
  <2>2. state'[c] = state[c]
    BY <1>2 DEF Stop, Destroy, TypeInv
  <2>3. PICK q \in Runs : Client(q) = c /\ at[q] \in Busy
    BY <2>2 DEF StateInv
  <2>4. at'[q] = at[q]
    BY <1>2, <2>3 DEF Stop, Destroy, LetGo, TypeInv
  <2> QED
    BY <2>1, <2>3, <2>4
<1>3. CASE ImportAndroid
  <2>1. \A q \in Runs : Client(q)' = Client(q)
    BY <1>3 DEF Client, ImportAndroid
  <2>2. ASSUME NEW c \in Runs, state'[c] \in {"connecting", "connected"} PROVE state'[c] = state[c]
    BY <1>3, <2>2 DEF ImportAndroid, TypeInv
  <2> QED
    BY <1>3, <2>1, <2>2 DEF ImportAndroid, StateInv
<1>4. CASE ImportIos \/ Expire
  BY <1>4 DEF ImportIos, Expire, StateInv, Client
<1>5. ASSUME NEW r \in Runs, Begin(r) \/ Enter(r) \/ Register(r) PROVE StateInv'
  BY <1>5, RunReports DEF Begin, Enter, Register
<1>6. ASSUME NEW r \in Runs, Load(r) PROVE StateInv'
  BY <1>6, RunReports DEF Load
<1>7. ASSUME NEW r \in Runs, Fail(r), UNCHANGED platform PROVE StateInv'
  <2>1. PICK p \in Places : at' = [at EXCEPT ![r] = p]
    BY <1>7 DEF Fail
  <2> QED
    BY <1>7, <2>1, RunReports DEF Fail
<1>8. ASSUME NEW r \in Runs, Mesh(r) PROVE StateInv'
  BY <1>7, <1>8, RunReports DEF Mesh
<1>9. ASSUME NEW r \in Runs, Outer(r) PROVE StateInv'
  BY <1>7, <1>9, RunReports DEF Outer
<1>10. ASSUME NEW r \in Runs, Engine(r) PROVE StateInv'
  BY <1>7, <1>10, RunReports DEF Engine
<1>11. ASSUME NEW r \in Runs, Wake(r) PROVE StateInv'
  <2>1. PICK p \in Places : at' = [at EXCEPT ![r] = p]
    BY <1>11 DEF Wake
  <2> QED
    BY <1>11, <2>1, RunReports DEF Wake
<1>12. ASSUME NEW r \in Runs, Cleanup(r) PROVE StateInv'
  BY <1>12, RunReports DEF Cleanup
<1>13. CASE UNCHANGED vars
  BY <1>13 DEF vars, StateInv, Client
<1> QED
  BY <1>1, <1>2, <1>3, <1>4, <1>5, <1>6, <1>8, <1>9, <1>10, <1>11, <1>12, <1>13 DEF Next,
     Run

LEMMA NextDevices == TypeInv /\ DeviceInv /\ [Next]_vars => DeviceInv'
<1> SUFFICES ASSUME TypeInv, DeviceInv, [Next]_vars PROVE DeviceInv'
  OBVIOUS
<1> USE DEF Goto, legVars
<1>1. ASSUME NEW m \in Modes, Start(m) PROVE DeviceInv'
  <2>1. PICK r \in Runs : at[r] = "none" /\ at' = [at EXCEPT ![r] = "queued"]
    BY <1>1 DEF Start, Unused
  <2> QED
    BY <1>1, <2>1 DEF Start, DeviceInv, TypeInv
<1>2. CASE Stop \/ Destroy
  BY <1>2 DEF Stop, Destroy, LetGo, DeviceInv, TypeInv
<1>3. CASE ImportAndroid \/ ImportIos \/ Expire \/ UNCHANGED vars
  BY <1>3 DEF ImportAndroid, ImportIos, Expire, vars, DeviceInv
<1>4. ASSUME NEW r \in Runs, Begin(r) \/ Enter(r) \/ Load(r) \/ Register(r) \/ Cleanup(r)
      PROVE  DeviceInv'
  BY <1>4 DEF Begin, Enter, Load, Register, Cleanup, DeviceInv, TypeInv
<1>5. ASSUME NEW r \in Runs, Mesh(r) \/ Outer(r) PROVE DeviceInv'
  BY <1>5 DEF Mesh, Outer, Fail, DeviceInv, TypeInv
<1>6. ASSUME NEW r \in Runs, Engine(r) \/ Wake(r) PROVE DeviceInv'
  BY <1>6 DEF Engine, Wake, Fail, DeviceInv, TypeInv
<1> QED
  BY <1>1, <1>2, <1>3, <1>4, <1>5, <1>6 DEF Next, Run

-----------------------------------------------------------------------------
(* The meshes. *)

\* A Run moves and keeps what it owes; no client's mesh changes.
LEMMA RunOwes ==
    ASSUME TypeInv, OwedInv, NEW r \in Runs, UNCHANGED <<platform, innerMesh>>,
           \A q \in Runs \ {r} : at'[q] = at[q] /\ runMode'[q] = runMode[q],
           Owes(r) => Owes(r)'
    PROVE  OwedInv'
<1> SUFFICES ASSUME NEW c \in Runs, innerMesh[c] # 0
             PROVE  \E q \in Runs : Client(q)' = c /\ Owes(q)'
  BY DEF OwedInv
<1>1. PICK q \in Runs : Client(q) = c /\ Owes(q)
  BY DEF OwedInv
<1>2. Client(q)' = c
  BY <1>1 DEF Client
<1>3. Owes(q)'
  BY <1>1 DEF Owes
<1> QED
  BY <1>2, <1>3

\* A step in which no Run begins and none gets a mesh.
LEMMA StaysAlone ==
    ASSUME AloneInv, UNCHANGED <<platform, overlap, innerMesh, meshUp>>,
           \A q \in Runs : Begun(q)' => Begun(q)
    PROVE  AloneInv'
<1>1. \A q \in Runs : Client(q)' = Client(q)
  BY DEF Client
<1> QED
  BY <1>1 DEF AloneInv, Client

LEMMA NextMeshes == TypeInv /\ OwedInv /\ AloneInv /\ [Next]_vars => OwedInv' /\ AloneInv'
<1> SUFFICES ASSUME TypeInv, OwedInv, AloneInv, [Next]_vars PROVE OwedInv' /\ AloneInv'
  OBVIOUS
<1> USE DEF Goto, shellVars, clientVars, legVars
<1>1. ASSUME NEW m \in Modes, Start(m) PROVE OwedInv' /\ AloneInv'
  <2>1. PICK r \in Runs : at[r] = "none" /\ at' = [at EXCEPT ![r] = "queued"]
    BY <1>1 DEF Start, Unused
  <2>2. /\ \A q \in Runs \ {r} : at'[q] = at[q]
        /\ \A q \in Runs : Begun(q)' => Begun(q)
    BY <2>1 DEF TypeInv, Begun, Live, Over
  <2> QED
    BY <1>1, <2>1, <2>2, RunOwes, StaysAlone DEF Start, Owes
<1>2. CASE Stop \/ Destroy
  <2>1. \A q \in Runs : /\ at'[q] = at[q] \/ (at[q] = "queued" /\ at'[q] = "done")
                        /\ Begun(q)' => Begun(q)
    BY <1>2 DEF Stop, Destroy, LetGo, TypeInv, Begun, Live, Over
  <2>2. UNCHANGED <<platform, innerMesh, meshUp, overlap, runMode>>
    BY <1>2 DEF Stop, Destroy
  <2>3. PICK r \in Runs : \A q \in Runs \ {r} : at'[q] = at[q]
    BY <1>2, RunNumbers DEF Stop, Destroy, LetGo, TypeInv
  <2> QED
    BY <2>1, <2>2, <2>3, RunOwes, StaysAlone DEF Owes
<1>3. CASE ImportAndroid \/ ImportIos \/ Expire \/ UNCHANGED vars
  <2>1. UNCHANGED <<platform, at, runMode, overlap, innerMesh, meshUp>>
    BY <1>3 DEF ImportAndroid, ImportIos, Expire, vars
  <2>2. OwedInv'
    BY <2>1, RunNumbers, RunOwes DEF Owes
  <2> QED
    BY <2>1, <2>2, StaysAlone DEF Begun, Live, Over
<1>4. ASSUME NEW r \in Runs, Begin(r) PROVE OwedInv' /\ AloneInv'
  <2>1. \A q \in Runs \ {r} : at'[q] = at[q]
    BY <1>4 DEF Begin, TypeInv
  <2>2. OwedInv'
    BY <1>4, <2>1, RunOwes DEF Begin, Owes
  <2>3. ASSUME ~overlap' PROVE ~overlap /\ \A q \in Runs \ {r} : ~Live(q)
    BY <1>4, <2>3 DEF Begin
  <2>4. ASSUME ~overlap', NEW q \in Runs, Begun(q)' PROVE q = r
    BY <2>1, <2>3, <2>4 DEF Begun, Live, Over
  <2>5. \A q \in Runs : Client(q)' = Client(q)
    BY <1>4 DEF Begin, Client
  <2> QED
    BY <1>4, <2>2, <2>3, <2>4, <2>5 DEF Begin, AloneInv, TypeInv
<1>5. ASSUME NEW r \in Runs, Enter(r) \/ Load(r) \/ Register(r) \/ Outer(r) \/ Engine(r) \/ Wake(r)
      PROVE  OwedInv' /\ AloneInv'
  <2>1. UNCHANGED <<platform, overlap, innerMesh, meshUp>>
    BY <1>5 DEF Enter, Load, Register, Outer, Engine, Wake
  <2>2. \A q \in Runs \ {r} : at'[q] = at[q] /\ runMode'[q] = runMode[q]
    BY <1>5 DEF Enter, Load, Register, Outer, Engine, Wake, Fail, TypeInv
  <2>3. Owes(r) => Owes(r)'
    BY <1>5 DEF Enter, Load, Register, Outer, Engine, Wake, Fail, TypeInv, Owes
  <2>4. Begun(r)
    BY <1>5 DEF Enter, Load, Register, Outer, Engine, Wake, Begun, Live, Over
  <2>5. \A q \in Runs : Begun(q)' => Begun(q)
    BY <2>2, <2>4 DEF Begun, Live, Over
  <2> QED
    BY <2>1, <2>2, <2>3, <2>5, RunOwes, StaysAlone
<1>6. ASSUME NEW r \in Runs, Mesh(r) PROVE OwedInv' /\ AloneInv'
  <2>1. UNCHANGED <<platform, overlap, runMode>> /\ at[r] = "mesh"
    BY <1>6 DEF Mesh
  <2>2. \A q \in Runs \ {r} : at'[q] = at[q]
    BY <1>6 DEF Mesh, Fail, TypeInv
  <2>3. \A q \in Runs : Begun(q)' => Begun(q)
    BY <2>1, <2>2 DEF Begun, Live, Over
  <2>4. \A q \in Runs : Client(q)' = Client(q)
    BY <2>1 DEF Client
  <2>5. CASE UNCHANGED <<innerMesh, meshUp>>
    <3>1. ~Owes(r)
      BY <2>1 DEF Owes
    <3> QED
      BY <2>1, <2>2, <2>3, <2>5, <3>1, RunOwes, StaysAlone
  <2>6. CASE /\ HasInner(runMode[r])
             /\ meshUp' = meshUp \cup {r} /\ innerMesh' = [innerMesh EXCEPT ![Client(r)] = r]
             /\ at' = [at EXCEPT ![r] = "outer"]
    <3>1. Owes(r)'
      BY <2>1, <2>6 DEF Owes, TypeInv
    <3>2. ASSUME NEW c \in Runs, innerMesh'[c] # 0
          PROVE  \E q \in Runs : Client(q)' = c /\ Owes(q)'
      <4>1. CASE c = Client(r)
        BY <2>4, <3>1, <4>1
      <4>2. CASE c # Client(r)
        <5>1. PICK q \in Runs : Client(q) = c /\ Owes(q)
          BY <2>6, <3>2, <4>2, RunNumbers DEF OwedInv, TypeInv
        <5>2. Owes(q)'
          BY <2>1, <2>2, <4>2, <5>1 DEF Owes
        <5> QED
          BY <2>4, <5>1, <5>2
      <4> QED
        BY <4>1, <4>2
    <3>3. ASSUME ~overlap PROVE innerMesh[Client(r)] = 0
      <4> SUFFICES ASSUME innerMesh[Client(r)] # 0 PROVE FALSE
        OBVIOUS
      <4>1. PICK q \in Runs : Owes(q)
        BY RunNumbers DEF OwedInv
      <4>2. Begun(q) /\ Begun(r)
        BY <2>1, <4>1 DEF Owes, Begun, Live, Over
      <4> QED
        BY <2>1, <3>3, <4>1, <4>2 DEF AloneInv, Owes
    <3>4. ASSUME ~overlap, NEW q \in meshUp' PROVE innerMesh'[Client(q)] = q
      <4>1. CASE q = r
        BY <2>6, <4>1, RunNumbers DEF TypeInv
      <4>2. CASE q # r
        <5>1. q \in Runs /\ innerMesh[Client(q)] = q
          BY <2>6, <3>4, <4>2 DEF AloneInv, TypeInv
        <5>2. Client(q) # Client(r)
          BY <3>3, <3>4, <5>1, RunNumbers
        <5> QED
          BY <2>6, <5>1, <5>2, RunNumbers DEF TypeInv
      <4> QED
        BY <4>1, <4>2
    <3>5. meshUp' \subseteq Runs
      BY <2>6 DEF TypeInv
    <3> QED
      BY <2>1, <2>3, <2>4, <3>2, <3>4, <3>5 DEF OwedInv, AloneInv
  <2> QED
    BY <1>6, <2>5, <2>6 DEF Mesh
<1>7. ASSUME NEW r \in Runs, Cleanup(r) PROVE OwedInv' /\ AloneInv'
  <2>1. /\ UNCHANGED <<platform, overlap, runMode>> /\ at[r] = "cleanup"
        /\ at' = [at EXCEPT ![r] = "done"]
        /\ meshUp' = meshUp \ {innerMesh[Client(r)]}
        /\ innerMesh' = [innerMesh EXCEPT ![Client(r)] = 0]
    BY <1>7 DEF Cleanup
  <2>2. /\ \A q \in Runs \ {r} : at'[q] = at[q]
        /\ \A q \in Runs : Begun(q)' => Begun(q)
    BY <2>1 DEF TypeInv, Begun, Live, Over
  <2>3. \A q \in Runs : Client(q)' = Client(q)
    BY <2>1 DEF Client
  <2>4. ASSUME NEW c \in Runs, innerMesh'[c] # 0
        PROVE  \E q \in Runs : Client(q)' = c /\ Owes(q)'
    <3>1. c # Client(r) /\ innerMesh[c] # 0
      BY <2>1, <2>4 DEF TypeInv
    <3>2. PICK q \in Runs : Client(q) = c /\ Owes(q)
      BY <3>1 DEF OwedInv
    <3>3. Owes(q)'
      BY <2>1, <2>2, <3>1, <3>2 DEF Owes
    <3> QED
      BY <2>3, <3>2, <3>3
  <2>5. ASSUME ~overlap, NEW q \in meshUp' PROVE innerMesh'[Client(q)] = q
    <3>1. q \in Runs /\ innerMesh[Client(q)] = q /\ q # innerMesh[Client(r)]
      BY <2>1, <2>5 DEF AloneInv, TypeInv
    <3> QED
      BY <2>1, <3>1, RunNumbers DEF TypeInv
  <2>6. meshUp' \subseteq Runs
    BY <2>1 DEF TypeInv
  <2> QED
    BY <2>1, <2>2, <2>3, <2>4, <2>5, <2>6 DEF OwedInv, AloneInv
<1> QED
  BY <1>1, <1>2, <1>3, <1>4, <1>5, <1>6, <1>7 DEF Next, Run

\* A step that touches no mesh and after which no Run owes what it did not owe before.
LEMMA QuietKeeps ==
    ASSUME KeepInv, UNCHANGED <<platform, innerMesh, meshUp>>, overlap => overlap',
           \A q \in Runs : Owes(q)' => Owes(q),
           \A q \in Runs : at'[q] = "cleanup" => HasInner(runMode'[q])
    PROVE  KeepInv'
<1>1. \A q \in Runs : Client(q)' = Client(q)
  BY DEF Client
<1>2. ASSUME platform' = "ios" \/ ~overlap', NEW q \in Runs, Owes(q)'
      PROVE  q \in meshUp' /\ innerMesh'[Client(q)'] = q
  BY <1>1, <1>2 DEF KeepInv
<1> QED
  BY <1>2 DEF KeepInv

LEMMA NextKeeps == TypeInv /\ AloneInv /\ KeepInv /\ [Next]_vars => KeepInv'
<1> SUFFICES ASSUME TypeInv, AloneInv, KeepInv, [Next]_vars PROVE KeepInv'
  OBVIOUS
<1> USE DEF Goto, shellVars, clientVars, legVars
<1>1. ASSUME NEW m \in Modes, Start(m) PROVE KeepInv'
  <2>1. PICK r \in Runs : at[r] = "none" /\ at' = [at EXCEPT ![r] = "queued"]
    BY <1>1 DEF Start, Unused
  <2>2. \A q \in Runs : at'[q] = at[q] \/ at'[q] = "queued"
    BY <2>1 DEF TypeInv
  <2> QED
    BY <1>1, <2>2, QuietKeeps DEF Start, Owes, KeepInv
<1>2. CASE Stop \/ Destroy
  <2>1. \A q \in Runs : at'[q] = at[q] \/ at'[q] = "done"
    BY <1>2 DEF Stop, Destroy, LetGo, TypeInv
  <2>2. UNCHANGED <<platform, innerMesh, meshUp, overlap, runMode>>
    BY <1>2 DEF Stop, Destroy
  <2> QED
    BY <2>1, <2>2, QuietKeeps DEF Owes, KeepInv
<1>3. CASE ImportAndroid \/ ImportIos \/ Expire \/ UNCHANGED vars
  <2>1. UNCHANGED <<platform, innerMesh, meshUp, overlap, runMode, at>>
    BY <1>3 DEF ImportAndroid, ImportIos, Expire, vars
  <2> QED
    BY <2>1, QuietKeeps DEF Owes, KeepInv
<1>4. ASSUME NEW r \in Runs, Begin(r) \/ Enter(r) \/ Load(r) \/ Register(r) PROVE KeepInv'
  <2>1. UNCHANGED <<platform, innerMesh, meshUp>> /\ (overlap => overlap')
    <3>1. Begin(r) => UNCHANGED <<platform, innerMesh, meshUp>>
      BY DEF Begin
    <3>2. Begin(r) => (overlap => overlap')
      BY Zenon DEF Begin
    <3>3. Enter(r) \/ Load(r) \/ Register(r) =>
            UNCHANGED <<platform, innerMesh, meshUp, overlap>>
      BY DEF Enter, Load, Register
    <3> QED
      BY <1>4, <3>1, <3>2, <3>3
  <2>2. at'[r] \in {"called", "load", "mesh", "register", "done"}
    BY <1>4 DEF Begin, Enter, Load, Register, TypeInv
  <2>3. \A q \in Runs \ {r} : at'[q] = at[q]
    BY <1>4 DEF Begin, Enter, Load, Register, TypeInv
  <2>4. \A q \in Runs \ {r} : runMode'[q] = runMode[q]
    BY <1>4 DEF Begin, Enter, Load, Register, TypeInv
  <2> QED
    BY <2>1, <2>2, <2>3, <2>4, QuietKeeps DEF Owes, KeepInv
<1>5. ASSUME NEW r \in Runs, Outer(r) \/ Engine(r) \/ Wake(r) PROVE KeepInv'
  <2>1. /\ UNCHANGED <<platform, innerMesh, meshUp, overlap, runMode>>
        /\ \A q \in Runs \ {r} : at'[q] = at[q]
    BY <1>5 DEF Outer, Engine, Wake, Fail, TypeInv
  <2>2. at[r] \in {"outer", "engine", "up"}
    BY <1>5 DEF Outer, Engine, Wake
  <2>3. at'[r] = "cleanup" => HasInner(runMode[r])
    BY <1>5 DEF Outer, Engine, Wake, Fail, TypeInv
  <2> QED
    BY <2>1, <2>2, <2>3, QuietKeeps DEF Owes, KeepInv
<1>6. ASSUME NEW r \in Runs, Mesh(r) PROVE KeepInv'
  <2>1. /\ at[r] = "mesh" /\ UNCHANGED <<platform, overlap, runMode>>
        /\ \A q \in Runs \ {r} : at'[q] = at[q]
        /\ at'[r] \in {"outer", "done"}
    BY <1>6 DEF Mesh, Fail, TypeInv
  <2>2. CASE UNCHANGED <<innerMesh, meshUp>> /\ ~Owes(r)'
    BY <2>1, <2>2, QuietKeeps DEF Owes, KeepInv
  <2>3. CASE meshUp' = meshUp \cup {r} /\ innerMesh' = [innerMesh EXCEPT ![Client(r)] = r]
    <3>1. \A q \in Runs : Client(q)' = Client(q)
      BY <2>1 DEF Client
    <3>2. ASSUME platform = "ios" \/ ~overlap, NEW q \in Runs, q # r, Owes(q)
          PROVE  Client(q) # Client(r)
      <4>1. CASE platform = "ios"
        BY <3>2, <4>1 DEF Client
      <4>2. CASE ~overlap
        BY <2>1, <3>2, <4>2 DEF AloneInv, Begun, Live, Over, Owes
      <4> QED
        BY <3>2, <4>1, <4>2
    <3>3. ASSUME platform = "ios" \/ ~overlap, NEW q \in Runs, Owes(q)'
          PROVE  q \in meshUp' /\ innerMesh'[Client(q)] = q
      <4>1. CASE q = r
        BY <2>3, <4>1, RunNumbers DEF TypeInv
      <4>2. CASE q # r
        <5>1. Owes(q)
          BY <2>1, <3>3, <4>2 DEF Owes
        <5> QED
          BY <2>3, <3>2, <3>3, <4>2, <5>1, RunNumbers DEF KeepInv, TypeInv
      <4> QED
        BY <4>1, <4>2
    <3> QED
      BY <2>1, <3>1, <3>3 DEF KeepInv
  <2> QED
    BY <1>6, <2>1, <2>2, <2>3 DEF Mesh, Owes, Fail, TypeInv
<1>7. ASSUME NEW r \in Runs, Cleanup(r) PROVE KeepInv'
  <2>1. /\ at[r] = "cleanup" /\ at' = [at EXCEPT ![r] = "done"]
        /\ meshUp' = meshUp \ {innerMesh[Client(r)]}
        /\ innerMesh' = [innerMesh EXCEPT ![Client(r)] = 0]
        /\ UNCHANGED <<platform, overlap, runMode>>
    BY <1>7 DEF Cleanup
  <2>2. Owes(r) /\ \A q \in Runs : Client(q)' = Client(q)
    BY <2>1 DEF KeepInv, Owes, Client
  <2>3. at'[r] = "done" /\ \A q \in Runs \ {r} : at'[q] = at[q]
    BY <2>1 DEF TypeInv
  <2>4. ASSUME platform = "ios" \/ ~overlap, NEW q \in Runs, Owes(q)'
        PROVE  q \in meshUp' /\ innerMesh'[Client(q)] = q
    <3>1. q # r /\ Owes(q)
      BY <2>1, <2>3, <2>4 DEF Owes
    <3>2. Client(q) # Client(r)
      <4>1. CASE platform = "ios"
        BY <3>1, <4>1 DEF Client
      <4>2. CASE ~overlap
        BY <2>2, <3>1, <4>2 DEF AloneInv, Begun, Live, Over, Owes
      <4> QED
        BY <2>4, <4>1, <4>2
    <3>3. innerMesh[Client(r)] = r /\ q \in meshUp /\ innerMesh[Client(q)] = q
      BY <2>2, <2>4, <3>1 DEF KeepInv
    <3> QED
      BY <2>1, <3>1, <3>2, <3>3, RunNumbers DEF TypeInv
  <2> QED
    BY <2>1, <2>2, <2>3, <2>4 DEF KeepInv
<1> QED
  BY <1>1, <1>2, <1>3, <1>4, <1>5, <1>6, <1>7 DEF Next, Run

-----------------------------------------------------------------------------
(* Who can be stopped. *)

\* A Run moves without registering.
LEMMA RunCancels ==
    ASSUME TypeInv, CancelInv, NEW r \in Runs,
           UNCHANGED <<platform, job, cancelled, ctxCancel, outrun>>,
           \A q \in Runs \ {r} : at'[q] = at[q],
           Fresh(r)' => Fresh(r), Live(r)' => Live(r), Registered(r)' => Registered(r)
    PROVE  CancelInv'
<1>1. \A q \in Runs : /\ Fresh(q)' => Fresh(q)
                      /\ Live(q)' => Live(q)
                      /\ Registered(q)' => Registered(q)
  BY DEF Fresh, Live, Over, Registered
<1>2. \A q \in Runs : Client(q)' = Client(q)
  BY DEF Client
<1>3. \A q \in cancelled' : ~Fresh(q)'
  BY <1>1 DEF CancelInv, TypeInv
<1>4. ASSUME NEW c \in Runs, ctxCancel'[c] # 0 PROVE at'[ctxCancel'[c]] \notin {"none", "queued", "called"}
  <2>1. ctxCancel[c] \in Runs /\ ~Fresh(ctxCancel[c])
    BY <1>4 DEF CancelInv, TypeInv
  <2>2. at'[ctxCancel[c]] = at[ctxCancel[c]] \/ ctxCancel[c] = r
    BY <2>1
  <2> QED
    BY <2>1, <2>2 DEF Fresh
<1> QED
  BY <1>1, <1>2, <1>3, <1>4 DEF CancelInv, Fresh

\* The shell lets go of its job, having cancelled what it could reach or not.
LEMMA ShellLetsGo ==
    ASSUME TypeInv, CancelInv, LetGo, UNCHANGED platform, cancelled \subseteq cancelled',
           \A r \in cancelled' : r \in Runs /\ ~Fresh(r),
           \A c \in Runs : ctxCancel'[c] # 0 => ctxCancel'[c] = ctxCancel[c],
           \A r \in Runs : Registered(r) /\ r \notin cancelled' =>
                              ctxCancel'[Client(r)] = r \/ r \in outrun
    PROVE  CancelInv'
<1>1. /\ job' = 0 /\ outrun \subseteq outrun'
      /\ \A q \in Runs : at'[q] = at[q] \/ (at[q] = "queued" /\ at'[q] = "done")
  BY DEF LetGo, TypeInv
<1>2. \A q \in Runs : /\ Fresh(q)' => Fresh(q)
                      /\ Live(q)' => Live(q)
                      /\ Registered(q)' => Registered(q)
                      /\ Client(q)' = Client(q)
  BY <1>1 DEF Fresh, Live, Over, Registered, Client
<1>3. \A q \in cancelled' : ~Fresh(q)'
  BY <1>2
<1>4. ASSUME NEW c \in Runs, ctxCancel'[c] # 0
      PROVE  at'[ctxCancel'[c]] \notin {"none", "queued", "called"}
  <2>1. ctxCancel'[c] = ctxCancel[c] /\ ctxCancel[c] \in Runs /\ ~Fresh(ctxCancel[c])
    BY <1>4 DEF CancelInv, TypeInv
  <2> QED
    BY <1>1, <2>1 DEF Fresh
<1>5. ASSUME platform = "android", NEW r \in Runs, Live(r)' PROVE r \in cancelled' \cup outrun'
  <2>1. CASE r = job
    BY <1>5, <2>1, RunNumbers DEF LetGo, Live, Over
  <2>2. CASE r # job
    BY <1>1, <1>2, <1>5, <2>2 DEF CancelInv
  <2> QED
    BY <2>1, <2>2
<1>6. ASSUME NEW r \in Runs, Registered(r)', r \notin cancelled'
      PROVE  ctxCancel'[Client(r)'] = r \/ r \in outrun'
  BY <1>1, <1>2, <1>6
<1> QED
  BY <1>1, <1>3, <1>4, <1>5, <1>6 DEF CancelInv, Fresh

LEMMA NextPlaces == TypeInv /\ PlaceInv /\ [Next]_vars => PlaceInv'
<1> SUFFICES ASSUME TypeInv, PlaceInv, [Next]_vars PROVE PlaceInv'
  OBVIOUS
<1> USE DEF Goto, shellVars
<1>1. ASSUME NEW m \in Modes, Start(m) PROVE PlaceInv'
  BY <1>1 DEF Start, Unused, PlaceInv, TypeInv
<1>2. CASE Stop \/ Destroy \/ ImportAndroid \/ ImportIos \/ Expire \/ UNCHANGED vars
  BY <1>2 DEF Stop, Destroy, LetGo, ImportAndroid, ImportIos, Expire, vars, PlaceInv,
     TypeInv
<1>3. ASSUME NEW r \in Runs, Begin(r) \/ Enter(r) \/ Load(r) \/ Register(r) \/ Cleanup(r)
      PROVE  PlaceInv'
  BY <1>3 DEF Begin, Enter, Load, Register, Cleanup, PlaceInv, TypeInv
<1>4. ASSUME NEW r \in Runs, Mesh(r) \/ Outer(r) \/ Engine(r) \/ Wake(r) PROVE PlaceInv'
  BY <1>4 DEF Mesh, Outer, Engine, Wake, Fail, PlaceInv, TypeInv
<1> QED
  BY <1>1, <1>2, <1>3, <1>4 DEF Next, Run

LEMMA NextCancels == TypeInv /\ PlaceInv /\ CancelInv /\ [Next]_vars => CancelInv'
<1> SUFFICES ASSUME TypeInv, PlaceInv, CancelInv, [Next]_vars PROVE CancelInv'
  OBVIOUS
<1> USE DEF Goto, shellVars, clientVars, legVars
<1>1. ASSUME NEW m \in Modes, Start(m) PROVE CancelInv'
  <2>1. PICK r \in Runs : at[r] = "none" /\ at' = [at EXCEPT ![r] = "queued"] /\ job' = r
    BY <1>1 DEF Start, Unused
  <2>2. UNCHANGED <<platform, cancelled, ctxCancel,
                    outrun>> /\ (job # 0 => at[job] = "done")
    BY <1>1 DEF Start, MayStart
  <2>3. \A q \in Runs : /\ Fresh(q)' => Fresh(q)
                        /\ q # r => (Live(q)' => Live(q))
                        /\ Registered(q)' => Registered(q)
    BY <2>1, <2>2 DEF Fresh, Live, Over, Registered, TypeInv
  <2>4. \A q \in Runs : Client(q)' = Client(q)
    BY <2>2 DEF Client
  <2>5. \A q \in Runs : Live(q) => q # job
    BY <2>2, RunNumbers DEF Live, Over
  <2>6. \A q \in cancelled' : ~Fresh(q)'
    BY <2>2, <2>3 DEF CancelInv, TypeInv
  <2>7. ASSUME NEW c \in Runs, ctxCancel'[c] # 0 PROVE at'[ctxCancel'[c]] \notin {"none", "queued", "called"}
    <3>1. ctxCancel[c] \in Runs /\ ~Fresh(ctxCancel[c])
      BY <2>2, <2>7 DEF CancelInv, TypeInv
    <3>2. at'[ctxCancel[c]] = at[ctxCancel[c]]
      BY <2>1, <3>1 DEF Fresh, TypeInv
    <3> QED
      BY <2>2, <3>1, <3>2 DEF Fresh
  <2> QED
    BY <2>1, <2>2, <2>3, <2>4, <2>5, <2>6, <2>7 DEF CancelInv, Fresh
<1>2. CASE Stop
  <2> DEFINE c == Client(job)
             x == ctxCancel[c]
  <2>1. /\ cancelled' = IF x # 0 THEN cancelled \cup {x} ELSE cancelled
        /\ ctxCancel' = [ctxCancel EXCEPT ![c] = 0]
        /\ LetGo /\ platform' = platform
        /\ c \in Runs /\ x \in Runs \cup {0}
    BY <1>2, RunNumbers DEF Stop, TypeInv, Client
  <2> HIDE DEF c, x
  <2>2. x # 0 => ~Fresh(x)
    BY <2>1 DEF CancelInv, x
  <2>3. \A r \in cancelled' : r \in Runs /\ ~Fresh(r)
    BY <2>1, <2>2 DEF CancelInv, TypeInv
  <2>4. ASSUME NEW d \in Runs, ctxCancel'[d] # 0 PROVE ctxCancel'[d] = ctxCancel[d]
    BY <2>1, <2>4 DEF TypeInv
  <2>5. ASSUME NEW r \in Runs, Registered(r), r \notin cancelled'
        PROVE  ctxCancel'[Client(r)] = r \/ r \in outrun
    <3>1. r \notin cancelled /\ x # r
      BY <2>1, <2>5, RunNumbers
    <3>2. CASE ctxCancel[Client(r)] = r
      <4>1. Client(r) # c
        BY <3>1, <3>2 DEF x
      <4> QED
        BY <2>1, <3>2, <4>1, RunNumbers DEF TypeInv
    <3> QED
      BY <2>5, <3>1, <3>2 DEF CancelInv
  <2>6. cancelled \subseteq cancelled'
    BY <2>1
  <2> QED
    BY <2>1, <2>3, <2>4, <2>5, <2>6, ShellLetsGo
<1>7. CASE Destroy
  <2>1. UNCHANGED <<platform, cancelled, ctxCancel>> /\ LetGo
    BY <1>7 DEF Destroy
  <2> QED
    BY <2>1, ShellLetsGo DEF CancelInv, TypeInv
<1>3. CASE ImportAndroid \/ ImportIos \/ Expire \/ UNCHANGED vars
  <2>1. UNCHANGED <<platform, job, at, cancelled, ctxCancel, outrun>>
    BY <1>3 DEF ImportAndroid, ImportIos, Expire, vars
  <2> QED
    BY <2>1, RunNumbers, RunCancels DEF Fresh, Live, Over, Registered
<1>4. ASSUME NEW r \in Runs,
             Begin(r) \/ Load(r) \/ Mesh(r) \/ Outer(r) \/ Engine(r) \/ Wake(r) \/ Cleanup(r)
      PROVE  CancelInv'
  <2>1. UNCHANGED <<platform, job, cancelled, ctxCancel, outrun>>
    BY <1>4 DEF Begin, Load, Mesh, Outer, Engine, Wake, Cleanup
  <2>2. \A q \in Runs \ {r} : at'[q] = at[q]
    BY <1>4 DEF Begin, Load, Mesh, Outer, Engine, Wake, Cleanup, Fail, TypeInv
  <2>3. Live(r) /\ (Fresh(r)' => Fresh(r))
    BY <1>4 DEF Begin, Load, Mesh, Outer, Engine, Wake, Cleanup, Fail, TypeInv, Live,
       Over, Fresh
  <2>4. Registered(r)' => Registered(r)
    BY <1>4, <2>1 DEF Begin, Load, Mesh, Outer, Engine, Wake, Cleanup, Fail, TypeInv,
       Registered
  <2> QED
    BY <2>1, <2>2, <2>3, <2>4, RunCancels
<1>5. ASSUME NEW r \in Runs, Enter(r) PROVE CancelInv'
  <2>1. /\ UNCHANGED <<platform, job, cancelled>> /\ outrun \subseteq outrun'
        /\ at[r] = "called" /\ at' = [at EXCEPT ![r] = "load"]
    BY <1>5 DEF Enter
  <2>2. \A q \in Runs \ {r} : at'[q] = at[q]
    BY <2>1 DEF TypeInv
  <2>3. Fresh(r) /\ ~Fresh(r)' /\ Live(r) /\ at'[r] = "load"
    BY <2>1 DEF Fresh, Live, Over, TypeInv
  <2>4. CASE platform = "ios"
    <3>1. ctxCancel' = ctxCancel /\ outrun' = outrun
      BY <1>5, <2>4 DEF Enter
    <3>2. ~Registered(r)'
      BY <2>1, <2>3, <2>4 DEF Registered
    <3> QED
      BY <2>1, <2>2, <2>3, <3>1, <3>2, RunCancels
  <2>5. CASE platform = "android"
    <3>1. ctxCancel' = [ctxCancel EXCEPT ![1] = r]
      BY <1>5, <2>5 DEF Enter
    <3>2. \A q \in Runs : Client(q) = 1 /\ Client(q)' = 1
      BY <2>1, <2>5 DEF Client
    <3>3. \A q \in Runs : /\ Live(q)' => Live(q)
                          /\ q # r => (Registered(q)' => Registered(q))
      BY <2>1, <2>2, <2>3 DEF Live, Over, Registered
    <3>4. \A q \in cancelled' : ~Fresh(q)'
      BY <2>1, <2>2, <2>3 DEF CancelInv, Fresh, TypeInv
    <3>5. ASSUME NEW c \in Runs, ctxCancel'[c] # 0 PROVE at'[ctxCancel'[c]] \notin {"none", "queued", "called"}
      <4>1. CASE ctxCancel'[c] = r
        BY <2>3, <4>1 DEF Fresh
      <4>2. CASE ctxCancel'[c] # r
        <5>1. ctxCancel'[c] = ctxCancel[c] /\ ctxCancel[c] \in Runs \ {r} /\ ~Fresh(ctxCancel[c])
          BY <3>1, <3>5, <4>2 DEF TypeInv, CancelInv
        <5> QED
          BY <2>2, <5>1 DEF Fresh
      <4> QED
        BY <4>1, <4>2
    <3>6. ASSUME NEW q \in Runs, q # r, Registered(q)', q \notin cancelled PROVE q \in outrun'
      <4>1. Registered(q) /\ Live(q)
        BY <3>3, <3>6 DEF Registered, Live, Over
      <4>2. CASE r \in outrun
        <5>1. outrun' = outrun \cup ({ctxCancel[1]} \ {0})
          BY <1>5, <2>5, <4>2 DEF Enter
        <5>2. ctxCancel[1] = q \/ q \in outrun
          BY <3>2, <3>6, <4>1 DEF CancelInv
        <5> QED
          BY <5>1, <5>2, RunNumbers
      <4>3. CASE r \notin outrun
        <5>1. r = job
          BY <2>3, <2>5, <4>3 DEF CancelInv
        <5>2. q \in cancelled \cup outrun
          BY <2>5, <3>6, <4>1, <5>1 DEF CancelInv
        <5> QED
          BY <2>1, <3>6, <5>2
      <4> QED
        BY <4>2, <4>3
    <3>7. ASSUME NEW q \in Runs, Registered(q)', q \notin cancelled
          PROVE  ctxCancel'[1] = q \/ q \in outrun'
      BY <3>1, <3>6, <3>7, RunNumbers DEF TypeInv
    <3>8. ASSUME NEW q \in Runs, Live(q)', q # job PROVE q \in cancelled \cup outrun'
      BY <2>1, <2>5, <3>3, <3>8 DEF CancelInv
    <3> QED
      BY <2>1, <3>2, <3>4, <3>5, <3>7, <3>8 DEF CancelInv, Fresh
  <2> QED
    BY <2>4, <2>5 DEF TypeInv
<1>6. ASSUME NEW r \in Runs, Register(r) PROVE CancelInv'
  <2>1. /\ UNCHANGED <<platform, job, cancelled, outrun>>
        /\ at[r] = "register" /\ at' = [at EXCEPT ![r] = "mesh"]
        /\ ctxCancel' = [ctxCancel EXCEPT ![Client(r)] = r]
    BY <1>6 DEF Register
  <2>2. platform = "ios" /\ \A q \in Runs : Client(q) = q /\ Client(q)' = q
    BY <2>1 DEF PlaceInv, TypeInv, Client
  <2>3. /\ ~Fresh(r)' /\ \A q \in Runs \ {r} : at'[q] = at[q]
        /\ ctxCancel'[r] = r /\ \A q \in Runs \ {r} : ctxCancel'[q] = ctxCancel[q]
    BY <2>1, <2>2 DEF Fresh, TypeInv
  <2>4. \A q \in Runs \ {r} : /\ Registered(q)' => Registered(q)
                              /\ Fresh(q)' => Fresh(q)
    BY <2>1, <2>2, <2>3 DEF Registered, Fresh, TypeInv
  <2>5. \A q \in cancelled' : ~Fresh(q)'
    BY <2>1, <2>3, <2>4 DEF CancelInv, TypeInv
  <2>6. ASSUME NEW c \in Runs, ctxCancel'[c] # 0 PROVE at'[ctxCancel'[c]] \notin {"none", "queued", "called"}
    <3>1. CASE ctxCancel'[c] = r
      BY <2>3, <3>1 DEF Fresh
    <3>2. CASE ctxCancel'[c] # r
      <4>1. ctxCancel'[c] = ctxCancel[c] /\ ctxCancel[c] \in Runs \ {r} /\ ~Fresh(ctxCancel[c])
        BY <2>3, <2>6, <3>2 DEF TypeInv, CancelInv
      <4> QED
        BY <2>3, <4>1 DEF Fresh
    <3> QED
      BY <3>1, <3>2
  <2>7. ASSUME NEW q \in Runs, Registered(q)', q \notin cancelled
        PROVE  ctxCancel'[Client(q)'] = q \/ q \in outrun
    BY <2>2, <2>3, <2>4, <2>7 DEF CancelInv
  <2> QED
    BY <2>1, <2>2, <2>5, <2>6, <2>7 DEF CancelInv, Fresh
<1> QED
  BY <1>1, <1>2, <1>3, <1>4, <1>5, <1>6, <1>7 DEF Next, Run

-----------------------------------------------------------------------------

LEMMA NextHolds == Inv /\ [Next]_vars => Inv'
BY NextTyped, NextReports, NextDevices, NextMeshes, NextKeeps, NextPlaces, NextCancels
   DEF Inv

(***************************************************************************)
(* With no Run under way no client reports connecting, connected or an     *)
(* inner mesh, every device made over a duplicated descriptor is closed,   *)
(* and no mesh is up unless Runs overlapped, for any number of Runs and    *)
(* Stops (Run's deferred clean-up, RunOnMobile).  It says nothing of the   *)
(* descriptors Android hands over, which stay open.                        *)
(***************************************************************************)
THEOREM IdleAlwaysReleases == Spec => []IdleReleases
<1>1. Inv => IdleReleases
  <2> SUFFICES ASSUME Inv, \A r \in Runs : Over(r)
               PROVE  /\ \A c \in Runs : /\ Polled(c).state \notin {"connecting", "connected"}
                                         /\ ~Polled(c).inner
                      /\ tunUp = {} /\ (~overlap => meshUp = {})
    BY DEF IdleReleases
  <2>1. ASSUME NEW c \in Runs PROVE state[c] \notin {"connecting", "connected"} /\ innerMesh[c] = 0
    BY DEF Inv, StateInv, OwedInv, Owes, Over
  <2>2. \A c \in Runs : Polled(c).state = state[c] /\ Polled(c).inner = (innerMesh[c] # 0)
    BY DEF Polled, GetTunnelStatus, GetStatusJSON
  <2>3. tunUp = {}
    BY DEF Inv, TypeInv, DeviceInv, Over
  <2>4. ~overlap => meshUp = {}
    BY <2>1, RunNumbers DEF Inv, TypeInv, AloneInv
  <2> QED
    BY <2>1, <2>2, <2>3, <2>4
<1> QED
  BY <1>1, InitHolds, NextHolds, PTL DEF Spec

(***************************************************************************)
(* A Run that blocks in a mode with the inner leg has its mesh up, for any *)
(* number of Runs and Stops: always on iOS, and on Android until a Run     *)
(* begins while another is under way (Run's deferred clean-up).            *)
(***************************************************************************)
THEOREM MeshAlwaysKept == Spec => []MeshKeepsRunning
<1>1. Inv => MeshKeepsRunning
  BY DEF Inv, KeepInv, Owes, MeshKeepsRunning
<1> QED
  BY <1>1, InitHolds, NextHolds, PTL DEF Spec

(***************************************************************************)
(* A Run that has registered and goes on is the one a Stop would cancel,   *)
(* unless the shell let go of it before it had registered, or such a Run   *)
(* overwrote its cancel (Run, Stop).                                       *)
(***************************************************************************)
THEOREM OrphansOnlyByEarlyStop == Spec => []OrphanOnlyByEarlyStop
<1>1. Inv => OrphanOnlyByEarlyStop
  BY DEF Inv, TypeInv, Places, PlaceInv, CancelInv, Registered, OrphanOnlyByEarlyStop,
     Live, Over
<1> QED
  BY <1>1, InitHolds, NextHolds, PTL DEF Spec

=============================================================================
