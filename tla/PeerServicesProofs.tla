------------------------- MODULE PeerServicesProofs -------------------------
(***************************************************************************)
(* The safety properties of the two services between peers: of FileDrop,   *)
(* for any number of handlers, names, copies and drops and every capacity  *)
(* of the ring; and of PeerConn, for any peers, any number of probes and   *)
(* every length of the history.                                            *)
(***************************************************************************)
EXTENDS FileDrop, PeerConn, FiniteSetTheorems, TLAPS

Job == [id : Nat, src : Peers \cup {None}, name : SafeNames \cup {None}, k : Nat]
Working == {"copy", "stat", "rename"}

\* Every handler at work has a drop of its own, and a candidate among the slots.
JobInv ==
    /\ drops \in Nat
    /\ pc \in [Handlers -> {"idle", "copy", "stat", "rename", "record"}]
    /\ job \in [Handlers -> Job]
    /\ \A h \in Handlers : pc[h] # "idle" => /\ job[h].id \in 1..drops
                                             /\ Candidate(h) \in Slots
    /\ \A g, h \in Handlers :
          pc[g] # "idle" /\ pc[h] # "idle" /\ job[g].id = job[h].id => g = h

\* While no two handlers chose one free name: every handler about to rename has a free
\* name to itself, and a drop that was renamed is where it was put.
KeptInv ==
    /\ inbox \in [Slots -> Nat]
    /\ \A d \in acked : d # 0
    /\ ~raced =>
          /\ \A h \in Handlers : pc[h] = "rename" => inbox[Candidate(h)] = 0
          /\ \A g, h \in Handlers :
                pc[g] = "rename" /\ pc[h] = "rename" /\ Candidate(g) = Candidate(h) => g = h
          /\ \A h \in Handlers : pc[h] = "record" => inbox[Candidate(h)] = job[h].id
          /\ DropsAreKept

\* The ring, read backwards from its head, is the log read backwards from its end.
Back(i) == IF head >= i THEN head - i ELSE head - i + RingCap
RingInv ==
    /\ log \in Seq(Nat)
    /\ head \in 0..(RingCap - 1) /\ buf \in [0..(RingCap - 1) -> Nat]
    /\ n = IF Len(log) < RingCap THEN Len(log) ELSE RingCap
    /\ \A i \in 1..n : buf[Back(i)] = log[Len(log) + 1 - i]

-----------------------------------------------------------------------------
(* What the handlers hold. *)

LEMMA NoJobTyped == NoJob \in Job
BY DEF NoJob, Job

\* A handler that was at work moves on with its drop, or gives it up.
LEMMA HandlerMoves ==
    ASSUME JobInv, NEW h \in Handlers, pc[h] # "idle", UNCHANGED drops,
           NEW to \in {"idle", "copy", "stat", "rename", "record"}, NEW j \in Job,
           pc' = [pc EXCEPT ![h] = to], job' = [job EXCEPT ![h] = j],
           to # "idle" => j.id = job[h].id /\ <<j.name, j.k>> \in Slots
    PROVE  JobInv'
<1>1. /\ pc' \in [Handlers -> {"idle", "copy", "stat", "rename", "record"}]
      /\ job' \in [Handlers -> Job]
  BY DEF JobInv
<1>2. /\ pc'[h] = to /\ job'[h] = j
      /\ \A g \in Handlers \ {h} : pc'[g] = pc[g] /\ job'[g] = job[g]
  BY DEF JobInv
<1>3. ASSUME NEW g \in Handlers, pc'[g] # "idle"
      PROVE  job'[g].id \in 1..drops /\ <<job'[g].name, job'[g].k>> \in Slots
  BY <1>2, <1>3 DEF JobInv, Candidate
<1>4. \A f, g \in Handlers :
         pc'[f] # "idle" /\ pc'[g] # "idle" /\ job'[f].id = job'[g].id => f = g
  BY <1>2 DEF JobInv
<1> QED
  BY <1>1, <1>3, <1>4 DEF JobInv, Candidate

LEMMA NextJobs == JobInv /\ [Next]_vars => JobInv'
<1> SUFFICES ASSUME JobInv, [Next]_vars PROVE JobInv'
  OBVIOUS
<1>1. CASE UNCHANGED dropVars
  BY <1>1 DEF dropVars, JobInv, Candidate
<1>2. ASSUME NEW h \in Handlers, NEW src \in Peers, NEW name \in SafeNames \cup BadNames,
             Put(h, src, name)
      PROVE  JobInv'
  <2> DEFINE j == [id |-> drops + 1, src |-> src, name |-> name, k |-> 0]
  <2>1. drops' = drops + 1 /\ drops \in Nat /\ drops + 1 \in 1..drops' /\ \A d \in 1..drops : d \in 1..drops' /\ d # drops + 1
    BY <1>2 DEF Put, JobInv
  <2>2. CASE UNCHANGED <<pc, job>>
    BY <2>1, <2>2 DEF JobInv, Candidate
  <2>3. CASE /\ name \in SafeNames
             /\ pc' = [pc EXCEPT ![h] = "copy"] /\ job' = [job EXCEPT ![h] = j]
    <3>1. j \in Job /\ j.id = drops + 1 /\ <<j.name, j.k>> \in Slots
      BY <2>1, <2>3, DropParameters DEF Job, Slots
    <3> HIDE DEF j
    <3>2. /\ pc' \in [Handlers -> {"idle", "copy", "stat", "rename", "record"}]
          /\ job' \in [Handlers -> Job]
          /\ job'[h] = j /\ pc'[h] = "copy"
          /\ \A g \in Handlers \ {h} : pc'[g] = pc[g] /\ job'[g] = job[g]
      BY <2>3, <3>1 DEF JobInv
    <3>3. ASSUME NEW g \in Handlers, pc'[g] # "idle"
          PROVE  job'[g].id \in 1..drops' /\ <<job'[g].name, job'[g].k>> \in Slots
      BY <2>1, <3>1, <3>2, <3>3 DEF JobInv, Candidate
    <3>4. \A f, g \in Handlers :
             pc'[f] # "idle" /\ pc'[g] # "idle" /\ job'[f].id = job'[g].id => f = g
      BY <2>1, <3>1, <3>2 DEF JobInv
    <3> QED
      BY <2>1, <3>2, <3>3, <3>4 DEF JobInv, Candidate
  <2> QED
    BY <1>2, <2>2, <2>3 DEF Put, SafeName
<1>3. ASSUME NEW h \in Handlers, pc[h] # "idle", Fail(h), UNCHANGED drops PROVE JobInv'
  BY <1>3, NoJobTyped, HandlerMoves DEF Fail
<1>4. ASSUME NEW h \in Handlers, pc[h] # "idle", UNCHANGED <<job, drops>>,
             NEW to \in {"stat", "rename", "record"}, pc' = [pc EXCEPT ![h] = to]
      PROVE  JobInv'
  <2>1. job[h] \in Job /\ job' = [job EXCEPT ![h] = job[h]] /\ <<job[h].name, job[h].k>> \in Slots
    BY <1>4 DEF JobInv, Candidate
  <2> QED
    BY <1>4, <2>1, HandlerMoves
<1>5. ASSUME NEW h \in Handlers, Copy(h) \/ Rename(h) PROVE JobInv'
  BY <1>4, <1>5 DEF Copy, Rename
<1>6. ASSUME NEW h \in Handlers, CopyFails(h) \/ RenameFails(h) PROVE JobInv'
  BY <1>3, <1>6 DEF CopyFails, RenameFails
<1>7. ASSUME NEW h \in Handlers, Stat(h) PROVE JobInv'
  <2>1. pc[h] = "stat" /\ UNCHANGED drops
    BY <1>7 DEF Stat
  <2>2. CASE Free(Candidate(h))
    BY <1>4, <1>7, <2>1, <2>2 DEF Stat
  <2>3. CASE ~Free(Candidate(h)) /\ job[h].k = MaxCopies
    BY <1>3, <1>7, <2>1, <2>3 DEF Stat
  <2>4. CASE ~Free(Candidate(h)) /\ job[h].k # MaxCopies
    <3> DEFINE j == [job[h] EXCEPT !.k = job[h].k + 1]
    <3>1. job[h] \in Job /\ <<job[h].name, job[h].k>> \in Slots
      BY <2>1 DEF JobInv, Candidate
    <3>2. /\ job[h].k \in 0..MaxCopies /\ job[h].k + 1 \in 0..MaxCopies
          /\ job[h].k + 1 \in Nat /\ job[h].name \in SafeNames
      BY <2>4, <3>1, DropParameters DEF Slots
    <3>3. j \in Job /\ j.id = job[h].id /\ j.name = job[h].name /\ j.k = job[h].k + 1
      BY <3>1, <3>2 DEF Job
    <3>4. <<j.name, j.k>> \in Slots
      BY <3>2, <3>3 DEF Slots
    <3>5. job' = [job EXCEPT ![h] = j] /\ pc' = pc
      BY <1>7, <2>4 DEF Stat, JobInv
    <3>6. pc' = [pc EXCEPT ![h] = "stat"]
      BY <2>1, <3>5 DEF JobInv
    <3> HIDE DEF j
    <3> QED
      BY <2>1, <3>3, <3>4, <3>5, <3>6, HandlerMoves
  <2> QED
    BY <2>2, <2>3, <2>4
<1>8. ASSUME NEW h \in Handlers, Record(h) PROVE JobInv'
  BY <1>8, NoJobTyped, HandlerMoves DEF Record
<1>9. CASE Crash
  BY <1>9, NoJobTyped DEF Crash, JobInv
<1>10. CASE MeshChange /\ UNCHANGED <<loopVars, dropVars, crashes>>
  BY <1>1, <1>10
<1>11. CASE LoopStep \/ Listen \/ \E a \in IPs : LateListen(a) \/ Closed(a)
  BY <1>1, <1>11 DEF LoopStep, LoopTick, LoopBind, Listen, LateListen, Closed
<1> QED
  BY <1>1, <1>2, <1>5, <1>6, <1>7, <1>8, <1>9, <1>10, <1>11 DEF Next, vars

-----------------------------------------------------------------------------
(* Temporary files. *)

\* The temporary files are those of the drops in progress.
Temps == \A d \in Nat : d \in temps <=> \E h \in Handlers : pc[h] \in Working /\ job[h].id = d

LEMMA TempsAreNoStray ==
    ASSUME temps \subseteq Nat, \A h \in Handlers : job[h].id \in Nat
    PROVE  Temps <=> temps = {job[h].id : h \in {g \in Handlers : pc[g] \in Working}}
BY DEF Temps

TempsInv == temps \subseteq 1..drops /\ crashes \in Nat /\ (crashes = 0 => Temps)

\* A handler's temporary file goes.
LEMMA TempGoes ==
    ASSUME JobInv, TempsInv, NEW h \in Handlers, pc[h] \in Working,
           temps' = temps \ {job[h].id}, UNCHANGED <<drops, crashes>>,
           \A g \in Handlers \ {h} : pc'[g] = pc[g] /\ job'[g] = job[g],
           pc'[h] \notin Working
    PROVE  TempsInv'
<1>1. ASSUME crashes = 0, NEW d \in Nat
      PROVE  d \in temps' <=> \E g \in Handlers : pc'[g] \in Working /\ job'[g].id = d
  <2>1. d \in temps <=> \E g \in Handlers : pc[g] \in Working /\ job[g].id = d
    BY <1>1 DEF TempsInv, Temps
  <2>2. \A g \in Handlers \ {h} : pc[g] \in Working => job[g].id # job[h].id
    BY DEF JobInv, Working
  <2> QED
    BY <2>1, <2>2
<1> QED
  BY <1>1 DEF TempsInv, Temps

\* A handler keeps its temporary file.
LEMMA TempStays ==
    ASSUME TempsInv, UNCHANGED <<temps, drops, crashes>>,
           \A g \in Handlers : /\ pc'[g] \in Working <=> pc[g] \in Working
                               /\ pc[g] \in Working => job'[g].id = job[g].id
    PROVE  TempsInv'
BY DEF TempsInv, Temps

LEMMA NextTemps == JobInv /\ TempsInv /\ [Next]_vars => TempsInv'
<1> SUFFICES ASSUME JobInv, TempsInv, [Next]_vars PROVE TempsInv'
  OBVIOUS
<1>1. CASE UNCHANGED <<dropVars, crashes>>
  BY <1>1, TempStays DEF dropVars
<1>2. ASSUME NEW h \in Handlers, NEW src \in Peers, NEW name \in SafeNames \cup BadNames,
             Put(h, src, name)
      PROVE  TempsInv'
  <2>1. drops' = drops + 1 /\ drops \in Nat /\ UNCHANGED crashes /\ pc[h] = "idle"
    BY <1>2 DEF Put, JobInv
  <2>2. CASE UNCHANGED <<temps, pc, job>>
    BY <2>1, <2>2 DEF TempsInv, Temps
  <2>3. CASE /\ temps' = temps \cup {drops + 1}
             /\ pc' = [pc EXCEPT ![h] = "copy"]
             /\ job' = [job EXCEPT ![h] = [id |-> drops + 1, src |-> src, name |-> name, k |-> 0]]
    <3>1. /\ pc'[h] = "copy" /\ job'[h].id = drops + 1
          /\ \A g \in Handlers \ {h} : pc'[g] = pc[g] /\ job'[g] = job[g]
      BY <2>3 DEF JobInv
    <3>2. ASSUME crashes = 0, NEW d \in Nat
          PROVE  d \in temps' <=> \E g \in Handlers : pc'[g] \in Working /\ job'[g].id = d
      <4>1. d \in temps <=> \E g \in Handlers : pc[g] \in Working /\ job[g].id = d
        BY <3>2 DEF TempsInv, Temps
      <4> QED
        BY <2>1, <2>3, <3>1, <4>1 DEF Working
    <3>3. temps' \subseteq 1..drops'
      BY <2>1, <2>3 DEF TempsInv
    <3> QED
      BY <2>1, <3>2, <3>3 DEF TempsInv, Temps
  <2> QED
    BY <1>2, <2>2, <2>3 DEF Put
<1>3. ASSUME NEW h \in Handlers, pc[h] \in Working, Fail(h), UNCHANGED <<drops, crashes>>
      PROVE  TempsInv'
  <2>1. pc'[h] \notin Working /\ \A g \in Handlers \ {h} : pc'[g] = pc[g] /\ job'[g] = job[g]
    BY <1>3 DEF Fail, JobInv, Working
  <2> QED
    BY <1>3, <2>1, TempGoes DEF Fail
<1>4. ASSUME NEW h \in Handlers, Copy(h) PROVE TempsInv'
  BY <1>4, TempStays DEF Copy, JobInv, Working
<1>5. ASSUME NEW h \in Handlers, CopyFails(h) \/ RenameFails(h) PROVE TempsInv'
  BY <1>3, <1>5 DEF CopyFails, RenameFails, Working
<1>6. ASSUME NEW h \in Handlers, Stat(h) PROVE TempsInv'
  <2>1. pc[h] = "stat" /\ UNCHANGED <<drops, crashes>>
    BY <1>6 DEF Stat
  <2>2. CASE Fail(h)
    BY <1>3, <2>1, <2>2 DEF Working
  <2>3. CASE pc' = [pc EXCEPT ![h] = "rename"] /\ UNCHANGED <<job, temps>>
    BY <2>1, <2>3, TempStays DEF JobInv, Working
  <2>4. CASE job' = [job EXCEPT ![h].k = @ + 1] /\ UNCHANGED <<pc, temps>>
    <3>1. \A g \in Handlers : job'[g].id = job[g].id
      BY <2>4 DEF JobInv, Job
    <3> QED
      BY <2>1, <2>4, <3>1, TempStays
  <2> QED
    BY <1>6, <2>2, <2>3, <2>4 DEF Stat
<1>7. ASSUME NEW h \in Handlers, Rename(h) PROVE TempsInv'
  <2>1. pc[h] \in Working /\ pc'[h] \notin Working /\ \A g \in Handlers \ {h} : pc'[g] = pc[g]
    BY <1>7 DEF Rename, JobInv, Working
  <2> QED
    BY <1>7, <2>1, TempGoes DEF Rename
<1>8. ASSUME NEW h \in Handlers, Record(h) PROVE TempsInv'
  <2>1. \A g \in Handlers : /\ pc'[g] \in Working <=> pc[g] \in Working
                            /\ pc[g] \in Working => job'[g].id = job[g].id
    BY <1>8 DEF Record, JobInv, Working
  <2> QED
    BY <1>8, <2>1, TempStays DEF Record
<1>9. CASE Crash
  BY <1>9 DEF Crash, TempsInv
<1>10. CASE MeshChange /\ UNCHANGED <<loopVars, dropVars, crashes>>
  BY <1>1, <1>10
<1>11. CASE LoopStep \/ Listen \/ \E a \in IPs : LateListen(a) \/ Closed(a)
  BY <1>1, <1>11 DEF LoopStep, LoopTick, LoopBind, Listen, LateListen, Closed
<1> QED
  BY <1>1, <1>2, <1>4, <1>5, <1>6, <1>7, <1>8, <1>9, <1>10, <1>11 DEF Next, vars

LEMMA InitJobs == Init => JobInv
BY NoJobTyped DEF Init, JobInv

(***************************************************************************)
(* Without a crash every temporary file of the inbox is that of a transfer *)
(* in progress, whichever step of any number of handlers fails             *)
(* (handlePut's deferred Remove).                                          *)
(***************************************************************************)
THEOREM NeverStrayTemp == Spec => []NoStrayTemp
<1>1. Init => TempsInv
  BY DEF Init, TempsInv, Temps, Working
<1>2. JobInv /\ TempsInv => NoStrayTemp
  <2> SUFFICES ASSUME JobInv, TempsInv, crashes = 0
               PROVE  temps = {job[h].id : h \in {g \in Handlers : pc[g] \in Working}}
    BY DEF NoStrayTemp, Working
  <2>1. temps \subseteq Nat /\ \A h \in Handlers : job[h].id \in Nat
    BY DEF JobInv, TempsInv, Job
  <2> QED
    BY <2>1, TempsAreNoStray DEF TempsInv
<1> QED
  BY <1>1, <1>2, InitJobs, NextJobs, NextTemps, PTL DEF Spec

-----------------------------------------------------------------------------
(* The inbox. *)

\* What a drop was told or was renamed to stays: a step that moves one handler h, and
\* neither renames nor gets to a rename.
LEMMA KeptStays ==
    ASSUME JobInv, KeptInv, UNCHANGED <<inbox, acked, raced>>,
           \A g \in Handlers : pc'[g] \in {"rename", "record"} => pc'[g] = pc[g] /\ job'[g] = job[g]
    PROVE  KeptInv'
<1>1. ASSUME NEW g \in Handlers, pc'[g] \in {"rename", "record"}
      PROVE  pc'[g] = pc[g] /\ job'[g] = job[g] /\ Candidate(g)' = Candidate(g)
  BY <1>1 DEF Candidate
<1>2. DropsAreKept' = DropsAreKept
  BY DEF DropsAreKept
<1> QED
  BY <1>1, <1>2 DEF KeptInv

LEMMA NextKept == JobInv /\ KeptInv /\ [Next]_vars => KeptInv'
<1> SUFFICES ASSUME JobInv, KeptInv, [Next]_vars PROVE KeptInv'
  OBVIOUS
<1>1. CASE UNCHANGED dropVars
  BY <1>1, KeptStays DEF dropVars
<1>2. ASSUME NEW h \in Handlers, NEW src \in Peers, NEW name \in SafeNames \cup BadNames,
             Put(h, src, name)
      PROVE  KeptInv'
  <2>1. \A g \in Handlers : pc'[g] \in {"rename", "record"} => pc'[g] = pc[g] /\ job'[g] = job[g]
    BY <1>2 DEF Put, JobInv
  <2> QED
    BY <1>2, <2>1, KeptStays DEF Put
<1>3. ASSUME NEW h \in Handlers, Copy(h) \/ CopyFails(h) \/ RenameFails(h) PROVE KeptInv'
  <2>1. \A g \in Handlers : pc'[g] \in {"rename", "record"} => pc'[g] = pc[g] /\ job'[g] = job[g]
    BY <1>3 DEF Copy, CopyFails, RenameFails, Fail, JobInv
  <2> QED
    BY <1>3, <2>1, KeptStays DEF Copy, CopyFails, RenameFails
<1>4. ASSUME NEW h \in Handlers, Stat(h) PROVE KeptInv'
  <2>1. UNCHANGED <<inbox, acked>> /\ pc[h] = "stat"
    BY <1>4 DEF Stat
  <2>2. CASE ~Free(Candidate(h))
    <3>1. ~raced' => ~raced
      BY <1>4 DEF Stat
    <3>2. \A g \in Handlers : pc'[g] \in {"rename", "record"} =>
                                 pc'[g] = pc[g] /\ job'[g] = job[g] /\ Candidate(g)' = Candidate(g)
      BY <1>4, <2>2 DEF Stat, Fail, JobInv, Candidate
    <3>3. ~raced /\ DropsAreKept => DropsAreKept'
      BY <2>1 DEF DropsAreKept
    <3> QED
      BY <2>1, <3>1, <3>2, <3>3 DEF KeptInv
  <2>3. CASE Free(Candidate(h))
    <3>1. pc' = [pc EXCEPT ![h] = "rename"] /\ job' = job
      BY <1>4, <2>3 DEF Stat
    <3>2. /\ pc'[h] = "rename" /\ \A g \in Handlers \ {h} : pc'[g] = pc[g]
          /\ \A g \in Handlers : Candidate(g)' = Candidate(g)
      BY <3>1 DEF JobInv, Candidate
    <3>3. ASSUME ~raced'
          PROVE  ~raced /\ \A g \in Handlers \ {h} : pc[g] = "rename" => Candidate(g) # Candidate(h)
      BY <1>4, <2>3, <3>3 DEF Stat
    <3>4. DropsAreKept /\ ~raced => DropsAreKept'
      BY <2>1 DEF DropsAreKept
    <3> QED
      BY <2>1, <2>3, <3>1, <3>2, <3>3, <3>4 DEF KeptInv, Free
  <2> QED
    BY <2>2, <2>3
<1>5. ASSUME NEW h \in Handlers, Rename(h) PROVE KeptInv'
  <2> DEFINE s == Candidate(h)
             d == job[h].id
  <2>1. /\ UNCHANGED <<job, acked,
                       raced>> /\ pc[h] = "rename" /\ pc' = [pc EXCEPT ![h] = "record"]
        /\ inbox' = [inbox EXCEPT ![s] = d]
    BY <1>5 DEF Rename
  <2>2. s \in Slots /\ d \in Nat
    BY <2>1 DEF JobInv, Job
  <2>3. /\ inbox' \in [Slots -> Nat] /\ inbox'[s] = d
        /\ \A x \in Slots \ {s} : inbox'[x] = inbox[x]
    BY <2>1, <2>2 DEF KeptInv
  <2>4. /\ pc'[h] = "record" /\ \A g \in Handlers \ {h} : pc'[g] = pc[g]
        /\ \A g \in Handlers : Candidate(g)' = Candidate(g)
    BY <2>1 DEF JobInv, Candidate
  <2>5. \A g \in Handlers : pc[g] # "idle" => Candidate(g) \in Slots /\ job[g].id # 0
    BY DEF JobInv
  <2> HIDE DEF s, d
  <2>6. ASSUME ~raced
        PROVE  /\ inbox[s] = 0
               /\ \A g \in Handlers \ {h} : pc[g] = "rename" => Candidate(g) # s
               /\ \A g \in Handlers : pc[g] = "record" => Candidate(g) # s
    BY <2>1, <2>5, <2>6 DEF KeptInv, s
  <2>7. ASSUME ~raced PROVE DropsAreKept'
    <3> SUFFICES ASSUME NEW e \in acked PROVE \E x \in Slots : e = inbox'[x]
      BY <2>1, <2>7 DEF DropsAreKept
    <3>1. PICK x \in Slots : e = inbox[x]
      BY <2>7 DEF KeptInv, DropsAreKept
    <3>2. e # 0
      BY DEF KeptInv
    <3> QED
      BY <2>3, <2>6, <2>7, <3>1, <3>2
  <2>8. ASSUME ~raced
        PROVE  /\ \A g \in Handlers : pc'[g] = "rename" => inbox'[Candidate(g)] = 0
               /\ \A f, g \in Handlers :
                     pc'[f] = "rename" /\ pc'[g] = "rename" /\ Candidate(f) = Candidate(g) => f = g
               /\ \A g \in Handlers : pc'[g] = "record" => inbox'[Candidate(g)] = job[g].id
    <3>1. \A g \in Handlers \ {h} : pc[g] # "idle" /\ Candidate(g) # s =>
                                       inbox'[Candidate(g)] = inbox[Candidate(g)]
      BY <2>3, <2>5
    <3> QED
      BY <2>1, <2>3, <2>4, <2>6, <2>8, <3>1 DEF KeptInv, s, d
  <2> QED
    BY <2>1, <2>3, <2>4, <2>7, <2>8 DEF KeptInv
<1>6. ASSUME NEW h \in Handlers, Record(h) PROVE KeptInv'
  <2>1. /\ UNCHANGED <<inbox, raced>> /\ pc[h] = "record"
        /\ acked' \subseteq acked \cup {job[h].id}
    BY <1>6 DEF Record, Told
  <2>2. \A g \in Handlers : pc'[g] \in {"rename", "record"} =>
                               pc'[g] = pc[g] /\ job'[g] = job[g] /\ Candidate(g)' = Candidate(g)
    BY <1>6 DEF Record, JobInv, Candidate
  <2>3. job[h].id # 0 /\ Candidate(h) \in Slots
    BY <2>1 DEF JobInv
  <2>4. ASSUME ~raced PROVE DropsAreKept'
    <3> SUFFICES ASSUME NEW e \in acked' PROVE \E x \in Slots : e = inbox[x]
      BY <2>1 DEF DropsAreKept
    <3>1. CASE e = job[h].id
      BY <2>1, <2>3, <2>4, <3>1 DEF KeptInv
    <3>2. CASE e \in acked
      BY <2>4, <3>2 DEF KeptInv, DropsAreKept
    <3> QED
      BY <2>1, <3>1, <3>2
  <2> QED
    BY <2>1, <2>2, <2>3, <2>4 DEF KeptInv
<1>7. CASE Crash
  <2>1. \A g \in Handlers : pc'[g] \notin {"rename", "record"}
    BY <1>7 DEF Crash
  <2> QED
    BY <1>7, <2>1, KeptStays DEF Crash
<1>8. CASE MeshChange /\ UNCHANGED <<loopVars, dropVars, crashes>>
  BY <1>1, <1>8
<1>9. CASE LoopStep \/ Listen \/ \E a \in IPs : LateListen(a) \/ Closed(a)
  BY <1>1, <1>9 DEF LoopStep, LoopTick, LoopBind, Listen, LateListen, Closed
<1> QED
  BY <1>1, <1>2, <1>3, <1>4, <1>5, <1>6, <1>7, <1>8, <1>9 DEF Next, vars

(***************************************************************************)
(* A drop whose sender was told it is stored is in the inbox for good, for *)
(* any number of drops, handlers and crashes, as long as no two handlers   *)
(* stood between stat and rename on one name (handlePut, placeUniquely).   *)
(***************************************************************************)
THEOREM DropsAlwaysKept == Spec => []DropsAreKept
<1>1. Init => KeptInv
  BY DEF Init, KeptInv, DropsAreKept
<1>2. KeptInv => DropsAreKept
  BY DEF KeptInv, DropsAreKept
<1> QED
  BY <1>1, <1>2, InitJobs, NextJobs, NextKept, PTL DEF Spec

-----------------------------------------------------------------------------
(* The ring. *)

LEMMA RingMod ==
    ASSUME NEW R \in Nat \ {0}, NEW a \in 0..(R - 1)
    PROVE  a % R = a /\ (a + R) % R = a /\ R % R = 0
<1>1. ASSUME NEW q \in Int, NEW r \in 0..(R - 1) PROVE (R * q + r) % R = r
  OBVIOUS
<1>2. a = R * 0 + a /\ a + R = R * 1 + a /\ R = R * 1 + 0
  OBVIOUS
<1> QED
  BY <1>1, <1>2

LEMMA NextRing == JobInv /\ RingInv /\ [Next]_vars => RingInv'
<1> SUFFICES ASSUME JobInv, RingInv, [Next]_vars PROVE RingInv'
  OBVIOUS
<1>1. CASE UNCHANGED <<buf, head, n, log>>
  BY <1>1 DEF RingInv, Back
<1>2. ASSUME NEW h \in Handlers, Record(h) PROVE RingInv'
  <2> DEFINE d == job[h].id
             L == Len(log)
  <2>1. /\ buf' = [buf EXCEPT ![head] = d] /\ head' = (head + 1) % RingCap
        /\ n' = IF n < RingCap THEN n + 1 ELSE n
        /\ log' = Append(log, d)
    BY <1>2 DEF Record, RingAdd, RingCount
  <2>2. d \in Nat /\ L \in Nat /\ n \in 0..RingCap /\ RingCap \in Nat \ {0}
    BY DropParameters DEF JobInv, Job, RingInv
  <2>3. head' = IF head + 1 < RingCap THEN head + 1 ELSE 0
    <3>1. head \in 0..(RingCap - 1)
      BY DEF RingInv
    <3>2. CASE head + 1 < RingCap
      <4>1. head + 1 \in 0..(RingCap - 1)
        BY <2>2, <3>1, <3>2
      <4> QED
        BY <2>1, <2>2, <3>2, <4>1, RingMod
    <3>3. CASE ~(head + 1 < RingCap)
      <4>1. head + 1 = RingCap
        BY <2>2, <3>1, <3>3
      <4> QED
        BY <2>1, <2>2, <3>1, <3>3, <4>1, RingMod
    <3> QED
      BY <3>2, <3>3
  <2>4. /\ log' \in Seq(Nat) /\ Len(log') = L + 1 /\ log'[L + 1] = d
        /\ \A i \in 1..L : log'[i] = log[i]
    BY <2>1, <2>2 DEF RingInv
  <2> HIDE DEF d
  <2>5. /\ buf' \in [0..(RingCap - 1) -> Nat] /\ buf'[head] = d
        /\ \A x \in 0..(RingCap - 1) : x # head => buf'[x] = buf[x]
    BY <2>1, <2>2 DEF RingInv
  <2>6. n = IF L < RingCap THEN L ELSE RingCap
    BY DEF RingInv
  <2> HIDE DEF L
  <2>7. n' = IF L + 1 < RingCap THEN L + 1 ELSE RingCap
    BY <2>1, <2>2, <2>6
  <2>8. head' \in 0..(RingCap - 1)
    BY <2>2, <2>3 DEF RingInv
  <2>9. ASSUME NEW i \in 1..n' PROVE buf'[Back(i)'] = log'[L + 2 - i]
    <3>1. CASE i = 1
      <4>1. Back(i)' = head
        BY <2>2, <2>3, <3>1 DEF Back, RingInv
      <4>2. L + 2 - i = L + 1
        BY <2>2, <3>1
      <4> QED
        BY <2>4, <2>5, <4>1, <4>2
    <3>2. CASE i # 1
      <4>1. i - 1 \in 1..n /\ i - 1 < RingCap /\ i \in Nat
        BY <2>2, <2>6, <2>7, <3>2
      <4>2. Back(i)' = Back(i - 1) /\ Back(i - 1) \in 0..(RingCap - 1) /\ Back(i - 1) # head
        <5> DEFINE hd == head
                   r == RingCap
        <5>1. hd \in 0..(r - 1) /\ r \in Nat \ {0} /\ i \in Nat /\ i > 1 /\ i - 1 < r
          BY <2>2, <3>2, <4>1 DEF RingInv
        <5>2. Back(i - 1) = IF hd >= i - 1 THEN hd - (i - 1) ELSE hd - (i - 1) + r
          BY DEF Back
        <5>3. Back(i)' = IF head' >= i THEN head' - i ELSE head' - i + r
          BY DEF Back
        <5>4. head' = IF hd + 1 < r THEN hd + 1 ELSE 0
          BY <2>3
        <5> HIDE DEF hd, r
        <5>5. Back(i)' = Back(i - 1)
          BY <5>1, <5>2, <5>3, <5>4
        <5>6. Back(i - 1) \in 0..(r - 1) /\ Back(i - 1) # hd
          BY <5>1, <5>2
        <5> QED
          BY <5>5, <5>6 DEF hd, r
      <4>3. buf[Back(i - 1)] = log[L + 1 - (i - 1)]
        BY <4>1 DEF RingInv, L
      <4>4. L + 1 - (i - 1) = L + 2 - i /\ L + 2 - i \in 1..L
        BY <2>2, <2>6, <4>1
      <4> QED
        BY <2>4, <2>5, <4>2, <4>3, <4>4
    <3> QED
      BY <3>1, <3>2
  <2>10. /\ \A i \in 1..n' : buf'[Back(i)'] = log'[Len(log') + 1 - i]
         /\ n' = IF Len(log') < RingCap THEN Len(log') ELSE RingCap
    <3>1. \A i \in 1..n' : L + 2 - i = Len(log') + 1 - i
      BY <2>2, <2>4
    <3> QED
      BY <2>4, <2>7, <2>9, <3>1
  <2> QED
    BY <2>4, <2>5, <2>8, <2>10 DEF RingInv
<1>3. CASE Crash
  BY <1>3, DropParameters DEF Crash, RingInv
<1>4. ASSUME NEW h \in Handlers, NEW src \in Peers, NEW name \in SafeNames \cup BadNames,
             Put(h, src, name)
      PROVE  RingInv'
  BY <1>1, <1>4 DEF Put
<1>5. ASSUME NEW h \in Handlers, Copy(h) \/ CopyFails(h) \/ Stat(h) \/ Rename(h) \/ RenameFails(h)
      PROVE  RingInv'
  BY <1>1, <1>5 DEF Copy, CopyFails, Stat, Rename, RenameFails
<1>6. CASE \/ MeshChange /\ UNCHANGED <<loopVars, dropVars, crashes>>
           \/ LoopStep \/ Listen \/ \E a \in IPs : LateListen(a) \/ Closed(a)
           \/ UNCHANGED vars
  BY <1>1, <1>6 DEF dropVars, LoopStep, LoopTick, LoopBind, Listen, LateListen, Closed, vars
<1> QED
  BY <1>2, <1>3, <1>4, <1>5, <1>6 DEF Next

(***************************************************************************)
(* The list shows the last RingCap drops received, newest first, for every *)
(* capacity, wherever the head stands and in whatever order the handlers   *)
(* finish (receivedRing).                                                  *)
(***************************************************************************)
THEOREM RingAlwaysRecent == Spec => []RingIsRecent
<1>1. Init => RingInv
  BY DropParameters DEF Init, RingInv
<1>2. RingInv => RingIsRecent
  <2> SUFFICES ASSUME RingInv, NEW i \in 1..n
               PROVE  buf[(head - i + RingCap) % RingCap] = log[Len(log) + 1 - i]
    BY DEF RingInv, RingIsRecent, GetIncomingFiles, RingList
  <2>1. Len(log) \in Nat /\ RingCap \in Nat \ {0} /\ head \in 0..(RingCap - 1)
    BY DropParameters DEF RingInv
  <2>2. i \in 1..RingCap
    BY <2>1 DEF RingInv
  <2>3. (head - i + RingCap) % RingCap = Back(i)
    BY <2>1, <2>2 DEF Back
  <2> QED
    BY <2>3 DEF RingInv
<1> QED
  BY <1>1, <1>2, InitJobs, NextJobs, NextRing, PTL DEF Spec

-----------------------------------------------------------------------------
(***************************************************************************)
(* The pingers.  PeerConn looks at the same mesh (MeshView) as FileDrop.   *)
(***************************************************************************)
PingSample == [seq : Nat, lost : BOOLEAN, echo : Nat]
Pinger == [seq : Nat, waiting : BOOLEAN, wire : SUBSET Nat,
           buf : [Index -> PingSample], head : Index, n : Nat]

\* The probes that have ended, as echoed or as lost.
Ended(g) == IF g.waiting THEN g.seq - 1 ELSE g.seq

\* The index of the sample i places before the head, and a sample right for probe q.
Place(h, i) == IF h >= i THEN h - i ELSE h - i + History

Right(s, q) == s.seq = q /\ (s.lost \/ s.echo = q)

\* The ring, read backwards from its head, holds the last probes that ended.
Counted(g) ==
    /\ g \in Pinger
    /\ g.waiting => g.seq >= 1
    /\ g.n = IF Ended(g) < History THEN Ended(g) ELSE History
    /\ \A i \in 1..g.n : Right(g.buf[Place(g.head, i)], Ended(g) + 1 - i)

PingInv ==
    /\ peerConn => ctrl # None
    /\ pinger = [p \in Peers |-> pinger[p]]
    /\ \A p \in Peers : pinger[p] # None => Counted(pinger[p])

LEMMA RingWrap ==
    ASSUME NEW r \in Nat \ {0}, NEW a \in 0..(2 * r - 1)
    PROVE  a % r = IF a < r THEN a ELSE a - r
OBVIOUS

LEMMA PlaceMoves ==
    ASSUME NEW r \in Nat \ {0}, r = History, NEW h \in 0..(r - 1), NEW k,
           k = IF h + 1 < r THEN h + 1 ELSE 0
    PROVE  /\ k \in 0..(r - 1) /\ Place(k, 1) = h
           /\ \A i \in 2..r : /\ Place(k, i) = Place(h, i - 1)
                              /\ Place(h, i - 1) \in 0..(r - 1) /\ Place(h, i - 1) # h
BY DEF Place

\* A probe ends: its sample goes to the head of the ring.
LEMMA PingEnds ==
    ASSUME History \in Nat \ {0}, NEW g, Counted(g), g.waiting,
           NEW s \in PingSample, Right(s, g.seq)
    PROVE  Counted(SampleAdd(g, s))
<1>1. PICK r, x, h, k, e :
        /\ r = History /\ x = SampleAdd(g, s) /\ h = g.head /\ k = (h + 1) % r /\ e = g.seq
  OBVIOUS
<1>2. /\ r \in Nat \ {0} /\ h \in 0..(r - 1) /\ e \in Nat /\ e >= 1 /\ g \in Pinger
      /\ g.n = IF e - 1 < r THEN e - 1 ELSE r
      /\ \A i \in 1..g.n : Right(g.buf[Place(h, i)], e - i)
  <2>1. Ended(g) = e - 1 /\ e \in Nat /\ e >= 1
    BY <1>1 DEF Counted, Ended, Pinger
  <2>2. \A i \in 1..g.n : Ended(g) + 1 - i = e - i
    BY <2>1 DEF Counted
  <2> QED
    BY <1>1, <2>1, <2>2 DEF Counted, Pinger, Index
<1>3. /\ k \in 0..(r - 1) /\ Place(k, 1) = h
      /\ \A i \in 2..r : /\ Place(k, i) = Place(h, i - 1)
                         /\ Place(h, i - 1) \in 0..(r - 1) /\ Place(h, i - 1) # h
  <2>1. k = IF h + 1 < r THEN h + 1 ELSE 0
    <3>1. CASE h + 1 < r
      <4>1. h + 1 \in 0..(r - 1)
        BY <1>2, <3>1
      <4> QED
        BY <1>1, <1>2, <3>1, <4>1, RingMod
    <3>2. CASE ~(h + 1 < r)
      <4>1. h + 1 = r
        BY <1>2, <3>2
      <4> QED
        BY <1>1, <1>2, <3>2, <4>1, RingMod
    <3> QED
      BY <3>1, <3>2
  <2> QED
    BY <1>1, <1>2, <2>1, PlaceMoves
<1>4. PICK m, b : m = SampleCount(g) /\ b = [g.buf EXCEPT ![h] = s]
  OBVIOUS
<1>5. m = IF e < r THEN e ELSE r
  BY <1>1, <1>2, <1>4 DEF SampleCount
<1>6. b \in [Index -> PingSample] /\ Index = 0..(r - 1)
  BY <1>1, <1>2, <1>4 DEF Pinger, Index
<1>7. x = [g EXCEPT !.waiting = FALSE, !.buf = b, !.head = k, !.n = m]
  BY <1>1, <1>2, <1>4 DEF SampleAdd, Pinger
<1>8. /\ x \in Pinger /\ x.waiting = FALSE /\ x.seq = e /\ x.head = k /\ x.n = m /\ x.buf = b
  BY <1>1, <1>2, <1>3, <1>5, <1>6, <1>7 DEF Pinger
<1>9. ASSUME NEW i \in 1..m PROVE Right(b[Place(k, i)], e + 1 - i)
  <2>1. CASE i = 1
    BY <1>1, <1>2, <1>3, <1>4, <1>6, <2>1 DEF Pinger
  <2>2. CASE i # 1
    <3>1. i \in 2..r /\ i - 1 \in 1..g.n /\ e - (i - 1) = e + 1 - i
      BY <1>2, <1>5, <2>2
    <3>2. Right(g.buf[Place(h, i - 1)], e + 1 - i)
      BY <1>2, <3>1
    <3>3. b[Place(k, i)] = g.buf[Place(h, i - 1)]
      BY <1>2, <1>3, <1>4, <1>6, <3>1 DEF Pinger
    <3> QED
      BY <3>2, <3>3
  <2> QED
    BY <2>1, <2>2
<1>10. Ended(x) = e
  BY <1>8 DEF Ended
<1> QED
  BY <1>1, <1>5, <1>8, <1>9, <1>10 DEF Counted

\* A probe is sent.
LEMMA PingSends ==
    ASSUME NEW g, Counted(g), ~g.waiting, NEW w \in SUBSET Nat
    PROVE  Counted([g EXCEPT !.seq = @ + 1, !.waiting = TRUE, !.wire = w])
<1>1. PICK x : x = [g EXCEPT !.seq = @ + 1, !.waiting = TRUE, !.wire = w]
  OBVIOUS
<1>2. g \in Pinger /\ g.seq \in Nat
  BY DEF Counted, Pinger
<1>3. /\ x \in Pinger /\ x.waiting = TRUE /\ x.seq = g.seq + 1 /\ x.head = g.head /\ x.n = g.n
      /\ x.buf = g.buf
  <2>1. PICK q : q = g.seq + 1 /\ q \in Nat
    BY <1>2
  <2>2. x = [g EXCEPT !.seq = q, !.waiting = TRUE, !.wire = w]
    BY <1>1, <2>1
  <2> QED
    BY <1>2, <2>1, <2>2 DEF Pinger
<1>4. Ended(x) = Ended(g) /\ x.seq >= 1
  BY <1>2, <1>3 DEF Ended
<1> QED
  BY <1>1, <1>3, <1>4 DEF Counted

\* An echo of another probe is dropped.
LEMMA PingSkips ==
    ASSUME NEW g, Counted(g), NEW w \in SUBSET Nat
    PROVE  Counted([g EXCEPT !.wire = w])
<1>1. PICK x : x = [g EXCEPT !.wire = w]
  OBVIOUS
<1>2. /\ x \in Pinger /\ x.waiting = g.waiting /\ x.seq = g.seq /\ x.head = g.head /\ x.n = g.n
      /\ x.buf = g.buf
  BY <1>1 DEF Counted, Pinger
<1>3. Ended(x) = Ended(g)
  BY <1>2 DEF Ended
<1> QED
  BY <1>1, <1>2, <1>3 DEF Counted

LEMMA PingFresh == ASSUME History \in Nat \ {0} PROVE Counted(Fresh)
<1>1. PICK x : x = Fresh
  OBVIOUS
<1>2. /\ x.waiting = FALSE /\ x.seq = 0 /\ x.n = 0 /\ x \in Pinger
  <2>1. NoSample \in PingSample /\ 0 \in Index
    BY DEF NoSample, PingSample, Index
  <2>2. [j \in Index |-> NoSample] \in [Index -> PingSample]
    BY <2>1
  <2> QED
    BY <1>1, <2>1, <2>2 DEF Fresh, Pinger
<1> QED
  BY <1>1, <1>2 DEF Counted, Ended

LEMMA PingInits == ASSUME PingInit PROVE PingInv
BY DEF PingInit, PingInv

LEMMA PingKept ==
    ASSUME PingInv, [PingNext]_peerVars
    PROVE  PingInv'
<1>1. History \in Nat \ {0} /\ MaxSeq \in Nat
  BY PingParameters, Zenon
<1>2. ASSUME UNCHANGED <<ctrl, peerConn, pinger>> PROVE PingInv'
  BY <1>2 DEF PingInv
<1>3. ASSUME NEW p \in Peers, NEW g, Counted(g), pinger' = [pinger EXCEPT ![p] = g],
             UNCHANGED <<ctrl, peerConn>>
      PROVE  PingInv'
  BY <1>3 DEF PingInv
<1>4. CASE PingTick
  <2>1. \/ peerConn' = FALSE /\ pinger' = [p \in Peers |-> None]
        \/ UNCHANGED <<ctrl, peerConn, pinger>>
    BY <1>4 DEF PingTick, StopManager
  <2> QED
    BY <1>2, <2>1 DEF PingInv
<1>5. CASE PingStart
  <2>1. UNCHANGED pinger /\ (UNCHANGED <<ctrl, peerConn>> \/ ctrl' # None)
    <3>1. None # ""
      BY PingParameters, Zenon
    <3> QED
      BY <1>5, <3>1, Zenon DEF PingStart
  <2> QED
    BY <1>2, <2>1 DEF PingInv
<1>6. CASE PingTargets
  <2>1. UNCHANGED <<ctrl, peerConn>>
    BY <1>6 DEF PingTargets
  <2>2. CASE UNCHANGED pinger
    BY <1>2, <2>1, <2>2
  <2>3. CASE pinger' = [p \in Peers |-> IF p \notin members THEN None
                                        ELSE IF pinger[p] = None THEN Fresh ELSE pinger[p]]
    BY <1>1, <2>1, <2>3, PingFresh DEF PingInv
  <2> QED
    BY <1>6, <2>2, <2>3 DEF PingTargets
<1>7. ASSUME NEW p \in Peers, Send(p) PROVE PingInv'
  <2>1. PICK g : g = pinger[p] /\ Counted(g) /\ ~g.waiting
    BY <1>7 DEF Send, PingInv
  <2>2. PICK w : /\ w \in SUBSET Nat
                 /\ pinger' = [pinger EXCEPT ![p].seq = @ + 1, ![p].waiting = TRUE, ![p].wire = w]
    <3>1. g.seq \in Nat /\ g.wire \in SUBSET Nat
      BY <2>1 DEF Counted, Pinger
    <3>2. PICK echoed \in BOOLEAN :
            pinger' = [pinger EXCEPT ![p].seq = @ + 1, ![p].waiting = TRUE,
                          ![p].wire = IF echoed THEN @ \cup {pinger[p].seq + 1} ELSE @]
      BY <1>7 DEF Send
    <3>3. PICK w : w = IF echoed THEN g.wire \cup {g.seq + 1} ELSE g.wire
      OBVIOUS
    <3>4. w \in SUBSET Nat
      <4>1. g.seq + 1 \in Nat
        BY <3>1
      <4>2. PICK q : q = g.seq + 1
        OBVIOUS
      <4> QED
        BY <3>1, <3>3, <4>1, <4>2, Zenon
    <3>5. pinger' = [pinger EXCEPT ![p].seq = @ + 1, ![p].waiting = TRUE, ![p].wire = w]
      BY <2>1, <3>2, <3>3 DEF PingInv
    <3> QED
      BY <3>4, <3>5
  <2>3. PICK x : x = [g EXCEPT !.seq = @ + 1, !.waiting = TRUE, !.wire = w]
    OBVIOUS
  <2>4. Counted(x)
    BY <2>1, <2>2, <2>3, PingSends
  <2>5. pinger' = [pinger EXCEPT ![p] = x]
    BY <2>1, <2>2, <2>3 DEF PingInv
  <2> QED
    BY <1>3, <1>7, <2>4, <2>5 DEF Send
<1>8. ASSUME NEW p \in Peers, NEW e \in 1..MaxSeq, Receive(p, e) PROVE PingInv'
  <2>1. PICK g : g = pinger[p] /\ Counted(g) /\ g.waiting
    BY <1>8 DEF Receive, PingInv
  <2>2. PICK w : /\ w \in SUBSET Nat
                 /\ LET x == [g EXCEPT !.wire = w]
                    IN  pinger' = [pinger EXCEPT ![p] =
                            IF Awaited(x, e)
                            THEN SampleAdd(x, [seq |-> x.seq, lost |-> FALSE, echo |-> e])
                            ELSE x]
    <3>1. g.wire \in SUBSET Nat
      BY <2>1 DEF Counted, Pinger
    <3> QED
      BY <1>8, <2>1, <3>1 DEF Receive
  <2>3. PICK x : x = [g EXCEPT !.wire = w]
    OBVIOUS
  <2>4. Counted(x)
    BY <2>1, <2>2, <2>3, PingSkips
  <2>5. x.waiting /\ x.seq \in Nat /\ e \in Nat
    <3>1. g \in Pinger /\ x \in Pinger
      BY <2>1, <2>4 DEF Counted
    <3>2. x.waiting = g.waiting
      BY <2>3, <3>1 DEF Pinger
    <3>3. x.seq \in Nat
      BY <3>1 DEF Pinger
    <3>4. e \in Nat
      BY <1>1
    <3> QED
      BY <2>1, <3>2, <3>3, <3>4, Zenon
  <2>6. PICK s : s = [seq |-> x.seq, lost |-> FALSE, echo |-> e]
    OBVIOUS
  <2>7. CASE Awaited(x, e)
    <3>1. s \in PingSample /\ Right(s, x.seq)
      BY <2>5, <2>6, <2>7 DEF PingSample, Right, Awaited
    <3>2. PICK y : y = SampleAdd(x, s)
      OBVIOUS
    <3>3. Counted(y)
      BY <1>1, <2>4, <2>5, <3>1, <3>2, PingEnds
    <3>4. pinger' = [pinger EXCEPT ![p] = y]
      BY <2>2, <2>3, <2>6, <2>7, <3>2
    <3> QED
      BY <1>3, <1>8, <3>3, <3>4 DEF Receive
  <2>8. CASE ~Awaited(x, e)
    <3>1. pinger' = [pinger EXCEPT ![p] = x]
      BY <2>2, <2>3, <2>8
    <3> QED
      BY <1>3, <1>8, <2>4, <3>1 DEF Receive
  <2> QED
    BY <2>7, <2>8
<1>9. ASSUME NEW p \in Peers, Timeout(p) PROVE PingInv'
  <2>1. PICK g : g = pinger[p] /\ Counted(g) /\ g.waiting /\ g.seq \in Nat
    BY <1>9 DEF Timeout, PingInv, Counted, Pinger
  <2>2. PICK s, y : s = [seq |-> g.seq, lost |-> TRUE, echo |-> 0] /\ y = SampleAdd(g, s)
    OBVIOUS
  <2>3. s \in PingSample /\ Right(s, g.seq)
    BY <2>1, <2>2 DEF PingSample, Right
  <2>4. Counted(y)
    BY <1>1, <2>1, <2>2, <2>3, PingEnds
  <2>5. pinger' = [pinger EXCEPT ![p] = y]
    BY <1>9, <2>1, <2>2 DEF Timeout
  <2> QED
    BY <1>3, <1>9, <2>4, <2>5 DEF Timeout
<1>10. CASE (MeshChange /\ UNCHANGED pingVars) \/ UNCHANGED peerVars
  BY <1>2, <1>10 DEF pingVars, peerVars
<1> QED
  BY <1>4, <1>5, <1>6, <1>7, <1>8, <1>9, <1>10 DEF PingNext, PingStep

\* What Ring.Samples shows, oldest first, and what Stats counts in it.
LEMMA PingShows == ASSUME History \in Nat \ {0}, PingInv PROVE EveryProbeCounted
<1> SUFFICES ASSUME NEW p \in Peers, NEW g, g = pinger[p], g # None,
                    NEW e, e = Ended(g)
             PROVE  /\ g.n = IF e < History THEN e ELSE History
                    /\ \A i \in 1..g.n :
                         /\ Samples(g)[i].seq = e - g.n + i
                         /\ Samples(g)[i].lost
                              \/ Samples(g)[i].echo = Samples(g)[i].seq
                    /\ Measured(p) => ctrl # None /\ Stats(g).lost <= e
  BY DEF EveryProbeCounted, Ended
<1>1. /\ Counted(g) /\ e \in Nat /\ g.n \in Nat /\ g.n <= e /\ g.n <= History
      /\ g.head \in 0..(History - 1)
      /\ g.n = IF e < History THEN e ELSE History
  BY DEF PingInv, Counted, Pinger, Ended, Index
<1>2. ASSUME NEW i \in 1..g.n PROVE Right(Samples(g)[i], e - g.n + i)
  <2>1. PICK r, h, m, j : r = History /\ h = g.head /\ m = g.n /\ j = m + 1 - i
    OBVIOUS
  <2>2. /\ r \in Nat \ {0} /\ h \in 0..(r - 1) /\ m \in 0..r /\ i \in 1..m /\ j \in 1..m
        /\ e + 1 - j = e - m + i
    BY <1>1, <2>1
  <2>3. (((h - m + r) % r) + i - 1) % r = Place(h, j)
    <3>1. (h - m + r) % r = IF h - m < 0 THEN h - m + r ELSE h - m
      BY <2>2
    <3>2. PICK a : a = (h - m + r) % r
      OBVIOUS
    <3>3. a \in 0..(r - 1) /\ a + i - 1 \in 0..(2 * r - 1)
      BY <2>2, <3>1, <3>2
    <3>4. PICK b : b = a + i - 1
      OBVIOUS
    <3>5. b % r = IF b < r THEN b ELSE b - r
      BY <2>2, <3>3, <3>4, RingWrap
    <3>6. b % r = Place(h, j)
      BY <2>1, <2>2, <3>1, <3>2, <3>3, <3>4, <3>5 DEF Place
    <3> QED
      BY <3>2, <3>4, <3>6, Zenon
  <2>4. Samples(g)[i] = g.buf[Place(h, j)]
    BY <2>1, <2>2, <2>3 DEF Samples
  <2>5. Right(g.buf[Place(h, j)], e + 1 - j)
    BY <1>1, <2>1, <2>2 DEF Counted
  <2> QED
    BY <2>1, <2>2, <2>4, <2>5
<1>3. Stats(g).lost <= e
  <2>1. PICK S, m : S = {i \in 1..g.n : Samples(g)[i].lost} /\ m = g.n
    OBVIOUS
  <2>2. S \in SUBSET (1..m) /\ m \in Nat
    BY <1>1, <2>1
  <2>3. IsFiniteSet(1..m) /\ Cardinality(1..m) = m
    BY <2>2, FS_Interval
  <2>4. Cardinality(S) <= m /\ Cardinality(S) \in Nat
    BY <2>2, <2>3, FS_Subset, FS_CardinalityType
  <2>5. Stats(g).lost = Cardinality(S)
    BY <2>1 DEF Stats
  <2> QED
    BY <1>1, <2>1, <2>2, <2>4, <2>5
<1>4. Measured(p) => ctrl # None
  BY DEF Measured, PingInv
<1>5. ASSUME NEW i \in 1..g.n
      PROVE  /\ Samples(g)[i].seq = e - g.n + i
             /\ Samples(g)[i].lost \/ Samples(g)[i].echo = Samples(g)[i].seq
  BY <1>2 DEF Right
<1> QED
  BY <1>1, <1>3, <1>4, <1>5

(***************************************************************************)
(* Every probe that ended is in the ring once and in order, as lost or     *)
(* with the echo that carries its own number, however late and however     *)
(* often echoes arrive, for every length of the history (Pinger.Run, Ring). *)
(***************************************************************************)
THEOREM ProbesAlwaysCounted ==
    PingSpec => []EveryProbeCounted
<1>1. PingInit => PingInv
  BY PingInits
<1>2. PingInv /\ [PingNext]_peerVars => PingInv'
  BY PingKept
<1>3. PingInv => EveryProbeCounted
  <2>1. History \in Nat \ {0}
    BY PingParameters, Zenon
  <2> QED
    BY <2>1, PingShows
<1> QED
  BY <1>1, <1>2, <1>3, PTL DEF PingSpec

=============================================================================
