-------------------------- MODULE IpcSessionProofs --------------------------
(***************************************************************************)
(* The order of requests and replies on the tray's connection, for any     *)
(* number of profiles and of calls given up.                               *)
(***************************************************************************)
EXTENDS IpcSession, TLAPS

USE SessionParameters

Reply == [id : Nat, kind : {"error", "status", "profiles", "empty"},
          val : {"up", "down"} \cup Slugs \cup {None}]

TypeInv ==
    /\ todo \in [Goroutines -> Seq(Calls)]
    /\ cur \in [Goroutines -> Request \cup {None}]
    /\ lastId \in 0..(IdSpace - 1)
    /\ reqs \in Seq(Request) /\ reps \in Seq(Reply)
    /\ tun \in {"up", "down"} /\ active \in Slugs
    /\ timeouts \in 0..MaxTimeouts

(***************************************************************************)
(* The replies R that wait to be read and the requests Q that wait to be   *)
(* answered carry consecutive ids, the last of them the id last drawn.     *)
(***************************************************************************)
Place(R, Q, last, i) == (last - (Len(R) + Len(Q)) + i) % IdSpace

InOrder(R, Q, last) ==
    /\ \A i \in 1..Len(R) : R[i].id = Place(R, Q, last, i)
    /\ \A j \in 1..Len(Q) : Q[j].id = Place(R, Q, last, Len(R) + j)

Lines(R, Q) == Len(R) + Len(Q)

(* The goroutine of the tray that holds the connection's mutex, if any.    *)
Busy == \E g \in Goroutines : cur[g] # None

(***************************************************************************)
(* As many lines are under way as calls were given up, and one more while  *)
(* a call waits.  A connection the shutdown has closed delivers nothing.   *)
(***************************************************************************)
QueueInv ==
    /\ cur[Poll] = None \/ cur[Click] = None
    /\ \A g \in Goroutines : cur[g] # None => cur[g].id = lastId
    /\ \/ stopping /\ reps = <<>>
       \/ /\ InOrder(reps, reqs, lastId)
          /\ Busy => Lines(reps, reqs) = timeouts + 1
          /\ ~Busy => Lines(reps, reqs) = timeouts

-----------------------------------------------------------------------------
(* Arithmetic modulo IdSpace. *)

LEMMA DivMod ==
    ASSUME NEW a \in Int
    PROVE  /\ a = IdSpace * (a \div IdSpace) + (a % IdSpace)
           /\ a \div IdSpace \in Int /\ a % IdSpace \in 0..(IdSpace - 1)
OBVIOUS

LEMMA ModUnique ==
    ASSUME NEW q \in Int, NEW r \in 0..(IdSpace - 1) PROVE (IdSpace * q + r) % IdSpace = r
OBVIOUS

LEMMA ModShift ==
    ASSUME NEW a \in Int, NEW q \in Int PROVE (a + IdSpace * q) % IdSpace = a % IdSpace
<1> DEFINE d == a \div IdSpace
           r == a % IdSpace
<1>1. a = IdSpace * d + r /\ d \in Int /\ r \in 0..(IdSpace - 1)
  BY DivMod
<1> HIDE DEF d, r
<1>2. a + IdSpace * q = IdSpace * (d + q) + r
  BY <1>1
<1>3. (IdSpace * (d + q) + r) % IdSpace = r
  BY <1>1, ModUnique
<1> QED
  BY <1>2, <1>3 DEF r

LEMMA ModAdd ==
    ASSUME NEW a \in Int, NEW b \in Int
    PROVE  /\ ((a % IdSpace) + b) % IdSpace = (a + b) % IdSpace
           /\ (b - (a % IdSpace)) % IdSpace = (b - a) % IdSpace
<1> DEFINE d == a \div IdSpace
           r == a % IdSpace
<1>1. a = IdSpace * d + r /\ d \in Int /\ r \in 0..(IdSpace - 1)
  BY DivMod
<1> HIDE DEF d, r
<1>2. r + b \in Int /\ b - r \in Int /\ -d \in Int
  BY <1>1
<1>3. a + b = (r + b) + IdSpace * d /\ b - a = (b - r) + IdSpace * (-d)
  BY <1>1
<1>4. /\ ((r + b) + IdSpace * d) % IdSpace = (r + b) % IdSpace
      /\ ((b - r) + IdSpace * (-d)) % IdSpace = (b - r) % IdSpace
  BY <1>1, <1>2, ModShift
<1> QED
  BY <1>3, <1>4 DEF r

LEMMA SmallMod == ASSUME NEW a \in 0..(IdSpace - 1) PROVE a % IdSpace = a
OBVIOUS

-----------------------------------------------------------------------------
(* What happens to the order as a line is written, answered and read. *)

LEMMA SentInOrder ==
    ASSUME NEW R \in Seq(Reply), NEW Q \in Seq(Request), NEW last \in 0..(IdSpace - 1),
           InOrder(R, Q, last), NEW q \in Request, q.id = (last + 1) % IdSpace
    PROVE  InOrder(R, Append(Q, q), (last + 1) % IdSpace)
<1> DEFINE next == (last + 1) % IdSpace
           Q2 == Append(Q, q)
<1>1. last + 1 \in Int /\ next \in 0..(IdSpace - 1)
  <2>1. last + 1 \in Int
    OBVIOUS
  <2> QED
    BY <2>1, DivMod
<1>2. Len(Q2) = Len(Q) + 1 /\ Q2[Len(Q) + 1] = q /\ \A j \in 1..Len(Q) : Q2[j] = Q[j]
  OBVIOUS
<1>3. ASSUME NEW i \in Int PROVE Place(R, Q2, next, i) = Place(R, Q, last, i)
  <2> DEFINE b == i - (Len(R) + Len(Q)) - 1
  <2>1. b \in Int /\ last + 1 \in Int
    OBVIOUS
  <2>2. (next + b) % IdSpace = (last + 1 + b) % IdSpace
    BY <2>1, ModAdd
  <2>3. next - (Len(R) + Len(Q2)) + i = next + b /\ last - (Len(R) + Len(Q)) + i = last + 1 + b
    <3> HIDE DEF next, Q2
    <3> QED
      BY <1>1, <1>2
  <2> QED
    BY <2>2, <2>3 DEF Place
<1> HIDE DEF next, Q2
<1>4. Place(R, Q2, next, Len(R) + Len(Q2)) = next
  <2>1. next - (Len(R) + Len(Q2)) + (Len(R) + Len(Q2)) = next
    BY <1>1, <1>2
  <2> QED
    BY <1>1, <2>1, SmallMod DEF Place
<1>5. ASSUME NEW i \in 1..Len(R) PROVE R[i].id = Place(R, Q2, next, i)
  BY <1>3 DEF InOrder
<1>6. ASSUME NEW j \in 1..Len(Q2) PROVE Q2[j].id = Place(R, Q2, next, Len(R) + j)
  <2>1. CASE j \in 1..Len(Q)
    <3>1. Q2[j] = Q[j] /\ Len(R) + j \in Int
      BY <1>2, <2>1
    <3>2. Q[j].id = Place(R, Q, last, Len(R) + j)
      BY <2>1 DEF InOrder
    <3> QED
      BY <1>3, <3>1, <3>2
  <2>2. CASE j = Len(Q) + 1
    BY <1>2, <1>4, <2>2 DEF next
  <2> QED
    BY <1>2, <2>1, <2>2
<1> QED
  BY <1>5, <1>6 DEF InOrder, next, Q2

LEMMA AnsweredInOrder ==
    ASSUME NEW R \in Seq(Reply), NEW Q \in Seq(Request), NEW last \in 0..(IdSpace - 1),
           InOrder(R, Q, last), Q # <<>>, NEW r \in Reply, r.id = Head(Q).id
    PROVE  InOrder(Append(R, r), Tail(Q), last)
<1> DEFINE R2 == Append(R, r)
           Q2 == Tail(Q)
<1>1. /\ Len(R2) = Len(R) + 1 /\ R2[Len(R) + 1] = r /\ \A i \in 1..Len(R) : R2[i] = R[i]
      /\ Len(Q2) = Len(Q) - 1 /\ \A j \in 1..Len(Q2) : Q2[j] = Q[j + 1]
      /\ Head(Q) = Q[1] /\ Len(Q) \in Nat \ {0} /\ Len(R) \in Nat
  OBVIOUS
<1> HIDE DEF R2, Q2
<1>2. Len(R2) + Len(Q2) = Len(R) + Len(Q)
  BY <1>1
<1>3. ASSUME NEW i PROVE Place(R2, Q2, last, i) = Place(R, Q, last, i)
  BY <1>2 DEF Place
<1>4. ASSUME NEW i \in 1..Len(R2) PROVE R2[i].id = Place(R2, Q2, last, i)
  <2>1. CASE i \in 1..Len(R)
    BY <1>1, <1>3, <2>1 DEF InOrder
  <2>2. CASE i = Len(R) + 1
    <3>1. Q[1].id = Place(R, Q, last, Len(R) + 1)
      BY <1>1 DEF InOrder
    <3> QED
      BY <1>1, <1>3, <2>2, <3>1
  <2> QED
    BY <1>1, <2>1, <2>2
<1>5. ASSUME NEW j \in 1..Len(Q2) PROVE Q2[j].id = Place(R2, Q2, last, Len(R2) + j)
  <2>1. j + 1 \in 1..Len(Q) /\ Len(R2) + j = Len(R) + (j + 1) /\ Q2[j] = Q[j + 1]
    BY <1>1
  <2>2. Q[j + 1].id = Place(R, Q, last, Len(R) + (j + 1))
    BY <2>1 DEF InOrder
  <2> QED
    BY <1>3, <2>1, <2>2
<1> QED
  BY <1>4, <1>5 DEF InOrder, R2, Q2

LEMMA ReadInOrder ==
    ASSUME NEW R \in Seq(Reply), NEW Q \in Seq(Request), NEW last \in 0..(IdSpace - 1),
           InOrder(R, Q, last), R # <<>>
    PROVE  InOrder(Tail(R), Q, last)
<1> DEFINE R2 == Tail(R)
<1>1. /\ Len(R2) = Len(R) - 1 /\ \A i \in 1..Len(R2) : R2[i] = R[i + 1]
      /\ Len(Q) \in Nat /\ Len(R) \in Nat \ {0}
  OBVIOUS
<1> HIDE DEF R2
<1>2. ASSUME NEW i \in Int PROVE Place(R2, Q, last, i) = Place(R, Q, last, i + 1)
  <2>1. last - (Len(R2) + Len(Q)) + i = last - (Len(R) + Len(Q)) + (i + 1)
    BY <1>1
  <2> QED
    BY <2>1 DEF Place
<1>3. ASSUME NEW i \in 1..Len(R2) PROVE R2[i].id = Place(R2, Q, last, i)
  <2>1. i \in Int /\ i + 1 \in 1..Len(R) /\ R2[i] = R[i + 1]
    BY <1>1
  <2> QED
    BY <1>2, <2>1 DEF InOrder
<1>4. ASSUME NEW j \in 1..Len(Q) PROVE Q[j].id = Place(R2, Q, last, Len(R2) + j)
  <2>1. Place(R2, Q, last, Len(R2) + j) = Place(R, Q, last, Len(R2) + j + 1)
    BY <1>1, <1>2
  <2>2. Len(R2) + j + 1 = Len(R) + j
    BY <1>1
  <2> QED
    BY <2>1, <2>2 DEF InOrder
<1> QED
  BY <1>3, <1>4 DEF InOrder, R2

LEMMA LinesCount ==
    ASSUME NEW R \in Seq(Reply), NEW Q \in Seq(Request)
    PROVE  /\ Lines(R, Q) \in Nat
           /\ \A q \in Request : Lines(R, Append(Q, q)) = Lines(R, Q) + 1
           /\ Q # <<>> => \A r \in Reply : Lines(Append(R, r), Tail(Q)) = Lines(R, Q)
           /\ R # <<>> => Lines(Tail(R), Q) = Lines(R, Q) - 1
<1> DEFINE m == Len(R)
           n == Len(Q)
<1>1. m \in Nat /\ n \in Nat
  OBVIOUS
<1>2. /\ \A q \in Request : Len(Append(Q, q)) = n + 1
      /\ \A r \in Reply : Len(Append(R, r)) = m + 1
      /\ Q # <<>> => Len(Tail(Q)) = n - 1
      /\ R # <<>> => Len(Tail(R)) = m - 1
  OBVIOUS
<1> HIDE DEF m, n
<1>3. ASSUME NEW q \in Request PROVE Lines(R, Append(Q, q)) = Lines(R, Q) + 1
  BY <1>1, <1>2 DEF Lines, m, n
<1>4. ASSUME NEW r \in Reply, Q # <<>> PROVE Lines(Append(R, r), Tail(Q)) = Lines(R, Q)
  BY <1>1, <1>2, <1>4 DEF Lines, m, n
<1>5. ASSUME R # <<>> PROVE Lines(Tail(R), Q) = Lines(R, Q) - 1
  BY <1>1, <1>2, <1>5 DEF Lines, m, n
<1>6. Lines(R, Q) \in Nat
  BY <1>1 DEF Lines, m, n
<1> QED
  BY <1>3, <1>4, <1>5, <1>6

-----------------------------------------------------------------------------
(* Types. *)

LEMMA RefreshTyped ==
    Refresh \in Seq(Calls) /\ \A call \in Calls : <<call>> \o Refresh \in Seq(Calls)
<1>1. Call("getStatus", None) \in Calls /\ Call("listProfiles", None) \in Calls
  BY DEF Calls, Reads
<1>2. Refresh \in Seq(Calls)
  BY <1>1 DEF Refresh
<1>3. \A call \in Calls : <<call>> \in Seq(Calls)
  OBVIOUS
<1> QED
  BY <1>2, <1>3

LEMMA InitTyped == Init => TypeInv
BY DEF Init, TypeInv

LEMMA FailedTyped ==
    ASSUME TypeInv, NEW g \in Goroutines, Failed(g)
    PROVE  /\ todo' \in [Goroutines -> Seq(Calls)]
           /\ cur' \in [Goroutines -> Request \cup {None}]
           /\ cur' = [cur EXCEPT ![g] = None]
<1>1. <<>> \in Seq(Calls)
  OBVIOUS
<1>2. PICK T \in {todo[g], <<>>} : todo' = [todo EXCEPT ![g] = T]
  BY DEF Failed
<1> QED
  BY <1>1, <1>2 DEF Failed, TypeInv

LEMMA AnswerTyped ==
    ASSUME TypeInv, Scans, NEW kind \in {"error", "status", "profiles", "empty"},
           NEW val \in {"up", "down"} \cup Slugs \cup {None}, Answer(kind, val)
    PROVE  /\ reqs' \in Seq(Request) /\ reps' \in Seq(Reply)
           /\ UNCHANGED <<todo, cur, lastId, stopping, timeouts>>
           /\ reqs # <<>> /\ Head(reqs) \in Request /\ reqs' = Tail(reqs)
           /\ \E r \in Reply : r.id = Head(reqs).id /\ reps' = Append(reps, r)
<1> DEFINE r == [id |-> Head(reqs).id, kind |-> kind, val |-> val]
<1>1. reqs \in Seq(Request) /\ reqs # <<>> /\ reps \in Seq(Reply)
  BY DEF TypeInv, Scans
<1>2. Head(reqs) \in Request /\ Tail(reqs) \in Seq(Request)
  BY <1>1
<1>3. r \in Reply /\ r.id = Head(reqs).id
  BY <1>2 DEF Reply, Request
<1>4. reps' = Append(reps, r)
  BY DEF Answer
<1> HIDE DEF r
<1>5. Append(reps, r) \in Seq(Reply)
  BY <1>1, <1>3
<1> QED
  BY <1>1, <1>2, <1>3, <1>4, <1>5 DEF Answer

LEMMA NextTyped == TypeInv /\ [Next]_vars => TypeInv'
<1> SUFFICES ASSUME TypeInv, [Next]_vars PROVE TypeInv'
  OBVIOUS
<1>0. Poll \in Goroutines /\ Click \in Goroutines
  BY DEF Goroutines
<1>1. ASSUME Tick PROVE TypeInv'
  BY <1>0, <1>1, RefreshTyped DEF Tick, TypeInv, wireVars, daemonVars
<1>2. ASSUME NEW call \in Calls, Clicked(call) PROVE TypeInv'
  <2> DEFINE T == <<call>> \o Refresh
  <2>1. T \in Seq(Calls) /\ todo' = [todo EXCEPT ![Click] = T]
    BY <1>2, RefreshTyped DEF Clicked
  <2> HIDE DEF T
  <2> QED
    BY <1>0, <1>2, <2>1 DEF Clicked, TypeInv, wireVars, daemonVars
<1>3. ASSUME HandleElsewhere PROVE TypeInv'
  BY <1>3 DEF HandleElsewhere, TypeInv, wireVars
<1>4. ASSUME NEW g \in Goroutines, Write(g) PROVE TypeInv'
  <2> DEFINE id == (lastId + 1) % IdSpace
             q == [id |-> id, call |-> Head(todo[g])]
  <2>1. lastId + 1 \in Int
    BY DEF TypeInv
  <2>2. id \in 0..(IdSpace - 1)
    BY <2>1, DivMod
  <2>3. todo[g] \in Seq(Calls) /\ todo[g] # <<>>
    BY <1>4 DEF Write, TypeInv
  <2>4. Head(todo[g]) \in Calls /\ Tail(todo[g]) \in Seq(Calls)
    BY <2>3
  <2>5. q \in Request
    BY <2>2, <2>4 DEF Request
  <2>6. /\ lastId' = id /\ reqs' = Append(reqs, q)
        /\ cur' = [cur EXCEPT ![g] = q] /\ todo' = [todo EXCEPT ![g] = Tail(todo[g])]
        /\ UNCHANGED <<reps, daemonVars, timeouts>>
    BY <1>4 DEF Write
  <2> HIDE DEF id, q
  <2>7. reqs' \in Seq(Request)
    BY <2>5, <2>6 DEF TypeInv
  <2> QED
    BY <2>2, <2>4, <2>5, <2>6, <2>7 DEF TypeInv, daemonVars
<1>5. ASSUME NEW g \in Goroutines, ReadReply(g) PROVE TypeInv'
  <2>1. reps # <<>> /\ reps' = Tail(reps) /\ UNCHANGED <<lastId, reqs, daemonVars, timeouts>>
    BY <1>5 DEF ReadReply
  <2>2. /\ todo' \in [Goroutines -> Seq(Calls)]
        /\ cur' \in [Goroutines -> Request \cup {None}]
    BY <1>5, FailedTyped DEF ReadReply, TypeInv
  <2>3. Tail(reps) \in Seq(Reply)
    BY <2>1 DEF TypeInv
  <2> QED
    BY <2>1, <2>2, <2>3 DEF TypeInv, daemonVars
<1>6. ASSUME NEW g \in Goroutines, GiveUp(g) PROVE TypeInv'
  <2>1. timeouts' \in 0..MaxTimeouts
    BY <1>6 DEF GiveUp, TypeInv
  <2> QED
    BY <1>6, <2>1, FailedTyped DEF GiveUp, TypeInv, wireVars, daemonVars
<1>7. ASSUME NEW g \in Goroutines, CallFails(g) PROVE TypeInv'
  <2>1. <<>> \in Seq(Request)
    OBVIOUS
  <2> QED
    BY <1>7, <2>1, FailedTyped DEF CallFails, TypeInv, daemonVars
<1>8. ASSUME NEW g \in Goroutines, Show(g) PROVE TypeInv'
  BY <1>8 DEF Show, ShowRows, NoteState, SetIcon, SetMenu, TypeInv, wireVars, daemonVars
<1>9. ASSUME HandleRefused PROVE TypeInv'
  BY <1>9, AnswerTyped DEF HandleRefused, TypeInv, daemonVars
<1>10. ASSUME HandleRead PROVE TypeInv'
  BY <1>10, AnswerTyped DEF HandleRead, GetStatus, ListProfiles, TypeInv, daemonVars
<1>11. ASSUME HandleChange PROVE TypeInv'
  <2>1. Scans /\ Answer("empty", None)
    BY <1>11 DEF HandleChange
  <2>2. Head(reqs).call \in Calls
    BY <2>1, AnswerTyped DEF Request
  <2>3. Head(reqs).call.m = "setActiveProfile" => Head(reqs).call.a \in Slugs
    <3>1. CASE \E m \in Reads \cup Legs : Head(reqs).call = Call(m, None)
      BY <3>1 DEF Call, Reads, Legs
    <3>2. CASE \E s \in Slugs : Head(reqs).call = Call("setActiveProfile", s)
      BY <3>2 DEF Call
    <3> QED
      BY <2>2, <3>1, <3>2 DEF Calls
  <2>4. tun' \in {"up", "down"} /\ active' \in Slugs
    BY <1>11, <2>3 DEF HandleChange, TypeInv
  <2> QED
    BY <2>1, <2>4, AnswerTyped DEF TypeInv
<1>12. ASSUME Shutdown PROVE TypeInv'
  BY <1>12 DEF Shutdown, TypeInv, daemonVars
<1>13. CASE UNCHANGED vars
  BY <1>13 DEF vars, TypeInv, wireVars, daemonVars
<1> QED
  BY <1>1, <1>2, <1>3, <1>4, <1>5, <1>6, <1>7, <1>8, <1>9, <1>10, <1>11, <1>12, <1>13
     DEF Next, Client, Dispatch

-----------------------------------------------------------------------------
(* The tray's connection. *)

LEMMA QueueUntouched ==
    ASSUME QueueInv, UNCHANGED <<lastId, timeouts, reps, reqs, cur>>, stopping => stopping'
    PROVE  QueueInv'
<1>1. Busy' = Busy
  BY DEF Busy, Goroutines
<1>2. InOrder(reps, reqs, lastId) => InOrder(reps', reqs', lastId')
  BY DEF InOrder, Place
<1> QED
  BY <1>1, <1>2 DEF QueueInv, Goroutines

LEMMA PollIsNotClick == Poll # Click /\ Poll \in Goroutines /\ Click \in Goroutines
BY DEF Poll, Click, Goroutines

(* The one call of the tray that waits ends, one way or another. *)
LEMMA CallEnds ==
    ASSUME TypeInv, QueueInv, NEW g \in Goroutines, cur[g] # None, cur' = [cur EXCEPT ![g] = None]
    PROVE  Busy /\ ~Busy' /\ cur'[Poll] = None /\ cur'[Click] = None
BY PollIsNotClick DEF QueueInv, Busy, TypeInv, Goroutines

LEMMA NextQueue == TypeInv /\ QueueInv /\ [Next]_vars => QueueInv'
<1> SUFFICES ASSUME TypeInv, QueueInv, [Next]_vars PROVE QueueInv'
  OBVIOUS
<1> USE DEF wireVars
<1>0. /\ reps \in Seq(Reply) /\ reqs \in Seq(Request)
      /\ lastId \in 0..(IdSpace - 1) /\ timeouts \in Nat
      /\ Lines(reps, reqs) \in Nat
  BY LinesCount DEF TypeInv
<1>1. ASSUME Tick \/ (\E call \in Calls : Clicked(call)) \/ Shutdown \/ HandleElsewhere
                  \/ (\E g \in Goroutines : Show(g)) \/ UNCHANGED vars
      PROVE  QueueInv'
  <2>1. UNCHANGED <<lastId, timeouts, reps, reqs, cur>> /\ (stopping => stopping')
    <3>1. Shutdown => UNCHANGED <<lastId, timeouts, reps, reqs, cur>> /\ stopping'
      BY DEF Shutdown
    <3>2. Tick \/ (\E call \in Calls : Clicked(call)) \/ (\E g \in Goroutines : Show(g))
            \/ HandleElsewhere
            => UNCHANGED <<lastId, timeouts, reps, reqs, cur, stopping>>
      BY DEF Tick, Clicked, Show, ShowRows, NoteState, SetIcon, SetMenu, HandleElsewhere
    <3>3. UNCHANGED vars => UNCHANGED <<lastId, timeouts, reps, reqs, cur, stopping>>
      BY DEF vars
    <3> QED
      BY <1>1, <3>1, <3>2, <3>3
  <2> QED
    BY <2>1, QueueUntouched
<1>3. ASSUME NEW g \in Goroutines, Write(g) PROVE QueueInv'
  <2> DEFINE id == (lastId + 1) % IdSpace
             q == [id |-> id, call |-> Head(todo[g])]
  <2>1. todo[g] # <<>> /\ todo[g] \in Seq(Calls)
    BY <1>3 DEF Write, TypeInv
  <2>2. cur[Poll] = None /\ cur[Click] = None /\ ~Busy
    BY <1>3, PollIsNotClick DEF Write, Unlocked, Busy
  <2>3. lastId + 1 \in Int
    BY <1>0
  <2>4. q \in Request /\ q.id = id
    <3>1. id \in Nat
      BY <2>3, DivMod
    <3>2. Head(todo[g]) \in Calls
      BY <2>1
    <3> HIDE DEF id
    <3> QED
      BY <3>1, <3>2 DEF Request
  <2>5. /\ lastId' = id /\ reqs' = Append(reqs, q)
        /\ cur' = [cur EXCEPT ![g] = q]
        /\ UNCHANGED <<reps, stopping, timeouts>>
    BY <1>3 DEF Write, TypeInv
  <2>6. InOrder(reps, reqs, lastId) => InOrder(reps, Append(reqs, q), id)
    BY <1>0, <2>4, SentInOrder
  <2> HIDE DEF id, q
  <2>7. cur'[g] = q /\ q # None /\ \A h \in Goroutines \ {g} : cur'[h] = None
    BY <2>2, <2>4, <2>5 DEF TypeInv, Goroutines
  <2>8. Busy'
    BY <2>7 DEF Busy
  <2>9. Lines(reps', reqs') = Lines(reps, reqs) + 1
    BY <1>0, <2>4, <2>5, LinesCount
  <2>10. InOrder(reps, reqs, lastId) => InOrder(reps', reqs', lastId')
    BY <2>5, <2>6 DEF InOrder, Place
  <2>11. (cur[Poll] = None \/ cur[Click] = None)'
    BY <2>7, PollIsNotClick
  <2>12. \A h \in Goroutines : cur'[h] # None => cur'[h].id = lastId'
    BY <2>4, <2>5, <2>7
  <2>13. \/ stopping' /\ reps' = <<>>
         \/ /\ InOrder(reps', reqs', lastId')
            /\ Lines(reps', reqs') = timeouts' + 1
    BY <1>0, <2>2, <2>5, <2>9, <2>10 DEF QueueInv
  <2> QED
    BY <2>8, <2>11, <2>12, <2>13 DEF QueueInv
<1>4. ASSUME NEW g \in Goroutines, ReadReply(g) PROVE QueueInv'
  <2>1. /\ cur[g] # None /\ reps # <<>> /\ reps' = Tail(reps)
        /\ cur' = [cur EXCEPT ![g] = None]
        /\ UNCHANGED <<lastId, reqs, stopping, timeouts>>
    BY <1>4 DEF ReadReply, Failed
  <2>2. Busy /\ ~Busy' /\ cur'[Poll] = None /\ cur'[Click] = None
    BY <2>1, CallEnds
  <2>3. InOrder(reps, reqs, lastId) /\ Lines(reps, reqs) = timeouts + 1
    BY <2>1, <2>2 DEF QueueInv
  <2>4. InOrder(Tail(reps), reqs, lastId) /\ Lines(Tail(reps), reqs) = Lines(reps, reqs) - 1
    BY <1>0, <2>1, <2>3, ReadInOrder, LinesCount
  <2>5. InOrder(reps', reqs', lastId')
    BY <2>1, <2>4 DEF InOrder, Place
  <2>6. Lines(reps', reqs') = timeouts'
    BY <1>0, <2>1, <2>3, <2>4
  <2> QED
    BY <2>2, <2>5, <2>6 DEF QueueInv, Goroutines
<1>5. ASSUME NEW g \in Goroutines, GiveUp(g) PROVE QueueInv'
  <2>1. /\ cur[g] # None /\ timeouts' = timeouts + 1
        /\ cur' = [cur EXCEPT ![g] = None]
        /\ UNCHANGED <<lastId, reqs, reps, stopping>>
    BY <1>5 DEF GiveUp, Failed
  <2>2. Busy /\ ~Busy' /\ cur'[Poll] = None /\ cur'[Click] = None
    BY <2>1, CallEnds
  <2>3. InOrder(reps, reqs, lastId) => InOrder(reps', reqs', lastId')
    BY <2>1 DEF InOrder, Place
  <2> QED
    BY <1>0, <2>1, <2>2, <2>3 DEF QueueInv, Goroutines
<1>6. ASSUME NEW g \in Goroutines, CallFails(g) PROVE QueueInv'
  <2>1. /\ cur[g] # None /\ stopping /\ reps = <<>>
        /\ cur' = [cur EXCEPT ![g] = None]
        /\ UNCHANGED <<lastId, reps, stopping, timeouts>>
    BY <1>6 DEF CallFails, Failed
  <2>2. cur'[Poll] = None /\ cur'[Click] = None
    BY <2>1, CallEnds
  <2> QED
    BY <2>1, <2>2 DEF QueueInv, Goroutines
<1>7. ASSUME Dispatch PROVE QueueInv'
  <2>1. \/ Scans /\ Answer("status", tun)
        \/ Scans /\ Answer("profiles", active)
        \/ Scans /\ Answer("empty", None)
        \/ Scans /\ Answer("error", None)
    BY <1>7 DEF Dispatch, HandleRead, HandleChange, HandleRefused, GetStatus, ListProfiles
  <2>2. PICK r \in Reply : r.id = Head(reqs).id /\ reps' = Append(reps, r)
    BY <2>1, AnswerTyped DEF TypeInv
  <2>3. /\ UNCHANGED <<cur, lastId, stopping, timeouts>> /\ reqs # <<>> /\ ~stopping
        /\ reqs' = Tail(reqs)
    BY <2>1 DEF Scans, Answer
  <2>4. /\ InOrder(reps, reqs, lastId)
        /\ Busy => Lines(reps, reqs) = timeouts + 1
        /\ ~Busy => Lines(reps, reqs) = timeouts
    BY <2>3 DEF QueueInv
  <2>5. InOrder(Append(reps, r), Tail(reqs), lastId)
    BY <1>0, <2>2, <2>3, <2>4, AnsweredInOrder
  <2>6. InOrder(reps', reqs', lastId')
    BY <2>2, <2>3, <2>5 DEF InOrder, Place
  <2>7. Lines(reps', reqs') = Lines(reps, reqs)
    BY <1>0, <2>2, <2>3, LinesCount
  <2>8. Busy' = Busy
    BY <2>3 DEF Busy
  <2> QED
    BY <2>3, <2>4, <2>6, <2>7, <2>8 DEF QueueInv
<1> QED
  BY <1>1, <1>3, <1>4, <1>5, <1>6, <1>7 DEF Next, Client

(***************************************************************************)
(* A call of the tray is about to read the reply of the call that many     *)
(* calls before it as were given up (rpcClient.call does not compare ids), *)
(* for any number of calls given up: its own reply exactly while none was. *)
(***************************************************************************)
THEOREM RepliesAlwaysShift == Spec => []RepliesShiftByTimeouts
<1>1. Init => QueueInv
  <2> SUFFICES ASSUME Init PROVE QueueInv
    OBVIOUS
  <2>1. cur[Poll] = None /\ cur[Click] = None /\ reps = <<>> /\ reqs = <<>>
    BY PollIsNotClick DEF Init
  <2>2. ~Busy
    BY <2>1 DEF Busy, Goroutines
  <2>3. InOrder(reps, reqs, lastId)
    BY <2>1 DEF InOrder
  <2>4. Lines(reps, reqs) = 0
    <3>1. Lines(<<>>, <<>>) = 0
      BY DEF Lines
    <3> QED
      BY <2>1, <3>1
  <2>5. timeouts = 0
    BY DEF Init
  <2> QED
    BY <2>1, <2>2, <2>3, <2>4, <2>5 DEF QueueInv, Goroutines
<1>2. Spec => []TypeInv
  BY InitTyped, NextTyped, PTL DEF Spec
<1>3. TypeInv /\ QueueInv => RepliesShiftByTimeouts
  <2> SUFFICES ASSUME TypeInv, QueueInv, NEW g \in Goroutines, cur[g] # None, reps # <<>>
               PROVE  (cur[g].id - Head(reps).id) % IdSpace = timeouts
    BY DEF RepliesShiftByTimeouts
  <2>1. Busy /\ cur[g].id = lastId
    BY DEF Busy, QueueInv
  <2>2. /\ InOrder(reps, reqs, lastId)
        /\ Lines(reps, reqs) = timeouts + 1
    BY <2>1 DEF QueueInv
  <2>3. /\ lastId \in Int /\ timeouts \in 0..(IdSpace - 1) /\ reps \in Seq(Reply)
        /\ lastId - timeouts \in Int
    BY DEF TypeInv
  <2>4. Head(reps).id = (lastId - timeouts) % IdSpace
    <3>1. 1 \in 1..Len(reps) /\ Head(reps) = reps[1]
      BY <2>3
    <3>2. lastId - (timeouts + 1) + 1 = lastId - timeouts
      BY <2>3
    <3> QED
      BY <2>2, <3>1, <3>2 DEF InOrder, Place, Lines
  <2>5. (lastId - ((lastId - timeouts) % IdSpace)) % IdSpace = (lastId - (lastId - timeouts)) % IdSpace
    BY <2>3, ModAdd
  <2>6. lastId - (lastId - timeouts) = timeouts
    BY <2>3
  <2> QED
    BY <2>1, <2>3, <2>4, <2>5, <2>6, SmallMod
<1> QED
  BY <1>1, <1>2, <1>3, NextQueue, PTL DEF Spec

=============================================================================
