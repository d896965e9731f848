-------------------------- MODULE DaemonLegsProofs --------------------------
(***************************************************************************)
(* The safety properties of DaemonLegs for any number of connections,      *)
(* requests and bundles.                                                   *)
(***************************************************************************)
EXTENDS DaemonLegs, FiniteSetTheorems, TLAPS

USE LegsAssumption

(***************************************************************************)
(* What an actor still has to do, as a set.  Every program runs through    *)
(* its calls in the order of Rank and makes no call twice, so the call at  *)
(* its head is the one of least rank, and a step takes it out of the set.  *)
(* A tunDown that ends its handler on an error is told apart.              *)
(***************************************************************************)
Kind(c) == IF c.op = "tunDown" /\ c.abort THEN "tunDownAbort" ELSE c.op

Ops(p) == {Kind(p[i]) : i \in 1..Len(p)}

Rank(k) ==
    CASE k = "dnsRestore" -> 1
      [] k \in {"tunDown", "tunDownAbort"} -> 2
      [] k \in {"detach", "detachUnwant", "unwant", "attach", "reconnect"} -> 3
      [] k = "meshDisconnect" -> 4
      [] k = "meshClose" -> 5
      [] k \in {"adopt", "forget", "modeUp", "tunClose"} -> 6
      [] k = "tunUp" -> 7
      [] k = "dnsApply" -> 8
      [] k = "modeMeshUp" -> 9
      [] k = "meshEnsure" -> 10
      [] k = "want" -> 11
      [] k = "meshConfigure" -> 12
      [] OTHER -> 13

InRank(p) == \A i, j \in 1..Len(p) : i < j => Rank(Kind(p[i])) < Rank(Kind(p[j]))

Plan(p, S) == p \in Seq(CallRec) /\ InRank(p) /\ Ops(p) = S

Todo(a) == Ops(prog[a])

-----------------------------------------------------------------------------
(* Who makes which calls. *)
TearDown == {"dnsRestore", "tunDown", "detachUnwant", "meshDisconnect", "meshClose"}
Detach == {"detach", "detachUnwant"}
Start == {"meshStart", "starting"}

Fit(a, S) ==
    /\ a = Supervisor => S \subseteq {"reconnect", "meshConfigure", "meshStart", "starting"}
    /\ a = Main => S \subseteq {"dnsRestore", "tunDown", "detach", "meshDisconnect", "meshClose",
                                "tunClose"}
    /\ a # Main => "tunClose" \notin S
    /\ "tunDownAbort" \in S => S \subseteq {"dnsRestore", "tunDownAbort", "unwant", "meshDisconnect"}
    /\ "adopt" \in S => S \subseteq TearDown \cup {"adopt"}
    /\ "forget" \in S => S \subseteq TearDown \cup {"forget"}
    /\ S \cap Detach # {} =>
         S \cap {"meshDisconnect", "meshClose", "meshEnsure", "meshStart", "starting"} = {}
    /\ "attach" \in S => S \cap {"meshDisconnect", "meshEnsure", "meshStart", "starting"} = {}
    /\ "reconnect" \in S => S = {"reconnect"}
    /\ "modeUp" \in S => S \cap {"tunUp", "dnsApply"} = {}
    /\ "tunUp" \in S => "dnsApply" \notin S
    /\ "dnsApply" \in S => S \cap {"tunDown", "tunDownAbort", "tunClose"} = {}
    /\ "modeMeshUp" \in S =>
         S \cap {"meshEnsure", "want", "meshConfigure", "meshStart", "starting"} = {}

PlanInv ==
    /\ prog \in [Actors -> Seq(CallRec)]
    /\ \A a \in Actors : InRank(prog[a]) /\ Fit(a, Todo(a))

LocRec == [mesh : Nat \cup {None}, mode : Modes \cup {None},
           bundle : (SUBSET {"outer", "inner"}) \cup {None}]

LocInv ==
    /\ loc \in [Actors -> LocRec]
    /\ \A a \in Actors :
         /\ loc[a].mesh # None => loc[a].mesh <= made
         /\ "adopt" \in Todo(a) => loc[a].mode \in Modes /\ loc[a].bundle \in Bundles

DaemonInv ==
    /\ mode \in Modes
    /\ bundle \in Bundles \cup {None}
    /\ made \in Nat
    /\ handle # None => handle \in Nat /\ handle <= made
    /\ meshClient \in [Meshes -> Clients \cup {None}]
    /\ \A m \in Meshes : m > made => meshClient[m] = None
    /\ tunState # "closed" => tunOpen

(* While the histories are clean, at most one actor is at work. *)
SoloInv ==
    /\ ~crossed => \A a, b \in Handlers : Busy(a) /\ Busy(b) => a = b
    /\ ~crossed /\ ~raced => \A a, b \in Actors : Busy(a) /\ Busy(b) => a = b
    /\ Busy(Main) => stopped
    /\ stopped /\ ~crossed => \A c \in Conns : ~Busy(c)

Base == PlanInv /\ LocInv /\ DaemonInv /\ SoloInv

(***************************************************************************)
(* The outer leg: what is up that should not be, is still to be taken down *)
(* by the handler at work.                                                 *)
(***************************************************************************)
OuterFor(T) ==
    /\ "dnsApply" \in T => tunState = "up"
    /\ T \cap {"tunDown", "tunDownAbort", "tunClose"} # {} => dns # "applied" \/ "dnsRestore" \in T
    /\ T \cap {"tunUp", "dnsApply", "modeUp"} # {} => IncludesWGCP0(mode)
    /\ T \cap {"tunUp", "dnsApply"} # {} => bundle # None
    /\ T \cap {"adopt", "forget"} # {} =>
         /\ tunState = "up" => "tunDown" \in T
         /\ dns = "applied" => "dnsRestore" \in T

OuterInv ==
    ~crossed =>
        /\ dns = "applied" => tunState # "closed"
        /\ bundle = None => tunState # "up" /\ dns # "applied"
        /\ ~IncludesWGCP0(mode) =>
             /\ tunState = "up" => \E c \in Conns : "tunDown" \in Todo(c)
             /\ dns = "applied" => \E c \in Conns : "dnsRestore" \in Todo(c)
        /\ \A a \in Handlers : OuterFor(Todo(a))
        /\ stopped =>
             /\ dns = "applied" => "dnsRestore" \in Todo(Main)
             /\ tunState # "closed" \/ "tunDown" \in Todo(Main) => "tunClose" \in Todo(Main)

(***************************************************************************)
(* The inner leg: a client is held by the daemon's mesh, in a mode with    *)
(* one and with a bundle loaded, or the actor at work is about to stop it. *)
(***************************************************************************)
Stops(T, l, m) == T \cap Detach # {} \/ (l.mesh = m /\ "meshDisconnect" \in T)

Held(m) == meshClient[m] # None

MeshFor(T, l) ==
    /\ T \cap (Start \cup {"reconnect"}) # {} => IncludesNetbird(mode) /\ bundle # None
    /\ T \cap (Start \cup {"reconnect"}) # {} /\ "meshEnsure" \notin T => l.mesh = handle
    /\ "meshEnsure" \in T => handle = None
    /\ "modeMeshUp" \in T => IncludesNetbird(mode)
    /\ {"tunDownAbort", "meshDisconnect"} \subseteq T
         => l.mesh = handle /\ IncludesNetbird(mode)
    /\ "attach" \in T => \A m \in Meshes : ~Held(m)
    /\ T \cap {"adopt", "forget"} # {} => \A m \in Meshes : Held(m) => Stops(T, l, m)

Clean == ~crossed /\ ~raced /\ enabled # "bare"

MeshInv ==
    Clean =>
        /\ \A m \in Meshes : Held(m) =>
             \/ m = handle
             \/ \E a \in Actors : loc[a].mesh = m /\ "meshDisconnect" \in Todo(a)
        /\ ~IncludesNetbird(mode) =>
             \A m \in Meshes : Held(m) => \E a \in Actors : Stops(Todo(a), loc[a], m)
        /\ bundle = None => \A m \in Meshes : ~Held(m)
        /\ \A a \in Actors : MeshFor(Todo(a), loc[a])

DetachedInv == stopped /\ ~crossed => handle = None \/ "detach" \in Todo(Main)

-----------------------------------------------------------------------------
(* Programs. *)
LEMMA PlanEmpty == Plan(<<>>, {})
BY DEF Plan, InRank, Ops

LEMMA PlanOne == ASSUME NEW c \in CallRec PROVE Plan(<<c>>, {Kind(c)})
<1>1. <<c>> \in Seq(CallRec) /\ Len(<<c>>) = 1 /\ <<c>>[1] = c
  OBVIOUS
<1> QED
  BY <1>1 DEF Plan, InRank, Ops

LEMMA PlanTwo ==
    ASSUME NEW c \in CallRec, NEW d \in CallRec, Rank(Kind(c)) < Rank(Kind(d))
    PROVE  Plan(<<c, d>>, {Kind(c), Kind(d)})
<1>1. /\ <<c, d>> \in Seq(CallRec) /\ Len(<<c, d>>) = 2
      /\ <<c, d>>[1] = c /\ <<c, d>>[2] = d /\ 1..2 = {1, 2}
  OBVIOUS
<1>2. Ops(<<c, d>>) = {Kind(c), Kind(d)}
  BY <1>1 DEF Ops
<1>3. InRank(<<c, d>>)
  BY <1>1 DEF InRank
<1> QED
  BY <1>1, <1>2, <1>3 DEF Plan

LEMMA PlanWhen ==
    ASSUME NEW b, NEW p, NEW S, Plan(p, S)
    PROVE  Plan(When(b, p), IF b THEN S ELSE {})
BY PlanEmpty DEF When

LEMMA PlanCat ==
    ASSUME NEW p, NEW S, Plan(p, S), NEW q, NEW T, Plan(q, T),
           \A x \in S, y \in T : Rank(x) < Rank(y)
    PROVE  Plan(p \o q, S \cup T)
<1> DEFINE r == p \o q
<1>1. /\ p \in Seq(CallRec) /\ q \in Seq(CallRec) /\ r \in Seq(CallRec)
      /\ Len(p) \in Nat /\ Len(q) \in Nat /\ Len(r) = Len(p) + Len(q)
      /\ \A i \in 1..Len(p) : r[i] = p[i]
      /\ \A i \in 1..Len(r) : i > Len(p) => r[i] = q[i - Len(p)]
  BY DEF Plan
<1> HIDE DEF r
<1>2. \A i \in 1..Len(q) : r[i + Len(p)] = q[i] /\ i + Len(p) \in 1..Len(r)
  BY <1>1
<1>3. \A i \in 1..Len(r) : IF i \in 1..Len(p) THEN Kind(r[i]) \in S /\ r[i] = p[i]
                           ELSE /\ i - Len(p) \in 1..Len(q)
                                /\ Kind(r[i]) \in T /\ r[i] = q[i - Len(p)]
  BY <1>1 DEF Plan, Ops
<1>4. Ops(r) = S \cup T
  <2>1. \A x \in Ops(r) : x \in S \cup T
    BY <1>3 DEF Ops
  <2>2. \A x \in S : x \in Ops(r)
    BY <1>1 DEF Ops, Plan
  <2>3. \A x \in T : x \in Ops(r)
    BY <1>2 DEF Ops, Plan
  <2> QED
    BY <2>1, <2>2, <2>3
<1>5. ASSUME NEW i \in 1..Len(r), NEW j \in 1..Len(r), i < j
      PROVE  Rank(Kind(r[i])) < Rank(Kind(r[j]))
  <2>1. CASE j \in 1..Len(p)
    BY <1>1, <1>3, <1>5, <2>1 DEF Plan, InRank
  <2>2. CASE j \notin 1..Len(p) /\ i \in 1..Len(p)
    BY <1>3, <2>2
  <2>3. CASE i \notin 1..Len(p)
    <3>1. j \notin 1..Len(p) /\ i - Len(p) < j - Len(p)
      BY <1>1, <1>5, <2>3
    <3> QED
      BY <1>3, <2>3, <3>1 DEF Plan, InRank
  <2> QED
    BY <2>1, <2>2, <2>3
<1> QED
  BY <1>1, <1>4, <1>5 DEF Plan, InRank, r

(* The head of a program in rank order is its first call, and its tail is  *)
(* the rest.                                                               *)
LEMMA PlanTail ==
    ASSUME NEW p \in Seq(CallRec), InRank(p), p # <<>>
    PROVE  /\ Head(p) \in CallRec
           /\ Kind(Head(p)) \in Ops(p)
           /\ Plan(Tail(p), Ops(p) \ {Kind(Head(p))})
           /\ \A x \in Ops(p) \ {Kind(Head(p))} : Rank(Kind(Head(p))) < Rank(x)
<1> DEFINE t == Tail(p)
<1>1. /\ Len(p) \in Nat /\ Len(p) >= 1 /\ t \in Seq(CallRec) /\ Len(t) = Len(p) - 1
      /\ Head(p) = p[1] /\ 1 \in 1..Len(p) /\ p[1] \in CallRec
      /\ \A i \in 1..Len(t) : t[i] = p[i + 1] /\ i + 1 \in 1..Len(p)
  OBVIOUS
<1> HIDE DEF t
<1>2. \A i \in 1..Len(t) : Rank(Kind(p[1])) < Rank(Kind(t[i]))
  BY <1>1 DEF InRank
<1>3. InRank(t)
  BY <1>1 DEF InRank
<1>4. \A k : Rank(k) \in Nat
  BY DEF Rank
<1>5. \A i \in 1..Len(t) : Kind(t[i]) # Kind(p[1])
  BY <1>2, <1>4
<1>6. \A i \in 1..Len(p) : i = 1 \/ (i - 1 \in 1..Len(t) /\ t[i - 1] = p[i])
  BY <1>1
<1>7. Ops(t) = Ops(p) \ {Kind(p[1])}
  <2>1. \A x \in Ops(t) : x \in Ops(p) \ {Kind(p[1])}
    BY <1>1, <1>5 DEF Ops
  <2>2. \A x \in Ops(p) : x = Kind(p[1]) \/ x \in Ops(t)
    BY <1>6 DEF Ops
  <2> QED
    BY <2>1, <2>2
<1>8. Kind(p[1]) \in Ops(p)
  BY <1>1 DEF Ops
<1>9. \A x \in Ops(t) : Rank(Kind(p[1])) < Rank(x)
  BY <1>2 DEF Ops
<1> QED
  BY <1>1, <1>3, <1>7, <1>8, <1>9 DEF Plan, t

LEMMA NothingToDo == ASSUME NEW p \in Seq(CallRec) PROVE p = <<>> <=> Ops(p) = {}
<1>1. ASSUME p # <<>> PROVE Ops(p) # {}
  <2>1. 1 \in 1..Len(p)
    BY <1>1
  <2> QED
    BY <2>1 DEF Ops
<1> QED
  BY <1>1, PlanEmpty DEF Plan

LEMMA Ranks ==
    /\ Rank("dnsRestore") = 1
    /\ Rank("tunDown") = 2 /\ Rank("tunDownAbort") = 2
    /\ Rank("detach") = 3 /\ Rank("detachUnwant") = 3 /\ Rank("unwant") = 3
    /\ Rank("attach") = 3 /\ Rank("reconnect") = 3
    /\ Rank("meshDisconnect") = 4 /\ Rank("meshClose") = 5
    /\ Rank("adopt") = 6 /\ Rank("forget") = 6 /\ Rank("modeUp") = 6 /\ Rank("tunClose") = 6
    /\ Rank("tunUp") = 7 /\ Rank("dnsApply") = 8 /\ Rank("modeMeshUp") = 9
    /\ Rank("meshEnsure") = 10 /\ Rank("want") = 11 /\ Rank("meshConfigure") = 12
    /\ Rank("meshStart") = 13 /\ Rank("starting") = 13
BY DEF Rank

OpNames == {"tunUp", "tunDown", "tunClose", "dnsApply", "dnsRestore",
            "meshConfigure", "meshStart", "starting", "meshDisconnect", "meshClose",
            "meshEnsure", "want", "unwant", "detach", "detachUnwant", "attach",
            "modeUp", "modeMeshUp", "reconnect", "adopt", "forget"}

(* The calls the handlers make. *)
LEMMA Calls ==
    /\ \A op \in OpNames : Call(op) \in CallRec /\ Kind(Call(op)) = op
    /\ \A x, y \in BOOLEAN : TunUp(x, y) \in CallRec /\ Kind(TunUp(x, y)) = "tunUp"
    /\ TunDown(TRUE) \in CallRec /\ Kind(TunDown(TRUE)) = "tunDownAbort"
    /\ TunDown(FALSE) \in CallRec /\ Kind(TunDown(FALSE)) = "tunDown"
    /\ \A b \in BOOLEAN : MeshStart(b) \in CallRec /\ Kind(MeshStart(b)) = "meshStart"
BY DEF CallRec, OpNames, Call, TunUp, TunDown, MeshStart, Kind

LEMMA FitLess == ASSUME NEW a, NEW S, Fit(a, S), NEW R \in SUBSET S PROVE Fit(a, R)
BY DEF Fit, Detach

(* Actor a is left with S to do and the locals l, the others as they were. *)
Moves(a, S, l) ==
    /\ \A b \in Actors : Todo(b)' = IF b = a THEN S ELSE Todo(b)
    /\ \A b \in Actors : loc'[b] = IF b = a THEN (IF S = {} THEN NoLoc ELSE l) ELSE loc[b]
    /\ loc' \in [Actors -> {loc'[b] : b \in Actors}]

(* A program that is replaced or goes on: who has what left to do. *)
LEMMA Becomes ==
    ASSUME PlanInv, LocInv, NEW a \in Actors, NEW p, NEW l, NEW S, Plan(p, S), Fit(a, S),
           Become(a, p, l)
    PROVE  PlanInv' /\ Moves(a, S, l)
<1>1. p \in Seq(CallRec) /\ (p = <<>> <=> S = {})
  BY NothingToDo DEF Plan
<1>2. \A b \in Actors : Ops(prog'[b]) = IF b = a THEN S ELSE Todo(b)
  BY <1>1 DEF PlanInv, Plan, Todo, Become
<1>3. prog' \in [Actors -> Seq(CallRec)] /\ \A b \in Actors : InRank(prog'[b])
  BY <1>1 DEF PlanInv, Plan, Become
<1>4. \A b \in Actors : Fit(b, Ops(prog'[b]))
  BY <1>2 DEF PlanInv
<1>5. PlanInv'
  BY <1>3, <1>4 DEF PlanInv, Todo
<1>6. /\ \A b \in Actors : loc'[b] = IF b = a THEN (IF S = {} THEN NoLoc ELSE l) ELSE loc[b]
      /\ loc' \in [Actors -> {loc'[b] : b \in Actors}]
  BY <1>1 DEF LocInv, Become
<1> QED
  BY <1>2, <1>5, <1>6 DEF Todo, Moves

(* The call an actor is at is the first of what it has to do. *)
LEMMA AtHead ==
    ASSUME PlanInv, NEW a \in Actors, NEW op, op # "tunDown", At(a, op)
    PROVE  /\ Head(prog[a]) \in CallRec
           /\ op \in Todo(a)
           /\ Plan(Tail(prog[a]), Todo(a) \ {op})
           /\ \A x \in Todo(a) \ {op} : Rank(op) < Rank(x)
           /\ Fit(a, Todo(a) \ {op})
<1>1. /\ Kind(Head(prog[a])) = op /\ prog[a] # <<>> /\ prog[a] \in Seq(CallRec)
      /\ InRank(prog[a]) /\ Fit(a, Todo(a))
  BY DEF PlanInv, At, Busy, Kind
<1>2. /\ Head(prog[a]) \in CallRec
      /\ op \in Todo(a)
      /\ Plan(Tail(prog[a]), Todo(a) \ {op})
      /\ \A x \in Todo(a) \ {op} : Rank(op) < Rank(x)
  BY <1>1, PlanTail DEF Todo
<1> QED
  BY <1>1, <1>2, FitLess

LEMMA AtTunDown ==
    ASSUME PlanInv, NEW a \in Actors, At(a, "tunDown")
    PROVE  \E k \in {"tunDown", "tunDownAbort"} :
             /\ Head(prog[a]).abort => k = "tunDownAbort"
             /\ k \in Todo(a)
             /\ Plan(Tail(prog[a]), Todo(a) \ {k})
             /\ \A x \in Todo(a) \ {k} : Rank(k) < Rank(x)
             /\ Fit(a, Todo(a) \ {k})
<1>1. /\ Head(prog[a]).abort => Kind(Head(prog[a])) = "tunDownAbort"
      /\ Kind(Head(prog[a])) \in {"tunDown", "tunDownAbort"}
      /\ prog[a] # <<>> /\ prog[a] \in Seq(CallRec)
      /\ InRank(prog[a]) /\ Fit(a, Todo(a))
  BY DEF PlanInv, At, Busy, Kind
<1>2. PICK k \in {"tunDown", "tunDownAbort"} : k = Kind(Head(prog[a]))
  BY <1>1
<1>3. /\ k \in Todo(a)
      /\ Plan(Tail(prog[a]), Todo(a) \ {k})
      /\ \A x \in Todo(a) \ {k} : Rank(k) < Rank(x)
  BY <1>1, <1>2, PlanTail DEF Todo
<1>4. Fit(a, Todo(a) \ {k})
  BY <1>1, FitLess
<1>5. Head(prog[a]).abort => k = "tunDownAbort"
  BY <1>1, <1>2
<1> QED
  BY <1>3, <1>4, <1>5

(* A step that only makes its call. *)
LEMMA Pops ==
    ASSUME PlanInv, LocInv, NEW a \in Actors, NEW op, op # "tunDown", At(a, op), Proceed(a)
    PROVE  /\ PlanInv'
           /\ op \in Todo(a)
           /\ \A x \in Todo(a) \ {op} : Rank(op) < Rank(x)
           /\ \E S, l : S = Todo(a) \ {op} /\ l = loc[a] /\ Moves(a, S, l)
<1>1. PICK p, S, l : p = Tail(prog[a]) /\ S = Todo(a) \ {op} /\ l = loc[a]
  OBVIOUS
<1>2. /\ op \in Todo(a) /\ Plan(p, S) /\ Fit(a, S)
      /\ \A x \in S : Rank(op) < Rank(x)
  BY <1>1, AtHead
<1>3. Become(a, p, l)
  BY <1>1 DEF Proceed, Become
<1>4. PlanInv' /\ Moves(a, S, l)
  BY <1>2, <1>3, Becomes
<1> QED
  BY <1>1, <1>2, <1>4

LEMMA KnownCalls ==
    ASSUME PlanInv, NEW a \in Actors
    PROVE  \A x \in Todo(a) : x \in OpNames \cup {"tunDownAbort"}
<1>1. \A c \in CallRec : Kind(c) \in OpNames \cup {"tunDownAbort"}
  BY DEF CallRec, Kind, OpNames
<1>2. prog[a] \in Seq(CallRec) /\ \A i \in 1..Len(prog[a]) : prog[a][i] \in CallRec
  BY DEF PlanInv
<1> QED
  BY <1>1, <1>2 DEF Todo, Ops

LEMMA BusyTodo == ASSUME PlanInv PROVE \A a \in Actors : Busy(a) <=> Todo(a) # {}
BY NothingToDo DEF PlanInv, Busy, Todo

-----------------------------------------------------------------------------
(* What each call leaves its actor with. *)

LEMMA TunUpMoves ==
    ASSUME PlanInv, LocInv, NEW a \in Actors, DoTunUp(a)
    PROVE  /\ PlanInv'
           /\ "tunUp" \in Todo(a)
           /\ \A x \in Todo(a) \ {"tunUp"} : Rank("tunUp") < Rank(x)
           /\ \E S, l :
                /\ l = loc[a] /\ Moves(a, S, l)
                /\ \/ /\ tunState' = "up" /\ tunOpen'
                      /\ \/ S = Todo(a) \ {"tunUp"}
                         \/ S = (Todo(a) \ {"tunUp"}) \cup {"dnsApply"}
                   \/ /\ tunState' = "error" /\ tunOpen'
                      /\ S \in {{}, Todo(a) \ {"tunUp"}}
                   \/ UNCHANGED tunVars /\ S = {}
<1> DEFINE T == Todo(a) \ {"tunUp"}
           p == Tail(prog[a])
<1>1. /\ "tunUp" \in Todo(a) /\ Plan(p, T) /\ Fit(a, T) /\ At(a, "tunUp")
      /\ \A x \in T : Rank("tunUp") < Rank(x)
  BY AtHead DEF DoTunUp
<1>2. Fit(a, Todo(a)) /\ Fit(a, {})
  BY FitLess DEF PlanInv
<1>3. Plan(<<Call("dnsApply")>> \o p, {"dnsApply"} \cup T)
  <2>1. \A y \in T : Rank("dnsApply") < Rank(y)
    <3>1. "dnsApply" \notin T
      BY <1>1, <1>2 DEF Fit
    <3> QED
      BY <1>1, <3>1 DEF Rank
  <2>2. Plan(<<Call("dnsApply")>>, {"dnsApply"})
    BY PlanOne, Calls DEF OpNames
  <2> QED
    BY <1>1, <2>1, <2>2, PlanCat
<1>4. Fit(a, {"dnsApply"} \cup T)
  BY <1>1, <1>2, Ranks DEF Fit, Detach, TearDown
<1>5. PICK l, c, r, q : l = loc[a] /\ c = Head(prog[a]) /\ r = p /\ q = <<Call("dnsApply")>> \o r
  OBVIOUS
<1>6. /\ <<>> \o r = r
      /\ Plan(r, T) /\ Plan(q, {"dnsApply"} \cup T) /\ Plan(<<>>, {})
  BY <1>1, <1>3, <1>5, PlanEmpty DEF Plan
<1>7. \/ tunState' = "up" /\ tunOpen' /\ (Become(a, r, l) \/ Become(a, q, l))
      \/ tunState' = "error" /\ tunOpen' /\ (Become(a, r, l) \/ Become(a, <<>>, l))
      \/ UNCHANGED tunVars /\ Become(a, <<>>, l)
  BY <1>5, <1>6 DEF DoTunUp, Become, When
<1>8. PICK U, V : U = T /\ V = {"dnsApply"} \cup T
  OBVIOUS
<1>9. /\ Become(a, r, l) => PlanInv' /\ Moves(a, U, l)
      /\ Become(a, q, l) => PlanInv' /\ Moves(a, V, l)
      /\ Become(a, <<>>, l) => PlanInv' /\ Moves(a, {}, l)
  BY <1>1, <1>2, <1>4, <1>6, <1>8, Becomes
<1> QED
  BY <1>1, <1>5, <1>7, <1>8, <1>9

LEMMA TunDownMoves ==
    ASSUME PlanInv, LocInv, NEW a \in Actors, DoTunDown(a)
    PROVE  /\ PlanInv'
           /\ \E k, S, l :
                /\ k \in {"tunDown", "tunDownAbort"} /\ k \in Todo(a)
                /\ \A x \in Todo(a) \ {k} : Rank(k) < Rank(x)
                /\ l = loc[a] /\ Moves(a, S, l)
                /\ \/ tunState' = "closed" /\ S = Todo(a) \ {k}
                   \/ /\ tunState' = "error" /\ tunOpen
                      /\ S = Todo(a) \ {k} \/ (S = {} /\ k = "tunDownAbort")
<1>1. PICK k \in {"tunDown", "tunDownAbort"} :
             /\ Head(prog[a]).abort => k = "tunDownAbort"
             /\ k \in Todo(a)
             /\ Plan(Tail(prog[a]), Todo(a) \ {k})
             /\ \A x \in Todo(a) \ {k} : Rank(k) < Rank(x)
             /\ Fit(a, Todo(a) \ {k})
  BY AtTunDown DEF DoTunDown
<1>2. PICK l, r, T : l = loc[a] /\ r = Tail(prog[a]) /\ T = Todo(a) \ {k}
  OBVIOUS
<1>3. Plan(r, T) /\ Fit(a, T) /\ Plan(<<>>, {}) /\ Fit(a, {})
  BY <1>1, <1>2, PlanEmpty, FitLess
<1>4. \/ tunState' = "closed" /\ Become(a, r, l)
      \/ tunState' = "error" /\ tunOpen /\ Become(a, r, l)
      \/ tunState' = "error" /\ tunOpen /\ Become(a, <<>>, l) /\ k = "tunDownAbort"
  BY <1>1, <1>2 DEF DoTunDown, Become, Proceed
<1>5. /\ Become(a, r, l) => PlanInv' /\ Moves(a, T, l)
      /\ Become(a, <<>>, l) => PlanInv' /\ Moves(a, {}, l)
  BY <1>3, Becomes
<1> QED
  BY <1>1, <1>2, <1>4, <1>5

(* A step that makes its call and puts others, those of q, in its place. *)
LEMMA Pushes ==
    ASSUME PlanInv, LocInv, NEW a \in Actors, NEW op, op # "tunDown", At(a, op),
           NEW q, NEW Q, Plan(q, Q), \A x \in Q, y \in Todo(a) \ {op} : Rank(x) < Rank(y),
           Fit(a, Q \cup (Todo(a) \ {op})), NEW l,
           prog' = [prog EXCEPT ![a] = q \o Tail(prog[a])],
           loc' = [loc EXCEPT ![a] = IF q \o Tail(prog[a]) = <<>> THEN NoLoc ELSE l]
    PROVE  /\ PlanInv'
           /\ op \in Todo(a)
           /\ \A x \in Todo(a) \ {op} : Rank(op) < Rank(x)
           /\ \E S : S = Q \cup (Todo(a) \ {op}) /\ Moves(a, S, l)
<1>1. /\ op \in Todo(a) /\ Plan(Tail(prog[a]), Todo(a) \ {op})
      /\ \A x \in Todo(a) \ {op} : Rank(op) < Rank(x)
  BY AtHead
<1>2. PICK p, S : p = q \o Tail(prog[a]) /\ S = Q \cup (Todo(a) \ {op})
  OBVIOUS
<1>3. Plan(p, S) /\ Fit(a, S)
  BY <1>1, <1>2, PlanCat
<1>4. Become(a, p, l)
  BY <1>2 DEF Become
<1>5. PlanInv' /\ Moves(a, S, l)
  BY <1>3, <1>4, Becomes
<1> QED
  BY <1>1, <1>2, <1>5

LEMMA MeshUpPlan ==
    ASSUME NEW b \in BOOLEAN
    PROVE  Plan(MeshUp(b), {"meshConfigure", "meshStart"})
<1>1. /\ Call("meshConfigure") \in CallRec /\ Kind(Call("meshConfigure")) = "meshConfigure"
      /\ MeshStart(b) \in CallRec /\ Kind(MeshStart(b)) = "meshStart"
  BY Calls DEF OpNames
<1> QED
  BY <1>1, PlanTwo, Ranks DEF MeshUp

LEMMA MeshStartMoves ==
    ASSUME PlanInv, LocInv, NEW a \in Actors, DoMeshStart(a)
    PROVE  /\ PlanInv'
           /\ Todo(a) = {"meshStart"}
           /\ \E S, l : l = loc[a] /\ Moves(a, S, l) /\ S \in {{}, {"starting"}}
<1>1. /\ At(a, "meshStart") /\ "meshStart" \in Todo(a)
      /\ \A x \in Todo(a) \ {"meshStart"} : Rank("meshStart") < Rank(x)
      /\ Plan(Tail(prog[a]), Todo(a) \ {"meshStart"}) /\ Head(prog[a]) \in CallRec
      /\ Fit(a, Todo(a))
  BY AtHead DEF DoMeshStart, PlanInv
<1>2. Todo(a) = {"meshStart"}
  BY <1>1 DEF Rank
<1>3. PICK q, l : /\ q = <<[Head(prog[a]) EXCEPT !.op = "starting"]>> \o Tail(prog[a])
                  /\ l = loc[a]
  OBVIOUS
<1>4. Proceed(a) \/ Become(a, q, l)
  BY <1>3 DEF DoMeshStart, Become
<1>5. Plan(q, {"starting"})
  <2>1. PICK c \in CallRec : c = [Head(prog[a]) EXCEPT !.op = "starting"]
    BY <1>1 DEF CallRec
  <2>2. Kind(c) = "starting"
    BY <1>1, <2>1 DEF Kind, CallRec
  <2>3. Plan(Tail(prog[a]), {})
    BY <1>1, <1>2
  <2>4. Plan(<<c>> \o Tail(prog[a]), {"starting"} \cup {})
    BY <2>2, <2>3, PlanOne, PlanCat
  <2> QED
    BY <1>3, <2>1, <2>4
<1>6. Fit(a, {"starting"})
  BY <1>1, <1>2 DEF Fit, TearDown, Detach
<1>7. Become(a, q, l) => PlanInv' /\ Moves(a, {"starting"}, l)
  BY <1>5, <1>6, Becomes
<1>8. ASSUME Proceed(a) PROVE PlanInv' /\ \E S, m : S = {} /\ m = loc[a] /\ Moves(a, S, m)
  BY <1>1, <1>2, <1>8, Pops
<1> QED
  BY <1>2, <1>3, <1>4, <1>7, <1>8

LEMMA DetachMoves ==
    ASSUME PlanInv, LocInv, NEW a \in Actors, NEW op \in Detach, At(a, op), DoDetach(a)
    PROVE  /\ PlanInv'
           /\ op \in Todo(a)
           /\ \A x \in Todo(a) \ {op} : Rank(op) < Rank(x)
           /\ \E S, l :
                /\ S = (IF handle = None THEN {} ELSE {"meshDisconnect", "meshClose"})
                         \cup (Todo(a) \ {op})
                /\ l = [loc[a] EXCEPT !.mesh = handle]
                /\ Moves(a, S, l)
<1>1. /\ op \in Todo(a) /\ \A x \in Todo(a) \ {op} : Rank(op) < Rank(x)
      /\ Fit(a, Todo(a)) /\ op # "tunDown" /\ Rank(op) = 3
  BY AtHead, Ranks DEF Detach, PlanInv
<1>2. PICK q, Q, l : /\ q = DetachCalls(handle)
                     /\ Q = IF handle = None THEN {} ELSE {"meshDisconnect", "meshClose"}
                     /\ l = [loc[a] EXCEPT !.mesh = handle]
  OBVIOUS
<1>3. Plan(q, Q)
  <2>1. Plan(<<Call("meshDisconnect"), Call("meshClose")>>, {"meshDisconnect", "meshClose"})
    BY Calls, PlanTwo, Ranks DEF OpNames
  <2> QED
    BY <1>2, <2>1, PlanEmpty DEF DetachCalls, When
<1>4. \A x \in Q, y \in Todo(a) \ {op} : Rank(x) < Rank(y)
  <2>1. \A y \in Todo(a) \ {op} : y \notin {"meshDisconnect", "meshClose"}
    BY <1>1 DEF Fit, Detach
  <2> QED
    BY <1>1, <1>2, <2>1 DEF Rank
<1>5. Fit(a, Q \cup (Todo(a) \ {op}))
  <2>1. \A y \in Todo(a) \ {op} : y \notin Detach \cup {"tunDownAbort", "reconnect", "attach"}
    BY <1>1, Ranks DEF Detach
  <2> QED
    BY <1>1, <1>2, <2>1 DEF Fit, Detach, TearDown
<1>6. /\ prog' = [prog EXCEPT ![a] = q \o Tail(prog[a])]
      /\ loc' = [loc EXCEPT ![a] = IF q \o Tail(prog[a]) = <<>> THEN NoLoc ELSE l]
  BY <1>2 DEF DoDetach, Become
<1>7. PlanInv' /\ \E S : S = Q \cup (Todo(a) \ {op}) /\ Moves(a, S, l)
  BY <1>1, <1>3, <1>4, <1>5, <1>6, Pushes
<1> QED
  BY <1>1, <1>2, <1>7

LEMMA ModeUpMoves ==
    ASSUME PlanInv, LocInv, NEW a \in Actors, DoModeUp(a)
    PROVE  /\ PlanInv'
           /\ "modeUp" \in Todo(a)
           /\ \A x \in Todo(a) \ {"modeUp"} : Rank("modeUp") < Rank(x)
           /\ \E S, l :
                /\ \/ S = Todo(a) \ {"modeUp"}
                   \/ S = {"tunUp"} \cup (Todo(a) \ {"modeUp"}) /\ bundle # None
                /\ l = loc[a] /\ Moves(a, S, l)
<1>1. /\ "modeUp" \in Todo(a) /\ \A x \in Todo(a) \ {"modeUp"} : Rank("modeUp") < Rank(x)
      /\ Fit(a, Todo(a)) /\ At(a, "modeUp") /\ Fit(a, Todo(a) \ {"modeUp"})
  BY AtHead DEF PlanInv, DoModeUp
<1>2. PICK q, Q, l :
        /\ q = When(bundle # None /\ HasOuter(bundle), <<TunUp(FALSE, FALSE)>>)
        /\ Q = IF bundle # None /\ HasOuter(bundle) THEN {"tunUp"} ELSE {}
        /\ l = loc[a]
  OBVIOUS
<1>3. Plan(q, Q)
  <2>1. Plan(<<TunUp(FALSE, FALSE)>>, {"tunUp"})
    BY Calls, PlanOne
  <2> QED
    BY <1>2, <2>1, PlanEmpty DEF When
<1>4. \A x \in Q, y \in Todo(a) \ {"modeUp"} : Rank(x) < Rank(y)
  <2>1. \A y \in Todo(a) \ {"modeUp"} : y # "tunUp"
    BY <1>1 DEF Fit
  <2> QED
    BY <1>1, <1>2, <2>1 DEF Rank
<1>5. Fit(a, Q \cup (Todo(a) \ {"modeUp"}))
  BY <1>1, <1>2 DEF Fit, Detach, TearDown
<1>6. /\ prog' = [prog EXCEPT ![a] = q \o Tail(prog[a])]
      /\ loc' = [loc EXCEPT ![a] = IF q \o Tail(prog[a]) = <<>> THEN NoLoc ELSE l]
  BY <1>2 DEF DoModeUp, Become
<1>7. PlanInv' /\ \E S : S = Q \cup (Todo(a) \ {"modeUp"}) /\ Moves(a, S, l)
  BY <1>1, <1>3, <1>4, <1>5, <1>6, Pushes
<1> QED
  BY <1>1, <1>2, <1>7

LEMMA ModeMeshUpMoves ==
    ASSUME PlanInv, LocInv, NEW a \in Actors, DoModeMeshUp(a)
    PROVE  /\ PlanInv'
           /\ Todo(a) = {"modeMeshUp"}
           /\ \E S, l :
                /\ \/ S = {}
                   \/ S = {"meshConfigure", "meshStart"} /\ handle # None /\ bundle # None
                /\ l = [loc[a] EXCEPT !.mesh = handle, !.bundle = bundle]
                /\ Moves(a, S, l)
<1>1. /\ "modeMeshUp" \in Todo(a) /\ Fit(a, Todo(a)) /\ At(a, "modeMeshUp")
      /\ \A x \in Todo(a) \ {"modeMeshUp"} : Rank("modeMeshUp") < Rank(x)
  BY AtHead DEF PlanInv, DoModeMeshUp
<1>2. Todo(a) = {"modeMeshUp"}
  <2>1. \A x \in Todo(a) :
          x \notin {"meshEnsure", "want", "meshConfigure", "meshStart", "starting"}
    BY <1>1 DEF Fit
  <2> QED
    BY <1>1, <2>1, KnownCalls, Ranks DEF OpNames
<1>3. PICK q, Q, l :
        /\ q = When(handle # None /\ bundle # None, MeshUp(FALSE))
        /\ Q = IF handle # None /\ bundle # None THEN {"meshConfigure", "meshStart"} ELSE {}
        /\ l = [loc[a] EXCEPT !.mesh = handle, !.bundle = bundle]
  OBVIOUS
<1>4. Plan(q, Q)
  BY <1>3, MeshUpPlan, PlanEmpty DEF When
<1>5. Fit(a, Q \cup (Todo(a) \ {"modeMeshUp"}))
  BY <1>1, <1>2, <1>3 DEF Fit, Detach, TearDown
<1>6. /\ prog' = [prog EXCEPT ![a] = q \o Tail(prog[a])]
      /\ loc' = [loc EXCEPT ![a] = IF q \o Tail(prog[a]) = <<>> THEN NoLoc ELSE l]
  BY <1>3 DEF DoModeMeshUp, Become
<1>7. \A x \in Q, y \in Todo(a) \ {"modeMeshUp"} : Rank(x) < Rank(y)
  BY <1>2
<1>8. PlanInv' /\ \E S : S = Q \cup (Todo(a) \ {"modeMeshUp"}) /\ Moves(a, S, l)
  BY <1>1, <1>4, <1>5, <1>6, <1>7, Pushes
<1> QED
  BY <1>2, <1>3, <1>8

LEMMA ReconnectMoves ==
    ASSUME PlanInv, LocInv, NEW a \in Actors, DoReconnect(a)
    PROVE  /\ PlanInv'
           /\ Todo(a) = {"reconnect"}
           /\ \E S, l :
                /\ S \in {{}, {"meshConfigure", "meshStart"},
                          {"meshDisconnect", "meshConfigure", "meshStart"}}
                /\ l = loc[a] /\ Moves(a, S, l)
<1>1. Todo(a) = {"reconnect"} /\ Fit(a, Todo(a))
  BY AtHead DEF PlanInv, DoReconnect, Fit
<1>2. PICK u, q, l : /\ u = MeshUp(TRUE) /\ q = <<Call("meshDisconnect")>> \o MeshUp(FALSE)
                     /\ l = loc[a]
  OBVIOUS
<1>3. /\ Plan(u, {"meshConfigure", "meshStart"})
      /\ Plan(q, {"meshDisconnect", "meshConfigure", "meshStart"})
      /\ Plan(<<>>, {})
  <2>1. Plan(<<Call("meshDisconnect")>>, {"meshDisconnect"})
    BY Calls, PlanOne DEF OpNames
  <2>2. /\ Plan(MeshUp(TRUE), {"meshConfigure", "meshStart"})
        /\ Plan(MeshUp(FALSE), {"meshConfigure", "meshStart"})
    BY MeshUpPlan
  <2>3. Plan(<<Call("meshDisconnect")>> \o MeshUp(FALSE),
             {"meshDisconnect"} \cup {"meshConfigure", "meshStart"})
    <3>1. \A x \in {"meshDisconnect"}, y \in {"meshConfigure", "meshStart"} : Rank(x) < Rank(y)
      BY Ranks
    <3> QED
      BY <2>1, <2>2, <3>1, PlanCat
  <2> QED
    BY <1>2, <2>2, <2>3, PlanEmpty
<1>4. /\ Fit(a, {"meshConfigure", "meshStart"}) /\ Fit(a, {})
      /\ a # Supervisor => Fit(a, {"meshDisconnect", "meshConfigure", "meshStart"})
  BY <1>1 DEF Fit, Detach, TearDown
<1>5. Become(a, <<>>, l) \/ Become(a, u, l) \/ (Become(a, q, l) /\ a # Supervisor)
  BY <1>2 DEF DoReconnect, Become
<1>6. Become(a, <<>>, l) => PlanInv' /\ Moves(a, {}, l)
  BY <1>3, <1>4, Becomes
<1>7. Become(a, u, l) => PlanInv' /\ Moves(a, {"meshConfigure", "meshStart"}, l)
  BY <1>3, <1>4, Becomes
<1>8. Become(a, q, l) /\ a # Supervisor =>
        PlanInv' /\ Moves(a, {"meshDisconnect", "meshConfigure", "meshStart"}, l)
  BY <1>3, <1>4, Becomes
<1>9. /\ PlanInv'
      /\ \/ Moves(a, {}, l)
         \/ Moves(a, {"meshConfigure", "meshStart"}, l)
         \/ Moves(a, {"meshDisconnect", "meshConfigure", "meshStart"}, l)
  BY <1>5, <1>6, <1>7, <1>8
<1>10. \E S \in {{}, {"meshConfigure", "meshStart"},
                 {"meshDisconnect", "meshConfigure", "meshStart"}} : Moves(a, S, l)
  BY <1>9, Zenon
<1> QED
  BY <1>1, <1>2, <1>9, <1>10

LEMMA AdoptMoves ==
    ASSUME PlanInv, LocInv, NEW a \in Actors, DoAdopt(a)
    PROVE  /\ PlanInv'
           /\ Todo(a) = {"adopt"}
           /\ \E S, l :
                /\ S = (IF IncludesWGCP0(mode') /\ HasOuter(bundle') THEN {"tunUp"} ELSE {})
                       \cup (IF IncludesNetbird(mode') THEN {"meshConfigure", "meshStart"} ELSE {})
                /\ l = [loc[a] EXCEPT !.mesh = handle'] /\ Moves(a, S, l)
<1>1. Todo(a) = {"adopt"} /\ Fit(a, Todo(a))
  <2>1. /\ "adopt" \in Todo(a) /\ Fit(a, Todo(a))
        /\ \A x \in Todo(a) \ {"adopt"} : Rank("adopt") < Rank(x)
    BY AtHead DEF PlanInv, DoAdopt
  <2> QED
    BY <2>1, Ranks DEF Fit, TearDown
<1>2. PICK q, r, Q, R, l :
        /\ q = When(IncludesWGCP0(mode') /\ HasOuter(bundle'), <<TunUp(FALSE, TRUE)>>)
        /\ Q = IF IncludesWGCP0(mode') /\ HasOuter(bundle') THEN {"tunUp"} ELSE {}
        /\ r = When(IncludesNetbird(mode'), MeshUp(FALSE))
        /\ R = IF IncludesNetbird(mode') THEN {"meshConfigure", "meshStart"} ELSE {}
        /\ l = [loc[a] EXCEPT !.mesh = handle']
  OBVIOUS
<1>3. Plan(q, Q) /\ Plan(r, R)
  <2>1. Plan(<<TunUp(FALSE, TRUE)>>, {"tunUp"})
    BY Calls, PlanOne
  <2> QED
    BY <1>2, <2>1, MeshUpPlan, PlanEmpty DEF When
<1>4. Plan(q \o r, Q \cup R)
  <2>1. \A x \in Q, y \in R : Rank(x) < Rank(y)
    BY <1>2, Ranks
  <2> QED
    BY <1>3, <2>1, PlanCat
<1>5. Fit(a, Q \cup R)
  BY <1>1, <1>2 DEF Fit, Detach, TearDown
<1>6. PICK p, S : p = q \o r /\ S = Q \cup R
  OBVIOUS
<1>7. Become(a, p, l)
  BY <1>2, <1>6 DEF DoAdopt, Become
<1>8. PlanInv' /\ Moves(a, S, l)
  BY <1>4, <1>5, <1>6, <1>7, Becomes
<1> QED
  BY <1>1, <1>2, <1>6, <1>8

LEMMA MeshEnsureMoves ==
    ASSUME PlanInv, LocInv, NEW a \in Actors, DoMeshEnsure(a)
    PROVE  /\ PlanInv'
           /\ "meshEnsure" \in Todo(a)
           /\ \A x \in Todo(a) \ {"meshEnsure"} : Rank("meshEnsure") < Rank(x)
           /\ \E S, l : /\ S = Todo(a) \ {"meshEnsure"} /\ l = [loc[a] EXCEPT !.mesh = handle']
                        /\ Moves(a, S, l)
<1>1. /\ "meshEnsure" \in Todo(a) /\ Fit(a, Todo(a) \ {"meshEnsure"})
      /\ \A x \in Todo(a) \ {"meshEnsure"} : Rank("meshEnsure") < Rank(x)
      /\ Plan(Tail(prog[a]), Todo(a) \ {"meshEnsure"})
  BY AtHead DEF DoMeshEnsure
<1>2. PICK p, S, l : /\ p = Tail(prog[a]) /\ S = Todo(a) \ {"meshEnsure"}
                     /\ l = [loc[a] EXCEPT !.mesh = handle']
  OBVIOUS
<1>3. Become(a, p, l) /\ Plan(p, S) /\ Fit(a, S)
  BY <1>1, <1>2 DEF DoMeshEnsure, Become
<1>4. PlanInv' /\ Moves(a, S, l)
  BY <1>3, Becomes
<1> QED
  BY <1>1, <1>2, <1>4

-----------------------------------------------------------------------------
LEMMA LocRecord ==
    ASSUME NEW x \in Nat \cup {None}, NEW y \in Modes \cup {None},
           NEW z \in (SUBSET {"outer", "inner"}) \cup {None}
    PROVE  [mesh |-> x, mode |-> y, bundle |-> z] \in LocRec
BY DEF LocRec

(* The locals stay typed, and a step of an actor at work adds none. *)
LEMMA StepCore ==
    ASSUME Base, PlanInv', NEW a \in Actors, Todo(a) # {}, NEW S, NEW l, Moves(a, S, l),
           l \in LocRec, made' \in Nat, made <= made', l.mesh # None => l.mesh <= made',
           "adopt" \in S => "adopt" \in Todo(a) /\ l.mode = loc[a].mode /\ l.bundle = loc[a].bundle,
           UNCHANGED <<stopped, crossed, raced>>
    PROVE  LocInv' /\ SoloInv'
<1>1. NoLoc \in LocRec /\ NoLoc.mesh = None
  BY LocRecord DEF NoLoc
<1>2. \A b \in Actors : loc'[b] \in LocRec
  BY <1>1 DEF Moves, Base, LocInv
<1>3. loc' \in [Actors -> LocRec]
  BY <1>2 DEF Moves
<1>4. ASSUME NEW b \in Actors PROVE loc'[b].mesh # None => loc'[b].mesh <= made'
  <2>1. loc'[b] = l \/ loc'[b] = NoLoc \/ loc'[b] = loc[b]
    BY DEF Moves
  <2>2. made \in Nat /\ (loc[b].mesh # None => loc[b].mesh <= made) /\ loc[b].mesh \in Nat \cup {None}
    BY DEF Base, LocInv, DaemonInv, LocRec
  <2> QED
    BY <1>1, <2>1, <2>2
<1>5. ASSUME NEW b \in Actors, "adopt" \in Todo(b)'
      PROVE  loc'[b].mode \in Modes /\ loc'[b].bundle \in Bundles
  <2>1. CASE b = a
    BY <1>5, <2>1 DEF Moves, Base, LocInv
  <2>2. CASE b # a
    BY <1>5, <2>2 DEF Moves, Base, LocInv
  <2> QED
    BY <2>1, <2>2
<1>6. LocInv'
  BY <1>3, <1>4, <1>5 DEF LocInv
<1>7. \A b \in Actors : Busy(b)' => Busy(b)
  <2>1. \A b \in Actors : Busy(b) <=> Todo(b) # {}
    BY BusyTodo DEF Base
  <2>2. \A b \in Actors : Busy(b)' <=> Todo(b)' # {}
    BY NothingToDo DEF PlanInv, Busy, Todo
  <2> QED
    BY <2>1, <2>2 DEF Moves
<1>8. SoloInv'
  BY <1>7 DEF SoloInv, Base, Handlers, Actors
<1> QED
  BY <1>6, <1>8

(* The locals an actor read are those of a mesh already made. *)
LEMMA OldLocals ==
    ASSUME Base, NEW a \in Actors, made' \in Nat, made <= made'
    PROVE  /\ loc[a] \in LocRec /\ (loc[a].mesh # None => loc[a].mesh <= made')
           /\ loc[a].mesh \in Nat \cup {None} /\ made \in Nat
<1>1. /\ loc[a] \in LocRec /\ made \in Nat /\ loc[a].mesh \in Nat \cup {None}
      /\ (loc[a].mesh # None => loc[a].mesh <= made)
  BY DEF Base, LocInv, DaemonInv, LocRec
<1> QED
  BY <1>1

LEMMA PopCore ==
    ASSUME Base, NEW a \in Actors, NEW op, op # "tunDown", At(a, op), Proceed(a),
           made' \in Nat, made <= made', UNCHANGED <<stopped, crossed, raced>>
    PROVE  PlanInv' /\ LocInv' /\ SoloInv'
<1>1. PICK S, l : /\ PlanInv' /\ op \in Todo(a)
                  /\ S = Todo(a) \ {op} /\ l = loc[a] /\ Moves(a, S, l)
  BY Pops DEF Base
<1>2. l \in LocRec /\ (l.mesh # None => l.mesh <= made')
  BY <1>1, OldLocals
<1>3. "adopt" \in S => "adopt" \in Todo(a) /\ l.mode = loc[a].mode /\ l.bundle = loc[a].bundle
  BY <1>1
<1> QED
  BY <1>1, <1>2, <1>3, StepCore

(* The calls of the tunnel, of host DNS and of the mesh object. *)
LEMMA BaseTunnel ==
    ASSUME Base, NEW a \in Actors,
           DoTunUp(a) \/ DoTunDown(a) \/ DoTunClose(a) \/ DoDnsApply(a) \/ DoDnsRestore(a)
    PROVE  Base'
<1>1. /\ UNCHANGED <<mode, bundle, handle, meshClient, made, stopped, crossed, raced>>
      /\ made \in Nat /\ made <= made'
  BY DEF DoTunUp, DoTunDown, DoTunClose, DoDnsApply, DoDnsRestore, daemonVars, meshVars,
     ctlVars, Base, DaemonInv
<1>2. ASSUME NEW S, NEW l, l = loc[a], Moves(a, S, l), PlanInv', Todo(a) # {},
             "adopt" \in S => "adopt" \in Todo(a)
      PROVE  PlanInv' /\ LocInv' /\ SoloInv'
  <2>1. l \in LocRec /\ (l.mesh # None => l.mesh <= made')
    BY <1>1, <1>2, OldLocals
  <2> QED
    BY <1>1, <1>2, <2>1, StepCore
<1>3. CASE DoTunUp(a)
  <2>1. PICK S, l : /\ PlanInv' /\ l = loc[a] /\ Moves(a, S, l) /\ Todo(a) # {}
                    /\ "adopt" \in S => "adopt" \in Todo(a)
    BY <1>3, TunUpMoves DEF Base
  <2>2. DaemonInv'
    BY <1>1, <1>3 DEF DoTunUp, Base, DaemonInv, tunVars
  <2> QED
    BY <1>2, <2>1, <2>2 DEF Base
<1>4. CASE DoTunDown(a)
  <2>1. PICK S, l : /\ PlanInv' /\ l = loc[a] /\ Moves(a, S, l) /\ Todo(a) # {}
                    /\ "adopt" \in S => "adopt" \in Todo(a)
    BY <1>4, TunDownMoves DEF Base
  <2>2. DaemonInv'
    BY <1>1, <1>4 DEF DoTunDown, Base, DaemonInv
  <2> QED
    BY <1>2, <2>1, <2>2 DEF Base
<1>5. CASE DoTunClose(a)
  <2>1. DaemonInv'
    BY <1>1, <1>5 DEF DoTunClose, Base, DaemonInv, TunCloseState
  <2> QED
    BY <1>1, <1>5, <2>1, PopCore DEF DoTunClose, Base
<1>6. CASE DoDnsApply(a) \/ DoDnsRestore(a)
  <2>1. DaemonInv'
    BY <1>1, <1>6 DEF DoDnsApply, DoDnsRestore, Base, DaemonInv, tunVars
  <2>2. PICK op \in {"dnsApply", "dnsRestore"} : At(a, op) /\ Proceed(a)
    BY <1>6 DEF DoDnsApply, DoDnsRestore
  <2> QED
    BY <1>1, <2>1, <2>2, PopCore DEF Base
<1> QED
  BY <1>3, <1>4, <1>5, <1>6

LEMMA BaseMesh ==
    ASSUME Base, NEW a \in Actors,
           \/ DoMeshConfigure(a) \/ DoMeshStart(a) \/ StartOk(a) \/ StartFail(a)
           \/ DoMeshDisconnect(a) \/ DoMeshClose(a)
    PROVE  Base'
<1>1. /\ UNCHANGED <<mode, bundle, handle, made, tunState, tunOpen, stopped, crossed,
                     raced>>
      /\ made \in Nat /\ made <= made'
  BY DEF DoMeshConfigure, DoMeshStart, StartOk, StartFail, DoMeshDisconnect, DoMeshClose,
         daemonVars, tunVars, ctlVars, Base, DaemonInv
<1>2. \/ UNCHANGED meshClient
      \/ \E k \in Clients \cup {None} : meshClient' = [meshClient EXCEPT ![loc[a].mesh] = k]
  BY DEF DoMeshConfigure, DoMeshStart, StartOk, StartFail, DoMeshDisconnect, DoMeshClose,
     meshVars
<1>3. DaemonInv'
  <2>1. /\ meshClient \in [Meshes -> Clients \cup {None}]
        /\ \A m \in Meshes : m > made => meshClient[m] = None
    BY DEF Base, DaemonInv
  <2>2. loc[a].mesh \in Nat \cup {None} /\ (loc[a].mesh # None => loc[a].mesh <= made)
    BY <1>1, OldLocals
  <2>3. None \notin Meshes /\ Meshes \subseteq Nat
    BY DEF Meshes
  <2>4. \A m \in Meshes : m > made => m # loc[a].mesh
    BY <1>1, <2>2, <2>3
  <2>5. /\ meshClient' \in [Meshes -> Clients \cup {None}]
        /\ \A m \in Meshes : m > made => meshClient'[m] = None
    BY <1>2, <2>1, <2>4
  <2> QED
    BY <1>1, <2>5 DEF Base, DaemonInv
<1>4. CASE DoMeshStart(a)
  <2>1. PICK S, l : /\ PlanInv' /\ l = loc[a] /\ Moves(a, S, l) /\ Todo(a) # {}
                    /\ "adopt" \notin S
    BY <1>4, MeshStartMoves DEF Base
  <2>2. l \in LocRec /\ (l.mesh # None => l.mesh <= made')
    BY <1>1, <2>1, OldLocals
  <2>3. LocInv' /\ SoloInv'
    BY <1>1, <2>1, <2>2, StepCore
  <2> QED
    BY <1>3, <2>1, <2>3 DEF Base
<1>5. CASE ~DoMeshStart(a)
  <2>1. PICK op \in {"meshConfigure", "starting", "meshDisconnect", "meshClose"} :
          At(a, op) /\ Proceed(a)
    BY <1>5 DEF DoMeshConfigure, StartOk, StartFail, DoMeshDisconnect, DoMeshClose
  <2> QED
    BY <1>1, <1>3, <2>1, PopCore DEF Base
<1> QED
  BY <1>4, <1>5

LEMMA BaseSections ==
    ASSUME Base, NEW a \in Actors,
           \/ DoMeshEnsure(a) \/ DoWant(a) \/ DoDetach(a) \/ DoAttach(a) \/ DoModeUp(a)
           \/ DoModeMeshUp(a) \/ DoReconnect(a) \/ DoAdopt(a) \/ DoForget(a)
    PROVE  Base'
<1>1. /\ UNCHANGED <<meshClient, tunState, tunOpen, stopped, crossed, raced>>
      /\ made \in Nat /\ made' \in {made, made + 1}
  BY DEF DoMeshEnsure, DoWant, DoDetach, DoAttach, DoModeUp, DoModeMeshUp, DoReconnect,
     DoAdopt, DoForget, daemonVars, meshVars, tunVars, ctlVars, Base, DaemonInv
<1>2. made' \in Nat /\ made <= made'
  BY <1>1
<1>3. DaemonInv'
  <2>1. handle' # None => handle' \in Nat /\ handle' <= made'
    <3>1. handle' = handle \/ handle' = None \/ (handle' = made + 1 /\ made' = made + 1)
      BY DEF DoMeshEnsure, DoWant, DoDetach, DoAttach, DoModeUp, DoModeMeshUp, DoReconnect,
         DoAdopt, DoForget, daemonVars
    <3>2. handle # None => handle \in Nat /\ handle <= made
      BY DEF Base, DaemonInv
    <3> QED
      BY <1>1, <1>2, <3>1, <3>2
  <2>2. mode' \in Modes /\ bundle' \in Bundles \cup {None}
    <3>1. CASE DoAdopt(a)
      <4>1. "adopt" \in Todo(a)
        BY <3>1, AdoptMoves DEF Base
      <4> QED
        BY <3>1, <4>1 DEF DoAdopt, Base, LocInv
    <3>2. CASE ~DoAdopt(a)
      BY <3>2 DEF DoMeshEnsure, DoWant, DoDetach, DoAttach, DoModeUp, DoModeMeshUp,
         DoReconnect, DoForget, daemonVars, Base, DaemonInv
    <3> QED
      BY <3>1, <3>2
  <2>3. \A m \in Meshes : m > made' => m > made
    BY <1>1 DEF Meshes
  <2> QED
    BY <1>1, <1>2, <2>1, <2>2, <2>3 DEF Base, DaemonInv
<1>4. loc[a] \in LocRec /\ (loc[a].mesh # None => loc[a].mesh <= made')
  BY <1>1, <1>2, OldLocals
<1>5. /\ handle \in Nat \cup {None} /\ (handle # None => handle <= made')
      /\ handle' \in Nat \cup {None} /\ (handle' # None => handle' <= made')
      /\ bundle \in (SUBSET {"outer", "inner"}) \cup {None}
  BY <1>1, <1>2, <1>3 DEF Base, DaemonInv
<1>6. \A h \in {handle, handle'} : /\ [loc[a] EXCEPT !.mesh = h] \in LocRec
                                   /\ [loc[a] EXCEPT !.mesh = h, !.bundle = bundle] \in LocRec
  BY <1>4, <1>5 DEF LocRec
<1> DEFINE Known(l) == l \in LocRec /\ (l.mesh # None => l.mesh <= made')
<1>7. ASSUME NEW S, NEW l, Moves(a, S, l), PlanInv', Todo(a) # {}, Known(l),
             "adopt" \in S =>
               "adopt" \in Todo(a) /\ l.mode = loc[a].mode /\ l.bundle = loc[a].bundle
      PROVE  Base'
  <2>1. LocInv' /\ SoloInv'
    BY <1>1, <1>2, <1>7, StepCore
  <2> QED
    BY <1>3, <1>7, <2>1 DEF Base
<1>8. ASSUME NEW op, op # "tunDown", At(a, op), Proceed(a) PROVE Base'
  BY <1>1, <1>2, <1>3, <1>8, PopCore DEF Base
<1>9. CASE DoWant(a) \/ DoAttach(a) \/ DoForget(a)
  <2>1. PICK op \in {"want", "unwant", "attach", "forget"} : At(a, op) /\ Proceed(a)
    BY <1>9 DEF DoWant, DoAttach, DoForget
  <2> QED
    BY <1>8, <2>1
<1>10. CASE DoMeshEnsure(a)
  <2>1. PICK S, l : /\ PlanInv' /\ Moves(a, S, l) /\ Todo(a) # {}
                    /\ S = Todo(a) \ {"meshEnsure"} /\ l = [loc[a] EXCEPT !.mesh = handle']
    BY <1>10, MeshEnsureMoves DEF Base
  <2>2. Known(l) /\ l.mode = loc[a].mode /\ l.bundle = loc[a].bundle
    BY <1>4, <1>5, <1>6, <2>1 DEF LocRec
  <2> QED
    BY <1>7, <2>1, <2>2
<1>11. CASE DoDetach(a)
  <2>1. PICK op \in Detach : At(a, op)
    BY <1>11 DEF DoDetach, Detach
  <2>2. PICK S, l : /\ PlanInv' /\ Moves(a, S, l) /\ Todo(a) # {}
                    /\ "adopt" \in S => "adopt" \in Todo(a)
                    /\ l = [loc[a] EXCEPT !.mesh = handle]
    BY <1>11, <2>1, DetachMoves DEF Base
  <2>3. Known(l) /\ l.mode = loc[a].mode /\ l.bundle = loc[a].bundle
    BY <1>4, <1>5, <1>6, <2>2 DEF LocRec
  <2> QED
    BY <1>7, <2>2, <2>3
<1>12. CASE DoModeUp(a)
  <2>1. PICK S, l : /\ PlanInv' /\ Moves(a, S, l) /\ Todo(a) # {}
                    /\ "adopt" \in S => "adopt" \in Todo(a)
                    /\ l = loc[a]
    BY <1>12, ModeUpMoves DEF Base
  <2> QED
    BY <1>4, <1>7, <2>1
<1>13. CASE DoModeMeshUp(a)
  <2>1. PICK S, l : /\ PlanInv' /\ Moves(a, S, l) /\ Todo(a) # {} /\ "adopt" \notin S
                    /\ l = [loc[a] EXCEPT !.mesh = handle, !.bundle = bundle]
    BY <1>13, ModeMeshUpMoves DEF Base
  <2>2. Known(l)
    BY <1>4, <1>5, <1>6, <2>1 DEF LocRec
  <2> QED
    BY <1>7, <2>1, <2>2
<1>14. CASE DoReconnect(a)
  <2>1. PICK S, l : /\ PlanInv' /\ Moves(a, S, l) /\ Todo(a) # {} /\ "adopt" \notin S
                    /\ l = loc[a]
    BY <1>14, ReconnectMoves DEF Base
  <2> QED
    BY <1>4, <1>7, <2>1
<1>15. CASE DoAdopt(a)
  <2>1. PICK S, l : /\ PlanInv' /\ Moves(a, S, l) /\ Todo(a) # {} /\ "adopt" \notin S
                    /\ l = [loc[a] EXCEPT !.mesh = handle']
    BY <1>15, AdoptMoves DEF Base
  <2>2. Known(l)
    BY <1>4, <1>5, <1>6, <2>1 DEF LocRec
  <2> QED
    BY <1>7, <2>1, <2>2
<1> QED
  BY <1>9, <1>10, <1>11, <1>12, <1>13, <1>14, <1>15

LEMMA BaseStep == ASSUME Base, NEW a \in Actors, Step(a) PROVE Base'
BY BaseTunnel, BaseMesh, BaseSections DEF Step

-----------------------------------------------------------------------------
(* The requests: what each has to do when it starts. *)

Asks(a, S, l) == \E p : Plan(p, S) /\ Fit(a, S) /\ Enter(a, p, l)

LEMMA ConnLegs == \A c \in Conns : c # Main /\ c # Supervisor /\ c \in Handlers /\ c \in Actors
BY DEF Main, Supervisor, Handlers, Actors

LEMMA SinglePlans ==
    /\ \A op \in OpNames \ {"tunUp", "tunDown", "meshStart"} : Plan(<<Call(op)>>, {op})
    /\ \A x, y \in BOOLEAN : Plan(<<TunUp(x, y)>>, {"tunUp"})
    /\ \A b \in BOOLEAN : Plan(<<MeshStart(b)>>, {"meshStart"})
BY Calls, PlanOne

LEMMA PairPlans ==
    \A x, y \in OpNames \ {"tunUp", "tunDown", "meshStart"} :
        Rank(x) < Rank(y) => Plan(<<Call(x), Call(y)>>, {x, y})
BY Calls, PlanTwo

LEMMA TearDownPlans ==
    /\ Plan(TearDownWG, {"dnsRestore", "tunDown"})
    /\ Plan(<<Call("dnsRestore"), TunDown(TRUE)>>, {"dnsRestore", "tunDownAbort"})
<1>1. Call("dnsRestore") \in CallRec /\ Kind(Call("dnsRestore")) = "dnsRestore"
  BY Calls DEF OpNames
<1>2. /\ TunDown(FALSE) \in CallRec /\ Kind(TunDown(FALSE)) = "tunDown"
      /\ TunDown(TRUE) \in CallRec /\ Kind(TunDown(TRUE)) = "tunDownAbort"
  BY Calls, Zenon
<1>3. Rank("dnsRestore") < Rank("tunDown") /\ Rank("dnsRestore") < Rank("tunDownAbort")
  BY Ranks
<1>4. Plan(<<Call("dnsRestore"), TunDown(FALSE)>>, {"dnsRestore", "tunDown"})
  BY <1>1, <1>2, <1>3, PlanTwo
<1>5. Plan(<<Call("dnsRestore"), TunDown(TRUE)>>, {"dnsRestore", "tunDownAbort"})
  BY <1>1, <1>2, <1>3, PlanTwo
<1> QED
  BY <1>4, <1>5 DEF TearDownWG

LEMMA ConnectAsks ==
    ASSUME NEW a \in Conns, Connect(a)
    PROVE  \E S, l :
             /\ Asks(a, S, l) /\ l = Here
             /\ S = (IF IncludesWGCP0(mode) THEN {"tunUp"} ELSE {})
                      \cup (IF IncludesNetbird(mode)
                              THEN (IF handle = None THEN {"meshEnsure"} ELSE {})
                                     \cup {"want", "meshConfigure", "meshStart"}
                              ELSE {})
<1>1. PICK l, p1, p2, p3, p :
        /\ l = Here
        /\ p1 = When(IncludesWGCP0(mode), <<TunUp(TRUE, TRUE)>>)
        /\ p2 = When(handle = None, <<Call("meshEnsure")>>)
        /\ p3 = p2 \o <<Call("want")>> \o MeshUp(TRUE)
        /\ p = p1 \o When(IncludesNetbird(mode), p3)
  OBVIOUS
<1>2. PICK S1, S2, S3, S4 :
        /\ S1 = IF IncludesWGCP0(mode) THEN {"tunUp"} ELSE {}
        /\ S2 = IF handle = None THEN {"meshEnsure"} ELSE {}
        /\ S3 = (S2 \cup {"want"}) \cup {"meshConfigure", "meshStart"}
        /\ S4 = IF IncludesNetbird(mode) THEN S3 ELSE {}
  OBVIOUS
<1>3. /\ Plan(p1, S1) /\ Plan(p2, S2) /\ Plan(<<Call("want")>>, {"want"})
      /\ Plan(MeshUp(TRUE), {"meshConfigure", "meshStart"})
  BY <1>1, <1>2, SinglePlans, MeshUpPlan, PlanEmpty DEF When, OpNames
<1>4. /\ \A x \in S2, y \in {"want"} : Rank(x) < Rank(y)
      /\ \A x \in S2 \cup {"want"}, y \in {"meshConfigure", "meshStart"} : Rank(x) < Rank(y)
      /\ \A x \in S1, y \in S4 : Rank(x) < Rank(y)
  BY <1>2, Ranks
<1>5. Plan(p2 \o <<Call("want")>>, S2 \cup {"want"})
  BY <1>3, <1>4, PlanCat
<1>6. Plan(p3, S3)
  BY <1>1, <1>2, <1>3, <1>4, <1>5, PlanCat
<1>7. Plan(When(IncludesNetbird(mode), p3), S4)
  BY <1>2, <1>6, PlanEmpty DEF When
<1>8. PICK S : S = S1 \cup S4
  OBVIOUS
<1>9. Plan(p, S)
  BY <1>1, <1>3, <1>4, <1>7, <1>8, PlanCat
<1>10. Fit(a, S)
  BY <1>2, <1>8, ConnLegs DEF Fit, TearDown, Detach
<1>11. Enter(a, p, l)
  BY <1>1 DEF Connect, Request
<1> QED
  BY <1>1, <1>2, <1>8, <1>9, <1>10, <1>11 DEF Asks

LEMMA DisconnectAsks ==
    ASSUME NEW a \in Conns, Disconnect(a)
    PROVE  \E S, l :
             /\ Asks(a, S, l) /\ l = Here
             /\ S = (IF IncludesWGCP0(mode) THEN {"dnsRestore", "tunDownAbort"} ELSE {})
                      \cup (IF IncludesNetbird(mode) /\ handle # None
                              THEN {"unwant", "meshDisconnect"} ELSE {})
<1>1. PICK l, p1, p2, p :
        /\ l = Here
        /\ p1 = When(IncludesWGCP0(mode), <<Call("dnsRestore"), TunDown(TRUE)>>)
        /\ p2 = When(IncludesNetbird(mode) /\ handle # None,
                     <<Call("unwant"), Call("meshDisconnect")>>)
        /\ p = p1 \o p2
  OBVIOUS
<1>2. PICK S1, S2, S :
        /\ S1 = IF IncludesWGCP0(mode) THEN {"dnsRestore", "tunDownAbort"} ELSE {}
        /\ S2 = IF IncludesNetbird(mode) /\ handle # None
                  THEN {"unwant", "meshDisconnect"} ELSE {}
        /\ S = S1 \cup S2
  OBVIOUS
<1>3. Plan(<<Call("unwant"), Call("meshDisconnect")>>, {"unwant", "meshDisconnect"})
  BY Calls, PlanTwo, Ranks DEF OpNames
<1>4. Plan(p1, S1) /\ Plan(p2, S2)
  BY <1>1, <1>2, <1>3, TearDownPlans, PlanEmpty DEF When
<1>5. \A x \in S1, y \in S2 : Rank(x) < Rank(y)
  BY <1>2, Ranks
<1>6. Plan(p, S)
  BY <1>1, <1>2, <1>4, <1>5, PlanCat
<1>7. Fit(a, S)
  BY <1>2, ConnLegs DEF Fit, TearDown, Detach
<1>8. Enter(a, p, l)
  BY <1>1 DEF Disconnect, Request
<1> QED
  BY <1>1, <1>2, <1>6, <1>7, <1>8 DEF Asks

LEMMA SetModeAsks ==
    ASSUME NEW a \in Conns, SetMode(a)
    PROVE  \E S, l :
             /\ Asks(a, S, l) /\ l = Here /\ mode' \in Modes
             /\ S = (IF LeavesWG(mode, mode') THEN {"dnsRestore", "tunDown"} ELSE {})
                    \cup (IF IncludesNetbird(mode) /\ ~IncludesNetbird(mode')
                            THEN {"detach"} ELSE {})
                    \cup (IF ~IncludesNetbird(mode) /\ IncludesNetbird(mode')
                            THEN {"attach"} ELSE {})
                    \cup (IF IncludesWGCP0(mode') THEN {"modeUp"} ELSE {})
                    \cup (IF IncludesNetbird(mode') THEN {"modeMeshUp"} ELSE {})
<1>1. PICK l, m, p1, p2, p3, p4, p5, p :
        /\ l = Here /\ m = mode'
        /\ p1 = When(LeavesWG(mode, m), TearDownWG)
        /\ p2 = When(IncludesNetbird(mode) /\ ~IncludesNetbird(m), <<Call("detach")>>)
        /\ p3 = When(~IncludesNetbird(mode) /\ IncludesNetbird(m), <<Call("attach")>>)
        /\ p4 = When(IncludesWGCP0(m), <<Call("modeUp")>>)
        /\ p5 = When(IncludesNetbird(m), <<Call("modeMeshUp")>>)
        /\ p = p1 \o p2 \o p3 \o p4 \o p5
  OBVIOUS
<1>2. PICK S1, S2, S3, S4, S5, S :
        /\ S1 = IF LeavesWG(mode, m) THEN {"dnsRestore", "tunDown"} ELSE {}
        /\ S2 = IF IncludesNetbird(mode) /\ ~IncludesNetbird(m) THEN {"detach"} ELSE {}
        /\ S3 = IF ~IncludesNetbird(mode) /\ IncludesNetbird(m) THEN {"attach"} ELSE {}
        /\ S4 = IF IncludesWGCP0(m) THEN {"modeUp"} ELSE {}
        /\ S5 = IF IncludesNetbird(m) THEN {"modeMeshUp"} ELSE {}
        /\ S = S1 \cup S2 \cup S3 \cup S4 \cup S5
  OBVIOUS
<1>3. Plan(p1, S1) /\ Plan(p2, S2) /\ Plan(p3, S3) /\ Plan(p4, S4) /\ Plan(p5, S5)
  BY <1>1, <1>2, TearDownPlans, SinglePlans, PlanEmpty DEF When, OpNames
<1>4. /\ \A x \in S1, y \in S2 : Rank(x) < Rank(y)
      /\ \A x \in S1 \cup S2, y \in S3 : Rank(x) < Rank(y)
      /\ \A x \in S1 \cup S2 \cup S3, y \in S4 : Rank(x) < Rank(y)
      /\ \A x \in S1 \cup S2 \cup S3 \cup S4, y \in S5 : Rank(x) < Rank(y)
  BY <1>2, Ranks
<1>5. Plan(p1 \o p2, S1 \cup S2)
  BY <1>3, <1>4, PlanCat
<1>6. Plan(p1 \o p2 \o p3, S1 \cup S2 \cup S3)
  BY <1>3, <1>4, <1>5, PlanCat
<1>7. Plan(p1 \o p2 \o p3 \o p4, S1 \cup S2 \cup S3 \cup S4)
  BY <1>3, <1>4, <1>6, PlanCat
<1>8. Plan(p, S)
  BY <1>1, <1>2, <1>3, <1>4, <1>7, PlanCat
<1>9. Fit(a, S)
  BY <1>2, ConnLegs DEF Fit, TearDown, Detach
<1>10. Enter(a, p, l) /\ m \in Modes
  BY <1>1 DEF SetMode, Request
<1> QED
  BY <1>1, <1>2, <1>8, <1>9, <1>10 DEF Asks

LEMMA SetActiveAsks ==
    ASSUME NEW a \in Conns, SetActiveProfile(a)
    PROVE  \E S, l :
             /\ Asks(a, S, l)
             /\ \E m \in Modes, b \in Bundles : l = [Here EXCEPT !.mode = m, !.bundle = b]
             /\ S = (IF bundle # None
                       THEN (IF IncludesWGCP0(mode) THEN {"dnsRestore", "tunDown"} ELSE {})
                              \cup (IF IncludesNetbird(mode) THEN {"detachUnwant"} ELSE {})
                       ELSE {})
                    \cup {"adopt"}
<1>1. PICK l, p1, p2, p3, p :
        /\ \E m \in Modes, b \in Bundles : l = [Here EXCEPT !.mode = m, !.bundle = b]
        /\ p1 = When(IncludesWGCP0(mode), TearDownWG)
        /\ p2 = When(IncludesNetbird(mode), <<Call("detachUnwant")>>)
        /\ p3 = When(bundle # None, p1 \o p2)
        /\ p = p3 \o <<Call("adopt")>>
        /\ Enter(a, p, l)
  BY DEF SetActiveProfile, Request
<1>2. PICK S1, S2, S3, S :
        /\ S1 = IF IncludesWGCP0(mode) THEN {"dnsRestore", "tunDown"} ELSE {}
        /\ S2 = IF IncludesNetbird(mode) THEN {"detachUnwant"} ELSE {}
        /\ S3 = IF bundle # None THEN S1 \cup S2 ELSE {}
        /\ S = S3 \cup {"adopt"}
  OBVIOUS
<1>3. Plan(p1, S1) /\ Plan(p2, S2) /\ Plan(<<Call("adopt")>>, {"adopt"})
  BY <1>1, <1>2, TearDownPlans, SinglePlans, PlanEmpty DEF When, OpNames
<1>4. /\ \A x \in S1, y \in S2 : Rank(x) < Rank(y)
      /\ \A x \in S3, y \in {"adopt"} : Rank(x) < Rank(y)
  BY <1>2, Ranks
<1>5. Plan(p1 \o p2, S1 \cup S2)
  BY <1>3, <1>4, PlanCat
<1>6. Plan(p3, S3)
  BY <1>1, <1>2, <1>5, PlanEmpty DEF When
<1>7. Plan(p, S)
  BY <1>1, <1>2, <1>3, <1>4, <1>6, PlanCat
<1>8. Fit(a, S)
  BY <1>2, ConnLegs DEF Fit, TearDown, Detach
<1> QED
  BY <1>1, <1>2, <1>7, <1>8 DEF Asks

LEMMA RemoveAsks ==
    ASSUME NEW a \in Conns, RemoveActiveProfile(a)
    PROVE  \E S, l : /\ Asks(a, S, l) /\ l = Here
                     /\ S = {"dnsRestore", "tunDown", "detachUnwant", "forget"}
<1>1. PICK l, q, p : l = Here /\ q = <<Call("detachUnwant"), Call("forget")>> /\ p = TearDownWG \o q
  OBVIOUS
<1>2. PICK S : S = {"dnsRestore", "tunDown", "detachUnwant", "forget"}
  OBVIOUS
<1>3. Plan(q, {"detachUnwant", "forget"})
  <2>1. /\ {"detachUnwant", "forget"} \subseteq OpNames \ {"tunUp", "tunDown", "meshStart"}
        /\ Rank("detachUnwant") < Rank("forget")
    BY Ranks DEF OpNames
  <2> QED
    BY <1>1, <2>1, PairPlans
<1>4. \A x \in {"dnsRestore", "tunDown"}, y \in {"detachUnwant", "forget"} : Rank(x) < Rank(y)
  BY Ranks
<1>5. Plan(p, {"dnsRestore", "tunDown"} \cup {"detachUnwant", "forget"})
  BY <1>1, <1>3, <1>4, TearDownPlans, PlanCat
<1>6. {"dnsRestore", "tunDown"} \cup {"detachUnwant", "forget"} = S
  BY <1>2
<1>7. Fit(a, S)
  BY <1>2, ConnLegs DEF Fit, TearDown, Detach
<1>8. Enter(a, p, l)
  BY <1>1 DEF RemoveActiveProfile, Request
<1> QED
  BY <1>1, <1>2, <1>5, <1>6, <1>7, <1>8 DEF Asks

LEMMA ShutdownAsks ==
    ASSUME Shutdown
    PROVE  \E S, l : /\ Asks(Main, S, l) /\ l = Here
                     /\ S = {"dnsRestore", "tunDown", "detach", "tunClose"}
<1>1. PICK l, q, p : l = Here /\ q = <<Call("detach"), Call("tunClose")>> /\ p = TearDownWG \o q
  OBVIOUS
<1>2. PICK S : S = {"dnsRestore", "tunDown", "detach", "tunClose"}
  OBVIOUS
<1>3. Plan(q, {"detach", "tunClose"})
  <2>1. /\ {"detach", "tunClose"} \subseteq OpNames \ {"tunUp", "tunDown", "meshStart"}
        /\ Rank("detach") < Rank("tunClose")
    BY Ranks DEF OpNames
  <2> QED
    BY <1>1, <2>1, PairPlans
<1>4. \A x \in {"dnsRestore", "tunDown"}, y \in {"detach", "tunClose"} : Rank(x) < Rank(y)
  BY Ranks
<1>5. Plan(p, {"dnsRestore", "tunDown"} \cup {"detach", "tunClose"})
  BY <1>1, <1>3, <1>4, TearDownPlans, PlanCat
<1>6. {"dnsRestore", "tunDown"} \cup {"detach", "tunClose"} = S
  BY <1>2
<1>7. Fit(Main, S)
  BY <1>2 DEF Fit, TearDown, Detach, Main, Supervisor
<1>8. Enter(Main, p, l)
  BY <1>1 DEF Shutdown
<1> QED
  BY <1>1, <1>2, <1>5, <1>6, <1>7, <1>8 DEF Asks

LEMMA MeshAsks ==
    ASSUME NEW a \in Conns
    PROVE  /\ EnableInnerMesh(a) =>
                \E S, l : Asks(a, S, l) /\ l = Here /\ S = {"want", "meshStart"}
           /\ DisableInnerMesh(a) =>
                \E S, l : /\ Asks(a, S, l) /\ l = Here
                          /\ S = IF handle # None THEN {"meshDisconnect"} ELSE {}
           /\ SetInnerMeshProfile(a) =>
                \E S, l : /\ Asks(a, S, l) /\ l = [Here EXCEPT !.bundle = {"inner"}]
                          /\ S = {"meshConfigure"}
           /\ SetRosenpass(a) =>
                \E S, l : Asks(a, S, l) /\ l = Here /\ S = {"reconnect"}
<1>1. PICK p1, p2, p3, p4, l, m :
        /\ p1 = <<Call("want"), MeshStart(TRUE)>>
        /\ p2 = When(handle # None, <<Call("meshDisconnect")>>)
        /\ p3 = <<Call("meshConfigure")>> /\ p4 = <<Call("reconnect")>>
        /\ l = Here /\ m = [Here EXCEPT !.bundle = {"inner"}]
  OBVIOUS
<1>2. PICK S : S = IF handle # None THEN {"meshDisconnect"} ELSE {}
  OBVIOUS
<1>3. Plan(p1, {"want", "meshStart"})
  <2>1. /\ Call("want") \in CallRec /\ Kind(Call("want")) = "want"
        /\ MeshStart(TRUE) \in CallRec /\ Kind(MeshStart(TRUE)) = "meshStart"
    BY Calls DEF OpNames
  <2>2. Rank("want") < Rank("meshStart")
    BY Ranks
  <2> QED
    BY <1>1, <2>1, <2>2, PlanTwo
<1>4. Plan(p2, S) /\ Plan(p3, {"meshConfigure"}) /\ Plan(p4, {"reconnect"})
  BY <1>1, <1>2, SinglePlans, PlanEmpty DEF When, OpNames
<1>5. /\ Fit(a, {"want", "meshStart"}) /\ Fit(a, S)
      /\ Fit(a, {"meshConfigure"}) /\ Fit(a, {"reconnect"})
  BY <1>2, ConnLegs DEF Fit, TearDown, Detach
<1>6. EnableInnerMesh(a) => Asks(a, {"want", "meshStart"}, l)
  BY <1>1, <1>3, <1>5 DEF EnableInnerMesh, Request, Asks
<1>7. DisableInnerMesh(a) => Asks(a, S, l)
  BY <1>1, <1>4, <1>5 DEF DisableInnerMesh, Request, Asks
<1>8. SetInnerMeshProfile(a) => Asks(a, {"meshConfigure"}, m)
  BY <1>1, <1>4, <1>5 DEF SetInnerMeshProfile, Request, Asks
<1>9. SetRosenpass(a) => Asks(a, {"reconnect"}, l)
  BY <1>1, <1>4, <1>5 DEF SetRosenpass, Request, Asks
<1> QED
  BY <1>1, <1>2, <1>6, <1>7, <1>8, <1>9

LEMMA TickAsks ==
    ASSUME SupervisorTick
    PROVE  \E S, l : Asks(Supervisor, S, l) /\ l = Here /\ S = {"reconnect"}
<1>1. PICK p, l : p = <<Call("reconnect")>> /\ l = Here
  OBVIOUS
<1>2. Plan(p, {"reconnect"})
  BY <1>1, SinglePlans DEF OpNames
<1>3. Fit(Supervisor, {"reconnect"})
  BY DEF Fit, TearDown, Detach, Main, Supervisor
<1>4. Enter(Supervisor, p, l)
  BY <1>1 DEF SupervisorTick
<1> QED
  BY <1>1, <1>2, <1>3, <1>4 DEF Asks

(* A request starts with the daemon's mesh and mode before it, and the     *)
(* histories stay clean only when nobody else is at work.                  *)
LEMMA EnterCore ==
    ASSUME Base, NEW a \in Actors, NEW S, NEW l, Asks(a, S, l),
           l \in LocRec, l.mesh # None => l.mesh <= made,
           "adopt" \in S => l.mode \in Modes /\ l.bundle \in Bundles,
           mode' \in Modes, UNCHANGED bundle,
           IF a = Main THEN stopped' = TRUE ELSE UNCHANGED stopped /\ (a \in Conns => ~stopped)
    PROVE  /\ Base' /\ Moves(a, S, l) /\ Todo(a) = {}
           /\ UNCHANGED <<handle, meshVars, made, tunVars, dns, reach>>
           /\ ~crossed' => ~crossed /\ (a \in Handlers => \A b \in Handlers : Todo(b) = {})
           /\ ~crossed' /\ ~raced' => ~raced /\ \A b \in Actors : Todo(b) = {}
<1>1. PICK p : Plan(p, S) /\ Fit(a, S) /\ Enter(a, p, l)
  BY DEF Asks
<1>2. /\ ~Busy(a) /\ Become(a, p, l)
      /\ UNCHANGED <<handle, meshVars, made, tunVars, dns, reach>>
  BY <1>1 DEF Enter
<1>3. PlanInv' /\ Moves(a, S, l)
  BY <1>1, <1>2, Becomes DEF Base
<1>4. \A b \in Actors : (Busy(b) <=> Todo(b) # {})
  BY BusyTodo DEF Base
<1>5. \A b \in Actors : Busy(b)' <=> Todo(b)' # {}
  BY <1>3, NothingToDo DEF PlanInv, Busy, Todo
<1>6. PICK others : others = {o \in Actors \ {a} : Busy(o)}
  OBVIOUS
<1>7. /\ ~crossed' => ~crossed /\ (a \in Handlers => others \cap Handlers = {})
      /\ ~raced' => ~raced /\ (others = {} \/ Supervisor \notin others \cup {a})
  BY <1>1, <1>6 DEF Enter
<1>8. ~crossed' => ~crossed /\ (a \in Handlers => \A b \in Handlers : ~Busy(b))
  BY <1>2, <1>6, <1>7 DEF Handlers, Actors
<1>9. ~crossed' /\ ~raced' => ~raced /\ \A b \in Actors : ~Busy(b)
  BY <1>2, <1>6, <1>7 DEF Handlers, Actors
<1>10. \A b \in Actors : b # a => (Busy(b)' <=> Busy(b))
  BY <1>3, <1>4, <1>5 DEF Moves
<1>11. SoloInv'
  <2>1. ~crossed' => \A x, y \in Handlers : Busy(x)' /\ Busy(y)' => x = y
    BY <1>8, <1>10 DEF SoloInv, Base, Handlers, Actors
  <2>2. ~crossed' /\ ~raced' => \A x, y \in Actors : Busy(x)' /\ Busy(y)' => x = y
    BY <1>9, <1>10
  <2>3. Busy(Main)' => stopped'
    BY <1>10 DEF SoloInv, Base, Actors, Handlers
  <2>4. stopped' /\ ~crossed' => \A c \in Conns : ~Busy(c)'
    BY <1>8, <1>10, ConnLegs DEF SoloInv, Base, Handlers
  <2> QED
    BY <2>1, <2>2, <2>3, <2>4 DEF SoloInv
<1>12. LocInv'
  <2>1. NoLoc \in LocRec /\ NoLoc.mesh = None
    BY LocRecord DEF NoLoc
  <2>2. \A b \in Actors : loc'[b] \in LocRec
    BY <1>3, <2>1 DEF Moves, Base, LocInv
  <2>3. loc' \in [Actors -> LocRec]
    BY <1>3, <2>2 DEF Moves
  <2>4. \A b \in Actors : loc'[b].mesh # None => loc'[b].mesh <= made'
    BY <1>2, <1>3, <2>1 DEF Moves, Base, LocInv
  <2>5. \A b \in Actors : "adopt" \in Todo(b)' => loc'[b].mode \in Modes /\ loc'[b].bundle \in Bundles
    BY <1>3 DEF Moves, Base, LocInv
  <2> QED
    BY <2>3, <2>4, <2>5 DEF LocInv
<1>13. DaemonInv'
  BY <1>2 DEF Base, DaemonInv, meshVars, tunVars
<1> QED
  BY <1>2, <1>3, <1>4, <1>8, <1>9, <1>11, <1>12, <1>13 DEF Base, Handlers, Actors

-----------------------------------------------------------------------------
(* The outer leg, seen from the one handler at work. *)
OuterOne(a, T) ==
    /\ dns = "applied" => tunState # "closed"
    /\ bundle = None => tunState # "up" /\ dns # "applied"
    /\ ~IncludesWGCP0(mode) =>
         /\ tunState = "up" => a \in Conns /\ "tunDown" \in T
         /\ dns = "applied" => a \in Conns /\ "dnsRestore" \in T
    /\ OuterFor(T)
    /\ stopped =>
         /\ dns = "applied" => a = Main /\ "dnsRestore" \in T
         /\ tunState # "closed" => a = Main /\ "tunClose" \in T
         /\ a = Main /\ "tunDown" \in T => "tunClose" \in T

LEMMA OuterSplits ==
    ASSUME Base, OuterInv, ~crossed, NEW a \in Handlers, NEW T, T = Todo(a),
           T # {} \/ \A b \in Handlers : Todo(b) = {}
    PROVE  OuterOne(a, T) /\ \A b \in Handlers : b # a => Todo(b) = {}
<1>1. \A b \in Handlers : b # a => Todo(b) = {}
  BY BusyTodo DEF Base, SoloInv, Handlers, Actors
<1>2. Main \in Handlers /\ \A c \in Conns : c \in Handlers
  BY DEF Handlers
<1> QED
  BY <1>1, <1>2 DEF OuterInv, OuterOne

LEMMA OuterJoins ==
    ASSUME NEW a \in Handlers, NEW S, S = Todo(a)', \A b \in Handlers : b # a => Todo(b)' = {},
           ~crossed' => OuterOne(a, S)'
    PROVE  OuterInv'
<1>1. OuterFor({})'
  BY DEF OuterFor
<1>2. ~crossed' => \A b \in Handlers : OuterFor(Todo(b))'
  BY <1>1 DEF OuterOne, OuterFor
<1> QED
  BY <1>2 DEF OuterInv, OuterOne, OuterFor, Handlers

OuterOps == {"dnsApply", "dnsRestore", "tunUp", "tunDown", "tunDownAbort", "tunClose", "modeUp",
             "adopt", "forget"}

(* Steps that are about the inner leg only. *)
LEMMA OuterFrame ==
    ASSUME OuterInv, \A b \in Actors : \A k \in OuterOps : k \in Todo(b)' <=> k \in Todo(b),
           UNCHANGED <<mode, bundle, tunState, dns, stopped>>, ~crossed' => ~crossed
    PROVE  OuterInv'
<1>1. Main \in Actors /\ Handlers \subseteq Actors /\ Conns \subseteq Actors
  BY DEF Actors, Handlers
<1>2. ASSUME NEW a \in Handlers, OuterFor(Todo(a)) PROVE OuterFor(Todo(a))'
  BY <1>1, <1>2 DEF OuterFor, OuterOps, IncludesWGCP0
<1> QED
  BY <1>1, <1>2 DEF OuterInv, OuterOps, IncludesWGCP0

(* A handler at work while the histories are clean. *)
LEMMA OuterAlone ==
    ASSUME Base, OuterInv, NEW a \in Actors, NEW T, T = Todo(a), T \cap OuterOps # {},
           ~crossed
    PROVE  /\ a \in Handlers /\ OuterOne(a, T) /\ Fit(a, T)
           /\ \A b \in Handlers : b # a => Todo(b) = {}
           /\ a # Main => a \in Conns /\ ~stopped
<1>1. Fit(a, T)
  BY DEF Base, PlanInv
<1>2. a \in Handlers
  BY <1>1 DEF Fit, OuterOps, Actors, Handlers
<1>3. a # Main => a \in Conns /\ ~stopped
  BY <1>2, BusyTodo DEF Base, SoloInv, Handlers, Actors
<1> QED
  BY <1>1, <1>2, <1>3, OuterSplits

LEMMA OuterStays ==
    ASSUME NEW a \in Handlers, NEW S, NEW l, Moves(a, S, l), UNCHANGED crossed,
           ~crossed => (\A b \in Handlers : b # a => Todo(b) = {}) /\ OuterOne(a, S)'
    PROVE  OuterInv'
<1>1. CASE crossed
  BY <1>1 DEF OuterInv
<1>2. CASE ~crossed
  <2>1. S = Todo(a)' /\ \A b \in Handlers : b # a => Todo(b)' = {}
    BY <1>2 DEF Moves, Handlers, Actors
  <2> QED
    BY <1>2, <2>1, OuterJoins
<1> QED
  BY <1>1, <1>2

(* The tunnel's calls: none comes before host DNS was restored. *)
LEMMA OuterTunnel ==
    ASSUME Base, OuterInv, NEW a \in Actors, ~crossed,
           DoTunUp(a) \/ DoTunDown(a) \/ DoTunClose(a) \/ DoDnsApply(a) \/ DoDnsRestore(a)
    PROVE  OuterInv'
<1>1. UNCHANGED <<mode, bundle, stopped, crossed>>
  BY DEF DoTunUp, DoTunDown, DoTunClose, DoDnsApply, DoDnsRestore, daemonVars, ctlVars
<1>2. PICK T : T = Todo(a)
  OBVIOUS
<1>3. CASE DoTunUp(a)
  <2>1. PICK S, l :
          /\ "tunUp" \in T /\ \A x \in T \ {"tunUp"} : Rank("tunUp") < Rank(x)
          /\ Moves(a, S, l)
          /\ \/ /\ tunState' = "up"
                /\ S = T \ {"tunUp"} \/ S = (T \ {"tunUp"}) \cup {"dnsApply"}
             \/ tunState' = "error" /\ S \in {{}, T \ {"tunUp"}}
             \/ UNCHANGED tunVars /\ S = {}
    BY <1>2, <1>3, TunUpMoves DEF Base
  <2>2. /\ a \in Handlers /\ OuterOne(a, T) /\ Fit(a, T) /\ a # Main
        /\ \A b \in Handlers : b # a => Todo(b) = {}
        /\ ~stopped
    BY <1>2, <2>1, OuterAlone DEF OuterOps, Fit
  <2>3. \A x \in S : x \notin {"tunDown", "tunDownAbort", "tunClose", "adopt", "forget", "modeUp", "tunUp"}
    BY <2>1, Ranks
  <2>4. dns' = dns
    BY <1>3 DEF DoTunUp
  <2>5. OuterOne(a, S)'
    BY <1>1, <2>1, <2>2, <2>3, <2>4 DEF OuterOne, OuterFor, IncludesWGCP0, Fit, tunVars
  <2> QED
    BY <1>1, <2>1, <2>2, <2>5, OuterStays
<1>4. CASE DoTunDown(a)
  <2>1. PICK k, S, l :
          /\ k \in {"tunDown", "tunDownAbort"}
          /\ k \in T /\ \A x \in T \ {k} : Rank(k) < Rank(x)
          /\ Moves(a, S, l)
          /\ \/ tunState' = "closed" /\ S = T \ {k}
             \/ tunState' = "error" /\ (S = T \ {k} \/ (S = {} /\ k = "tunDownAbort"))
    BY <1>2, <1>4, TunDownMoves DEF Base
  <2>2. /\ a \in Handlers /\ OuterOne(a, T) /\ Fit(a, T)
        /\ \A b \in Handlers : b # a => Todo(b) = {}
        /\ a # Main => ~stopped
    BY <1>2, <2>1, OuterAlone DEF OuterOps
  <2>3. "dnsRestore" \notin T /\ "dnsApply" \notin T /\ dns # "applied"
    BY <2>1, <2>2, Ranks DEF Fit, OuterOne, OuterFor
  <2>4. dns' = dns /\ tunState' # "up"
    BY <1>4 DEF DoTunDown
  <2>5. OuterOne(a, S)'
    BY <1>1, <2>1, <2>2, <2>3, <2>4 DEF OuterOne, OuterFor, IncludesWGCP0, Fit
  <2> QED
    BY <1>1, <2>1, <2>2, <2>5, OuterStays
<1>5. CASE DoTunClose(a)
  <2>1. PICK S, l : /\ "tunClose" \in T /\ \A x \in T \ {"tunClose"} : Rank("tunClose") < Rank(x)
                    /\ Moves(a, S, l) /\ S = T \ {"tunClose"}
    BY <1>2, <1>5, Pops DEF DoTunClose, Base
  <2>2. /\ a \in Handlers /\ OuterOne(a, T) /\ Fit(a, T)
        /\ \A b \in Handlers : b # a => Todo(b) = {}
    BY <1>2, <2>1, OuterAlone DEF OuterOps
  <2>3. S = {} /\ dns # "applied"
    BY <2>1, <2>2, Ranks DEF Fit, OuterOne, OuterFor
  <2>4. dns' = dns /\ tunState' = "closed"
    BY <1>5 DEF DoTunClose, TunCloseState, Base, DaemonInv
  <2>5. OuterOne(a, S)'
    BY <2>3, <2>4 DEF OuterOne, OuterFor
  <2> QED
    BY <1>1, <2>1, <2>2, <2>5, OuterStays
<1>6. CASE DoDnsApply(a) \/ DoDnsRestore(a)
  <2>1. PICK op \in {"dnsApply", "dnsRestore"} :
          /\ At(a, op) /\ Proceed(a) /\ UNCHANGED tunState
          /\ op = "dnsRestore" => dns' # "applied"
    BY <1>6 DEF DoDnsApply, DoDnsRestore, At, tunVars
  <2>2. PICK S, l : /\ op \in T /\ \A x \in T \ {op} : Rank(op) < Rank(x)
                    /\ Moves(a, S, l) /\ S = T \ {op}
    BY <1>2, <2>1, Pops DEF Base
  <2>3. /\ a \in Handlers /\ OuterOne(a, T) /\ Fit(a, T)
        /\ \A b \in Handlers : b # a => Todo(b) = {}
        /\ a # Main => ~stopped
    BY <1>2, <2>2, OuterAlone DEF OuterOps
  <2>4. CASE op = "dnsApply"
    <3>1. \A x \in S : x \notin {"tunDown", "tunDownAbort", "tunClose", "adopt", "forget"}
      BY <2>2, <2>4, Ranks
    <3>2. a # Main /\ ~stopped
      BY <2>2, <2>3, <2>4 DEF Fit
    <3>3. OuterOne(a, S)'
      BY <1>1, <2>1, <2>2, <2>3, <2>4, <3>1, <3>2 DEF OuterOne, OuterFor, IncludesWGCP0
    <3> QED
      BY <1>1, <2>2, <2>3, <3>3, OuterStays
  <2>5. CASE op = "dnsRestore"
    <3>1. OuterOne(a, S)'
      BY <1>1, <2>1, <2>2, <2>3, <2>5 DEF OuterOne, OuterFor, IncludesWGCP0
    <3> QED
      BY <1>1, <2>2, <2>3, <3>1, OuterStays
  <2> QED
    BY <2>4, <2>5
<1> QED
  BY <1>3, <1>4, <1>5, <1>6

LEMMA OuterMesh ==
    ASSUME Base, OuterInv, NEW a \in Actors,
           \/ DoMeshConfigure(a) \/ DoMeshStart(a) \/ StartOk(a) \/ StartFail(a)
           \/ DoMeshDisconnect(a) \/ DoMeshClose(a)
           \/ DoMeshEnsure(a) \/ DoWant(a) \/ DoDetach(a) \/ DoAttach(a)
           \/ DoModeMeshUp(a) \/ DoReconnect(a)
    PROVE  OuterInv'
<1>1. UNCHANGED <<mode, bundle, tunState, dns, stopped, crossed>>
  BY DEF DoMeshConfigure, DoMeshStart, StartOk, StartFail, DoMeshDisconnect, DoMeshClose,
         DoMeshEnsure, DoWant, DoDetach, DoAttach, DoModeMeshUp, DoReconnect,
         daemonVars, tunVars, ctlVars
<1>2. PICK T : T = Todo(a)
  OBVIOUS
<1>3. ASSUME NEW S, NEW l, Moves(a, S, l), \A k \in OuterOps : k \in S <=> k \in T
      PROVE  OuterInv'
  <2>1. \A b \in Actors : \A k \in OuterOps : k \in Todo(b)' <=> k \in Todo(b)
    BY <1>2, <1>3 DEF Moves
  <2> QED
    BY <1>1, <2>1, OuterFrame
<1>4. ASSUME NEW op, At(a, op), Proceed(a), op \notin OuterOps PROVE OuterInv'
  <2>1. PICK S, l : S = T \ {op} /\ Moves(a, S, l)
    BY <1>2, <1>4, Pops DEF Base, OuterOps
  <2> QED
    BY <1>3, <1>4, <2>1
<1>5. CASE \/ DoMeshConfigure(a) \/ StartOk(a) \/ StartFail(a) \/ DoMeshDisconnect(a)
           \/ DoMeshClose(a) \/ DoWant(a) \/ DoAttach(a)
  <2>1. PICK op \in {"meshConfigure", "starting", "meshDisconnect", "meshClose", "want",
                     "unwant", "attach"} : At(a, op) /\ Proceed(a)
    BY <1>5 DEF DoMeshConfigure, StartOk, StartFail, DoMeshDisconnect, DoMeshClose, DoWant,
                DoAttach
  <2> QED
    BY <1>4, <2>1 DEF OuterOps
<1>6. CASE DoMeshStart(a)
  <2>1. PICK S, l : T = {"meshStart"} /\ Moves(a, S, l) /\ S \in {{}, {"starting"}}
    BY <1>2, <1>6, MeshStartMoves DEF Base
  <2> QED
    BY <1>3, <2>1 DEF OuterOps
<1>7. CASE DoMeshEnsure(a)
  <2>1. PICK S, l : Moves(a, S, l) /\ S = T \ {"meshEnsure"}
    BY <1>2, <1>7, MeshEnsureMoves DEF Base
  <2> QED
    BY <1>3, <2>1 DEF OuterOps
<1>8. CASE DoDetach(a)
  <2>1. PICK op \in Detach : At(a, op)
    BY <1>8 DEF DoDetach, Detach
  <2>2. PICK S, l : /\ Moves(a, S, l)
                    /\ S = (IF handle = None THEN {} ELSE {"meshDisconnect", "meshClose"})
                             \cup (T \ {op})
    BY <1>2, <1>8, <2>1, DetachMoves DEF Base
  <2> QED
    BY <1>3, <2>1, <2>2 DEF OuterOps, Detach
<1>9. CASE DoModeMeshUp(a)
  <2>1. PICK S, l : /\ Moves(a, S, l) /\ T = {"modeMeshUp"}
                    /\ S = {} \/ S = {"meshConfigure", "meshStart"}
    <3>1. Todo(a) = {"modeMeshUp"} /\ \E S, l :
            /\ \/ S = {}
               \/ S = {"meshConfigure", "meshStart"} /\ handle # None /\ bundle # None
            /\ l = [loc[a] EXCEPT !.mesh = handle, !.bundle = bundle]
            /\ Moves(a, S, l)
      BY <1>9, ModeMeshUpMoves DEF Base
    <3> QED
      BY <1>2, <3>1
  <2> QED
    BY <1>3, <2>1 DEF OuterOps
<1>10. CASE DoReconnect(a)
  <2>1. PICK S, l : /\ Moves(a, S, l) /\ T = {"reconnect"}
                    /\ S \in {{}, {"meshConfigure", "meshStart"},
                              {"meshDisconnect", "meshConfigure", "meshStart"}}
    BY <1>2, <1>10, ReconnectMoves DEF Base
  <2> QED
    BY <1>3, <2>1 DEF OuterOps
<1> QED
  BY <1>5, <1>6, <1>7, <1>8, <1>9, <1>10

LEMMA OuterSections ==
    ASSUME Base, OuterInv, NEW a \in Actors, ~crossed, DoModeUp(a) \/ DoAdopt(a) \/ DoForget(a)
    PROVE  OuterInv'
<1>1. UNCHANGED <<tunState, dns, stopped, crossed>>
  BY DEF DoModeUp, DoAdopt, DoForget, tunVars, ctlVars
<1>2. PICK T : T = Todo(a)
  OBVIOUS
<1>3. CASE DoModeUp(a)
  <2>1. PICK S, l : /\ "modeUp" \in T /\ \A x \in T \ {"modeUp"} : Rank("modeUp") < Rank(x)
                    /\ \/ S = T \ {"modeUp"}
                       \/ S = {"tunUp"} \cup (T \ {"modeUp"}) /\ bundle # None
                    /\ Moves(a, S, l)
    BY <1>2, <1>3, ModeUpMoves DEF Base
  <2>2. /\ a \in Handlers /\ OuterOne(a, T) /\ a # Main /\ ~stopped
        /\ \A b \in Handlers : b # a => Todo(b) = {}
    BY <1>2, <2>1, OuterAlone DEF OuterOps, Fit
  <2>3. UNCHANGED <<mode, bundle>>
    BY <1>3 DEF DoModeUp, daemonVars
  <2>4. \A x \in S : x \notin {"tunDown", "tunDownAbort", "tunClose", "adopt", "forget"}
    BY <2>1, Ranks
  <2>5. OuterOne(a, S)'
    BY <1>1, <2>1, <2>2, <2>3, <2>4 DEF OuterOne, OuterFor, IncludesWGCP0
  <2> QED
    BY <1>1, <2>1, <2>2, <2>5, OuterStays
<1>4. CASE DoAdopt(a)
  <2>1. PICK S, l : /\ T = {"adopt"} /\ Moves(a, S, l)
                    /\ S = (IF IncludesWGCP0(mode') /\ HasOuter(bundle') THEN {"tunUp"} ELSE {})
                           \cup (IF IncludesNetbird(mode') THEN {"meshConfigure", "meshStart"}
                                 ELSE {})
    BY <1>2, <1>4, AdoptMoves DEF Base
  <2>2. /\ a \in Handlers /\ OuterOne(a, T) /\ a # Main /\ ~stopped
        /\ \A b \in Handlers : b # a => Todo(b) = {}
    <3>1. "adopt" \in T /\ T \cap OuterOps # {}
      BY <2>1 DEF OuterOps
    <3>2. /\ a \in Handlers /\ OuterOne(a, T) /\ Fit(a, T)
          /\ \A b \in Handlers : b # a => Todo(b) = {}
          /\ a # Main => ~stopped
      BY <1>2, <3>1, OuterAlone
    <3> QED
      BY <3>1, <3>2 DEF Fit
  <2>3. bundle' # None
    BY <1>2, <1>4, <2>1 DEF DoAdopt, Base, LocInv
  <2>4. tunState # "up" /\ dns # "applied"
    BY <2>1, <2>2 DEF OuterOne, OuterFor
  <2>5. OuterOne(a, S)'
    BY <1>1, <2>1, <2>2, <2>3, <2>4 DEF OuterOne, OuterFor
  <2> QED
    BY <1>1, <2>1, <2>2, <2>5, OuterStays
<1>5. CASE DoForget(a)
  <2>1. PICK S, l : /\ "forget" \in T /\ \A x \in T \ {"forget"} : Rank("forget") < Rank(x)
                    /\ Moves(a, S, l) /\ S = T \ {"forget"}
    BY <1>2, <1>5, Pops DEF DoForget, Base
  <2>2. /\ a \in Handlers /\ OuterOne(a, T) /\ Fit(a, T) /\ a # Main /\ ~stopped
        /\ \A b \in Handlers : b # a => Todo(b) = {}
    BY <1>2, <2>1, OuterAlone DEF OuterOps, Fit
  <2>3. S = {}
    BY <2>1, <2>2, Ranks DEF Fit, TearDown
  <2>4. tunState # "up" /\ dns # "applied"
    BY <2>1, <2>2, <2>3, Ranks DEF OuterOne, OuterFor
  <2>5. OuterOne(a, S)'
    BY <1>1, <2>2, <2>3, <2>4 DEF OuterOne, OuterFor
  <2> QED
    BY <1>1, <2>1, <2>2, <2>5, OuterStays
<1> QED
  BY <1>3, <1>4, <1>5

LEMMA OuterStep == ASSUME Base, OuterInv, NEW a \in Actors, Step(a) PROVE OuterInv'
<1>1. UNCHANGED crossed
  BY DEF Step, DoTunUp, DoTunDown, DoTunClose, DoDnsApply, DoDnsRestore, DoMeshConfigure,
     DoMeshStart, StartOk,
         StartFail, DoMeshDisconnect, DoMeshClose, DoMeshEnsure, DoWant, DoDetach, DoAttach,
         DoModeUp, DoModeMeshUp, DoReconnect, DoAdopt, DoForget, ctlVars
<1>2. CASE crossed
  BY <1>1, <1>2 DEF OuterInv
<1>3. CASE ~crossed
  BY <1>3, OuterTunnel, OuterMesh, OuterSections DEF Step
<1> QED
  BY <1>2, <1>3

-----------------------------------------------------------------------------
(* The inner leg, seen from the one actor at work. *)
MeshOne(T, l) ==
    /\ \A m \in Meshes : Held(m) => m = handle \/ (l.mesh = m /\ "meshDisconnect" \in T)
    /\ ~IncludesNetbird(mode) => \A m \in Meshes : Held(m) => Stops(T, l, m)
    /\ bundle = None => \A m \in Meshes : ~Held(m)
    /\ MeshFor(T, l)

LEMMA MeshSplits ==
    ASSUME Base, MeshInv, Clean, NEW a \in Actors, NEW T, NEW l, T = Todo(a), l = loc[a],
           T # {} \/ \A b \in Actors : Todo(b) = {}
    PROVE  MeshOne(T, l) /\ \A b \in Actors : b # a => Todo(b) = {}
<1>1. \A b \in Actors : b # a => Todo(b) = {}
  BY BusyTodo DEF Base, SoloInv, Clean
<1>2. \A b \in Actors, m \in Meshes :
        (loc[b].mesh = m /\ "meshDisconnect" \in Todo(b)) => l.mesh = m /\ "meshDisconnect" \in T
  BY <1>1
<1>3. \A b \in Actors, m \in Meshes : Stops(Todo(b), loc[b], m) => Stops(T, l, m)
  BY <1>1 DEF Stops
<1>4. MeshFor(T, l)
  BY DEF MeshInv
<1> QED
  BY <1>1, <1>2, <1>3, <1>4 DEF MeshInv, MeshOne

LEMMA MeshJoins ==
    ASSUME NEW a \in Actors, NEW S, NEW l, Moves(a, S, l),
           Clean' => (\A b \in Actors : b # a => Todo(b) = {}) /\ MeshOne(S, l)'
    PROVE  MeshInv'
<1> SUFFICES ASSUME Clean' PROVE MeshInv'
  BY DEF MeshInv
<1>1. \A b \in Actors : Todo(b)' = IF b = a THEN S ELSE {}
  BY DEF Moves
<1>2. S # {} => loc'[a] = l
  BY DEF Moves
<1>3. \A m \in Meshes : (l.mesh = m /\ "meshDisconnect" \in S) =>
        loc'[a].mesh = m /\ "meshDisconnect" \in Todo(a)'
  BY <1>1, <1>2
<1>4. \A m \in Meshes : Stops(S, l, m) => Stops(Todo(a), loc[a], m)'
  BY <1>1, <1>2 DEF Stops
<1>5. ASSUME NEW b \in Actors PROVE MeshFor(Todo(b), loc[b])'
  <2>1. CASE b = a /\ S # {}
    <3>1. Todo(b)' = S /\ loc'[b] = l
      BY <1>1, <1>2, <2>1
    <3> QED
      BY <3>1 DEF MeshOne, MeshFor, Stops
  <2>2. CASE b # a \/ S = {}
    <3>1. Todo(b)' = {}
      BY <1>1, <2>2
    <3> QED
      BY <3>1 DEF MeshFor
  <2> QED
    BY <2>1, <2>2
<1> QED
  BY <1>3, <1>4, <1>5 DEF MeshInv, MeshOne

(* A call that leaves the inner leg alone or only lets go of a client. *)
LEMMA MeshFrame ==
    ASSUME NEW T, NEW S, NEW l, MeshOne(T, l), UNCHANGED <<mode, handle, bundle>>,
           \A m \in Meshes : Held(m)' => Held(m),
           \A k \in {"modeMeshUp", "tunDownAbort", "attach", "adopt", "forget", "meshEnsure"} :
              k \in S => k \in T,
           S \cap (Start \cup {"reconnect"}) # {} => T \cap (Start \cup {"reconnect"}) # {},
           "meshEnsure" \in T => "meshEnsure" \in S \/ S = {},
           "meshDisconnect" \in T <=> "meshDisconnect" \in S,
           T \cap Detach # {} <=> S \cap Detach # {}
    PROVE  MeshOne(S, l)'
<1>1. \A m \in Meshes : Stops(S, l, m) <=> Stops(T, l, m)
  BY DEF Stops
<1>2. MeshFor(S, l)'
  BY <1>1 DEF MeshOne, MeshFor, IncludesNetbird, Stops
<1> QED
  BY <1>1, <1>2 DEF MeshOne, IncludesNetbird, Stops

(* The actor at work while the histories are clean. *)
LEMMA MeshAlone ==
    ASSUME Base, MeshInv, NEW a \in Actors, NEW T, T = Todo(a), T # {}, Clean,
           NEW l, l = loc[a]
    PROVE  /\ MeshOne(T, l) /\ Fit(a, T)
           /\ \A b \in Actors : b # a => Todo(b) = {}
BY MeshSplits DEF Base, PlanInv

LEMMA MeshTunnel ==
    ASSUME Base, MeshInv, NEW a \in Actors, Clean,
           DoTunUp(a) \/ DoTunDown(a) \/ DoTunClose(a) \/ DoDnsApply(a) \/ DoDnsRestore(a) \/ DoModeUp(a) \/ DoWant(a)
    PROVE  MeshInv'
<1>1. UNCHANGED <<mode, handle, bundle>> /\ \A m \in Meshes : Held(m)' => Held(m)
  BY DEF DoTunUp, DoTunDown, DoTunClose, DoDnsApply, DoDnsRestore, DoModeUp, DoWant,
     daemonVars, meshVars, Held
<1>2. PICK T, l : T = Todo(a) /\ l = loc[a]
  OBVIOUS
<1>3. ASSUME NEW S, Moves(a, S, l), T # {}, MeshOne(S, l)' PROVE MeshInv'
  BY <1>2, <1>3, MeshAlone, MeshJoins
<1>4. ASSUME NEW op, op # "tunDown", At(a, op), Proceed(a),
             op \in {"tunClose", "dnsApply", "dnsRestore", "want", "unwant"}
      PROVE  MeshInv'
  <2>1. PICK S : op \in T /\ S = T \ {op} /\ Moves(a, S, l)
    BY <1>2, <1>4, Pops DEF Base
  <2>2. MeshOne(T, l)
    BY <1>2, <2>1, MeshAlone
  <2>3. MeshOne(S, l)'
    BY <1>1, <1>4, <2>1, <2>2, MeshFrame DEF Start, Detach
  <2> QED
    BY <1>3, <2>1, <2>3
<1>5. CASE DoTunUp(a)
  <2>1. PICK S : /\ "tunUp" \in T /\ \A x \in T \ {"tunUp"} : Rank("tunUp") < Rank(x)
                 /\ Moves(a, S, l)
                 /\ S \in {{}, T \ {"tunUp"}, (T \ {"tunUp"}) \cup {"dnsApply"}}
    BY <1>2, <1>5, TunUpMoves DEF Base
  <2>2. MeshOne(T, l)
    BY <1>2, <2>1, MeshAlone
  <2>3. T \cap Detach = {} /\ "meshDisconnect" \notin T
    BY <2>1, Ranks DEF Detach
  <2>4. MeshOne(S, l)'
    BY <1>1, <2>1, <2>2, <2>3, MeshFrame DEF Start, Detach
  <2> QED
    BY <1>3, <2>1, <2>4
<1>6. CASE DoTunDown(a)
  <2>1. PICK k, S : /\ k \in {"tunDown", "tunDownAbort"} /\ k \in T /\ Moves(a, S, l)
                    /\ S = T \ {k} \/ (S = {} /\ k = "tunDownAbort")
    BY <1>2, <1>6, TunDownMoves DEF Base
  <2>2. MeshOne(T, l) /\ Fit(a, T)
    BY <1>2, <2>1, MeshAlone
  <2>3. CASE S = T \ {k}
    <3>1. MeshOne(S, l)'
      BY <1>1, <2>1, <2>2, <2>3, MeshFrame DEF Start, Detach
    <3> QED
      BY <1>3, <2>1, <3>1
  <2>4. CASE S = {} /\ k = "tunDownAbort"
    <3>1. T \cap Detach = {}
      BY <2>1, <2>2, <2>4 DEF Fit, Detach
    <3>2. /\ \A m \in Meshes : Held(m) => m = handle
          /\ ~IncludesNetbird(mode) => \A m \in Meshes : ~Held(m)
      BY <2>1, <2>2, <2>4, <3>1 DEF MeshOne, MeshFor, Stops
    <3>3. MeshFor(S, l)'
      BY <2>4 DEF MeshFor
    <3>4. MeshOne(S, l)'
      BY <1>1, <2>2, <3>2, <3>3 DEF MeshOne, IncludesNetbird
    <3> QED
      BY <1>3, <2>1, <3>4
  <2> QED
    BY <2>1, <2>3, <2>4
<1>7. CASE DoTunClose(a) \/ DoDnsApply(a) \/ DoDnsRestore(a) \/ DoWant(a)
  <2>1. PICK op \in {"tunClose", "dnsApply", "dnsRestore", "want", "unwant"} :
          At(a, op) /\ Proceed(a)
    BY <1>7 DEF DoTunClose, DoDnsApply, DoDnsRestore, DoWant
  <2> QED
    BY <1>4, <2>1
<1>8. CASE DoModeUp(a)
  <2>1. PICK S : /\ "modeUp" \in T /\ Moves(a, S, l)
                 /\ S \in {T \ {"modeUp"}, {"tunUp"} \cup (T \ {"modeUp"})}
    BY <1>2, <1>8, ModeUpMoves DEF Base
  <2>2. MeshOne(T, l)
    BY <1>2, <2>1, MeshAlone
  <2>3. MeshOne(S, l)'
    BY <1>1, <2>1, <2>2, MeshFrame DEF Start, Detach
  <2> QED
    BY <1>3, <2>1, <2>3
<1> QED
  BY <1>5, <1>6, <1>7, <1>8

LEMMA MeshObject ==
    ASSUME Base, MeshInv, NEW a \in Actors, Clean,
           \/ DoMeshConfigure(a) \/ DoMeshStart(a) \/ StartOk(a) \/ StartFail(a)
           \/ DoMeshDisconnect(a) \/ DoMeshClose(a)
    PROVE  MeshInv'
<1>1. UNCHANGED <<mode, handle, bundle>>
  BY DEF DoMeshConfigure, DoMeshStart, StartOk, StartFail, DoMeshDisconnect, DoMeshClose,
         daemonVars
<1>2. PICK T, l : T = Todo(a) /\ l = loc[a]
  OBVIOUS
<1>3. ASSUME NEW S, Moves(a, S, l), T # {}, MeshOne(S, l)' PROVE MeshInv'
  BY <1>2, <1>3, MeshAlone, MeshJoins
<1>4. meshClient \in [Meshes -> Clients \cup {None}]
  BY DEF Base, DaemonInv
<1>5. CASE DoMeshConfigure(a) \/ StartFail(a) \/ DoMeshClose(a)
  <2>1. PICK op \in {"meshConfigure", "starting", "meshClose"} : At(a, op) /\ Proceed(a)
    BY <1>5 DEF DoMeshConfigure, StartFail, DoMeshClose
  <2>2. PICK S : op \in T /\ S = T \ {op} /\ Moves(a, S, l)
    BY <1>2, <2>1, Pops DEF Base
  <2>3. MeshOne(T, l)
    BY <1>2, <2>2, MeshAlone
  <2>4. \A m \in Meshes : Held(m)' => Held(m)
    BY <1>4, <1>5 DEF DoMeshConfigure, StartFail, DoMeshClose, Held, meshVars
  <2>5. MeshOne(S, l)'
    BY <1>1, <2>1, <2>2, <2>3, <2>4, MeshFrame DEF Start, Detach
  <2> QED
    BY <1>3, <2>2, <2>5
<1>6. CASE DoMeshStart(a)
  <2>1. PICK S : T = {"meshStart"} /\ Moves(a, S, l) /\ S \in {{}, {"starting"}}
    BY <1>2, <1>6, MeshStartMoves DEF Base
  <2>2. MeshOne(T, l)
    BY <1>2, <2>1, MeshAlone
  <2>3. \A m \in Meshes : Held(m)' => Held(m)
    BY <1>6 DEF DoMeshStart, Held
  <2>4. MeshOne(S, l)'
    BY <1>1, <2>1, <2>2, <2>3, MeshFrame DEF Start, Detach
  <2> QED
    BY <1>3, <2>1, <2>4
<1>7. CASE StartOk(a)
  <2>1. PICK S : /\ "starting" \in T /\ \A x \in T \ {"starting"} : Rank("starting") < Rank(x)
                 /\ S = T \ {"starting"} /\ Moves(a, S, l)
    BY <1>2, <1>7, Pops DEF StartOk, Base
  <2>2. T = {"starting"} /\ S = {}
    BY <2>1 DEF Rank
  <2>3. MeshOne(T, l)
    BY <1>2, <2>1, MeshAlone
  <2>4. l.mesh = handle /\ IncludesNetbird(mode) /\ bundle # None
    BY <2>2, <2>3 DEF MeshOne, MeshFor, Start
  <2>5. \A m \in Meshes : Held(m)' => m = l.mesh \/ Held(m)
    BY <1>2, <1>4, <1>7 DEF StartOk, Held
  <2>6. \A m \in Meshes : Held(m)' => m = handle
    BY <2>2, <2>3, <2>4, <2>5 DEF MeshOne
  <2>7. MeshFor(S, l)'
    BY <2>2 DEF MeshFor
  <2>8. MeshOne(S, l)'
    BY <1>1, <2>4, <2>6, <2>7 DEF MeshOne, IncludesNetbird
  <2> QED
    BY <1>3, <2>1, <2>8
<1>8. CASE DoMeshDisconnect(a)
  <2>1. PICK S : "meshDisconnect" \in T /\ S = T \ {"meshDisconnect"} /\ Moves(a, S, l)
    BY <1>2, <1>8, Pops DEF DoMeshDisconnect, Base
  <2>2. MeshOne(T, l)
    BY <1>2, <2>1, MeshAlone
  <2>3. \A m \in Meshes : Held(m)' => Held(m) /\ m # l.mesh
    BY <1>2, <1>4, <1>8 DEF DoMeshDisconnect, Held
  <2>4. \A m \in Meshes : m # l.mesh /\ Stops(T, l, m) => Stops(S, l, m)
    BY <2>1 DEF Stops, Detach
  <2>5. MeshFor(S, l)'
    BY <1>1, <2>1, <2>2, <2>3, <2>4 DEF MeshOne, MeshFor, Stops, IncludesNetbird, Start
  <2>6. MeshOne(S, l)'
    BY <1>1, <2>2, <2>3, <2>4, <2>5 DEF MeshOne, Stops, IncludesNetbird
  <2> QED
    BY <1>3, <2>1, <2>6
<1> QED
  BY <1>5, <1>6, <1>7, <1>8

LEMMA MeshSections ==
    ASSUME Base, MeshInv, NEW a \in Actors, Clean,
           \/ DoMeshEnsure(a) \/ DoDetach(a) \/ DoAttach(a) \/ DoModeMeshUp(a)
           \/ DoReconnect(a) \/ DoAdopt(a) \/ DoForget(a)
    PROVE  MeshInv'
<1>1. \A m \in Meshes : Held(m)' <=> Held(m)
  BY DEF DoMeshEnsure, DoDetach, DoAttach, DoModeMeshUp, DoReconnect, DoAdopt, DoForget,
         meshVars, Held
<1>2. PICK T, l : T = Todo(a) /\ l = loc[a]
  OBVIOUS
<1>3. ASSUME NEW S, NEW k, Moves(a, S, k), T # {}, MeshOne(S, k)' PROVE MeshInv'
  BY <1>2, <1>3, MeshAlone, MeshJoins
<1>4. l \in LocRec /\ None \notin Meshes
  BY <1>2 DEF Base, LocInv, Meshes
<1>5. CASE DoMeshEnsure(a)
  <2>1. PICK S, k : /\ "meshEnsure" \in T
                    /\ \A x \in T \ {"meshEnsure"} : Rank("meshEnsure") < Rank(x)
                    /\ S = T \ {"meshEnsure"} /\ k = [l EXCEPT !.mesh = handle']
                    /\ Moves(a, S, k)
    BY <1>2, <1>5, MeshEnsureMoves DEF Base
  <2>2. MeshOne(T, l)
    BY <1>2, <2>1, MeshAlone
  <2>3. \A x \in S : x \notin {"meshEnsure", "meshDisconnect"}
    BY <2>1, Ranks
  <2>4. \A m \in Meshes : ~Held(m)
    BY <1>4, <2>1, <2>2, <2>3 DEF MeshOne, MeshFor
  <2>5. k.mesh = handle' /\ UNCHANGED <<mode, bundle>>
    BY <1>4, <1>5, <2>1 DEF DoMeshEnsure, LocRec
  <2>6. MeshFor(S, k)'
    BY <1>1, <2>1, <2>2, <2>3, <2>4, <2>5 DEF MeshOne, MeshFor, IncludesNetbird
  <2>7. MeshOne(S, k)'
    BY <1>1, <2>4, <2>6 DEF MeshOne
  <2> QED
    BY <1>3, <2>1, <2>7
<1>6. CASE DoDetach(a)
  <2>1. PICK op \in Detach : At(a, op)
    BY <1>6 DEF DoDetach, Detach
  <2>2. PICK S, k : /\ op \in T /\ \A x \in T \ {op} : Rank(op) < Rank(x)
                    /\ S = (IF handle = None THEN {} ELSE {"meshDisconnect", "meshClose"})
                             \cup (T \ {op})
                    /\ k = [l EXCEPT !.mesh = handle]
                    /\ Moves(a, S, k)
    BY <1>2, <1>6, <2>1, DetachMoves DEF Base
  <2>3. MeshOne(T, l) /\ Fit(a, T)
    BY <1>2, <2>2, MeshAlone
  <2>4. k.mesh = handle /\ handle' = None /\ UNCHANGED <<mode, bundle>>
    BY <1>4, <1>6, <2>2 DEF DoDetach, LocRec
  <2>5. \A x \in S : x \notin {"meshEnsure", "meshStart", "starting", "reconnect", "attach",
                               "tunDownAbort"}
    <3>1. T \cap Detach # {}
      BY <2>1, <2>2
    <3>2. \A x \in T \ {op} : x \notin {"reconnect", "attach", "tunDownAbort"}
      BY <2>1, <2>2, Ranks DEF Detach
    <3> QED
      BY <2>2, <2>3, <3>1, <3>2 DEF Fit
  <2>6. "meshDisconnect" \notin T
    BY <2>1, <2>2, <2>3 DEF Fit
  <2>7. \A m \in Meshes : Held(m) => m = handle /\ Stops(S, k, m)
    BY <1>4, <2>2, <2>3, <2>4, <2>6 DEF MeshOne, Stops
  <2>8. MeshFor(S, k)'
    BY <1>1, <2>2, <2>3, <2>4, <2>5, <2>7 DEF MeshOne, MeshFor, IncludesNetbird, Start,
       Stops
  <2>9. MeshOne(S, k)'
    BY <1>1, <1>4, <2>2, <2>3, <2>4, <2>7, <2>8 DEF MeshOne, Stops
  <2> QED
    BY <1>3, <2>2, <2>9
<1>7. CASE DoAttach(a)
  <2>1. PICK S : "attach" \in T /\ S = T \ {"attach"} /\ Moves(a, S, l)
                 /\ \A x \in T \ {"attach"} : Rank("attach") < Rank(x)
    BY <1>2, <1>7, Pops DEF DoAttach, Base
  <2>2. MeshOne(T, l) /\ Fit(a, T)
    BY <1>2, <2>1, MeshAlone
  <2>3. \A m \in Meshes : ~Held(m)
    BY <2>1, <2>2 DEF MeshOne, MeshFor
  <2>4. \A x \in S : x \notin {"meshEnsure", "meshStart", "starting", "reconnect", "meshDisconnect"}
    BY <2>1, <2>2, Ranks DEF Fit
  <2>5. UNCHANGED <<mode, bundle>>
    BY <1>7 DEF DoAttach
  <2>6. MeshFor(S, l)'
    BY <1>1, <2>1, <2>2, <2>3, <2>4, <2>5 DEF MeshOne, MeshFor, IncludesNetbird, Start
  <2>7. MeshOne(S, l)'
    BY <1>1, <2>3, <2>6 DEF MeshOne
  <2> QED
    BY <1>3, <2>1, <2>7
<1>8. CASE DoModeMeshUp(a)
  <2>1. PICK S, k : /\ T = {"modeMeshUp"}
                    /\ S = {} \/ (S = {"meshConfigure", "meshStart"} /\ bundle # None)
                    /\ k = [l EXCEPT !.mesh = handle, !.bundle = bundle]
                    /\ Moves(a, S, k)
    <3>1. Todo(a) = {"modeMeshUp"} /\ \E S, k :
            /\ \/ S = {}
               \/ S = {"meshConfigure", "meshStart"} /\ handle # None /\ bundle # None
            /\ k = [loc[a] EXCEPT !.mesh = handle, !.bundle = bundle]
            /\ Moves(a, S, k)
      BY <1>8, ModeMeshUpMoves DEF Base
    <3> QED
      BY <1>2, <3>1
  <2>2. MeshOne(T, l)
    BY <1>2, <2>1, MeshAlone
  <2>3. k.mesh = handle /\ UNCHANGED <<mode, bundle, handle>>
    BY <1>4, <1>8, <2>1 DEF DoModeMeshUp, LocRec, daemonVars
  <2>4. IncludesNetbird(mode) /\ \A m \in Meshes : Held(m) => m = handle
    BY <2>1, <2>2 DEF MeshOne, MeshFor
  <2>5. MeshFor(S, k)'
    BY <2>1, <2>3, <2>4 DEF MeshFor, IncludesNetbird, Start
  <2>6. MeshOne(S, k)'
    BY <1>1, <2>2, <2>3, <2>4, <2>5 DEF MeshOne, IncludesNetbird
  <2> QED
    BY <1>3, <2>1, <2>6
<1>9. CASE DoReconnect(a)
  <2>1. PICK S : /\ T = {"reconnect"} /\ Moves(a, S, l)
                 /\ S \in {{}, {"meshConfigure", "meshStart"},
                           {"meshDisconnect", "meshConfigure", "meshStart"}}
    BY <1>2, <1>9, ReconnectMoves DEF Base
  <2>2. MeshOne(T, l)
    BY <1>2, <2>1, MeshAlone
  <2>3. UNCHANGED <<mode, bundle, handle>>
    BY <1>9 DEF DoReconnect, daemonVars
  <2>4. /\ IncludesNetbird(mode) /\ bundle # None /\ l.mesh = handle
        /\ \A m \in Meshes : Held(m) => m = handle
    BY <2>1, <2>2 DEF MeshOne, MeshFor
  <2>5. MeshFor(S, l)'
    BY <2>1, <2>3, <2>4 DEF MeshFor, IncludesNetbird, Start
  <2>6. MeshOne(S, l)'
    BY <1>1, <2>3, <2>4, <2>5 DEF MeshOne, IncludesNetbird
  <2> QED
    BY <1>3, <2>1, <2>6
<1>10. CASE DoAdopt(a)
  <2>1. PICK S, k : /\ T = {"adopt"} /\ Moves(a, S, k)
                    /\ S = (IF IncludesWGCP0(mode') /\ HasOuter(bundle') THEN {"tunUp"} ELSE {})
                           \cup (IF IncludesNetbird(mode') THEN {"meshConfigure", "meshStart"}
                                 ELSE {})
                    /\ k = [l EXCEPT !.mesh = handle']
    BY <1>2, <1>10, AdoptMoves DEF Base
  <2>2. MeshOne(T, l)
    BY <1>2, <2>1, MeshAlone
  <2>3. k.mesh = handle'
    BY <1>4, <2>1 DEF LocRec
  <2>4. \A m \in Meshes : ~Held(m)
    BY <2>1, <2>2 DEF MeshOne, MeshFor, Stops, Detach
  <2>5. bundle' # None
    <3>1. bundle' = loc[a].bundle
      BY <1>10 DEF DoAdopt
    <3>2. loc[a].bundle \in Bundles
      BY <1>2, <2>1 DEF Base, LocInv
    <3> QED
      BY <3>1, <3>2
  <2>6. MeshFor(S, k)'
    BY <2>1, <2>3, <2>5 DEF MeshFor, Start
  <2>7. MeshOne(S, k)'
    BY <1>1, <2>4, <2>6 DEF MeshOne
  <2> QED
    BY <1>3, <2>1, <2>7
<1>11. CASE DoForget(a)
  <2>1. PICK S : /\ "forget" \in T /\ \A x \in T \ {"forget"} : Rank("forget") < Rank(x)
                 /\ Moves(a, S, l) /\ S = T \ {"forget"}
    BY <1>2, <1>11, Pops DEF DoForget, Base
  <2>2. MeshOne(T, l) /\ Fit(a, T)
    BY <1>2, <2>1, MeshAlone
  <2>3. T = {"forget"} /\ S = {}
    BY <2>1, <2>2, Ranks DEF Fit, TearDown
  <2>4. \A m \in Meshes : ~Held(m)
    BY <2>2, <2>3 DEF MeshOne, MeshFor, Stops, Detach
  <2>5. MeshFor(S, l)'
    BY <2>3 DEF MeshFor
  <2>6. MeshOne(S, l)'
    BY <1>1, <2>4, <2>5 DEF MeshOne
  <2> QED
    BY <1>3, <2>1, <2>6
<1> QED
  BY <1>5, <1>6, <1>7, <1>8, <1>9, <1>10, <1>11

LEMMA CtlStep == ASSUME NEW a \in Actors, Step(a) PROVE UNCHANGED ctlVars
BY DEF Step, DoTunUp, DoTunDown, DoTunClose, DoDnsApply, DoDnsRestore, DoMeshConfigure,
   DoMeshStart, StartOk,
       StartFail, DoMeshDisconnect, DoMeshClose, DoMeshEnsure, DoWant, DoDetach, DoAttach,
       DoModeUp, DoModeMeshUp, DoReconnect, DoAdopt, DoForget

LEMMA MeshStep == ASSUME Base, MeshInv, NEW a \in Actors, Step(a) PROVE MeshInv'
<1>1. Clean' <=> Clean
  BY CtlStep DEF ctlVars, Clean
<1>2. CASE ~Clean
  BY <1>1, <1>2 DEF MeshInv
<1>3. CASE Clean
  BY <1>3, MeshTunnel, MeshObject, MeshSections DEF Step
<1> QED
  BY <1>2, <1>3

(* Once Shutdown has begun nobody gives the daemon another mesh. *)
LEMMA DetachedStep == ASSUME Base, DetachedInv, NEW a \in Actors, Step(a) PROVE DetachedInv'
<1>1. UNCHANGED <<stopped, crossed>>
  BY CtlStep DEF ctlVars
<1> SUFFICES ASSUME stopped, ~crossed PROVE handle' = None \/ "detach" \in Todo(Main)'
  BY <1>1 DEF DetachedInv
<1>2. a # Main => a = Supervisor \/ Todo(a) = {}
  BY BusyTodo DEF Base, SoloInv, Actors, Handlers
<1>3. Fit(a, Todo(a))
  BY DEF Base, PlanInv
<1>4. \A op : op # "tunDown" /\ At(a, op) => op \in Todo(a)
  BY AtHead DEF Base
<1>5. ~DoMeshEnsure(a) /\ ~DoAttach(a) /\ ~DoAdopt(a)
  <2>1. \A op \in {"meshEnsure", "attach", "adopt"} : op \notin Todo(a)
    BY <1>2, <1>3 DEF Fit
  <2> QED
    BY <1>4, <2>1 DEF DoMeshEnsure, DoAttach, DoAdopt
<1>6. CASE DoDetach(a)
  BY <1>6 DEF DoDetach
<1>7. CASE ~DoDetach(a)
  <2>1. UNCHANGED handle
    BY <1>5, <1>7 DEF Step, DoTunUp, DoTunDown, DoTunClose, DoDnsApply, DoDnsRestore,
       DoMeshConfigure, DoMeshStart,
       StartOk, StartFail, DoMeshDisconnect, DoMeshClose, DoWant, DoModeUp, DoModeMeshUp,
       DoReconnect, DoForget, daemonVars
  <2>2. "detach" \in Todo(Main) => "detach" \in Todo(Main)'
    <3>1. ASSUME a = Main, "detach" \in Todo(Main) PROVE "detach" \in Todo(Main)'
      <4>1. \A op \in OpNames : op \notin {"tunDown", "dnsRestore", "detach", "meshDisconnect",
                                           "meshClose", "tunClose"} => ~At(a, op)
        BY <1>3, <1>4, <3>1 DEF Fit
      <4>2. CASE DoTunDown(a)
        <5>1. PICK k, S, l : /\ k \in Todo(a) /\ k \in {"tunDown", "tunDownAbort"}
                             /\ Moves(a, S, l)
                             /\ S = Todo(a) \ {k} \/ k = "tunDownAbort"
          BY <4>2, TunDownMoves DEF Base
        <5>2. S = Todo(a) \ {k}
          BY <1>3, <3>1, <5>1 DEF Fit
        <5> QED
          BY <3>1, <5>1, <5>2 DEF Moves
      <4>3. CASE DoDnsApply(a) \/ DoDnsRestore(a) \/ DoMeshDisconnect(a) \/ DoMeshClose(a) \/ DoTunClose(a)
        <5>1. PICK op \in {"dnsApply", "dnsRestore", "meshDisconnect", "meshClose", "tunClose"} :
                At(a, op) /\ Proceed(a)
          BY <4>3 DEF DoDnsApply, DoDnsRestore, DoMeshDisconnect, DoMeshClose, DoTunClose
        <5>2. PICK S, l : S = Todo(a) \ {op} /\ Moves(a, S, l)
          BY <5>1, Pops DEF Base
        <5> QED
          BY <3>1, <5>1, <5>2 DEF Moves
      <4> QED
        BY <1>7, <4>1, <4>2, <4>3 DEF OpNames, Step, DoTunUp, DoMeshConfigure, DoMeshStart,
           StartOk, StartFail, DoMeshEnsure, DoWant, DoAttach, DoModeUp, DoModeMeshUp,
           DoReconnect, DoAdopt, DoForget
    <3>2. ASSUME a # Main PROVE Todo(Main)' = Todo(Main)
      <4>1. \E p : prog' = [prog EXCEPT ![a] = p]
        BY DEF Step, DoTunUp, DoTunDown, DoTunClose, DoDnsApply, DoDnsRestore,
           DoMeshConfigure, DoMeshStart,
           StartOk, StartFail, DoMeshDisconnect, DoMeshClose, DoMeshEnsure, DoWant, DoDetach,
           DoAttach, DoModeUp, DoModeMeshUp, DoReconnect, DoAdopt, DoForget, Become, Proceed
      <4>2. prog'[Main] = prog[Main]
        BY <3>2, <4>1 DEF Base, PlanInv, Actors, Handlers
      <4> QED
        BY <4>2 DEF Todo
    <3> QED
      BY <3>1, <3>2
  <2> QED
    BY <2>1, <2>2 DEF DetachedInv
<1> QED
  BY <1>6, <1>7

-----------------------------------------------------------------------------
Inv == Base /\ OuterInv /\ MeshInv /\ DetachedInv

LEMMA InvStep == ASSUME Inv, NEW a \in Actors, Step(a) PROVE Inv'
BY BaseStep, OuterStep, MeshStep, DetachedStep DEF Inv

LEMMA HereLocals ==
    ASSUME Base
    PROVE  /\ Here \in LocRec /\ Here.mesh = handle
           /\ handle # None => handle <= made
           /\ handle \in Nat \cup {None} /\ None \notin Meshes
<1>1. /\ handle \in Nat \cup {None} /\ (handle # None => handle <= made)
      /\ mode \in Modes \cup {None} /\ bundle \in (SUBSET {"outer", "inner"}) \cup {None}
  BY DEF Base, DaemonInv
<1> QED
  BY <1>1, LocRecord DEF Here, Meshes

(* What a request finds, and what it owes. *)
LEMMA Begins ==
    ASSUME Inv, NEW a \in Conns, NEW S, NEW l, Asks(a, S, l),
           l \in LocRec, l.mesh = handle,
           "adopt" \in S => l.mode \in Modes /\ l.bundle \in Bundles,
           mode' \in Modes, UNCHANGED <<bundle, stopped>>, ~stopped,
           Clean' => enabled # "bare"
    PROVE  /\ UNCHANGED <<handle, tunState, dns>> /\ \A m \in Meshes : Held(m)' <=> Held(m)
           /\ ~crossed' => OuterOne(a, {})
           /\ Clean' => MeshOne({}, l)
           /\ (~crossed' => OuterOne(a, S)') /\ (Clean' => MeshOne(S, l)') => Inv'
<1>1. a \in Actors /\ a \in Handlers /\ a # Main
  BY ConnLegs
<1>2. /\ Base' /\ Moves(a, S, l) /\ Todo(a) = {}
      /\ UNCHANGED <<handle, meshVars, made, tunVars, dns, reach>>
      /\ ~crossed' => ~crossed /\ \A b \in Handlers : Todo(b) = {}
      /\ ~crossed' /\ ~raced' => ~raced /\ \A b \in Actors : Todo(b) = {}
  <2>1. l.mesh # None => l.mesh <= made
    BY HereLocals DEF Inv
  <2> QED
    BY <1>1, <2>1, EnterCore DEF Inv
<1>3. UNCHANGED <<handle, tunState, dns>> /\ \A m \in Meshes : Held(m)' <=> Held(m)
  BY <1>2 DEF tunVars, meshVars, Held
<1>4. ASSUME ~crossed' PROVE OuterOne(a, {})
  <2>1. PICK T : T = Todo(a)
    OBVIOUS
  <2>2. OuterOne(a, T)
    BY <1>1, <1>2, <1>4, <2>1, OuterSplits DEF Inv
  <2> QED
    BY <1>2, <2>1, <2>2
<1>5. ASSUME Clean' PROVE MeshOne({}, l)
  <2>1. PICK T, k : T = Todo(a) /\ k = loc[a]
    OBVIOUS
  <2>2. Clean /\ \A b \in Actors : Todo(b) = {}
    BY <1>2, <1>5 DEF Clean
  <2>3. MeshOne(T, k)
    BY <1>1, <2>1, <2>2, MeshSplits DEF Inv
  <2> QED
    BY <1>2, <2>1, <2>3 DEF MeshOne, MeshFor, Stops
<1>6. ASSUME ~crossed' => OuterOne(a, S)', Clean' => MeshOne(S, l)' PROVE Inv'
  <2>1. OuterInv'
    <3>1. CASE crossed'
      BY <3>1 DEF OuterInv
    <3>2. CASE ~crossed'
      <4>1. S = Todo(a)' /\ \A b \in Handlers : b # a => Todo(b)' = {}
        BY <1>1, <1>2, <3>2 DEF Moves, Handlers, Actors
      <4> QED
        BY <1>1, <1>6, <4>1, OuterJoins
    <3> QED
      BY <3>1, <3>2
  <2>2. MeshInv'
    <3>1. Clean' => \A b \in Actors : b # a => Todo(b) = {}
      BY <1>2 DEF Clean
    <3> QED
      BY <1>1, <1>2, <1>6, <3>1, MeshJoins
  <2>3. DetachedInv'
    BY DEF DetachedInv
  <2> QED
    BY <1>2, <2>1, <2>2, <2>3 DEF Inv
<1> QED
  BY <1>3, <1>4, <1>5, <1>6

LEMMA InvConnect == ASSUME Inv, NEW a \in Conns, Connect(a) PROVE Inv'
<1>1. PICK S, l : /\ Asks(a, S, l) /\ l = Here
                  /\ S = (IF IncludesWGCP0(mode) THEN {"tunUp"} ELSE {})
                      \cup (IF IncludesNetbird(mode)
                              THEN (IF handle = None THEN {"meshEnsure"} ELSE {})
                                     \cup {"want", "meshConfigure", "meshStart"}
                              ELSE {})
  BY ConnectAsks
<1>2. /\ mode' \in Modes /\ UNCHANGED <<mode, bundle, stopped, enabled>> /\ ~stopped
      /\ bundle # None /\ l \in LocRec /\ l.mesh = handle /\ "adopt" \notin S
  BY <1>1, HereLocals DEF Connect, Request, Inv, Base, DaemonInv
<1>3. /\ UNCHANGED <<handle, tunState, dns>> /\ \A m \in Meshes : Held(m)' <=> Held(m)
      /\ ~crossed' => OuterOne(a, {})
      /\ Clean' => MeshOne({}, l)
      /\ (~crossed' => OuterOne(a, S)') /\ (Clean' => MeshOne(S, l)') => Inv'
  BY <1>1, <1>2, Begins DEF Clean
<1>4. ASSUME ~crossed' PROVE OuterOne(a, S)'
  BY <1>1, <1>2, <1>3, <1>4 DEF OuterOne, OuterFor, IncludesWGCP0
<1>5. ASSUME Clean' PROVE MeshOne(S, l)'
  <2>1. MeshFor(S, l)'
    BY <1>1, <1>2, <1>3 DEF MeshFor, IncludesNetbird, Start
  <2> QED
    BY <1>2, <1>3, <1>5, <2>1 DEF MeshOne, IncludesNetbird, Stops
<1> QED
  BY <1>3, <1>4, <1>5

LEMMA InvDisconnect == ASSUME Inv, NEW a \in Conns, Disconnect(a) PROVE Inv'
<1>1. PICK S, l : /\ Asks(a, S, l) /\ l = Here
                  /\ S = (IF IncludesWGCP0(mode) THEN {"dnsRestore", "tunDownAbort"} ELSE {})
                      \cup (IF IncludesNetbird(mode) /\ handle # None
                              THEN {"unwant", "meshDisconnect"} ELSE {})
  BY DisconnectAsks
<1>2. /\ mode' \in Modes /\ UNCHANGED <<mode, bundle, stopped, enabled>> /\ ~stopped
      /\ l \in LocRec /\ l.mesh = handle /\ "adopt" \notin S
  BY <1>1, HereLocals DEF Disconnect, Request, Inv, Base, DaemonInv
<1>3. /\ UNCHANGED <<handle, tunState, dns>> /\ \A m \in Meshes : Held(m)' <=> Held(m)
      /\ ~crossed' => OuterOne(a, {})
      /\ Clean' => MeshOne({}, l)
      /\ (~crossed' => OuterOne(a, S)') /\ (Clean' => MeshOne(S, l)') => Inv'
  BY <1>1, <1>2, Begins DEF Clean
<1>4. ASSUME ~crossed' PROVE OuterOne(a, S)'
  BY <1>1, <1>2, <1>3, <1>4 DEF OuterOne, OuterFor, IncludesWGCP0
<1>5. ASSUME Clean' PROVE MeshOne(S, l)'
  <2>1. MeshFor(S, l)'
    BY <1>1, <1>2, <1>3 DEF MeshFor, IncludesNetbird, Start
  <2> QED
    BY <1>2, <1>3, <1>5, <2>1 DEF MeshOne, IncludesNetbird, Stops
<1> QED
  BY <1>3, <1>4, <1>5

LEMMA InvSetMode == ASSUME Inv, NEW a \in Conns, SetMode(a) PROVE Inv'
<1>1. PICK S, l : /\ Asks(a, S, l) /\ l = Here /\ mode' \in Modes
                  /\ S = (IF LeavesWG(mode, mode') THEN {"dnsRestore", "tunDown"} ELSE {})
                    \cup (IF IncludesNetbird(mode) /\ ~IncludesNetbird(mode')
                            THEN {"detach"} ELSE {})
                    \cup (IF ~IncludesNetbird(mode) /\ IncludesNetbird(mode')
                            THEN {"attach"} ELSE {})
                    \cup (IF IncludesWGCP0(mode') THEN {"modeUp"} ELSE {})
                    \cup (IF IncludesNetbird(mode') THEN {"modeMeshUp"} ELSE {})
  BY SetModeAsks
<1>2. /\ UNCHANGED <<bundle, stopped, enabled>> /\ ~stopped
      /\ l \in LocRec /\ l.mesh = handle /\ "adopt" \notin S
  BY <1>1, HereLocals DEF SetMode, Request, Inv
<1>3. /\ UNCHANGED <<handle, tunState, dns>> /\ \A m \in Meshes : Held(m)' <=> Held(m)
      /\ ~crossed' => OuterOne(a, {})
      /\ Clean' => MeshOne({}, l)
      /\ (~crossed' => OuterOne(a, S)') /\ (Clean' => MeshOne(S, l)') => Inv'
  BY <1>1, <1>2, Begins DEF Clean
<1>4. ASSUME ~crossed' PROVE OuterOne(a, S)'
  BY <1>1, <1>2, <1>3, <1>4 DEF OuterOne, OuterFor, LeavesWG
<1>5. ASSUME Clean' PROVE MeshOne(S, l)'
  <2>1. ~IncludesNetbird(mode) => \A m \in Meshes : ~Held(m)
    BY <1>3, <1>5 DEF MeshOne, Stops
  <2>2. MeshFor(S, l)'
    BY <1>1, <1>3, <2>1 DEF MeshFor, Start
  <2>3. ~IncludesNetbird(mode') => \A m \in Meshes : Held(m) => "detach" \in S
    BY <1>1, <2>1
  <2> QED
    BY <1>2, <1>3, <1>5, <2>2, <2>3 DEF MeshOne, Stops, Detach
<1> QED
  BY <1>3, <1>4, <1>5

LEMMA InvSetActive == ASSUME Inv, NEW a \in Conns, SetActiveProfile(a) PROVE Inv'
<1>1. PICK S, l :
        /\ Asks(a, S, l)
        /\ \E m \in Modes, b \in Bundles : l = [Here EXCEPT !.mode = m, !.bundle = b]
        /\ S = (IF bundle # None
                  THEN (IF IncludesWGCP0(mode) THEN {"dnsRestore", "tunDown"} ELSE {})
                         \cup (IF IncludesNetbird(mode) THEN {"detachUnwant"} ELSE {})
                  ELSE {})
               \cup {"adopt"}
  BY SetActiveAsks
<1>2. /\ mode' \in Modes /\ UNCHANGED <<mode, bundle, stopped, enabled>> /\ ~stopped
  BY DEF SetActiveProfile, Request, Inv, Base, DaemonInv
<1>3. /\ l \in LocRec /\ l.mesh = handle /\ l.mode \in Modes /\ l.bundle \in Bundles
  BY <1>1, HereLocals DEF LocRec, Inv
<1>4. /\ UNCHANGED <<handle, tunState, dns>> /\ \A m \in Meshes : Held(m)' <=> Held(m)
      /\ ~crossed' => OuterOne(a, {})
      /\ Clean' => MeshOne({}, l)
      /\ (~crossed' => OuterOne(a, S)') /\ (Clean' => MeshOne(S, l)') => Inv'
  <2>1. Asks(a, S, l)
    BY <1>1
  <2>2. Clean' => enabled # "bare"
    BY <1>2 DEF Clean
  <2> QED
    BY <1>2, <1>3, <2>1, <2>2, Begins
<1>5. ASSUME ~crossed' PROVE OuterOne(a, S)'
  BY <1>1, <1>2, <1>4, <1>5 DEF OuterOne, OuterFor, IncludesWGCP0
<1>6. ASSUME Clean' PROVE MeshOne(S, l)'
  <2>1. \A m \in Meshes : Held(m) => "detachUnwant" \in S
    BY <1>1, <1>4, <1>6 DEF MeshOne, Stops
  <2>2. \A m \in Meshes : Held(m)' => Stops(S, l, m)
    BY <1>4, <2>1 DEF Stops, Detach
  <2>3. MeshFor(S, l)'
    BY <1>1, <1>2, <1>4, <2>2 DEF MeshFor, IncludesNetbird, Start, Stops
  <2> QED
    BY <1>2, <1>4, <1>6, <2>2, <2>3 DEF MeshOne, Stops
<1> QED
  BY <1>4, <1>5, <1>6

LEMMA InvRemove == ASSUME Inv, NEW a \in Conns, RemoveActiveProfile(a) PROVE Inv'
<1>1. PICK S, l : /\ Asks(a, S, l) /\ l = Here
                  /\ S = {"dnsRestore", "tunDown", "detachUnwant", "forget"}
  BY RemoveAsks
<1>2. /\ mode' \in Modes /\ UNCHANGED <<mode, bundle, stopped, enabled>> /\ ~stopped
      /\ l \in LocRec /\ l.mesh = handle /\ "adopt" \notin S
  BY <1>1, HereLocals DEF RemoveActiveProfile, Request, Inv, Base, DaemonInv
<1>3. /\ UNCHANGED <<handle, tunState, dns>> /\ \A m \in Meshes : Held(m)' <=> Held(m)
      /\ ~crossed' => OuterOne(a, {})
      /\ Clean' => MeshOne({}, l)
      /\ (~crossed' => OuterOne(a, S)') /\ (Clean' => MeshOne(S, l)') => Inv'
  BY <1>1, <1>2, Begins DEF Clean
<1>4. ASSUME ~crossed' PROVE OuterOne(a, S)'
  BY <1>1, <1>2, <1>3, <1>4 DEF OuterOne, OuterFor, IncludesWGCP0
<1>5. ASSUME Clean' PROVE MeshOne(S, l)'
  <2>1. \A m \in Meshes : Stops(S, l, m)
    BY <1>1 DEF Stops, Detach
  <2>2. MeshFor(S, l)'
    BY <1>1, <1>2, <1>3, <2>1 DEF MeshFor, Start, Stops
  <2> QED
    BY <1>2, <1>3, <1>5, <2>1, <2>2 DEF MeshOne, Stops
<1> QED
  BY <1>3, <1>4, <1>5

LEMMA InvMeshRequests ==
    ASSUME Inv, NEW a \in Conns,
           EnableInnerMesh(a) \/ DisableInnerMesh(a) \/ SetInnerMeshProfile(a) \/ SetRosenpass(a)
    PROVE  Inv'
<1>1. /\ mode' \in Modes /\ UNCHANGED <<mode, bundle, stopped>> /\ ~stopped
      /\ Clean' => enabled # "bare"
      /\ EnableInnerMesh(a) /\ Clean' => bundle # None
      /\ EnableInnerMesh(a) \/ SetInnerMeshProfile(a) \/ SetRosenpass(a) =>
           IncludesNetbird(mode) /\ handle # None
      /\ SetRosenpass(a) => bundle # None
  BY DEF EnableInnerMesh, DisableInnerMesh, SetInnerMeshProfile, SetRosenpass, Request,
     Clean, Inv, Base, DaemonInv
<1>2. PICK S, l :
        /\ Asks(a, S, l) /\ (l = Here \/ l = [Here EXCEPT !.bundle = {"inner"}])
        /\ \/ EnableInnerMesh(a) /\ S = {"want", "meshStart"}
           \/ S = {"meshDisconnect"} \/ S = {}
           \/ S = {"meshConfigure"}
           \/ SetRosenpass(a) /\ S = {"reconnect"}
  <2>1. CASE EnableInnerMesh(a)
    BY <2>1, MeshAsks
  <2>2. CASE DisableInnerMesh(a)
    BY <2>2, MeshAsks
  <2>3. CASE SetInnerMeshProfile(a)
    BY <2>3, MeshAsks
  <2>4. CASE SetRosenpass(a)
    BY <2>4, MeshAsks
  <2> QED
    BY <2>1, <2>2, <2>3, <2>4
<1>3. l \in LocRec /\ l.mesh = handle
  BY <1>2, HereLocals DEF LocRec, Inv
<1>4. /\ UNCHANGED <<handle, tunState, dns>> /\ \A m \in Meshes : Held(m)' <=> Held(m)
      /\ ~crossed' => OuterOne(a, {})
      /\ Clean' => MeshOne({}, l)
      /\ (~crossed' => OuterOne(a, S)') /\ (Clean' => MeshOne(S, l)') => Inv'
  <2>1. Asks(a, S, l) /\ "adopt" \notin S
    BY <1>2
  <2> QED
    BY <1>1, <1>3, <2>1, Begins
<1>5. ASSUME ~crossed' PROVE OuterOne(a, S)'
  BY <1>1, <1>2, <1>4, <1>5 DEF OuterOne, OuterFor, IncludesWGCP0
<1>6. ASSUME Clean' PROVE MeshOne(S, l)'
  <2>1. MeshFor(S, l)'
    BY <1>1, <1>2, <1>3, <1>4, <1>6 DEF MeshFor, IncludesNetbird, Start
  <2> QED
    BY <1>1, <1>4, <1>6, <2>1 DEF MeshOne, IncludesNetbird, Stops
<1> QED
  BY <1>4, <1>5, <1>6

(* ImportBundle changes no leg, even beside a handler at work. *)
LEMMA InvImport == ASSUME Inv, NEW a \in Conns, ImportBundle(a) PROVE Inv'
<1>1. /\ UNCHANGED <<mode, wanted, handle, meshVars, made, tunVars, dns, prog, loc, stopped,
                     crossed, raced, enabled>>
      /\ bundle' \in Bundles /\ bundle' # None
  BY DEF ImportBundle
<1>2. \A b \in Actors : Todo(b)' = Todo(b) /\ (Busy(b)' <=> Busy(b))
  BY <1>1 DEF Todo, Busy
<1>3. PlanInv' /\ LocInv'
  BY <1>1, <1>2 DEF PlanInv, LocInv, Todo, Inv, Base
<1>4. DaemonInv'
  BY <1>1 DEF DaemonInv, meshVars, tunVars, Inv, Base
<1>5. SoloInv'
  BY <1>1, <1>2 DEF SoloInv, Inv, Base, Handlers, Actors
<1>6. \A m \in Meshes : Held(m)' <=> Held(m)
  BY <1>1 DEF Held, meshVars
<1>7. OuterInv'
  <2>1. ASSUME NEW b \in Handlers, OuterFor(Todo(b)) PROVE OuterFor(Todo(b))'
    BY <1>1, <1>2, <2>1 DEF OuterFor, IncludesWGCP0, tunVars, Handlers, Actors
  <2> QED
    BY <1>1, <1>2, <2>1 DEF OuterInv, IncludesWGCP0, tunVars, Inv, Handlers, Actors
<1>8. MeshInv'
  <2>1. ASSUME NEW b \in Actors, MeshFor(Todo(b), loc[b]) PROVE MeshFor(Todo(b), loc[b])'
    BY <1>1, <1>2, <1>6, <2>1 DEF MeshFor, IncludesNetbird, Stops
  <2> QED
    BY <1>1, <1>2, <1>6, <2>1 DEF MeshInv, Clean, IncludesNetbird, Stops, Inv
<1>9. DetachedInv'
  BY <1>1, <1>2 DEF DetachedInv, Inv, Actors, Handlers
<1> QED
  BY <1>3, <1>4, <1>5, <1>7, <1>8, <1>9 DEF Inv, Base

LEMMA InvReach == ASSUME Inv, ReachChange PROVE Inv'
<1>1. UNCHANGED <<daemonVars, meshVars, made, tunVars, dns, prog, loc, ctlVars>>
  BY DEF ReachChange
<1>2. PlanInv' /\ LocInv' /\ DaemonInv' /\ SoloInv'
  BY <1>1 DEF PlanInv, LocInv, DaemonInv, SoloInv, Todo, Busy, Inv, Base, daemonVars,
     meshVars, tunVars, ctlVars
<1>3. OuterInv'
  BY <1>1 DEF OuterInv, OuterFor, Todo, Inv, daemonVars, tunVars, ctlVars
<1>4. MeshInv'
  BY <1>1 DEF MeshInv, MeshFor, Stops, Held, Clean, Todo, Inv, daemonVars, meshVars, ctlVars
<1>5. DetachedInv'
  BY <1>1 DEF DetachedInv, Todo, Inv, daemonVars, ctlVars
<1> QED
  BY <1>2, <1>3, <1>4, <1>5 DEF Inv, Base

LEMMA InvShutdown == ASSUME Inv, Shutdown PROVE Inv'
<1>1. PICK S, l : /\ Asks(Main, S, l) /\ l = Here
                  /\ S = {"dnsRestore", "tunDown", "detach", "tunClose"}
  BY ShutdownAsks
<1>2. /\ mode' \in Modes /\ UNCHANGED <<mode, bundle, enabled>> /\ stopped' = TRUE
      /\ l \in LocRec /\ l.mesh = handle /\ "adopt" \notin S
      /\ l.mesh # None => l.mesh <= made
  BY <1>1, HereLocals DEF Shutdown, Inv, Base, DaemonInv
<1>3. Main \in Actors /\ Main \in Handlers
  BY DEF Actors, Handlers
<1>4. /\ Base' /\ Moves(Main, S, l) /\ Todo(Main) = {}
      /\ UNCHANGED <<handle, meshVars, made, tunVars, dns, reach>>
      /\ ~crossed' => ~crossed /\ \A b \in Handlers : Todo(b) = {}
      /\ ~crossed' /\ ~raced' => ~raced /\ \A b \in Actors : Todo(b) = {}
  BY <1>1, <1>2, <1>3, EnterCore DEF Inv
<1>5. UNCHANGED <<handle, tunState, dns>> /\ \A m \in Meshes : Held(m)' <=> Held(m)
  BY <1>4 DEF tunVars, meshVars, Held
<1>6. Todo(Main)' = S
  BY <1>3, <1>4 DEF Moves
<1>7. OuterInv'
  <2>1. CASE crossed'
    BY <2>1 DEF OuterInv
  <2>2. CASE ~crossed'
    <3>1. PICK T : T = Todo(Main)
      OBVIOUS
    <3>2. OuterOne(Main, T)
      BY <1>3, <1>4, <2>2, <3>1, OuterSplits DEF Inv
    <3>3. ~IncludesWGCP0(mode) => tunState # "up" /\ dns # "applied"
      BY <1>4, <3>1, <3>2 DEF OuterOne
    <3>4. OuterOne(Main, S)'
      BY <1>1, <1>2, <1>5, <3>2, <3>3 DEF OuterOne, OuterFor, IncludesWGCP0
    <3>5. \A b \in Handlers : b # Main => Todo(b)' = {}
      BY <1>4, <2>2 DEF Moves, Handlers, Actors
    <3> QED
      BY <1>3, <1>6, <3>4, <3>5, OuterJoins
  <2> QED
    BY <2>1, <2>2
<1>8. MeshInv'
  <2>1. ASSUME Clean' PROVE (\A b \in Actors : b # Main => Todo(b) = {}) /\ MeshOne(S, l)'
    <3>1. PICK T, k : T = Todo(Main) /\ k = loc[Main]
      OBVIOUS
    <3>2. Clean /\ \A b \in Actors : Todo(b) = {}
      BY <1>2, <1>4, <2>1 DEF Clean
    <3>3. MeshOne(T, k)
      BY <1>3, <3>1, <3>2, MeshSplits DEF Inv
    <3>4. \A m \in Meshes : Stops(S, l, m)
      BY <1>1 DEF Stops, Detach
    <3>5. MeshFor(S, l)'
      BY <1>1, <1>2, <1>5 DEF MeshFor, Start
    <3>6. \A m \in Meshes : Held(m) => m = handle
      BY <1>4, <3>1, <3>3 DEF MeshOne
    <3>7. MeshOne(S, l)'
      BY <1>2, <1>5, <3>3, <3>4, <3>5, <3>6 DEF MeshOne, Stops
    <3> QED
      BY <3>2, <3>7
  <2> QED
    BY <1>3, <1>4, <2>1, MeshJoins
<1>9. DetachedInv'
  BY <1>1, <1>6 DEF DetachedInv
<1> QED
  BY <1>4, <1>7, <1>8, <1>9 DEF Inv

LEMMA InvTick == ASSUME Inv, SupervisorTick PROVE Inv'
<1>1. PICK S, l : Asks(Supervisor, S, l) /\ l = Here /\ S = {"reconnect"}
  BY TickAsks
<1>2. /\ mode' \in Modes /\ UNCHANGED <<mode, bundle, enabled, stopped>>
      /\ l \in LocRec /\ l.mesh = handle /\ "adopt" \notin S
      /\ l.mesh # None => l.mesh <= made
      /\ IncludesNetbird(mode) /\ bundle # None
  BY <1>1, HereLocals DEF SupervisorTick, Inv, Base, DaemonInv
<1>3. Supervisor \in Actors /\ Supervisor # Main /\ Supervisor \notin Conns
  BY DEF Actors, Main, Supervisor
<1>4. /\ Base' /\ Moves(Supervisor, S, l) /\ Todo(Supervisor) = {}
      /\ UNCHANGED <<handle, meshVars, made, tunVars, dns, reach>>
      /\ ~crossed' => ~crossed
      /\ ~crossed' /\ ~raced' => ~raced /\ \A b \in Actors : Todo(b) = {}
  BY <1>1, <1>2, <1>3, EnterCore DEF Inv
<1>5. UNCHANGED <<handle, tunState, dns>> /\ \A m \in Meshes : Held(m)' <=> Held(m)
  BY <1>4 DEF tunVars, meshVars, Held
<1>6. OuterInv'
  <2>1. \A b \in Actors : \A k \in OuterOps : k \in Todo(b)' <=> k \in Todo(b)
    BY <1>1, <1>4 DEF Moves, OuterOps
  <2> QED
    BY <1>2, <1>4, <1>5, <2>1, OuterFrame DEF Inv
<1>7. MeshInv'
  <2>1. ASSUME Clean' PROVE (\A b \in Actors : b # Supervisor => Todo(b) = {}) /\ MeshOne(S, l)'
    <3>1. PICK T, k : T = Todo(Supervisor) /\ k = loc[Supervisor]
      OBVIOUS
    <3>2. Clean /\ \A b \in Actors : Todo(b) = {}
      BY <1>2, <1>4, <2>1 DEF Clean
    <3>3. MeshOne(T, k)
      BY <1>3, <3>1, <3>2, MeshSplits DEF Inv
    <3>4. MeshFor(S, l)'
      BY <1>1, <1>2, <1>5 DEF MeshFor, IncludesNetbird, Start
    <3>5. \A m \in Meshes : Held(m) => m = handle
      BY <1>4, <3>1, <3>3 DEF MeshOne
    <3>6. MeshOne(S, l)'
      BY <1>2, <1>5, <3>4, <3>5 DEF MeshOne, IncludesNetbird
    <3> QED
      BY <3>2, <3>6
  <2> QED
    BY <1>3, <1>4, <2>1, MeshJoins
<1>8. DetachedInv'
  <2>1. Todo(Main)' = Todo(Main)
    BY <1>3, <1>4 DEF Moves, Actors, Handlers
  <2> QED
    BY <1>2, <1>4, <1>5, <2>1 DEF DetachedInv, Inv
<1> QED
  BY <1>4, <1>6, <1>7, <1>8 DEF Inv

-----------------------------------------------------------------------------
LEMMA InvInit == ASSUME Init PROVE Inv
<1>1. \A a \in Actors : prog[a] = <<>> /\ Todo(a) = {} /\ loc[a] = NoLoc
  BY PlanEmpty DEF Init, Todo, Plan
<1>2. PlanInv
  <2>1. \A a \in Actors : Fit(a, {})
    BY DEF Fit
  <2>2. <<>> \in Seq(CallRec) /\ InRank(<<>>)
    BY PlanEmpty DEF Plan
  <2>3. prog \in [Actors -> Seq(CallRec)]
    BY <2>2 DEF Init
  <2>4. \A a \in Actors : InRank(prog[a]) /\ Fit(a, Todo(a))
    <3>1. ASSUME NEW a \in Actors, NEW p, NEW T, p = prog[a], T = Todo(a)
          PROVE  InRank(prog[a]) /\ Fit(a, Todo(a))
      <4>1. p = <<>> /\ T = {}
        BY <1>1, <3>1
      <4>2. InRank(p) /\ Fit(a, T)
        BY <2>1, <2>2, <4>1
      <4> QED
        BY <3>1, <4>2
    <3> QED
      BY <3>1
  <2> QED
    BY <2>3, <2>4 DEF PlanInv
<1>3. LocInv
  <2>1. NoLoc \in LocRec /\ NoLoc.mesh = None
    BY LocRecord DEF NoLoc
  <2> QED
    BY <1>1, <2>1 DEF LocInv, Init
<1>4. DaemonInv
  <2>1. made \in Nat /\ (handle # None => handle \in Nat /\ handle <= made)
    BY DEF Init
  <2> QED
    BY <2>1 DEF DaemonInv, Init
<1>5. SoloInv
  BY <1>1 DEF SoloInv, Busy, Handlers, Actors
<1>6. \A m \in Meshes : ~Held(m)
  BY DEF Init, Held
<1>7. OuterInv
  <2>1. OuterFor({})
    BY DEF OuterFor
  <2> QED
    BY <1>1, <2>1 DEF OuterInv, Init, Handlers, Actors
<1>8. MeshInv
  BY <1>1, <1>6 DEF MeshInv, MeshFor
<1>9. DetachedInv
  BY DEF DetachedInv, Init
<1> QED
  BY <1>2, <1>3, <1>4, <1>5, <1>7, <1>8, <1>9 DEF Inv, Base

LEMMA InvNext == Inv /\ [Next]_vars => Inv'
<1> SUFFICES ASSUME Inv, [Next]_vars PROVE Inv'
  OBVIOUS
<1>1. ASSUME NEW a \in Actors, Step(a) PROVE Inv'
  BY <1>1, InvStep
<1>2. ASSUME NEW a \in Conns, Requests(a) PROVE Inv'
  BY <1>2, InvConnect, InvDisconnect, InvSetMode, InvSetActive, InvRemove, InvImport,
     InvMeshRequests DEF Requests
<1>3. CASE Shutdown
  BY <1>3, InvShutdown
<1>4. CASE SupervisorTick
  BY <1>4, InvTick
<1>5. CASE ReachChange
  BY <1>5, InvReach
<1>6. CASE UNCHANGED vars
  <2>1. UNCHANGED <<daemonVars, meshVars, made, tunVars, dns, prog, loc, ctlVars>>
    BY <1>6 DEF vars
  <2>2. PlanInv' /\ LocInv' /\ DaemonInv' /\ SoloInv'
    BY <2>1 DEF PlanInv, LocInv, DaemonInv, SoloInv, Todo, Busy, Inv, Base, daemonVars,
       meshVars, tunVars, ctlVars
  <2>3. OuterInv'
    BY <2>1 DEF OuterInv, OuterFor, Todo, Inv, daemonVars, tunVars, ctlVars
  <2>4. MeshInv'
    BY <2>1 DEF MeshInv, MeshFor, Stops, Held, Clean, Todo, Inv, daemonVars, meshVars,
       ctlVars
  <2>5. DetachedInv'
    BY <2>1 DEF DetachedInv, Todo, Inv, daemonVars, ctlVars
  <2> QED
    BY <2>2, <2>3, <2>4, <2>5 DEF Inv, Base
<1> QED
  BY <1>1, <1>2, <1>3, <1>4, <1>5, <1>6 DEF Next

LEMMA InvAlways == Spec => []Inv
<1>1. Init => Inv
  BY InvInit
<1> QED
  BY <1>1, InvNext, PTL DEF Spec

(* A tunnel that was taken down leaves no resolver of an applied mesh      *)
(* configuration on the host: Disconnect, SetMode, setActiveLocked,        *)
(* RemoveProfile and Shutdown call Restore first, and applyDNS follows     *)
(* only a tunnel that came up.  What a failed call of the adapter left on  *)
(* the host is excepted, since the code only logs the error and goes on.   *)
(* For any number of connections and requests that did not overlap.        *)
THEOREM DnsBeforeTunnel == Spec => []DnsRestoredBeforeDown
<1>1. Inv => DnsRestoredBeforeDown
  BY DEF Inv, OuterInv, DnsRestoredBeforeDown
<1> QED
  BY <1>1, InvAlways, PTL

(* A mode without the outer leg has neither the tunnel up nor an applied   *)
(* mesh resolver on the host once its handlers have returned, whatever     *)
(* requests ran one after the other and with the supervisor beside them;   *)
(* what a failed call of the adapter left is excepted.                     *)
THEOREM OuterLegFollowsMode == Spec => []OuterWithinMode
<1>1. ASSUME Inv PROVE OuterWithinMode
  <2>1. \A c \in Conns : ~Busy(c) => Todo(c) = {}
    BY <1>1, BusyTodo, ConnLegs DEF Inv, Base
  <2> QED
    BY <1>1, <2>1 DEF Inv, OuterInv, OuterWithinMode
<1> QED
  BY <1>1, InvAlways, PTL

(* A client that a mesh object holds belongs to the daemon's mesh and to a *)
(* mode with the inner leg: what SetMode, setActiveLocked and              *)
(* RemoveProfile detach has been disconnected when they return.            *)
THEOREM InnerLegFollowsMode == Spec => []MeshWithinMode
<1>1. ASSUME Inv PROVE MeshWithinMode
  <2>1. ASSUME Settled, enabled # "bare"
        PROVE  \A m \in Meshes : meshClient[m] # None => m = handle /\ IncludesNetbird(mode)
    <3>1. Clean /\ \A a \in Actors : Todo(a) = {}
      BY <1>1, <2>1, BusyTodo DEF Settled, Quiet, Clean, Inv, Base
    <3> QED
      BY <1>1, <3>1 DEF Inv, MeshInv, Held, Stops
  <2> QED
    BY <2>1 DEF MeshWithinMode
<1> QED
  BY <1>1, InvAlways, PTL

(* When Shutdown has returned and nothing raced with it, the tunnel is     *)
(* closed, no applied configuration is left that was not asked to be       *)
(* restored and no mesh object holds a client, also when the tunnel's      *)
(* Disconnect or the adapter's Restore failed.                             *)
THEOREM ShutdownReleasesLegs == Spec => []ShutdownReleases
<1>1. ASSUME Inv PROVE ShutdownReleases
  <2>1. ASSUME stopped, Settled, enabled # "bare"
        PROVE  tunState = "closed" /\ dns # "applied" /\ \A m \in Meshes : meshClient[m] = None
    <3>1. Clean /\ Main \in Actors /\ \A a \in Actors : Todo(a) = {}
      BY <1>1, <2>1, BusyTodo DEF Settled, Quiet, Clean, Inv, Base, Actors, Handlers
    <3>2. tunState = "closed" /\ dns # "applied"
      BY <1>1, <2>1, <3>1 DEF Inv, OuterInv, Clean
    <3>3. handle = None
      BY <1>1, <2>1, <3>1 DEF Inv, DetachedInv, Clean
    <3>4. \A m \in Meshes : Held(m) => m = handle
      BY <1>1, <3>1 DEF Inv, MeshInv
    <3>5. None \notin Meshes
      BY DEF Meshes
    <3> QED
      BY <3>2, <3>3, <3>4, <3>5 DEF Held
  <2> QED
    BY <2>1 DEF ShutdownReleases
<1> QED
  BY <1>1, InvAlways, PTL

-----------------------------------------------------------------------------
(***************************************************************************)
(* The model has MaxCalls + 1 mesh objects.  They are enough: a request    *)
(* makes at most one, so the meshes made and the actors about to make one  *)
(* never outnumber the requests and the mesh of New.                       *)
(***************************************************************************)
Make == {"meshEnsure", "attach", "adopt"}

Makers == {a \in Actors : Todo(a) \cap Make # {}}

Budget == IsFiniteSet(Makers) /\ made + Cardinality(Makers) <= calls + 1

Numbered ==
    /\ handle # None => handle >= 1
    /\ \A a \in Actors : loc[a].mesh # None => loc[a].mesh >= 1

Typed ==
    /\ wanted \in BOOLEAN
    /\ meshState \in [Meshes -> States]
    /\ meshClosed \in [Meshes -> BOOLEAN] /\ meshCfg \in [Meshes -> BOOLEAN]
    /\ running \subseteq Clients
    /\ tunState \in States /\ tunOpen \in BOOLEAN
    /\ dns \in {"none", "applied", "left"} /\ reach \in {"ok", "refuse", "silent"}
    /\ calls \in 0..MaxCalls /\ stopped \in BOOLEAN
    /\ crossed \in BOOLEAN /\ raced \in BOOLEAN /\ enabled \in {"never", "loaded", "bare"}

LEMMA BudgetMoves ==
    ASSUME Base, Budget, calls \in Nat, NEW a \in Actors, NEW S, NEW l, Moves(a, S, l),
           \/ UNCHANGED <<made, calls>> /\ (S \cap Make # {} => Todo(a) \cap Make # {})
           \/ /\ made' = made + 1 /\ UNCHANGED calls
              /\ Todo(a) \cap Make # {} /\ S \cap Make = {}
    PROVE  Budget'
<1>1. PICK M, N : M = Makers /\ N = Makers'
  OBVIOUS
<1>2. IsFiniteSet(M) /\ made + Cardinality(M) <= calls + 1 /\ made \in Nat
  BY <1>1 DEF Budget, Base, DaemonInv
<1>3. Cardinality(M) \in Nat
  BY <1>2, FS_CardinalityType
<1>4. /\ N \ {a} = M \ {a}
      /\ a \in N <=> S \cap Make # {}
      /\ a \in M <=> Todo(a) \cap Make # {}
  BY <1>1 DEF Makers, Moves
<1>5. CASE UNCHANGED <<made, calls>> /\ (S \cap Make # {} => Todo(a) \cap Make # {})
  <2>1. N \in SUBSET M
    BY <1>4, <1>5
  <2>2. IsFiniteSet(N) /\ Cardinality(N) <= Cardinality(M)
    BY <1>2, <2>1, FS_Subset
  <2>3. Cardinality(N) \in Nat
    BY <2>2, FS_CardinalityType
  <2> QED
    BY <1>1, <1>2, <1>3, <1>5, <2>2, <2>3 DEF Budget
<1>6. CASE /\ made' = made + 1 /\ UNCHANGED calls
           /\ Todo(a) \cap Make # {} /\ S \cap Make = {}
  <2>1. N = M \ {a} /\ a \in M
    BY <1>4, <1>6
  <2>2. IsFiniteSet(N) /\ Cardinality(N) = Cardinality(M) - 1
    BY <1>2, <2>1, FS_RemoveElement
  <2> QED
    BY <1>1, <1>2, <1>3, <1>6, <2>2 DEF Budget
<1> QED
  BY <1>5, <1>6

LEMMA NumberedMoves ==
    ASSUME Numbered, NEW a \in Actors, NEW S, NEW l, Moves(a, S, l),
           l.mesh # None => l.mesh >= 1, handle' # None => handle' >= 1
    PROVE  Numbered'
<1>1. NoLoc.mesh = None
  BY DEF NoLoc
<1>2. ASSUME NEW b \in Actors PROVE loc'[b].mesh # None => loc'[b].mesh >= 1
  <2>1. loc'[b] = l \/ loc'[b] = NoLoc \/ loc'[b] = loc[b]
    BY DEF Moves
  <2> QED
    BY <1>1, <2>1 DEF Numbered
<1> QED
  BY <1>2 DEF Numbered

LEMMA CountStep ==
    ASSUME Base, Budget, Numbered, calls \in Nat, NEW a \in Actors, Step(a)
    PROVE  Budget' /\ Numbered'
<1>1. UNCHANGED calls /\ made \in Nat
  BY CtlStep DEF ctlVars, Base, DaemonInv
<1>2. PICK T, l : T = Todo(a) /\ l = loc[a]
  OBVIOUS
<1>3. ASSUME NEW S, NEW k, Moves(a, S, k), S \cap Make # {} => T \cap Make # {},
             k.mesh \in {l.mesh, handle}, UNCHANGED made, handle' \in {handle, None}
      PROVE  Budget' /\ Numbered'
  <2>1. Budget'
    BY <1>1, <1>2, <1>3, BudgetMoves
  <2>2. (k.mesh # None => k.mesh >= 1) /\ (handle' # None => handle' >= 1)
    BY <1>2, <1>3 DEF Numbered
  <2> QED
    BY <1>3, <2>1, <2>2, NumberedMoves
<1>4. ASSUME NEW S, NEW k, Moves(a, S, k), S \cap Make = {}, T \cap Make # {},
             k.mesh \in {l.mesh, handle'}, made' = made + 1, handle' = made + 1
      PROVE  Budget' /\ Numbered'
  <2>1. Budget'
    BY <1>1, <1>2, <1>4, BudgetMoves
  <2>2. (k.mesh # None => k.mesh >= 1) /\ (handle' # None => handle' >= 1)
    BY <1>1, <1>2, <1>4 DEF Numbered
  <2> QED
    BY <1>4, <2>1, <2>2, NumberedMoves
<1>5. CASE \/ DoTunClose(a) \/ DoDnsApply(a) \/ DoDnsRestore(a) \/ DoMeshConfigure(a) \/ StartOk(a) \/ StartFail(a)
           \/ DoMeshDisconnect(a) \/ DoMeshClose(a) \/ DoWant(a) \/ DoForget(a)
  <2>1. PICK op : At(a, op) /\ Proceed(a) /\ op # "tunDown"
    BY <1>5 DEF DoTunClose, DoDnsApply, DoDnsRestore, DoMeshConfigure, StartOk, StartFail,
       DoMeshDisconnect, DoMeshClose, DoWant, DoForget
  <2>2. UNCHANGED <<made, handle>>
    BY <1>5 DEF DoTunClose, DoDnsApply, DoDnsRestore, DoMeshConfigure, StartOk, StartFail,
       DoMeshDisconnect, DoMeshClose, DoWant, DoForget, daemonVars
  <2>3. PICK S : S = T \ {op} /\ Moves(a, S, l)
    BY <1>2, <2>1, Pops DEF Base
  <2> QED
    BY <1>3, <2>2, <2>3
<1>6. CASE DoTunUp(a)
  <2>1. PICK S : /\ Moves(a, S, l)
                 /\ S \in {{}, T \ {"tunUp"}, (T \ {"tunUp"}) \cup {"dnsApply"}}
    BY <1>2, <1>6, TunUpMoves DEF Base
  <2>2. UNCHANGED <<made, handle>> /\ (S \cap Make # {} => T \cap Make # {})
    BY <1>6, <2>1 DEF DoTunUp, daemonVars, Make
  <2> QED
    BY <1>3, <2>1, <2>2
<1>7. CASE DoTunDown(a)
  <2>1. PICK S : Moves(a, S, l) /\ S \subseteq T
    <3>1. PICK k, S, j :
            /\ j = loc[a] /\ Moves(a, S, j)
            /\ \/ S = Todo(a) \ {k}
               \/ S = {}
      <4>1. \E k, S, j :
              /\ k \in {"tunDown", "tunDownAbort"} /\ k \in Todo(a)
              /\ \A x \in Todo(a) \ {k} : Rank(k) < Rank(x)
              /\ j = loc[a] /\ Moves(a, S, j)
              /\ \/ tunState' = "closed" /\ S = Todo(a) \ {k}
                 \/ /\ tunState' = "error" /\ tunOpen
                    /\ S = Todo(a) \ {k} \/ (S = {} /\ k = "tunDownAbort")
        BY <1>7, TunDownMoves DEF Base
      <4> QED
        BY <4>1
    <3>2. Moves(a, S, l) /\ S \subseteq T
      BY <1>2, <3>1
    <3> QED
      BY <3>2
  <2>2. UNCHANGED <<made, handle>> /\ (S \cap Make # {} => T \cap Make # {})
    BY <1>7, <2>1 DEF DoTunDown, daemonVars
  <2> QED
    BY <1>3, <2>1, <2>2
<1>8. CASE DoMeshStart(a)
  <2>1. PICK S : Moves(a, S, l) /\ S \in {{}, {"starting"}}
    BY <1>2, <1>8, MeshStartMoves DEF Base
  <2>2. UNCHANGED <<made, handle>> /\ S \cap Make = {}
    BY <1>8, <2>1 DEF DoMeshStart, daemonVars, Make
  <2> QED
    BY <1>3, <2>1, <2>2
<1>9. CASE DoDetach(a)
  <2>1. PICK op \in Detach : At(a, op)
    BY <1>9 DEF DoDetach, Detach
  <2>2. PICK S, k : /\ Moves(a, S, k) /\ k = [l EXCEPT !.mesh = handle]
                    /\ S = (IF handle = None THEN {} ELSE {"meshDisconnect", "meshClose"})
                             \cup (T \ {op})
    BY <1>2, <1>9, <2>1, DetachMoves DEF Base
  <2>3. /\ UNCHANGED made /\ handle' = None /\ k.mesh = handle
        /\ S \cap Make # {} => T \cap Make # {}
    BY <1>2, <1>9, <2>2 DEF DoDetach, Make, Base, LocInv, LocRec
  <2> QED
    BY <1>3, <2>2, <2>3
<1>10. CASE DoModeUp(a)
  <2>1. PICK S : Moves(a, S, l) /\ S \in {T \ {"modeUp"}, {"tunUp"} \cup (T \ {"modeUp"})}
    BY <1>2, <1>10, ModeUpMoves DEF Base
  <2>2. UNCHANGED <<made, handle>> /\ (S \cap Make # {} => T \cap Make # {})
    BY <1>10, <2>1 DEF DoModeUp, daemonVars, Make
  <2> QED
    BY <1>3, <2>1, <2>2
<1>11. CASE DoModeMeshUp(a)
  <2>1. PICK S, k : /\ Moves(a, S, k) /\ k = [l EXCEPT !.mesh = handle, !.bundle = bundle]
                    /\ S \in {{}, {"meshConfigure", "meshStart"}}
    <3>1. \E S, k :
            /\ \/ S = {}
               \/ S = {"meshConfigure", "meshStart"} /\ handle # None /\ bundle # None
            /\ k = [loc[a] EXCEPT !.mesh = handle, !.bundle = bundle]
            /\ Moves(a, S, k)
      BY <1>11, ModeMeshUpMoves DEF Base
    <3> QED
      BY <1>2, <3>1
  <2>2. UNCHANGED <<made, handle>> /\ k.mesh = handle /\ S \cap Make = {}
    BY <1>2, <1>11, <2>1 DEF DoModeMeshUp, daemonVars, Make, Base, LocInv, LocRec
  <2> QED
    BY <1>3, <2>1, <2>2
<1>12. CASE DoReconnect(a)
  <2>1. PICK S : /\ Moves(a, S, l)
                 /\ S \in {{}, {"meshConfigure", "meshStart"},
                           {"meshDisconnect", "meshConfigure", "meshStart"}}
    BY <1>2, <1>12, ReconnectMoves DEF Base
  <2>2. UNCHANGED <<made, handle>> /\ S \cap Make = {}
    BY <1>12, <2>1 DEF DoReconnect, daemonVars, Make
  <2> QED
    BY <1>3, <2>1, <2>2
<1>13. CASE DoMeshEnsure(a)
  <2>1. PICK S, k : /\ "meshEnsure" \in T /\ Moves(a, S, k)
                    /\ \A x \in T \ {"meshEnsure"} : Rank("meshEnsure") < Rank(x)
                    /\ S = T \ {"meshEnsure"} /\ k = [l EXCEPT !.mesh = handle']
    BY <1>2, <1>13, MeshEnsureMoves DEF Base
  <2>2. S \cap Make = {} /\ T \cap Make # {}
    BY <2>1, Ranks DEF Make
  <2>3. k.mesh = handle' /\ made' = made + 1 /\ handle' = made + 1
    BY <1>2, <1>13, <2>1 DEF DoMeshEnsure, Base, LocInv, LocRec
  <2> QED
    BY <1>4, <2>1, <2>2, <2>3
<1>14. CASE DoAttach(a)
  <2>1. PICK S : /\ "attach" \in T /\ S = T \ {"attach"} /\ Moves(a, S, l)
                 /\ \A x \in T \ {"attach"} : Rank("attach") < Rank(x)
    BY <1>2, <1>14, Pops DEF DoAttach, Base
  <2>2. Fit(a, T)
    BY <1>2 DEF Base, PlanInv
  <2>3. S \cap Make = {} /\ T \cap Make # {}
    BY <2>1, <2>2 DEF Make, Fit, TearDown
  <2>4. made' = made + 1 /\ handle' = made + 1
    BY <1>14 DEF DoAttach
  <2> QED
    BY <1>4, <2>1, <2>3, <2>4
<1>15. CASE DoAdopt(a)
  <2>1. PICK S, k : /\ T = {"adopt"} /\ Moves(a, S, k)
                    /\ S = (IF IncludesWGCP0(mode') /\ HasOuter(bundle') THEN {"tunUp"} ELSE {})
                           \cup (IF IncludesNetbird(mode') THEN {"meshConfigure", "meshStart"}
                                 ELSE {})
                    /\ k = [l EXCEPT !.mesh = handle']
    BY <1>2, <1>15, AdoptMoves DEF Base
  <2>2. S \cap Make = {} /\ T \cap Make # {}
    BY <2>1 DEF Make
  <2>3. k.mesh = handle'
    BY <1>2, <2>1 DEF Base, LocInv, LocRec
  <2>4. \/ made' = made + 1 /\ handle' = made + 1
        \/ UNCHANGED made /\ handle' \in {handle, None}
    BY <1>15 DEF DoAdopt
  <2>5. CASE made' = made + 1 /\ handle' = made + 1
    <3>1. k.mesh \in {l.mesh, handle'} /\ Moves(a, S, k)
      BY <2>1, <2>3
    <3> QED
      BY <1>4, <2>2, <2>5, <3>1
  <2>6. CASE UNCHANGED made /\ handle' \in {handle, None}
    <3>1. Budget'
      BY <1>1, <1>2, <2>1, <2>2, <2>6, BudgetMoves
    <3>2. handle' # None => handle' >= 1
      BY <2>6 DEF Numbered
    <3> QED
      BY <2>1, <2>3, <3>1, <3>2, NumberedMoves
  <2> QED
    BY <2>4, <2>5, <2>6
<1> QED
  BY <1>5, <1>6, <1>7, <1>8, <1>9, <1>10, <1>11, <1>12, <1>13, <1>14, <1>15 DEF Step

(* A request pays for the mesh it may make. *)
LEMMA BudgetRequest ==
    ASSUME Base, Budget, calls \in Nat, NEW a \in Actors,
           \A b \in Actors : b # a => Todo(b)' = Todo(b),
           UNCHANGED made, calls' = calls + 1
    PROVE  Budget'
<1>1. PICK M, N : M = Makers /\ N = Makers'
  OBVIOUS
<1>2. IsFiniteSet(M) /\ made + Cardinality(M) <= calls + 1 /\ made \in Nat
  BY <1>1 DEF Budget, Base, DaemonInv
<1>3. Cardinality(M) \in Nat
  BY <1>2, FS_CardinalityType
<1>4. N \in SUBSET (M \cup {a})
  BY <1>1 DEF Makers
<1>5. IsFiniteSet(M \cup {a}) /\ Cardinality(M \cup {a}) <= Cardinality(M) + 1
  <2>1. /\ IsFiniteSet(M \cup {a})
        /\ Cardinality(M \cup {a}) = IF a \in M THEN Cardinality(M) ELSE Cardinality(M) + 1
    BY <1>2, FS_AddElement
  <2> QED
    BY <1>3, <2>1
<1>6. IsFiniteSet(N) /\ Cardinality(N) <= Cardinality(M \cup {a})
  BY <1>4, <1>5, FS_Subset
<1>7. Cardinality(N) \in Nat /\ Cardinality(M \cup {a}) \in Nat
  BY <1>5, <1>6, FS_CardinalityType
<1> QED
  BY <1>1, <1>2, <1>3, <1>5, <1>6, <1>7 DEF Budget

LEMMA CountRequest ==
    ASSUME Base, Budget, Numbered, calls \in Nat, NEW a \in Actors, NEW p, NEW l,
           Enter(a, p, l), calls' = calls + 1, l.mesh = handle
    PROVE  Budget' /\ Numbered'
<1>1. Become(a, p, l) /\ UNCHANGED <<handle, made>>
  BY DEF Enter
<1>2. \A b \in Actors : b # a => Todo(b)' = Todo(b)
  BY <1>1 DEF Become, Todo, Base, PlanInv
<1>3. \A b \in Actors : loc'[b] = l \/ loc'[b] = NoLoc \/ loc'[b] = loc[b]
  BY <1>1 DEF Become, Base, LocInv
<1>4. Budget'
  BY <1>1, <1>2, BudgetRequest
<1>5. Numbered'
  BY <1>1, <1>3 DEF Numbered, NoLoc
<1> QED
  BY <1>4, <1>5

LEMMA CountRequests ==
    ASSUME Base, Budget, Numbered, calls \in Nat, NEW a \in Conns, Requests(a)
    PROVE  Budget' /\ Numbered'
<1>1. a \in Actors
  BY ConnLegs
<1>2. Here.mesh = handle /\ (\A x, y : [Here EXCEPT !.mode = x, !.bundle = y].mesh = handle)
      /\ \A y : [Here EXCEPT !.bundle = y].mesh = handle
  BY DEF Here
<1>3. CASE ~ImportBundle(a)
  <2>1. PICK p, l : Request(a, p, l) /\ l.mesh = handle
    <3>1. CASE Connect(a)
      BY <1>2, <3>1 DEF Connect
    <3>2. CASE Disconnect(a)
      BY <1>2, <3>2 DEF Disconnect
    <3>3. CASE SetMode(a)
      BY <1>2, <3>3 DEF SetMode
    <3>4. CASE SetActiveProfile(a)
      <4>1. PICK p, m, b : Request(a, p, [Here EXCEPT !.mode = m, !.bundle = b])
        BY <3>4 DEF SetActiveProfile
      <4>2. [Here EXCEPT !.mode = m, !.bundle = b].mesh = handle
        BY DEF Here
      <4> QED
        BY <4>1, <4>2
    <3>5. CASE RemoveActiveProfile(a)
      BY <1>2, <3>5 DEF RemoveActiveProfile
    <3>6. CASE EnableInnerMesh(a)
      BY <1>2, <3>6 DEF EnableInnerMesh
    <3>7. CASE DisableInnerMesh(a)
      BY <1>2, <3>7 DEF DisableInnerMesh
    <3>8. CASE SetInnerMeshProfile(a)
      BY <1>2, <3>8 DEF SetInnerMeshProfile
    <3>9. CASE SetRosenpass(a)
      BY <1>2, <3>9 DEF SetRosenpass
    <3> QED
      BY <1>3, <3>1, <3>2, <3>3, <3>4, <3>5, <3>6, <3>7, <3>8, <3>9 DEF Requests
  <2>2. Enter(a, p, l) /\ calls' = calls + 1
    BY <2>1 DEF Request
  <2> QED
    BY <1>1, <2>1, <2>2, CountRequest
<1>4. CASE ImportBundle(a)
  <2>1. UNCHANGED <<handle, made, prog, loc>> /\ calls' = calls + 1
    BY <1>4 DEF ImportBundle
  <2>2. Budget'
    BY <1>1, <2>1, BudgetRequest DEF Todo
  <2> QED
    BY <2>1, <2>2 DEF Numbered
<1> QED
  BY <1>3, <1>4

LEMMA CountTick ==
    ASSUME Inv, Budget, Numbered, calls \in Nat, SupervisorTick
    PROVE  Budget' /\ Numbered'
<1>1. PICK S, l : Asks(Supervisor, S, l) /\ l = Here /\ S = {"reconnect"}
  BY TickAsks
<1>2. /\ mode' \in Modes /\ UNCHANGED <<mode, bundle, stopped, calls>>
      /\ l \in LocRec /\ l.mesh = handle /\ "adopt" \notin S
      /\ l.mesh # None => l.mesh <= made
  BY <1>1, HereLocals DEF SupervisorTick, Inv, Base, DaemonInv
<1>3. Supervisor \in Actors /\ Supervisor # Main /\ Supervisor \notin Conns
  BY DEF Actors, Main, Supervisor
<1>4. Moves(Supervisor, S, l) /\ UNCHANGED <<handle, made>>
  BY <1>1, <1>2, <1>3, EnterCore DEF Inv
<1>5. Budget'
  <2>1. S \cap Make = {}
    BY <1>1 DEF Make
  <2> QED
    BY <1>2, <1>3, <1>4, <2>1, BudgetMoves DEF Inv
<1>6. Numbered'
  BY <1>2, <1>3, <1>4, NumberedMoves DEF Numbered
<1> QED
  BY <1>5, <1>6

LEMMA CountNext ==
    ASSUME Inv, Budget, Numbered, calls \in Nat, [Next]_vars
    PROVE  Budget' /\ Numbered'
<1>1. ASSUME NEW a \in Actors, Step(a) PROVE Budget' /\ Numbered'
  BY <1>1, CountStep DEF Inv
<1>2. ASSUME NEW a \in Conns, Requests(a) PROVE Budget' /\ Numbered'
  BY <1>2, CountRequests DEF Inv
<1>3. CASE Shutdown
  <2>1. PICK p : Enter(Main, p, Here) /\ calls' = calls + 1
    BY <1>3 DEF Shutdown
  <2>2. Main \in Actors /\ Here.mesh = handle
    BY DEF Actors, Handlers, Here
  <2> QED
    BY <2>1, <2>2, CountRequest DEF Inv
<1>4. CASE SupervisorTick
  BY <1>4, CountTick
<1>5. CASE ReachChange \/ UNCHANGED vars
  <2>1. UNCHANGED <<handle, made, prog, loc, calls>>
    BY <1>5 DEF ReachChange, vars, daemonVars, ctlVars
  <2> QED
    BY <2>1 DEF Budget, Numbered, Makers, Todo
<1> QED
  BY <1>1, <1>2, <1>3, <1>4, <1>5 DEF Next

LEMMA TypedStep == ASSUME Inv, Typed, NEW a \in Actors, Step(a) PROVE Typed'
<1>1. UNCHANGED ctlVars
  BY CtlStep
<1>2. CASE DoTunUp(a) \/ DoTunDown(a) \/ DoTunClose(a)
  <2>1. tunState' \in States /\ tunOpen' \in BOOLEAN
    BY <1>2 DEF Typed, DoTunUp, DoTunDown, DoTunClose, TunCloseState, tunVars, States
  <2>2. UNCHANGED <<daemonVars, meshVars, dns, reach>>
    BY <1>2 DEF DoTunUp, DoTunDown, DoTunClose
  <2>3. UNCHANGED <<wanted, meshState, meshClosed, meshCfg, running, calls, stopped,
                    crossed, raced, enabled>>
    BY <1>1, <2>2 DEF daemonVars, meshVars, ctlVars
  <2> QED
    BY <2>1, <2>2, <2>3 DEF Typed
<1>3. CASE DoDnsApply(a) \/ DoDnsRestore(a)
  <2>1. dns' \in {"none", "applied", "left"}
    BY <1>3 DEF DoDnsApply, DoDnsRestore, Typed
  <2>2. UNCHANGED <<wanted, meshState, meshClosed, meshCfg, running, tunState, tunOpen,
                    reach, calls, stopped, crossed, raced, enabled>>
    BY <1>1, <1>3 DEF DoDnsApply, DoDnsRestore, daemonVars, meshVars, tunVars, ctlVars
  <2> QED
    BY <2>1, <2>2 DEF Typed
<1>4. ASSUME UNCHANGED <<daemonVars, tunVars, dns, reach>>,
                         meshState' \in [Meshes -> States],
             meshClosed' \in [Meshes -> BOOLEAN], meshCfg' \in [Meshes -> BOOLEAN],
             running' \subseteq Clients
      PROVE  Typed'
  <2>1. UNCHANGED <<wanted, tunState, tunOpen, dns, reach, calls, stopped, crossed, raced,
                    enabled>>
    BY <1>1, <1>4 DEF daemonVars, tunVars, ctlVars
  <2> QED
    BY <1>4, <2>1 DEF Typed
<1>5. CASE DoMeshConfigure(a)
  <2>1. UNCHANGED <<daemonVars, tunVars, dns, reach, meshClosed, running>>
    BY <1>5 DEF DoMeshConfigure
  <2>2. meshState' \in [Meshes -> States]
    BY <1>5 DEF DoMeshConfigure, Typed, States
  <2>3. meshCfg' \in [Meshes -> BOOLEAN]
    BY <1>5 DEF DoMeshConfigure, Typed
  <2> QED
    BY <1>4, <2>1, <2>2, <2>3 DEF Typed
<1>6. CASE DoMeshStart(a) \/ StartOk(a) \/ StartFail(a) \/ DoMeshDisconnect(a) \/ DoMeshClose(a)
  <2>1. UNCHANGED <<daemonVars, tunVars, dns, reach, meshCfg>>
    BY <1>6 DEF DoMeshStart, StartOk, StartFail, DoMeshDisconnect, DoMeshClose
  <2>2. meshState' \in [Meshes -> States]
    BY <1>6 DEF DoMeshStart, StartOk, StartFail, DoMeshDisconnect, DoMeshClose, Typed,
       States
  <2>3. meshClosed' \in [Meshes -> BOOLEAN]
    BY <1>6 DEF DoMeshStart, StartOk, StartFail, DoMeshDisconnect, DoMeshClose, Typed
  <2>4. running' \subseteq Clients
    BY <1>6 DEF DoMeshStart, StartOk, StartFail, DoMeshDisconnect, DoMeshClose, Typed
  <2> QED
    BY <1>4, <2>1, <2>2, <2>3, <2>4 DEF Typed
<1>7. CASE DoWant(a)
  <2>1. wanted' \in BOOLEAN
    BY <1>7 DEF DoWant, At
  <2> QED
    BY <1>1, <1>7, <2>1 DEF Typed, DoWant, meshVars, tunVars, ctlVars
<1>8. CASE DoMeshEnsure(a) \/ DoDetach(a) \/ DoAttach(a) \/ DoAdopt(a) \/ DoForget(a)
  <2>1. wanted' \in BOOLEAN /\ UNCHANGED <<meshVars, tunVars, dns, reach>>
    BY <1>8 DEF Typed, DoMeshEnsure, DoDetach, DoAttach, DoAdopt, DoForget, DetachWanted
  <2> QED
    BY <1>1, <2>1 DEF Typed, meshVars, tunVars, ctlVars
<1>9. CASE DoModeUp(a) \/ DoModeMeshUp(a) \/ DoReconnect(a)
  <2>1. UNCHANGED <<daemonVars, meshVars, tunVars, dns, reach>>
    BY <1>9 DEF DoModeUp, DoModeMeshUp, DoReconnect
  <2> QED
    BY <1>1, <2>1 DEF Typed, daemonVars, meshVars, tunVars, ctlVars
<1> QED
  BY <1>2, <1>3, <1>5, <1>6, <1>7, <1>8, <1>9 DEF Step

LEMMA TypedNext == ASSUME Inv, Typed, [Next]_vars PROVE Typed'
<1>1. ASSUME NEW a \in Actors, Step(a) PROVE Typed'
  BY <1>1, TypedStep
<1>2. ASSUME NEW a, NEW p, NEW l, Enter(a, p, l), wanted' \in BOOLEAN, stopped' \in BOOLEAN,
             calls' \in 0..MaxCalls, enabled' \in {"never", "loaded", "bare"}
      PROVE  Typed'
  BY <1>2 DEF Typed, Enter, meshVars, tunVars
<1>3. ASSUME NEW a \in Conns, Requests(a) PROVE Typed'
  <2>1. CASE ImportBundle(a)
    BY <2>1 DEF Typed, ImportBundle, meshVars, tunVars
  <2>2. CASE ~ImportBundle(a)
    <3>1. PICK p, l : Request(a, p, l) /\ wanted' \in BOOLEAN
                      /\ enabled' \in {"never", "loaded", "bare"}
      <4>1. CASE Connect(a) \/ Disconnect(a) \/ RemoveActiveProfile(a) \/ SetRosenpass(a)
        BY <4>1 DEF Connect, Disconnect, RemoveActiveProfile, SetRosenpass, Typed
      <4>2. CASE SetMode(a) \/ SetInnerMeshProfile(a)
        BY <4>2 DEF SetMode, SetInnerMeshProfile, Typed
      <4>3. CASE SetActiveProfile(a)
        BY <4>3 DEF SetActiveProfile, Typed
      <4>4. CASE EnableInnerMesh(a) \/ DisableInnerMesh(a)
        BY <4>4 DEF EnableInnerMesh, DisableInnerMesh, Typed
      <4> QED
        BY <1>3, <2>2, <4>1, <4>2, <4>3, <4>4 DEF Requests
    <3>2. Enter(a, p, l) /\ stopped' \in BOOLEAN /\ calls' \in 0..MaxCalls
      BY <3>1 DEF Request, Typed
    <3> QED
      BY <1>2, <3>1, <3>2
  <2> QED
    BY <2>1, <2>2
<1>4. CASE Shutdown
  BY <1>2, <1>4 DEF Shutdown, Typed
<1>5. CASE SupervisorTick
  BY <1>2, <1>5 DEF SupervisorTick, Typed
<1>6. CASE ReachChange \/ UNCHANGED vars
  BY <1>6 DEF Typed, ReachChange, vars, daemonVars, meshVars, tunVars, ctlVars
<1> QED
  BY <1>1, <1>3, <1>4, <1>5, <1>6 DEF Next

LEMMA TypedMeans == ASSUME Inv, Typed, Budget, Numbered PROVE TypeOK
<1>1. made \in 0..(MaxCalls + 1)
  <2>1. PICK n : n = Cardinality(Makers)
    OBVIOUS
  <2>2. n \in Nat /\ made + n <= calls + 1
    BY <2>1, FS_CardinalityType DEF Budget
  <2> QED
    BY <2>2 DEF Inv, Base, DaemonInv, Typed
<1>2. handle \in Meshes \cup {None}
  BY <1>1 DEF Meshes, Numbered, Inv, Base, DaemonInv
<1>3. ASSUME NEW a \in Actors
      PROVE  loc[a] \in [mesh : Meshes \cup {None}, mode : Modes \cup {None},
                         bundle : (SUBSET {"outer", "inner"}) \cup {None}]
  <2>1. PICK l : l = loc[a]
    OBVIOUS
  <2>2. l \in LocRec /\ (l.mesh # None => l.mesh <= made /\ l.mesh >= 1)
    BY <2>1 DEF Numbered, Inv, Base, LocInv
  <2>3. l.mesh \in Meshes \cup {None}
    BY <1>1, <2>2 DEF LocRec, Meshes
  <2> QED
    BY <2>1, <2>2, <2>3 DEF LocRec
<1>4. \A a \in Actors : prog[a] \in Seq(CallRec)
  BY DEF Inv, Base, PlanInv
<1> QED
  BY <1>1, <1>2, <1>3, <1>4 DEF TypeOK, Typed, Inv, Base, DaemonInv

LEMMA TypedInit == ASSUME Init PROVE Typed /\ Budget /\ Numbered
<1>1. Typed
  <2>1. /\ meshState \in [Meshes -> States]
        /\ meshClosed \in [Meshes -> BOOLEAN] /\ meshCfg \in [Meshes -> BOOLEAN]
    BY DEF Init, States
  <2>2. /\ running \subseteq Clients /\ tunState \in States /\ calls \in 0..MaxCalls
        /\ reach \in {"ok", "refuse", "silent"} /\ enabled \in {"never", "loaded", "bare"}
    BY DEF Init, States
  <2> QED
    BY <2>1, <2>2 DEF Init, Typed
<1>2. Makers = {}
  BY PlanEmpty DEF Makers, Init, Todo, Plan
<1>3. IsFiniteSet(Makers) /\ Cardinality(Makers) = 0
  BY <1>2, FS_EmptySet
<1>4. Budget
  BY <1>3 DEF Init, Budget
<1>5. Numbered
  BY DEF Init, Numbered, NoLoc
<1> QED
  BY <1>1, <1>4, <1>5

(* The daemon's fields, the mesh objects and every handler's program keep  *)
(* their types however the handlers interleave; in particular no sequence  *)
(* of requests makes more meshes than there are requests, and New's.       *)
THEOREM LegsTypeCorrect == Spec => []TypeOK
<1>1. Init => Typed /\ Budget /\ Numbered
  BY TypedInit
<1>2. Inv /\ Typed /\ Budget /\ Numbered /\ [Next]_vars => (Typed /\ Budget /\ Numbered)'
  <2>1. Typed => calls \in Nat
    BY DEF Typed
  <2> QED
    BY <2>1, TypedNext, CountNext
<1>3. Inv /\ Typed /\ Budget /\ Numbered => TypeOK
  BY TypedMeans
<1> QED
  BY <1>1, <1>2, <1>3, InvAlways, PTL DEF Spec

=============================================================================
