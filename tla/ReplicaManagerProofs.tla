------------------------ MODULE ReplicaManagerProofs ------------------------
(***************************************************************************)
(* Properties of the replica managers for every number of managers and     *)
(* clients, every set of names and every kind of state machine.            *)
(***************************************************************************)
EXTENDS ReplicaManager, SequenceTheorems, WellFoundedInduction, TLAPS

(***************************************************************************)
(* The managers in an environment: the clients of ReplicaManager and those *)
(* of FrontEnd do nothing else to them than send a request to a thread     *)
(* that is idle, with an operation of C, and use or drop connections of    *)
(* their own.  Every invariant is proved for the steps of OpenNext.        *)
(***************************************************************************)
ManagerStep ==
    \/ \E p \in Proc, r \in RM : Step(p, r)
    \/ \E r \in RM : Exit(r) \/ Start(r)

Arrival(c, r, C) ==
    /\ thread[c][r] = Idle
    /\ CanCall(c, r)
    /\ Connect(c, {r})
    /\ \E op \in C, n \in Name, v \in Value \cup {Nil} :
          /\ op \in {"create", "apply"} <=> v \in Value
          /\ Goto(c, r, Request(op, n, v, IF op = "create" THEN <<r>> ELSE <<>>, TRUE))
    /\ UNCHANGED <<status, machines, groupMap, mutex>>

Reconnects(c) ==
    /\ \/ \E S \in SUBSET RM : Connect(c, S)
       \/ conn' = [conn EXCEPT ![c] = [q \in RM |-> "none"]]
    /\ UNCHANGED <<status, managerVars>>

OpenNext(C) ==
    \/ ManagerStep
    \/ \E c \in Client, r \in RM : Arrival(c, r, C)
    \/ \E c \in Client : Reconnects(c)
    \/ UNCHANGED vars

LEMMA NextIsOpen == [Next]_vars => OpenNext(Command)
<1>1. ASSUME NEW c \in Client, NEW r \in RM, ClientCall(c, r)
      PROVE  Arrival(c, r, Command)
  BY <1>1 DEF ClientCall, Arrival
<1> QED
  BY <1>1 DEF Next, OpenNext, ManagerStep

(* The first position of a non-empty set of positions is one of them.      *)
LEMMA MinOfNats ==
    ASSUME NEW S, S \subseteq Nat, S # {}
    PROVE  Min(S) \in S /\ \A k \in S : Min(S) <= k
<1>1. PICK x \in S : \A y \in S : ~(<<y, x>> \in OpToRel(<, Nat))
  BY NatLessThanWellFounded, WFMin
<1>2. ASSUME NEW y \in S
      PROVE  x <= y
  <2>1. ~(y < x)
    BY <1>1, Zenon DEF OpToRel
  <2> QED
    BY <2>1
<1>3. \E z \in S : \A y \in S : z <= y
  BY <1>2
<1> QED
  BY <1>3 DEF Min

(* Types                                                                   *)

Conns == [Proc -> [RM -> ConnState]]
Lists == [RM -> [Name -> Seq(Id) \cup {Nil}]]
Threads == [Proc -> [RM -> Frame \cup {Idle}]]

LEMMA ActiveFrame ==
    ASSUME TypeOK, NEW p \in Proc, NEW r \in RM
    PROVE  /\ thread[p][r] \in Frame \cup {Idle}
           /\ thread[p][r].pc # "idle" => thread[p][r] \in Frame
           /\ thread[p][r] = Idle \/ thread[p][r].pc \in PC
BY DEF TypeOK, Frame, Idle

LEMMA GroupType ==
    ASSUME TypeOK, NEW r \in RM, NEW n \in Name
    PROVE  Group(r, n) \in Seq(Id)
BY DEF TypeOK, Group

LEMMA RequestType ==
    ASSUME NEW op \in Op, NEW n \in Name, NEW val \in Value \cup {Nil},
           NEW vec \in Seq(Id), NEW ff \in BOOLEAN,
           op = "apply" => val \in Value, N \in Nat
    PROVE  Request(op, n, val, vec, ff) \in Frame
<1>1. NoRM \in Id
  BY DEF Id, NoRM
<1>2. Request(op, n, val, vec, ff).pc \in {"check", "exists", "dup"}
  BY DEF Request
<1> QED
  BY <1>1, <1>2 DEF Request, Frame, PC, Op

LEMMA OpenedType ==
    ASSUME TypeOK, NEW p \in Proc, NEW S
    PROVE  Opened(p, S) \in Conns
BY DEF TypeOK, Opened, Conns, ConnState

LEMMA ThreadType ==
    ASSUME TypeOK, NEW p \in Proc, NEW r \in RM, NEW f \in Frame \cup {Idle}
    PROVE  [thread EXCEPT ![p][r] = f] \in Threads
BY DEF TypeOK, Threads

LEMMA ListType ==
    ASSUME TypeOK, NEW r \in RM, NEW n \in Name, NEW g \in Seq(Id) \cup {Nil},
           SetGroup(r, n, g)
    PROVE  groupMap' \in Lists
BY DEF TypeOK, SetGroup, Lists

LEMMA RemoveAtType ==
    ASSUME NEW S, NEW g \in Seq(S), NEW j \in 1 .. Len(g)
    PROVE  RemoveAt(g, j) \in Seq(S)
<1>1. SubSeq(g, 1, j - 1) \in Seq(S)
  BY SubSeqProperties, ElementOfSeq, LenProperties
<1>2. SubSeq(g, j + 1, Len(g)) \in Seq(S)
  BY SubSeqProperties, ElementOfSeq, LenProperties
<1> QED
  BY <1>1, <1>2, ConcatProperties DEF RemoveAt

LEMMA OthersType ==
    ASSUME NEW r \in RM, NEW g \in Seq(Id), NEW i, Others(r, g, i) # {}
    PROVE  /\ NextOther(r, g, i) \in Nat
           /\ NextOther(r, g, i) \in 1 .. Len(g)
           /\ g[NextOther(r, g, i)] \in Id
           /\ g[NextOther(r, g, i)] # r
<1>1. Others(r, g, i) \subseteq Nat
  BY LenProperties DEF Others
<1>2. NextOther(r, g, i) \in Others(r, g, i)
  BY <1>1, MinOfNats DEF NextOther
<1> QED
  BY <1>2, ElementOfSeq, LenProperties DEF Others

LEMMA ResumeType ==
    ASSUME NEW f \in Frame
    PROVE  Resume(f) \in Frame
<1> DEFINE g == [f EXCEPT !.wait = NoRM]
<1>1. g \in Frame
  BY DEF Frame, Id
<1>2. [g EXCEPT !.i = f.i + 1] \in Frame
  <2>1. f.i + 1 \in Nat
    BY DEF Frame
  <2>2. ASSUME NEW h \in Frame, NEW k \in Nat
        PROVE  [h EXCEPT !.i = k] \in Frame
    BY DEF Frame
  <2> QED
    BY <1>1, <2>1, <2>2
<1>3. Resume(f) = [g EXCEPT !.i = f.i + 1]
  BY Zenon DEF Resume
<1> QED
  BY <1>2, <1>3

LEMMA RepliesType ==
    ASSUME TypeOK, NEW p \in Proc, NEW r \in RM, ReplicasAssumption
    PROVE  ThreadsAfterReply(p, r) \in Threads
<1>1. ASSUME NEW t \in Proc, NEW q \in RM, thread[t][q].wait = r
      PROVE  Resume(thread[t][q]) \in Frame
  <2>1. thread[t][q] \in Frame
    BY <1>1 DEF TypeOK, Idle, RM, NoRM, ReplicasAssumption
  <2> QED
    BY <2>1, ResumeType
<1> QED
  BY <1>1 DEF ThreadsAfterReply, Threads, TypeOK

LEMMA SendType ==
    ASSUME TypeOK, NEW p \in Proc, NEW r \in RM, NEW q \in RM,
           NEW f \in Frame, NEW req, Send(p, r, q, f, req),
           CanCall(r, q) => req \in Frame
    PROVE  thread' \in Threads /\ conn' \in Conns
<1>1. r \in Proc
  BY DEF Proc
<1>2. conn' \in Conns
  BY <1>1, OpenedType DEF Send, Connect
<1>3. CASE CanCall(r, q)
  <2>1. [f EXCEPT !.wait = q] \in Frame
    BY DEF Frame, Id
  <2> DEFINE T == [thread EXCEPT ![p][r] = [f EXCEPT !.wait = q]]
  <2>2. T \in Threads
    BY <2>1, ThreadType
  <2>3. [T EXCEPT ![r][q] = req] \in Threads
    BY <1>1, <1>3, <2>2 DEF Threads
  <2> QED
    BY <1>2, <1>3, <2>3 DEF Send
<1>4. CASE ~CanCall(r, q)
  <2>1. [f EXCEPT !.i = @ + 1] \in Frame
    BY DEF Frame
  <2> QED
    BY <1>2, <1>4, <2>1, ThreadType DEF Send, Goto
<1> QED
  BY <1>3, <1>4

LEMMA DieType ==
    ASSUME TypeOK, NEW r \in RM, NEW how \in Status, Die(r, how), ReplicasAssumption
    PROVE  TypeOK'
<1>1. thread' \in Threads
  <2>1. ASSUME NEW t \in Proc, NEW q \in RM, thread[t][q].wait = r
        PROVE  Resume(thread[t][q]) \in Frame
    <3>1. thread[t][q] \in Frame
      BY <2>1 DEF TypeOK, Idle, RM, NoRM, ReplicasAssumption
    <3> QED
      BY <3>1, ResumeType
  <2> QED
    BY <2>1 DEF Die, Threads, TypeOK
<1>2. conn' \in Conns
  BY DEF Die, ConnWithout, TypeOK, Conns, ConnState
<1> QED
  BY <1>1, <1>2 DEF Die, TypeOK, Threads, Conns

THEOREM TypeInit ==
    ASSUME ReplicasAssumption
    PROVE  Init => TypeOK
BY DEF Init, ReplicasInit, TypeOK, Status, ConnState, ReplicasAssumption

(* A step that only moves a thread on, to pc and position i.               *)
LEMMA MoveType ==
    ASSUME NEW f \in Frame, NEW pc \in PC, NEW i \in Nat,
           pc \in {"local", "unlock"} => f.op = "apply"
    PROVE  /\ [f EXCEPT !.pc = pc] \in Frame
           /\ [f EXCEPT !.i = i, !.pc = pc] \in Frame
           /\ [f EXCEPT !.pc = pc, !.i = i] \in Frame
<1>1. [f EXCEPT !.pc = pc] \in Frame
  BY DEF Frame
<1>2. \A g \in Frame : [g EXCEPT !.i = i] \in Frame
  BY DEF Frame
<1>3. [f EXCEPT !.i = i, !.pc = pc] = [[f EXCEPT !.pc = pc] EXCEPT !.i = i]
  BY DEF Frame
<1>4. [f EXCEPT !.pc = pc, !.i = i] = [[f EXCEPT !.pc = pc] EXCEPT !.i = i]
  BY DEF Frame
<1> QED
  BY <1>1, <1>2, <1>3, <1>4

LEMMA PositionType ==
    ASSUME NEW f \in Frame, NEW i \in Nat
    PROVE  [f EXCEPT !.i = i] \in Frame
BY DEF Frame

LEMMA ResultType ==
    ASSUME NEW f \in Frame, NEW pc \in PC, NEW res \in Value \cup {Nil},
           pc \in {"local", "unlock"} => f.op = "apply"
    PROVE  [f EXCEPT !.pc = pc, !.res = res] \in Frame
<1>1. [f EXCEPT !.pc = pc] \in Frame
  BY DEF Frame
<1>2. \A g \in Frame : [g EXCEPT !.res = res] \in Frame
  BY DEF Frame
<1>3. [f EXCEPT !.pc = pc, !.res = res] = [[f EXCEPT !.pc = pc] EXCEPT !.res = res]
  BY DEF Frame
<1> QED
  BY <1>1, <1>2, <1>3

LEMMA VectorType ==
    ASSUME NEW f \in Frame, NEW pc \in PC, NEW i \in Nat, NEW vec \in Seq(Id),
           pc \in {"local", "unlock"} => f.op = "apply"
    PROVE  /\ [f EXCEPT !.pc = pc, !.i = i, !.vec = vec] \in Frame
           /\ [f EXCEPT !.i = i, !.vec = vec, !.pc = pc] \in Frame
<1>1. \A g \in Frame : [g EXCEPT !.vec = vec] \in Frame
  BY DEF Frame
<1>2. [f EXCEPT !.pc = pc, !.i = i] \in Frame
  BY MoveType
<1>3. [f EXCEPT !.pc = pc, !.i = i, !.vec = vec]
        = [[f EXCEPT !.pc = pc, !.i = i] EXCEPT !.vec = vec]
  BY DEF Frame
<1>4. [f EXCEPT !.i = i, !.vec = vec, !.pc = pc]
        = [[f EXCEPT !.pc = pc, !.i = i] EXCEPT !.vec = vec]
  BY DEF Frame
<1> QED
  BY <1>1, <1>2, <1>3, <1>4

(***************************************************************************)
(* One step of the server threads, action by action.                       *)
(***************************************************************************)
LEMMA TypeServerStep ==
    ASSUME ReplicasAssumption, ManagerAssumption, TypeOK,
           NEW p \in Proc, NEW r \in RM, ServerStep(p, r)
    PROVE  TypeOK'
<1> DEFINE f == thread[p][r]
           g == Group(r, f.name)
<1>0. /\ r \in Proc
      /\ f.pc # "idle" => f \in Frame
      /\ f \in Frame => g \in Seq(Id) /\ Len(g) \in Nat
  BY ActiveFrame, GroupType, LenProperties DEF Proc, Frame
<1>f. f \in Frame => /\ f.op \in Op /\ f.name \in Name /\ f.vec \in Seq(Id)
                     /\ f.val \in Value \cup {Nil} /\ f.i \in Nat
                     /\ f.op = "apply" => f.val \in Value
                     /\ f.pc \in {"local", "unlock"} => f.op = "apply"
  BY DEF Frame
<1> HIDE DEF f, g
<1>1. CASE CreateExists(p, r)
  <2>1. f \in Frame
    BY <1>0, <1>1 DEF CreateExists, At, f
  <2>2. thread' \in Threads
    BY <1>1, <2>1, MoveType, ThreadType DEF CreateExists, Goto, PC, f
  <2>3. conn' \in Conns
    BY <1>0, <1>1, OpenedType DEF CreateExists, Ping, Connect
  <2> QED
    BY <1>1, <2>2, <2>3 DEF CreateExists, TypeOK, Threads, Conns
<1>2. CASE CreateDup(p, r)
  <2>1. f \in Frame
    BY <1>0, <1>2 DEF CreateDup, At, f
  <2>2. \A pc \in {"error", "lock"} : [f EXCEPT !.pc = pc] \in Frame
    BY <2>1, MoveType DEF PC
  <2>3. thread' \in Threads
    BY <1>2, <2>2, ThreadType DEF CreateDup, Goto, f
  <2>4. groupMap' = groupMap \/ SetGroup(r, f.name, f.vec)
    BY <1>2 DEF CreateDup, f
  <2>5. groupMap' \in Lists
    BY <1>f, <2>1, <2>4, ListType DEF TypeOK, Lists
  <2> QED
    BY <1>2, <2>3, <2>5 DEF CreateDup, TypeOK, Threads, Lists
<1>3. CASE CheckExists(p, r)
  <2>1. f \in Frame
    BY <1>0, <1>3 DEF CheckExists, At, f
  <2>2. thread' \in Threads
    BY <1>3, <2>1, MoveType, ThreadType DEF CheckExists, Goto, PC, f
  <2> QED
    BY <1>3, <2>2 DEF CheckExists, TypeOK, Threads
<1>4. CASE Read(p, r)
  <2>1. f \in Frame
    BY <1>0, <1>4 DEF Read, At, f
  <2>2. machines[r][f.name] \in Value \cup {Nil}
    BY <1>f, <2>1 DEF TypeOK
  <2>3. thread' \in Threads
    BY <1>4, <2>1, <2>2, ResultType, ThreadType DEF Read, Goto, PC, f
  <2> QED
    BY <1>4, <2>3 DEF Read, TypeOK, Threads
<1>5. CASE Lock(p, r)
  <2>1. f \in Frame
    BY <1>0, <1>5 DEF Lock, At, f
  <2>2. thread' \in Threads
    BY <1>5, <2>1, MoveType, ThreadType DEF Lock, Goto, PC, f
  <2> QED
    BY <1>5, <2>2 DEF Lock, TypeOK, Threads
<1>6. CASE Insert(p, r)
  <2>1. f \in Frame
    BY <1>0, <1>6 DEF Insert, At, f
  <2>2. thread' \in Threads
    BY <1>6, <2>1, MoveType, ThreadType DEF Insert, Goto, PC, f
  <2> QED
    BY <1>6, <1>f, <2>1, <2>2 DEF Insert, TypeOK, Threads, f
<1>7. CASE InsertGroup(p, r)
  <2>1. f \in Frame
    BY <1>0, <1>7 DEF InsertGroup, At, f
  <2>2. thread' \in Threads
    BY <1>7, <2>1, MoveType, ThreadType DEF InsertGroup, Goto, PC, f
  <2> QED
    BY <1>7, <1>f, <2>1, <2>2 DEF InsertGroup, TypeOK, Threads, f
<1>8. CASE Prune(p, r)
  <2>1. f \in Frame
    BY <1>0, <1>8 DEF Prune, At, f
  <2>2. thread' \in Threads
    BY <1>8, <2>1, PositionType, ThreadType DEF Prune, Goto, f
  <2>3. conn' \in Conns
    BY <1>0, <1>8, OpenedType DEF Prune, Ping, Connect
  <2>4. PICK j \in Silent(r, g, f.i) : groupMap' = [groupMap EXCEPT ![r][f.name] = RemoveAt(g, j)]
    <3>1. Silent(r, g, f.i) \subseteq Nat
      BY <1>0, <2>1, LenProperties DEF Silent
    <3>2. Min(Silent(r, g, f.i)) \in Silent(r, g, f.i)
      BY <1>8, <3>1, MinOfNats DEF Prune, f, g
    <3> QED
      BY <1>8, <3>2 DEF Prune, SetGroup, f, g
  <2>5. RemoveAt(g, j) \in Seq(Id)
    BY <1>0, <2>1, LenProperties, RemoveAtType DEF Silent
  <2> QED
    BY <1>8, <2>2, <2>3, <2>4, <2>5 DEF Prune, f, TypeOK, Threads, Conns
<1>9. CASE PruneEnd(p, r)
  <2>1. f \in Frame
    BY <1>0, <1>9 DEF PruneEnd, At, f
  <2>2. /\ [f EXCEPT !.pc = "select"] \in Frame
        /\ [f EXCEPT !.pc = "send", !.i = 1] \in Frame
    BY <2>1, MoveType DEF PC
  <2>3. thread' \in Threads
    BY <1>9, <2>2, ThreadType DEF PruneEnd, Release, Goto, f
  <2>4. conn' \in Conns
    BY <1>0, <1>9, OpenedType DEF PruneEnd, Ping, Connect
  <2>5. groupMap' \in Lists
    BY <1>0, <1>9, <1>f, <2>1, ListType DEF PruneEnd, f, g
  <2>6. mutex' = mutex \/ mutex' = [mutex EXCEPT ![r] = Nil]
    BY <1>9 DEF PruneEnd, Release, Free
  <2> QED
    BY <1>9, <2>3, <2>4, <2>5, <2>6 DEF PruneEnd, TypeOK, Threads, Conns, Lists
<1>10. CASE Select(p, r)
  <2>1. f \in Frame
    BY <1>0, <1>10 DEF Select, At, f
  <2>2. [f EXCEPT !.pc = "send", !.i = 1] \in Frame
    BY <2>1, MoveType DEF PC
  <2>3. thread' \in Threads
    <3>1. thread' = thread \/ Release(p, r, f)
      BY <1>10, Zenon DEF Select, f
    <3>2. thread \in Threads
      BY DEF TypeOK, Threads
    <3> QED
      BY <2>2, <3>1, <3>2, ThreadType DEF Release, Goto
  <2>4. conn' \in Conns
    BY <1>0, <1>10, OpenedType DEF Select, Ping, Connect
  <2>5. PICK rep \in Id : SetGroup(r, f.name, Append(g, rep))
    BY <1>10 DEF Select, LeastLoaded, NonHolders, Id, f, g
  <2>6. groupMap' \in Lists
    BY <1>0, <1>f, <2>1, <2>5, AppendProperties, ListType
  <2>7. mutex' = mutex \/ mutex' = [mutex EXCEPT ![r] = Nil]
    BY <1>10 DEF Select, Release, Free
  <2> QED
    BY <1>10, <2>3, <2>4, <2>6, <2>7 DEF Select, TypeOK, Threads, Conns, Lists
<1>11. CASE SendCreate(p, r)
  <2> DEFINE j == NextOther(r, g, f.i)
             h == [f EXCEPT !.i = j]
             req == Request("create", f.name, machines[r][f.name], g, FALSE)
  <2>1. f \in Frame
    BY <1>0, <1>11 DEF SendCreate, At, f
  <2>2. j \in Nat /\ g[j] \in Id
    BY <1>0, <1>11, <2>1, OthersType DEF SendCreate, f, g
  <2>3. g[j] \in RM /\ Send(p, r, g[j], h, req)
    BY <1>11, <2>2 DEF SendCreate, Id, f, g
  <2>4. h \in Frame
    BY <2>1, <2>2, PositionType
  <2>5. req \in Frame
    <3>1. machines[r][f.name] \in Value \cup {Nil}
      BY <1>f, <2>1 DEF TypeOK
    <3> QED
      BY <1>0, <1>f, <2>1, <3>1, RequestType DEF Op, ReplicasAssumption
  <2>6. thread' \in Threads /\ conn' \in Conns
    <3> HIDE DEF h, req, j
    <3> QED
      BY <2>3, <2>4, <2>5, SendType
  <2> QED
    BY <1>11, <2>6 DEF SendCreate, TypeOK, Threads, Conns
<1>12. CASE SendEnd(p, r)
  <2>1. f \in Frame
    BY <1>0, <1>12 DEF SendEnd, At, f
  <2>2. /\ [f EXCEPT !.i = 0, !.pc = "reply"] \in Frame
        /\ [f EXCEPT !.i = 0, !.pc = "fwdlock"] \in Frame
        /\ f.op = "apply" => [f EXCEPT !.i = 0, !.pc = "local"] \in Frame
    BY <2>1, MoveType DEF PC
  <2>3. thread' \in Threads
    BY <1>12, <2>2, ThreadType DEF SendEnd, Goto, f
  <2>4. groupMap' \in Lists
    BY <1>0, <1>12, <1>f, <2>1, ListType DEF SendEnd, f, g
  <2> QED
    BY <1>12, <2>3, <2>4 DEF SendEnd, TypeOK, Threads, Lists
<1>13. CASE ForwardLock(p, r)
  <2>1. f \in Frame
    BY <1>0, <1>13 DEF ForwardLock, At, f
  <2>2. [f EXCEPT !.pc = "fwd", !.i = 1, !.vec = g] \in Frame
    BY <1>0, <2>1, VectorType DEF PC
  <2>3. thread' \in Threads
    BY <1>13, <2>2, ThreadType DEF ForwardLock, Goto, f, g
  <2>4. groupMap' \in Lists
    BY <1>0, <1>13, <1>f, <2>1, ListType DEF ForwardLock, f, g
  <2> QED
    BY <1>13, <2>3, <2>4 DEF ForwardLock, TypeOK, Threads, Lists
<1>14. CASE Forward(p, r)
  <2> DEFINE j == NextOther(r, f.vec, f.i)
             h == [f EXCEPT !.i = j]
             req == Request(f.op, f.name, f.val, <<>>, FALSE)
  <2>1. f \in Frame
    BY <1>0, <1>14 DEF Forward, At, f
  <2>2. j \in Nat /\ f.vec[j] \in Id
    BY <1>14, <1>f, <2>1, OthersType DEF Forward, f
  <2>3. f.vec[j] \in RM /\ Send(p, r, f.vec[j], h, req)
    BY <1>14, <2>2 DEF Forward, Id, f
  <2>4. h \in Frame
    BY <2>1, <2>2, PositionType
  <2>5. req \in Frame
    BY <1>f, <2>1, RequestType, EmptySeq DEF ReplicasAssumption
  <2>6. thread' \in Threads /\ conn' \in Conns
    <3> HIDE DEF h, req, j
    <3> QED
      BY <2>3, <2>4, <2>5, SendType
  <2> QED
    BY <1>14, <2>6 DEF Forward, TypeOK, Threads, Conns
<1>15. CASE ForwardEnd(p, r)
  <2>1. f \in Frame
    BY <1>0, <1>15 DEF ForwardEnd, At, f
  <2>2. /\ f.op = "apply" => [f EXCEPT !.i = 0, !.vec = <<>>, !.pc = "local"] \in Frame
        /\ [f EXCEPT !.i = 0, !.vec = <<>>, !.pc = "lock"] \in Frame
    BY <2>1, VectorType, EmptySeq DEF PC
  <2>3. thread' \in Threads
    BY <1>15, <2>2, ThreadType DEF ForwardEnd, Goto, f
  <2> QED
    BY <1>15, <2>3 DEF ForwardEnd, Free, TypeOK, Threads
<1>16. CASE ApplyLocal(p, r)
  <2> DEFINE s == Apply(machines[r][f.name], f.val)
  <2>1. f \in Frame
    BY <1>0, <1>16 DEF ApplyLocal, At, f
  <2>2. s \in Value
    BY <1>16, <1>f, <2>1 DEF ApplyLocal, At, TypeOK, ManagerAssumption, f
  <2>3. [f EXCEPT !.pc = "unlock", !.res = s] \in Frame
    <3> HIDE DEF s
    <3> QED
      BY <1>16, <1>f, <2>1, <2>2, ResultType DEF ApplyLocal, At, PC, f
  <2>4. thread' \in Threads
    BY <1>16, <2>3, ThreadType DEF ApplyLocal, Goto, f
  <2> QED
    BY <1>16, <1>f, <2>1, <2>2, <2>4 DEF ApplyLocal, TypeOK, Threads, f
<1>17. CASE Unlock(p, r)
  <2>1. f \in Frame
    BY <1>0, <1>17 DEF Unlock, At, f
  <2>2. thread' \in Threads
    BY <1>17, <2>1, MoveType, ThreadType DEF Unlock, Goto, PC, f
  <2> QED
    BY <1>17, <2>2 DEF Unlock, Free, TypeOK, Threads
<1>18. CASE Erase(p, r)
  <2>1. f \in Frame
    BY <1>0, <1>18 DEF Erase, At, f
  <2>2. thread' \in Threads
    BY <1>18, <2>1, MoveType, ThreadType DEF Erase, Goto, PC, f
  <2> QED
    BY <1>18, <1>f, <2>1, <2>2 DEF Erase, TypeOK, Threads, f
<1>19. CASE EraseGroup(p, r)
  <2>1. f \in Frame
    BY <1>0, <1>19 DEF EraseGroup, At, f
  <2>2. thread' \in Threads
    BY <1>19, <2>1, MoveType, ThreadType DEF EraseGroup, Goto, PC, f
  <2>3. groupMap' \in Lists
    BY <1>19, <1>f, <2>1, ListType DEF EraseGroup, f
  <2> QED
    BY <1>19, <2>2, <2>3 DEF EraseGroup, Free, TypeOK, Threads, Lists
<1> QED
  BY <1>1, <1>2, <1>3, <1>4, <1>5, <1>6, <1>7, <1>8, <1>9, <1>10, <1>11, <1>12,
     <1>13, <1>14, <1>15, <1>16, <1>17, <1>18, <1>19 DEF ServerStep

LEMMA TypeStep ==
    ASSUME ReplicasAssumption, ManagerAssumption, TypeOK,
           NEW C, C \subseteq Op, OpenNext(C)
    PROVE  TypeOK'
<1>1. ASSUME NEW p \in Proc, NEW r \in RM, ServerStep(p, r)
      PROVE  TypeOK'
  BY <1>1, TypeServerStep
<1>2. ASSUME NEW p \in Proc, NEW r \in RM, Reply(p, r)
      PROVE  TypeOK'
  BY <1>2, RepliesType DEF Reply, TypeOK, Threads
<1>3. ASSUME NEW p \in Proc, NEW r \in RM, Escape(p, r)
      PROVE  TypeOK'
  <2>1. r \in Proc
    BY DEF Proc
  <2>2. Opened(r, Pinged(p, r)) \in Conns
    BY <2>1, OpenedType
  <2>3. conn' \in Conns
    BY <1>3, <2>2 DEF Escape, Conns, ConnState
  <2> QED
    BY <1>3, <2>3, RepliesType DEF Escape, TypeOK, Threads, Conns
<1>4. ASSUME NEW r \in RM, NEW how \in Status, Die(r, how)
      PROVE  TypeOK'
  BY <1>4, DieType
<1>5. ASSUME NEW r \in RM, Start(r)
      PROVE  TypeOK'
  BY <1>5 DEF Start, TypeOK, Status
<1>6. ASSUME NEW c \in Client, NEW r \in RM, Arrival(c, r, C)
      PROVE  TypeOK'
  <2>1. c \in Proc
    BY DEF Proc
  <2>2. conn' \in Conns
    BY <1>6, <2>1, OpenedType DEF Arrival, Connect
  <2>3. PICK op \in C, n \in Name, v \in Value \cup {Nil}, vec \in {<<>>, <<r>>} :
          /\ op = "apply" => v \in Value
          /\ Goto(c, r, Request(op, n, v, vec, TRUE))
    BY <1>6 DEF Arrival
  <2>4. <<r>> \in Seq(Id) /\ <<>> \in Seq(Id)
    BY DEF Id
  <2>5. Request(op, n, v, vec, TRUE) \in Frame
    BY <2>3, <2>4, RequestType DEF ReplicasAssumption
  <2>6. thread' \in Threads
    BY <2>1, <2>3, <2>5, ThreadType DEF Goto
  <2> QED
    BY <1>6, <2>2, <2>6 DEF Arrival, TypeOK, Threads, Conns
<1>7. ASSUME NEW c \in Client, Reconnects(c)
      PROVE  TypeOK'
  <2>1. c \in Proc
    BY DEF Proc
  <2>2. [conn EXCEPT ![c] = [q \in RM |-> "none"]] \in Conns
    BY <2>1 DEF Conns, ConnState, TypeOK
  <2>3. conn' \in Conns
    BY <1>7, <2>1, <2>2, OpenedType DEF Reconnects, Connect
  <2> QED
    BY <1>7, <2>3 DEF Reconnects, managerVars, TypeOK, Conns
<1>8. CASE UNCHANGED vars
  BY <1>8 DEF vars, TypeOK
<1> QED
  BY <1>1, <1>2, <1>3, <1>4, <1>5, <1>6, <1>7, <1>8
  DEF OpenNext, ManagerStep, Step, Abort, Exit, Status

(***************************************************************************)
(* The values that thread [p][r] is handed and hands on are always of      *)
(* these types: a forwarded operation is a value, a member that a request  *)
(* is sent to is an index, only apply() operates on a machine.             *)
(***************************************************************************)
THEOREM TypeCorrect == Spec => []TypeOK
<1> USE ReplicasAssumption, ManagerAssumption
<1>1. Init => TypeOK
  BY TypeInit
<1>2. TypeOK /\ [Next]_vars => TypeOK'
  BY NextIsOpen, TypeStep DEF ManagerAssumption, Op
<1> QED
  BY <1>1, <1>2, PTL DEF Spec

-----------------------------------------------------------------------------
(* What a step of a server thread does to the threads                      *)

(* h goes on with the request that f serves.                               *)
SameRequest(f, h) ==
    /\ h # Idle
    /\ h.op = f.op /\ h.name = f.name /\ h.val = f.val
    /\ h.fromFrontEnd = f.fromFrontEnd

Untouched(p, r) ==
    \A t \in Proc, u \in RM : <<t, u>> # <<p, r>> => thread'[t][u] = thread[t][u]

(* Thread [p][r] goes on, and waits for nobody.                            *)
Moves(p, r) ==
    /\ SameRequest(thread[p][r], thread'[p][r])
    /\ thread'[p][r].wait = NoRM
    /\ Untouched(p, r)

(* It sends a request to q, whose thread for r is idle, and waits for it.  *)
Calls(p, r, q) ==
    /\ q # r /\ CanCall(r, q) /\ thread[r][q] = Idle
    /\ SameRequest(thread[p][r], thread'[p][r])
    /\ thread'[p][r].wait = q
    /\ thread[p][r].pc \in {"send", "fwd"} /\ thread'[p][r].pc = thread[p][r].pc
    /\ thread'[r][q] # Idle /\ thread'[r][q].wait = NoRM
    /\ thread'[r][q].op \in {"create", thread[p][r].op}
    /\ \A t \in Proc, u \in RM :
          <<t, u>> \notin {<<p, r>>, <<r, q>>} => thread'[t][u] = thread[t][u]

(* The ways in which the handlers assign to a frame.                       *)
Assigned(f, pc, i, vec, res) ==
    {[f EXCEPT !.pc = pc], [f EXCEPT !.i = i],
     [f EXCEPT !.i = i, !.pc = pc], [f EXCEPT !.pc = pc, !.i = i],
     [f EXCEPT !.pc = pc, !.res = res],
     [f EXCEPT !.pc = pc, !.i = i, !.vec = vec],
     [f EXCEPT !.i = i, !.vec = vec, !.pc = pc]}

LEMMA SameInFrame ==
    ASSUME NEW f \in Frame, NEW pc, NEW i, NEW vec, NEW res,
           NEW h \in Assigned(f, pc, i, vec, res)
    PROVE  SameRequest(f, h) /\ h.wait = f.wait
<1>1. "op" \in DOMAIN h
  BY DEF Frame, Assigned
<1>2. "op" \notin DOMAIN Idle
  BY DEF Idle
<1>3. h.op = f.op /\ h.name = f.name /\ h.val = f.val
  BY DEF Frame, Assigned
<1>4. h.fromFrontEnd = f.fromFrontEnd /\ h.wait = f.wait
  BY DEF Frame, Assigned
<1> QED
  BY <1>1, <1>2, <1>3, <1>4, Zenon DEF SameRequest

LEMMA GotoMoves ==
    ASSUME TypeOK, NEW p \in Proc, NEW r \in RM,
           NEW f \in Frame, f = thread[p][r], f.wait = NoRM,
           NEW pc, NEW i, NEW vec, NEW res,
           \/ Goto(p, r, [f EXCEPT !.pc = pc])
           \/ Goto(p, r, [f EXCEPT !.i = i])
           \/ Goto(p, r, [f EXCEPT !.i = i, !.pc = pc])
           \/ Goto(p, r, [f EXCEPT !.pc = pc, !.i = i])
           \/ Goto(p, r, [f EXCEPT !.pc = pc, !.res = res])
           \/ Goto(p, r, [f EXCEPT !.pc = pc, !.i = i, !.vec = vec])
           \/ Goto(p, r, [f EXCEPT !.i = i, !.vec = vec, !.pc = pc])
    PROVE  Moves(p, r)
<1>1. PICK h \in Assigned(f, pc, i, vec, res) : Goto(p, r, h)
  BY Zenon DEF Assigned
<1>2. SameRequest(f, h) /\ h.wait = NoRM
  BY SameInFrame
<1>3. \A t \in Proc, u \in RM :
        thread'[t][u] = IF t = p /\ u = r THEN h ELSE thread[t][u]
  BY <1>1 DEF Goto, TypeOK
<1> QED
  BY <1>2, <1>3 DEF Moves, Untouched

LEMMA SendKind ==
    ASSUME TypeOK, NEW p \in Proc, NEW r \in RM,
           NEW f \in Frame, f = thread[p][r], f.wait = NoRM, f.pc \in {"send", "fwd"},
           NEW q \in RM, q # r, NEW j, NEW req,
           Send(p, r, q, [f EXCEPT !.i = j], req),
           req # Idle, req.wait = NoRM, req.op \in {"create", f.op}
    PROVE  Moves(p, r) \/ Calls(p, r, q)
<1> DEFINE h == [f EXCEPT !.i = j]
<1>1. CASE CanCall(r, q)
  <2> DEFINE g == [h EXCEPT !.wait = q]
  <2>1. r \in Proc
    BY DEF Proc
  <2>2. g.wait = q /\ g.pc = f.pc /\ SameRequest(f, g)
    <3>1. g.wait = q /\ g.pc = f.pc /\ g.op = f.op /\ g.name = f.name
      BY DEF Frame
    <3>2. g.val = f.val /\ g.fromFrontEnd = f.fromFrontEnd
      BY DEF Frame
    <3>3. g # Idle
      BY <3>1 DEF Idle
    <3> QED
      BY <3>1, <3>2, <3>3 DEF SameRequest
  <2>3. thread[r][q] = Idle /\ thread' = [thread EXCEPT ![p][r] = g, ![r][q] = req]
    BY <1>1 DEF Send
  <2> HIDE DEF g
  <2>4. \A t \in Proc, u \in RM :
          thread'[t][u] = IF t = r /\ u = q THEN req
                          ELSE IF t = p /\ u = r THEN g ELSE thread[t][u]
    BY <2>1, <2>3 DEF TypeOK
  <2>5. thread'[p][r] = g /\ thread'[r][q] = req
    BY <2>1, <2>4
  <2>6. \A t \in Proc, u \in RM :
          <<t, u>> \notin {<<p, r>>, <<r, q>>} => thread'[t][u] = thread[t][u]
    BY <2>4
  <2> QED
    BY <1>1, <2>2, <2>3, <2>5, <2>6, Zenon DEF Calls
<1>2. CASE ~CanCall(r, q)
  <2>1. [h EXCEPT !.i = @ + 1] = [f EXCEPT !.i = j + 1]
    BY DEF Frame
  <2>2. Goto(p, r, [f EXCEPT !.i = j + 1])
    BY <1>2, <2>1 DEF Send
  <2> QED
    BY <2>2, GotoMoves
<1> QED
  BY <1>1, <1>2

(***************************************************************************)
(* A thread that takes a step is not waiting; it goes on with its request, *)
(* or calls another manager.                                               *)
(***************************************************************************)
LEMMA StepKind ==
    ASSUME TypeOK, NEW p \in Proc, NEW r \in RM, ServerStep(p, r)
    PROVE  /\ thread[p][r] \in Frame /\ thread[p][r].wait = NoRM
           /\ Moves(p, r) \/ \E q \in RM : Calls(p, r, q)
<1> DEFINE f == thread[p][r]
<1>0. f.pc # "idle" => f \in Frame
  BY ActiveFrame
<1> HIDE DEF f
<1>1. CASE CreateExists(p, r)
  <2>1. f \in Frame /\ f.wait = NoRM
    BY <1>0, <1>1 DEF CreateExists, At, f
  <2>2. PICK pc : Goto(p, r, [f EXCEPT !.pc = pc])
    BY <1>1 DEF CreateExists, f
  <2> QED
    BY <2>1, <2>2, GotoMoves DEF f
<1>2. CASE CreateDup(p, r)
  <2>1. f \in Frame /\ f.wait = NoRM
    BY <1>0, <1>2 DEF CreateDup, At, f
  <2>2. PICK pc : Goto(p, r, [f EXCEPT !.pc = pc])
    BY <1>2 DEF CreateDup, f
  <2> QED
    BY <2>1, <2>2, GotoMoves DEF f
<1>3. CASE CheckExists(p, r)
  <2>1. f \in Frame /\ f.wait = NoRM
    BY <1>0, <1>3 DEF CheckExists, At, f
  <2>2. PICK pc : Goto(p, r, [f EXCEPT !.pc = pc])
    BY <1>3 DEF CheckExists, f
  <2> QED
    BY <2>1, <2>2, GotoMoves DEF f
<1>4. CASE Read(p, r)
  <2>1. f \in Frame /\ f.wait = NoRM
    BY <1>0, <1>4 DEF Read, At, f
  <2>2. PICK res : Goto(p, r, [f EXCEPT !.pc = "lock", !.res = res])
    BY <1>4 DEF Read, f
  <2> QED
    BY <2>1, <2>2, GotoMoves DEF f
<1>5. CASE Lock(p, r)
  <2>1. f \in Frame /\ f.wait = NoRM
    BY <1>0, <1>5 DEF Lock, At, f
  <2>2. PICK pc : Goto(p, r, [f EXCEPT !.i = 1, !.pc = pc])
    BY <1>5 DEF Lock, f
  <2> QED
    BY <2>1, <2>2, GotoMoves DEF f
<1>6. CASE Insert(p, r)
  <2>1. f \in Frame /\ f.wait = NoRM
    BY <1>0, <1>6 DEF Insert, At, f
  <2>2. Goto(p, r, [f EXCEPT !.pc = "group"])
    BY <1>6 DEF Insert, f
  <2> QED
    BY <2>1, <2>2, GotoMoves DEF f
<1>7. CASE InsertGroup(p, r)
  <2>1. f \in Frame /\ f.wait = NoRM
    BY <1>0, <1>7 DEF InsertGroup, At, f
  <2>2. Goto(p, r, [f EXCEPT !.pc = "prune"])
    BY <1>7 DEF InsertGroup, f
  <2> QED
    BY <2>1, <2>2, GotoMoves DEF f
<1>8. CASE Prune(p, r)
  <2>1. f \in Frame /\ f.wait = NoRM
    BY <1>0, <1>8 DEF Prune, At, f
  <2>2. Goto(p, r, [f EXCEPT !.i = 2])
    BY <1>8 DEF Prune, f
  <2> QED
    BY <2>1, <2>2, GotoMoves DEF f
<1>9. CASE PruneEnd(p, r)
  <2>1. f \in Frame /\ f.wait = NoRM
    BY <1>0, <1>9 DEF PruneEnd, At, f
  <2>2. Goto(p, r, [f EXCEPT !.pc = "select"]) \/ Goto(p, r, [f EXCEPT !.pc = "send", !.i = 1])
    BY <1>9, Zenon DEF PruneEnd, Release, f
  <2> QED
    BY <2>1, <2>2, GotoMoves DEF f
<1>10. CASE Select(p, r)
  <2>1. f \in Frame /\ f.wait = NoRM
    BY <1>0, <1>10 DEF Select, At, f
  <2>2. UNCHANGED thread \/ Goto(p, r, [f EXCEPT !.pc = "send", !.i = 1])
    BY <1>10, Zenon DEF Select, Release, f
  <2>3. UNCHANGED thread => SameRequest(f, thread'[p][r]) /\ thread'[p][r].wait = NoRM
    BY <2>1 DEF SameRequest, Frame, Idle, f
  <2> QED
    BY <2>1, <2>2, <2>3, GotoMoves DEF Moves, Untouched, f
<1>11. CASE SendCreate(p, r)
  <2>1. f \in Frame /\ f.wait = NoRM /\ f.pc = "send"
    BY <1>0, <1>11 DEF SendCreate, At, f
  <2> DEFINE j == NextOther(r, Group(r, f.name), f.i)
             q == Group(r, f.name)[j]
             req == Request("create", f.name, machines[r][f.name], Group(r, f.name), FALSE)
  <2>2. q \in RM /\ q # r
    <3>1. Group(r, f.name) \in Seq(Id)
      BY <2>1, GroupType DEF Frame
    <3>2. q \in Id /\ q # NoRM /\ q # r
      BY <1>11, <3>1, OthersType DEF SendCreate, f
    <3> QED
      BY <3>2 DEF Id
  <2>3. Send(p, r, q, [f EXCEPT !.i = j], req)
    BY <1>11, Zenon DEF SendCreate, f
  <2>4. req # Idle /\ req.wait = NoRM /\ req.op \in {"create", f.op}
    BY DEF Request, Idle
  <2> HIDE DEF j, q, req
  <2>5. Moves(p, r) \/ Calls(p, r, q)
    BY <2>1, <2>2, <2>3, <2>4, SendKind DEF f
  <2> QED
    BY <2>1, <2>2, <2>5 DEF f
<1>12. CASE SendEnd(p, r)
  <2>1. f \in Frame /\ f.wait = NoRM
    BY <1>0, <1>12 DEF SendEnd, At, f
  <2>2. PICK pc : Goto(p, r, [f EXCEPT !.i = 0, !.pc = pc])
    BY <1>12 DEF SendEnd, f
  <2> QED
    BY <2>1, <2>2, GotoMoves DEF f
<1>13. CASE ForwardLock(p, r)
  <2>1. f \in Frame /\ f.wait = NoRM
    BY <1>0, <1>13 DEF ForwardLock, At, f
  <2>2. PICK vec : Goto(p, r, [f EXCEPT !.pc = "fwd", !.i = 1, !.vec = vec])
    BY <1>13 DEF ForwardLock, f
  <2> QED
    BY <2>1, <2>2, GotoMoves DEF f
<1>14. CASE Forward(p, r)
  <2>1. f \in Frame /\ f.wait = NoRM /\ f.pc = "fwd"
    BY <1>0, <1>14 DEF Forward, At, f
  <2> DEFINE j == NextOther(r, f.vec, f.i)
             q == f.vec[j]
             req == Request(f.op, f.name, f.val, <<>>, FALSE)
  <2>2. q \in RM /\ q # r
    <3>1. f.vec \in Seq(Id)
      BY <2>1 DEF Frame
    <3>2. q \in Id /\ q # NoRM /\ q # r
      BY <1>14, <3>1, OthersType DEF Forward, f
    <3> QED
      BY <3>2 DEF Id
  <2>3. Send(p, r, q, [f EXCEPT !.i = j], req)
    BY <1>14, Zenon DEF Forward, f
  <2>4. req # Idle /\ req.wait = NoRM /\ req.op \in {"create", f.op}
    BY DEF Request, Idle
  <2> HIDE DEF j, q, req
  <2>5. Moves(p, r) \/ Calls(p, r, q)
    BY <2>1, <2>2, <2>3, <2>4, SendKind DEF f
  <2> QED
    BY <2>1, <2>2, <2>5 DEF f
<1>15. CASE ForwardEnd(p, r)
  <2>1. f \in Frame /\ f.wait = NoRM
    BY <1>0, <1>15 DEF ForwardEnd, At, f
  <2>2. PICK pc : Goto(p, r, [f EXCEPT !.i = 0, !.vec = <<>>, !.pc = pc])
    BY <1>15 DEF ForwardEnd, f
  <2> QED
    BY <2>1, <2>2, GotoMoves DEF f
<1>16. CASE ApplyLocal(p, r)
  <2>1. f \in Frame /\ f.wait = NoRM
    BY <1>0, <1>16 DEF ApplyLocal, At, f
  <2>2. PICK res : Goto(p, r, [f EXCEPT !.pc = "unlock", !.res = res])
    BY <1>16 DEF ApplyLocal, f
  <2> QED
    BY <2>1, <2>2, GotoMoves DEF f
<1>17. CASE Unlock(p, r)
  <2>1. f \in Frame /\ f.wait = NoRM
    BY <1>0, <1>17 DEF Unlock, At, f
  <2>2. Goto(p, r, [f EXCEPT !.pc = "reply"])
    BY <1>17 DEF Unlock, f
  <2> QED
    BY <2>1, <2>2, GotoMoves DEF f
<1>18. CASE Erase(p, r)
  <2>1. f \in Frame /\ f.wait = NoRM
    BY <1>0, <1>18 DEF Erase, At, f
  <2>2. Goto(p, r, [f EXCEPT !.pc = "eraseGroup"])
    BY <1>18 DEF Erase, f
  <2> QED
    BY <2>1, <2>2, GotoMoves DEF f
<1>19. CASE EraseGroup(p, r)
  <2>1. f \in Frame /\ f.wait = NoRM
    BY <1>0, <1>19 DEF EraseGroup, At, f
  <2>2. Goto(p, r, [f EXCEPT !.pc = "reply"])
    BY <1>19 DEF EraseGroup, f
  <2> QED
    BY <2>1, <2>2, GotoMoves DEF f
<1> QED
  BY <1>1, <1>2, <1>3, <1>4, <1>5, <1>6, <1>7, <1>8, <1>9, <1>10, <1>11, <1>12,
     <1>13, <1>14, <1>15, <1>16, <1>17, <1>18, <1>19 DEF ServerStep

-----------------------------------------------------------------------------
(* The mutex                                                               *)

(* No thread but [p][r] enters or leaves a critical section.               *)
OthersStay(p, r) ==
    \A t \in Proc, u \in RM : <<t, u>> # <<p, r>> =>
        (thread'[t][u].pc \in Critical <=> thread[t][u].pc \in Critical)

LEMMA GotoStays ==
    ASSUME TypeOK, NEW p \in Proc, NEW r \in RM, NEW f, Goto(p, r, f)
    PROVE  OthersStay(p, r) /\ thread'[p][r] = f
BY DEF TypeOK, Goto, OthersStay

LEMMA SendStays ==
    ASSUME TypeOK, NEW p \in Proc, NEW r \in RM, NEW q \in RM, NEW f, NEW req,
           Send(p, r, q, f, req), thread[p][r] # Idle,
           req.pc \in {"check", "exists", "dup"}
    PROVE  /\ OthersStay(p, r)
           /\ \/ thread'[p][r] = [f EXCEPT !.wait = q]
              \/ thread'[p][r] = [f EXCEPT !.i = @ + 1]
           /\ \A t \in Proc, u \in RM :
                <<t, u>> # <<p, r>> => thread'[t][u] \in {thread[t][u], req}
<1>1. CASE CanCall(r, q)
  <2>1. r \in Proc /\ ~(p = r /\ q = r)
    BY <1>1 DEF Send, Proc
  <2>2. thread' = [thread EXCEPT ![p][r] = [f EXCEPT !.wait = q], ![r][q] = req]
    BY <1>1 DEF Send
  <2>3. thread[r][q] = Idle
    BY <1>1 DEF Send
  <2>4. thread'[p][r] = [f EXCEPT !.wait = q]
    BY <2>1, <2>2, <2>3 DEF TypeOK
  <2>5. \A t \in Proc, u \in RM : <<t, u>> # <<p, r>> =>
            thread'[t][u] = IF t = r /\ u = q THEN req ELSE thread[t][u]
    BY <2>1, <2>2 DEF TypeOK
  <2>6. Idle.pc \notin Critical /\ req.pc \notin Critical
    BY DEF Idle, Critical
  <2> QED
    BY <2>3, <2>4, <2>5, <2>6 DEF OthersStay
<1>2. CASE ~CanCall(r, q)
  <2>1. Goto(p, r, [f EXCEPT !.i = @ + 1])
    BY <1>2 DEF Send
  <2>2. \A t \in Proc, u \in RM : <<t, u>> # <<p, r>> => thread'[t][u] = thread[t][u]
    BY <2>1 DEF Goto, TypeOK
  <2> QED
    BY <2>1, <2>2, GotoStays
<1> QED
  BY <1>1, <1>2

LEMMA RequestStarts ==
    ASSUME NEW op, NEW n, NEW val, NEW vec, NEW ff
    PROVE  /\ Request(op, n, val, vec, ff).pc \in {"check", "exists", "dup"}
           /\ Request(op, n, val, vec, ff).op = op
BY DEF Request

(***************************************************************************)
(* What a step of a server thread does to the mutex of its manager.        *)
(***************************************************************************)
Keeps(p, r) ==
    mutex' = mutex /\ (thread'[p][r].pc \in Critical <=> InCritical(p, r))
Acquires(p, r) ==
    /\ mutex[r] = Nil /\ mutex' = [mutex EXCEPT ![r] = p]
    /\ ~InCritical(p, r) /\ thread'[p][r].pc \in Critical
Releases(p, r) ==
    /\ mutex' = [mutex EXCEPT ![r] = Nil]
    /\ InCritical(p, r) \/ thread[p][r].pc = "unlock"
    /\ thread'[p][r].pc \notin Critical

LEMMA PcOfFrame ==
    ASSUME NEW f \in Frame, NEW pc, NEW i, NEW vec, NEW res
    PROVE  /\ [f EXCEPT !.i = i, !.pc = pc].pc = pc
           /\ [f EXCEPT !.pc = pc, !.i = i].pc = pc
           /\ [f EXCEPT !.pc = pc, !.res = res].pc = pc
           /\ [f EXCEPT !.pc = pc, !.i = i, !.vec = vec].pc = pc
           /\ [f EXCEPT !.i = i, !.vec = vec, !.pc = pc].pc = pc
BY DEF Frame

(* The unlock of replaceRM().                                              *)
LEMMA ReleaseStep ==
    ASSUME TypeOK, NEW p \in Proc, NEW r \in RM, NEW f \in Frame,
           Release(p, r, f), InCritical(p, r)
    PROVE  OthersStay(p, r) /\ Releases(p, r)
<1> DEFINE h == [f EXCEPT !.pc = "send", !.i = 1]
<1>1. h.pc = "send"
  BY PcOfFrame
<1>2. Goto(p, r, h) /\ mutex' = [mutex EXCEPT ![r] = Nil]
  BY DEF Release, Free
<1> HIDE DEF h
<1>3. OthersStay(p, r) /\ thread'[p][r].pc = "send"
  BY <1>1, <1>2, GotoStays
<1> QED
  BY <1>2, <1>3 DEF Releases, Critical

LEMMA LockStep ==
    ASSUME TypeOK, NEW p \in Proc, NEW r \in RM, ServerStep(p, r)
    PROVE  /\ OthersStay(p, r)
           /\ Keeps(p, r) \/ Acquires(p, r) \/ Releases(p, r)
<1> DEFINE f == thread[p][r]
<1>0. f.pc # "idle" => f \in Frame
  BY ActiveFrame
<1> HIDE DEF f
<1>1. CASE CreateExists(p, r)
  <2>1. f \in Frame /\ f.pc = "exists"
    BY <1>0, <1>1 DEF CreateExists, At, f
  <2>2. PICK h : Goto(p, r, h) /\ h.pc \in {"error", "lock"}
    BY <1>1, <2>1 DEF CreateExists, Frame, f
  <2>3. OthersStay(p, r) /\ thread'[p][r].pc \in {"error", "lock"}
    BY <2>2, GotoStays
  <2> QED
    BY <1>1, <2>1, <2>3 DEF CreateExists, Keeps, InCritical, Critical, f
<1>2. CASE CreateDup(p, r)
  <2>1. f \in Frame /\ f.pc = "dup"
    BY <1>0, <1>2 DEF CreateDup, At, f
  <2>2. PICK h : Goto(p, r, h) /\ h.pc \in {"error", "lock"}
    BY <1>2, <2>1 DEF CreateDup, Frame, f
  <2>3. OthersStay(p, r) /\ thread'[p][r].pc \in {"error", "lock"}
    BY <2>2, GotoStays
  <2> QED
    BY <1>2, <2>1, <2>3 DEF CreateDup, Keeps, InCritical, Critical, f
<1>3. CASE CheckExists(p, r)
  <2>1. f \in Frame /\ f.pc = "check"
    BY <1>0, <1>3 DEF CheckExists, At, f
  <2>2. PICK h : Goto(p, r, h) /\ h.pc \in {"error", "read", "fwdlock", "lock"}
    BY <1>3, <2>1 DEF CheckExists, Frame, f
  <2>3. OthersStay(p, r) /\ thread'[p][r].pc \in {"error", "read", "fwdlock", "lock"}
    BY <2>2, GotoStays
  <2> QED
    BY <1>3, <2>1, <2>3 DEF CheckExists, Keeps, InCritical, Critical, f
<1>4. CASE Read(p, r)
  <2>1. f \in Frame /\ f.pc = "read"
    BY <1>0, <1>4 DEF Read, At, f
  <2>2. PICK res : Goto(p, r, [f EXCEPT !.pc = "lock", !.res = res])
    BY <1>4 DEF Read, f
  <2>3. OthersStay(p, r) /\ thread'[p][r].pc = "lock"
    <3> DEFINE h == [f EXCEPT !.pc = "lock", !.res = res]
    <3>1. h.pc = "lock"
      BY <2>1, PcOfFrame
    <3>2. Goto(p, r, h)
      BY <2>2
    <3> HIDE DEF h
    <3> QED
      BY <3>1, <3>2, GotoStays
  <2> QED
    BY <1>4, <2>1, <2>3 DEF Read, Keeps, InCritical, Critical, f
<1>5. CASE Lock(p, r)
  <2>1. f \in Frame /\ f.pc = "lock"
    BY <1>0, <1>5 DEF Lock, At, f
  <2>2. PICK pc \in {"insert", "erase", "prune"} : Goto(p, r, [f EXCEPT !.i = 1, !.pc = pc])
    BY <1>5 DEF Lock, f
  <2>3. OthersStay(p, r) /\ thread'[p][r].pc \in {"insert", "erase", "prune"}
    <3> DEFINE h == [f EXCEPT !.i = 1, !.pc = pc]
    <3>1. h.pc = pc
      BY <2>1, PcOfFrame
    <3>2. Goto(p, r, h)
      BY <2>2
    <3> HIDE DEF h
    <3> QED
      BY <3>1, <3>2, GotoStays
  <2> QED
    BY <1>5, <2>1, <2>3 DEF Lock, Acquires, InCritical, Critical, f
<1>6. CASE Insert(p, r)
  <2>1. f \in Frame /\ f.pc = "insert"
    BY <1>0, <1>6 DEF Insert, At, f
  <2>2. PICK h : Goto(p, r, h) /\ h.pc = "group"
    BY <1>6, <2>1 DEF Insert, Frame, f
  <2>3. OthersStay(p, r) /\ thread'[p][r].pc = "group"
    BY <2>2, GotoStays
  <2> QED
    BY <1>6, <2>1, <2>3 DEF Insert, Keeps, InCritical, Critical, f
<1>7. CASE InsertGroup(p, r)
  <2>1. f \in Frame /\ f.pc = "group"
    BY <1>0, <1>7 DEF InsertGroup, At, f
  <2>2. PICK h : Goto(p, r, h) /\ h.pc = "prune"
    BY <1>7, <2>1 DEF InsertGroup, Frame, f
  <2>3. OthersStay(p, r) /\ thread'[p][r].pc = "prune"
    BY <2>2, GotoStays
  <2> QED
    BY <1>7, <2>1, <2>3 DEF InsertGroup, Keeps, InCritical, Critical, f
<1>8. CASE Prune(p, r)
  <2>1. f \in Frame /\ f.pc = "prune"
    BY <1>0, <1>8 DEF Prune, At, f
  <2>2. PICK h : Goto(p, r, h) /\ h.pc = f.pc
    BY <1>8, <2>1 DEF Prune, Frame, f
  <2>3. OthersStay(p, r) /\ thread'[p][r].pc = f.pc
    BY <2>2, GotoStays
  <2> QED
    BY <1>8, <2>1, <2>3 DEF Prune, Keeps, InCritical, Critical, f
<1>9. CASE SendEnd(p, r)
  <2>1. f \in Frame /\ f.pc = "send"
    BY <1>0, <1>9 DEF SendEnd, At, f
  <2>2. PICK pc \in {"reply", "fwdlock", "local"} : Goto(p, r, [f EXCEPT !.i = 0, !.pc = pc])
    BY <1>9 DEF SendEnd, f
  <2>3. OthersStay(p, r) /\ thread'[p][r].pc \in {"reply", "fwdlock", "local"}
    <3> DEFINE h == [f EXCEPT !.i = 0, !.pc = pc]
    <3>1. h.pc = pc
      BY <2>1, PcOfFrame
    <3>2. Goto(p, r, h)
      BY <2>2
    <3> HIDE DEF h
    <3> QED
      BY <3>1, <3>2, GotoStays
  <2> QED
    BY <1>9, <2>1, <2>3 DEF SendEnd, Keeps, InCritical, Critical, f
<1>10. CASE ForwardLock(p, r)
  <2>1. f \in Frame /\ f.pc = "fwdlock"
    BY <1>0, <1>10 DEF ForwardLock, At, f
  <2>2. PICK vec : Goto(p, r, [f EXCEPT !.pc = "fwd", !.i = 1, !.vec = vec])
    BY <1>10 DEF ForwardLock, f
  <2>3. OthersStay(p, r) /\ thread'[p][r].pc = "fwd"
    <3> DEFINE h == [f EXCEPT !.pc = "fwd", !.i = 1, !.vec = vec]
    <3>1. h.pc = "fwd"
      BY <2>1, PcOfFrame
    <3>2. Goto(p, r, h)
      BY <2>2
    <3> HIDE DEF h
    <3> QED
      BY <3>1, <3>2, GotoStays
  <2> QED
    BY <1>10, <2>1, <2>3 DEF ForwardLock, Acquires, InCritical, Critical, f
<1>11. CASE ForwardEnd(p, r)
  <2>1. f \in Frame /\ f.pc = "fwd"
    BY <1>0, <1>11 DEF ForwardEnd, At, f
  <2>2. PICK pc \in {"local", "lock"} : Goto(p, r, [f EXCEPT !.i = 0, !.vec = <<>>, !.pc = pc])
    BY <1>11 DEF ForwardEnd, f
  <2>3. OthersStay(p, r) /\ thread'[p][r].pc \in {"local", "lock"}
    <3> DEFINE h == [f EXCEPT !.i = 0, !.vec = <<>>, !.pc = pc]
    <3>1. h.pc = pc
      BY <2>1, PcOfFrame
    <3>2. Goto(p, r, h)
      BY <2>2
    <3> HIDE DEF h
    <3> QED
      BY <3>1, <3>2, GotoStays
  <2> QED
    BY <1>11, <2>1, <2>3 DEF ForwardEnd, Free, Releases, InCritical, Critical, f
<1>12. CASE ApplyLocal(p, r)
  <2>1. f \in Frame /\ f.pc = "local"
    BY <1>0, <1>12 DEF ApplyLocal, At, f
  <2>2. PICK res : Goto(p, r, [f EXCEPT !.pc = "unlock", !.res = res])
    BY <1>12 DEF ApplyLocal, f
  <2>3. OthersStay(p, r) /\ thread'[p][r].pc = "unlock"
    <3> DEFINE h == [f EXCEPT !.pc = "unlock", !.res = res]
    <3>1. h.pc = "unlock"
      BY <2>1, PcOfFrame
    <3>2. Goto(p, r, h)
      BY <2>2
    <3> HIDE DEF h
    <3> QED
      BY <3>1, <3>2, GotoStays
  <2> QED
    BY <1>12, <2>1, <2>3 DEF ApplyLocal, Keeps, InCritical, Critical, f
<1>13. CASE Unlock(p, r)
  <2>1. f \in Frame /\ f.pc = "unlock"
    BY <1>0, <1>13 DEF Unlock, At, f
  <2>2. PICK h : Goto(p, r, h) /\ h.pc = "reply"
    BY <1>13, <2>1 DEF Unlock, Frame, f
  <2>3. OthersStay(p, r) /\ thread'[p][r].pc = "reply"
    BY <2>2, GotoStays
  <2> QED
    BY <1>13, <2>1, <2>3 DEF Unlock, Free, Releases, InCritical, Critical, f
<1>14. CASE Erase(p, r)
  <2>1. f \in Frame /\ f.pc = "erase"
    BY <1>0, <1>14 DEF Erase, At, f
  <2>2. PICK h : Goto(p, r, h) /\ h.pc = "eraseGroup"
    BY <1>14, <2>1 DEF Erase, Frame, f
  <2>3. OthersStay(p, r) /\ thread'[p][r].pc = "eraseGroup"
    BY <2>2, GotoStays
  <2> QED
    BY <1>14, <2>1, <2>3 DEF Erase, Keeps, InCritical, Critical, f
<1>15. CASE EraseGroup(p, r)
  <2>1. f \in Frame /\ f.pc = "eraseGroup"
    BY <1>0, <1>15 DEF EraseGroup, At, f
  <2>2. PICK h : Goto(p, r, h) /\ h.pc = "reply"
    BY <1>15, <2>1 DEF EraseGroup, Frame, f
  <2>3. OthersStay(p, r) /\ thread'[p][r].pc = "reply"
    BY <2>2, GotoStays
  <2> QED
    BY <1>15, <2>1, <2>3 DEF EraseGroup, Free, Releases, InCritical, Critical, f
<1>16. CASE PruneEnd(p, r)
  <2>1. f \in Frame /\ f.pc = "prune"
    BY <1>0, <1>16 DEF PruneEnd, At, f
  <2>2. CASE Goto(p, r, [f EXCEPT !.pc = "select"]) /\ UNCHANGED mutex
    <3>1. [f EXCEPT !.pc = "select"].pc = "select"
      BY <2>1 DEF Frame
    <3>2. OthersStay(p, r) /\ thread'[p][r].pc = "select"
      BY <2>2, <3>1, GotoStays
    <3> QED
      BY <2>1, <2>2, <3>2 DEF Keeps, InCritical, Critical, f
  <2>3. CASE Release(p, r, f)
    BY <2>1, <2>3, ReleaseStep DEF Critical, InCritical, f
  <2> QED
    BY <1>16, <2>2, <2>3, Zenon DEF PruneEnd, f
<1>17. CASE Select(p, r)
  <2>1. f \in Frame /\ f.pc = "select"
    BY <1>0, <1>17 DEF Select, At, f
  <2>2. CASE UNCHANGED <<mutex, thread>>
    BY <2>2 DEF OthersStay, Keeps, InCritical
  <2>3. CASE Release(p, r, f)
    BY <2>1, <2>3, ReleaseStep DEF Critical, InCritical, f
  <2> QED
    BY <1>17, <2>2, <2>3, Zenon DEF Select, f
<1>18. CASE SendCreate(p, r)
  <2> DEFINE g == Group(r, f.name)
             j == NextOther(r, g, f.i)
             h == [f EXCEPT !.i = j]
             req == Request("create", f.name, machines[r][f.name], g, FALSE)
  <2>1. f \in Frame /\ f.pc = "send"
    BY <1>0, <1>18 DEF SendCreate, At, f
  <2>2. g[j] \in RM
    <3>1. g \in Seq(Id)
      BY <2>1, GroupType DEF Frame
    <3>2. g[j] \in Id /\ g[j] # NoRM
      BY <1>18, <3>1, OthersType DEF SendCreate, f
    <3> QED
      BY <3>2 DEF Id
  <2>4. Send(p, r, g[j], h, req) /\ mutex' = mutex
    BY <1>18, Zenon DEF SendCreate, f
  <2>6. req.pc \in {"check", "exists", "dup"}
    BY RequestStarts
  <2>7. [h EXCEPT !.wait = g[j]].pc = "send" /\ [h EXCEPT !.i = @ + 1].pc = "send"
    BY <2>1 DEF Frame
  <2> HIDE DEF h, req, g, j
  <2>8. OthersStay(p, r) /\ thread'[p][r].pc = "send"
    <3>1. thread[p][r] # Idle
      BY <2>1 DEF Idle, f
    <3>2. /\ OthersStay(p, r)
          /\ \/ thread'[p][r] = [h EXCEPT !.wait = g[j]]
             \/ thread'[p][r] = [h EXCEPT !.i = @ + 1]
      BY <2>2, <2>4, <2>6, <3>1, SendStays
    <3> QED
      BY <2>7, <3>2, Zenon
  <2> QED
    BY <2>1, <2>4, <2>8 DEF Keeps, InCritical, Critical, f
<1>19. CASE Forward(p, r)
  <2> DEFINE j == NextOther(r, f.vec, f.i)
             h == [f EXCEPT !.i = j]
             req == Request(f.op, f.name, f.val, <<>>, FALSE)
  <2>1. f \in Frame /\ f.pc = "fwd"
    BY <1>0, <1>19 DEF Forward, At, f
  <2>2. f.vec[j] \in RM
    <3>1. f.vec \in Seq(Id)
      BY <2>1 DEF Frame
    <3>2. f.vec[j] \in Id /\ f.vec[j] # NoRM
      BY <1>19, <3>1, OthersType DEF Forward, f
    <3> QED
      BY <3>2 DEF Id
  <2>3. Send(p, r, f.vec[j], h, req) /\ mutex' = mutex
    BY <1>19, Zenon DEF Forward, f
  <2>4. req.pc \in {"check", "exists", "dup"}
    BY RequestStarts
  <2>5. [h EXCEPT !.wait = f.vec[j]].pc = "fwd" /\ [h EXCEPT !.i = @ + 1].pc = "fwd"
    BY <2>1 DEF Frame
  <2> HIDE DEF h, req, j
  <2>6. OthersStay(p, r) /\ thread'[p][r].pc = "fwd"
    <3>1. thread[p][r] # Idle
      BY <2>1 DEF Idle, f
    <3>2. /\ OthersStay(p, r)
          /\ \/ thread'[p][r] = [h EXCEPT !.wait = f.vec[j]]
             \/ thread'[p][r] = [h EXCEPT !.i = @ + 1]
      BY <2>2, <2>3, <2>4, <3>1, SendStays
    <3> QED
      BY <2>5, <3>2, Zenon
  <2> QED
    BY <2>1, <2>3, <2>6 DEF Keeps, InCritical, Critical, f
<1> QED
  BY <1>1, <1>2, <1>3, <1>4, <1>5, <1>6, <1>7, <1>8, <1>9, <1>10, <1>11, <1>12,
     <1>13, <1>14, <1>15, <1>16, <1>17, <1>18, <1>19 DEF ServerStep

(* A thread whose callee answered or died is where it was.                 *)
LEMMA ResumeKeeps ==
    ASSUME NEW f \in Frame
    PROVE  Resume(f).pc = f.pc /\ Resume(f).op = f.op /\ f # Idle
BY DEF Resume, Frame, Idle, PC

LEMMA WaitingIsActive ==
    ASSUME ReplicasAssumption, TypeOK, NEW t \in Proc, NEW q \in RM, NEW r \in RM,
           thread[t][q].wait = r
    PROVE  thread[t][q] \in Frame
BY DEF TypeOK, Idle, RM, NoRM, ReplicasAssumption

(* Where the threads are after a request has ended, or a process.          *)
LEMMA AfterReply ==
    ASSUME ReplicasAssumption, TypeOK, NEW p \in Proc, NEW r \in RM,
           thread' = ThreadsAfterReply(p, r)
    PROVE  /\ thread'[p][r] = Idle
           /\ \A t \in Proc, q \in RM : <<t, q>> # <<p, r>> =>
                /\ thread'[t][q].pc = thread[t][q].pc
                /\ \/ thread'[t][q] = thread[t][q]
                   \/ thread[t][q] # Idle /\ thread'[t][q].op = thread[t][q].op
<1>1. ASSUME NEW t \in Proc, NEW q \in RM
      PROVE  thread'[t][q] = IF t = p /\ q = r THEN Idle
                             ELSE IF q = p /\ thread[t][q].wait = r THEN Resume(thread[t][q])
                             ELSE thread[t][q]
  BY DEF ThreadsAfterReply
<1>2. ASSUME NEW t \in Proc, NEW q \in RM, thread[t][q].wait = r
      PROVE  /\ Resume(thread[t][q]).pc = thread[t][q].pc
             /\ Resume(thread[t][q]).op = thread[t][q].op
             /\ thread[t][q] # Idle
  BY <1>2, WaitingIsActive, ResumeKeeps
<1> QED
  BY <1>1, <1>2

LEMMA AfterDeath ==
    ASSUME ReplicasAssumption, TypeOK, NEW r \in RM, NEW how, Die(r, how)
    PROVE  \A t \in Proc, q \in RM :
             IF q = r THEN thread'[t][q] = Idle
             ELSE /\ thread'[t][q].pc = thread[t][q].pc
                  /\ \/ thread'[t][q] = thread[t][q]
                     \/ thread[t][q] # Idle /\ thread'[t][q].op = thread[t][q].op
<1>1. ASSUME NEW t \in Proc, NEW q \in RM
      PROVE  thread'[t][q] = IF q = r THEN Idle
                             ELSE IF thread[t][q].wait = r THEN Resume(thread[t][q])
                             ELSE thread[t][q]
  BY DEF Die
<1>2. ASSUME NEW t \in Proc, NEW q \in RM, thread[t][q].wait = r
      PROVE  /\ Resume(thread[t][q]).pc = thread[t][q].pc
             /\ Resume(thread[t][q]).op = thread[t][q].op
             /\ thread[t][q] # Idle
  BY <1>2, WaitingIsActive, ResumeKeeps
<1> QED
  BY <1>1, <1>2

(* A client's request starts where no lock is held.                        *)
Arrived(c, r, C) ==
    /\ OthersStay(c, r)
    /\ thread'[c][r].pc \in {"check", "exists", "dup"}
    /\ thread'[c][r].op \in C /\ thread'[c][r] # Idle /\ thread'[c][r].wait = NoRM
    /\ \A t \in Proc, u \in RM : <<t, u>> # <<c, r>> => thread'[t][u] = thread[t][u]
    /\ thread[c][r] = Idle

LEMMA CallStays ==
    ASSUME TypeOK, NEW C, NEW c \in Client, NEW r \in RM, Arrival(c, r, C)
    PROVE  Arrived(c, r, C)
<1>1. c \in Proc
  BY DEF Proc
<1>2. PICK op \in C, n \in Name, v \in Value \cup {Nil}, vec \in {<<>>, <<r>>} :
        Goto(c, r, Request(op, n, v, vec, TRUE))
  BY DEF Arrival
<1> DEFINE h == Request(op, n, v, vec, TRUE)
<1>3. h.pc \in {"check", "exists", "dup"} /\ h.op = op /\ h # Idle /\ h.wait = NoRM
  BY DEF Request, Idle
<1>4. Goto(c, r, h)
  BY <1>2
<1> HIDE DEF h
<1>5. OthersStay(c, r) /\ thread'[c][r] = h
  BY <1>1, <1>4, GotoStays
<1>6. \A t \in Proc, u \in RM : <<t, u>> # <<c, r>> => thread'[t][u] = thread[t][u]
  BY <1>1, <1>4 DEF Goto, TypeOK
<1> QED
  BY <1>3, <1>5, <1>6 DEF Arrival, Arrived

LEMMA LockOwnerStep ==
    ASSUME ReplicasAssumption, ManagerAssumption, TypeOK, LockOwner, NEW C, OpenNext(C)
    PROVE  LockOwner'
<1>0. Nil \notin Proc /\ Gone \notin Proc
  BY DEF ManagerAssumption
<1>1. ASSUME NEW p \in Proc, NEW r \in RM, ServerStep(p, r)
      PROVE  LockOwner'
  <2>1. OthersStay(p, r)
    BY <1>1, LockStep
  <2>2. CASE Keeps(p, r)
    BY <2>1, <2>2 DEF Keeps, LockOwner, InCritical, OthersStay
  <2>3. CASE Acquires(p, r)
    BY <2>1, <2>3 DEF Acquires, LockOwner, InCritical, OthersStay, TypeOK
  <2>4. CASE Releases(p, r)
    BY <1>0, <2>1, <2>4 DEF Releases, LockOwner, InCritical, OthersStay, TypeOK
  <2> QED
    BY <1>1, <2>2, <2>3, <2>4, LockStep
<1>2. ASSUME NEW p \in Proc, NEW r \in RM, Reply(p, r)
      PROVE  LockOwner'
  <2>1. thread[p][r].pc \notin Critical
    BY <1>2 DEF Reply, Critical
  <2>2. thread' = ThreadsAfterReply(p, r) /\ mutex' = mutex
    BY <1>2 DEF Reply
  <2> QED
    BY <2>1, <2>2, AfterReply DEF LockOwner, InCritical
<1>3. ASSUME NEW p \in Proc, NEW r \in RM, Escape(p, r)
      PROVE  LockOwner'
  <2>1. thread' = ThreadsAfterReply(p, r)
    BY <1>3 DEF Escape
  <2>2. mutex' = [mutex EXCEPT ![r] = IF mutex[r] = p THEN Gone ELSE mutex[r]]
    BY <1>3 DEF Escape
  <2>3. mutex'[r] # p /\ \A t \in Proc, u \in RM : mutex'[u] = t => mutex[u] = t
    BY <1>0, <2>2 DEF TypeOK
  <2>4. \A t \in Proc, u \in RM : <<t, u>> # <<p, r>> => thread'[t][u].pc = thread[t][u].pc
    BY <2>1, AfterReply
  <2> QED
    BY <2>3, <2>4 DEF LockOwner, InCritical
<1>4. ASSUME NEW r \in RM, NEW how, Die(r, how)
      PROVE  LockOwner'
  <2>1. mutex' = [mutex EXCEPT ![r] = Nil]
    BY <1>4 DEF Die
  <2>2. \A t \in Proc, q \in RM : q # r => thread'[t][q].pc = thread[t][q].pc
    BY <1>4, AfterDeath, Zenon
  <2>3. \A t \in Proc, q \in RM :
           mutex'[q] = t => q # r /\ mutex[q] = t
    BY <1>0, <2>1 DEF TypeOK
  <2> QED
    BY <2>2, <2>3 DEF LockOwner, InCritical
<1>5. ASSUME NEW r \in RM, Start(r)
      PROVE  LockOwner'
  BY <1>5 DEF Start, LockOwner, InCritical
<1>6. ASSUME NEW c \in Client, NEW r \in RM, Arrival(c, r, C)
      PROVE  LockOwner'
  <2>1. Arrived(c, r, C)
    BY <1>6, CallStays
  <2>2. OthersStay(c, r) /\ thread[c][r].pc \notin Critical
    BY <2>1 DEF Arrived, Idle, Critical
  <2> QED
    BY <1>6, <2>2 DEF Arrival, LockOwner, InCritical, OthersStay
<1>7. ASSUME NEW c \in Client, Reconnects(c)
      PROVE  LockOwner'
  BY <1>7 DEF Reconnects, managerVars, LockOwner, InCritical
<1>8. CASE UNCHANGED vars
  BY <1>8 DEF vars, LockOwner, InCritical
<1> QED
  BY <1>1, <1>2, <1>3, <1>4, <1>5, <1>6, <1>7, <1>8
  DEF OpenNext, ManagerStep, Step, Abort, Exit

(***************************************************************************)
(* replaceRM() and the handlers never go on with the mutex locked: on each *)
(* of their paths the unlock() comes, whatever the other managers answer   *)
(* and whichever of them die, or the thread ended in an exception.         *)
(***************************************************************************)
THEOREM LockReleased == Spec => []LockOwner
<1> USE ReplicasAssumption, ManagerAssumption
<1>1. Init => LockOwner
  BY DEF Init, LockOwner, ManagerAssumption
<1>2. TypeOK /\ LockOwner /\ [Next]_vars => LockOwner'
  BY NextIsOpen, LockOwnerStep
<1> QED
  BY <1>1, <1>2, TypeCorrect, PTL DEF Spec

-----------------------------------------------------------------------------
(* Mutual exclusion                                                        *)

(* No thread serves an apply() request.                                    *)
NoApply == \A p \in Proc, r \in RM : thread[p][r] = Idle \/ thread[p][r].op # "apply"

LEMMA NoApplyStep ==
    ASSUME TypeOK, NoApply, NEW p \in Proc, NEW r \in RM, ServerStep(p, r)
    PROVE  NoApply'
<1>1. thread[p][r].op # "apply"
  BY StepKind DEF NoApply, Frame, Idle
<1>2. CASE Moves(p, r)
  BY <1>1, <1>2 DEF Moves, Untouched, SameRequest, NoApply
<1>3. ASSUME NEW q \in RM, Calls(p, r, q)
      PROVE  NoApply'
  BY <1>1, <1>3 DEF Calls, SameRequest, NoApply
<1> QED
  BY <1>2, <1>3, StepKind

(* Stronger than MutualExclusion, and inductive together with NoApply.     *)
CriticalOwns == \A p \in Proc, r \in RM : InCritical(p, r) => mutex[r] = p

LEMMA CriticalOwnsStep ==
    ASSUME TypeOK, NoApply, CriticalOwns, NEW p \in Proc, NEW r \in RM, ServerStep(p, r)
    PROVE  CriticalOwns'
<1> DEFINE f == thread[p][r]
<1>1. f.pc # "unlock"
  <2>1. f.pc = "unlock" => f \in Frame /\ f # Idle
    BY ActiveFrame DEF Idle
  <2> QED
    BY <2>1 DEF Frame, NoApply
<1>2. Nil \notin Proc
  BY ManagerAssumption DEF ManagerAssumption
<1>3. OthersStay(p, r)
  BY LockStep
<1>4. CASE Keeps(p, r)
  BY <1>3, <1>4 DEF Keeps, CriticalOwns, InCritical, OthersStay
<1>5. CASE Acquires(p, r)
  <2>1. \A t \in Proc : ~InCritical(t, r)
    BY <1>2, <1>5 DEF Acquires, CriticalOwns
  <2>2. mutex'[r] = p /\ \A u \in RM : u # r => mutex'[u] = mutex[u]
    BY <1>5 DEF Acquires, TypeOK
  <2> QED
    BY <1>3, <2>1, <2>2 DEF CriticalOwns, InCritical, OthersStay
<1>6. CASE Releases(p, r)
  <2>1. mutex[r] = p
    BY <1>1, <1>6 DEF Releases, CriticalOwns
  <2> QED
    BY <1>3, <1>6, <2>1 DEF Releases, CriticalOwns, InCritical, OthersStay, TypeOK
<1> QED
  BY <1>4, <1>5, <1>6, LockStep

LEMMA ExclusionStep ==
    ASSUME ReplicasAssumption, ManagerAssumption, TypeOK, NoApply, CriticalOwns,
           NEW C, "apply" \notin C, OpenNext(C)
    PROVE  NoApply' /\ CriticalOwns'
<1>1. ASSUME NEW p \in Proc, NEW r \in RM, ServerStep(p, r)
      PROVE  NoApply' /\ CriticalOwns'
  BY <1>1, NoApplyStep, CriticalOwnsStep
<1>2. ASSUME NEW p \in Proc, NEW r \in RM, Reply(p, r)
      PROVE  NoApply' /\ CriticalOwns'
  <2>1. thread' = ThreadsAfterReply(p, r) /\ mutex' = mutex
    BY <1>2 DEF Reply
  <2> QED
    BY <2>1, AfterReply DEF NoApply, CriticalOwns, InCritical, Critical, Idle
<1>3. ASSUME NEW p \in Proc, NEW r \in RM, Escape(p, r)
      PROVE  NoApply' /\ CriticalOwns'
  <2>1. thread' = ThreadsAfterReply(p, r)
    BY <1>3 DEF Escape
  <2>2. mutex' = [mutex EXCEPT ![r] = IF mutex[r] = p THEN Gone ELSE mutex[r]]
    BY <1>3 DEF Escape
  <2>3. NoApply'
    BY <2>1, AfterReply DEF NoApply
  <2>4. \A t \in Proc, u \in RM : <<t, u>> # <<p, r>> =>
          (InCritical(t, u) => mutex'[u] = t)
    BY <2>2 DEF CriticalOwns, TypeOK
  <2> QED
    BY <2>1, <2>3, <2>4, AfterReply DEF CriticalOwns, InCritical, Critical, Idle
<1>4. ASSUME NEW r \in RM, NEW how, Die(r, how)
      PROVE  NoApply' /\ CriticalOwns'
  <2>1. mutex' = [mutex EXCEPT ![r] = Nil]
    BY <1>4 DEF Die
  <2>2. NoApply'
    BY <1>4, AfterDeath DEF NoApply
  <2>3. \A t \in Proc, u \in RM : u # r => (InCritical(t, u) => mutex'[u] = t)
    BY <2>1 DEF CriticalOwns, TypeOK
  <2> QED
    BY <1>4, <2>2, <2>3, AfterDeath DEF CriticalOwns, InCritical, Critical, Idle
<1>5. ASSUME NEW r \in RM, Start(r)
      PROVE  NoApply' /\ CriticalOwns'
  BY <1>5 DEF Start, NoApply, CriticalOwns, InCritical
<1>6. ASSUME NEW c \in Client, NEW r \in RM, Arrival(c, r, C)
      PROVE  NoApply' /\ CriticalOwns'
  <2>1. Arrived(c, r, C)
    BY <1>6, CallStays
  <2>2. NoApply'
    BY <2>1 DEF Arrived, NoApply
  <2>3. OthersStay(c, r) /\ thread'[c][r].pc \notin Critical
    BY <2>1 DEF Arrived, Critical
  <2> QED
    BY <1>6, <2>2, <2>3 DEF Arrival, CriticalOwns, InCritical, OthersStay
<1>7. ASSUME NEW c \in Client, Reconnects(c)
      PROVE  NoApply' /\ CriticalOwns'
  BY <1>7 DEF Reconnects, managerVars, NoApply, CriticalOwns, InCritical
<1>8. CASE UNCHANGED vars
  BY <1>8 DEF vars, NoApply, CriticalOwns, InCritical
<1> QED
  BY <1>1, <1>2, <1>3, <1>4, <1>5, <1>6, <1>7, <1>8
  DEF OpenNext, ManagerStep, Step, Abort, Exit

(***************************************************************************)
(* Without apply() the mutex does what the design document says: at most   *)
(* one thread of a manager is in a critical section.  The unlock() at the  *)
(* end of apply() is the only step that lets a second thread in.           *)
(***************************************************************************)
THEOREM ExclusionWithoutApply ==
    ASSUME "apply" \notin Command
    PROVE  Spec => []MutualExclusion
<1> USE ReplicasAssumption, ManagerAssumption
<1> DEFINE Inv == NoApply /\ CriticalOwns
<1>1. Init => Inv
  BY DEF Init, NoApply, CriticalOwns, InCritical, Critical, Idle
<1>2. TypeOK /\ Inv /\ [Next]_vars => Inv'
  BY NextIsOpen, ExclusionStep
<1>3. TypeOK /\ Inv => MutualExclusion
  BY DEF CriticalOwns, MutualExclusion
<1> HIDE DEF Inv
<1> QED
  BY <1>1, <1>2, <1>3, TypeCorrect, PTL DEF Spec

-----------------------------------------------------------------------------
(* Who waits for whom: the calls that the managers make to each other.     *)

NoRMIsNoManager == NoRM \notin RM

LEMMA NoRMOut == ReplicasAssumption => NoRMIsNoManager
BY DEF ReplicasAssumption, NoRMIsNoManager, NoRM, RM

LEMMA ResumeWaits ==
    ASSUME NEW f \in Frame
    PROVE  Resume(f).wait = NoRM /\ Resume(f).pc = f.pc /\ Resume(f) # Idle
BY DEF Resume, Frame, Idle

(* The threads that wait for request [p][r] go on when it has ended.       *)
LEMMA WaitsAfterReply ==
    ASSUME ReplicasAssumption, TypeOK, NEW p \in Proc, NEW r \in RM,
           thread' = ThreadsAfterReply(p, r)
    PROVE  \A t \in Proc, q \in RM :
             /\ <<t, q>> # <<p, r>> => (thread'[t][q] = Idle <=> thread[t][q] = Idle)
             /\ thread'[t][q].wait # NoRM =>
                   /\ thread'[t][q] = thread[t][q]
                   /\ q = p => thread[t][q].wait # r
<1>1. ASSUME NEW t \in Proc, NEW q \in RM
      PROVE  thread'[t][q] = IF t = p /\ q = r THEN Idle
                             ELSE IF q = p /\ thread[t][q].wait = r THEN Resume(thread[t][q])
                             ELSE thread[t][q]
  BY DEF ThreadsAfterReply
<1>2. ASSUME NEW t \in Proc, NEW q \in RM, thread[t][q].wait = r
      PROVE  Resume(thread[t][q]).wait = NoRM /\ Resume(thread[t][q]) # Idle /\ thread[t][q] # Idle
  BY <1>2, WaitingIsActive, ResumeWaits, ResumeKeeps
<1>3. Idle.wait = NoRM
  BY DEF Idle
<1> QED
  BY <1>1, <1>2, <1>3

LEMMA WaitsAfterDeath ==
    ASSUME ReplicasAssumption, TypeOK, NEW r \in RM, NEW how, Die(r, how)
    PROVE  \A t \in Proc, q \in RM :
             /\ q # r => (thread'[t][q] = Idle <=> thread[t][q] = Idle)
             /\ thread'[t][q].wait # NoRM =>
                   thread'[t][q] = thread[t][q] /\ q # r /\ thread[t][q].wait # r
<1>1. ASSUME NEW t \in Proc, NEW q \in RM
      PROVE  thread'[t][q] = IF q = r THEN Idle
                             ELSE IF thread[t][q].wait = r THEN Resume(thread[t][q])
                             ELSE thread[t][q]
  BY DEF Die
<1>2. ASSUME NEW t \in Proc, NEW q \in RM, thread[t][q].wait = r
      PROVE  Resume(thread[t][q]).wait = NoRM /\ Resume(thread[t][q]) # Idle /\ thread[t][q] # Idle
  BY <1>2, WaitingIsActive, ResumeWaits, ResumeKeeps
<1>3. Idle.wait = NoRM
  BY DEF Idle
<1> QED
  BY <1>1, <1>2, <1>3

(***************************************************************************)
(* A thread only ever waits in the two loops that send requests.           *)
(***************************************************************************)
WaitsAtCall ==
    \A p \in Proc, r \in RM : thread[p][r].wait # NoRM => thread[p][r].pc \in {"send", "fwd"}

WaitInv == WaitsAtCall /\ WaitsForAnswer

LEMMA MovesKeepsWaits ==
    ASSUME ReplicasAssumption, WaitInv, NEW p \in Proc, NEW r \in RM,
           thread'[p][r] # Idle, thread'[p][r].wait = NoRM, Untouched(p, r)
    PROVE  WaitInv'
<1>1. NoRM \notin RM
  BY NoRMOut DEF NoRMIsNoManager
<1>2. WaitsAtCall'
  BY DEF WaitInv, WaitsAtCall, Untouched
<1>3. \A t \in Proc, a, b \in RM : thread'[t][a].wait = b => thread[t][a].wait = b
  BY <1>1 DEF Untouched
<1>4. \A a, b \in RM : thread'[a][b] = Idle => thread[a][b] = Idle
  BY DEF Untouched, Proc
<1>5. WaitsForAnswer'
  BY <1>3, <1>4 DEF WaitInv, WaitsForAnswer, Waiting
<1> QED
  BY <1>2, <1>5 DEF WaitInv

LEMMA CallsKeepsWaits ==
    ASSUME ReplicasAssumption, WaitInv, NEW p \in Proc, NEW r \in RM, NEW q \in RM,
           Calls(p, r, q)
    PROVE  WaitInv'
<1>1. NoRM \notin RM /\ r \in Proc
  BY NoRMOut DEF NoRMIsNoManager, Proc
<1>2. /\ thread'[p][r].wait = q /\ thread'[p][r] # Idle /\ thread'[p][r].pc \in {"send", "fwd"}
      /\ thread'[r][q].wait = NoRM /\ thread'[r][q] # Idle
      /\ thread[r][q] = Idle /\ q # r
      /\ \A t \in Proc, u \in RM :
          <<t, u>> \notin {<<p, r>>, <<r, q>>} => thread'[t][u] = thread[t][u]
  BY DEF Calls, SameRequest
<1>3. WaitsAtCall'
  BY <1>2 DEF WaitInv, WaitsAtCall
<1>4. \A t \in Proc, a, b \in RM :
        thread'[t][a].wait = b => IF t = p /\ a = r THEN b = q ELSE thread[t][a].wait = b
  BY <1>1, <1>2
<1>5. \A a, b \in RM : thread'[a][b] = Idle => thread[a][b] = Idle
  BY <1>2 DEF Proc
<1>6. \A t \in Proc : thread[t][r].wait # q
  BY <1>2 DEF WaitInv, WaitsForAnswer, Waiting
<1>7. ASSUME NEW a \in RM, NEW b \in RM, NEW t \in Proc, thread'[t][a].wait = b
      PROVE  thread'[a][b] # Idle
  BY <1>2, <1>4, <1>5, <1>7 DEF WaitInv, WaitsForAnswer, Waiting
<1>8. ASSUME NEW a \in RM, NEW b \in RM, NEW t \in Proc, NEW u \in Proc,
             thread'[t][a].wait = b, thread'[u][a].wait = b
      PROVE  t = u
  BY <1>4, <1>6, <1>8 DEF WaitInv, WaitsForAnswer, Waiting
<1>9. WaitsForAnswer'
  BY <1>7, <1>8 DEF WaitsForAnswer, Waiting
<1> QED
  BY <1>3, <1>9 DEF WaitInv

LEMMA WaitStep ==
    ASSUME ReplicasAssumption, TypeOK, WaitInv, NEW C, OpenNext(C)
    PROVE  WaitInv'
<1>0. NoRM \notin RM
  BY NoRMOut DEF NoRMIsNoManager
<1>1. ASSUME NEW p \in Proc, NEW r \in RM, ServerStep(p, r)
      PROVE  WaitInv'
  <2>1. CASE Moves(p, r)
    BY <2>1, MovesKeepsWaits DEF Moves, SameRequest
  <2> QED
    BY <1>1, <2>1, StepKind, CallsKeepsWaits
<1>2. ASSUME NEW p \in Proc, NEW r \in RM, thread' = ThreadsAfterReply(p, r)
      PROVE  WaitInv'
  <2>1. \A t \in Proc, q \in RM :
             /\ <<t, q>> # <<p, r>> => (thread'[t][q] = Idle <=> thread[t][q] = Idle)
             /\ thread'[t][q].wait # NoRM =>
                   /\ thread'[t][q] = thread[t][q]
                   /\ q = p => thread[t][q].wait # r
    BY <1>2, WaitsAfterReply
  <2>2. WaitsAtCall'
    BY <2>1 DEF WaitInv, WaitsAtCall
  <2>3. WaitsForAnswer'
    BY <1>0, <2>1 DEF WaitInv, WaitsForAnswer, Waiting, Proc
  <2> QED
    BY <2>2, <2>3 DEF WaitInv
<1>3. ASSUME NEW r \in RM, NEW how, Die(r, how)
      PROVE  WaitInv'
  <2>1. \A t \in Proc, q \in RM :
             /\ q # r => (thread'[t][q] = Idle <=> thread[t][q] = Idle)
             /\ thread'[t][q].wait # NoRM =>
                   thread'[t][q] = thread[t][q] /\ q # r /\ thread[t][q].wait # r
    BY <1>3, WaitsAfterDeath
  <2>2. WaitsAtCall'
    BY <2>1 DEF WaitInv, WaitsAtCall
  <2>3. WaitsForAnswer'
    BY <1>0, <2>1 DEF WaitInv, WaitsForAnswer, Waiting, Proc
  <2> QED
    BY <2>2, <2>3 DEF WaitInv
<1>4. ASSUME UNCHANGED thread
      PROVE  WaitInv'
  BY <1>4 DEF WaitInv, WaitsAtCall, WaitsForAnswer, Waiting
<1>5. ASSUME NEW c \in Client, NEW r \in RM, Arrival(c, r, C)
      PROVE  WaitInv'
  <2>1. c \in Proc /\ Arrived(c, r, C)
    BY <1>5, CallStays DEF Proc
  <2> QED
    BY <2>1, MovesKeepsWaits DEF Arrived, Untouched
<1> QED
  BY <1>1, <1>2, <1>3, <1>4, <1>5
  DEF OpenNext, ManagerStep, Step, Reply, Escape, Abort, Exit, Start, Reconnects, managerVars, vars

LEMMA WaitInit ==
    ASSUME ReplicasAssumption, Init
    PROVE  WaitInv
BY NoRMOut DEF NoRMIsNoManager, Init, WaitInv, WaitsAtCall, WaitsForAnswer, Waiting, Idle, Proc

(***************************************************************************)
(* Every thread that waits for a manager waits for a request that is being *)
(* served, and it alone: no answer is delivered twice, and when a manager  *)
(* dies nobody goes on waiting for it.                                     *)
(***************************************************************************)
THEOREM CallerWaitsAlone == Spec => []WaitsForAnswer
<1> USE ReplicasAssumption, ManagerAssumption
<1>1. Init => WaitInv
  BY WaitInit
<1>2. TypeOK /\ WaitInv /\ [Next]_vars => WaitInv'
  BY NextIsOpen, WaitStep
<1>3. WaitInv => WaitsForAnswer
  BY DEF WaitInv
<1> QED
  BY <1>1, <1>2, <1>3, TypeCorrect, PTL DEF Spec
=============================================================================
