------------------------------ MODULE ListProofs ------------------------------
(***************************************************************************)
(* The machines of a manager and its group lists, as long as nobody        *)
(* removes a machine: a manager is on every list it keeps, so it never     *)
(* prunes a list to nothing and never runs off its end, and a machine that *)
(* a handler has found stays.                                              *)
(*                                                                         *)
(* apply() unlocks the mutex twice and lets a second thread into a         *)
(* critical section.  With one name that does no harm here, because the    *)
(* list is there by then; with two, another name's list may be missing.    *)
(***************************************************************************)
EXTENDS ReplicaManagerProofs

OneName == \A m, n \in Name : m = n

(***************************************************************************)
(* A manager does not call itself and reaches itself, and only a process   *)
(* that is up serves requests and has working connections to it.           *)
(***************************************************************************)
SelfReached == \A r \in RM : thread[r][r] = Idle /\ conn[r][r] # "broken"
UpServes ==
    \A p \in Proc, r \in RM : conn[p][r] = "open" \/ thread[p][r] # Idle => Up(r)

(***************************************************************************)
(* What a thread of r in state f relies on, with m and g the machines and  *)
(* the group lists of r.                                                   *)
(***************************************************************************)
Hosted == {"read", "group", "prune", "select", "send", "fwdlock", "fwd", "local", "unlock"}
Listed == {"prune", "select", "send", "fwdlock", "fwd", "local", "unlock"}

FrameOK(r, f, m, g) ==
    /\ f.op # "remove" /\ f.pc \notin {"erase", "eraseGroup"}
    /\ f.op = "apply" => OneName
    /\ f.op = "create" => f.val \in Value /\ r \in ToSet(f.vec)
    /\ f.pc \in {"exists", "dup", "insert", "group"} => f.op = "create"
    /\ f.pc \in {"fwdlock", "fwd"} => f.op = "apply"
    /\ f.pc \in Hosted \/ (f.pc = "lock" /\ f.op # "create") => m[f.name] # Nil
    /\ f.pc \in Listed => g[f.name] # Nil
    /\ f.pc = "prune" => f.i \in {1, 2}
    /\ f.pc \in {"insert", "group"} => f.i = 1
FramesOK ==
    \A p \in Proc, r \in RM :
        thread[p][r] # Idle => FrameOK(r, thread[p][r], machines[r], groupMap[r])

(* A manager is on every list that it keeps.                               *)
OnOwnLists ==
    \A r \in RM, n \in Name : groupMap[r][n] # Nil => r \in ToSet(groupMap[r][n])

(* Until the only list is there, a critical section belongs to the holder. *)
Settled(r) == OneName /\ \E n \in Name : groupMap[r][n] # Nil
Owned == \A r \in RM : Settled(r) \/ \A p \in Proc : InCritical(p, r) => mutex[r] = p

(* A machine without a list is just being created, under the mutex.        *)
Creates(p, r, n) ==
    thread[p][r].pc = "group" /\ thread[p][r].name = n /\ mutex[r] = p
BeingCreated ==
    \A r \in RM, n \in Name :
        machines[r][n] # Nil /\ groupMap[r][n] = Nil => \E p \in Proc : Creates(p, r, n)

ListInv ==
    SelfReached /\ UpServes /\ FramesOK /\ OnOwnLists /\ Owned /\ BeingCreated

-----------------------------------------------------------------------------
(* Lists                                                                   *)

LEMMA OnList ==
    ASSUME NEW g \in Seq(Id)
    PROVE  /\ \A j \in 1 .. Len(g) : g[j] \in ToSet(g)
           /\ \A e \in ToSet(g) : \E j \in 1 .. Len(g) : g[j] = e
BY LenProperties DEF ToSet

LEMMA PartOfList ==
    ASSUME NEW S, NEW g \in Seq(S), NEW m \in Int, NEW n \in Int, \A i \in m .. n : g[i] \in S
  PROVE  /\ SubSeq(g,m,n) \in Seq(S)
         /\ Len(SubSeq(g,m,n)) = IF m<=n THEN n-m+1 ELSE 0
         /\ \A i \in 1 .. n-m+1 : SubSeq(g,m,n)[i] = g[m+i-1]
BY SubSeqProperties
LEMMA RemoveAtElements ==
    ASSUME NEW S, NEW g \in Seq(S), NEW j \in 1 .. Len(g)
  PROVE /\ RemoveAt(g,j) \in Seq(S) /\ Len(RemoveAt(g,j)) = Len(g) - 1
        /\ \A k \in 1 .. j-1 : RemoveAt(g,j)[k] = g[k]
        /\ \A k \in j .. Len(g) - 1 : RemoveAt(g,j)[k] = g[k+1]
<1> DEFINE a == SubSeq(g, 1, j - 1)
           b == SubSeq(g, j + 1, Len(g))
<1>1. Len(g) \in Nat /\ \A k \in 1 .. Len(g) : g[k] \in S
  BY LenProperties, ElementOfSeq
<1>2. a \in Seq(S) /\ Len(a) = j - 1 
  BY <1>1, PartOfList
<1>12.  \A k \in 1 .. j - 1 : a[k] = g[k]
  <2>1. \A k \in 1 .. (j - 1) - 1 + 1 : a[k] = g[1+k-1]
    BY <1>1, PartOfList
  <2> QED
    BY <2>1
<1>3. b \in Seq(S) /\ Len(b) = Len(g) - j
  BY <1>1, PartOfList
<1>13.  \A k \in 1 .. Len(g) - j : b[k] = g[k + j]
  <2>1. \A k \in 1 .. Len(g) - (j+1) + 1 : b[k] = g[(j+1)+k-1]
    BY <1>1, PartOfList
  <2> QED
    BY <1>1, <2>1
<1> HIDE DEF a, b
<1>4. RemoveAt(g, j) = a \o b
  BY DEF RemoveAt, a, b
<1>5. /\ a \o b \in Seq(S) /\ Len(a \o b) = Len(a) + Len(b)
      /\ \A k \in 1 .. Len(a) + Len(b) : (a \o b)[k] = IF k <= Len(a) THEN a[k] ELSE b[k - Len(a)]
  BY <1>2, <1>3, ConcatProperties
<1>6. Len(a \o b) = Len(g) - 1
  BY <1>1, <1>2, <1>3, <1>5
<1>7. ASSUME NEW k \in 1 .. j - 1
      PROVE  (a \o b)[k] = g[k]
  <2>1. k \in 1 .. Len(a) + Len(b) /\ k <= Len(a)
    BY <1>1, <1>2, <1>3
  <2> QED
    BY <1>12, <1>5, <2>1
<1>8. ASSUME NEW k \in j .. Len(g) - 1
      PROVE  (a \o b)[k] = g[k + 1]
  <2>1. k \in 1 .. Len(a) + Len(b) /\ ~(k <= Len(a))
    BY <1>1, <1>2, <1>3
  <2>2. (a \o b)[k] = b[k - Len(a)]
    BY <1>5, <2>1
  <2>3. k - Len(a) \in 1 .. Len(g) - j /\ (k - Len(a)) + j = k + 1
    BY <1>1, <1>2
  <2> QED
    BY <1>13, <2>2, <2>3
<1> QED
  BY <1>4, <1>5, <1>6, <1>7, <1>8
(* Erasing another element keeps an element on a list, and so does adding. *)
LEMMA RemoveAtKeeps ==
    ASSUME NEW g \in Seq(Id), NEW j \in 1 .. Len(g), NEW e \in ToSet(g), g[j] # e
    PROVE  e \in ToSet(RemoveAt(g, j))
<1>1. Len(g) \in Nat
  BY LenProperties
<1>2. PICK k \in 1 .. Len(g) : g[k] = e /\ k # j
  BY OnList
<1>3. PICK i \in 1 .. Len(RemoveAt(g, j)) : RemoveAt(g, j)[i] = e
  <2>1. CASE k < j
    <3>1. k \in 1 .. Len(g) - 1 /\ RemoveAt(g, j)[k] = e
      BY <1>1, <1>2, <2>1, RemoveAtElements
    <3> QED
      BY <3>1, RemoveAtElements
  <2>2. CASE k > j
    <3>1. k - 1 \in j .. Len(g) - 1 /\ k - 1 \in 1 .. Len(g) - 1 /\ (k - 1) + 1 = k
      BY <1>1, <1>2, <2>2
    <3> QED
      BY <1>2, <3>1, RemoveAtElements
  <2> QED
    BY <1>1, <1>2, <2>1, <2>2
<1> QED
  BY <1>3, OnList, RemoveAtElements

LEMMA AppendKeeps ==
    ASSUME NEW g \in Seq(Id), NEW rep \in Id, NEW e \in ToSet(g)
    PROVE  e \in ToSet(Append(g, rep))
<1>1. Len(g) \in Nat /\ DOMAIN g = 1 .. Len(g)
  BY LenProperties
<1>2. /\ Append(g, rep) \in Seq(Id) /\ Len(Append(g, rep)) = Len(g) + 1
      /\ \A k \in 1 .. Len(g) : Append(g, rep)[k] = g[k]
  BY AppendProperties
<1>3. PICK k \in 1 .. Len(g) : g[k] = e
  BY OnList
<1>4. k \in 1 .. Len(Append(g, rep)) /\ Append(g, rep)[k] = e
  BY <1>1, <1>2, <1>3
<1> QED
  BY <1>2, <1>4, OnList

-----------------------------------------------------------------------------
(* Processes and connections                                               *)

LEMMA ReachesSelf ==
    ASSUME TypeOK, SelfReached, UpServes, NEW p \in Proc, NEW r \in RM, thread[p][r] # Idle
    PROVE  CanCall(r, r) /\ p # r
<1>1. conn[r][r] \in ConnState
  BY DEF TypeOK, Proc
<1> QED
  BY <1>1 DEF SelfReached, UpServes, CanCall, ConnState

ConnOK == \A p \in Proc, q \in RM :
    (conn[p][q] = "open" => Up(q)) /\ (p = q => conn[p][q] # "broken")

LEMMA OpenedOK ==
    ASSUME TypeOK, SelfReached, UpServes, NEW p \in Proc, NEW S,
           p \in RM => CanCall(p, p),
           conn' = Opened(p, S), UNCHANGED status
    PROVE  ConnOK'
<1>1. \A t \in Proc, q \in RM :
        conn'[t][q] = IF t = p /\ q \in S
                      THEN IF CanCall(p, q) THEN "open" ELSE "broken"
                      ELSE conn[t][q]
  BY DEF Opened, TypeOK
<1>2. \A t \in Proc, q \in RM : CanCall(t, q) => Up(q)
  BY DEF CanCall, UpServes
<1> QED
  BY <1>1, <1>2 DEF ConnOK, SelfReached, UpServes, Up

LEMMA StepConn ==
    ASSUME NEW p \in Proc, NEW r \in RM, ServerStep(p, r)
    PROVE  /\ UNCHANGED status
           /\ UNCHANGED conn \/ \E S : conn' = Opened(r, S)
<1> USE DEF Ping, Connect
<1>1. CASE CreateExists(p, r)
  BY <1>1 DEF CreateExists
<1>2. CASE Prune(p, r)
  BY <1>2 DEF Prune
<1>3. CASE PruneEnd(p, r)
  BY <1>3 DEF PruneEnd
<1>4. CASE Select(p, r)
  BY <1>4 DEF Select
<1> QED
  BY <1>1, <1>2, <1>3, <1>4 DEF ServerStep, CreateDup, CheckExists, Read, Lock, Insert,
     InsertGroup, SendCreate, SendEnd, ForwardLock, Forward, ForwardEnd, ApplyLocal, Unlock,
     Erase, EraseGroup, Send, Goto, Release

-----------------------------------------------------------------------------
(* Machines and lists                                                      *)

(***************************************************************************)
(* What a step of thread [p][r] does to the machines and the lists: none   *)
(* goes, r stays on its lists, and a machine or a list comes only by the   *)
(* two insert() of create().                                               *)
(***************************************************************************)
DataStep(p, r) ==
    LET f == thread[p][r] IN
    /\ \A u \in RM : u # r => machines'[u] = machines[u] /\ groupMap'[u] = groupMap[u]
    /\ \A n \in Name : machines[r][n] # Nil => machines'[r][n] # Nil
    /\ \A n \in Name : groupMap[r][n] # Nil => groupMap'[r][n] # Nil
    /\ \A n \in Name : groupMap'[r][n] # Nil => r \in ToSet(groupMap'[r][n])
    /\ \A n \in Name : machines'[r][n] # Nil /\ machines[r][n] = Nil =>
                          f.pc = "insert" /\ f.name = n
    /\ f.pc = "insert" => machines'[r][f.name] # Nil
    /\ f.pc = "group" => groupMap'[r][f.name] # Nil

LEMMA ListIsSomething ==
    ASSUME ManagerAssumption, NEW g \in Seq(Id)
    PROVE  g # Nil
BY DEF ManagerAssumption

LEMMA NewListData ==
    ASSUME ManagerAssumption, TypeOK, OnOwnLists, NEW p \in Proc, NEW r \in RM,
           NEW n \in Name, NEW g \in Seq(Id), r \in ToSet(g),
           groupMap' = [groupMap EXCEPT ![r][n] = g], UNCHANGED machines,
           thread[p][r].pc # "insert",
           thread[p][r].pc = "group" => n = thread[p][r].name
    PROVE  DataStep(p, r)
<1>1. g # Nil
  BY ListIsSomething
<1>2. \A u \in RM, m \in Name :
        groupMap'[u][m] = IF u = r /\ m = n THEN g ELSE groupMap[u][m]
  BY DEF TypeOK
<1>3. \A u \in RM : u # r => groupMap'[u] = groupMap[u]
  BY DEF TypeOK
<1> QED
  BY <1>1, <1>2, <1>3 DEF DataStep, OnOwnLists

LEMMA SameData ==
    ASSUME OnOwnLists, NEW p \in Proc, NEW r \in RM, UNCHANGED <<machines, groupMap>>,
           thread[p][r].pc \notin {"insert", "group"}
    PROVE  DataStep(p, r)
BY DEF DataStep, OnOwnLists

(* The lists that a thread of r that has one works on.                     *)
LEMMA ListOfFrame ==
    ASSUME TypeOK, FramesOK, OnOwnLists, NEW p \in Proc, NEW r \in RM,
           thread[p][r] \in Frame, thread[p][r].pc \in Listed
    PROVE  LET n == thread[p][r].name
               g == Group(r, n)
           IN  /\ n \in Name /\ g \in Seq(Id) /\ g = groupMap[r][n]
               /\ r \in ToSet(g) /\ g # <<>>
<1>1. thread[p][r].name \in Name /\ thread[p][r] # Idle
  BY DEF Frame, Idle
<1>2. groupMap[r][thread[p][r].name] # Nil
  BY <1>1 DEF FramesOK, FrameOK
<1>3. Group(r, thread[p][r].name) = groupMap[r][thread[p][r].name]
  BY <1>2 DEF Group
<1>4. Group(r, thread[p][r].name) \in Seq(Id)
  BY <1>1, GroupType
<1>5. r \in ToSet(Group(r, thread[p][r].name))
  BY <1>1, <1>2, <1>3 DEF OnOwnLists
<1>6. ToSet(<<>>) = {}
  BY DEF ToSet
<1> QED
  BY <1>1, <1>3, <1>4, <1>5, <1>6

LEMMA DataOfStep ==
    ASSUME ReplicasAssumption, ManagerAssumption, TypeOK, ListInv,
           NEW p \in Proc, NEW r \in RM, ServerStep(p, r)
    PROVE  DataStep(p, r)
<1> DEFINE f == thread[p][r]
           n == f.name
           g == Group(r, n)
<1> USE DEF ListInv
<1>0. f.pc # "idle" => f \in Frame /\ FrameOK(r, f, machines[r], groupMap[r]) /\ n \in Name
  <2>1. f.pc # "idle" => f \in Frame /\ f # Idle
    BY ActiveFrame DEF Idle
  <2> QED
    BY <2>1 DEF FramesOK, Frame
<1>l. f.pc \in Listed => n \in Name /\ g \in Seq(Id) /\ r \in ToSet(g)
  BY <1>0, ListOfFrame DEF Listed
<1> HIDE DEF f, g, n
<1>1. CASE CreateDup(p, r)
  <2>1. f \in Frame /\ FrameOK(r, f, machines[r], groupMap[r]) /\ n \in Name /\ f.pc = "dup"
    BY <1>0, <1>1 DEF CreateDup, At, f
  <2>2. f.vec \in Seq(Id) /\ r \in ToSet(f.vec)
    BY <2>1 DEF Frame, FrameOK
  <2>3. CASE SetGroup(r, n, f.vec)
    BY <1>1, <2>1, <2>2, <2>3, NewListData DEF CreateDup, SetGroup, f
  <2>4. CASE UNCHANGED groupMap
    BY <1>1, <2>1, <2>4, SameData DEF CreateDup, f
  <2> QED
    BY <1>1, <2>3, <2>4, Zenon DEF CreateDup, f, n
<1>2. CASE Insert(p, r)
  <2>1. f \in Frame /\ n \in Name /\ f.pc = "insert" /\ f.val \in Value
    BY <1>0, <1>2 DEF Insert, At, f, FrameOK
  <2>2. f.val # Nil
    BY <2>1 DEF ManagerAssumption
  <2>3. machines' = [machines EXCEPT ![r][n] = IF machines[r][n] = Nil THEN f.val ELSE machines[r][n]]
    BY <1>2 DEF Insert, f, n
  <2>4. /\ \A u \in RM : u # r => machines'[u] = machines[u]
        /\ machines'[r][n] # Nil
        /\ \A m \in Name : m # n => machines'[r][m] = machines[r][m]
    BY <2>1, <2>2, <2>3 DEF TypeOK
  <2>5. groupMap' = groupMap
    BY <1>2 DEF Insert
  <2> QED
    BY <2>1, <2>4, <2>5 DEF DataStep, OnOwnLists, f, n
<1>3. CASE InsertGroup(p, r)
  <2>1. /\ f \in Frame /\ n \in Name /\ f.pc = "group"
        /\ f.vec \in Seq(Id) /\ r \in ToSet(f.vec)
    BY <1>0, <1>3 DEF InsertGroup, At, f, FrameOK, Frame
  <2>2. PICK h \in Seq(Id) : r \in ToSet(h) /\ groupMap' = [groupMap EXCEPT ![r][n] = h]
    <3>1. CASE groupMap[r][n] = Nil
      BY <1>3, <2>1, <3>1 DEF InsertGroup, f, n
    <3>2. CASE groupMap[r][n] # Nil
      <4>1. groupMap[r][n] \in Seq(Id) /\ r \in ToSet(groupMap[r][n])
        BY <2>1, <3>2 DEF TypeOK, OnOwnLists
      <4> QED
        BY <1>3, <3>2, <4>1 DEF InsertGroup, f, n
    <3> QED
      BY <3>1, <3>2
  <2> QED
    BY <1>3, <2>1, <2>2, NewListData DEF InsertGroup, f, n
<1>4. CASE Prune(p, r)
  <2>1. f \in Frame /\ f.pc = "prune" /\ f # Idle
    BY <1>0, <1>4 DEF Prune, At, f, Idle
  <2>2. g \in Seq(Id) /\ r \in ToSet(g) /\ n \in Name
    BY <1>l, <2>1 DEF Listed
  <2>3. PICK j \in Silent(r, g, f.i) : groupMap' = [groupMap EXCEPT ![r][n] = RemoveAt(g, j)]
    <3>1. Silent(r, g, f.i) \subseteq Nat
      BY <2>2, LenProperties DEF Silent
    <3>2. Min(Silent(r, g, f.i)) \in Silent(r, g, f.i)
      BY <1>4, <3>1, MinOfNats DEF Prune, f, g, n
    <3> QED
      BY <1>4, <3>2 DEF Prune, SetGroup, f, g, n
  <2>4. j \in 1 .. Len(g) /\ g[j] # r
    <3>1. CanCall(r, r)
      BY <2>1, ReachesSelf DEF f
    <3>2. r # NoRM
      BY NoRMOut DEF NoRMIsNoManager
    <3> QED
      BY <2>2, <3>1, <3>2, LenProperties DEF Silent
  <2>5. RemoveAt(g, j) \in Seq(Id) /\ r \in ToSet(RemoveAt(g, j))
    BY <2>2, <2>4, RemoveAtKeeps, RemoveAtType
  <2> QED
    BY <1>4, <2>1, <2>2, <2>3, <2>5, NewListData DEF Prune, f
<1>5. CASE PruneEnd(p, r)
  <2>1. f.pc = "prune" /\ groupMap' = [groupMap EXCEPT ![r][n] = g] /\ UNCHANGED machines
    BY <1>5, Zenon DEF PruneEnd, SetGroup, At, f, g, n
  <2> QED
    BY <1>l, <2>1, NewListData DEF Listed, f
<1>6. CASE Select(p, r)
  <2>1. f.pc = "select" /\ UNCHANGED machines
    BY <1>6 DEF Select, At, f
  <2>2. PICK rep \in Id : groupMap' = [groupMap EXCEPT ![r][n] = Append(g, rep)]
    BY <1>6 DEF Select, LeastLoaded, NonHolders, Id, f, g, n, SetGroup
  <2>3. Append(g, rep) \in Seq(Id) /\ r \in ToSet(Append(g, rep))
    BY <1>l, <2>1, AppendKeeps, AppendProperties DEF Listed
  <2> QED
    BY <1>l, <2>1, <2>2, <2>3, NewListData DEF Listed, f
<1>7. CASE SendEnd(p, r)
  <2>1. f.pc = "send" /\ groupMap' = [groupMap EXCEPT ![r][n] = g] /\ UNCHANGED machines
    BY <1>7, Zenon DEF SendEnd, SetGroup, At, f, g, n
  <2> QED
    BY <1>l, <2>1, NewListData DEF Listed, f
<1>8. CASE ForwardLock(p, r)
  <2>1. f.pc = "fwdlock" /\ groupMap' = [groupMap EXCEPT ![r][n] = g] /\ UNCHANGED machines
    BY <1>8, Zenon DEF ForwardLock, SetGroup, At, f, g, n
  <2> QED
    BY <1>l, <2>1, NewListData DEF Listed, f
<1>9. CASE ApplyLocal(p, r)
  <2>1. f \in Frame /\ n \in Name /\ f.pc = "local" /\ f.op = "apply" /\ f.val \in Value
    BY <1>0, <1>9 DEF ApplyLocal, At, f, Frame
  <2>2. machines[r][n] \in Value /\ machines[r][n] # Nil
    BY <1>9, <2>1 DEF ApplyLocal, TypeOK, f, n
  <2>3. Apply(machines[r][n], f.val) \in Value
    BY <2>1, <2>2 DEF ManagerAssumption
  <2>4. /\ machines' = [machines EXCEPT ![r][n] = Apply(machines[r][n], f.val)]
        /\ groupMap' = groupMap
    BY <1>9 DEF ApplyLocal, f, n
  <2>5. /\ \A u \in RM : u # r => machines'[u] = machines[u]
        /\ \A m \in Name : machines'[r][m] # Nil <=> machines[r][m] # Nil
    BY <2>1, <2>2, <2>3, <2>4 DEF TypeOK, ManagerAssumption
  <2> QED
    BY <2>1, <2>4, <2>5 DEF DataStep, OnOwnLists, f
<1>10. CASE Erase(p, r) \/ EraseGroup(p, r)
  BY <1>0, <1>10 DEF Erase, EraseGroup, At, FrameOK, f
<1>11. CASE CreateExists(p, r) \/ CheckExists(p, r) \/ Read(p, r) \/ Lock(p, r)
  BY <1>11, SameData, Zenon DEF CreateExists, CheckExists, Read, Lock, At
<1>12. CASE SendCreate(p, r) \/ Forward(p, r) \/ ForwardEnd(p, r) \/ Unlock(p, r)
  BY <1>12, SameData, Zenon DEF SendCreate, Forward, ForwardEnd, Unlock, At
<1> QED
  BY <1>1, <1>2, <1>3, <1>4, <1>5, <1>6, <1>7, <1>8, <1>9, <1>10, <1>11, <1>12 DEF ServerStep

-----------------------------------------------------------------------------
(* What the threads rely on                                                *)

(* h is f, moved on to pc and i, with the list vec.                        *)
Changed(f, h, pc, i, vec) ==
    /\ h.op = f.op /\ h.name = f.name /\ h.val = f.val
    /\ h.pc = pc /\ h.i = i /\ h.vec = vec

LEMMA ChangedForms ==
    ASSUME NEW f \in Frame, NEW pc, NEW i, NEW vec, NEW res, NEW q
    PROVE  /\ Changed(f, [f EXCEPT !.pc = pc], pc, f.i, f.vec)
           /\ Changed(f, [f EXCEPT !.i = i], f.pc, i, f.vec)
           /\ Changed(f, [f EXCEPT !.i = i, !.pc = pc], pc, i, f.vec)
           /\ Changed(f, [f EXCEPT !.pc = pc, !.i = i], pc, i, f.vec)
           /\ Changed(f, [f EXCEPT !.pc = pc, !.res = res], pc, f.i, f.vec)
           /\ Changed(f, [f EXCEPT !.pc = pc, !.i = i, !.vec = vec], pc, i, vec)
           /\ Changed(f, [f EXCEPT !.i = i, !.vec = vec, !.pc = pc], pc, i, vec)
           /\ Changed(f, [f EXCEPT !.wait = q], f.pc, f.i, f.vec)
<1>1. /\ Changed(f, [f EXCEPT !.pc = pc], pc, f.i, f.vec)
      /\ Changed(f, [f EXCEPT !.i = i], f.pc, i, f.vec)
      /\ Changed(f, [f EXCEPT !.wait = q], f.pc, f.i, f.vec)
  BY DEF Frame, Changed
<1>2. /\ Changed(f, [f EXCEPT !.i = i, !.pc = pc], pc, i, f.vec)
      /\ Changed(f, [f EXCEPT !.pc = pc, !.i = i], pc, i, f.vec)
      /\ Changed(f, [f EXCEPT !.pc = pc, !.res = res], pc, f.i, f.vec)
  BY DEF Frame, Changed
<1>3. /\ Changed(f, [f EXCEPT !.pc = pc, !.i = i, !.vec = vec], pc, i, vec)
      /\ Changed(f, [f EXCEPT !.i = i, !.vec = vec, !.pc = pc], pc, i, vec)
  BY DEF Frame, Changed
<1> QED
  BY <1>1, <1>2, <1>3

(* A step that assigns such a frame.                                       *)
GoesTo(p, r, pc, i, vec) ==
    Changed(thread[p][r], thread'[p][r], pc, i, vec)

LEMMA GotoGoes ==
    ASSUME TypeOK, NEW p \in Proc, NEW r \in RM, NEW h, Goto(p, r, h),
           NEW pc, NEW i, NEW vec, Changed(thread[p][r], h, pc, i, vec)
    PROVE  GoesTo(p, r, pc, i, vec)
BY DEF TypeOK, Goto, GoesTo

(* What a frame relies on does not go away.                                *)
LEMMA FrameStays ==
    ASSUME NEW r, NEW f, NEW m, NEW g, NEW M, NEW G, FrameOK(r, f, m, g),
           m[f.name] # Nil => M[f.name] # Nil,
           g[f.name] # Nil => G[f.name] # Nil
    PROVE  FrameOK(r, f, M, G)
BY DEF FrameOK, Hosted, Listed

(* A step of a thread, as it changes what the thread relies on.            *)
KeepsFrame(p, r) == FrameOK(r, thread'[p][r], machines'[r], groupMap'[r])

LEMMA FrameOfStep ==
    ASSUME ReplicasAssumption, ManagerAssumption, TypeOK, ListInv,
           NEW p \in Proc, NEW r \in RM, ServerStep(p, r)
    PROVE  KeepsFrame(p, r)
<1> DEFINE f == thread[p][r]
           n == f.name
           m == machines'[r]
           g == groupMap'[r]
<1>1. DataStep(p, r)
  BY DataOfStep
<1>2. f.pc # "idle" => f \in Frame /\ f # Idle /\ FrameOK(r, f, machines[r], groupMap[r]) /\ n \in Name
  <2>1. f.pc # "idle" => f \in Frame /\ f # Idle
    BY ActiveFrame DEF Idle
  <2> QED
    BY <2>1 DEF ListInv, FramesOK, Frame
<1>3. f.pc # "idle" =>
        /\ FrameOK(r, f, m, g)
        /\ machines[r][n] # Nil => m[n] # Nil
        /\ groupMap[r][n] # Nil => g[n] # Nil
  <2>1. n \in Name => /\ machines[r][n] # Nil => m[n] # Nil
                      /\ groupMap[r][n] # Nil => g[n] # Nil
    BY <1>1 DEF DataStep
  <2> QED
    BY <1>2, <2>1, FrameStays
<1> HIDE DEF f, n, m, g
<1> SUFFICES FrameOK(r, thread'[p][r], m, g)
  BY DEF KeepsFrame, m, g
<1> USE DEF FrameOK, Hosted, Listed
<1>4. CASE CreateExists(p, r)
  <2>1. f.pc = "exists" /\ f \in Frame
    BY <1>2, <1>4 DEF CreateExists, At, f
  <2>2. PICK pc \in {"error", "lock"} : Goto(p, r, [f EXCEPT !.pc = pc])
    BY <1>4 DEF CreateExists, f
  <2>3. GoesTo(p, r, pc, f.i, f.vec)
    BY <2>1, <2>2, ChangedForms, GotoGoes, Zenon DEF f
  <2> QED
    BY <1>3, <2>1, <2>2, <2>3 DEF GoesTo, Changed, f, n
<1>5. CASE CreateDup(p, r)
  <2>1. f.pc = "dup" /\ f \in Frame
    BY <1>2, <1>5 DEF CreateDup, At, f
  <2>2. PICK pc \in {"error", "lock"} : Goto(p, r, [f EXCEPT !.pc = pc])
    BY <1>5 DEF CreateDup, f
  <2>3. GoesTo(p, r, pc, f.i, f.vec)
    BY <2>1, <2>2, ChangedForms, GotoGoes, Zenon DEF f
  <2> QED
    BY <1>3, <2>1, <2>2, <2>3 DEF GoesTo, Changed, f, n
<1>6. CASE CheckExists(p, r)
  <2>1. f.pc = "check" /\ f \in Frame
    BY <1>2, <1>6 DEF CheckExists, At, f
  <2>2. PICK pc \in {"error", "read", "lock"} :
          /\ Goto(p, r, [f EXCEPT !.pc = pc])
          /\ pc # "error" => machines[r][n] # Nil
    BY <1>2, <1>6, <2>1 DEF CheckExists, f, n
  <2>3. GoesTo(p, r, pc, f.i, f.vec)
    BY <2>1, <2>2, ChangedForms, GotoGoes, Zenon DEF f
  <2> QED
    BY <1>3, <2>1, <2>2, <2>3 DEF GoesTo, Changed, f, n
<1>7. CASE Read(p, r)
  <2>1. f.pc = "read" /\ f \in Frame /\ machines[r][n] # Nil
    BY <1>2, <1>7 DEF Read, At, f, n
  <2>2. Goto(p, r, [f EXCEPT !.pc = "lock", !.res = machines[r][n]])
    BY <1>7 DEF Read, f, n
  <2>3. GoesTo(p, r, "lock", f.i, f.vec)
    BY <2>1, <2>2, ChangedForms, GotoGoes, Zenon DEF f
  <2> QED
    BY <1>3, <2>1, <2>3 DEF GoesTo, Changed, f, n
<1>8. CASE Lock(p, r)
  <2>1. f.pc = "lock" /\ f \in Frame
    BY <1>2, <1>8 DEF Lock, At, f
  <2>2. PICK pc \in {"insert", "prune"} :
          /\ Goto(p, r, [f EXCEPT !.i = 1, !.pc = pc])
          /\ pc = "insert" <=> f.op = "create"
    BY <1>2, <1>8, <2>1 DEF Lock, f
  <2>3. GoesTo(p, r, pc, 1, f.vec)
    BY <2>1, <2>2, ChangedForms, GotoGoes, Zenon DEF f
  <2>4. f.op # "create" => groupMap[r][n] # Nil /\ machines[r][n] # Nil
    <3>1. mutex[r] = Nil /\ Nil \notin Proc
      BY <1>8 DEF Lock, ManagerAssumption
    <3>2. f.op # "create" => machines[r][n] # Nil
      BY <1>2, <2>1 DEF n
    <3> QED
      BY <1>2, <2>1, <3>1, <3>2 DEF ListInv, BeingCreated, Creates
  <2> QED
    BY <1>3, <2>1, <2>2, <2>3, <2>4 DEF GoesTo, Changed, f, n
<1>9. CASE Insert(p, r)
  <2>1. f.pc = "insert" /\ f \in Frame
    BY <1>2, <1>9 DEF Insert, At, f
  <2>2. Goto(p, r, [f EXCEPT !.pc = "group"])
    BY <1>9 DEF Insert, f
  <2>3. GoesTo(p, r, "group", f.i, f.vec)
    BY <2>1, <2>2, ChangedForms, GotoGoes, Zenon DEF f
  <2>4. m[n] # Nil
    BY <1>1, <2>1 DEF DataStep, f, m, n
  <2> QED
    BY <1>3, <2>1, <2>3, <2>4 DEF GoesTo, Changed, f, n
<1>10. CASE InsertGroup(p, r)
  <2>1. f.pc = "group" /\ f \in Frame
    BY <1>2, <1>10 DEF InsertGroup, At, f
  <2>2. Goto(p, r, [f EXCEPT !.pc = "prune"])
    BY <1>10 DEF InsertGroup, f
  <2>3. GoesTo(p, r, "prune", f.i, f.vec)
    BY <2>1, <2>2, ChangedForms, GotoGoes, Zenon DEF f
  <2>4. g[n] # Nil
    BY <1>1, <2>1 DEF DataStep, f, g, n
  <2> QED
    BY <1>3, <2>1, <2>3, <2>4 DEF GoesTo, Changed, f, n
<1>11. CASE Prune(p, r)
  <2>1. f.pc = "prune" /\ f \in Frame
    BY <1>2, <1>11 DEF Prune, At, f
  <2>2. Goto(p, r, [f EXCEPT !.i = 2])
    BY <1>11 DEF Prune, f
  <2>3. GoesTo(p, r, "prune", 2, f.vec)
    BY <2>1, <2>2, ChangedForms, GotoGoes, Zenon DEF f
  <2> QED
    BY <1>3, <2>1, <2>3 DEF GoesTo, Changed, f, n
<1>12. CASE PruneEnd(p, r)
  <2>1. f.pc = "prune" /\ f \in Frame
    BY <1>2, <1>12 DEF PruneEnd, At, f
  <2>2. Goto(p, r, [f EXCEPT !.pc = "select"]) \/ Goto(p, r, [f EXCEPT !.pc = "send", !.i = 1])
    BY <1>12, Zenon DEF PruneEnd, Release, f
  <2>3. GoesTo(p, r, "select", f.i, f.vec) \/ GoesTo(p, r, "send", 1, f.vec)
    BY <2>1, <2>2, ChangedForms, GotoGoes, Zenon DEF f
  <2> QED
    BY <1>3, <2>1, <2>3 DEF GoesTo, Changed, f, n
<1>13. CASE Select(p, r)
  <2>1. f.pc = "select" /\ f \in Frame
    BY <1>2, <1>13 DEF Select, At, f
  <2>2. UNCHANGED thread \/ Goto(p, r, [f EXCEPT !.pc = "send", !.i = 1])
    BY <1>13, Zenon DEF Select, Release, f
  <2>3. UNCHANGED thread \/ GoesTo(p, r, "send", 1, f.vec)
    BY <2>1, <2>2, ChangedForms, GotoGoes, Zenon DEF f
  <2>4. UNCHANGED thread => thread'[p][r] = f
    BY DEF f
  <2> QED
    BY <1>3, <2>1, <2>3, <2>4 DEF GoesTo, Changed, f, n
<1>14. CASE SendCreate(p, r) \/ Forward(p, r)
  <2>1. f.pc \in {"send", "fwd"} /\ f \in Frame
    BY <1>2, <1>14 DEF SendCreate, Forward, At, f
  <2>2. PICK q, j, req :
          /\ q \in RM /\ Send(p, r, q, [f EXCEPT !.i = j], req)
          /\ req.pc \in {"check", "exists", "dup"}
    <3>1. CASE SendCreate(p, r)
      <4> DEFINE l == Group(r, n)
                 j == NextOther(r, l, f.i)
      <4>1. l \in Seq(Id)
        BY <1>2, <2>1, GroupType DEF n, Frame
      <4>2. l[j] \in Id /\ l[j] # NoRM
        BY <3>1, <4>1, OthersType DEF SendCreate, f, n
      <4>3. l[j] \in RM
        BY <4>2 DEF Id
      <4>4. Send(p, r, l[j], [f EXCEPT !.i = j], Request("create", n, machines[r][n], l, FALSE))
        BY <3>1, Zenon DEF SendCreate, f, n
      <4> HIDE DEF l, j
      <4> QED
        BY <4>3, <4>4, RequestStarts
    <3>2. CASE Forward(p, r)
      <4> DEFINE j == NextOther(r, f.vec, f.i)
      <4>1. f.vec \in Seq(Id)
        BY <2>1 DEF Frame
      <4>2. f.vec[j] \in Id /\ f.vec[j] # NoRM
        BY <3>2, <4>1, OthersType DEF Forward, f
      <4>3. f.vec[j] \in RM
        BY <4>2 DEF Id
      <4>4. Send(p, r, f.vec[j], [f EXCEPT !.i = j], Request(f.op, n, f.val, <<>>, FALSE))
        BY <3>2, Zenon DEF Forward, f, n
      <4> HIDE DEF j
      <4> QED
        BY <4>3, <4>4, RequestStarts
    <3> QED
      BY <1>14, <3>1, <3>2
  <2> DEFINE h == [f EXCEPT !.i = j]
  <2>3. thread'[p][r] = [h EXCEPT !.wait = q] \/ thread'[p][r] = [h EXCEPT !.i = @ + 1]
    <3>1. thread[p][r] # Idle /\ Send(p, r, q, h, req)
      BY <1>2, <2>1, <2>2 DEF f
    <3> HIDE DEF h
    <3> QED
      BY <2>2, <3>1, SendStays
  <2>4. \E k : Changed(f, thread'[p][r], f.pc, k, f.vec)
    <3>1. [h EXCEPT !.i = @ + 1] = [f EXCEPT !.i = j + 1]
      BY <2>1 DEF Frame
    <3>2. Changed(f, [h EXCEPT !.wait = q], f.pc, j, f.vec)
      BY <2>1 DEF Frame, Changed
    <3>3. Changed(f, [f EXCEPT !.i = j + 1], f.pc, j + 1, f.vec)
      BY <2>1, ChangedForms
    <3> QED
      BY <2>3, <3>1, <3>2, <3>3, Zenon
  <2>5. f.pc # "idle"
    BY <2>1
  <2> QED
    BY <1>3, <2>1, <2>4, <2>5 DEF Changed, f, n
<1>15. CASE SendEnd(p, r)
  <2>1. f.pc = "send" /\ f \in Frame
    BY <1>2, <1>15 DEF SendEnd, At, f
  <2>2. PICK pc \in {"reply", "fwdlock", "local"} :
          /\ Goto(p, r, [f EXCEPT !.i = 0, !.pc = pc])
          /\ pc # "reply" => f.op = "apply"
    BY <1>15 DEF SendEnd, f
  <2>3. GoesTo(p, r, pc, 0, f.vec)
    <3>1. Changed(f, [f EXCEPT !.i = 0, !.pc = pc], pc, 0, f.vec)
      BY <2>1, ChangedForms
    <3> QED
      BY <2>2, <3>1, GotoGoes, Zenon DEF f
  <2> QED
    BY <1>3, <2>1, <2>2, <2>3 DEF GoesTo, Changed, f, n
<1>16. CASE ForwardLock(p, r)
  <2>1. f.pc = "fwdlock" /\ f \in Frame
    BY <1>2, <1>16 DEF ForwardLock, At, f
  <2>2. Goto(p, r, [f EXCEPT !.pc = "fwd", !.i = 1, !.vec = Group(r, n)])
    BY <1>16 DEF ForwardLock, f, n
  <2>3. GoesTo(p, r, "fwd", 1, Group(r, n))
    BY <2>1, <2>2, ChangedForms, GotoGoes, Zenon DEF f
  <2> QED
    BY <1>3, <2>1, <2>3 DEF GoesTo, Changed, f, n
<1>17. CASE ForwardEnd(p, r)
  <2>1. f.pc = "fwd" /\ f \in Frame /\ f.op = "apply"
    BY <1>2, <1>17 DEF ForwardEnd, At, f
  <2>2. Goto(p, r, [f EXCEPT !.i = 0, !.vec = <<>>, !.pc = "local"])
    BY <1>17, <2>1 DEF ForwardEnd, f
  <2>3. GoesTo(p, r, "local", 0, <<>>)
    BY <2>1, <2>2, ChangedForms, GotoGoes, Zenon DEF f
  <2> QED
    BY <1>3, <2>1, <2>3 DEF GoesTo, Changed, f, n
<1>18. CASE ApplyLocal(p, r)
  <2>1. f.pc = "local" /\ f \in Frame
    BY <1>2, <1>18 DEF ApplyLocal, At, f
  <2>2. PICK res : Goto(p, r, [f EXCEPT !.pc = "unlock", !.res = res])
    BY <1>18 DEF ApplyLocal, f
  <2>3. GoesTo(p, r, "unlock", f.i, f.vec)
    BY <2>1, <2>2, ChangedForms, GotoGoes, Zenon DEF f
  <2> QED
    BY <1>3, <2>1, <2>3 DEF GoesTo, Changed, f, n
<1>19. CASE Unlock(p, r)
  <2>1. f.pc = "unlock" /\ f \in Frame
    BY <1>2, <1>19 DEF Unlock, At, f
  <2>2. Goto(p, r, [f EXCEPT !.pc = "reply"])
    BY <1>19 DEF Unlock, f
  <2>3. GoesTo(p, r, "reply", f.i, f.vec)
    BY <2>1, <2>2, ChangedForms, GotoGoes, Zenon DEF f
  <2> QED
    BY <1>3, <2>1, <2>3 DEF GoesTo, Changed, f, n
<1>20. CASE Erase(p, r) \/ EraseGroup(p, r)
  BY <1>2, <1>20 DEF Erase, EraseGroup, At, f
<1> QED
  BY <1>4, <1>5, <1>6, <1>7, <1>8, <1>9, <1>10, <1>11, <1>12, <1>13, <1>14, <1>15,
     <1>16, <1>17, <1>18, <1>19, <1>20 DEF ServerStep

LEMMA SendTarget ==
    ASSUME TypeOK, NEW p \in Proc, NEW r \in RM, NEW q \in RM, NEW k \in RM, q # r,
           NEW h, NEW req, Send(p, r, k, h, req), thread[r][q] = Idle, thread'[r][q] # Idle
    PROVE  q = k /\ thread'[r][q] = req
<1>0. r \in Proc
  BY DEF Proc
<1>1. CASE CanCall(r, k)
  <2>1. thread' = [thread EXCEPT ![p][r] = [h EXCEPT !.wait = k], ![r][k] = req]
    BY <1>1 DEF Send
  <2>2. thread'[r][q] = IF q = k THEN req ELSE thread[r][q]
    BY <1>0, <2>1 DEF TypeOK
  <2> QED
    BY <2>2
<1>2. CASE ~CanCall(r, k)
  <2>1. thread' = [thread EXCEPT ![p][r] = [h EXCEPT !.i = @ + 1]]
    BY <1>2 DEF Send, Goto
  <2>2. thread'[r][q] = thread[r][q]
    BY <1>0, <2>1 DEF TypeOK
  <2> QED
    BY <2>2
<1> QED
  BY <1>1, <1>2

(* The request that one manager sends to another.                          *)
LEMMA FrameOfCall ==
    ASSUME ReplicasAssumption, ManagerAssumption, TypeOK, ListInv,
           NEW p \in Proc, NEW r \in RM, ServerStep(p, r), NEW q \in RM, Calls(p, r, q)
    PROVE  FrameOK(q, thread'[r][q], machines'[q], groupMap'[q])
<1> DEFINE f == thread[p][r]
           n == f.name
<1>1. /\ f \in Frame /\ f # Idle /\ n \in Name
      /\ FrameOK(r, f, machines[r], groupMap[r])
  <2>1. f \in Frame
    BY StepKind
  <2> QED
    BY <2>1 DEF Frame, Idle, ListInv, FramesOK
<1>2. /\ f.pc \in {"send", "fwd"} /\ q # r
      /\ thread[r][q] = Idle /\ thread'[r][q] # Idle
  BY DEF Calls
<1> HIDE DEF f, n
<1>3. CASE SendCreate(p, r)
  <2> DEFINE g == Group(r, n)
             j == NextOther(r, g, f.i)
             req == Request("create", n, machines[r][n], g, FALSE)
  <2>1. f.pc = "send" /\ g \in Seq(Id)
    BY <1>1, <1>3, GroupType DEF SendCreate, At, f
  <2>2. j \in 1 .. Len(g) /\ g[j] \in Id /\ g[j] # NoRM
    BY <1>3, <2>1, OthersType DEF SendCreate, f, n
  <2>3. g[j] \in RM /\ g[j] \in ToSet(g)
    BY <2>1, <2>2, OnList DEF Id
  <2>4. Send(p, r, g[j], [f EXCEPT !.i = j], req)
    BY <1>3, Zenon DEF SendCreate, f, n
  <2>5. machines[r][n] \in Value
    BY <1>1, <2>1 DEF FrameOK, Hosted, TypeOK, n
  <2>6. req.op = "create" /\ req.pc = "dup" /\ req.val = machines[r][n] /\ req.vec = g
    BY DEF Request
  <2> HIDE DEF g, j, req
  <2>7. q = g[j] /\ thread'[r][q] = req
    BY <1>2, <2>3, <2>4, SendTarget
  <2> QED
    BY <2>3, <2>5, <2>6, <2>7 DEF FrameOK, Hosted, Listed
<1>4. CASE Forward(p, r)
  <2> DEFINE j == NextOther(r, f.vec, f.i)
             req == Request(f.op, n, f.val, <<>>, FALSE)
  <2>1. f.pc = "fwd" /\ f.vec \in Seq(Id) /\ f.op = "apply" /\ OneName
    BY <1>1, <1>4 DEF Forward, At, Frame, FrameOK, f
  <2>2. f.vec[j] \in Id /\ f.vec[j] # NoRM
    BY <1>4, <2>1, OthersType DEF Forward, f
  <2>3. f.vec[j] \in RM
    BY <2>2 DEF Id
  <2>4. Send(p, r, f.vec[j], [f EXCEPT !.i = j], req)
    BY <1>4, Zenon DEF Forward, f, n
  <2>5. req.op = "apply" /\ req.pc = "check"
    BY <2>1 DEF Request
  <2> HIDE DEF j, req
  <2>6. thread'[r][q] = req
    BY <1>2, <2>3, <2>4, SendTarget
  <2> QED
    BY <2>1, <2>5, <2>6 DEF FrameOK, Hosted, Listed
<1>5. CASE SendEnd(p, r) \/ ForwardEnd(p, r)
  <2>1. PICK h : Goto(p, r, h)
    BY <1>5, Zenon DEF SendEnd, ForwardEnd
  <2>2. thread'[r][q] = thread[r][q]
    BY <1>2, <2>1 DEF Goto, TypeOK, Proc
  <2> QED
    BY <1>2, <2>2
<1> QED
  BY <1>2, <1>3, <1>4, <1>5 DEF ServerStep, At, CreateExists, CreateDup, CheckExists, Read, Lock,
     Insert, InsertGroup, Prune, PruneEnd, Select, ForwardLock, ApplyLocal, Unlock, Erase, EraseGroup, f

LEMMA FramesOfStep ==
    ASSUME ReplicasAssumption, ManagerAssumption, TypeOK, ListInv,
           NEW p \in Proc, NEW r \in RM, ServerStep(p, r)
    PROVE  FramesOK'
<1>1. \A u \in RM, n \in Name : /\ machines[u][n] # Nil => machines'[u][n] # Nil
                                /\ groupMap[u][n] # Nil => groupMap'[u][n] # Nil
  BY DataOfStep DEF DataStep
<1>2. FrameOK(r, thread'[p][r], machines'[r], groupMap'[r])
  BY FrameOfStep DEF KeepsFrame
<1>3. ASSUME NEW t \in Proc, NEW u \in RM, thread'[t][u] = thread[t][u], thread[t][u] # Idle
      PROVE  FrameOK(u, thread'[t][u], machines'[u], groupMap'[u])
  <2>1. FrameOK(u, thread[t][u], machines[u], groupMap[u])
    BY <1>3 DEF ListInv, FramesOK
  <2>2. thread[t][u].name \in Name
    BY <1>3 DEF TypeOK, Frame
  <2> QED
    BY <1>1, <1>3, <2>1, <2>2, FrameStays
<1>4. CASE Moves(p, r)
  BY <1>2, <1>3, <1>4 DEF Moves, Untouched, FramesOK
<1>5. ASSUME NEW q \in RM, Calls(p, r, q)
      PROVE  FramesOK'
  <2>1. FrameOK(q, thread'[r][q], machines'[q], groupMap'[q])
    BY <1>5, FrameOfCall
  <2>2. \A t \in Proc, u \in RM :
          <<t, u>> \notin {<<p, r>>, <<r, q>>} => thread'[t][u] = thread[t][u]
    BY <1>5 DEF Calls
  <2> QED
    BY <1>2, <1>3, <2>1, <2>2 DEF FramesOK
<1> QED
  BY <1>4, <1>5, StepKind

-----------------------------------------------------------------------------
(* The mutex and the machines that are being created                       *)

(* A thread that unlocks at the end of apply() does so with its list there. *)
LEMMA UnlocksSettled ==
    ASSUME TypeOK, FramesOK, NEW p \in Proc, NEW r \in RM, thread[p][r].pc = "unlock"
    PROVE  Settled(r)
<1>1. thread[p][r] \in Frame /\ thread[p][r] # Idle
  BY ActiveFrame DEF Idle
<1> QED
  BY <1>1 DEF FramesOK, FrameOK, Listed, Settled, Frame

LEMMA OwnedOfStep ==
    ASSUME ReplicasAssumption, ManagerAssumption, TypeOK, ListInv,
           NEW p \in Proc, NEW r \in RM, ServerStep(p, r)
    PROVE  Owned'
<1>1. /\ \A u \in RM : Settled(u) \/ \A t \in Proc : InCritical(t, u) => mutex[u] = t
      /\ Nil \notin Proc
  BY DEF ListInv, Owned, ManagerAssumption
<1>2. \A u \in RM : Settled(u) => Settled(u)'
  <2>1. \A u \in RM, n \in Name : groupMap[u][n] # Nil => groupMap'[u][n] # Nil
    BY DataOfStep DEF DataStep
  <2> QED
    BY <2>1 DEF Settled
<1>3. OthersStay(p, r)
  BY LockStep
<1>4. ASSUME NEW u \in RM, ~Settled(u), NEW t \in Proc, thread'[t][u].pc \in Critical
      PROVE  mutex'[u] = t
  <2>1. CASE Keeps(p, r)
    BY <1>1, <1>3, <1>4, <2>1 DEF Keeps, InCritical, OthersStay
  <2>2. CASE Acquires(p, r)
    <3>1. mutex'[r] = p /\ \A v \in RM : v # r => mutex'[v] = mutex[v]
      BY <2>2 DEF Acquires, TypeOK
    <3> QED
      BY <1>1, <1>3, <1>4, <2>2, <3>1 DEF Acquires, InCritical, OthersStay
  <2>3. CASE Releases(p, r)
    <3>1. ~Settled(r) => mutex[r] = p
      BY <1>1, <2>3, UnlocksSettled DEF Releases, ListInv
    <3>2. \A v \in RM : v # r => mutex'[v] = mutex[v]
      BY <2>3 DEF Releases, TypeOK
    <3> QED
      BY <1>1, <1>3, <1>4, <2>3, <3>1, <3>2 DEF Releases, InCritical, OthersStay
  <2> QED
    BY <2>1, <2>2, <2>3, LockStep
<1> QED
  BY <1>2, <1>4 DEF Owned, InCritical

LEMMA InsertsAtInsert ==
    ASSUME NEW p \in Proc, NEW r \in RM, ServerStep(p, r), thread[p][r].pc = "insert"
    PROVE  Insert(p, r)
BY DEF ServerStep, At, CreateExists, CreateDup, CheckExists, Read, Lock, InsertGroup, Prune,
       PruneEnd, Select, SendCreate, SendEnd, ForwardLock, Forward, ForwardEnd, ApplyLocal,
       Unlock, Erase, EraseGroup

LEMMA CreatedOfStep ==
    ASSUME ReplicasAssumption, ManagerAssumption, TypeOK, ListInv,
           NEW p \in Proc, NEW r \in RM, ServerStep(p, r)
    PROVE  BeingCreated'
<1> DEFINE f == thread[p][r]
<1>0. Nil \notin Proc /\ f \in Frame /\ f # Idle
  BY StepKind DEF ManagerAssumption, Frame, Idle
<1>1. DataStep(p, r)
  BY DataOfStep
<1>2. \A t \in Proc, u \in RM :
        thread[t][u].pc = "group" /\ <<t, u>> # <<p, r>> => thread'[t][u] = thread[t][u]
  <2>1. CASE Moves(p, r)
    BY <2>1 DEF Moves, Untouched
  <2>2. ASSUME NEW q \in RM, Calls(p, r, q)
        PROVE  \A t \in Proc, u \in RM :
                 thread[t][u].pc = "group" /\ <<t, u>> # <<p, r>> => thread'[t][u] = thread[t][u]
    BY <2>2 DEF Calls, Idle
  <2> QED
    BY <2>1, <2>2, StepKind
<1>3. \A u \in RM : u # r => mutex'[u] = mutex[u]
  BY LockStep DEF Keeps, Acquires, Releases, TypeOK
<1> HIDE DEF f
<1>4. ASSUME NEW u \in RM, u # r, NEW n \in Name, machines'[u][n] # Nil, groupMap'[u][n] = Nil
      PROVE  \E t \in Proc : Creates(t, u, n)'
  <2>1. machines[u][n] # Nil /\ groupMap[u][n] = Nil
    BY <1>1, <1>4 DEF DataStep
  <2>2. PICK t \in Proc : Creates(t, u, n)
    BY <2>1 DEF ListInv, BeingCreated
  <2> QED
    BY <1>2, <1>3, <1>4, <2>2 DEF Creates
<1>5. ASSUME NEW n \in Name, machines'[r][n] # Nil, groupMap'[r][n] = Nil
      PROVE  \E t \in Proc : Creates(t, r, n)'
  <2>1. groupMap[r][n] = Nil
    BY <1>1, <1>5 DEF DataStep
  <2>2. ~Settled(r)
    BY <2>1 DEF Settled, OneName
  <2>3. \A t \in Proc : InCritical(t, r) => mutex[r] = t
    BY <2>2 DEF ListInv, Owned
  <2>4. CASE machines[r][n] = Nil
    <3>1. f.pc = "insert" /\ f.name = n
      BY <1>1, <1>5, <2>4 DEF DataStep, f
    <3>2. Insert(p, r)
      BY <3>1, InsertsAtInsert DEF f
    <3>3. Goto(p, r, [f EXCEPT !.pc = "group"]) /\ mutex' = mutex
      BY <3>2 DEF Insert, f
    <3>4. thread'[p][r].pc = "group" /\ thread'[p][r].name = n
      <4>1. GoesTo(p, r, "group", f.i, f.vec)
        BY <1>0, <3>3, ChangedForms, GotoGoes, Zenon DEF f
      <4> QED
        BY <3>1, <4>1 DEF GoesTo, Changed, f
    <3>5. mutex[r] = p
      BY <2>3, <3>1 DEF InCritical, Critical, f
    <3> QED
      BY <3>3, <3>4, <3>5 DEF Creates
  <2>5. CASE machines[r][n] # Nil
    <3>1. PICK t \in Proc : Creates(t, r, n)
      BY <2>1, <2>5 DEF ListInv, BeingCreated
    <3>2. t # p
      BY <1>1, <1>5, <3>1 DEF DataStep, Creates
    <3>3. thread'[t][r] = thread[t][r]
      BY <1>2, <3>1, <3>2 DEF Creates
    <3>4. mutex[r] = t
      BY <3>1 DEF Creates
    <3>5. mutex'[r] = mutex[r]
      <4>1. ~Acquires(p, r)
        BY <1>0, <3>4 DEF Acquires
      <4>2. ~Releases(p, r)
        BY <2>2, <2>3, <3>2, <3>4, UnlocksSettled DEF Releases, ListInv
      <4> QED
        BY <4>1, <4>2, LockStep DEF Keeps
    <3> QED
      BY <3>1, <3>3, <3>5 DEF Creates
  <2> QED
    BY <2>4, <2>5
<1> QED
  BY <1>4, <1>5 DEF BeingCreated

LEMMA ProcessesOfStep ==
    ASSUME ReplicasAssumption, TypeOK, ListInv, NEW p \in Proc, NEW r \in RM, ServerStep(p, r)
    PROVE  SelfReached' /\ UpServes'
<1>1. thread[p][r] # Idle /\ r \in Proc
  BY StepKind DEF Frame, Idle, Proc
<1>2. CanCall(r, r) /\ p # r /\ Up(r)
  BY <1>1, ReachesSelf DEF ListInv, UpServes
<1>3. ConnOK' /\ UNCHANGED status
  <2>1. CASE UNCHANGED <<conn, status>>
    BY <2>1 DEF ListInv, SelfReached, UpServes, ConnOK, Up
  <2> QED
    BY <1>1, <1>2, <2>1, OpenedOK, StepConn DEF ListInv
<1>4. \A q \in RM : thread'[q][q] = Idle
  BY <1>2, StepKind DEF Moves, Calls, Untouched, ListInv, SelfReached, Proc
<1>5. \A t \in Proc, u \in RM : thread'[t][u] # Idle => Up(u)
  <2>1. CASE Moves(p, r)
    BY <1>2, <2>1 DEF Moves, Untouched, ListInv, UpServes
  <2>2. ASSUME NEW q \in RM, Calls(p, r, q)
        PROVE  \A t \in Proc, u \in RM : thread'[t][u] # Idle => Up(u)
    <3>1. Up(q)
      BY <1>1, <2>2 DEF Calls, CanCall, ListInv, UpServes
    <3> QED
      BY <1>2, <2>2, <3>1 DEF Calls, ListInv, UpServes
  <2> QED
    BY <2>1, <2>2, StepKind
<1> QED
  BY <1>3, <1>4, <1>5 DEF SelfReached, UpServes, ConnOK, Up, Proc

LEMMA ListOfStep ==
    ASSUME ReplicasAssumption, ManagerAssumption, TypeOK, ListInv,
           NEW p \in Proc, NEW r \in RM, ServerStep(p, r)
    PROVE  ListInv'
<1>1. OnOwnLists'
  BY DataOfStep DEF DataStep, ListInv, OnOwnLists
<1> QED
  BY <1>1, FramesOfStep, OwnedOfStep, CreatedOfStep, ProcessesOfStep DEF ListInv

-----------------------------------------------------------------------------
(* How a request ends, and how a process ends                              *)

LEMMA ResumeFrame ==
    ASSUME NEW r, NEW f \in Frame, NEW m, NEW g, FrameOK(r, f, m, g), f.pc \in {"send", "fwd"}
    PROVE  FrameOK(r, Resume(f), m, g) /\ Resume(f).pc = f.pc
<1>1. Changed(f, Resume(f), f.pc, f.i + 1, f.vec)
  BY DEF Resume, Frame, Changed
<1> QED
  BY <1>1 DEF Changed, FrameOK, Hosted, Listed

(* thread [t][q] is where it was, or its call has returned.                *)
Returned(t, q) ==
    \/ thread'[t][q] = thread[t][q]
    \/ /\ thread[t][q] \in Frame /\ thread[t][q].pc \in {"send", "fwd"}
       /\ thread'[t][q] = Resume(thread[t][q])

LEMMA ReturnedFrame ==
    ASSUME FramesOK, NEW t \in Proc, NEW q \in RM, Returned(t, q)
    PROVE  /\ thread'[t][q] # Idle => thread[t][q] # Idle
           /\ thread'[t][q] # Idle => FrameOK(q, thread'[t][q], machines[q], groupMap[q])
           /\ thread'[t][q].pc = thread[t][q].pc
           /\ thread[t][q].pc = "group" => thread'[t][q] = thread[t][q]
<1>1. CASE thread'[t][q] = thread[t][q]
  BY <1>1 DEF FramesOK
<1>2. CASE /\ thread[t][q] \in Frame /\ thread[t][q].pc \in {"send", "fwd"}
           /\ thread'[t][q] = Resume(thread[t][q])
  <2>1. thread[t][q] # Idle
    BY <1>2 DEF Idle
  <2>2. FrameOK(q, thread[t][q], machines[q], groupMap[q])
    BY <2>1 DEF FramesOK
  <2> QED
    BY <1>2, <2>1, <2>2, ResumeFrame
<1> QED
  BY <1>1, <1>2 DEF Returned

LEMMA ReturnedAfterReply ==
    ASSUME ReplicasAssumption, TypeOK, WaitsAtCall, NEW p \in Proc, NEW r \in RM,
           thread' = ThreadsAfterReply(p, r)
    PROVE  /\ thread'[p][r] = Idle
           /\ \A t \in Proc, q \in RM : <<t, q>> # <<p, r>> => Returned(t, q)
<1>1. \A t \in Proc, q \in RM :
        thread'[t][q] = IF t = p /\ q = r THEN Idle
                        ELSE IF q = p /\ thread[t][q].wait = r THEN Resume(thread[t][q])
                        ELSE thread[t][q]
  BY DEF ThreadsAfterReply
<1>2. ASSUME NEW t \in Proc, NEW q \in RM, thread[t][q].wait = r
      PROVE  thread[t][q] \in Frame /\ thread[t][q].pc \in {"send", "fwd"}
  <2>1. r # NoRM
    BY NoRMOut DEF NoRMIsNoManager
  <2> QED
    BY <1>2, <2>1, WaitingIsActive DEF WaitsAtCall
<1> QED
  BY <1>1, <1>2 DEF Returned

LEMMA ReturnedAfterDeath ==
    ASSUME ReplicasAssumption, TypeOK, WaitsAtCall, NEW r \in RM, NEW how, Die(r, how)
    PROVE  \A t \in Proc, q \in RM :
              IF q = r THEN thread'[t][q] = Idle ELSE Returned(t, q)
<1>1. \A t \in Proc, q \in RM :
        thread'[t][q] = IF q = r THEN Idle
                        ELSE IF thread[t][q].wait = r THEN Resume(thread[t][q])
                        ELSE thread[t][q]
  BY DEF Die
<1>2. ASSUME NEW t \in Proc, NEW q \in RM, thread[t][q].wait = r
      PROVE  thread[t][q] \in Frame /\ thread[t][q].pc \in {"send", "fwd"}
  <2>1. r # NoRM
    BY NoRMOut DEF NoRMIsNoManager
  <2> QED
    BY <1>2, <2>1, WaitingIsActive DEF WaitsAtCall
<1> QED
  BY <1>1, <1>2 DEF Returned

LEMMA ListAfterReply ==
    ASSUME ReplicasAssumption, ManagerAssumption, TypeOK, WaitsAtCall, ListInv,
           NEW p \in Proc, NEW r \in RM, thread' = ThreadsAfterReply(p, r),
           thread[p][r].pc # "group", ConnOK', UNCHANGED <<status, machines, groupMap>>,
           mutex' = mutex \/ mutex' = [mutex EXCEPT ![r] = IF @ = p THEN Gone ELSE @]
    PROVE  ListInv'
<1>1. /\ thread'[p][r] = Idle /\ Idle.pc = "idle"
      /\ \A t \in Proc, q \in RM : <<t, q>> # <<p, r>> => Returned(t, q)
  BY ReturnedAfterReply DEF Idle
<1>2. \A t \in Proc, q \in RM : <<t, q>> # <<p, r>> =>
           /\ thread'[t][q] # Idle => thread[t][q] # Idle
           /\ thread'[t][q] # Idle => FrameOK(q, thread'[t][q], machines[q], groupMap[q])
           /\ thread'[t][q].pc = thread[t][q].pc
           /\ thread[t][q].pc = "group" => thread'[t][q] = thread[t][q]
  BY <1>1, ReturnedFrame DEF ListInv
<1>3. \A t \in Proc, q \in RM : <<t, q>> # <<p, r>> /\ mutex[q] = t => mutex'[q] = t
  BY DEF TypeOK
<1>4. SelfReached' /\ UpServes'
  BY <1>1, <1>2 DEF ListInv, SelfReached, UpServes, ConnOK, Up, Proc
<1>5. FramesOK'
  BY <1>1, <1>2 DEF FramesOK
<1>6. OnOwnLists'
  BY DEF ListInv, OnOwnLists
<1>7. Owned'
  BY <1>1, <1>2, <1>3 DEF ListInv, Owned, Settled, InCritical, Critical
<1>8. BeingCreated'
  <2>1. ASSUME NEW u \in RM, NEW n \in Name, NEW t \in Proc, Creates(t, u, n)
        PROVE  Creates(t, u, n)'
    BY <1>2, <1>3, <2>1 DEF Creates
  <2> QED
    BY <2>1 DEF ListInv, BeingCreated
<1> QED
  BY <1>4, <1>5, <1>6, <1>7, <1>8 DEF ListInv

LEMMA ListAfterDeath ==
    ASSUME ReplicasAssumption, ManagerAssumption, TypeOK, WaitsAtCall, ListInv,
           NEW r \in RM, NEW how, how # "up", Die(r, how)
    PROVE  ListInv'
<1>1. Idle.pc = "idle" /\ \A t \in Proc, q \in RM :
              IF q = r THEN thread'[t][q] = Idle ELSE Returned(t, q)
  BY ReturnedAfterDeath DEF Idle
<1>2. \A t \in Proc, q \in RM : q # r =>
           /\ thread'[t][q] # Idle => thread[t][q] # Idle
           /\ thread'[t][q] # Idle => FrameOK(q, thread'[t][q], machines[q], groupMap[q])
           /\ thread'[t][q].pc = thread[t][q].pc
           /\ thread[t][q].pc = "group" => thread'[t][q] = thread[t][q]
  BY <1>1, ReturnedFrame DEF ListInv
<1>3. \A q \in RM : q # r =>
        /\ machines'[q] = machines[q] /\ groupMap'[q] = groupMap[q] /\ mutex'[q] = mutex[q]
        /\ Up(q)' <=> Up(q)
  BY DEF Die, TypeOK, Up
<1>4. \A n \in Name : machines'[r][n] = Nil /\ groupMap'[r][n] = Nil
  BY DEF Die, TypeOK
<1>5. \A t \in Proc, q \in RM :
        conn'[t][q] = IF t = r THEN "none"
                      ELSE IF q = r /\ conn[t][q] = "open" THEN "broken" ELSE conn[t][q]
  BY DEF Die, ConnWithout
<1>6. SelfReached'
  BY <1>1, <1>2, <1>5 DEF ListInv, SelfReached, Proc
<1>7. UpServes'
  BY <1>1, <1>2, <1>3, <1>5 DEF ListInv, UpServes
<1>8. FramesOK'
  BY <1>1, <1>2, <1>3 DEF FramesOK
<1>9. OnOwnLists'
  BY <1>3, <1>4 DEF ListInv, OnOwnLists
<1>10. Owned'
  BY <1>1, <1>2, <1>3 DEF ListInv, Owned, Settled, InCritical, Critical
<1>11. BeingCreated'
  <2>1. ASSUME NEW u \in RM, u # r, NEW n \in Name, NEW t \in Proc, Creates(t, u, n)
        PROVE  Creates(t, u, n)'
    BY <1>2, <1>3, <2>1 DEF Creates
  <2>2. ASSUME NEW u \in RM, NEW n \in Name, machines'[u][n] # Nil, groupMap'[u][n] = Nil
        PROVE  \E t \in Proc : Creates(t, u, n)'
    <3>1. u # r /\ machines[u][n] # Nil /\ groupMap[u][n] = Nil
      BY <1>3, <1>4, <2>2
    <3> QED
      BY <2>1, <3>1 DEF ListInv, BeingCreated
  <2> QED
    BY <2>2 DEF BeingCreated
<1> QED
  BY <1>6, <1>7, <1>8, <1>9, <1>10, <1>11 DEF ListInv

(* A client's request.                                                     *)
LEMMA ListAfterArrival ==
    ASSUME ReplicasAssumption, ManagerAssumption, TypeOK, ListInv,
           NEW C, "remove" \notin C, "apply" \in C => OneName,
           NEW c \in Client, NEW r \in RM, Arrival(c, r, C)
    PROVE  ListInv'
<1>1. c \in Proc /\ c \notin RM
  BY DEF Proc, ReplicasAssumption, Id
<1>2. PICK op \in C, n \in Name, v \in Value \cup {Nil} :
          /\ op \in {"create", "apply"} <=> v \in Value
          /\ Goto(c, r, Request(op, n, v, IF op = "create" THEN <<r>> ELSE <<>>, TRUE))
  BY DEF Arrival
<1> DEFINE h == Request(op, n, v, IF op = "create" THEN <<r>> ELSE <<>>, TRUE)
<1>3. /\ h.op = op /\ h.val = v /\ (op = "create" => h.vec = <<r>> /\ h.pc = "exists")
      /\ op # "create" => h.pc = "check"
  BY DEF Request
<1>4. ToSet(<<r>>) = {r}
  BY DEF ToSet
<1>5. \A m, g : FrameOK(r, h, m, g)
  BY <1>2, <1>3, <1>4 DEF FrameOK, Hosted, Listed
<1>6. h.pc \notin Critical /\ h.pc # "group"
  BY <1>3 DEF Critical
<1>7. Goto(c, r, h)
  BY <1>2
<1> HIDE DEF h
<1>8. \A t \in Proc, u \in RM : thread'[t][u] = IF t = c /\ u = r THEN h ELSE thread[t][u]
  BY <1>1, <1>7 DEF Goto, TypeOK
<1>9. CanCall(c, r) /\ thread[c][r] = Idle /\ UNCHANGED <<status, machines, groupMap, mutex>>
  BY DEF Arrival
<1>10. ConnOK' /\ Up(r)
  BY <1>1, <1>9, OpenedOK DEF Arrival, Connect, CanCall, ListInv, UpServes
<1>11. SelfReached' /\ UpServes'
  BY <1>1, <1>8, <1>9, <1>10 DEF ListInv, SelfReached, UpServes, ConnOK, Up, Proc
<1>12. FramesOK'
  BY <1>5, <1>8, <1>9 DEF ListInv, FramesOK
<1>13. OnOwnLists'
  BY <1>9 DEF ListInv, OnOwnLists
<1>14. Owned'
  BY <1>6, <1>8, <1>9 DEF ListInv, Owned, Settled, InCritical
<1>15. BeingCreated'
  <2>1. ASSUME NEW u \in RM, NEW m \in Name, NEW t \in Proc, Creates(t, u, m)
        PROVE  Creates(t, u, m)'
    BY <1>8, <1>9, <2>1 DEF Creates, Idle
  <2> QED
    BY <1>9, <2>1 DEF ListInv, BeingCreated
<1> QED
  BY <1>11, <1>12, <1>13, <1>14, <1>15 DEF ListInv

-----------------------------------------------------------------------------
(* Results                                                                 *)

(***************************************************************************)
(* No thread dereferences a machine that is gone, and replaceRM() finds    *)
(* its manager on the list, so the list is not empty and its loops stay    *)
(* within it.                                                              *)
(***************************************************************************)
LEMMA NeverAborts ==
    ASSUME ReplicasAssumption, TypeOK, ListInv, NEW p \in Proc, NEW r \in RM
    PROVE  ~Overrun(p, r) /\ ~Abort(p, r)
<1> DEFINE f == thread[p][r]
           n == f.name
           g == Group(r, n)
<1>1. f.pc \in Hosted => f \in Frame /\ f # Idle
  BY ActiveFrame DEF Hosted, Idle
<1>2. f.pc \in Hosted => machines[r][n] # Nil /\ (f.pc = "prune" => f.i \in {1, 2})
  BY <1>1 DEF ListInv, FramesOK, FrameOK
<1>3. f.pc \in Listed => g \in Seq(Id) /\ g # <<>>
  BY <1>1, ListOfFrame DEF ListInv, Listed, Hosted
<1>4. f.pc \in Listed => Len(g) \in Nat \ {0}
  BY <1>3, EmptySeq
<1> HIDE DEF g
<1>5. ~Overrun(p, r)
  BY <1>2, <1>4 DEF Overrun, At, Hosted, Listed, g
<1> QED
  BY <1>2, <1>3, <1>5 DEF Abort, At, Hosted, Listed, g

LEMMA ListStep ==
    ASSUME ReplicasAssumption, ManagerAssumption, TypeOK, WaitsAtCall, ListInv,
           NEW C, "remove" \notin C, "apply" \in C => OneName, OpenNext(C)
    PROVE  ListInv' /\ (NoAbort => NoAbort')
<1>1. ASSUME NEW p \in Proc, NEW r \in RM, ServerStep(p, r)
      PROVE  ListInv' /\ (NoAbort => NoAbort')
  BY <1>1, ListOfStep, StepConn DEF NoAbort
<1>2. ASSUME NEW p \in Proc, NEW r \in RM, Reply(p, r)
      PROVE  ListInv' /\ (NoAbort => NoAbort')
  <2>1. /\ thread' = ThreadsAfterReply(p, r) /\ thread[p][r].pc # "group"
        /\ UNCHANGED <<status, conn, machines, groupMap, mutex>>
    BY <1>2 DEF Reply
  <2>2. ConnOK'
    BY <2>1 DEF ListInv, SelfReached, UpServes, ConnOK, Up
  <2> QED
    BY <2>1, <2>2, ListAfterReply DEF NoAbort
<1>3. ASSUME NEW p \in Proc, NEW r \in RM, Escape(p, r)
      PROVE  ListInv' /\ (NoAbort => NoAbort')
  <2>1. thread[p][r].pc \in {"prune", "send", "fwd"}
    BY <1>3 DEF Escape, BadIndex, Overrun, At
  <2>2. thread[p][r] # Idle /\ thread[p][r].pc # "group"
    BY <2>1 DEF Idle
  <2>3. CanCall(r, r) /\ p # r /\ r \in Proc
    BY <2>2, ReachesSelf DEF ListInv, Proc
  <2>4. ConnOK'
    <3> DEFINE K == Opened(r, Pinged(p, r))
    <3>1. conn' = [K EXCEPT ![p][r] = IF K[p][r] = "open" THEN "broken" ELSE K[p][r]]
      BY <1>3 DEF Escape
    <3>2. K \in Conns
      BY <2>3, OpenedType
    <3>3. \A t \in Proc, q \in RM :
            (K[t][q] = "open" => Up(q)) /\ (t = q => K[t][q] # "broken")
      <4>1. \A t \in Proc, q \in RM :
              K[t][q] = IF t = r /\ q \in Pinged(p, r)
                        THEN IF CanCall(r, q) THEN "open" ELSE "broken"
                        ELSE conn[t][q]
        BY <2>3 DEF Opened, TypeOK
      <4>2. \A t \in Proc, q \in RM : CanCall(t, q) => Up(q)
        BY DEF CanCall, ListInv, UpServes
      <4> QED
        BY <2>3, <4>1, <4>2 DEF ListInv, SelfReached, UpServes
    <3>4. UNCHANGED status
      BY <1>3 DEF Escape
    <3> HIDE DEF K
    <3>5. \A t \in Proc, q \in RM :
            \/ conn'[t][q] = K[t][q]
            \/ conn'[t][q] = "broken" /\ t = p /\ q = r
      BY <3>1, <3>2 DEF Conns
    <3> QED
      BY <2>3, <3>3, <3>4, <3>5 DEF ConnOK, Up
  <2> QED
    BY <1>3, <2>2, <2>4, ListAfterReply DEF Escape, NoAbort
<1>4. ASSUME NEW r \in RM, Exit(r)
      PROVE  ListInv' /\ (NoAbort => NoAbort')
  <2>1. Die(r, "exited")
    BY <1>4 DEF Exit
  <2>2. NoAbort => NoAbort'
    BY <2>1 DEF Die, NoAbort, TypeOK
  <2> QED
    BY <2>1, <2>2, ListAfterDeath
<1>5. ASSUME NEW r \in RM, Start(r)
      PROVE  ListInv' /\ (NoAbort => NoAbort')
  <2>1. UNCHANGED <<conn, machines, groupMap, mutex, thread>>
    BY <1>5 DEF Start
  <2>2. \A q \in RM : (Up(q) => Up(q)') /\ (status'[q] = "aborted" => status[q] = "aborted")
    BY <1>5 DEF Start, Up, TypeOK
  <2>3. SelfReached' /\ UpServes'
    BY <2>1, <2>2 DEF ListInv, SelfReached, UpServes
  <2>4. FramesOK' /\ OnOwnLists' /\ Owned' /\ BeingCreated'
    BY <2>1 DEF ListInv, FramesOK, OnOwnLists, Owned, Settled, InCritical, BeingCreated, Creates
  <2> QED
    BY <2>2, <2>3, <2>4 DEF ListInv, NoAbort
<1>6. ASSUME NEW c \in Client, NEW r \in RM, Arrival(c, r, C)
      PROVE  ListInv' /\ (NoAbort => NoAbort')
  BY <1>6, ListAfterArrival DEF Arrival, NoAbort
<1>7. ASSUME NEW c \in Client, Reconnects(c)
      PROVE  ListInv' /\ (NoAbort => NoAbort')
  <2>1. c \in Proc /\ c \notin RM /\ UNCHANGED <<status, machines, groupMap, mutex, thread>>
    BY <1>7 DEF Reconnects, managerVars, Proc, ReplicasAssumption, Id
  <2>2. ConnOK'
    <3>1. CASE conn' = [conn EXCEPT ![c] = [q \in RM |-> "none"]]
      <4>1. \A t \in Proc, q \in RM : conn'[t][q] \in {"none", conn[t][q]}
        BY <2>1, <3>1 DEF TypeOK
      <4> QED
        BY <2>1, <4>1 DEF ListInv, SelfReached, UpServes, ConnOK, Up
    <3>2. ASSUME NEW S, Connect(c, S)
          PROVE  ConnOK'
      BY <2>1, <3>2, OpenedOK DEF Connect, ListInv
    <3> QED
      BY <1>7, <3>1, <3>2 DEF Reconnects
  <2>3. SelfReached' /\ UpServes'
    BY <2>1, <2>2 DEF ListInv, SelfReached, UpServes, ConnOK, Up, Proc
  <2>4. FramesOK' /\ OnOwnLists' /\ Owned' /\ BeingCreated'
    BY <2>1 DEF ListInv, FramesOK, OnOwnLists, Owned, Settled, InCritical, BeingCreated, Creates
  <2> QED
    BY <2>1, <2>3, <2>4 DEF ListInv, NoAbort
<1>8. CASE UNCHANGED vars
  <2>1. UNCHANGED <<status, conn, machines, groupMap, mutex, thread>>
    BY <1>8 DEF vars
  <2>2. SelfReached' /\ UpServes' /\ NoAbort' = NoAbort
    BY <2>1 DEF ListInv, SelfReached, UpServes, Up, NoAbort
  <2>3. FramesOK' /\ OnOwnLists' /\ Owned' /\ BeingCreated'
    BY <2>1 DEF ListInv, FramesOK, OnOwnLists, Owned, Settled, InCritical, BeingCreated, Creates
  <2> QED
    BY <2>2, <2>3 DEF ListInv
<1> QED
  BY <1>1, <1>2, <1>3, <1>4, <1>5, <1>6, <1>7, <1>8, NeverAborts
  DEF OpenNext, ManagerStep, Step

LEMMA ListInit ==
    ASSUME ReplicasAssumption, ManagerAssumption, Init
    PROVE  ListInv /\ NoAbort
<1>1. /\ \A p \in Proc, r \in RM : conn[p][r] = "none" /\ thread[p][r] = Idle
      /\ \A r \in RM, n \in Name : machines[r][n] = Nil /\ groupMap[r][n] = Nil
      /\ \A r \in RM : status[r] # "aborted" /\ mutex[r] = Nil
  BY DEF Init, ReplicasInit
<1>2. SelfReached /\ UpServes
  BY <1>1 DEF SelfReached, UpServes, Proc
<1>3. FramesOK /\ OnOwnLists /\ BeingCreated
  BY <1>1 DEF FramesOK, OnOwnLists, BeingCreated
<1>4. Owned
  BY <1>1 DEF Owned, InCritical, Critical, Idle
<1> QED
  BY <1>1, <1>2, <1>3, <1>4 DEF ListInv, NoAbort

LEMMA ListAlways ==
    ASSUME "remove" \notin Command, "apply" \in Command => OneName
    PROVE  Spec => [](ListInv /\ NoAbort)
<1> USE ReplicasAssumption, ManagerAssumption
<1> DEFINE Inv == WaitInv /\ ListInv /\ NoAbort
<1>1. Init => Inv
  BY ListInit, WaitInit
<1>2. TypeOK /\ Inv /\ [Next]_vars => Inv'
  BY NextIsOpen, WaitStep, ListStep DEF WaitInv
<1>3. Inv => ListInv /\ NoAbort
  OBVIOUS
<1> HIDE DEF Inv
<1> QED
  BY <1>1, <1>2, <1>3, TypeCorrect, PTL DEF Spec

(***************************************************************************)
(* Without remove(), and with one name or without apply(), a manager is on *)
(* every group list that it keeps for a machine it hosts, although the     *)
(* lists are assigned without the mutex and pruned of whoever is silent.   *)
(***************************************************************************)
THEOREM HostIsListed ==
    ASSUME "remove" \notin Command, "apply" \in Command => OneName
    PROVE  Spec => []SelfListed
<1>1. ListInv => SelfListed
  BY DEF ListInv, OnOwnLists, SelfListed
<1> QED
  BY <1>1, ListAlways, PTL

(***************************************************************************)
(* In the same setting no process dereferences a null machine, looks at    *)
(* element 1 of an empty list or runs off a list, whichever managers die   *)
(* or are started while the requests are being served.                     *)
(***************************************************************************)
THEOREM NobodyAborts ==
    ASSUME "remove" \notin Command, "apply" \in Command => OneName
    PROVE  Spec => []NoAbort
BY ListAlways, PTL
=============================================================================
