----------------------------- MODULE PathProofs -----------------------------
(***************************************************************************)
(* One client, and no manager that fails: the requests that are being      *)
(* served are one inside the other, and only the innermost moves on.       *)
(***************************************************************************)
EXTENDS ListProofs

(* Nobody has failed.                                                      *)
AllUp ==
    /\ \A r \in RM : Up(r)
    /\ \A r, q \in RM : conn[r][q] # "broken"

(***************************************************************************)
(* The requests that are being served, outermost first: s[1] serves the    *)
(* client c, and s[i] serves s[i - 1], which waits for it.                 *)
(***************************************************************************)
From(c, s, i) == IF i = 1 THEN c ELSE s[i - 1]

Path(c, s) ==
    /\ s \in Seq(RM)
    /\ \A i \in 1 .. Len(s) :
          /\ thread[From(c, s, i)][s[i]] # Idle
          /\ thread[From(c, s, i)][s[i]].wait = IF i = Len(s) THEN NoRM ELSE s[i + 1]
    /\ \A p \in Proc, r \in RM : thread[p][r] # Idle =>
          \E i \in 1 .. Len(s) : p = From(c, s, i) /\ r = s[i]
    /\ \A i, j \in 1 .. Len(s) :
          From(c, s, i) = From(c, s, j) /\ s[i] = s[j] => i = j

(* The managers, and client c, which sends one request at a time.          *)
CalmNext(c, C) ==
    \/ \E p \in Proc, r \in RM : Step(p, r)
    \/ \E r \in RM : Arrival(c, r, C) /\ \A q \in RM : thread[c][q] = Idle
    \/ Reconnects(c)
    \/ UNCHANGED vars

-----------------------------------------------------------------------------
(* Who is on the path                                                      *)

LEMMA FromProc ==
    ASSUME NEW c \in Client, NEW s \in Seq(RM), NEW i \in 1 .. Len(s)
    PROVE  s[i] \in RM /\ From(c, s, i) \in Proc
BY ElementOfSeq DEF From, Proc

LEMMA FromClient ==
    ASSUME ReplicasAssumption, NEW c \in Client, NEW s \in Seq(RM), NEW i \in 1 .. Len(s)
    PROVE  c \notin RM /\ (From(c, s, i) = c <=> i = 1)
<1>1. c \notin RM
  BY DEF ReplicasAssumption, Id
<1>2. i # 1 => s[i - 1] \in RM
  BY ElementOfSeq, LenProperties
<1> QED
  BY <1>1, <1>2 DEF From

(* A thread that waits for nobody is the last of the path.                 *)
LEMMA RunsLast ==
    ASSUME ReplicasAssumption, NEW c \in Client, NEW s, Path(c, s),
           NEW p \in Proc, NEW r \in RM, thread[p][r] # Idle, thread[p][r].wait = NoRM
    PROVE  LET m == Len(s) IN m \in Nat \ {0} /\ p = From(c, s, m) /\ r = s[m]
<1>1. Len(s) \in Nat /\ \A i \in 1 .. Len(s) : s[i] \in RM
  BY LenProperties, ElementOfSeq DEF Path
<1>2. NoRM \notin RM
  BY NoRMOut DEF NoRMIsNoManager
<1>3. PICK i \in 1 .. Len(s) : p = From(c, s, i) /\ r = s[i]
  BY DEF Path
<1>4. i = Len(s)
  BY <1>1, <1>2, <1>3 DEF Path
<1> QED
  BY <1>1, <1>3, <1>4

LEMMA OneRuns ==
    ASSUME ReplicasAssumption, NEW c \in Client, NEW s, Path(c, s),
           NEW p \in Proc, NEW r \in RM, thread[p][r] # Idle, thread[p][r].wait = NoRM,
           NEW t \in Proc, NEW u \in RM, thread[t][u] # Idle, thread[t][u].wait = NoRM
    PROVE  t = p /\ u = r
BY RunsLast

(* While the client's request is not waiting there is no other.            *)
LEMMA ClientRuns ==
    ASSUME ReplicasAssumption, NEW c \in Client, NEW s, Path(c, s),
           NEW r \in RM, thread[c][r] # Idle, thread[c][r].wait = NoRM,
           NEW t \in Proc, NEW u \in RM, thread[t][u] # Idle
    PROVE  t = c /\ u = r
<1>1. c \in Proc
  BY DEF Proc
<1>2. Len(s) \in Nat \ {0} /\ c = From(c, s, Len(s)) /\ r = s[Len(s)]
  BY <1>1, RunsLast
<1>3. Len(s) = 1
  <2>1. s \in Seq(RM) /\ Len(s) \in 1 .. Len(s)
    BY <1>2 DEF Path
  <2> QED
    BY <1>2, <2>1, FromClient
<1>4. PICK i \in 1 .. Len(s) : t = From(c, s, i) /\ u = s[i]
  BY DEF Path
<1> QED
  BY <1>2, <1>3, <1>4

(* The client has at most one request, and there is none without it.       *)
LEMMA ClientFirst ==
    ASSUME ReplicasAssumption, NEW c \in Client, NEW s, Path(c, s),
           NEW p \in Proc, NEW r \in RM, thread[p][r] # Idle
    PROVE  /\ s[1] \in RM /\ thread[c][s[1]] # Idle
           /\ p \in Client => p = c /\ r = s[1]
<1>1. PICK i \in 1 .. Len(s) : p = From(c, s, i) /\ r = s[i]
  BY DEF Path
<1>2. Len(s) \in Nat /\ 1 \in 1 .. Len(s)
  BY <1>1, LenProperties DEF Path
<1>3. s[1] \in RM /\ thread[c][s[1]] # Idle
  BY <1>2, ElementOfSeq DEF Path, From
<1>4. ASSUME p \in Client
      PROVE  i = 1
  <2>1. p \notin RM
    BY <1>4 DEF ReplicasAssumption, Id
  <2>2. i # 1 => s[i - 1] \in RM
    BY <1>2, ElementOfSeq DEF Path
  <2> QED
    BY <1>1, <2>1, <2>2 DEF From
<1> QED
  BY <1>1, <1>3, <1>4 DEF From

(* Whoever serves a manager's request has a caller, who waits for it.      *)
LEMMA HasCaller ==
    ASSUME ReplicasAssumption, NEW c \in Client, NEW s, Path(c, s),
           NEW p \in RM, NEW r \in RM, thread[p][r] # Idle
    PROVE  \E t \in Proc : thread[t][p] # Idle /\ thread[t][p].wait = r
<1>1. p \in Proc /\ p # c
  BY DEF Proc, ReplicasAssumption, Id
<1>2. PICK i \in 1 .. Len(s) : p = From(c, s, i) /\ r = s[i]
  BY <1>1 DEF Path
<1>3. Len(s) \in Nat /\ i # 1 /\ i - 1 \in 1 .. Len(s) /\ p = s[i - 1]
  BY <1>1, <1>2, LenProperties DEF Path, From
<1>4. From(c, s, i - 1) \in Proc
  BY <1>3, FromProc DEF Path
<1>5. /\ thread[From(c, s, i - 1)][p] # Idle
      /\ thread[From(c, s, i - 1)][p].wait = r
  BY <1>2, <1>3 DEF Path
<1> QED
  BY <1>4, <1>5

-----------------------------------------------------------------------------
(* How the path changes                                                    *)

LEMMA PathMoves ==
    ASSUME ReplicasAssumption, NEW c \in Client, NEW s, Path(c, s),
           NEW p \in Proc, NEW r \in RM, thread[p][r] # Idle, thread[p][r].wait = NoRM,
           Moves(p, r)
    PROVE  Path(c, s)'
<1>1. /\ \A t \in Proc, u \in RM : thread'[t][u] # Idle <=> thread[t][u] # Idle
      /\ \A t \in Proc, u \in RM : thread'[t][u].wait = thread[t][u].wait
  BY DEF Moves, Untouched, SameRequest
<1>2. s \in Seq(RM) /\ \A i \in 1 .. Len(s) : s[i] \in RM /\ From(c, s, i) \in Proc
  BY FromProc DEF Path
<1>3. ASSUME NEW i \in 1 .. Len(s)
      PROVE  /\ thread'[From(c, s, i)][s[i]] # Idle
             /\ thread'[From(c, s, i)][s[i]].wait = IF i = Len(s) THEN NoRM ELSE s[i + 1]
  <2>1. /\ thread[From(c, s, i)][s[i]] # Idle
        /\ thread[From(c, s, i)][s[i]].wait = IF i = Len(s) THEN NoRM ELSE s[i + 1]
    BY DEF Path
  <2> QED
    BY <1>1, <1>2, <2>1
<1>4. \A t \in Proc, u \in RM : thread'[t][u] # Idle =>
          \E i \in 1 .. Len(s) : t = From(c, s, i) /\ u = s[i]
  BY <1>1 DEF Path
<1>5. \A i, j \in 1 .. Len(s) : From(c, s, i) = From(c, s, j) /\ s[i] = s[j] => i = j
  BY DEF Path
<1> QED
  BY <1>2, <1>3, <1>4, <1>5 DEF Path

LEMMA PathCalls ==
    ASSUME ReplicasAssumption, NEW c \in Client, NEW s, Path(c, s),
           NEW p \in Proc, NEW r \in RM, thread[p][r] # Idle, thread[p][r].wait = NoRM,
           NEW q \in RM, Calls(p, r, q)
    PROVE  Path(c, Append(s, q))'
<1> DEFINE m == Len(s)
           h == Append(s, q)
<1>1. s \in Seq(RM) /\ \A i \in 1 .. m : s[i] \in RM /\ From(c, s, i) \in Proc
  BY FromProc DEF Path
<1>2. m \in Nat \ {0} /\ p = From(c, s, m) /\ r = s[m]
  BY RunsLast
<1>3. /\ h \in Seq(RM) /\ Len(h) = m + 1 /\ h[m + 1] = q
      /\ \A i \in 1 .. m : h[i] = s[i]
  BY <1>1, AppendProperties
<1> HIDE DEF h
<1>4. \A i \in 1 .. m : From(c, h, i) = From(c, s, i)
  BY <1>2, <1>3 DEF From
<1>5. From(c, h, m + 1) = r
  BY <1>2, <1>3 DEF From
<1>6. /\ thread[r][q] = Idle /\ r \in Proc
      /\ thread'[p][r] # Idle /\ thread'[p][r].wait = q
      /\ thread'[r][q] # Idle /\ thread'[r][q].wait = NoRM
      /\ \A t \in Proc, u \in RM :
           <<t, u>> \notin {<<p, r>>, <<r, q>>} => thread'[t][u] = thread[t][u]
  BY DEF Calls, SameRequest, Proc
<1>7. \A i \in 1 .. m : ~(From(c, s, i) = r /\ s[i] = q)
  BY <1>6 DEF Path
<1>8. \A i, j \in 1 .. m : From(c, s, i) = From(c, s, j) /\ s[i] = s[j] => i = j
  BY DEF Path
<1>9. ASSUME NEW i \in 1 .. m + 1
      PROVE  /\ thread'[From(c, h, i)][h[i]] # Idle
             /\ thread'[From(c, h, i)][h[i]].wait = IF i = m + 1 THEN NoRM ELSE h[i + 1]
  <2>1. CASE i = m + 1
    BY <1>3, <1>5, <1>6, <2>1
  <2>2. CASE i = m
    BY <1>2, <1>3, <1>4, <1>6, <2>2
  <2>3. CASE i < m
    <3>1. i \in 1 .. m /\ i + 1 \in 1 .. m /\ i # m /\ i # m + 1
      BY <1>2, <2>3
    <3>2. thread'[From(c, s, i)][s[i]] = thread[From(c, s, i)][s[i]]
      BY <1>1, <1>2, <1>6, <1>7, <1>8, <3>1
    <3>3. thread[From(c, s, i)][s[i]] # Idle /\ thread[From(c, s, i)][s[i]].wait = s[i + 1]
      BY <3>1 DEF Path
    <3> QED
      BY <1>3, <1>4, <3>1, <3>2, <3>3
  <2> QED
    BY <1>2, <2>1, <2>2, <2>3
<1>10. ASSUME NEW t \in Proc, NEW u \in RM, thread'[t][u] # Idle
       PROVE  \E i \in 1 .. m + 1 : t = From(c, h, i) /\ u = h[i]
  <2>1. CASE t = r /\ u = q
    BY <1>2, <1>3, <1>5, <2>1
  <2>2. CASE ~(t = r /\ u = q)
    <3>1. thread[t][u] # Idle
      BY <1>6, <1>10, <2>2
    <3>2. PICK i \in 1 .. m : t = From(c, s, i) /\ u = s[i]
      BY <3>1 DEF Path
    <3>3. i \in 1 .. m + 1
      BY <1>2
    <3> QED
      BY <1>3, <1>4, <3>2, <3>3
  <2> QED
    BY <2>1, <2>2
<1>11. ASSUME NEW i \in 1 .. m + 1, NEW j \in 1 .. m + 1,
              From(c, h, i) = From(c, h, j), h[i] = h[j]
       PROVE  i = j
  <2>1. i \in 1 .. m \/ i = m + 1
    BY <1>2
  <2>2. j \in 1 .. m \/ j = m + 1
    BY <1>2
  <2> QED
    BY <1>3, <1>4, <1>5, <1>7, <1>8, <1>11, <2>1, <2>2
<1> QED
  BY <1>3, <1>9, <1>10, <1>11 DEF Path, h

(* An answer: the last but one goes on.                                    *)
LEMMA PathReply ==
    ASSUME ReplicasAssumption, TypeOK, NEW c \in Client, NEW s, Path(c, s),
           NEW p \in Proc, NEW r \in RM, thread[p][r] # Idle, thread[p][r].wait = NoRM,
           thread' = ThreadsAfterReply(p, r)
    PROVE  Path(c, SubSeq(s, 1, Len(s) - 1))'
<1> DEFINE m == Len(s)
           h == SubSeq(s, 1, m - 1)
<1>0. NoRM \notin RM /\ Idle.wait = NoRM
  BY NoRMOut DEF NoRMIsNoManager, Idle
<1>1. s \in Seq(RM) /\ \A i \in 1 .. m : s[i] \in RM /\ From(c, s, i) \in Proc
  BY FromProc DEF Path
<1>2. m \in Nat \ {0} /\ p = From(c, s, m) /\ r = s[m]
  BY RunsLast
<1>3. /\ h \in Seq(RM) /\ Len(h) = m - 1
      /\ \A i \in 1 .. m - 1 : h[i] = s[i]
  <2>1. /\ h \in Seq(RM) /\ Len(h) = IF 1 <= m - 1 THEN (m - 1) - 1 + 1 ELSE 0
        /\ \A i \in 1 .. (m - 1) - 1 + 1 : h[i] = s[1 + i - 1]
    BY <1>1, <1>2, PartOfList
  <2> HIDE DEF h
  <2>2. \A i \in 1 .. m - 1 : i \in 1 .. (m - 1) - 1 + 1 /\ 1 + i - 1 = i
    BY <1>2
  <2>3. ASSUME NEW i \in 1 .. m - 1
        PROVE  h[i] = s[i]
    <3>1. h[i] = s[1 + i - 1]
      BY <2>1, <2>2
    <3> QED
      BY <2>2, <3>1
  <2>4. Len(h) = m - 1
    <3>1. m \in Nat /\ m # 0
      BY <1>2
    <3>2. Len(h) = IF 1 <= m - 1 THEN (m - 1) - 1 + 1 ELSE 0
      BY <2>1
    <3> HIDE DEF m
    <3> QED
      BY <3>1, <3>2
  <2> QED
    BY <2>1, <2>3, <2>4
<1> HIDE DEF h
<1>4. \A i \in 1 .. m - 1 : From(c, h, i) = From(c, s, i)
  BY <1>2, <1>3 DEF From
<1>5. \A t \in Proc, q \in RM :
        thread'[t][q] = IF t = p /\ q = r THEN Idle
                        ELSE IF q = p /\ thread[t][q].wait = r THEN Resume(thread[t][q])
                        ELSE thread[t][q]
  BY DEF ThreadsAfterReply
<1>6. ASSUME NEW i \in 1 .. m - 1
      PROVE  /\ thread'[From(c, h, i)][h[i]] # Idle
             /\ thread'[From(c, h, i)][h[i]].wait = IF i = m - 1 THEN NoRM ELSE h[i + 1]
  <2> DEFINE t == From(c, s, i)
             q == s[i]
  <2>1. i \in 1 .. m /\ i + 1 \in 1 .. m /\ i # m
    BY <1>2
  <2>2. t \in Proc /\ q \in RM /\ ~(t = p /\ q = r)
    BY <1>1, <1>2, <2>1 DEF Path
  <2>3. thread[t][q].wait = s[i + 1] /\ thread[t][q] # Idle /\ s[i + 1] \in RM
    BY <1>1, <2>1 DEF Path
  <2>4. CASE i = m - 1
    <3>1. q = p /\ s[i + 1] = r
      BY <1>2, <2>4 DEF From
    <3>2. thread'[t][q] = Resume(thread[t][q])
      BY <1>5, <2>2, <2>3, <3>1
    <3>3. Resume(thread[t][q]) # Idle /\ Resume(thread[t][q]).wait = NoRM
      BY <2>2, <2>3, WaitingIsActive, ResumeWaits
    <3> QED
      BY <1>3, <1>4, <2>4, <3>2, <3>3
  <2>5. CASE i # m - 1
    <3>1. i + 1 \in 1 .. m - 1
      BY <1>2, <2>5
    <3>2. ~(q = p /\ s[i + 1] = r)
      <4>1. From(c, s, i + 1) = q /\ i + 1 \in 1 .. m
        BY <1>2, <3>1 DEF From
      <4>2. i + 1 # m
        BY <1>2, <3>1
      <4> QED
        BY <1>2, <4>1, <4>2 DEF Path
    <3>3. thread'[t][q] = thread[t][q]
      BY <1>5, <2>2, <2>3, <3>2
    <3> QED
      BY <1>3, <1>4, <2>3, <2>5, <3>1, <3>3
  <2> QED
    BY <2>4, <2>5
<1>7. ASSUME NEW t \in Proc, NEW u \in RM, thread'[t][u] # Idle
      PROVE  \E i \in 1 .. m - 1 : t = From(c, h, i) /\ u = h[i]
  <2>1. thread[t][u] # Idle /\ ~(t = p /\ u = r)
    BY <1>0, <1>5, <1>7
  <2>2. PICK i \in 1 .. m : t = From(c, s, i) /\ u = s[i]
    BY <2>1 DEF Path
  <2>3. i \in 1 .. m - 1
    BY <1>2, <2>1, <2>2
  <2> QED
    BY <1>3, <1>4, <2>2, <2>3
<1>8. ASSUME NEW i \in 1 .. m - 1, NEW j \in 1 .. m - 1,
             From(c, h, i) = From(c, h, j), h[i] = h[j]
      PROVE  i = j
  <2>1. i \in 1 .. m /\ j \in 1 .. m
    BY <1>2
  <2> QED
    BY <1>3, <1>4, <1>8, <2>1 DEF Path
<1> QED
  BY <1>3, <1>6, <1>7, <1>8 DEF Path, h

(* The client sends a request.                                             *)
LEMMA PathArrival ==
    ASSUME ReplicasAssumption, TypeOK, NEW c \in Client, NEW s, Path(c, s),
           NEW r \in RM, NEW C, Arrival(c, r, C), \A q \in RM : thread[c][q] = Idle
    PROVE  /\ Path(c, <<r>>)'
           /\ \A p \in Proc, u \in RM : thread[p][u] = Idle
<1>1. \A p \in Proc, u \in RM : thread[p][u] = Idle
  BY ClientFirst
<1>2. c \in Proc
  BY DEF Proc
<1>3. /\ thread'[c][r] # Idle /\ thread'[c][r].wait = NoRM
      /\ \A p \in Proc, u \in RM : <<p, u>> # <<c, r>> => thread'[p][u] = Idle
  <2>1. Arrived(c, r, C)
    BY CallStays
  <2> QED
    BY <1>1, <2>1 DEF Arrived
<1>4. <<r>> \in Seq(RM) /\ Len(<<r>>) = 1 /\ <<r>>[1] = r /\ 1 .. 1 = {1}
  OBVIOUS
<1>5. From(c, <<r>>, 1) = c
  BY DEF From
<1> QED
  BY <1>1, <1>2, <1>3, <1>4, <1>5 DEF Path

-----------------------------------------------------------------------------
(* The actions, when every manager can be reached                          *)

LEMMA Reachable ==
    ASSUME TypeOK, AllUp, NEW r \in RM, NEW q \in RM
    PROVE  CanCall(r, q) /\ ~OpenFails(r, q)
<1>1. conn[r][q] \in ConnState /\ conn[r][q] # "broken"
  BY DEF TypeOK, AllUp, Proc
<1> QED
  BY <1>1 DEF AllUp, CanCall, OpenFails, ConnState

LEMMA ManagersReached ==
    ASSUME TypeOK, AllUp, NEW p \in Proc, NEW r \in RM, ServerStep(p, r)
    PROVE  AllUp'
<1>1. UNCHANGED status /\ (UNCHANGED conn \/ \E S : conn' = Opened(r, S))
  BY StepConn
<1>2. ASSUME NEW S, conn' = Opened(r, S)
      PROVE  \A t, q \in RM : conn'[t][q] # "broken"
  <2>1. \A t \in Proc, q \in RM :
          conn'[t][q] = IF t = r /\ q \in S THEN IF CanCall(r, q) THEN "open" ELSE "broken"
                        ELSE conn[t][q]
    BY <1>2 DEF Opened, TypeOK, Proc
  <2> QED
    BY <2>1, Reachable DEF AllUp, Proc
<1> QED
  BY <1>1, <1>2 DEF AllUp, Up

(* What the managers hold after a step.                                    *)
Same ==
    \A q \in RM, m \in Name : machines'[q][m] = machines[q][m] /\ groupMap'[q][m] = groupMap[q][m]
SetsMachine(r, n, v) ==
    \A q \in RM, m \in Name :
        /\ machines'[q][m] = IF q = r /\ m = n THEN v ELSE machines[q][m]
        /\ groupMap'[q][m] = groupMap[q][m]
SetsList(r, n, g) ==
    \A q \in RM, m \in Name :
        /\ machines'[q][m] = machines[q][m]
        /\ groupMap'[q][m] = IF q = r /\ m = n THEN g ELSE groupMap[q][m]

(* Thread [p][r] goes on with its request, and waits for nobody.           *)
Has(h, pc, i, vec, res) == h.pc = pc /\ h.i = i /\ h.vec = vec /\ h.res = res
Goes(p, r, pc, i, vec, res) == Moves(p, r) /\ Has(thread'[p][r], pc, i, vec, res)

LEMMA AssignedFields ==
    ASSUME NEW f \in Frame, NEW pc, NEW i, NEW vec, NEW res
    PROVE  /\ Has([f EXCEPT !.pc = pc], pc, f.i, f.vec, f.res)
           /\ Has([f EXCEPT !.i = i, !.pc = pc], pc, i, f.vec, f.res)
           /\ Has([f EXCEPT !.pc = pc, !.i = i], pc, i, f.vec, f.res)
           /\ Has([f EXCEPT !.pc = pc, !.res = res], pc, f.i, f.vec, res)
           /\ Has([f EXCEPT !.pc = pc, !.i = i, !.vec = vec], pc, i, vec, f.res)
           /\ Has([f EXCEPT !.i = i, !.vec = vec, !.pc = pc], pc, i, vec, f.res)
<1>1. Has([f EXCEPT !.pc = pc], pc, f.i, f.vec, f.res)
  BY DEF Frame, Has
<1>2. Has([f EXCEPT !.i = i, !.pc = pc], pc, i, f.vec, f.res)
  BY DEF Frame, Has
<1>3. Has([f EXCEPT !.pc = pc, !.i = i], pc, i, f.vec, f.res)
  BY DEF Frame, Has
<1>4. Has([f EXCEPT !.pc = pc, !.res = res], pc, f.i, f.vec, res)
  BY DEF Frame, Has
<1>5. Has([f EXCEPT !.pc = pc, !.i = i, !.vec = vec], pc, i, vec, f.res)
  BY DEF Frame, Has
<1>6. Has([f EXCEPT !.i = i, !.vec = vec, !.pc = pc], pc, i, vec, f.res)
  BY DEF Frame, Has
<1> QED
  BY <1>1, <1>2, <1>3, <1>4, <1>5, <1>6

LEMMA GotoIs ==
    ASSUME TypeOK, NEW p \in Proc, NEW r \in RM, NEW h, Goto(p, r, h)
    PROVE  thread'[p][r] = h
BY DEF TypeOK, Goto

LEMMA GotoGoesOn ==
    ASSUME TypeOK, NEW p \in Proc, NEW r \in RM,
           NEW f \in Frame, f = thread[p][r], f.wait = NoRM,
           NEW pc, NEW i, NEW vec, NEW res, NEW h \in Assigned(f, pc, i, vec, res),
           Goto(p, r, h), NEW pc1, NEW i1, NEW vec1, NEW res1, Has(h, pc1, i1, vec1, res1)
    PROVE  Goes(p, r, pc1, i1, vec1, res1)
<1>1. SameRequest(f, h) /\ h.wait = NoRM
  BY SameInFrame
<1>2. \A t \in Proc, u \in RM :
        thread'[t][u] = IF t = p /\ u = r THEN h ELSE thread[t][u]
  BY DEF Goto, TypeOK
<1>3. thread'[p][r] = h /\ Moves(p, r)
  BY <1>1, <1>2 DEF Moves, Untouched
<1> QED
  BY <1>3 DEF Goes

LEMMA GoesOnward ==
    ASSUME TypeOK, NEW p \in Proc, NEW r \in RM,
           NEW f \in Frame, f = thread[p][r], f.wait = NoRM,
           NEW pc, NEW i, NEW vec, NEW res
    PROVE  /\ Goto(p, r, [f EXCEPT !.pc = pc]) => Goes(p, r, pc, f.i, f.vec, f.res)
           /\ Goto(p, r, [f EXCEPT !.i = i, !.pc = pc]) => Goes(p, r, pc, i, f.vec, f.res)
           /\ Goto(p, r, [f EXCEPT !.pc = pc, !.i = i]) => Goes(p, r, pc, i, f.vec, f.res)
           /\ Goto(p, r, [f EXCEPT !.pc = pc, !.res = res]) => Goes(p, r, pc, f.i, f.vec, res)
           /\ Goto(p, r, [f EXCEPT !.pc = pc, !.i = i, !.vec = vec]) => Goes(p, r, pc, i, vec, f.res)
           /\ Goto(p, r, [f EXCEPT !.i = i, !.vec = vec, !.pc = pc]) => Goes(p, r, pc, i, vec, f.res)
<1>1. ASSUME Goto(p, r, [f EXCEPT !.pc = pc])
      PROVE  Goes(p, r, pc, f.i, f.vec, f.res)
  <2> DEFINE h == [f EXCEPT !.pc = pc]
  <2>1. h \in Assigned(f, pc, i, vec, res)
    BY Zenon DEF Assigned
  <2>2. Has(h, pc, f.i, f.vec, f.res)
    BY AssignedFields
  <2>3. Goto(p, r, h)
    BY <1>1
  <2> HIDE DEF h
  <2> QED
    BY <2>1, <2>2, <2>3, GotoGoesOn, Zenon
<1>2. ASSUME Goto(p, r, [f EXCEPT !.i = i, !.pc = pc])
      PROVE  Goes(p, r, pc, i, f.vec, f.res)
  <2> DEFINE h == [f EXCEPT !.i = i, !.pc = pc]
  <2>1. h \in Assigned(f, pc, i, vec, res)
    BY Zenon DEF Assigned
  <2>2. Has(h, pc, i, f.vec, f.res)
    BY AssignedFields
  <2>3. Goto(p, r, h)
    BY <1>2
  <2> HIDE DEF h
  <2> QED
    BY <2>1, <2>2, <2>3, GotoGoesOn, Zenon
<1>3. ASSUME Goto(p, r, [f EXCEPT !.pc = pc, !.i = i])
      PROVE  Goes(p, r, pc, i, f.vec, f.res)
  <2> DEFINE h == [f EXCEPT !.pc = pc, !.i = i]
  <2>1. h \in Assigned(f, pc, i, vec, res)
    BY Zenon DEF Assigned
  <2>2. Has(h, pc, i, f.vec, f.res)
    BY AssignedFields
  <2>3. Goto(p, r, h)
    BY <1>3
  <2> HIDE DEF h
  <2> QED
    BY <2>1, <2>2, <2>3, GotoGoesOn, Zenon
<1>4. ASSUME Goto(p, r, [f EXCEPT !.pc = pc, !.res = res])
      PROVE  Goes(p, r, pc, f.i, f.vec, res)
  <2> DEFINE h == [f EXCEPT !.pc = pc, !.res = res]
  <2>1. h \in Assigned(f, pc, i, vec, res)
    BY Zenon DEF Assigned
  <2>2. Has(h, pc, f.i, f.vec, res)
    BY AssignedFields
  <2>3. Goto(p, r, h)
    BY <1>4
  <2> HIDE DEF h
  <2> QED
    BY <2>1, <2>2, <2>3, GotoGoesOn, Zenon
<1>5. ASSUME Goto(p, r, [f EXCEPT !.pc = pc, !.i = i, !.vec = vec])
      PROVE  Goes(p, r, pc, i, vec, f.res)
  <2> DEFINE h == [f EXCEPT !.pc = pc, !.i = i, !.vec = vec]
  <2>1. h \in Assigned(f, pc, i, vec, res)
    BY Zenon DEF Assigned
  <2>2. Has(h, pc, i, vec, f.res)
    BY AssignedFields
  <2>3. Goto(p, r, h)
    BY <1>5
  <2> HIDE DEF h
  <2> QED
    BY <2>1, <2>2, <2>3, GotoGoesOn, Zenon
<1>6. ASSUME Goto(p, r, [f EXCEPT !.i = i, !.vec = vec, !.pc = pc])
      PROVE  Goes(p, r, pc, i, vec, f.res)
  <2> DEFINE h == [f EXCEPT !.i = i, !.vec = vec, !.pc = pc]
  <2>1. h \in Assigned(f, pc, i, vec, res)
    BY Zenon DEF Assigned
  <2>2. Has(h, pc, i, vec, f.res)
    BY AssignedFields
  <2>3. Goto(p, r, h)
    BY <1>6
  <2> HIDE DEF h
  <2> QED
    BY <2>1, <2>2, <2>3, GotoGoesOn, Zenon
<1> QED
  BY <1>1, <1>2, <1>3, <1>4, <1>5, <1>6, Zenon

LEMMA SameWhenUnchanged ==
    ASSUME UNCHANGED <<machines, groupMap>>
    PROVE  Same
BY DEF Same

LEMMA SetsNewList ==
    ASSUME TypeOK, NEW r \in RM, NEW n \in Name, NEW g, SetGroup(r, n, g), UNCHANGED machines
    PROVE  SetsList(r, n, g) /\ (g = groupMap[r][n] => Same)
<1>1. SetsList(r, n, g)
  BY DEF TypeOK, SetGroup, SetsList
<1> QED
  BY <1>1 DEF SetsList, Same

LEMMA SetsNewMachine ==
    ASSUME TypeOK, NEW r \in RM, NEW n \in Name, NEW v,
           machines' = [machines EXCEPT ![r][n] = v], UNCHANGED groupMap
    PROVE  SetsMachine(r, n, v)
BY DEF TypeOK, SetsMachine

(***************************************************************************)
(* What a thread of r in state f needs of the machines and lists of r, to  *)
(* go on without an exception and without a crash.                         *)
(***************************************************************************)
Sound(r, f) ==
    LET n == f.name IN
    /\ f.pc \in {"read", "local", "send"} => machines[r][n] # Nil
    /\ f.pc \in {"prune", "send"} => groupMap[r][n] \in Seq(RM)
    /\ f.pc = "prune" => f.i = 1 /\ groupMap[r][n] # <<>>
    /\ f.pc = "select" => groupMap[r][n] \in Seq(RM) \ {<<>>}
    /\ f.pc = "fwd" => f.vec \in Seq(RM)

LEMMA ListIsThere ==
    ASSUME ManagerAssumption, NEW r \in RM, NEW n \in Name, groupMap[r][n] \in Seq(RM)
    PROVE  /\ Group(r, n) = groupMap[r][n] /\ groupMap[r][n] # Nil
           /\ Len(groupMap[r][n]) \in Nat /\ DOMAIN groupMap[r][n] = 1 .. Len(groupMap[r][n])
           /\ \A j \in 1 .. Len(groupMap[r][n]) :
                groupMap[r][n][j] \in RM /\ groupMap[r][n][j] \in ToSet(groupMap[r][n])
<1> DEFINE g == groupMap[r][n]
<1>1. Len(g) \in Nat /\ DOMAIN g = 1 .. Len(g) /\ \A j \in 1 .. Len(g) : g[j] \in RM
  BY LenProperties, ElementOfSeq
<1>2. g \in Seq(Id)
  <2>1. g = [j \in 1 .. Len(g) |-> g[j]]
    BY LenProperties
  <2>2. \A j \in 1 .. Len(g) : g[j] \in Id
    BY <1>1 DEF Id
  <2> HIDE DEF g
  <2> QED
    BY <1>1, <2>1, <2>2, IsASeq
<1>3. g # Nil
  BY <1>2, ListIsSomething
<1>4. \A j \in 1 .. Len(g) : g[j] \in ToSet(g)
  BY <1>2, OnList
<1> QED
  BY <1>1, <1>3, <1>4 DEF Group

LEMMA NoneSilent ==
    ASSUME ReplicasAssumption, ManagerAssumption, TypeOK, AllUp,
           NEW r \in RM, NEW n \in Name, groupMap[r][n] \in Seq(RM), NEW i
    PROVE  Silent(r, Group(r, n), i) = {}
<1>1. NoRM \notin RM
  BY NoRMOut DEF NoRMIsNoManager
<1>2. \A j \in DOMAIN Group(r, n) : Group(r, n)[j] \in RM
  BY ListIsThere
<1> QED
  BY <1>1, <1>2, Reachable DEF Silent

(* A thread that is sound neither crashes nor lets an exception out.       *)
LEMMA SoundGoesOn ==
    ASSUME ReplicasAssumption, ManagerAssumption, TypeOK, AllUp,
           NEW p \in Proc, NEW r \in RM, Sound(r, thread[p][r])
    PROVE  ~Escape(p, r) /\ ~Abort(p, r)
<1> DEFINE f == thread[p][r]
           n == f.name
           g == groupMap[r][n]
<1>0. NoRM \notin RM
  BY NoRMOut DEF NoRMIsNoManager
<1>1. f.pc # "idle" => f \in Frame /\ n \in Name
  BY ActiveFrame DEF Frame
<1>2. ASSUME At(p, r, "prune")
      PROVE  Silent(r, Group(r, n), f.i) = {} /\ ~(f.i > Len(Group(r, n)) + 1)
  <2>1. n \in Name /\ g \in Seq(RM) /\ f.i = 1
    BY <1>1, <1>2 DEF At, Sound
  <2>2. Len(Group(r, n)) \in Nat
    BY <2>1, ListIsThere
  <2> QED
    BY <2>1, <2>2, NoneSilent
<1>3. ASSUME NEW h \in Seq(RM), NEW i, Others(r, h, i) # {}
      PROVE  h[Min(Others(r, h, i))] # NoRM
  <2>1. Len(h) \in Nat /\ DOMAIN h = 1 .. Len(h) /\ \A j \in 1 .. Len(h) : h[j] \in RM
    BY LenProperties, ElementOfSeq
  <2>2. Others(r, h, i) \subseteq Nat /\ Others(r, h, i) \subseteq 1 .. Len(h)
    BY <2>1 DEF Others
  <2>3. Min(Others(r, h, i)) \in Others(r, h, i)
    BY <1>3, <2>2, MinOfNats
  <2> QED
    BY <1>0, <2>1, <2>2, <2>3
<1>4. ASSUME At(p, r, "send")
      PROVE  machines[r][n] # Nil /\ Group(r, n) \in Seq(RM)
  <2>1. n \in Name /\ g \in Seq(RM) /\ machines[r][n] # Nil
    BY <1>1, <1>4 DEF At, Sound
  <2> QED
    BY <2>1, ListIsThere
<1>5. ASSUME At(p, r, "select")
      PROVE  Group(r, n) # <<>>
  <2>1. n \in Name /\ g \in Seq(RM) /\ g # <<>>
    BY <1>1, <1>5 DEF At, Sound
  <2> QED
    BY <2>1, ListIsThere
<1>6. At(p, r, "fwd") => f.vec \in Seq(RM)
  BY DEF At, Sound
<1>7. At(p, r, "read") \/ At(p, r, "local") => machines[r][n] # Nil
  BY DEF At, Sound
<1> HIDE DEF f, n, g
<1>8. ~Overrun(p, r)
  BY <1>2 DEF Overrun, f, n
<1>9. ~BadIndex(p, r)
  BY <1>2, <1>3, <1>4, <1>6 DEF BadIndex, f, n
<1> QED
  BY <1>4, <1>5, <1>7, <1>8, <1>9 DEF Escape, Abort, f, n

-----------------------------------------------------------------------------
(* The actions one by one, for a thread in state f that waits for nobody   *)

Ready(p, r, f) == f \in Frame /\ f = thread[p][r] /\ f.wait = NoRM

LEMMA StepReady ==
    ASSUME TypeOK, NEW p \in Proc, NEW r \in RM, ServerStep(p, r)
    PROVE  /\ Ready(p, r, thread[p][r])
           /\ thread[p][r].name \in Name /\ thread[p][r].val \in Value \cup {Nil}
           /\ thread[p][r].i \in Nat /\ thread[p][r].vec \in Seq(Id) /\ thread[p][r].op \in Op
BY StepKind DEF Ready, Frame

LEMMA ExistsShape ==
    ASSUME TypeOK, AllUp, NEW p \in Proc, NEW r \in RM, NEW f, Ready(p, r, f), CreateExists(p, r)
    PROVE  /\ f.pc = "exists" /\ Same
           /\ IF \A q \in RM : machines[q][f.name] = Nil
              THEN Goes(p, r, "lock", f.i, f.vec, f.res)
              ELSE Goes(p, r, "error", f.i, f.vec, f.res)
<1>1. f.pc = "exists" /\ Same
  BY SameWhenUnchanged DEF CreateExists, At, Ready
<1>2. (\E q \in RM : CanCall(r, q) /\ machines[q][f.name] # Nil)
        <=> ~\A q \in RM : machines[q][f.name] = Nil
  BY Reachable
<1>3. Goto(p, r, [f EXCEPT !.pc =
            IF \E q \in RM : CanCall(r, q) /\ machines[q][f.name] # Nil
            THEN "error" ELSE "lock"])
  BY DEF CreateExists, Ready
<1>4. IF \A q \in RM : machines[q][f.name] = Nil
      THEN Goto(p, r, [f EXCEPT !.pc = "lock"]) ELSE Goto(p, r, [f EXCEPT !.pc = "error"])
  BY <1>2, <1>3
<1> QED
  BY <1>1, <1>4, GoesOnward, Zenon DEF Ready

LEMMA DupShape ==
    ASSUME TypeOK, NEW p \in Proc, NEW r \in RM, NEW f, Ready(p, r, f), CreateDup(p, r)
    PROVE  /\ f.pc = "dup"
           /\ IF machines[r][f.name] # Nil
              THEN Goes(p, r, "error", f.i, f.vec, f.res) /\ SetsList(r, f.name, f.vec)
              ELSE Goes(p, r, "lock", f.i, f.vec, f.res) /\ Same
<1>1. f.pc = "dup" /\ f.name \in Name
  BY DEF CreateDup, At, Ready, Frame
<1>2. CASE machines[r][f.name] # Nil
  <2>1. /\ SetGroup(r, f.name, f.vec) /\ UNCHANGED machines
        /\ Goto(p, r, [f EXCEPT !.pc = "error"])
    BY <1>2, Zenon DEF CreateDup, Ready
  <2> QED
    BY <1>1, <1>2, <2>1, SetsNewList, GoesOnward, Zenon DEF Ready
<1>3. CASE machines[r][f.name] = Nil
  <2>1. UNCHANGED <<machines, groupMap>> /\ Goto(p, r, [f EXCEPT !.pc = "lock"])
    BY <1>3, Zenon DEF CreateDup, Ready
  <2> QED
    BY <1>1, <1>3, <2>1, SameWhenUnchanged, GoesOnward, Zenon DEF Ready
<1> QED
  BY <1>2, <1>3

LEMMA CheckShape ==
    ASSUME TypeOK, NEW p \in Proc, NEW r \in RM, NEW f, Ready(p, r, f), CheckExists(p, r)
    PROVE  /\ f.pc = "check" /\ Same
           /\ Goes(p, r, IF machines[r][f.name] = Nil THEN "error"
                         ELSE IF f.op = "getState" THEN "read"
                         ELSE IF f.op = "remove" /\ f.fromFrontEnd THEN "fwdlock"
                         ELSE "lock", f.i, f.vec, f.res)
<1> DEFINE pc == IF machines[r][f.name] = Nil THEN "error"
                 ELSE IF f.op = "getState" THEN "read"
                 ELSE IF f.op = "remove" /\ f.fromFrontEnd THEN "fwdlock"
                 ELSE "lock"
<1>1. f.pc = "check" /\ UNCHANGED <<machines, groupMap>>
  BY Zenon DEF CheckExists, At, Ready
<1>2. Goto(p, r, [f EXCEPT !.pc = pc])
  BY Zenon DEF CheckExists, Ready
<1> HIDE DEF pc
<1>3. Goes(p, r, pc, f.i, f.vec, f.res)
  BY <1>2, GoesOnward, Zenon DEF Ready
<1> QED
  BY <1>1, <1>3, SameWhenUnchanged, Zenon DEF pc

LEMMA ReadShape ==
    ASSUME TypeOK, NEW p \in Proc, NEW r \in RM, NEW f, Ready(p, r, f), Read(p, r)
    PROVE  f.pc = "read" /\ Same /\ Goes(p, r, "lock", f.i, f.vec, machines[r][f.name])
<1>1. f.pc = "read" /\ UNCHANGED <<machines, groupMap>>
  BY Zenon DEF Read, At, Ready
<1>2. Goto(p, r, [f EXCEPT !.pc = "lock", !.res = machines[r][f.name]])
  BY Zenon DEF Read, Ready
<1> QED
  BY <1>1, <1>2, SameWhenUnchanged, GoesOnward, Zenon DEF Ready

LEMMA LockShape ==
    ASSUME TypeOK, NEW p \in Proc, NEW r \in RM, NEW f, Ready(p, r, f), Lock(p, r)
    PROVE  /\ f.pc = "lock" /\ Same
           /\ Goes(p, r, IF f.op = "create" THEN "insert"
                         ELSE IF f.op = "remove" THEN "erase" ELSE "prune", 1, f.vec, f.res)
<1> DEFINE pc == IF f.op = "create" THEN "insert"
                 ELSE IF f.op = "remove" THEN "erase" ELSE "prune"
<1>1. f.pc = "lock" /\ UNCHANGED <<machines, groupMap>>
  BY Zenon DEF Lock, At, Ready
<1>2. Goto(p, r, [f EXCEPT !.i = 1, !.pc = pc])
  BY Zenon DEF Lock, Ready
<1> HIDE DEF pc
<1>3. Goes(p, r, pc, 1, f.vec, f.res)
  BY <1>2, GoesOnward, Zenon DEF Ready
<1> QED
  BY <1>1, <1>3, SameWhenUnchanged, Zenon DEF pc

LEMMA InsertShape ==
    ASSUME TypeOK, NEW p \in Proc, NEW r \in RM, NEW f, Ready(p, r, f), Insert(p, r),
           machines[r][f.name] = Nil
    PROVE  /\ f.pc = "insert" /\ SetsMachine(r, f.name, f.val)
           /\ Goes(p, r, "group", f.i, f.vec, f.res)
<1>1. f.pc = "insert" /\ f.name \in Name /\ UNCHANGED groupMap
  BY DEF Insert, At, Ready, Frame
<1>2. machines' = [machines EXCEPT ![r][f.name] = f.val]
  BY <1>1 DEF Insert, Ready, TypeOK
<1>3. Goto(p, r, [f EXCEPT !.pc = "group"])
  BY Zenon DEF Insert, Ready
<1> QED
  BY <1>1, <1>2, <1>3, SetsNewMachine, GoesOnward, Zenon DEF Ready

LEMMA InsertGroupShape ==
    ASSUME TypeOK, NEW p \in Proc, NEW r \in RM, NEW f, Ready(p, r, f), InsertGroup(p, r),
           groupMap[r][f.name] = Nil
    PROVE  /\ f.pc = "group" /\ SetsList(r, f.name, f.vec)
           /\ Goes(p, r, "prune", f.i, f.vec, f.res)
<1>1. f.pc = "group" /\ f.name \in Name /\ UNCHANGED machines
  BY DEF InsertGroup, At, Ready, Frame
<1>2. SetGroup(r, f.name, f.vec)
  BY <1>1 DEF InsertGroup, SetGroup, Ready, TypeOK
<1>3. Goto(p, r, [f EXCEPT !.pc = "prune"])
  BY Zenon DEF InsertGroup, Ready
<1> QED
  BY <1>1, <1>2, <1>3, SetsNewList, GoesOnward, Zenon DEF Ready

(* Every member of the list answers: nobody is pruned.                     *)
LEMMA PruneShape ==
    ASSUME ReplicasAssumption, ManagerAssumption, TypeOK, AllUp, NEW p \in Proc, NEW r \in RM,
           NEW f, Ready(p, r, f), Sound(r, f)
    PROVE  ~Prune(p, r)
<1>1. f.name \in Name
  BY DEF Ready, Frame
<1>2. f.pc = "prune" => Silent(r, Group(r, f.name), f.i) = {}
  BY <1>1, NoneSilent DEF Sound
<1> QED
  BY <1>2 DEF Prune, At, Ready

LEMMA PruneEndShape ==
    ASSUME ManagerAssumption, TypeOK, NEW p \in Proc, NEW r \in RM,
           NEW f, Ready(p, r, f), Sound(r, f), PruneEnd(p, r)
    PROVE  /\ f.pc = "prune" /\ Same
           /\ IF Len(groupMap[r][f.name]) < GroupSize
              THEN Goes(p, r, "select", f.i, f.vec, f.res)
              ELSE Goes(p, r, "send", 1, f.vec, f.res)
<1> DEFINE g == groupMap[r][f.name]
<1>1. f.name \in Name /\ f.pc = "prune" /\ g \in Seq(RM)
  BY DEF PruneEnd, At, Ready, Frame, Sound
<1>2. Group(r, f.name) = g
  BY <1>1, ListIsThere
<1>3. SetGroup(r, f.name, g) /\ UNCHANGED machines
  BY <1>2, Zenon DEF PruneEnd, Ready
<1>4. Same
  BY <1>1, <1>3, SetsNewList
<1>5. IF Len(g) < GroupSize THEN Goto(p, r, [f EXCEPT !.pc = "select"])
      ELSE Goto(p, r, [f EXCEPT !.pc = "send", !.i = 1])
  BY <1>2, Zenon DEF PruneEnd, Ready, Release
<1> QED
  BY <1>1, <1>4, <1>5, GoesOnward, Zenon DEF Ready

(***************************************************************************)
(* A manager that is found without the machine is added, and is not the    *)
(* second of the list; while there is one no other number can be added.    *)
(***************************************************************************)
LEMMA SelectShape ==
    ASSUME ManagerAssumption, TypeOK, AllUp, NEW p \in Proc, NEW r \in RM,
           NEW f, Ready(p, r, f), Sound(r, f), Select(p, r),
           \E k \in RM : machines[k][f.name] = Nil /\
                (Len(groupMap[r][f.name]) = 1 \/ groupMap[r][f.name][2] # k)
    PROVE  /\ f.pc = "select"
           /\ \E rep \in RM :
                /\ machines[rep][f.name] = Nil
                /\ Len(groupMap[r][f.name]) = 1 \/ groupMap[r][f.name][2] # rep
                /\ SetsList(r, f.name, Append(groupMap[r][f.name], rep))
           /\ IF Len(groupMap[r][f.name]) + 1 < GroupSize THEN UNCHANGED thread
              ELSE Goes(p, r, "send", 1, f.vec, f.res)
<1> DEFINE g == groupMap[r][f.name]
           C == {k \in NonHolders(r, f.name) : Len(g) = 1 \/ g[2] # k}
<1>1. f.name \in Name /\ f.pc = "select" /\ g \in Seq(RM)
  BY DEF Select, At, Ready, Frame, Sound
<1>2. Group(r, f.name) = g
  BY <1>1, ListIsThere
<1>3. C # {}
  BY Reachable DEF NonHolders
<1>4. UNCHANGED machines /\ \E rep \in LeastLoaded(C) : SetGroup(r, f.name, Append(g, rep))
  BY <1>2, <1>3 DEF Select, Ready
<1>5. PICK rep \in C : SetGroup(r, f.name, Append(g, rep))
  BY <1>4 DEF LeastLoaded
<1>6. SetsList(r, f.name, Append(g, rep))
  BY <1>1, <1>4, <1>5, SetsNewList
<1>7. rep \in RM /\ machines[rep][f.name] = Nil /\ (Len(g) = 1 \/ g[2] # rep)
  BY <1>5 DEF NonHolders
<1>8. IF Len(g) + 1 < GroupSize THEN UNCHANGED thread
      ELSE Goto(p, r, [f EXCEPT !.pc = "send", !.i = 1])
  BY <1>2, Zenon DEF Select, Ready, Release
<1>9. IF Len(g) + 1 < GroupSize THEN UNCHANGED thread ELSE Goes(p, r, "send", 1, f.vec, f.res)
  BY <1>8, GoesOnward, Zenon DEF Ready
<1> QED
  BY <1>1, <1>6, <1>7, <1>9

(* Position j of list g is the first from i on that is not r itself.       *)
IsNext(r, g, i, j) ==
    /\ j \in 1 .. Len(g) /\ i <= j /\ g[j] # r
    /\ \A k \in 1 .. Len(g) : i <= k /\ k < j => g[k] = r

LEMMA NextIs ==
    ASSUME NEW r \in RM, NEW g \in Seq(RM), NEW i \in Nat, Others(r, g, i) # {}
    PROVE  IsNext(r, g, i, NextOther(r, g, i))
<1>1. Len(g) \in Nat /\ DOMAIN g = 1 .. Len(g)
  BY LenProperties
<1>2. Others(r, g, i) \subseteq Nat
  BY <1>1 DEF Others
<1>3. /\ NextOther(r, g, i) \in Others(r, g, i)
      /\ \A k \in Others(r, g, i) : NextOther(r, g, i) <= k
  BY <1>2, MinOfNats DEF NextOther
<1>4. NextOther(r, g, i) \in Nat
  BY <1>2, <1>3
<1> HIDE DEF NextOther
<1>5. ASSUME NEW k \in 1 .. Len(g), i <= k, k < NextOther(r, g, i)
      PROVE  g[k] = r
  <2>1. k \notin Others(r, g, i)
    BY <1>1, <1>3, <1>4, <1>5
  <2> QED
    BY <1>1, <1>5, <2>1 DEF Others
<1> QED
  BY <1>1, <1>3, <1>5 DEF IsNext, Others

LEMMA NoneLeft ==
    ASSUME NEW r \in RM, NEW g \in Seq(RM), NEW i \in Nat, Others(r, g, i) = {}
    PROVE  \A k \in 1 .. Len(g) : k < i \/ g[k] = r
<1>1. Len(g) \in Nat /\ DOMAIN g = 1 .. Len(g)
  BY LenProperties
<1> QED
  BY <1>1 DEF Others

(* Thread [p][r] sends req to q, at position j of its loop.                *)
Sends(p, r, f, j, q, req) ==
    /\ Calls(p, r, q)
    /\ Has(thread'[p][r], f.pc, j, f.vec, f.res)
    /\ thread'[r][q] = req

LEMMA SendShape ==
    ASSUME TypeOK, AllUp, NEW p \in Proc, NEW r \in RM, NEW f, Ready(p, r, f),
           f.pc \in {"send", "fwd"}, NEW q \in RM, q # r, NEW j, NEW req,
           Send(p, r, q, [f EXCEPT !.i = j], req),
           req # Idle, req.wait = NoRM, req.op \in {"create", f.op}
    PROVE  Sends(p, r, f, j, q, req)
<1> DEFINE h == [f EXCEPT !.i = j, !.wait = q]
<1>1. CanCall(r, q) /\ r \in Proc
  BY Reachable DEF Proc
<1>2. thread[r][q] = Idle /\ thread' = [thread EXCEPT ![p][r] = h, ![r][q] = req]
  <2>1. [[f EXCEPT !.i = j] EXCEPT !.wait = q] = h
    BY DEF Ready, Frame
  <2> QED
    BY <1>1, <2>1 DEF Send
<1>3. /\ Has(h, f.pc, j, f.vec, f.res) /\ h.wait = q /\ h.pc = f.pc
      /\ SameRequest(f, h)
  <2>1. h.op = f.op /\ h.name = f.name /\ h.pc = f.pc /\ h.wait = q
    BY DEF Ready, Frame
  <2>2. h.val = f.val /\ h.fromFrontEnd = f.fromFrontEnd
    BY DEF Ready, Frame
  <2>3. h.i = j /\ h.vec = f.vec /\ h.res = f.res
    BY DEF Ready, Frame
  <2>4. h # Idle
    BY <2>1 DEF Idle
  <2> QED
    BY <2>1, <2>2, <2>3, <2>4, Zenon DEF Has, SameRequest
<1> HIDE DEF h
<1>4. \A t \in Proc, u \in RM :
        thread'[t][u] = IF t = r /\ u = q THEN req
                        ELSE IF t = p /\ u = r THEN h ELSE thread[t][u]
  BY <1>1, <1>2 DEF TypeOK
<1>5. thread'[p][r] = h /\ thread'[r][q] = req
  BY <1>1, <1>4
<1>6. \A t \in Proc, u \in RM :
        <<t, u>> \notin {<<p, r>>, <<r, q>>} => thread'[t][u] = thread[t][u]
  BY <1>4
<1> QED
  BY <1>1, <1>2, <1>3, <1>5, <1>6, Zenon DEF Sends, Calls, Ready

LEMMA SendCreateShape ==
    ASSUME ManagerAssumption, TypeOK, AllUp, NEW p \in Proc, NEW r \in RM,
           NEW f, Ready(p, r, f), Sound(r, f), SendCreate(p, r)
    PROVE  LET g == groupMap[r][f.name] IN
           /\ f.pc = "send" /\ Same /\ g \in Seq(RM)
           /\ \E j \in 1 .. Len(g) :
                /\ IsNext(r, g, f.i, j) /\ g[j] \in RM
                /\ Sends(p, r, f, j, g[j], Request("create", f.name, machines[r][f.name], g, FALSE))
<1> DEFINE g == groupMap[r][f.name]
           j == NextOther(r, g, f.i)
           req == Request("create", f.name, machines[r][f.name], g, FALSE)
<1>1. f.name \in Name /\ f.pc = "send" /\ f.i \in Nat /\ g \in Seq(RM)
  BY DEF SendCreate, At, Ready, Frame, Sound
<1>2. Group(r, f.name) = g
  BY <1>1, ListIsThere
<1>3. Others(r, g, f.i) # {} /\ Send(p, r, g[j], [f EXCEPT !.i = j], req)
  BY <1>2, Zenon DEF SendCreate, Ready
<1>4. IsNext(r, g, f.i, j)
  BY <1>1, <1>3, NextIs
<1>5. req # Idle /\ req.wait = NoRM /\ req.op = "create"
  BY DEF Request, Idle
<1>6. Same
  BY SameWhenUnchanged DEF SendCreate
<1> HIDE DEF j, req
<1>7. j \in 1 .. Len(g) /\ g[j] \in RM /\ g[j] # r
  BY <1>1, <1>4, ElementOfSeq DEF IsNext
<1>8. Sends(p, r, f, j, g[j], req)
  BY <1>1, <1>3, <1>5, <1>7, SendShape
<1>9. req = Request("create", f.name, machines[r][f.name], g, FALSE)
  BY DEF req
<1> HIDE DEF g
<1>10. \E k \in 1 .. Len(g) :
         /\ IsNext(r, g, f.i, k) /\ g[k] \in RM
         /\ Sends(p, r, f, k, g[k], Request("create", f.name, machines[r][f.name], g, FALSE))
  BY <1>4, <1>7, <1>8, <1>9, Zenon
<1> QED
  BY <1>1, <1>6, <1>10, Zenon DEF g

LEMMA SendEndShape ==
    ASSUME ManagerAssumption, TypeOK, NEW p \in Proc, NEW r \in RM,
           NEW f, Ready(p, r, f), Sound(r, f), SendEnd(p, r)
    PROVE  LET g == groupMap[r][f.name] IN
           /\ f.pc = "send" /\ Same /\ \A k \in 1 .. Len(g) : k < f.i \/ g[k] = r
           /\ Goes(p, r, IF f.op # "apply" THEN "reply"
                         ELSE IF f.fromFrontEnd THEN "fwdlock" ELSE "local", 0, f.vec, f.res)
<1> DEFINE g == groupMap[r][f.name]
           pc == IF f.op # "apply" THEN "reply"
                 ELSE IF f.fromFrontEnd THEN "fwdlock" ELSE "local"
<1>1. f.name \in Name /\ f.pc = "send" /\ f.i \in Nat /\ g \in Seq(RM)
  BY DEF SendEnd, At, Ready, Frame, Sound
<1>2. Group(r, f.name) = g
  BY <1>1, ListIsThere
<1>3. Others(r, g, f.i) = {} /\ SetGroup(r, f.name, g) /\ UNCHANGED machines
  BY <1>2, Zenon DEF SendEnd, Ready
<1>4. Same
  BY <1>1, <1>3, SetsNewList
<1>5. \A k \in 1 .. Len(g) : k < f.i \/ g[k] = r
  BY <1>1, <1>3, NoneLeft
<1>6. Goto(p, r, [f EXCEPT !.i = 0, !.pc = pc])
  BY Zenon DEF SendEnd, Ready
<1> HIDE DEF pc
<1>7. Goes(p, r, pc, 0, f.vec, f.res)
  BY <1>6, GoesOnward, Zenon DEF Ready
<1> QED
  BY <1>1, <1>4, <1>5, <1>7, Zenon DEF pc

LEMMA ForwardLockShape ==
    ASSUME ManagerAssumption, TypeOK, NEW p \in Proc, NEW r \in RM,
           NEW f, Ready(p, r, f), groupMap[r][f.name] \in Seq(RM), ForwardLock(p, r)
    PROVE  /\ f.pc = "fwdlock" /\ Same
           /\ Goes(p, r, "fwd", 1, groupMap[r][f.name], f.res)
<1> DEFINE g == groupMap[r][f.name]
<1>1. f.name \in Name /\ f.pc = "fwdlock" /\ g \in Seq(RM)
  BY DEF ForwardLock, At, Ready, Frame
<1>2. Group(r, f.name) = g
  BY <1>1, ListIsThere
<1>3. SetGroup(r, f.name, g) /\ UNCHANGED machines
  BY <1>2, Zenon DEF ForwardLock, Ready
<1>4. Same
  BY <1>1, <1>3, SetsNewList
<1>5. Goto(p, r, [f EXCEPT !.pc = "fwd", !.i = 1, !.vec = g])
  BY <1>2, Zenon DEF ForwardLock, Ready
<1> QED
  BY <1>1, <1>4, <1>5, GoesOnward, Zenon DEF Ready

LEMMA ForwardShape ==
    ASSUME ManagerAssumption, TypeOK, AllUp, NEW p \in Proc, NEW r \in RM,
           NEW f, Ready(p, r, f), Sound(r, f), Forward(p, r)
    PROVE  /\ f.pc = "fwd" /\ Same
           /\ \E j \in 1 .. Len(f.vec) :
                /\ IsNext(r, f.vec, f.i, j) /\ f.vec[j] \in RM
                /\ Sends(p, r, f, j, f.vec[j], Request(f.op, f.name, f.val, <<>>, FALSE))
<1> DEFINE j == NextOther(r, f.vec, f.i)
           req == Request(f.op, f.name, f.val, <<>>, FALSE)
<1>1. f.pc = "fwd" /\ f.i \in Nat /\ f.vec \in Seq(RM)
  BY DEF Forward, At, Ready, Frame, Sound
<1>2. Others(r, f.vec, f.i) # {} /\ Send(p, r, f.vec[j], [f EXCEPT !.i = j], req)
  BY Zenon DEF Forward, Ready
<1>3. IsNext(r, f.vec, f.i, j)
  BY <1>1, <1>2, NextIs
<1>4. req # Idle /\ req.wait = NoRM /\ req.op = f.op
  BY DEF Request, Idle
<1>5. Same
  BY SameWhenUnchanged DEF Forward
<1> HIDE DEF j, req
<1>6. j \in 1 .. Len(f.vec) /\ f.vec[j] \in RM /\ f.vec[j] # r
  BY <1>1, <1>3, ElementOfSeq DEF IsNext
<1>7. Sends(p, r, f, j, f.vec[j], req)
  BY <1>1, <1>2, <1>4, <1>6, SendShape
<1> QED
  BY <1>1, <1>3, <1>5, <1>6, <1>7, Zenon DEF req

LEMMA ForwardEndShape ==
    ASSUME TypeOK, NEW p \in Proc, NEW r \in RM,
           NEW f, Ready(p, r, f), Sound(r, f), ForwardEnd(p, r)
    PROVE  /\ f.pc = "fwd" /\ Same /\ \A k \in 1 .. Len(f.vec) : k < f.i \/ f.vec[k] = r
           /\ Goes(p, r, IF f.op = "apply" THEN "local" ELSE "lock", 0, <<>>, f.res)
<1> DEFINE pc == IF f.op = "apply" THEN "local" ELSE "lock"
<1>1. f.pc = "fwd" /\ f.i \in Nat /\ f.vec \in Seq(RM)
  BY DEF ForwardEnd, At, Ready, Frame, Sound
<1>2. \A k \in 1 .. Len(f.vec) : k < f.i \/ f.vec[k] = r
  <2>1. Others(r, f.vec, f.i) = {}
    BY DEF ForwardEnd, Ready
  <2> QED
    BY <1>1, <2>1, NoneLeft
<1>3. UNCHANGED <<machines, groupMap>> /\ Goto(p, r, [f EXCEPT !.i = 0, !.vec = <<>>, !.pc = pc])
  BY Zenon DEF ForwardEnd, Ready
<1> HIDE DEF pc
<1>4. Goes(p, r, pc, 0, <<>>, f.res)
  BY <1>3, GoesOnward, Zenon DEF Ready
<1> QED
  BY <1>1, <1>2, <1>3, <1>4, SameWhenUnchanged, Zenon DEF pc

LEMMA ApplyLocalShape ==
    ASSUME TypeOK, NEW p \in Proc, NEW r \in RM, NEW f, Ready(p, r, f), ApplyLocal(p, r)
    PROVE  LET s == Apply(machines[r][f.name], f.val) IN
           f.pc = "local" /\ SetsMachine(r, f.name, s) /\ Goes(p, r, "unlock", f.i, f.vec, s)
<1> DEFINE s == Apply(machines[r][f.name], f.val)
<1>1. f.pc = "local" /\ f.name \in Name
  BY DEF ApplyLocal, At, Ready, Frame
<1>2. /\ machines' = [machines EXCEPT ![r][f.name] = s] /\ UNCHANGED groupMap
      /\ Goto(p, r, [f EXCEPT !.pc = "unlock", !.res = s])
  BY Zenon DEF ApplyLocal, Ready
<1> HIDE DEF s
<1>3. SetsMachine(r, f.name, s) /\ Goes(p, r, "unlock", f.i, f.vec, s)
  BY <1>1, <1>2, SetsNewMachine, GoesOnward, Zenon DEF Ready
<1> QED
  BY <1>1, <1>3 DEF s

LEMMA UnlockShape ==
    ASSUME TypeOK, NEW p \in Proc, NEW r \in RM, NEW f, Ready(p, r, f), Unlock(p, r)
    PROVE  f.pc = "unlock" /\ Same /\ Goes(p, r, "reply", f.i, f.vec, f.res)
<1>1. /\ f.pc = "unlock" /\ UNCHANGED <<machines, groupMap>>
      /\ Goto(p, r, [f EXCEPT !.pc = "reply"])
  BY Zenon DEF Unlock, At, Ready
<1> QED
  BY <1>1, SameWhenUnchanged, GoesOnward, Zenon DEF Ready

LEMMA EraseShape ==
    ASSUME TypeOK, NEW p \in Proc, NEW r \in RM, NEW f, Ready(p, r, f), Erase(p, r)
    PROVE  /\ f.pc = "erase" /\ SetsMachine(r, f.name, Nil)
           /\ Goes(p, r, "eraseGroup", f.i, f.vec, f.res)
<1>1. f.name \in Name
  BY DEF Ready, Frame
<1>2. /\ f.pc = "erase" /\ UNCHANGED groupMap
      /\ machines' = [machines EXCEPT ![r][f.name] = Nil]
      /\ Goto(p, r, [f EXCEPT !.pc = "eraseGroup"])
  BY Zenon DEF Erase, At, Ready
<1> QED
  BY <1>1, <1>2, SetsNewMachine, GoesOnward, Zenon DEF Ready

LEMMA EraseGroupShape ==
    ASSUME TypeOK, NEW p \in Proc, NEW r \in RM, NEW f, Ready(p, r, f), EraseGroup(p, r)
    PROVE  /\ f.pc = "eraseGroup" /\ SetsList(r, f.name, Nil)
           /\ Goes(p, r, "reply", f.i, f.vec, f.res)
<1>1. f.name \in Name
  BY DEF Ready, Frame
<1>2. /\ f.pc = "eraseGroup" /\ UNCHANGED machines /\ SetGroup(r, f.name, Nil)
      /\ Goto(p, r, [f EXCEPT !.pc = "reply"])
  BY Zenon DEF EraseGroup, At, Ready
<1> QED
  BY <1>1, <1>2, SetsNewList, GoesOnward, Zenon DEF Ready

(* Where the handlers take their steps.                                    *)
LEMMA StepAt ==
    ASSUME NEW p \in Proc, NEW r \in RM, NEW f, Ready(p, r, f)
    PROVE  /\ CreateExists(p, r) => f.pc = "exists"
           /\ CreateDup(p, r) => f.pc = "dup"
           /\ CheckExists(p, r) => f.pc = "check"
           /\ Read(p, r) => f.pc = "read"
           /\ Lock(p, r) => f.pc = "lock"
           /\ Insert(p, r) => f.pc = "insert"
           /\ InsertGroup(p, r) => f.pc = "group"
           /\ Prune(p, r) \/ PruneEnd(p, r) => f.pc = "prune"
           /\ Select(p, r) => f.pc = "select"
           /\ SendCreate(p, r) \/ SendEnd(p, r) => f.pc = "send"
           /\ ForwardLock(p, r) => f.pc = "fwdlock"
           /\ Forward(p, r) \/ ForwardEnd(p, r) => f.pc = "fwd"
           /\ ApplyLocal(p, r) => f.pc = "local"
           /\ Unlock(p, r) => f.pc = "unlock"
           /\ Erase(p, r) => f.pc = "erase"
           /\ EraseGroup(p, r) => f.pc = "eraseGroup"
BY Zenon DEF Ready, At, CreateExists, CreateDup, CheckExists, Read, Lock, Insert, InsertGroup,
   Prune, PruneEnd, Select, SendCreate, SendEnd, ForwardLock, Forward, ForwardEnd, ApplyLocal,
   Unlock, Erase, EraseGroup
=============================================================================
