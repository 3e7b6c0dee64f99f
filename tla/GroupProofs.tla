----------------------------- MODULE GroupProofs -----------------------------
(***************************************************************************)
(* The copies of a machine and its group, with one client and as long as   *)
(* no manager fails.  All that happens is then one request, with the       *)
(* requests that its handlers send, one inside the other; what the         *)
(* managers hold is given by where the client's request is, and where the  *)
(* request is that its handler has sent.                                   *)
(***************************************************************************)
EXTENDS PathProofs, FiniteSetTheorems

-----------------------------------------------------------------------------
(* What the managers hold of machine n                                     *)

Copy(q, n, v, g) == machines[q][n] = v /\ groupMap[q][n] = g
Empty(q, n) == Copy(q, n, Nil, Nil)
NoCopy(n) == \A q \in RM : Empty(q, n)
OnlyAt(r, n) == \A q \in RM : q # r => Empty(q, n)

(* Three different managers.                                               *)
IsGroup(g) ==
    /\ g \in Seq(RM) /\ Len(g) = GroupSize
    /\ \A j, k \in 1 .. GroupSize : g[j] = g[k] => j = k

(* The machine as it is between requests: at a group with r, or nowhere.   *)
Grouped(r, n) ==
    LET g == groupMap[r][n]
        v == machines[r][n]
    IN  /\ IsGroup(g) /\ r \in ToSet(g) /\ v \in Value
        /\ \A q \in RM : IF q \in ToSet(g) THEN Copy(q, n, v, g) ELSE Empty(q, n)
Consistent(n) == NoCopy(n) \/ \E r \in RM : Grouped(r, n)

-----------------------------------------------------------------------------
(* Where the client's request is, which r serves in state f                *)

(* A backup q that has inserted the machine, and not yet the list.         *)
Inserted(q, n, v) == Copy(q, n, v, Nil) /\ \E p \in RM : thread[p][q].pc = "group"

(* r spreads machine and list over the group g, and is at position i.      *)
Spreading(r, n, v, g, i) ==
    /\ IsGroup(g) /\ r \in ToSet(g) /\ Copy(r, n, v, g)
    /\ \A q \in RM :
          \/ Empty(q, n)
          \/ q \in ToSet(g) /\ (Copy(q, n, v, g) \/ Inserted(q, n, v))
    /\ \A j \in 1 .. GroupSize : j < i => Copy(g[j], n, v, g)

(* A list with r and perhaps a second manager.                             *)
Partial(r, g) ==
    /\ g \in Seq(RM) /\ Len(g) \in {1, 2} /\ g[1] = r
    /\ Len(g) = 2 => g[2] # r

Creating(r, f) ==
    LET n == f.name
        g == groupMap[r][n]
    IN
    /\ f.val \in Value /\ f.vec = <<r>> /\ f.res = Nil
    /\ f.pc \in {"exists", "error", "lock", "insert", "group", "prune", "select", "send", "reply"}
    /\ f.pc \in {"exists", "error"} => Consistent(n)
    /\ f.pc \in {"lock", "insert"} => NoCopy(n)
    /\ f.pc \in {"group", "prune", "select"} => OnlyAt(r, n)
    /\ f.pc = "group" => Copy(r, n, f.val, Nil)
    /\ f.pc \in {"insert", "group", "prune"} => f.i = 1
    /\ f.pc = "prune" => Copy(r, n, f.val, <<r>>)
    /\ f.pc = "select" => machines[r][n] = f.val /\ Partial(r, g)
    /\ f.pc = "send" => Spreading(r, n, f.val, g, f.i) /\ (f.wait # NoRM => g[f.i] = f.wait)
    /\ f.pc = "reply" => Grouped(r, n)

Reading(r, f) ==
    /\ f.pc \in {"check", "error", "read", "lock", "prune", "send", "reply"}
    /\ f.pc \in {"check", "error", "read"} => f.res = Nil
    /\ IF f.pc \in {"check", "error"} THEN Consistent(f.name) ELSE Grouped(r, f.name)
    /\ f.pc = "prune" => f.i = 1

(* How far member j of the group is, while the request is repeated to it.  *)
Stage(r, f, j) ==
    IF f.vec[j] = r THEN "check"
    ELSE IF j < f.i THEN "reply"
    ELSE IF j = f.i /\ f.wait # NoRM THEN thread[r][f.vec[j]].pc
    ELSE "check"

Backup(q, f, v, k) ==
    LET n == f.name IN
    IF f.op = "apply"
    THEN Copy(q, n, IF k \in {"unlock", "reply"} THEN Apply(v, f.val) ELSE v, f.vec)
    ELSE IF k = "reply" THEN Empty(q, n)
         ELSE Copy(q, n, IF k = "eraseGroup" THEN Nil ELSE v, f.vec)

Forwarding(r, f) ==
    LET n == f.name
        v == machines[r][n]
    IN  /\ IsGroup(f.vec) /\ r \in ToSet(f.vec) /\ v \in Value /\ f.i \in Nat \ {0}
        /\ \A q \in RM : q \notin ToSet(f.vec) => Empty(q, n)
        /\ \A j \in 1 .. GroupSize : Backup(f.vec[j], f, v, Stage(r, f, j))
        /\ f.wait # NoRM =>
              /\ f.i \in 1 .. GroupSize /\ f.vec[f.i] = f.wait /\ f.wait # r
              /\ thread[r][f.wait].op = f.op

(* Every backup has applied the operation.                                 *)
Forwarded(r, f) ==
    LET n == f.name
        g == groupMap[r][n]
        v == machines[r][n]
    IN  /\ IsGroup(g) /\ r \in ToSet(g) /\ v \in Value
        /\ \A q \in RM :
              IF q \in ToSet(g) THEN Copy(q, n, IF q = r THEN v ELSE Apply(v, f.val), g)
              ELSE Empty(q, n)

Applying(r, f) ==
    LET n == f.name IN
    /\ f.val \in Value
    /\ f.pc \in {"check", "error", "lock", "prune", "send", "fwdlock", "fwd", "local", "unlock", "reply"}
    /\ f.pc \notin {"unlock", "reply"} => f.res = Nil
    /\ f.pc \in {"check", "error"} => Consistent(n)
    /\ f.pc \in {"lock", "prune", "send", "fwdlock", "unlock", "reply"} => Grouped(r, n)
    /\ f.pc = "prune" => f.i = 1
    /\ f.pc = "fwd" => Forwarding(r, f)
    /\ f.pc = "local" => Forwarded(r, f)
    /\ f.pc \in {"unlock", "reply"} => f.res = machines[r][n]

Removing(r, f) ==
    LET n == f.name IN
    /\ f.pc \in {"check", "error", "fwdlock", "fwd", "lock", "erase", "eraseGroup", "reply"}
    /\ f.res = Nil
    /\ f.pc \in {"check", "error"} => Consistent(n)
    /\ f.pc = "fwdlock" => Grouped(r, n)
    /\ f.pc = "fwd" => Forwarding(r, f)
    /\ f.pc \in {"lock", "erase", "eraseGroup"} => OnlyAt(r, n)
    /\ f.pc \in {"lock", "erase"} => machines[r][n] # Nil
    /\ f.pc = "eraseGroup" => machines[r][n] = Nil
    /\ f.pc = "reply" => NoCopy(n)

Primary(r, f) ==
    /\ f.fromFrontEnd
    /\ f.op = "create" => Creating(r, f)
    /\ f.op = "getState" => Reading(r, f)
    /\ f.op = "apply" => Applying(r, f)
    /\ f.op = "remove" => Removing(r, f)

-----------------------------------------------------------------------------
(* Where a request is that a handler has sent: r serves it in state h, and *)
(* k, which serves the client in state f, waits                            *)

BackupCreate(k, f, r, h) ==
    LET n == f.name IN
    /\ f.op # "remove" /\ f.pc \in {"send", "fwd"}
    /\ h.vec = groupMap[k][n] /\ r \in ToSet(h.vec)
    /\ h.pc \in {"dup", "error", "lock", "insert", "group", "prune", "send", "reply"}
    /\ f.op # "create" => h.pc \in {"dup", "error"}
    /\ f.op = "create" => h.val = f.val
    /\ h.pc \in {"lock", "insert"} => Empty(r, n)
    /\ h.pc = "group" => Copy(r, n, h.val, Nil)
    /\ h.pc \in {"prune", "send", "reply", "error"} =>
          machines[r][n] # Nil /\ groupMap[r][n] = h.vec
    /\ h.pc \in {"insert", "group", "prune"} => h.i = 1

BackupRepeat(k, f, p, r, h) ==
    /\ h.op = f.op /\ h.val = f.val /\ p = k /\ f.pc = "fwd" /\ f.wait = r
    /\ IF f.op = "apply"
       THEN h.pc \in {"check", "lock", "prune", "send", "local", "unlock", "reply"}
       ELSE h.pc \in {"check", "lock", "erase", "eraseGroup", "reply"}
    /\ h.pc = "prune" => h.i = 1

Secondary(k, f, p, r, h) ==
    /\ ~h.fromFrontEnd /\ h.name = f.name
    /\ h.op = "create" => BackupCreate(k, f, r, h)
    /\ h.op # "create" => BackupRepeat(k, f, p, r, h)

Busy(c, k) ==
    LET f == thread[c][k] IN
    /\ \A n \in Name : n # f.name => Consistent(n)
    /\ Primary(k, f)
    /\ \A p, r \in RM : thread[p][r] # Idle => Secondary(k, f, p, r, thread[p][r])

Data(c) ==
    /\ Quiet => \A n \in Name : Consistent(n)
    /\ \A k \in RM : thread[c][k] # Idle => Busy(c, k)

GroupInv(c) == AllUp /\ (\E s \in Seq(RM) : Path(c, s)) /\ Data(c)

-----------------------------------------------------------------------------
(* Groups                                                                  *)

LEMMA GroupMembers ==
    ASSUME ManagerAssumption, NEW g, IsGroup(g)
    PROVE  /\ g # Nil /\ g # <<>> /\ Len(g) = 3 /\ ToSet(g) \subseteq RM
           /\ \A j \in 1 .. 3 : g[j] \in RM /\ g[j] \in ToSet(g)
           /\ \A e \in ToSet(g) : \E j \in 1 .. 3 : g[j] = e
<1>1. g \in Seq(RM) /\ Len(g) = 3
  BY DEF IsGroup, GroupSize
<1>2. DOMAIN g = 1 .. 3 /\ \A j \in 1 .. 3 : g[j] \in RM
  BY <1>1, LenProperties, ElementOfSeq
<1>3. g \in Seq(Id)
  BY <1>1, SeqMonotonic DEF Id
<1>4. g # Nil
  BY <1>3, ListIsSomething
<1>5. g # <<>>
  BY <1>1
<1> QED
  BY <1>1, <1>2, <1>4, <1>5 DEF ToSet

LEMMA GroupedCopies ==
    ASSUME ManagerAssumption, NEW r \in RM, NEW n \in Name, Grouped(r, n)
    PROVE  LET g == groupMap[r][n]
               v == machines[r][n]
           IN  /\ IsGroup(g) /\ g # Nil /\ v \in Value /\ v # Nil
               /\ \A q \in RM :
                    /\ machines[q][n] # Nil <=> q \in ToSet(g)
                    /\ q \in ToSet(g) => machines[q][n] = v /\ groupMap[q][n] = g
                    /\ q \notin ToSet(g) => machines[q][n] = Nil /\ groupMap[q][n] = Nil
<1>1. Nil \notin Value
  BY DEF ManagerAssumption
<1> QED
  BY <1>1, GroupMembers DEF Grouped, Copy, Empty

(* Every host of the machine could be asked for its group.                 *)
LEMMA GroupedHost ==
    ASSUME ManagerAssumption, NEW r \in RM, NEW n \in Name, Grouped(r, n),
           NEW q \in RM, machines[q][n] # Nil
    PROVE  Grouped(q, n)
<1>1. machines[q][n] = machines[r][n] /\ groupMap[q][n] = groupMap[r][n]
      /\ q \in ToSet(groupMap[r][n])
  BY GroupedCopies
<1> QED
  BY <1>1 DEF Grouped

LEMMA ConsistentHost ==
    ASSUME ManagerAssumption, NEW n \in Name, Consistent(n), NEW q \in RM, machines[q][n] # Nil
    PROVE  Grouped(q, n)
BY GroupedHost DEF Consistent, NoCopy, Empty, Copy

LEMMA ConsistentNone ==
    ASSUME ManagerAssumption, NEW n \in Name, Consistent(n), \A q \in RM : machines[q][n] = Nil
    PROVE  NoCopy(n)
<1>1. ASSUME NEW r \in RM, Grouped(r, n)
      PROVE  FALSE
  BY <1>1, GroupedCopies
<1> QED
  BY <1>1 DEF Consistent

(* What is said of a machine that no step has touched stays true.          *)
Elsewhere(n) ==
    \A q \in RM, m \in Name : m # n =>
        machines'[q][m] = machines[q][m] /\ groupMap'[q][m] = groupMap[q][m]

LEMMA CopiesStay ==
    ASSUME NEW n \in Name,
           \A q \in RM : machines'[q][n] = machines[q][n] /\ groupMap'[q][n] = groupMap[q][n]
    PROVE  /\ NoCopy(n) => NoCopy(n)'
           /\ \A r \in RM : Grouped(r, n) => Grouped(r, n)'
           /\ \A r \in RM : OnlyAt(r, n) => OnlyAt(r, n)'
           /\ Consistent(n) => Consistent(n)'
<1>1. NoCopy(n) => NoCopy(n)'
  BY DEF NoCopy, Empty, Copy
<1>2. \A r \in RM : Grouped(r, n) => Grouped(r, n)'
  BY DEF Grouped, Empty, Copy
<1>3. \A r \in RM : OnlyAt(r, n) => OnlyAt(r, n)'
  BY DEF OnlyAt, Empty, Copy
<1> QED
  BY <1>1, <1>2, <1>3 DEF Consistent

LEMMA ElsewhereStays ==
    ASSUME NEW n \in Name, Elsewhere(n), NEW m \in Name, m # n, Consistent(m)
    PROVE  Consistent(m)'
BY CopiesStay DEF Elsewhere

LEMMA OnlyThere ==
    ASSUME NEW r \in RM, NEW n \in Name, NEW v, Same \/ SetsMachine(r, n, v) \/ SetsList(r, n, v)
    PROVE  Elsewhere(n)
BY DEF Same, SetsMachine, SetsList, Elsewhere

LEMMA SameStays ==
    ASSUME NEW n \in Name, Same
    PROVE  /\ \A q \in RM : machines'[q][n] = machines[q][n] /\ groupMap'[q][n] = groupMap[q][n]
           /\ NoCopy(n) => NoCopy(n)'
           /\ \A r \in RM : Grouped(r, n) => Grouped(r, n)'
           /\ \A r \in RM : OnlyAt(r, n) => OnlyAt(r, n)'
           /\ Consistent(n) => Consistent(n)'
           /\ Elsewhere(n)
BY CopiesStay DEF Same, Elsewhere

-----------------------------------------------------------------------------
(* What a request can rely on                                              *)

LEMMA MembersHold ==
    ASSUME ManagerAssumption, NEW k \in RM, NEW f \in Frame, Primary(k, f),
           f.op # "remove", f.pc \in {"send", "fwd"}
    PROVE  LET n == f.name
               g == groupMap[k][n]
               v == machines[k][n]
           IN  /\ IsGroup(g) /\ k \in ToSet(g) /\ v \in Value
               /\ f.op = "create" => f.pc = "send" /\ v = f.val /\ Spreading(k, n, v, g, f.i)
               /\ f.op # "create" =>
                    \A q \in ToSet(g) : machines[q][n] \in Value /\ groupMap[q][n] = g
               /\ f.pc = "fwd" => f.op = "apply" /\ g = f.vec /\ Forwarding(k, f)
<1> DEFINE n == f.name
           g == groupMap[k][n]
           v == machines[k][n]
<1>0. n \in Name /\ f.op \in Op
  BY DEF Frame
<1>1. CASE f.op = "create"
  <2>1. f.pc = "send" /\ Spreading(k, n, f.val, g, f.i) /\ f.val \in Value
    BY <1>1 DEF Primary, Creating
  <2> QED
    BY <1>1, <2>1 DEF Spreading, Copy
<1>2. CASE f.op \in {"getState", "apply"} /\ f.pc = "send"
  <2>1. Grouped(k, n)
    BY <1>2 DEF Primary, Reading, Applying
  <2>2. ToSet(g) \subseteq RM
    BY <2>1, GroupMembers DEF Grouped
  <2> QED
    BY <1>0, <1>2, <2>1, <2>2, GroupedCopies DEF Grouped
<1>3. CASE f.op \in {"getState", "apply"} /\ f.pc = "fwd"
  <2>1. f.op = "apply" /\ Forwarding(k, f) /\ f.val \in Value
    BY <1>3 DEF Primary, Reading, Applying
  <2>2. IsGroup(f.vec) /\ k \in ToSet(f.vec) /\ v \in Value
        /\ \A j \in 1 .. 3 : Backup(f.vec[j], f, v, Stage(k, f, j))
    BY <2>1 DEF Forwarding, GroupSize
  <2>3. Apply(v, f.val) \in Value
    BY <2>1, <2>2 DEF ManagerAssumption
  <2>4. \A q \in ToSet(f.vec) : machines[q][n] \in Value /\ groupMap[q][n] = f.vec
    BY <2>1, <2>2, <2>3, GroupMembers DEF Backup, Copy
  <2> QED
    BY <1>3, <2>1, <2>2, <2>4
<1> QED
  BY <1>0, <1>1, <1>2, <1>3 DEF Op

LEMMA PrimarySound ==
    ASSUME ManagerAssumption, NEW k \in RM, NEW f \in Frame, Primary(k, f)
    PROVE  Sound(k, f)
<1> DEFINE n == f.name
           g == groupMap[k][n]
<1>0. n \in Name /\ f.op \in Op /\ Nil \notin Value
  BY DEF Frame, ManagerAssumption
<1>1. Grouped(k, n) => machines[k][n] # Nil /\ g \in Seq(RM) /\ g # <<>>
  BY <1>0, GroupedCopies, GroupMembers DEF IsGroup
<1>2. CASE f.op = "create"
  <2>1. f.pc = "send" => machines[k][n] # Nil /\ g \in Seq(RM)
    BY <1>0, <1>2 DEF Primary, Creating, Spreading, Copy, IsGroup
  <2>2. /\ f.pc = "prune" => g = <<k>>
        /\ f.pc = "select" => Partial(k, g)
    BY <1>2 DEF Primary, Creating, Copy
  <2>5. Partial(k, g) => g \in Seq(RM) /\ g # <<>>
    BY DEF Partial
  <2>6. <<k>> \in Seq(RM) /\ <<k>> # <<>>
    OBVIOUS
  <2>3. f.pc = "prune" => f.i = 1
    BY <1>2 DEF Primary, Creating
  <2>4. f.pc \notin {"read", "local", "fwd"}
    BY <1>2 DEF Primary, Creating
  <2> QED
    BY <2>1, <2>2, <2>3, <2>4, <2>5, <2>6 DEF Sound
<1>3. CASE f.op = "getState"
  BY <1>1, <1>3 DEF Primary, Reading, Sound
<1>4. CASE f.op = "apply"
  <2>1. f.pc = "local" => machines[k][n] # Nil
    BY <1>0, <1>4 DEF Primary, Applying, Forwarded
  <2>2. f.pc = "fwd" => f.vec \in Seq(RM)
    BY <1>4 DEF Primary, Applying, Forwarding, IsGroup
  <2> QED
    BY <1>1, <1>4, <2>1, <2>2 DEF Primary, Applying, Sound
<1>5. CASE f.op = "remove"
  <2>1. f.pc = "fwd" => f.vec \in Seq(RM)
    BY <1>5 DEF Primary, Removing, Forwarding, IsGroup
  <2> QED
    BY <1>5, <2>1 DEF Primary, Removing, Sound
<1> QED
  BY <1>0, <1>2, <1>3, <1>4, <1>5 DEF Op

(* The member of the group that is asked to repeat the request.            *)
LEMMA RepeatIsForwarded ==
    ASSUME ReplicasAssumption, ManagerAssumption, NEW k \in RM, NEW f \in Frame, Primary(k, f),
           NEW p \in RM, NEW r \in RM, NEW h \in Frame, h = thread[p][r],
           Secondary(k, f, p, r, h), h.op # "create"
    PROVE  LET v == machines[k][f.name] IN
           /\ p = k /\ r # k /\ f.wait = r /\ f.pc = "fwd" /\ h.op = f.op /\ h.name = f.name
           /\ Forwarding(k, f) /\ f.i \in 1 .. 3 /\ f.vec[f.i] = r /\ r \in ToSet(f.vec)
           /\ Backup(r, f, v, h.pc) /\ v \in Value
           /\ f.op # "remove" => f.op = "apply" /\ f.val \in Value /\ Apply(v, f.val) \in Value
<1> DEFINE v == machines[k][f.name]
<1>1. /\ p = k /\ f.wait = r /\ f.pc = "fwd" /\ h.op = f.op /\ h.name = f.name
      /\ f.op \in {"apply", "remove"}
  BY DEF Secondary, BackupRepeat, Frame, Op, Primary, Reading
<1>2. NoRM \notin RM
  BY NoRMOut DEF NoRMIsNoManager
<1>3. Forwarding(k, f) /\ (f.op = "apply" => f.val \in Value)
  BY <1>1 DEF Primary, Applying, Removing
<1>4. /\ f.i \in 1 .. 3 /\ f.vec[f.i] = r /\ r # k /\ v \in Value /\ IsGroup(f.vec)
      /\ Backup(f.vec[f.i], f, v, Stage(k, f, f.i))
  BY <1>1, <1>2, <1>3 DEF Forwarding, GroupSize
<1>5. Stage(k, f, f.i) = h.pc
  BY <1>1, <1>2, <1>4 DEF Stage
<1>6. f.op # "remove" => f.op = "apply" /\ f.val \in Value /\ Apply(v, f.val) \in Value
  BY <1>1, <1>3, <1>4 DEF ManagerAssumption
<1> QED
  BY <1>1, <1>3, <1>4, <1>5, <1>6, GroupMembers

LEMMA SecondarySound ==
    ASSUME ReplicasAssumption, ManagerAssumption, NEW k \in RM, NEW f \in Frame, Primary(k, f),
           NEW p \in RM, NEW r \in RM, NEW h \in Frame, h = thread[p][r],
           Secondary(k, f, p, r, h)
    PROVE  /\ Sound(r, h)
           /\ h.pc \in {"prune", "send"} =>
                /\ groupMap[r][h.name] = groupMap[k][h.name] /\ IsGroup(groupMap[r][h.name])
                /\ machines[r][h.name] \in Value
<1> DEFINE n == f.name
           g == groupMap[k][n]
<1>0. Nil \notin Value /\ h.name = n /\ n \in Name
  BY DEF ManagerAssumption, Secondary, Frame
<1>1. CASE h.op = "create"
  <2>1. BackupCreate(k, f, r, h)
    BY <1>1 DEF Secondary
  <2>2. IsGroup(g)
    BY <2>1, MembersHold DEF BackupCreate
  <2>3. h.pc \in {"prune", "send"} => machines[r][n] # Nil /\ groupMap[r][n] = g
    BY <2>1 DEF BackupCreate
  <2>4. g \in Seq(RM) /\ g # <<>> /\ ToSet(g) \subseteq RM
    BY <2>2, GroupMembers DEF IsGroup
  <2>5. ASSUME h.pc \in {"prune", "send"}
        PROVE  machines[r][n] \in Value
    <3>1. r \in ToSet(g) /\ machines[r][n] # Nil
      BY <2>1, <2>5 DEF BackupCreate
    <3>2. CASE f.op = "create"
      <4>1. Spreading(k, n, machines[k][n], g, f.i) /\ machines[k][n] \in Value
        BY <2>1, <3>2, MembersHold DEF BackupCreate
      <4> QED
        BY <3>1, <4>1 DEF Spreading, Empty, Inserted, Copy
    <3>3. CASE f.op # "create"
      BY <2>1, <3>1, <3>3, MembersHold DEF BackupCreate
    <3> QED
      BY <3>2, <3>3
  <2>6. h.pc \notin {"read", "local", "select", "fwd"} /\ (h.pc = "prune" => h.i = 1)
    BY <2>1 DEF BackupCreate
  <2> QED
    BY <1>0, <2>2, <2>3, <2>4, <2>5, <2>6 DEF Sound
<1>2. CASE h.op # "create"
  <2>1. /\ Forwarding(k, f) /\ machines[k][n] \in Value
        /\ Backup(r, f, machines[k][n], h.pc) /\ h.op = f.op
    BY <1>2, RepeatIsForwarded
  <2>2. h.pc = "prune" => h.i = 1
    BY <1>2 DEF Secondary, BackupRepeat
  <2>3. CASE f.op = "apply"
    <3>1. h.pc \in {"check", "lock", "prune", "send", "local", "unlock", "reply"}
      BY <1>2, <2>3 DEF Secondary, BackupRepeat
    <3>2. IsGroup(f.vec) /\ groupMap[k][n] = f.vec
      <4>1. f.pc = "fwd"
        BY <1>2, RepeatIsForwarded
      <4> QED
        BY <2>3, <4>1, MembersHold
    <3>3. h.pc \notin {"unlock", "reply"} => Copy(r, n, machines[k][n], f.vec)
      BY <2>1, <2>3 DEF Backup
    <3>4. f.vec \in Seq(RM) /\ f.vec # <<>>
      BY <3>2, GroupMembers DEF IsGroup
    <3> QED
      BY <1>0, <2>1, <2>2, <3>1, <3>2, <3>3, <3>4 DEF Sound, Copy
  <2>4. CASE f.op # "apply"
    <3>1. h.pc \in {"check", "lock", "erase", "eraseGroup", "reply"}
      BY <1>2, <2>4 DEF Secondary, BackupRepeat
    <3> QED
      BY <3>1 DEF Sound
  <2> QED
    BY <2>3, <2>4
<1> QED
  BY <1>1, <1>2

-----------------------------------------------------------------------------
(* Who serves whom                                                         *)

Calm(c, s) == TypeOK /\ WaitInv /\ AllUp /\ Path(c, s) /\ Data(c)

LEMMA FrameThere ==
    ASSUME TypeOK, NEW p \in Proc, NEW r \in RM, thread[p][r] # Idle
    PROVE  /\ thread[p][r] \in Frame /\ thread[p][r].name \in Name /\ thread[p][r].op \in Op
           /\ thread[p][r].vec \in Seq(Id)
           /\ thread[p][r].val \in Value \cup {Nil} /\ thread[p][r].i \in Nat
BY DEF TypeOK, Frame

(* The client's request.                                                   *)
LEMMA ServesClient ==
    ASSUME ReplicasAssumption, NEW c \in Client, NEW s, Calm(c, s),
           NEW k \in RM, thread[c][k] # Idle
    PROVE  /\ c \in Proc /\ thread[c][k] \in Frame /\ thread[c][k].name \in Name
           /\ Primary(k, thread[c][k]) /\ Busy(c, k)
           /\ \A u \in RM : thread[c][u] # Idle => u = k
<1>1. c \in Proc
  BY DEF Proc
<1>2. \A u \in RM : thread[c][u] # Idle => u = k
  BY <1>1, ClientFirst DEF Calm
<1>3. Busy(c, k)
  BY DEF Calm, Data
<1> QED
  BY <1>1, <1>2, <1>3, FrameThere DEF Busy, Calm

(* While a manager's request is served, the client's handler waits.        *)
LEMMA ServesManager ==
    ASSUME ReplicasAssumption, NEW c \in Client, NEW s, Calm(c, s),
           NEW p \in RM, NEW r \in RM, thread[p][r] # Idle
    PROVE  /\ p \in Proc /\ thread[p][r] \in Frame /\ thread[p][r].name \in Name
           /\ \E k \in RM :
                /\ thread[c][k] # Idle /\ thread[c][k].wait # NoRM
                /\ thread[c][k].pc \in {"send", "fwd"}
                /\ Secondary(k, thread[c][k], p, r, thread[p][r])
<1>1. p \in Proc /\ c \in Proc /\ p # c
  BY DEF Proc, ReplicasAssumption, Id
<1>2. s[1] \in RM /\ thread[c][s[1]] # Idle
  BY <1>1, ClientFirst DEF Calm
<1>3. thread[c][s[1]].wait # NoRM
  BY <1>1, <1>2, ClientRuns DEF Calm
<1>4. thread[c][s[1]].pc \in {"send", "fwd"}
  BY <1>1, <1>2, <1>3 DEF Calm, WaitInv, WaitsAtCall
<1>5. Secondary(s[1], thread[c][s[1]], p, r, thread[p][r])
  BY <1>2 DEF Calm, Data, Busy
<1> QED
  BY <1>1, <1>2, <1>3, <1>4, <1>5, FrameThere DEF Calm

LEMMA AllSound ==
    ASSUME ReplicasAssumption, ManagerAssumption, NEW c \in Client, NEW s, Calm(c, s),
           NEW p \in Proc, NEW r \in RM, thread[p][r] # Idle
    PROVE  Sound(r, thread[p][r])
<1>1. CASE p \in RM
  <2>1. PICK k \in RM : /\ thread[c][k] # Idle
                        /\ Secondary(k, thread[c][k], p, r, thread[p][r])
    BY <1>1, ServesManager
  <2>2. thread[c][k] \in Frame /\ Primary(k, thread[c][k]) /\ thread[p][r] \in Frame
    BY <1>1, <2>1, ServesClient, ServesManager
  <2> QED
    BY <1>1, <2>1, <2>2, SecondarySound
<1>2. CASE p \in Client
  <2>1. p = c
    BY <1>2, ClientFirst DEF Calm
  <2> QED
    BY <2>1, ServesClient, PrimarySound
<1> QED
  BY <1>1, <1>2 DEF Proc

(* Nobody crashes, and no handler ends with an exception it does not catch. *)
LEMMA NobodyFails ==
    ASSUME ReplicasAssumption, ManagerAssumption, NEW c \in Client, NEW s, Calm(c, s),
           NEW p \in Proc, NEW r \in RM
    PROVE  ~Escape(p, r) /\ ~Abort(p, r)
<1>1. CASE thread[p][r] # Idle
  BY <1>1, AllSound, SoundGoesOn DEF Calm
<1>2. CASE thread[p][r] = Idle
  BY <1>2 DEF Idle, Escape, Abort, At, BadIndex, Overrun
<1> QED
  BY <1>1, <1>2

-----------------------------------------------------------------------------
(* The client's handler goes on                                            *)

LEMMA PrimaryGoesOn ==
    ASSUME ReplicasAssumption, NEW c \in Client, NEW s, Calm(c, s), NEW k \in RM,
           NEW f, Ready(c, k, f), f # Idle, Moves(c, k), Elsewhere(f.name),
           NEW h, h = thread'[c][k], Primary(k, h)'
    PROVE  Data(c)'
<1>1. /\ c \in Proc /\ f.name \in Name /\ Busy(c, k)
      /\ \A u \in RM : thread[c][u] # Idle => u = k
  BY ServesClient DEF Ready
<1>2. \A t \in Proc, u \in RM : thread[t][u] # Idle => t = c /\ u = k
  BY ClientRuns DEF Calm, Ready
<1>3. \A t \in Proc, u \in RM : thread'[t][u] # Idle => t = c /\ u = k
  BY <1>2 DEF Moves, Untouched
<1>4. h # Idle /\ h.name = f.name
  BY DEF Moves, SameRequest, Ready
<1>5. \A m \in Name : m # f.name => Consistent(m)'
  BY <1>1, ElsewhereStays DEF Busy, Ready
<1>6. Busy(c, k)'
  <2>1. \A p, r \in RM : thread'[p][r] = Idle
    BY <1>3 DEF Proc, ReplicasAssumption, Id
  <2> QED
    BY <1>4, <1>5, <2>1 DEF Busy
<1>7. ~Quiet'
  BY <1>1, <1>4 DEF Quiet
<1> QED
  BY <1>1, <1>3, <1>6, <1>7 DEF Data

(* create() up to the loop that sends.                                     *)
LEMMA CreatingStep ==
    ASSUME ReplicasAssumption, ManagerAssumption, N >= GroupSize,
           NEW c \in Client, NEW s, Calm(c, s), NEW k \in RM,
           NEW f, Ready(c, k, f), f # Idle, f.op = "create",
           ServerStep(c, k), ~SendCreate(c, k)
    PROVE  Data(c)'
<1> DEFINE n == f.name
           g == groupMap[k][n]
<1> SUFFICES ASSUME NEW h, h = thread'[c][k]
             PROVE  Data(c)'
  OBVIOUS
<1>0. c \in Proc /\ n \in Name /\ Nil \notin Value /\ Primary(k, f) /\ Sound(k, f) /\ f \in Frame
      /\ TypeOK /\ AllUp
  BY ServesClient, PrimarySound DEF Ready, Calm, ManagerAssumption
<1>1. Creating(k, f) /\ f.fromFrontEnd
  BY <1>0 DEF Primary
<1>2. ASSUME Elsewhere(n), Moves(c, k), Creating(k, h)'
      PROVE  Data(c)'
  <2>1. h.op = f.op /\ h.fromFrontEnd = f.fromFrontEnd
    BY <1>2 DEF Moves, SameRequest, Ready
  <2>2. Primary(k, h)'
    BY <1>1, <1>2, <2>1 DEF Primary
  <2> QED
    BY <1>2, <2>2, PrimaryGoesOn
<1>3. ASSUME Moves(c, k)
      PROVE  h.name = n /\ h.val = f.val /\ h.wait = NoRM
  BY <1>3 DEF Moves, SameRequest, Ready
<1>4. CASE CreateExists(c, k)
  <2>1. /\ f.pc = "exists" /\ Same
        /\ IF \A q \in RM : machines[q][n] = Nil
           THEN Goes(c, k, "lock", f.i, f.vec, f.res)
           ELSE Goes(c, k, "error", f.i, f.vec, f.res)
    BY <1>0, <1>4, ExistsShape
  <2>2. Elsewhere(n) /\ Moves(c, k)
    BY <1>0, <2>1, SameStays DEF Goes
  <2>3. Consistent(n)
    BY <1>1, <2>1 DEF Creating
  <2>4. CASE \A q \in RM : machines[q][n] = Nil
    <3>1. Has(h, "lock", f.i, f.vec, f.res) /\ NoCopy(n)'
      BY <1>0, <2>1, <2>3, <2>4, ConsistentNone, SameStays DEF Goes
    <3>2. Creating(k, h)'
      BY <1>1, <1>3, <2>1, <2>2, <3>1 DEF Has, Creating
    <3> QED
      BY <1>2, <2>2, <3>2
  <2>5. CASE ~\A q \in RM : machines[q][n] = Nil
    <3>1. Has(h, "error", f.i, f.vec, f.res) /\ Consistent(n)'
      BY <1>0, <2>1, <2>3, <2>5, SameStays DEF Goes
    <3>2. Creating(k, h)'
      BY <1>1, <1>3, <2>1, <2>2, <3>1 DEF Has, Creating
    <3> QED
      BY <1>2, <2>2, <3>2
  <2> QED
    BY <2>4, <2>5
<1>5. CASE Lock(c, k)
  <2>1. f.pc = "lock" /\ Same /\ Goes(c, k, "insert", 1, f.vec, f.res)
    BY <1>0, <1>5, LockShape
  <2>2. Elsewhere(n) /\ Moves(c, k) /\ NoCopy(n)' /\ Has(h, "insert", 1, f.vec, f.res)
    BY <1>0, <1>1, <2>1, SameStays DEF Goes, Creating
  <2>3. Creating(k, h)'
    BY <1>1, <1>3, <2>1, <2>2 DEF Has, Creating
  <2> QED
    BY <1>2, <2>2, <2>3
<1>6. CASE Insert(c, k)
  <2>1. f.pc = "insert"
    BY <1>0, <1>6, StepAt
  <2>2. NoCopy(n) /\ f.i = 1 /\ f.val \in Value
    BY <1>1, <2>1 DEF Creating
  <2>3. SetsMachine(k, n, f.val) /\ Goes(c, k, "group", 1, f.vec, f.res)
    BY <1>0, <1>6, <2>2, InsertShape DEF NoCopy, Empty, Copy
  <2>4. /\ Elsewhere(n) /\ Moves(c, k) /\ Has(h, "group", 1, f.vec, f.res)
        /\ OnlyAt(k, n)' /\ Copy(k, n, f.val, Nil)'
    <3>1. Elsewhere(n) /\ Moves(c, k) /\ Has(h, "group", 1, f.vec, f.res)
      BY <1>0, <2>3, OnlyThere DEF Goes
    <3>2. OnlyAt(k, n)' /\ Copy(k, n, f.val, Nil)'
      BY <1>0, <2>2, <2>3 DEF SetsMachine, NoCopy, OnlyAt, Empty, Copy
    <3> QED
      BY <3>1, <3>2
  <2>5. Creating(k, h)'
    BY <1>1, <1>3, <2>1, <2>4 DEF Has, Creating
  <2> QED
    BY <1>2, <2>4, <2>5
<1>7. CASE InsertGroup(c, k)
  <2>1. f.pc = "group"
    BY <1>0, <1>7, StepAt
  <2>2. OnlyAt(k, n) /\ Copy(k, n, f.val, Nil) /\ f.i = 1 /\ f.vec = <<k>>
    BY <1>1, <2>1 DEF Creating
  <2>3. SetsList(k, n, <<k>>) /\ Goes(c, k, "prune", 1, f.vec, f.res)
    BY <1>0, <1>7, <2>2, InsertGroupShape DEF Copy
  <2>4. /\ Elsewhere(n) /\ Moves(c, k) /\ Has(h, "prune", 1, f.vec, f.res)
        /\ OnlyAt(k, n)' /\ Copy(k, n, f.val, <<k>>)'
    <3>1. Elsewhere(n) /\ Moves(c, k) /\ Has(h, "prune", 1, f.vec, f.res)
      BY <1>0, <2>3, OnlyThere DEF Goes
    <3>2. OnlyAt(k, n)' /\ Copy(k, n, f.val, <<k>>)'
      BY <1>0, <2>2, <2>3 DEF SetsList, OnlyAt, Empty, Copy
    <3> QED
      BY <3>1, <3>2
  <2>5. Creating(k, h)'
    BY <1>1, <1>3, <2>1, <2>4 DEF Has, Creating
  <2> QED
    BY <1>2, <2>4, <2>5
<1>8. CASE PruneEnd(c, k)
  <2>1. f.pc = "prune"
    BY <1>0, <1>8, StepAt
  <2>2. OnlyAt(k, n) /\ Copy(k, n, f.val, <<k>>)
    BY <1>1, <2>1 DEF Creating
  <2>3. g = <<k>> /\ Len(g) < GroupSize /\ Partial(k, <<k>>)
    BY <2>2 DEF Copy, GroupSize, Partial
  <2>4. Same /\ Goes(c, k, "select", f.i, f.vec, f.res)
    BY <1>0, <1>8, <2>3, PruneEndShape
  <2>5. /\ Elsewhere(n) /\ Moves(c, k) /\ Has(h, "select", f.i, f.vec, f.res)
        /\ OnlyAt(k, n)' /\ Copy(k, n, f.val, <<k>>)'
    BY <1>0, <2>2, <2>4, SameStays DEF Goes, Copy
  <2>6. Creating(k, h)'
    BY <1>1, <1>3, <2>1, <2>3, <2>5 DEF Has, Creating, Copy
  <2> QED
    BY <1>2, <2>5, <2>6
<1>9. CASE Select(c, k)
  <2>1. f.pc = "select"
    BY <1>0, <1>9, StepAt
  <2>2. OnlyAt(k, n) /\ machines[k][n] = f.val /\ f.val \in Value /\ Partial(k, g)
    BY <1>1, <2>1 DEF Creating
  <2>3. \A q \in RM : machines[q][n] = Nil <=> q # k
    BY <1>0, <2>2 DEF OnlyAt, Empty, Copy
  <2>4. g \in Seq(RM) /\ Len(g) \in {1, 2} /\ g[1] = k /\ (Len(g) = 2 => g[2] # k)
    BY <2>2 DEF Partial
  <2>5. \E q \in RM : machines[q][n] = Nil /\ (Len(g) = 1 \/ g[2] # q)
    BY <2>3, <2>4 DEF RM, GroupSize, ReplicasAssumption
  <2>6. PICK rep \in RM : /\ machines[rep][n] = Nil /\ (Len(g) = 1 \/ g[2] # rep)
                          /\ SetsList(k, n, Append(g, rep))
    BY <1>0, <1>9, <2>5, SelectShape
  <2>7. IF Len(g) + 1 < GroupSize THEN UNCHANGED thread ELSE Goes(c, k, "send", 1, f.vec, f.res)
    BY <1>0, <1>9, <2>5, SelectShape
  <2>e. PICK e : e = Append(g, rep)
    OBVIOUS
  <2>8. /\ e \in Seq(RM) /\ Len(e) = Len(g) + 1 /\ e[Len(g) + 1] = rep
        /\ \A j \in 1 .. Len(g) : e[j] = g[j]
    BY <2>4, <2>e, AppendProperties
  <2>9. SetsList(k, n, e)
    BY <2>6, <2>e
  <2>10. rep # k /\ (Len(g) = 1 \/ g[2] # rep) /\ e[1] = k
    BY <2>3, <2>4, <2>6, <2>8
  <2>11. Elsewhere(n) /\ OnlyAt(k, n)' /\ Copy(k, n, f.val, e)'
    <3>1. Elsewhere(n)
      BY <1>0, <2>9, OnlyThere
    <3> QED
      <4>1. /\ machines'[k][n] = f.val /\ groupMap'[k][n] = e
            /\ \A q \in RM : q # k => machines'[q][n] = machines[q][n] /\ groupMap'[q][n] = groupMap[q][n]
        BY <1>0, <2>2, <2>9 DEF SetsList
      <4> QED
        BY <2>2, <3>1, <4>1 DEF OnlyAt, Empty, Copy
  <2>12. CASE Len(g) = 1
    <3>1. UNCHANGED thread
      BY <2>7, <2>12 DEF GroupSize
    <3>2. h = f /\ Moves(c, k)
      BY <1>0, <3>1 DEF Moves, SameRequest, Untouched, Ready
    <3>3. Partial(k, e)
      <4>1. Len(e) = 2 /\ e[2] = rep
        BY <2>8, <2>12
      <4> QED
        BY <2>8, <2>10, <4>1 DEF Partial
    <3>4. Creating(k, h)'
      BY <1>1, <2>1, <2>11, <3>2, <3>3 DEF Creating, Copy
    <3> QED
      BY <1>2, <2>11, <3>2, <3>4
  <2>13. CASE Len(g) = 2
    <3>1. Goes(c, k, "send", 1, f.vec, f.res)
      BY <2>7, <2>13 DEF GroupSize
    <3>2. Moves(c, k) /\ Has(h, "send", 1, f.vec, f.res)
      BY <3>1 DEF Goes
    <3>3. Len(e) = 3 /\ e[1] = k /\ e[2] = g[2] /\ e[3] = rep /\ g[2] # k /\ rep # g[2]
      BY <2>4, <2>8, <2>10, <2>13
    <3>4. IsGroup(e) /\ k \in ToSet(e)
      <4>1. 1 \in DOMAIN e
        BY <2>8, <3>3, LenProperties
      <4>2. k \in ToSet(e)
        BY <3>3, <4>1 DEF ToSet
      <4>3. \A i, j \in 1 .. 3 : e[i] = e[j] => i = j
        <5>1. \A i \in 1 .. 3 : i = 1 \/ i = 2 \/ i = 3
          OBVIOUS
        <5> QED
          BY <2>10, <3>3, <5>1
      <4> QED
        BY <2>8, <3>3, <4>2, <4>3 DEF IsGroup, GroupSize
    <3>5. Spreading(k, n, f.val, e, 1)'
      <4>1. \A q \in RM : Empty(q, n)' \/ q = k
        BY <2>11 DEF OnlyAt
      <4> QED
        BY <2>11, <3>4, <4>1 DEF Spreading, GroupSize
    <3>6. Creating(k, h)'
      BY <1>1, <1>3, <2>1, <2>11, <3>2, <3>5 DEF Has, Creating, Copy
    <3> QED
      BY <1>2, <2>11, <3>2, <3>6
  <2> QED
    BY <2>4, <2>12, <2>13
<1>10. CASE SendEnd(c, k)
  <2>1. f.pc = "send"
    BY <1>0, <1>10, StepAt
  <2>2. Spreading(k, n, f.val, g, f.i) /\ f.val \in Value
    BY <1>1, <2>1 DEF Creating
  <2>3. Same /\ (\A j \in 1 .. Len(g) : j < f.i \/ g[j] = k) /\ Goes(c, k, "reply", 0, f.vec, f.res)
    BY <1>0, <1>10, SendEndShape
  <2>4. Grouped(k, n)
    <3>1. IsGroup(g) /\ k \in ToSet(g) /\ machines[k][n] = f.val /\ Len(g) = 3
      BY <2>2, GroupMembers DEF Spreading, Copy
    <3>2. \A j \in 1 .. 3 : Copy(g[j], n, f.val, g)
      BY <2>2, <2>3, <3>1 DEF Spreading, GroupSize
    <3>3. \A q \in ToSet(g) : Copy(q, n, f.val, g)
      BY <3>1, <3>2, GroupMembers
    <3>4. \A q \in RM : q \notin ToSet(g) => Empty(q, n)
      BY <2>2 DEF Spreading
    <3> QED
      BY <2>2, <3>1, <3>3, <3>4 DEF Grouped
  <2>5. Elsewhere(n) /\ Moves(c, k) /\ Has(h, "reply", 0, f.vec, f.res) /\ Grouped(k, n)'
    BY <1>0, <2>3, <2>4, SameStays DEF Goes
  <2>6. Creating(k, h)'
    BY <1>1, <1>3, <2>1, <2>5 DEF Has, Creating
  <2> QED
    BY <1>2, <2>5, <2>6
<1>11. f.pc \in {"exists", "error", "lock", "insert", "group", "prune", "select", "send", "reply"}
  BY <1>1 DEF Creating
<1>12. ~Prune(c, k)
  BY <1>0, PruneShape
<1> QED
  BY <1>0, <1>4, <1>5, <1>6, <1>7, <1>8, <1>9, <1>10, <1>11, <1>12, StepAt DEF ServerStep

(* getState()                                                              *)
LEMMA ReadingStep ==
    ASSUME ReplicasAssumption, ManagerAssumption,
           NEW c \in Client, NEW s, Calm(c, s), NEW k \in RM,
           NEW f, Ready(c, k, f), f # Idle, f.op = "getState",
           ServerStep(c, k), ~SendCreate(c, k)
    PROVE  Data(c)'
<1> DEFINE n == f.name
           g == groupMap[k][n]
<1> SUFFICES ASSUME NEW h, h = thread'[c][k]
             PROVE  Data(c)'
  OBVIOUS
<1>0. c \in Proc /\ n \in Name /\ Nil \notin Value /\ Primary(k, f) /\ Sound(k, f) /\ f \in Frame
      /\ TypeOK /\ AllUp
  BY ServesClient, PrimarySound DEF Ready, Calm, ManagerAssumption
<1>1. Reading(k, f) /\ f.fromFrontEnd
  BY <1>0 DEF Primary
<1>2. ASSUME Elsewhere(n), Moves(c, k), Reading(k, h)'
      PROVE  Data(c)'
  <2>1. h.op = f.op /\ h.fromFrontEnd = f.fromFrontEnd
    BY <1>2 DEF Moves, SameRequest, Ready
  <2>2. Primary(k, h)'
    BY <1>1, <1>2, <2>1 DEF Primary
  <2> QED
    BY <1>2, <2>2, PrimaryGoesOn
<1>3. ASSUME Moves(c, k)
      PROVE  h.name = n /\ h.val = f.val /\ h.wait = NoRM
  BY <1>3 DEF Moves, SameRequest, Ready
<1>4. CASE CheckExists(c, k)
  <2>1. /\ f.pc = "check" /\ Same
        /\ IF machines[k][n] = Nil THEN Goes(c, k, "error", f.i, f.vec, f.res)
           ELSE Goes(c, k, "read", f.i, f.vec, f.res)
    BY <1>0, <1>1, <1>4, CheckShape
  <2>2. Consistent(n) /\ f.res = Nil
    BY <1>1, <2>1 DEF Reading
  <2>3. CASE machines[k][n] = Nil
    <3>1. /\ Elsewhere(n) /\ Moves(c, k) /\ Has(h, "error", f.i, f.vec, f.res)
          /\ Consistent(n)'
      BY <1>0, <2>1, <2>2, <2>3, SameStays DEF Goes
    <3>2. Reading(k, h)'
      BY <1>1, <1>3, <2>2, <3>1 DEF Has, Reading
    <3> QED
      BY <1>2, <3>1, <3>2
  <2>4. CASE machines[k][n] # Nil
    <3>1. /\ Elsewhere(n) /\ Moves(c, k) /\ Has(h, "read", f.i, f.vec, f.res)
          /\ Grouped(k, n)'
      BY <1>0, <2>1, <2>2, <2>4, ConsistentHost, SameStays DEF Goes
    <3>2. Reading(k, h)'
      BY <1>1, <1>3, <2>2, <3>1 DEF Has, Reading
    <3> QED
      BY <1>2, <3>1, <3>2
  <2> QED
    BY <2>3, <2>4
<1>5. CASE Read(c, k)
  <2>1. f.pc = "read"
    BY <1>0, <1>5, StepAt
  <2>2. Grouped(k, n)
    BY <1>1, <2>1 DEF Reading
  <2>3. Same /\ Goes(c, k, "lock", f.i, f.vec, machines[k][n])
    BY <1>0, <1>1, <1>5, <2>2, ReadShape
  <2>4. /\ Elsewhere(n) /\ Moves(c, k) /\ Has(h, "lock", f.i, f.vec, machines[k][n])
        /\ Grouped(k, n)' /\ machines'[k][n] = machines[k][n]
    BY <1>0, <2>2, <2>3, SameStays DEF Goes
  <2>5. Reading(k, h)'
    BY <1>1, <1>3, <2>1, <2>4 DEF Has, Reading
  <2> QED
    BY <1>2, <2>4, <2>5
<1>6. CASE Lock(c, k)
  <2>1. f.pc = "lock"
    BY <1>0, <1>6, StepAt
  <2>2. Grouped(k, n)
    BY <1>1, <2>1 DEF Reading
  <2>3. Same /\ Goes(c, k, "prune", 1, f.vec, f.res)
    BY <1>0, <1>1, <1>6, <2>2, LockShape
  <2>4. /\ Elsewhere(n) /\ Moves(c, k) /\ Has(h, "prune", 1, f.vec, f.res)
        /\ Grouped(k, n)' /\ machines'[k][n] = machines[k][n]
    BY <1>0, <2>2, <2>3, SameStays DEF Goes
  <2>5. Reading(k, h)'
    BY <1>1, <1>3, <2>1, <2>4 DEF Has, Reading
  <2> QED
    BY <1>2, <2>4, <2>5
<1>7. CASE PruneEnd(c, k)
  <2>1. f.pc = "prune"
    BY <1>0, <1>7, StepAt
  <2>2. Grouped(k, n)
    BY <1>1, <2>1 DEF Reading
  <2>3. ~(Len(g) < GroupSize)
    BY <1>0, <2>2, GroupedCopies, GroupMembers DEF GroupSize
  <2>4. Same /\ Goes(c, k, "send", 1, f.vec, f.res)
    BY <1>0, <1>7, <2>3, PruneEndShape
  <2>5. /\ Elsewhere(n) /\ Moves(c, k) /\ Has(h, "send", 1, f.vec, f.res)
        /\ Grouped(k, n)'
    BY <1>0, <2>2, <2>4, SameStays DEF Goes
  <2>6. Reading(k, h)'
    BY <1>1, <1>3, <2>1, <2>5 DEF Has, Reading
  <2> QED
    BY <1>2, <2>5, <2>6
<1>8. CASE SendEnd(c, k)
  <2>1. f.pc = "send"
    BY <1>0, <1>8, StepAt
  <2>2. Grouped(k, n)
    BY <1>1, <2>1 DEF Reading
  <2>3. Same /\ Goes(c, k, "reply", 0, f.vec, f.res)
    BY <1>0, <1>1, <1>8, <2>2, SendEndShape
  <2>4. /\ Elsewhere(n) /\ Moves(c, k) /\ Has(h, "reply", 0, f.vec, f.res)
        /\ Grouped(k, n)' /\ machines'[k][n] = machines[k][n]
    BY <1>0, <2>2, <2>3, SameStays DEF Goes
  <2>5. Reading(k, h)'
    BY <1>1, <1>3, <2>1, <2>4 DEF Has, Reading
  <2> QED
    BY <1>2, <2>4, <2>5
<1>9. f.pc \in {"check", "error", "read", "lock", "prune", "send", "reply"}
  BY <1>1 DEF Reading
<1>10. ~Prune(c, k)
  BY <1>0, PruneShape
<1> QED
  BY <1>0, <1>4, <1>5, <1>6, <1>7, <1>8, <1>9, <1>10, StepAt DEF ServerStep

(* The loop that repeats a request to the group, at its start and its end. *)
LEMMA ForwardingStarts ==
    ASSUME ManagerAssumption, NEW k \in RM, NEW n \in Name, Grouped(k, n), Same,
           NEW h, h.name = n, h.pc = "fwd", h.i = 1, h.vec = groupMap[k][n], h.wait = NoRM
    PROVE  Forwarding(k, h)'
<1>1. PICK g, v : g = groupMap[k][n] /\ v = machines[k][n]
  OBVIOUS
<1>2. IsGroup(g) /\ k \in ToSet(g) /\ v \in Value
  BY <1>1 DEF Grouped
<1>3. \A q \in RM : machines'[q][n] = machines[q][n] /\ groupMap'[q][n] = groupMap[q][n]
  BY SameStays
<1>4. \A q \in RM : IF q \in ToSet(g) THEN Copy(q, n, v, g)' ELSE Empty(q, n)'
  BY <1>1, <1>3 DEF Grouped, Copy, Empty
<1>5. \A j \in 1 .. 3 : g[j] \in RM /\ g[j] \in ToSet(g)
  BY <1>2, GroupMembers
<1>6. machines'[k][n] = v
  BY <1>1, <1>3
<1>7. \A j \in 1 .. 3 : Backup(g[j], h, v, "check")'
  BY <1>1, <1>4, <1>5 DEF Backup
<1>8. \A j \in 1 .. 3 : Stage(k, h, j)' = "check"
  BY DEF Stage
<1> QED
  BY <1>1, <1>2, <1>4, <1>6, <1>7, <1>8 DEF Forwarding, GroupSize

LEMMA ForwardingEnds ==
    ASSUME ManagerAssumption, NEW k \in RM, NEW f \in Frame, Forwarding(k, f), f.wait = NoRM,
           \A j \in 1 .. Len(f.vec) : j < f.i \/ f.vec[j] = k
    PROVE  LET n == f.name
               v == machines[k][n]
           IN  /\ IsGroup(f.vec) /\ k \in ToSet(f.vec) /\ v \in Value
               /\ \A q \in RM : q \notin ToSet(f.vec) => Empty(q, n)
               /\ \A q \in ToSet(f.vec) : Backup(q, f, v, IF q = k THEN "check" ELSE "reply")
               /\ f.op = "apply" =>
                     /\ groupMap[k][n] = f.vec
                     /\ \A q \in ToSet(f.vec) :
                          Copy(q, n, IF q = k THEN v ELSE Apply(v, f.val), f.vec)
               /\ f.op # "apply" => \A q \in ToSet(f.vec) : q # k => Empty(q, n)
<1> DEFINE n == f.name
           v == machines[k][n]
<1>1. /\ IsGroup(f.vec) /\ k \in ToSet(f.vec) /\ v \in Value
      /\ \A q \in RM : q \notin ToSet(f.vec) => Empty(q, n)
      /\ \A j \in 1 .. 3 : Backup(f.vec[j], f, v, Stage(k, f, j))
  BY DEF Forwarding, GroupSize
<1>2. \A j \in 1 .. 3 : Stage(k, f, j) = IF f.vec[j] = k THEN "check" ELSE "reply"
  BY <1>1, GroupMembers DEF Stage
<1>3. ASSUME NEW q \in ToSet(f.vec)
      PROVE  Backup(q, f, v, IF q = k THEN "check" ELSE "reply")
  BY <1>1, <1>2, GroupMembers
<1>4. f.op = "apply" => \A q \in ToSet(f.vec) :
                          Copy(q, n, IF q = k THEN v ELSE Apply(v, f.val), f.vec)
  BY <1>3 DEF Backup
<1>5. f.op = "apply" => groupMap[k][n] = f.vec
  BY <1>1, <1>4 DEF Copy
<1>6. f.op # "apply" => \A q \in ToSet(f.vec) : q # k => Empty(q, n)
  BY <1>3 DEF Backup
<1> QED
  BY <1>1, <1>3, <1>4, <1>5, <1>6

(* apply() of the client.                                                  *)
LEMMA ApplyingStep ==
    ASSUME ReplicasAssumption, ManagerAssumption,
           NEW c \in Client, NEW s, Calm(c, s), NEW k \in RM,
           NEW f, Ready(c, k, f), f # Idle, f.op = "apply",
           ServerStep(c, k), ~SendCreate(c, k), ~Forward(c, k)
    PROVE  Data(c)'
<1> DEFINE n == f.name
           g == groupMap[k][n]
<1> SUFFICES ASSUME NEW h, h = thread'[c][k]
             PROVE  Data(c)'
  OBVIOUS
<1>0. c \in Proc /\ n \in Name /\ Nil \notin Value /\ Primary(k, f) /\ Sound(k, f) /\ f \in Frame
      /\ TypeOK /\ AllUp
  BY ServesClient, PrimarySound DEF Ready, Calm, ManagerAssumption
<1>1. Applying(k, f) /\ f.fromFrontEnd
  BY <1>0 DEF Primary
<1>2. ASSUME Elsewhere(n), Moves(c, k), Applying(k, h)'
      PROVE  Data(c)'
  <2>1. h.op = f.op /\ h.fromFrontEnd = f.fromFrontEnd
    BY <1>2 DEF Moves, SameRequest, Ready
  <2>2. Primary(k, h)'
    BY <1>1, <1>2, <2>1 DEF Primary
  <2> QED
    BY <1>2, <2>2, PrimaryGoesOn
<1>3. ASSUME Moves(c, k)
      PROVE  h.name = n /\ h.val = f.val /\ h.wait = NoRM
  BY <1>3 DEF Moves, SameRequest, Ready
<1>4. CASE CheckExists(c, k)
  <2>1. /\ f.pc = "check" /\ Same
        /\ IF machines[k][n] = Nil THEN Goes(c, k, "error", f.i, f.vec, f.res)
           ELSE Goes(c, k, "lock", f.i, f.vec, f.res)
    BY <1>0, <1>1, <1>4, CheckShape
  <2>2. Consistent(n) /\ f.res = Nil
    BY <1>1, <2>1 DEF Applying
  <2>3. CASE machines[k][n] = Nil
    <3>1. /\ Elsewhere(n) /\ Moves(c, k) /\ Has(h, "error", f.i, f.vec, f.res)
          /\ Consistent(n)'
      BY <1>0, <2>1, <2>2, <2>3, SameStays DEF Goes
    <3>2. Applying(k, h)'
      BY <1>1, <1>3, <2>2, <3>1 DEF Has, Applying
    <3> QED
      BY <1>2, <3>1, <3>2
  <2>4. CASE machines[k][n] # Nil
    <3>1. /\ Elsewhere(n) /\ Moves(c, k) /\ Has(h, "lock", f.i, f.vec, f.res)
          /\ Grouped(k, n)'
      BY <1>0, <2>1, <2>2, <2>4, ConsistentHost, SameStays DEF Goes
    <3>2. Applying(k, h)'
      BY <1>1, <1>3, <2>2, <3>1 DEF Has, Applying
    <3> QED
      BY <1>2, <3>1, <3>2
  <2> QED
    BY <2>3, <2>4
<1>5. CASE Lock(c, k)
  <2>1. f.pc = "lock"
    BY <1>0, <1>5, StepAt
  <2>2. Grouped(k, n)
    BY <1>1, <2>1 DEF Applying
  <2>3. Same /\ Goes(c, k, "prune", 1, f.vec, f.res)
    BY <1>0, <1>1, <1>5, <2>2, LockShape
  <2>4. /\ Elsewhere(n) /\ Moves(c, k) /\ Has(h, "prune", 1, f.vec, f.res)
        /\ Grouped(k, n)' /\ machines'[k][n] = machines[k][n]
    BY <1>0, <2>2, <2>3, SameStays DEF Goes
  <2>5. Applying(k, h)'
    BY <1>1, <1>3, <2>1, <2>4 DEF Has, Applying
  <2> QED
    BY <1>2, <2>4, <2>5
<1>6. CASE PruneEnd(c, k)
  <2>1. f.pc = "prune"
    BY <1>0, <1>6, StepAt
  <2>2. Grouped(k, n)
    BY <1>1, <2>1 DEF Applying
  <2>3. ~(Len(g) < GroupSize)
    BY <1>0, <2>2, GroupedCopies, GroupMembers DEF GroupSize
  <2>4. Same /\ Goes(c, k, "send", 1, f.vec, f.res)
    BY <1>0, <1>6, <2>3, PruneEndShape
  <2>5. /\ Elsewhere(n) /\ Moves(c, k) /\ Has(h, "send", 1, f.vec, f.res)
        /\ Grouped(k, n)'
    BY <1>0, <2>2, <2>4, SameStays DEF Goes
  <2>6. Applying(k, h)'
    BY <1>1, <1>3, <2>1, <2>5 DEF Has, Applying
  <2> QED
    BY <1>2, <2>5, <2>6
<1>7. CASE SendEnd(c, k)
  <2>1. f.pc = "send"
    BY <1>0, <1>7, StepAt
  <2>2. Grouped(k, n)
    BY <1>1, <2>1 DEF Applying
  <2>3. Same /\ Goes(c, k, "fwdlock", 0, f.vec, f.res)
    BY <1>0, <1>1, <1>7, <2>2, SendEndShape
  <2>4. /\ Elsewhere(n) /\ Moves(c, k) /\ Has(h, "fwdlock", 0, f.vec, f.res)
        /\ Grouped(k, n)' /\ machines'[k][n] = machines[k][n]
    BY <1>0, <2>2, <2>3, SameStays DEF Goes
  <2>5. Applying(k, h)'
    BY <1>1, <1>3, <2>1, <2>4 DEF Has, Applying
  <2> QED
    BY <1>2, <2>4, <2>5
<1>8. CASE ForwardLock(c, k)
  <2>1. f.pc = "fwdlock"
    BY <1>0, <1>8, StepAt
  <2>2. Grouped(k, n) /\ f.val \in Value /\ f.res = Nil
    BY <1>1, <2>1 DEF Applying
  <2>3. PICK e : e = g
    OBVIOUS
  <2>4. Same /\ Goes(c, k, "fwd", 1, e, f.res)
    BY <1>0, <1>8, <2>2, <2>3, ForwardLockShape, GroupedCopies DEF IsGroup
  <2>5. Elsewhere(n) /\ Moves(c, k) /\ Has(h, "fwd", 1, e, f.res)
    BY <1>0, <2>4, SameStays DEF Goes
  <2>6. Forwarding(k, h)'
    BY <1>0, <1>3, <2>2, <2>3, <2>4, <2>5, ForwardingStarts DEF Has
  <2>7. Applying(k, h)'
    BY <1>1, <1>3, <2>2, <2>5, <2>6 DEF Has, Applying
  <2> QED
    BY <1>2, <2>5, <2>7
<1>9. CASE ForwardEnd(c, k)
  <2>1. f.pc = "fwd"
    BY <1>0, <1>9, StepAt
  <2>2. Forwarding(k, f) /\ f.val \in Value /\ f.res = Nil
    BY <1>1, <2>1 DEF Applying
  <2>3. /\ Same /\ Goes(c, k, "local", 0, <<>>, f.res)
        /\ \A j \in 1 .. Len(f.vec) : j < f.i \/ f.vec[j] = k
    BY <1>0, <1>9, ForwardEndShape
  <2>4. Elsewhere(n) /\ Moves(c, k) /\ Has(h, "local", 0, <<>>, f.res)
    BY <1>0, <2>3, SameStays DEF Goes
  <2>5. /\ IsGroup(f.vec) /\ k \in ToSet(f.vec) /\ machines[k][n] \in Value
        /\ g = f.vec /\ \A q \in RM : q \notin ToSet(f.vec) => Empty(q, n)
        /\ \A q \in ToSet(f.vec) :
              Copy(q, n, IF q = k THEN machines[k][n] ELSE Apply(machines[k][n], f.val), f.vec)
    BY <1>0, <2>2, <2>3, ForwardingEnds DEF Ready
  <2>6. Forwarded(k, f)
    BY <2>5, GroupMembers DEF Forwarded
  <2>7. Forwarded(k, h)'
    <3>1. \A q \in RM : machines'[q][n] = machines[q][n] /\ groupMap'[q][n] = groupMap[q][n]
      BY <1>0, <2>3, SameStays
    <3>2. h.name = n /\ h.val = f.val
      BY <1>3, <2>4
    <3> QED
      BY <2>6, <3>1, <3>2 DEF Forwarded, Copy, Empty
  <2>8. Applying(k, h)'
    BY <1>1, <1>3, <2>2, <2>4, <2>7 DEF Has, Applying
  <2> QED
    BY <1>2, <2>4, <2>8
<1>10. CASE ApplyLocal(c, k)
  <2>1. f.pc = "local"
    BY <1>0, <1>10, StepAt
  <2>2. Forwarded(k, f) /\ f.val \in Value
    BY <1>1, <2>1 DEF Applying
  <2>3. PICK w : w = Apply(machines[k][n], f.val)
    OBVIOUS
  <2>4. PICK e : e = g
    OBVIOUS
  <2>5. SetsMachine(k, n, w) /\ Goes(c, k, "unlock", f.i, f.vec, w)
    BY <1>0, <1>10, <2>3, ApplyLocalShape
  <2>6. Elsewhere(n) /\ Moves(c, k) /\ Has(h, "unlock", f.i, f.vec, w)
    BY <1>0, <2>5, OnlyThere DEF Goes
  <2>7. IsGroup(e) /\ k \in ToSet(e) /\ w \in Value
    BY <2>2, <2>3, <2>4 DEF Forwarded, ManagerAssumption
  <2>8. \A q \in RM : IF q \in ToSet(e) THEN machines'[q][n] = w /\ groupMap'[q][n] = e
                      ELSE machines'[q][n] = Nil /\ groupMap'[q][n] = Nil
    BY <1>0, <2>2, <2>3, <2>4, <2>5 DEF Forwarded, SetsMachine, Copy, Empty
  <2>9. Grouped(k, n)' /\ machines'[k][n] = w
    BY <2>7, <2>8 DEF Grouped, Copy, Empty
  <2>10. Applying(k, h)'
    BY <1>1, <1>3, <2>2, <2>6, <2>9 DEF Has, Applying
  <2> QED
    BY <1>2, <2>6, <2>10
<1>11. CASE Unlock(c, k)
  <2>1. f.pc = "unlock"
    BY <1>0, <1>11, StepAt
  <2>2. Grouped(k, n)
    BY <1>1, <2>1 DEF Applying
  <2>3. Same /\ Goes(c, k, "reply", f.i, f.vec, f.res)
    BY <1>0, <1>1, <1>11, <2>2, UnlockShape
  <2>4. /\ Elsewhere(n) /\ Moves(c, k) /\ Has(h, "reply", f.i, f.vec, f.res)
        /\ Grouped(k, n)' /\ machines'[k][n] = machines[k][n]
    BY <1>0, <2>2, <2>3, SameStays DEF Goes
  <2>5. Applying(k, h)'
    BY <1>1, <1>3, <2>1, <2>4 DEF Has, Applying
  <2> QED
    BY <1>2, <2>4, <2>5
<1>12. f.pc \in {"check", "error", "lock", "prune", "send", "fwdlock", "fwd", "local", "unlock", "reply"}
  BY <1>1 DEF Applying
<1>13. ~Prune(c, k)
  BY <1>0, PruneShape
<1> QED
  BY <1>0, <1>4, <1>5, <1>6, <1>7, <1>8, <1>9, <1>10, <1>11, <1>12, <1>13, StepAt DEF ServerStep

(* remove() of the client.                                                 *)
LEMMA RemovingStep ==
    ASSUME ReplicasAssumption, ManagerAssumption,
           NEW c \in Client, NEW s, Calm(c, s), NEW k \in RM,
           NEW f, Ready(c, k, f), f # Idle, f.op = "remove",
           ServerStep(c, k), ~SendCreate(c, k), ~Forward(c, k)
    PROVE  Data(c)'
<1> DEFINE n == f.name
           g == groupMap[k][n]
<1> SUFFICES ASSUME NEW h, h = thread'[c][k]
             PROVE  Data(c)'
  OBVIOUS
<1>0. c \in Proc /\ n \in Name /\ Nil \notin Value /\ Primary(k, f) /\ Sound(k, f) /\ f \in Frame
      /\ TypeOK /\ AllUp
  BY ServesClient, PrimarySound DEF Ready, Calm, ManagerAssumption
<1>1. Removing(k, f) /\ f.fromFrontEnd
  BY <1>0 DEF Primary
<1>2. ASSUME Elsewhere(n), Moves(c, k), Removing(k, h)'
      PROVE  Data(c)'
  <2>1. h.op = f.op /\ h.fromFrontEnd = f.fromFrontEnd
    BY <1>2 DEF Moves, SameRequest, Ready
  <2>2. Primary(k, h)'
    BY <1>1, <1>2, <2>1 DEF Primary
  <2> QED
    BY <1>2, <2>2, PrimaryGoesOn
<1>3. ASSUME Moves(c, k)
      PROVE  h.name = n /\ h.val = f.val /\ h.wait = NoRM
  BY <1>3 DEF Moves, SameRequest, Ready
<1>4. CASE CheckExists(c, k)
  <2>1. /\ f.pc = "check" /\ Same
        /\ IF machines[k][n] = Nil THEN Goes(c, k, "error", f.i, f.vec, f.res)
           ELSE Goes(c, k, "fwdlock", f.i, f.vec, f.res)
    BY <1>0, <1>1, <1>4, CheckShape
  <2>2. Consistent(n) /\ f.res = Nil
    BY <1>1, <2>1 DEF Removing
  <2>3. CASE machines[k][n] = Nil
    <3>1. /\ Elsewhere(n) /\ Moves(c, k) /\ Has(h, "error", f.i, f.vec, f.res)
          /\ Consistent(n)'
      BY <1>0, <2>1, <2>2, <2>3, SameStays DEF Goes
    <3>2. Removing(k, h)'
      BY <1>1, <1>3, <2>2, <3>1 DEF Has, Removing
    <3> QED
      BY <1>2, <3>1, <3>2
  <2>4. CASE machines[k][n] # Nil
    <3>1. /\ Elsewhere(n) /\ Moves(c, k) /\ Has(h, "fwdlock", f.i, f.vec, f.res)
          /\ Grouped(k, n)'
      BY <1>0, <2>1, <2>2, <2>4, ConsistentHost, SameStays DEF Goes
    <3>2. Removing(k, h)'
      BY <1>1, <1>3, <2>2, <3>1 DEF Has, Removing
    <3> QED
      BY <1>2, <3>1, <3>2
  <2> QED
    BY <2>3, <2>4
<1>5. CASE ForwardLock(c, k)
  <2>1. f.pc = "fwdlock"
    BY <1>0, <1>5, StepAt
  <2>2. Grouped(k, n) /\ f.res = Nil
    BY <1>1, <2>1 DEF Removing
  <2>3. PICK e : e = g
    OBVIOUS
  <2>4. Same /\ Goes(c, k, "fwd", 1, e, f.res)
    BY <1>0, <1>5, <2>2, <2>3, ForwardLockShape, GroupedCopies DEF IsGroup
  <2>5. Elsewhere(n) /\ Moves(c, k) /\ Has(h, "fwd", 1, e, f.res)
    BY <1>0, <2>4, SameStays DEF Goes
  <2>6. Forwarding(k, h)'
    BY <1>0, <1>3, <2>2, <2>3, <2>4, <2>5, ForwardingStarts DEF Has
  <2>7. Removing(k, h)'
    BY <1>1, <1>3, <2>2, <2>5, <2>6 DEF Has, Removing
  <2> QED
    BY <1>2, <2>5, <2>7
<1>6. CASE ForwardEnd(c, k)
  <2>1. f.pc = "fwd"
    BY <1>0, <1>6, StepAt
  <2>2. Forwarding(k, f) /\ f.res = Nil
    BY <1>1, <2>1 DEF Removing
  <2>3. /\ Same /\ Goes(c, k, "lock", 0, <<>>, f.res)
        /\ \A j \in 1 .. Len(f.vec) : j < f.i \/ f.vec[j] = k
    BY <1>0, <1>6, ForwardEndShape
  <2>4. /\ machines[k][n] \in Value
        /\ \A q \in RM : q \notin ToSet(f.vec) => Empty(q, n)
        /\ \A q \in ToSet(f.vec) : q # k => Empty(q, n)
    BY <1>0, <2>2, <2>3, ForwardingEnds DEF Ready
  <2>5. OnlyAt(k, n)
    BY <2>4 DEF OnlyAt
  <2>6. /\ Elsewhere(n) /\ Moves(c, k) /\ Has(h, "lock", 0, <<>>, f.res)
        /\ OnlyAt(k, n)' /\ machines'[k][n] # Nil
    BY <1>0, <2>3, <2>4, <2>5, SameStays DEF Goes
  <2>7. Removing(k, h)'
    BY <1>1, <1>3, <2>2, <2>6 DEF Has, Removing
  <2> QED
    BY <1>2, <2>6, <2>7
<1>7. CASE Lock(c, k)
  <2>1. f.pc = "lock"
    BY <1>0, <1>7, StepAt
  <2>2. OnlyAt(k, n) /\ machines[k][n] # Nil /\ f.res = Nil
    BY <1>1, <2>1 DEF Removing
  <2>3. Same /\ Goes(c, k, "erase", 1, f.vec, f.res)
    BY <1>0, <1>7, LockShape
  <2>4. /\ Elsewhere(n) /\ Moves(c, k) /\ Has(h, "erase", 1, f.vec, f.res)
        /\ OnlyAt(k, n)' /\ machines'[k][n] # Nil
    BY <1>0, <2>2, <2>3, SameStays DEF Goes
  <2>5. Removing(k, h)'
    BY <1>1, <1>3, <2>2, <2>4 DEF Has, Removing
  <2> QED
    BY <1>2, <2>4, <2>5
<1>8. CASE Erase(c, k)
  <2>1. f.pc = "erase"
    BY <1>0, <1>8, StepAt
  <2>2. OnlyAt(k, n) /\ f.res = Nil
    BY <1>1, <2>1 DEF Removing
  <2>3. SetsMachine(k, n, Nil) /\ Goes(c, k, "eraseGroup", f.i, f.vec, f.res)
    BY <1>0, <1>8, EraseShape
  <2>4. Elsewhere(n) /\ Moves(c, k) /\ Has(h, "eraseGroup", f.i, f.vec, f.res)
    BY <1>0, <2>3, OnlyThere DEF Goes
  <2>5. OnlyAt(k, n)' /\ machines'[k][n] = Nil
    BY <1>0, <2>2, <2>3 DEF SetsMachine, OnlyAt, Empty, Copy
  <2>6. Removing(k, h)'
    BY <1>1, <1>3, <2>2, <2>4, <2>5 DEF Has, Removing
  <2> QED
    BY <1>2, <2>4, <2>6
<1>9. CASE EraseGroup(c, k)
  <2>1. f.pc = "eraseGroup"
    BY <1>0, <1>9, StepAt
  <2>2. OnlyAt(k, n) /\ machines[k][n] = Nil /\ f.res = Nil
    BY <1>1, <2>1 DEF Removing
  <2>3. SetsList(k, n, Nil) /\ Goes(c, k, "reply", f.i, f.vec, f.res)
    BY <1>0, <1>9, EraseGroupShape
  <2>4. Elsewhere(n) /\ Moves(c, k) /\ Has(h, "reply", f.i, f.vec, f.res)
    BY <1>0, <2>3, OnlyThere DEF Goes
  <2>5. NoCopy(n)'
    BY <1>0, <2>2, <2>3 DEF SetsList, OnlyAt, NoCopy, Empty, Copy
  <2>6. Removing(k, h)'
    BY <1>1, <1>3, <2>2, <2>4, <2>5 DEF Has, Removing
  <2> QED
    BY <1>2, <2>4, <2>6
<1>10. f.pc \in {"check", "error", "fwdlock", "fwd", "lock", "erase", "eraseGroup", "reply"}
  BY <1>1 DEF Removing
<1> QED
  BY <1>0, <1>4, <1>5, <1>6, <1>7, <1>8, <1>9, <1>10, StepAt DEF ServerStep

-----------------------------------------------------------------------------
(* The client's handler sends a request                                    *)

LEMMA PrimaryCalls ==
    ASSUME ReplicasAssumption, NEW c \in Client, NEW s, Calm(c, s), NEW k \in RM,
           NEW f, Ready(c, k, f), f # Idle, Same, NEW q \in RM, Calls(c, k, q),
           NEW h, h = thread'[c][k], Primary(k, h)',
           NEW req, req = thread'[k][q], Secondary(k, h, k, q, req)'
    PROVE  Data(c)'
<1>1. /\ c \in Proc /\ f.name \in Name /\ Busy(c, k)
      /\ \A u \in RM : thread[c][u] # Idle => u = k
  BY ServesClient DEF Ready
<1>2. \A t \in Proc, u \in RM : thread[t][u] # Idle => t = c /\ u = k
  BY ClientRuns DEF Calm, Ready
<1>3. \A t \in Proc, u \in RM : thread'[t][u] # Idle => (t = c /\ u = k) \/ (t = k /\ u = q)
  BY <1>2 DEF Calls
<1>4. h # Idle /\ h.name = f.name
  BY DEF Calls, SameRequest, Ready
<1>5. \A m \in Name : m # f.name => Consistent(m)'
  BY <1>1, SameStays DEF Busy, Ready
<1>6. c \notin RM /\ \A p \in RM : p \in Proc
  BY DEF Proc, ReplicasAssumption, Id
<1>7. ASSUME NEW p \in RM, NEW r \in RM, thread'[p][r] # Idle
      PROVE  Secondary(k, h, p, r, thread[p][r])'
  <2>1. p = k /\ r = q
    BY <1>3, <1>6, <1>7
  <2> QED
    BY <2>1
<1>8. Busy(c, k)'
  BY <1>4, <1>5, <1>7 DEF Busy
<1>9. ~Quiet'
  BY <1>1, <1>4 DEF Quiet
<1>10. \A u \in RM : thread'[c][u] # Idle => u = k
  BY <1>1, <1>3, <1>6
<1> QED
  BY <1>8, <1>9, <1>10 DEF Data

(* The positions that a loop skips are those of the manager itself.        *)
LEMMA SpreadingOn ==
    ASSUME NEW k \in RM, NEW n \in Name, NEW v, NEW g, NEW i \in Nat, NEW j,
           Spreading(k, n, v, g, i), IsNext(k, g, i, j), Same,
           \A p, q \in RM : thread[p][q].pc # "group"
    PROVE  Spreading(k, n, v, g, j)'
<1>1. \A q \in RM : machines'[q][n] = machines[q][n] /\ groupMap'[q][n] = groupMap[q][n]
  BY SameStays
<1>2. IsGroup(g) /\ k \in ToSet(g) /\ Copy(k, n, v, g)
  BY DEF Spreading
<1>3. \A q \in RM : Empty(q, n) \/ (q \in ToSet(g) /\ Copy(q, n, v, g))
  BY DEF Spreading, Inserted
<1>4. Len(g) = 3 /\ \A l \in 1 .. 3 : g[l] \in RM
  <2>1. g \in Seq(RM) /\ Len(g) = 3
    BY <1>2 DEF IsGroup, GroupSize
  <2> QED
    BY <2>1, ElementOfSeq
<1>5. ASSUME NEW l \in 1 .. 3, l < j
      PROVE  Copy(g[l], n, v, g)
  <2>1. l < i \/ g[l] = k
    BY <1>4, <1>5 DEF IsNext
  <2> QED
    BY <1>2, <2>1 DEF Spreading, GroupSize
<1>6. \A q \in RM : Empty(q, n)' \/ (q \in ToSet(g) /\ Copy(q, n, v, g)')
  BY <1>1, <1>3 DEF Empty, Copy
<1>7. \A l \in 1 .. 3 : l < j => Copy(g[l], n, v, g)'
  BY <1>1, <1>4, <1>5 DEF Copy
<1>8. Copy(k, n, v, g)'
  BY <1>1, <1>2 DEF Copy
<1> QED
  BY <1>2, <1>6, <1>7, <1>8 DEF Spreading, GroupSize

LEMMA ForwardingOn ==
    ASSUME ManagerAssumption, NEW k \in RM, NEW f \in Frame, Forwarding(k, f), f.wait = NoRM,
           NEW j, IsNext(k, f.vec, f.i, j), Same,
           NEW h, h.name = f.name, h.op = f.op, h.val = f.val, h.vec = f.vec, h.i = j,
           h.wait = f.vec[j],
           NEW req, thread'[k][f.vec[j]] = req, req.pc = "check", req.op = f.op
    PROVE  Forwarding(k, h)'
<1>1. PICK n, v : n = f.name /\ v = machines[k][f.name]
  OBVIOUS
<1>2. n \in Name /\ f.i \in Nat
  BY <1>1 DEF Frame
<1>3. \A q \in RM : machines'[q][n] = machines[q][n] /\ groupMap'[q][n] = groupMap[q][n]
  BY <1>2, SameStays
<1>4. /\ IsGroup(f.vec) /\ k \in ToSet(f.vec) /\ v \in Value /\ f.i \in Nat \ {0}
      /\ \A q \in RM : q \notin ToSet(f.vec) => Empty(q, n)
      /\ \A l \in 1 .. 3 : Backup(f.vec[l], f, v, Stage(k, f, l))
  BY <1>1 DEF Forwarding, GroupSize
<1>5. Len(f.vec) = 3 /\ \A l \in 1 .. 3 : f.vec[l] \in RM
  BY <1>4, GroupMembers
<1>6. /\ j \in 1 .. 3 /\ f.i <= j /\ f.vec[j] # k
      /\ \A l \in 1 .. 3 : f.i <= l /\ l < j => f.vec[l] = k
  BY <1>5 DEF IsNext
<1>7. \A l \in 1 .. 3 : Stage(k, f, l) = IF f.vec[l] = k THEN "check"
                                         ELSE IF l < f.i THEN "reply" ELSE "check"
  BY DEF Stage
<1>8. \A l \in 1 .. 3 : Stage(k, h, l)' = IF f.vec[l] = k THEN "check"
                                         ELSE IF l < j THEN "reply" ELSE "check"
  BY DEF Stage
<1>9. \A l \in 1 .. 3 : Stage(k, h, l)' = Stage(k, f, l)
  BY <1>2, <1>6, <1>7, <1>8
<1>10. ASSUME NEW l \in 1 .. 3, NEW e, e = Stage(k, f, l)
       PROVE  Backup(f.vec[l], h, v, e)'
  <2>1. Backup(f.vec[l], f, v, e)
    BY <1>4, <1>10
  <2> QED
    BY <1>1, <1>3, <1>5, <2>1 DEF Backup, Copy, Empty
<1>11. \A l \in 1 .. 3 : Backup(h.vec[l], h, v, Stage(k, h, l))'
  BY <1>9, <1>10
<1>12. \A q \in RM : q \notin ToSet(h.vec) => Empty(q, n)'
  BY <1>3, <1>4 DEF Empty, Copy
<1>13. machines'[k][h.name] = v
  BY <1>1, <1>3
<1>14. h.wait # k /\ thread'[k][h.wait].op = h.op /\ h.i \in 1 .. 3 /\ h.i \in Nat \ {0}
  BY <1>6
<1> QED
  BY <1>1, <1>4, <1>11, <1>12, <1>13, <1>14 DEF Forwarding, GroupSize

(* The client's handler sends the machine and the list to a member.        *)
LEMMA PrimarySends ==
    ASSUME ReplicasAssumption, ManagerAssumption,
           NEW c \in Client, NEW s, Calm(c, s), NEW k \in RM,
           NEW f, Ready(c, k, f), f # Idle, SendCreate(c, k)
    PROVE  Data(c)'
<1>0. c \in Proc /\ f \in Frame /\ f.name \in Name /\ f.op \in Op /\ f.i \in Nat
      /\ Primary(k, f) /\ Sound(k, f) /\ TypeOK /\ AllUp /\ f.wait = NoRM
  BY ServesClient, PrimarySound, FrameThere DEF Ready, Calm
<1>1. PICK n, v, g : n = f.name /\ v = machines[k][n] /\ g = groupMap[k][n]
  OBVIOUS
<1>2. /\ f.pc = "send" /\ Same /\ g \in Seq(RM)
      /\ \E j \in 1 .. Len(g) :
           /\ IsNext(k, g, f.i, j) /\ g[j] \in RM
           /\ Sends(c, k, f, j, g[j], Request("create", n, v, g, FALSE))
  BY <1>0, <1>1, SendCreateShape
<1>3. PICK j : /\ j \in 1 .. Len(g) /\ IsNext(k, g, f.i, j) /\ g[j] \in RM
               /\ Sends(c, k, f, j, g[j], Request("create", n, v, g, FALSE))
  BY <1>2
<1>4. PICK q, h, req : q = g[j] /\ h = thread'[c][k] /\ req = thread'[k][q]
  OBVIOUS
<1>5. /\ q \in RM /\ q # k /\ Calls(c, k, q) /\ Has(h, "send", j, f.vec, f.res)
      /\ req = Request("create", n, v, g, FALSE)
  BY <1>2, <1>3, <1>4 DEF Sends, IsNext
<1>6. /\ req.op = "create" /\ req.name = n /\ req.val = v /\ req.vec = g /\ ~req.fromFrontEnd
      /\ req.pc = "dup"
  BY <1>5 DEF Request
<1>7. /\ h.op = f.op /\ h.name = n /\ h.val = f.val /\ h.fromFrontEnd = f.fromFrontEnd
      /\ h.wait = q
  BY <1>1, <1>4, <1>5 DEF Calls, SameRequest, Ready
<1>8. f.op \in {"create", "getState", "apply"}
  BY <1>0, <1>2 DEF Primary, Removing, Op
<1>9. IsGroup(g) /\ v \in Value /\ (f.op = "create" => v = f.val /\ Spreading(k, n, v, g, f.i))
  BY <1>0, <1>1, <1>2, <1>8, MembersHold
<1>10. \A p, r \in RM : thread[p][r].pc # "group"
  <2>1. \A p, r \in RM : thread[p][r] = Idle
    BY <1>0, ClientRuns DEF Calm, Ready, Proc, ReplicasAssumption, Id
  <2> QED
    BY <2>1 DEF Idle
<1>11. machines'[k][n] = v /\ groupMap'[k][n] = g
  BY <1>0, <1>1, <1>2, SameStays
<1>12. Primary(k, h)'
  <2>1. CASE f.op = "create"
    <3>1. Spreading(k, n, v, g, j)'
      BY <1>0, <1>1, <1>2, <1>3, <1>9, <1>10, <2>1, SpreadingOn
    <3>2. Creating(k, f) /\ f.fromFrontEnd
      BY <1>0, <2>1 DEF Primary
    <3>3. Creating(k, h)'
      BY <1>2, <1>4, <1>5, <1>7, <1>9, <1>11, <2>1, <3>1, <3>2 DEF Creating, Has
    <3> QED
      BY <1>7, <2>1, <3>2, <3>3 DEF Primary
  <2>2. CASE f.op = "getState"
    <3>1. Reading(k, f) /\ f.fromFrontEnd
      BY <1>0, <2>2 DEF Primary
    <3>2. Grouped(k, n)'
      BY <1>0, <1>1, <1>2, <3>1, SameStays DEF Reading
    <3>3. Reading(k, h)'
      BY <1>2, <1>5, <1>7, <3>1, <3>2 DEF Reading, Has
    <3> QED
      BY <1>7, <2>2, <3>1, <3>3 DEF Primary
  <2>3. CASE f.op = "apply"
    <3>1. Applying(k, f) /\ f.fromFrontEnd
      BY <1>0, <2>3 DEF Primary
    <3>2. Grouped(k, n)'
      BY <1>0, <1>1, <1>2, <3>1, SameStays DEF Applying
    <3>3. Applying(k, h)'
      BY <1>2, <1>5, <1>7, <3>1, <3>2 DEF Applying, Has
    <3> QED
      BY <1>7, <2>3, <3>1, <3>3 DEF Primary
  <2> QED
    BY <1>8, <2>1, <2>2, <2>3
<1>13. Secondary(k, h, k, q, req)'
  <2>1. q \in ToSet(g)
    BY <1>3, <1>4, <1>9, GroupMembers
  <2>2. BackupCreate(k, h, q, req)'
    BY <1>5, <1>6, <1>7, <1>8, <1>9, <1>11, <2>1 DEF BackupCreate, Has
  <2> QED
    BY <1>6, <1>7, <2>2 DEF Secondary
<1> QED
  BY <1>2, <1>4, <1>5, <1>12, <1>13, PrimaryCalls

(* The client's handler repeats the request to a member.                   *)
LEMMA PrimaryForwards ==
    ASSUME ReplicasAssumption, ManagerAssumption,
           NEW c \in Client, NEW s, Calm(c, s), NEW k \in RM,
           NEW f, Ready(c, k, f), f # Idle, Forward(c, k)
    PROVE  Data(c)'
<1>0. c \in Proc /\ f \in Frame /\ f.name \in Name /\ f.op \in Op /\ f.i \in Nat
      /\ Primary(k, f) /\ Sound(k, f) /\ TypeOK /\ AllUp /\ f.wait = NoRM
  BY ServesClient, PrimarySound, FrameThere DEF Ready, Calm
<1>1. /\ f.pc = "fwd" /\ Same
      /\ \E j \in 1 .. Len(f.vec) :
           /\ IsNext(k, f.vec, f.i, j) /\ f.vec[j] \in RM
           /\ Sends(c, k, f, j, f.vec[j], Request(f.op, f.name, f.val, <<>>, FALSE))
  BY <1>0, ForwardShape
<1>2. PICK j : /\ j \in 1 .. Len(f.vec) /\ IsNext(k, f.vec, f.i, j) /\ f.vec[j] \in RM
               /\ Sends(c, k, f, j, f.vec[j], Request(f.op, f.name, f.val, <<>>, FALSE))
  BY <1>1
<1>3. PICK q, h, req : q = f.vec[j] /\ h = thread'[c][k] /\ req = thread'[k][q]
  OBVIOUS
<1>4. /\ q \in RM /\ q # k /\ Calls(c, k, q) /\ Has(h, "fwd", j, f.vec, f.res)
      /\ req = Request(f.op, f.name, f.val, <<>>, FALSE)
  BY <1>1, <1>2, <1>3 DEF Sends, IsNext
<1>5. f.op \in {"apply", "remove"} /\ f.fromFrontEnd /\ Forwarding(k, f)
  BY <1>0, <1>1 DEF Primary, Creating, Reading, Applying, Removing, Op
<1>6. /\ req.op = f.op /\ req.name = f.name /\ req.val = f.val /\ ~req.fromFrontEnd
      /\ req.pc = "check"
  BY <1>4, <1>5 DEF Request
<1>7. /\ h.op = f.op /\ h.name = f.name /\ h.val = f.val /\ h.fromFrontEnd = f.fromFrontEnd
      /\ h.wait = q
  BY <1>3, <1>4 DEF Calls, SameRequest, Ready
<1>8. Forwarding(k, h)'
  <2>1. h.vec = f.vec /\ h.i = j /\ h.wait = f.vec[j] /\ thread'[k][f.vec[j]] = req
    BY <1>3, <1>4, <1>7 DEF Has
  <2>2. Same /\ IsNext(k, f.vec, f.i, j) /\ Forwarding(k, f) /\ f \in Frame /\ f.wait = NoRM
    BY <1>0, <1>1, <1>2, <1>5
  <2> QED
    BY <1>6, <1>7, <2>1, <2>2, ForwardingOn, Zenon
<1>9. Primary(k, h)'
  <2>1. CASE f.op = "apply"
    <3>1. Applying(k, f)
      BY <1>0, <2>1 DEF Primary
    <3>2. Applying(k, h)'
      BY <1>1, <1>4, <1>7, <1>8, <3>1 DEF Applying, Has
    <3> QED
      BY <1>5, <1>7, <2>1, <3>2 DEF Primary
  <2>2. CASE f.op = "remove"
    <3>1. Removing(k, f)
      BY <1>0, <2>2 DEF Primary
    <3>2. Removing(k, h)'
      BY <1>1, <1>4, <1>7, <1>8, <3>1 DEF Removing, Has
    <3> QED
      BY <1>5, <1>7, <2>2, <3>2 DEF Primary
  <2> QED
    BY <1>5, <2>1, <2>2
<1>10. Secondary(k, h, k, q, req)'
  <2>1. BackupRepeat(k, h, k, q, req)'
    BY <1>4, <1>5, <1>6, <1>7 DEF BackupRepeat, Has
  <2> QED
    BY <1>5, <1>6, <1>7, <2>1 DEF Secondary
<1> QED
  BY <1>1, <1>3, <1>4, <1>9, <1>10, PrimaryCalls

-----------------------------------------------------------------------------
(* A handler that serves another manager goes on                           *)

(* A copy with its list is not taken away, and keeps its list.             *)
Lasting(n) ==
    \A u \in RM : machines[u][n] # Nil /\ groupMap[u][n] # Nil =>
        machines'[u][n] # Nil /\ groupMap'[u][n] = groupMap[u][n]

LEMMA SecondaryGoesOn ==
    ASSUME ReplicasAssumption, ManagerAssumption, NEW c \in Client, NEW s, Calm(c, s),
           NEW p \in RM, NEW r \in RM, NEW h, Ready(p, r, h), h # Idle, Moves(p, r),
           NEW k \in RM, NEW f, f = thread[c][k], f # Idle,
           Elsewhere(f.name), f.op = "remove" \/ Lasting(f.name),
           NEW x, x = thread'[p][r], Primary(k, f)', Secondary(k, f, p, r, x)'
    PROVE  Data(c)'
<1>1. /\ c \in Proc /\ f \in Frame /\ f.name \in Name /\ Busy(c, k) /\ Primary(k, f)
      /\ \A u \in RM : thread[c][u] # Idle => u = k
  BY ServesClient
<1>2. c \notin RM /\ \A t \in RM : t \in Proc
  BY DEF Proc, ReplicasAssumption, Id
<1>3. f.pc \in {"send", "fwd"}
  BY ServesManager, ServesClient DEF Ready
<1>4. \A t \in Proc, u \in RM : <<t, u>> # <<p, r>> => thread'[t][u] = thread[t][u]
  BY DEF Moves, Untouched
<1>5. \A u \in RM : thread'[c][u] = thread[c][u]
  BY <1>1, <1>2, <1>4
<1>6. \A m \in Name : m # f.name => Consistent(m)'
  BY <1>1, ElsewhereStays DEF Busy
<1>7. ASSUME NEW t \in RM, NEW u \in RM, <<t, u>> # <<p, r>>, NEW y, y = thread[t][u], y # Idle
      PROVE  Secondary(k, f, t, u, y)'
  <2>1. Secondary(k, f, t, u, y)
    BY <1>1, <1>7 DEF Busy
  <2>2. y.wait # NoRM
    BY <1>2, <1>7, OneRuns DEF Calm, Ready
  <2>3. y.pc \in {"send", "fwd"}
    BY <1>2, <1>7, <2>2 DEF Calm, WaitInv, WaitsAtCall
  <2>4. CASE y.op # "create"
    BY <2>1, <2>4 DEF Secondary, BackupRepeat
  <2>5. CASE y.op = "create"
    <3>1. BackupCreate(k, f, u, y) /\ y.pc = "send"
      BY <2>1, <2>3, <2>5 DEF Secondary, BackupCreate
    <3>2. IsGroup(groupMap[k][f.name]) /\ machines[k][f.name] \in Value /\ f.op # "remove"
      BY <1>1, <1>3, <3>1, MembersHold DEF BackupCreate
    <3>3. groupMap[k][f.name] # Nil /\ machines[k][f.name] # Nil
      BY <3>2, GroupMembers DEF ManagerAssumption
    <3>4. groupMap'[k][f.name] = groupMap[k][f.name]
      BY <3>2, <3>3 DEF Lasting
    <3>5. machines[u][f.name] # Nil /\ groupMap[u][f.name] # Nil /\ groupMap[u][f.name] = y.vec
      BY <3>1, <3>3 DEF BackupCreate
    <3>6. machines'[u][f.name] # Nil /\ groupMap'[u][f.name] = y.vec
      BY <3>2, <3>5 DEF Lasting
    <3>7. BackupCreate(k, f, u, y)'
      BY <3>1, <3>4, <3>6 DEF BackupCreate
    <3> QED
      BY <2>1, <2>5, <3>7 DEF Secondary
  <2> QED
    BY <2>4, <2>5
<1>8. ASSUME NEW t \in RM, NEW u \in RM, thread'[t][u] # Idle
      PROVE  Secondary(k, f, t, u, thread[t][u])'
  <2>1. CASE <<t, u>> = <<p, r>>
    BY <2>1
  <2>2. CASE <<t, u>> # <<p, r>>
    <3>1. PICK y : y = thread[t][u]
      OBVIOUS
    <3>2. thread'[t][u] = y /\ y # Idle
      BY <1>2, <1>4, <1>8, <2>2, <3>1
    <3>3. Secondary(k, f, t, u, y)'
      BY <1>7, <2>2, <3>1, <3>2
    <3> QED
      BY <3>2, <3>3
  <2> QED
    BY <2>1, <2>2
<1>9. f = thread'[c][k]
  BY <1>5
<1>10. Busy(c, k)'
  BY <1>6, <1>8, <1>9 DEF Busy
<1>11. ~Quiet'
  BY <1>1, <1>9 DEF Quiet
<1> QED
  BY <1>1, <1>5, <1>10, <1>11 DEF Data

(* What is said of the client's handler while only control moves.          *)
LEMMA PrimaryStays ==
    ASSUME ReplicasAssumption, ManagerAssumption, NEW k \in RM, NEW f \in Frame, Primary(k, f),
           f.pc \in {"send", "fwd"}, Same,
           \A t, u \in RM : thread[t][u].pc = "group" => thread'[t][u].pc = "group",
           f.pc = "fwd" => /\ thread'[k][f.wait].pc = thread[k][f.wait].pc
                           /\ thread'[k][f.wait].op = thread[k][f.wait].op
    PROVE  Primary(k, f)'
<1>1. PICK n, v, g : n = f.name /\ v = machines[k][n] /\ g = groupMap[k][n]
  OBVIOUS
<1>2. n \in Name /\ f.op \in Op
  BY <1>1 DEF Frame
<1>3. /\ \A q \in RM : machines'[q][n] = machines[q][n] /\ groupMap'[q][n] = groupMap[q][n]
      /\ Grouped(k, n) => Grouped(k, n)'
  BY <1>2, SameStays
<1>4. CASE f.op = "create"
  <2>1. Creating(k, f) /\ f.pc = "send"
    BY <1>4 DEF Primary, Creating
  <2>2. Spreading(k, n, f.val, g, f.i)
    BY <1>1, <2>1 DEF Creating
  <2>3. \A q \in RM : /\ Empty(q, n) => Empty(q, n)'
                      /\ Copy(q, n, f.val, g) => Copy(q, n, f.val, g)'
                      /\ Inserted(q, n, f.val) => Inserted(q, n, f.val)'
    BY <1>3 DEF Empty, Copy, Inserted
  <2>4. IsGroup(g) /\ \A j \in 1 .. 3 : g[j] \in RM
    BY <2>2, GroupMembers DEF Spreading
  <2>5. Spreading(k, n, f.val, g, f.i)'
    BY <2>2, <2>3, <2>4 DEF Spreading, GroupSize
  <2>6. Creating(k, f)'
    BY <1>1, <1>3, <2>1, <2>5 DEF Creating
  <2> QED
    BY <1>4, <2>6 DEF Primary
<1>5. CASE f.op = "getState"
  BY <1>1, <1>3, <1>5 DEF Primary, Reading
<1>6. ASSUME Forwarding(k, f), f.pc = "fwd"
      PROVE  Forwarding(k, f)'
  <2>1. \A j \in 1 .. 3 : f.vec[j] \in RM
    BY <1>6, GroupMembers DEF Forwarding
  <2>2. \A j \in 1 .. 3 : f.wait # NoRM /\ j = f.i => f.vec[j] = f.wait
    BY <1>6 DEF Forwarding
  <2>3. \A j \in 1 .. 3 : Stage(k, f, j)' = Stage(k, f, j)
    BY <1>6, <2>2 DEF Stage
  <2>4. \A j \in 1 .. 3 : Backup(f.vec[j], f, v, Stage(k, f, j))
    BY <1>1, <1>6 DEF Forwarding, GroupSize
  <2>5. ASSUME NEW j \in 1 .. 3, NEW e, e = Stage(k, f, j)
        PROVE  Backup(f.vec[j], f, v, e)'
    <3>1. Backup(f.vec[j], f, v, e)
      BY <2>4, <2>5
    <3> QED
      BY <1>1, <1>3, <2>1, <3>1 DEF Backup, Copy, Empty
  <2>6. \A j \in 1 .. 3 : Backup(f.vec[j], f, v, Stage(k, f, j))'
    BY <2>3, <2>5
  <2>7. \A q \in RM : q \notin ToSet(f.vec) => Empty(q, n)'
    BY <1>1, <1>3, <1>6 DEF Forwarding, Empty, Copy
  <2>8. machines'[k][n] = v
    BY <1>1, <1>3
  <2> QED
    BY <1>1, <1>6, <2>6, <2>7, <2>8 DEF Forwarding, GroupSize
<1>7. CASE f.op = "apply"
  <2>1. Applying(k, f) /\ f.fromFrontEnd
    BY <1>7 DEF Primary
  <2>2. Applying(k, f)'
    BY <1>1, <1>3, <1>6, <2>1 DEF Applying
  <2> QED
    BY <1>7, <2>1, <2>2 DEF Primary
<1>8. CASE f.op = "remove"
  <2>1. Removing(k, f) /\ f.fromFrontEnd
    BY <1>8 DEF Primary
  <2>2. Removing(k, f)'
    BY <1>6, <2>1 DEF Removing
  <2> QED
    BY <1>8, <2>1, <2>2 DEF Primary
<1> QED
  BY <1>2, <1>4, <1>5, <1>7, <1>8 DEF Op

(* A manager that is asked to host a machine: what is known of the steps.  *)
LEMMA RecruitKnows ==
    ASSUME ReplicasAssumption, ManagerAssumption, NEW c \in Client, NEW s, Calm(c, s),
           NEW p \in RM, NEW r \in RM, NEW h, Ready(p, r, h), h # Idle, h.op = "create"
    PROVE  \E k \in RM : \E f \in Frame : \E n \in Name : \E g, v :
             /\ f = thread[c][k] /\ f # Idle /\ f.pc \in {"send", "fwd"} /\ Primary(k, f)
             /\ n = f.name /\ g = groupMap[k][n] /\ v = machines[k][n]
             /\ f.pc = "fwd" => f.wait \in RM /\ <<k, f.wait>> # <<p, r>>
             /\ Secondary(k, f, p, r, h) /\ BackupCreate(k, f, r, h)
             /\ IsGroup(g) /\ v \in Value /\ h.name = n /\ r \in ToSet(g) /\ h.vec = g
             /\ f.op = "create" => v = f.val /\ h.val = v /\ Spreading(k, n, v, g, f.i)
             /\ f.op # "create" => machines[r][n] # Nil /\ groupMap[r][n] = g
             /\ \A t, u \in RM : thread[t][u].pc = "group" => t = p /\ u = r
<1>1. PICK k \in RM : /\ thread[c][k] # Idle /\ thread[c][k].wait # NoRM
                      /\ thread[c][k].pc \in {"send", "fwd"}
                      /\ Secondary(k, thread[c][k], p, r, h)
  BY ServesManager DEF Ready
<1>2. PICK f, n, g, v : /\ f = thread[c][k] /\ n = thread[c][k].name
                        /\ g = groupMap[k][thread[c][k].name] /\ v = machines[k][thread[c][k].name]
  OBVIOUS
<1>3. f \in Frame /\ n \in Name /\ Primary(k, f) /\ n = f.name /\ f.wait \in Id
  BY <1>1, <1>2, ServesClient DEF Frame
<1>4. BackupCreate(k, f, r, h) /\ h.name = n
  BY <1>1, <1>2 DEF Secondary
<1>5. /\ IsGroup(g) /\ v \in Value /\ r \in ToSet(g) /\ h.vec = g
      /\ f.op = "create" => v = f.val /\ h.val = v /\ Spreading(k, n, v, g, f.i)
      /\ f.op # "create" => machines[r][n] \in Value /\ groupMap[r][n] = g
  BY <1>1, <1>2, <1>3, <1>4, MembersHold DEF BackupCreate
<1>6. ASSUME NEW t \in RM, NEW u \in RM, thread[t][u].pc = "group"
      PROVE  t = p /\ u = r
  <2>1. t \in Proc /\ p \in Proc /\ thread[t][u] # Idle
    BY <1>6 DEF Proc, Idle
  <2>2. thread[t][u].wait = NoRM
    BY <1>6, <2>1 DEF Calm, WaitInv, WaitsAtCall
  <2> QED
    BY <2>1, <2>2, OneRuns DEF Calm, Ready
<1>7. ASSUME f.pc = "fwd"
      PROVE  f.wait \in RM /\ <<k, f.wait>> # <<p, r>>
  <2>1. f.wait \in RM
    BY <1>1, <1>2, <1>3 DEF Id
  <2>2. Forwarding(k, f)
    BY <1>3, <1>4, <1>7, MembersHold DEF BackupCreate
  <2>3. thread[k][f.wait].op = f.op
    BY <1>1, <1>2, <2>2 DEF Forwarding
  <2>4. f.op # "create"
    BY <1>3, <1>7 DEF Primary, Creating
  <2> QED
    BY <2>1, <2>3, <2>4 DEF Ready
<1>8. machines[r][n] \in Value => machines[r][n] # Nil
  BY DEF ManagerAssumption
<1> QED
  BY <1>1, <1>2, <1>3, <1>4, <1>5, <1>6, <1>7, <1>8

(* A step that changes nothing but control.                                *)
LEMMA RecruitStays ==
    ASSUME ReplicasAssumption, ManagerAssumption, NEW c \in Client, NEW s, Calm(c, s),
           NEW p \in RM, NEW r \in RM, NEW h, Ready(p, r, h), h # Idle, h.op = "create",
           h.pc # "group", Moves(p, r), Same,
           NEW k \in RM, NEW f, f = thread[c][k], f # Idle, Secondary(k, f, p, r, h),
           NEW x, x = thread'[p][r], BackupCreate(k, f, r, x)'
    PROVE  Data(c)'
<1>1. PICK l \in RM, e \in Frame, n \in Name :
             /\ e = thread[c][l] /\ e # Idle /\ e.pc \in {"send", "fwd"} /\ Primary(l, e)
             /\ n = e.name
             /\ e.pc = "fwd" => e.wait \in RM /\ <<l, e.wait>> # <<p, r>>
             /\ \A t, u \in RM : thread[t][u].pc = "group" => t = p /\ u = r
  BY RecruitKnows
<1>2. l = k /\ e = f
  BY <1>1, ServesClient
<1>3. \A t \in Proc, u \in RM : <<t, u>> # <<p, r>> => thread'[t][u] = thread[t][u]
  BY DEF Moves, Untouched
<1>4. \A t, u \in RM : thread[t][u].pc # "group"
  BY <1>1 DEF Ready
<1>5. f.pc = "fwd" => thread'[k][f.wait] = thread[k][f.wait]
  BY <1>1, <1>2, <1>3 DEF Proc
<1>6. Primary(k, f)'
  BY <1>1, <1>2, <1>4, <1>5, PrimaryStays
<1>7. Elsewhere(f.name) /\ Lasting(f.name)
  BY <1>1, <1>2, SameStays DEF Lasting
<1>8. x.op = h.op /\ x.name = h.name /\ x.fromFrontEnd = h.fromFrontEnd
  BY DEF Moves, SameRequest, Ready
<1>9. Secondary(k, f, p, r, x)'
  BY <1>8 DEF Secondary
<1> QED
  BY <1>6, <1>7, <1>9, SecondaryGoesOn

LEMMA RecruitStep ==
    ASSUME ReplicasAssumption, ManagerAssumption, NEW c \in Client, NEW s, Calm(c, s),
           NEW p \in RM, NEW r \in RM, NEW h, Ready(p, r, h), h # Idle, h.op = "create",
           ServerStep(p, r), ~SendCreate(p, r)
    PROVE  Data(c)'
<1>1. PICK k \in RM, f \in Frame : \E n \in Name : \E g, v :
             /\ f = thread[c][k] /\ f # Idle /\ f.pc \in {"send", "fwd"} /\ Primary(k, f)
             /\ n = f.name /\ g = groupMap[k][n] /\ v = machines[k][n]
             /\ Secondary(k, f, p, r, h) /\ BackupCreate(k, f, r, h)
             /\ IsGroup(g) /\ v \in Value /\ h.name = n /\ r \in ToSet(g) /\ h.vec = g
             /\ f.op = "create" => v = f.val /\ h.val = v /\ Spreading(k, n, v, g, f.i)
             /\ f.op # "create" => machines[r][n] # Nil /\ groupMap[r][n] = g
             /\ \A t, u \in RM : thread[t][u].pc = "group" => t = p /\ u = r
  BY RecruitKnows
<1>2. PICK n, g, v, x : /\ n = f.name /\ g = groupMap[k][f.name] /\ v = machines[k][f.name]
                        /\ x = thread'[p][r]
  OBVIOUS
<1>3. /\ n \in Name /\ f = thread[c][k] /\ f # Idle /\ f.pc \in {"send", "fwd"} /\ Primary(k, f)
      /\ Secondary(k, f, p, r, h) /\ BackupCreate(k, f, r, h)
      /\ IsGroup(g) /\ v \in Value /\ h.name = n /\ r \in ToSet(g) /\ h.vec = g
      /\ f.op = "create" => v = f.val /\ h.val = v /\ Spreading(k, n, v, g, f.i)
      /\ f.op # "create" => machines[r][n] # Nil /\ groupMap[r][n] = g
      /\ \A t, u \in RM : thread[t][u].pc = "group" => t = p /\ u = r
  BY <1>1, <1>2
<1>4. /\ p \in Proc /\ h \in Frame /\ h.wait = NoRM /\ h = thread[p][r] /\ TypeOK /\ AllUp
      /\ Nil \notin Value
  BY DEF Ready, Proc, Calm, ManagerAssumption
<1>5. /\ Sound(r, h)
      /\ h.pc \in {"prune", "send"} => groupMap[r][n] = g
  <2>1. Primary(k, f) /\ Secondary(k, f, p, r, h) /\ h = thread[p][r] /\ h \in Frame
    BY <1>3, <1>4
  <2>2. /\ Sound(r, h)
        /\ h.pc \in {"prune", "send"} => groupMap[r][h.name] = groupMap[k][h.name]
    BY <2>1, SecondarySound
  <2> QED
    BY <1>2, <1>3, <2>2
<1>6. v # Nil /\ g # Nil /\ g \in Seq(RM) /\ Len(g) = 3
  <2>1. g # Nil /\ Len(g) = 3
    BY <1>3, GroupMembers
  <2> QED
    BY <1>3, <1>4, <2>1 DEF IsGroup
<1>7. ASSUME Moves(p, r)
      PROVE  x.op = h.op /\ x.name = h.name /\ x.val = h.val /\ x.fromFrontEnd = h.fromFrontEnd
  BY <1>2, <1>4, <1>7 DEF Moves, SameRequest
<1>8. ASSUME Same
      PROVE  /\ machines'[r][n] = machines[r][n] /\ groupMap'[r][n] = groupMap[r][n]
             /\ groupMap'[k][n] = g
  BY <1>2, <1>3, <1>8, SameStays
<1>9. ASSUME Same, Moves(p, r), h.pc # "group", BackupCreate(k, f, r, x)'
      PROVE  Data(c)'
  BY <1>2, <1>3, <1>9, RecruitStays
<1>10. CASE CreateDup(p, r)
  <2>1. /\ h.pc = "dup"
        /\ IF machines[r][n] # Nil
           THEN Goes(p, r, "error", h.i, h.vec, h.res) /\ SetsList(r, n, g)
           ELSE Goes(p, r, "lock", h.i, h.vec, h.res) /\ Same
    BY <1>3, <1>4, <1>10, DupShape
  <2>2. CASE machines[r][n] # Nil
    <3>1. groupMap[r][n] = g
      <4>1. f.op = "create" => Empty(r, n) \/ Copy(r, n, v, g)
        BY <1>3, <1>4, <2>1 DEF Spreading, Inserted
      <4> QED
        BY <1>3, <2>2, <4>1 DEF Empty, Copy
    <3>2. Same /\ Moves(p, r) /\ Has(x, "error", h.i, h.vec, h.res)
      BY <1>2, <2>1, <2>2, <3>1 DEF Goes, SetsList, Same
    <3>3. BackupCreate(k, f, r, x)'
      BY <1>2, <1>3, <1>7, <1>8, <2>2, <3>1, <3>2 DEF BackupCreate, Has
    <3> QED
      BY <1>9, <2>1, <3>2, <3>3
  <2>3. CASE machines[r][n] = Nil
    <3>1. Same /\ Moves(p, r) /\ Has(x, "lock", h.i, h.vec, h.res)
      BY <1>2, <2>1, <2>3 DEF Goes
    <3>2. f.op = "create" /\ Empty(r, n)
      BY <1>3, <1>6, <2>3 DEF Spreading, Inserted, Empty, Copy
    <3>3. BackupCreate(k, f, r, x)'
      BY <1>2, <1>3, <1>7, <1>8, <3>1, <3>2 DEF BackupCreate, Has, Empty, Copy
    <3> QED
      BY <1>9, <2>1, <3>1, <3>3
  <2> QED
    BY <2>2, <2>3
<1>11. CASE Lock(p, r)
  <2>1. h.pc = "lock" /\ Same /\ Goes(p, r, "insert", 1, h.vec, h.res)
    BY <1>4, <1>11, LockShape
  <2>2. Moves(p, r) /\ Has(x, "insert", 1, h.vec, h.res)
    BY <1>2, <2>1 DEF Goes
  <2>3. Empty(r, n) /\ f.op = "create"
    BY <1>2, <1>3, <2>1 DEF BackupCreate
  <2>4. BackupCreate(k, f, r, x)'
    BY <1>2, <1>3, <1>7, <1>8, <2>1, <2>2, <2>3 DEF BackupCreate, Has, Empty, Copy
  <2> QED
    BY <1>9, <2>1, <2>2, <2>4
<1>12. CASE PruneEnd(p, r)
  <2>1. h.pc = "prune"
    BY <1>4, <1>12, StepAt
  <2>2. ~(Len(groupMap[r][n]) < GroupSize)
    BY <1>5, <1>6, <2>1 DEF GroupSize
  <2>3. Same /\ Goes(p, r, "send", 1, h.vec, h.res)
    BY <1>3, <1>4, <1>5, <1>12, <2>2, PruneEndShape
  <2>4. Moves(p, r) /\ Has(x, "send", 1, h.vec, h.res)
    BY <1>2, <2>3 DEF Goes
  <2>5. f.op = "create" /\ machines[r][n] # Nil /\ groupMap[r][n] = g
    BY <1>2, <1>3, <2>1 DEF BackupCreate
  <2>6. BackupCreate(k, f, r, x)'
    BY <1>2, <1>3, <1>7, <1>8, <2>3, <2>4, <2>5 DEF BackupCreate, Has
  <2> QED
    BY <1>9, <2>1, <2>3, <2>4, <2>6
<1>13. CASE SendEnd(p, r)
  <2>1. h.pc = "send"
    BY <1>4, <1>13, StepAt
  <2>2. Same /\ Goes(p, r, "reply", 0, h.vec, h.res)
    BY <1>4, <1>5, <1>13, SendEndShape
  <2>3. Moves(p, r) /\ Has(x, "reply", 0, h.vec, h.res)
    BY <1>2, <2>2 DEF Goes
  <2>4. f.op = "create" /\ machines[r][n] # Nil /\ groupMap[r][n] = g
    BY <1>2, <1>3, <2>1 DEF BackupCreate
  <2>5. BackupCreate(k, f, r, x)'
    BY <1>2, <1>3, <1>7, <1>8, <2>2, <2>3, <2>4 DEF BackupCreate, Has
  <2> QED
    BY <1>9, <2>1, <2>2, <2>3, <2>5
<1>14. ASSUME f.op = "create", r # k, Moves(p, r), h.pc \in {"insert", "group"},
              machines[r][n] = Nil \/ groupMap[r][n] = Nil,
              \A q \in RM, m \in Name : q # r \/ m # n =>
                 machines'[q][m] = machines[q][m] /\ groupMap'[q][m] = groupMap[q][m],
              Copy(r, n, v, g)' \/ (Copy(r, n, v, Nil)' /\ x.pc = "group"),
              BackupCreate(k, f, r, x)'
       PROVE  Data(c)'
  <2>1. Elsewhere(n) /\ Lasting(n)
    BY <1>3, <1>14 DEF Elsewhere, Lasting
  <2>2. Inserted(r, n, v)' \/ Copy(r, n, v, g)'
    BY <1>2, <1>14 DEF Inserted, Copy
  <2>3. ASSUME NEW q \in RM, q # r
        PROVE  Empty(q, n)' \/ (q \in ToSet(g) /\ Copy(q, n, v, g)')
    <3>1. \A t \in RM : thread[t][q].pc # "group"
      BY <1>3, <2>3
    <3>2. Empty(q, n) \/ (q \in ToSet(g) /\ Copy(q, n, v, g))
      BY <1>3, <1>14, <2>3, <3>1 DEF Spreading, Inserted
    <3> QED
      BY <1>3, <1>14, <2>3, <3>2 DEF Empty, Copy
  <2>4. ASSUME NEW j \in 1 .. 3, j < f.i
        PROVE  Copy(g[j], n, v, g)'
    <3>1. Copy(g[j], n, v, g) /\ g[j] \in RM
      BY <1>3, <1>14, <2>4, GroupMembers DEF Spreading, GroupSize
    <3>2. g[j] # r
      BY <1>6, <1>14, <3>1 DEF Copy
    <3> QED
      BY <1>3, <1>14, <3>1, <3>2 DEF Copy
  <2>5. Copy(k, n, v, g)' /\ k \in ToSet(g)
    BY <1>2, <1>3, <1>14 DEF Spreading, Copy
  <2>6. Spreading(k, n, v, g, f.i)'
    BY <1>3, <2>2, <2>3, <2>4, <2>5 DEF Spreading, GroupSize
  <2>7. Creating(k, f) /\ f.fromFrontEnd /\ f.pc = "send"
    BY <1>3, <1>14 DEF Primary, Creating
  <2>8. groupMap'[k][n] = g
    BY <1>2, <1>3, <1>14
  <2>9. Creating(k, f)'
    <3>1. n = f.name /\ f.val = v /\ g = groupMap[k][n]
      BY <1>2, <1>3, <1>14
    <3> QED
      BY <2>6, <2>7, <2>8, <3>1 DEF Creating
  <2>10. Primary(k, f)'
    BY <1>14, <2>7, <2>9 DEF Primary
  <2>11. Secondary(k, f, p, r, x)'
    BY <1>3, <1>7, <1>14 DEF Secondary
  <2> QED
    BY <1>2, <1>3, <1>4, <1>14, <2>1, <2>10, <2>11, SecondaryGoesOn
<1>15. CASE Insert(p, r)
  <2>1. h.pc = "insert"
    BY <1>4, <1>15, StepAt
  <2>2. Empty(r, n) /\ f.op = "create" /\ h.val = v /\ h.i = 1
    BY <1>2, <1>3, <2>1 DEF BackupCreate
  <2>3. SetsMachine(r, n, v) /\ Goes(p, r, "group", 1, h.vec, h.res)
    BY <1>3, <1>4, <1>15, <2>2, InsertShape DEF Empty, Copy
  <2>4. Moves(p, r) /\ Has(x, "group", 1, h.vec, h.res)
    BY <1>2, <2>3 DEF Goes
  <2>5. r # k
    BY <1>2, <1>6, <2>2 DEF Empty, Copy
  <2>6. Copy(r, n, v, Nil)' /\ groupMap'[k][n] = g
    <3>1. n \in Name /\ groupMap[k][n] = g
      BY <1>2, <1>3
    <3>2. machines'[r][n] = v /\ groupMap'[r][n] = groupMap[r][n]
          /\ groupMap'[k][n] = groupMap[k][n]
      BY <2>3, <3>1 DEF SetsMachine
    <3>3. groupMap[r][n] = Nil
      BY <2>2 DEF Empty, Copy
    <3> QED
      BY <3>1, <3>2, <3>3 DEF Copy
  <2>7. BackupCreate(k, f, r, x)'
    BY <1>2, <1>3, <1>7, <2>2, <2>4, <2>6 DEF BackupCreate, Has
  <2>8. \A q \in RM, m \in Name : q # r \/ m # n =>
                 machines'[q][m] = machines[q][m] /\ groupMap'[q][m] = groupMap[q][m]
    BY <2>3 DEF SetsMachine
  <2> QED
    BY <1>14, <2>1, <2>2, <2>4, <2>5, <2>6, <2>7, <2>8 DEF Has, Empty, Copy
<1>16. CASE InsertGroup(p, r)
  <2>1. h.pc = "group"
    BY <1>4, <1>16, StepAt
  <2>2. Copy(r, n, v, Nil) /\ f.op = "create" /\ h.val = v /\ h.i = 1
    BY <1>2, <1>3, <2>1 DEF BackupCreate
  <2>3. SetsList(r, n, g) /\ Goes(p, r, "prune", 1, h.vec, h.res)
    BY <1>3, <1>4, <1>16, <2>2, InsertGroupShape DEF Copy
  <2>4. Moves(p, r) /\ Has(x, "prune", 1, h.vec, h.res)
    BY <1>2, <2>3 DEF Goes
  <2>5. r # k
    BY <1>2, <1>6, <2>2 DEF Copy
  <2>6. Copy(r, n, v, g)' /\ groupMap'[k][n] = g
    <3>1. n \in Name /\ groupMap[k][n] = g
      BY <1>2, <1>3
    <3>2. machines'[r][n] = machines[r][n] /\ groupMap'[r][n] = g
          /\ groupMap'[k][n] = groupMap[k][n]
      BY <2>3, <2>5, <3>1 DEF SetsList
    <3>3. machines[r][n] = v
      BY <2>2 DEF Copy
    <3> QED
      BY <3>1, <3>2, <3>3 DEF Copy
  <2>7. BackupCreate(k, f, r, x)'
    BY <1>2, <1>3, <1>6, <1>7, <2>2, <2>4, <2>6 DEF BackupCreate, Has, Copy
  <2>8. \A q \in RM, m \in Name : q # r \/ m # n =>
                 machines'[q][m] = machines[q][m] /\ groupMap'[q][m] = groupMap[q][m]
    BY <2>3 DEF SetsList
  <2> QED
    BY <1>14, <2>1, <2>2, <2>4, <2>5, <2>6, <2>7, <2>8 DEF Has, Copy
<1>17. h.pc \in {"dup", "error", "lock", "insert", "group", "prune", "send", "reply"}
  BY <1>3 DEF BackupCreate
<1>18. ~Prune(p, r)
  BY <1>4, <1>5, PruneShape
<1> QED
  BY <1>4, <1>10, <1>11, <1>12, <1>13, <1>15, <1>16, <1>17, <1>18, StepAt DEF ServerStep

LEMMA SecondaryStays ==
    ASSUME NEW k \in RM, NEW f \in Frame, NEW p, NEW r \in RM, NEW h, Same, Secondary(k, f, p, r, h)
    PROVE  Secondary(k, f, p, r, h)'
<1>1. f.name \in Name
  BY DEF Frame
<1>2. /\ machines'[r][f.name] = machines[r][f.name] /\ groupMap'[r][f.name] = groupMap[r][f.name]
      /\ groupMap'[k][f.name] = groupMap[k][f.name]
  BY <1>1, SameStays
<1>3. BackupCreate(k, f, r, h) => BackupCreate(k, f, r, h)'
  BY <1>2 DEF BackupCreate, Empty, Copy
<1>4. BackupRepeat(k, f, p, r, h) => BackupRepeat(k, f, p, r, h)'
  BY DEF BackupRepeat
<1> QED
  BY <1>3, <1>4 DEF Secondary

(* A member of the group sends the machine and the list to another.        *)
LEMMA SecondarySends ==
    ASSUME ReplicasAssumption, ManagerAssumption, NEW c \in Client, NEW s, Calm(c, s),
           NEW p \in RM, NEW r \in RM, NEW h, Ready(p, r, h), h # Idle, SendCreate(p, r)
    PROVE  Data(c)'
<1>1. PICK k \in RM : /\ thread[c][k] # Idle /\ thread[c][k].wait # NoRM
                      /\ thread[c][k].pc \in {"send", "fwd"}
                      /\ Secondary(k, thread[c][k], p, r, h)
  BY ServesManager DEF Ready
<1>2. PICK f, n, g : f = thread[c][k] /\ n = f.name /\ g = groupMap[k][n]
  OBVIOUS
<1>3. /\ f \in Frame /\ n \in Name /\ Primary(k, f) /\ f.wait \in RM /\ Busy(c, k)
      /\ \A u \in RM : thread[c][u] # Idle => u = k
  BY <1>1, <1>2, ServesClient DEF Frame, Id
<1>4. /\ f.pc \in {"send", "fwd"} /\ f # Idle /\ Secondary(k, f, p, r, h)
      /\ h = thread[p][r] /\ h \in Frame /\ h.name = n /\ TypeOK /\ AllUp /\ p \in Proc
      /\ c \notin RM /\ c \in Proc /\ \A t \in RM : t \in Proc
  BY <1>1, <1>2 DEF Ready, Secondary, Calm, Proc, ReplicasAssumption, Id
<1>5. h.pc = "send"
  BY <1>4, StepAt
<1>6. Sound(r, h) /\ groupMap[r][h.name] = groupMap[k][h.name]
  BY <1>3, <1>4, <1>5, SecondarySound
<1>7. /\ Same
      /\ \E j \in 1 .. Len(g) :
           /\ IsNext(r, g, h.i, j) /\ g[j] \in RM
           /\ Sends(p, r, h, j, g[j], Request("create", n, machines[r][n], g, FALSE))
  BY <1>2, <1>4, <1>6, SendCreateShape
<1>8. PICK j : /\ j \in 1 .. Len(g) /\ IsNext(r, g, h.i, j) /\ g[j] \in RM
               /\ Sends(p, r, h, j, g[j], Request("create", n, machines[r][n], g, FALSE))
  BY <1>7
<1>9. PICK q, x, y : q = g[j] /\ x = thread'[p][r] /\ y = thread'[r][q]
  OBVIOUS
<1>10. /\ q \in RM /\ q # r /\ Calls(p, r, q) /\ Has(x, "send", j, h.vec, h.res)
       /\ y = Request("create", n, machines[r][n], g, FALSE)
  BY <1>5, <1>8, <1>9 DEF Sends, IsNext
<1>11. /\ y.op = "create" /\ y.name = n /\ y.val = machines[r][n] /\ y.vec = g
       /\ ~y.fromFrontEnd /\ y.pc = "dup"
  BY <1>10 DEF Request
<1>12. /\ x.op = h.op /\ x.name = n /\ x.val = h.val /\ x.fromFrontEnd = h.fromFrontEnd
       /\ x.pc = "send" /\ x.vec = h.vec /\ x # Idle /\ thread[r][q] = Idle
       /\ \A t \in Proc, u \in RM :
            <<t, u>> \notin {<<p, r>>, <<r, q>>} => thread'[t][u] = thread[t][u]
  BY <1>4, <1>9, <1>10 DEF Calls, SameRequest, Has
<1>13. \A u \in RM : thread'[c][u] = thread[c][u]
  BY <1>4, <1>12
<1>14. f.op # "remove"
  BY <1>4, <1>5 DEF Secondary, BackupCreate, BackupRepeat, Frame, Op
<1>15. Primary(k, f)'
  <2>1. ASSUME NEW t \in RM, NEW u \in RM
        PROVE  thread[t][u].pc = "group" => thread'[t][u].pc = "group"
    <3>1. <<t, u>> \in {<<p, r>>, <<r, q>>} => thread[t][u].pc # "group"
      BY <1>4, <1>5, <1>12 DEF Idle
    <3> QED
      BY <1>4, <1>12, <3>1
  <2>2. thread[k][f.wait] # Idle
    BY <1>2, <1>3, <1>4 DEF Calm, WaitInv, WaitsForAnswer, Waiting
  <2>3. /\ thread'[k][f.wait].pc = thread[k][f.wait].pc
        /\ thread'[k][f.wait].op = thread[k][f.wait].op
    <3>1. CASE <<k, f.wait>> = <<p, r>>
      BY <1>4, <1>5, <1>9, <1>12, <3>1
    <3>2. CASE <<k, f.wait>> # <<p, r>>
      BY <1>3, <1>4, <1>12, <2>2, <3>2
    <3> QED
      BY <3>1, <3>2
  <2> QED
    BY <1>3, <1>4, <1>7, <2>1, <2>3, PrimaryStays
<1>16. Secondary(k, f, p, r, x)'
  <2>1. Secondary(k, f, p, r, x)
    BY <1>4, <1>5, <1>12 DEF Secondary, BackupCreate, BackupRepeat
  <2> QED
    BY <1>3, <1>7, <2>1, SecondaryStays
<1>17. Secondary(k, f, r, q, y)'
  <2>1. IsGroup(g) /\ (f.op = "create" => machines[k][n] = f.val /\ Spreading(k, n, f.val, g, f.i))
    BY <1>2, <1>3, <1>4, <1>14, MembersHold
  <2>2. q \in ToSet(g)
    BY <1>8, <1>9, <2>1, GroupMembers
  <2>3. f.op = "create" => machines[r][n] = f.val
    <3>1. machines[r][n] # Nil
      BY <1>4, <1>5, <1>6 DEF Sound
    <3> QED
      BY <2>1, <3>1 DEF Spreading, Empty, Inserted, Copy
  <2>4. BackupCreate(k, f, q, y)
    BY <1>2, <1>4, <1>11, <1>14, <2>2, <2>3 DEF BackupCreate
  <2>5. Secondary(k, f, r, q, y)
    BY <1>2, <1>11, <2>4 DEF Secondary
  <2> QED
    BY <1>3, <1>7, <1>10, <2>5, SecondaryStays
<1>18. ASSUME NEW t \in RM, NEW u \in RM, thread'[t][u] # Idle
       PROVE  Secondary(k, f, t, u, thread[t][u])'
  <2>1. CASE <<t, u>> = <<p, r>>
    BY <1>9, <1>16, <2>1
  <2>2. CASE <<t, u>> = <<r, q>>
    BY <1>9, <1>17, <2>2
  <2>3. CASE <<t, u>> \notin {<<p, r>>, <<r, q>>}
    <3>1. PICK z : z = thread[t][u]
      OBVIOUS
    <3>2. thread'[t][u] = z /\ z # Idle
      BY <1>4, <1>12, <1>18, <2>3, <3>1
    <3>3. Secondary(k, f, t, u, z)
      BY <1>2, <1>3, <3>1, <3>2 DEF Busy
    <3>4. Secondary(k, f, t, u, z)'
      BY <1>3, <1>7, <3>3, SecondaryStays
    <3> QED
      BY <3>2, <3>4
  <2> QED
    BY <2>1, <2>2, <2>3
<1>19. \A m \in Name : m # n => Consistent(m)'
  BY <1>2, <1>3, <1>7, SameStays DEF Busy
<1>20. f = thread'[c][k]
  BY <1>2, <1>13
<1>21. Busy(c, k)'
  BY <1>2, <1>15, <1>18, <1>19, <1>20 DEF Busy
<1>22. ~Quiet'
  BY <1>4, <1>20 DEF Quiet
<1> QED
  BY <1>3, <1>13, <1>21, <1>22 DEF Data

(* Only the copy of the member that repeats the request changes.           *)
LEMMA RepeatGoesOn ==
    ASSUME ReplicasAssumption, ManagerAssumption, NEW c \in Client, NEW s, Calm(c, s),
           NEW p \in RM, NEW r \in RM, NEW h, Ready(p, r, h), h # Idle, h.op # "create",
           Moves(p, r),
           NEW k \in RM, NEW f, f = thread[c][k], f # Idle, Secondary(k, f, p, r, h),
           NEW x, x = thread'[p][r], BackupRepeat(k, f, p, r, x),
           \A q \in RM, m \in Name : q # r \/ m # f.name =>
              machines'[q][m] = machines[q][m] /\ groupMap'[q][m] = groupMap[q][m],
           NEW v, v = machines[k][f.name], Backup(r, f, v, x.pc)'
    PROVE  Data(c)'
<1>1. f \in Frame /\ f.name \in Name /\ Primary(k, f)
  BY ServesClient
<1>2. /\ p = k /\ r # k /\ f.wait = r /\ f.pc = "fwd" /\ h.op = f.op /\ h.name = f.name
      /\ Forwarding(k, f) /\ f.i \in 1 .. 3 /\ f.vec[f.i] = r /\ r \in ToSet(f.vec)
      /\ v \in Value
      /\ f.op # "remove" => f.op = "apply" /\ f.val \in Value /\ Apply(v, f.val) \in Value
  BY <1>1, RepeatIsForwarded DEF Ready
<1>3. IsGroup(f.vec) /\ k \in ToSet(f.vec) /\ r \in ToSet(f.vec)
  BY <1>2 DEF Forwarding
<1>4. \A j \in 1 .. 3 : f.vec[j] \in RM /\ (f.vec[j] = r => j = f.i)
  BY <1>2, <1>3, GroupMembers DEF IsGroup, GroupSize
<1>5. \A j \in 1 .. 3 : j # f.i => Stage(k, f, j)' = Stage(k, f, j)
  BY DEF Stage
<1>6. Stage(k, f, f.i)' = x.pc
  <2>1. r # NoRM
    BY NoRMOut DEF NoRMIsNoManager
  <2> QED
    BY <1>2, <2>1 DEF Stage
<1>7. ASSUME NEW j \in 1 .. 3, j # f.i, NEW e, e = Stage(k, f, j)
      PROVE  Backup(f.vec[j], f, v, e)'
  <2>1. Backup(f.vec[j], f, v, e) /\ f.vec[j] # r
    BY <1>2, <1>4, <1>7 DEF Forwarding, GroupSize
  <2> QED
    BY <1>1, <1>4, <2>1 DEF Backup, Copy, Empty
<1>8. \A j \in 1 .. 3 : Backup(f.vec[j], f, v, Stage(k, f, j))'
  <2>1. Backup(f.vec[f.i], f, v, Stage(k, f, f.i))'
    BY <1>2, <1>6
  <2> QED
    BY <1>5, <1>7, <2>1
<1>9. machines'[k][f.name] = v
  BY <1>1, <1>2
<1>10. \A q \in RM : q \notin ToSet(f.vec) => Empty(q, f.name)'
  BY <1>1, <1>2 DEF Forwarding, Empty, Copy
<1>11. x.op = h.op /\ x.name = h.name /\ x.fromFrontEnd = h.fromFrontEnd
  BY DEF Moves, SameRequest, Ready
<1>12. Forwarding(k, f)'
  BY <1>2, <1>3, <1>8, <1>9, <1>10, <1>11 DEF Forwarding, GroupSize
<1>13. Primary(k, f)'
  BY <1>1, <1>2, <1>12 DEF Primary, Applying, Removing, Frame, Op
<1>14. BackupRepeat(k, f, p, r, x)'
  BY DEF BackupRepeat
<1>15. Secondary(k, f, p, r, x)'
  BY <1>11, <1>14 DEF Secondary
<1>16. Elsewhere(f.name)
  BY DEF Elsewhere
<1>17. f.op = "apply" => Lasting(f.name)
  <2>1. ASSUME f.op = "apply"
        PROVE  machines'[r][f.name] # Nil /\ groupMap'[r][f.name] = groupMap[r][f.name]
    <3>1. Backup(r, f, v, h.pc)
      BY <1>1, RepeatIsForwarded DEF Ready
    <3> QED
      BY <1>2, <2>1, <3>1 DEF Backup, Copy, ManagerAssumption
  <2> QED
    BY <1>1, <2>1 DEF Lasting
<1> QED
  BY <1>2, <1>13, <1>15, <1>16, <1>17, SecondaryGoesOn

LEMMA RepeatStep ==
    ASSUME ReplicasAssumption, ManagerAssumption, NEW c \in Client, NEW s, Calm(c, s),
           NEW p \in RM, NEW r \in RM, NEW h, Ready(p, r, h), h # Idle, h.op # "create",
           ServerStep(p, r), ~SendCreate(p, r)
    PROVE  Data(c)'
<1>1. PICK k \in RM : /\ thread[c][k] # Idle /\ thread[c][k].pc \in {"send", "fwd"}
                      /\ Secondary(k, thread[c][k], p, r, h)
  BY ServesManager DEF Ready
<1>2. PICK f, n, v, x : /\ f = thread[c][k] /\ n = f.name /\ v = machines[k][n]
                        /\ x = thread'[p][r]
  OBVIOUS
<1>3. /\ f \in Frame /\ n \in Name /\ Primary(k, f) /\ f # Idle /\ Secondary(k, f, p, r, h)
  BY <1>1, <1>2, ServesClient
<1>4. /\ p \in Proc /\ h \in Frame /\ h.wait = NoRM /\ h = thread[p][r] /\ TypeOK /\ AllUp
      /\ Nil \notin Value
  BY DEF Ready, Proc, Calm, ManagerAssumption
<1>5. /\ p = k /\ r # k /\ h.op = f.op /\ h.name = n /\ v \in Value /\ IsGroup(f.vec)
      /\ Backup(r, f, v, h.pc)
      /\ f.op # "remove" => f.op = "apply" /\ f.val \in Value /\ Apply(v, f.val) \in Value
  BY <1>2, <1>3, <1>4, RepeatIsForwarded DEF Forwarding
<1>6. /\ Sound(r, h)
      /\ h.pc \in {"prune", "send"} => IsGroup(groupMap[r][n])
  <2>1. /\ Sound(r, h)
        /\ h.pc \in {"prune", "send"} => IsGroup(groupMap[r][h.name])
    BY <1>3, <1>4, SecondarySound
  <2> QED
    BY <1>5, <2>1
<1>7. BackupRepeat(k, f, p, r, h) /\ ~h.fromFrontEnd
  BY <1>3 DEF Secondary
<1>8. ASSUME Moves(p, r)
      PROVE  x.op = f.op /\ x.name = n /\ x.val = f.val
  BY <1>2, <1>4, <1>5, <1>7, <1>8 DEF Moves, SameRequest, BackupRepeat
<1>9. ASSUME Moves(p, r), BackupRepeat(k, f, p, r, x), Backup(r, f, v, x.pc)',
             \A q \in RM, m \in Name : q # r \/ m # n =>
                machines'[q][m] = machines[q][m] /\ groupMap'[q][m] = groupMap[q][m]
      PROVE  Data(c)'
  BY <1>2, <1>3, <1>9, RepeatGoesOn
<1>10. ASSUME Same, Moves(p, r), BackupRepeat(k, f, p, r, x), NEW pc, x.pc = pc,
              Backup(r, f, v, pc)
       PROVE  Data(c)'
  <2>1. /\ \A q \in RM, m \in Name :
             machines'[q][m] = machines[q][m] /\ groupMap'[q][m] = groupMap[q][m]
        /\ Backup(r, f, v, x.pc)'
    BY <1>2, <1>3, <1>10 DEF Same, Backup, Copy, Empty
  <2> QED
    BY <1>9, <1>10, <2>1
<1>11. CASE f.op = "apply"
  <2>1. /\ h.pc \in {"check", "lock", "prune", "send", "local", "unlock", "reply"}
        /\ h.op = "apply" /\ h.val = f.val /\ f.pc = "fwd" /\ f.wait = r
    BY <1>5, <1>7, <1>11 DEF BackupRepeat
  <2>2. Copy(r, n, IF h.pc \in {"unlock", "reply"} THEN Apply(v, f.val) ELSE v, f.vec)
    BY <1>2, <1>5, <1>11 DEF Backup
  <2>3. machines[r][n] # Nil
    BY <1>4, <1>5, <1>11, <2>2 DEF Copy
  <2>4. ASSUME Moves(p, r), NEW pc, NEW i, x.pc = pc, x.i = i,
               pc \in {"lock", "prune", "send", "local", "unlock", "reply"}, pc = "prune" => i = 1
        PROVE  BackupRepeat(k, f, p, r, x)
    BY <1>5, <1>8, <1>11, <2>1, <2>4 DEF BackupRepeat
  <2>5. ASSUME NEW pc, h.pc \in {"unlock", "reply"} <=> pc \in {"unlock", "reply"}
        PROVE  Backup(r, f, v, pc)
    BY <1>2, <1>11, <2>2, <2>5 DEF Backup
  <2>6. CASE CheckExists(p, r)
    <3>1. h.pc = "check" /\ Same /\ Goes(p, r, "lock", h.i, h.vec, h.res)
      BY <1>4, <1>5, <2>1, <2>3, <2>6, CheckShape
    <3> QED
      BY <1>2, <1>10, <2>4, <2>5, <3>1 DEF Goes, Has
  <2>7. CASE Lock(p, r)
    <3>1. h.pc = "lock" /\ Same /\ Goes(p, r, "prune", 1, h.vec, h.res)
      BY <1>4, <2>1, <2>7, LockShape
    <3> QED
      BY <1>2, <1>10, <2>4, <2>5, <3>1 DEF Goes, Has
  <2>8. CASE PruneEnd(p, r)
    <3>1. h.pc = "prune"
      BY <1>4, <2>8, StepAt
    <3>2. ~(Len(groupMap[r][h.name]) < GroupSize)
      BY <1>5, <1>6, <3>1, GroupMembers DEF GroupSize
    <3>3. Same /\ Goes(p, r, "send", 1, h.vec, h.res)
      BY <1>4, <1>6, <2>8, <3>2, PruneEndShape
    <3> QED
      BY <1>2, <1>10, <2>4, <2>5, <3>1, <3>3 DEF Goes, Has
  <2>9. CASE SendEnd(p, r)
    <3>1. h.pc = "send"
      BY <1>4, <2>9, StepAt
    <3>2. Same /\ Goes(p, r, "local", 0, h.vec, h.res)
      BY <1>4, <1>6, <1>7, <2>1, <2>9, SendEndShape
    <3> QED
      BY <1>2, <1>10, <2>4, <2>5, <3>1, <3>2 DEF Goes, Has
  <2>10. CASE ApplyLocal(p, r)
    <3>1. h.pc = "local"
      BY <1>4, <2>10, StepAt
    <3>2. machines[r][n] = v /\ groupMap[r][n] = f.vec
      BY <2>2, <3>1 DEF Copy
    <3>3. PICK w : w = Apply(v, f.val)
      OBVIOUS
    <3>4. SetsMachine(r, n, w) /\ Goes(p, r, "unlock", h.i, h.vec, w)
      BY <1>4, <1>5, <2>1, <2>10, <3>2, <3>3, ApplyLocalShape
    <3>5. Moves(p, r) /\ x.pc = "unlock" /\ x.i = h.i
      BY <1>2, <3>4 DEF Goes, Has
    <3>6. Backup(r, f, v, x.pc)'
      BY <1>2, <1>3, <1>11, <3>2, <3>3, <3>4, <3>5 DEF Backup, Copy, SetsMachine
    <3>7. \A q \in RM, m \in Name : q # r \/ m # n =>
                machines'[q][m] = machines[q][m] /\ groupMap'[q][m] = groupMap[q][m]
      BY <3>4 DEF SetsMachine
    <3>8. BackupRepeat(k, f, p, r, x)
      BY <2>4, <3>5
    <3> QED
      BY <1>9, <3>5, <3>6, <3>7, <3>8
  <2>11. CASE Unlock(p, r)
    <3>1. h.pc = "unlock" /\ Same /\ Goes(p, r, "reply", h.i, h.vec, h.res)
      BY <1>4, <2>11, UnlockShape
    <3> QED
      BY <1>2, <1>10, <2>4, <2>5, <3>1 DEF Goes, Has
  <2>12. ~Prune(p, r)
    BY <1>4, <1>6, PruneShape
  <2> QED
    BY <1>4, <2>1, <2>6, <2>7, <2>8, <2>9, <2>10, <2>11, <2>12, StepAt DEF ServerStep
<1>12. CASE f.op = "remove"
  <2>1. /\ h.pc \in {"check", "lock", "erase", "eraseGroup", "reply"}
        /\ h.op = "remove" /\ h.val = f.val /\ f.pc = "fwd" /\ f.wait = r
    BY <1>5, <1>7, <1>12 DEF BackupRepeat
  <2>2. IF h.pc = "reply" THEN Empty(r, n)
        ELSE Copy(r, n, IF h.pc = "eraseGroup" THEN Nil ELSE v, f.vec)
    BY <1>2, <1>5, <1>12 DEF Backup
  <2>3. ASSUME Moves(p, r), NEW pc, x.pc = pc, pc \in {"lock", "erase", "eraseGroup", "reply"}
        PROVE  BackupRepeat(k, f, p, r, x)
    BY <1>5, <1>8, <1>12, <2>1, <2>3 DEF BackupRepeat
  <2>4. CASE CheckExists(p, r)
    <3>1. h.pc = "check"
      BY <1>4, <2>4, StepAt
    <3>2. machines[r][n] # Nil /\ Copy(r, n, v, f.vec)
      BY <1>4, <1>5, <2>2, <3>1 DEF Copy
    <3>3. Same /\ Goes(p, r, "lock", h.i, h.vec, h.res)
      BY <1>4, <1>5, <1>7, <2>1, <2>4, <3>2, CheckShape
    <3>4. Backup(r, f, v, "lock")
      BY <1>2, <1>12, <3>2 DEF Backup
    <3> QED
      BY <1>2, <1>10, <2>3, <3>3, <3>4 DEF Goes, Has
  <2>5. CASE Lock(p, r)
    <3>1. h.pc = "lock" /\ Same /\ Goes(p, r, "erase", 1, h.vec, h.res)
      BY <1>4, <2>1, <2>5, LockShape
    <3>2. Backup(r, f, v, "erase")
      BY <1>2, <1>12, <2>2, <3>1 DEF Backup
    <3> QED
      BY <1>2, <1>10, <2>3, <3>1, <3>2 DEF Goes, Has
  <2>6. CASE Erase(p, r)
    <3>1. /\ h.pc = "erase" /\ SetsMachine(r, n, Nil)
          /\ Goes(p, r, "eraseGroup", h.i, h.vec, h.res)
      BY <1>4, <1>5, <2>6, EraseShape
    <3>2. Moves(p, r) /\ x.pc = "eraseGroup"
      BY <1>2, <3>1 DEF Goes, Has
    <3>3. groupMap[r][n] = f.vec
      BY <2>2, <3>1 DEF Copy
    <3>4. Backup(r, f, v, x.pc)'
      BY <1>2, <1>3, <1>12, <3>1, <3>2, <3>3 DEF Backup, Copy, SetsMachine
    <3>5. \A q \in RM, m \in Name : q # r \/ m # n =>
                machines'[q][m] = machines[q][m] /\ groupMap'[q][m] = groupMap[q][m]
      BY <3>1 DEF SetsMachine
    <3>6. BackupRepeat(k, f, p, r, x)
      BY <2>3, <3>2
    <3> QED
      BY <1>9, <3>2, <3>4, <3>5, <3>6
  <2>7. CASE EraseGroup(p, r)
    <3>1. /\ h.pc = "eraseGroup" /\ SetsList(r, n, Nil)
          /\ Goes(p, r, "reply", h.i, h.vec, h.res)
      BY <1>4, <1>5, <2>7, EraseGroupShape
    <3>2. Moves(p, r) /\ x.pc = "reply"
      BY <1>2, <3>1 DEF Goes, Has
    <3>3. machines[r][n] = Nil
      BY <2>2, <3>1 DEF Copy
    <3>4. Backup(r, f, v, x.pc)'
      BY <1>2, <1>3, <1>12, <3>1, <3>2, <3>3 DEF Backup, Copy, Empty, SetsList
    <3>5. \A q \in RM, m \in Name : q # r \/ m # n =>
                machines'[q][m] = machines[q][m] /\ groupMap'[q][m] = groupMap[q][m]
      BY <3>1 DEF SetsList
    <3>6. BackupRepeat(k, f, p, r, x)
      BY <2>3, <3>2
    <3> QED
      BY <1>9, <3>2, <3>4, <3>5, <3>6
  <2> QED
    BY <1>4, <2>1, <2>4, <2>5, <2>6, <2>7, StepAt DEF ServerStep
<1> QED
  BY <1>5, <1>11, <1>12

-----------------------------------------------------------------------------
(* Answers                                                                 *)

LEMMA ResumedFields ==
    ASSUME NEW f \in Frame, NEW e, e = Resume(f)
    PROVE  /\ e.op = f.op /\ e.name = f.name /\ e.val = f.val /\ e.vec = f.vec
           /\ e.fromFrontEnd = f.fromFrontEnd /\ e.pc = f.pc /\ e.res = f.res
           /\ e.wait = NoRM /\ e.i = f.i + 1 /\ f.i \in Nat /\ e # Idle
<1>1. /\ e.op = f.op /\ e.name = f.name /\ e.val = f.val /\ e.vec = f.vec
      /\ e.fromFrontEnd = f.fromFrontEnd /\ e.pc = f.pc /\ e.res = f.res
      /\ e.wait = NoRM /\ e.i = f.i + 1 /\ f.i \in Nat
  BY DEF Resume, Frame
<1>2. e # Idle
  BY ResumeWaits
<1> QED
  BY <1>1, <1>2

(* A handler of a manager that the client's handler waits for, and that    *)
(* does not wait, is the only other.                                       *)
LEMMA CallerIsClient ==
    ASSUME ReplicasAssumption, NEW c \in Client, NEW s, Path(c, s), NEW k \in RM, NEW r \in RM,
           thread[c][k] # Idle, thread[k][r] # Idle, thread[k][r].wait = NoRM,
           thread[c][k].wait = r, NEW t \in Proc, NEW u \in RM, thread[t][u] # Idle
    PROVE  (t = c /\ u = k) \/ (t = k /\ u = r)
<1>1. c \in Proc /\ k \in Proc /\ c # k /\ NoRM \notin RM
  BY NoRMOut DEF NoRMIsNoManager, Proc, ReplicasAssumption, Id
<1>2. Len(s) \in Nat \ {0} /\ k = From(c, s, Len(s)) /\ r = s[Len(s)]
  BY <1>1, RunsLast
<1>3. s[1] = k
  BY <1>1, ClientFirst
<1>4. Len(s) # 1
  BY <1>1, <1>2 DEF From
<1>5. s[2] = r
  <2>1. thread[From(c, s, 1)][s[1]].wait = s[2]
    <3>1. 1 \in 1 .. Len(s) /\ 1 # Len(s) /\ 1 + 1 = 2
      BY <1>2, <1>4
    <3>2. \A i \in 1 .. Len(s) :
            thread[From(c, s, i)][s[i]].wait = IF i = Len(s) THEN NoRM ELSE s[i + 1]
      BY DEF Path
    <3> QED
      BY <3>1, <3>2
  <2> QED
    BY <1>3, <2>1 DEF From
<1>6. Len(s) = 2
  <2>1. From(c, s, 2) = k /\ From(c, s, Len(s)) = k /\ s[2] = s[Len(s)]
    BY <1>2, <1>3, <1>5 DEF From
  <2>2. 2 \in 1 .. Len(s) /\ Len(s) \in 1 .. Len(s)
    <3>1. PICK m : m = Len(s)
      OBVIOUS
    <3>2. m \in Nat /\ m # 0 /\ m # 1
      BY <1>2, <1>4, <3>1
    <3>3. 2 \in 1 .. m /\ m \in 1 .. m
      BY <3>2
    <3> QED
      BY <3>1, <3>3
  <2>3. \A i, j \in 1 .. Len(s) : From(c, s, i) = From(c, s, j) /\ s[i] = s[j] => i = j
    BY DEF Path
  <2> QED
    BY <2>1, <2>2, <2>3
<1>7. PICK i \in 1 .. Len(s) : t = From(c, s, i) /\ u = s[i]
  BY DEF Path
<1>8. i = 1 \/ i = 2
  BY <1>6, <1>7
<1> QED
  BY <1>3, <1>5, <1>7, <1>8 DEF From

(* The client's handler goes on with its loop, after the answer.           *)
LEMMA PrimaryResumes ==
    ASSUME ReplicasAssumption, ManagerAssumption, NEW k \in RM, NEW f \in Frame, Primary(k, f),
           f.pc \in {"send", "fwd"}, Same, NEW r \in RM, f.wait = r,
           NEW h \in Frame, h = thread[k][r], h.pc \in {"reply", "error"},
           Secondary(k, f, k, r, h), \A t, u \in RM : thread[t][u].pc # "group",
           NEW e, e = Resume(f)
    PROVE  Primary(k, e)'
<1>1. PICK n, v, g : n = f.name /\ v = machines[k][n] /\ g = groupMap[k][n]
  OBVIOUS
<1>2. n \in Name /\ f.op \in Op /\ r # NoRM /\ f.i \in Nat
  BY <1>1, NoRMOut DEF Frame, NoRMIsNoManager
<1>3. /\ \A q \in RM : machines'[q][n] = machines[q][n] /\ groupMap'[q][n] = groupMap[q][n]
      /\ Grouped(k, n) => Grouped(k, n)'
  BY <1>2, SameStays
<1>4. /\ e.op = f.op /\ e.name = n /\ e.val = f.val /\ e.vec = f.vec
      /\ e.fromFrontEnd = f.fromFrontEnd /\ e.pc = f.pc /\ e.res = f.res
      /\ e.wait = NoRM /\ e.i = f.i + 1
  BY <1>1, ResumedFields
<1>5. CASE f.op = "create"
  <2>1. Creating(k, f) /\ f.pc = "send" /\ f.fromFrontEnd
    BY <1>5 DEF Primary, Creating
  <2>2. Spreading(k, n, f.val, g, f.i) /\ g[f.i] = r
    BY <1>1, <1>2, <2>1 DEF Creating
  <2>3. IsGroup(g) /\ g # Nil /\ \A j \in 1 .. 3 : g[j] \in RM
    BY <2>2, GroupMembers DEF Spreading
  <2>4. \A q \in RM : Empty(q, n) \/ (q \in ToSet(g) /\ Copy(q, n, f.val, g))
    BY <2>2 DEF Spreading, Inserted
  <2>5. BackupCreate(k, f, r, h)
    BY <2>1 DEF Secondary, BackupRepeat
  <2>6. machines[r][n] # Nil
    BY <1>1, <2>5 DEF BackupCreate
  <2>7. Copy(r, n, f.val, g)
    BY <2>4, <2>6 DEF Empty, Copy
  <2>8. \A j \in 1 .. 3 : j < f.i + 1 => Copy(g[j], n, f.val, g)
    BY <1>2, <2>2, <2>7 DEF Spreading, GroupSize
  <2>9. \A q \in RM : Empty(q, n)' \/ (q \in ToSet(g) /\ Copy(q, n, f.val, g)')
    BY <1>3, <2>4 DEF Empty, Copy
  <2>10. \A j \in 1 .. 3 : j < f.i + 1 => Copy(g[j], n, f.val, g)'
    BY <1>3, <2>3, <2>8 DEF Copy
  <2>11. k \in ToSet(g) /\ Copy(k, n, f.val, g)'
    BY <1>3, <2>2 DEF Spreading, Copy
  <2>12. Spreading(k, n, f.val, g, f.i + 1)'
    BY <2>3, <2>9, <2>10, <2>11 DEF Spreading, GroupSize
  <2>13. Creating(k, e)'
    BY <1>1, <1>3, <1>4, <2>1, <2>12 DEF Creating
  <2> QED
    BY <1>4, <1>5, <2>1, <2>13 DEF Primary
<1>6. CASE f.op = "getState"
  BY <1>1, <1>3, <1>4, <1>6 DEF Primary, Reading
<1>7. ASSUME Forwarding(k, f), f.pc = "fwd", f.op \in {"apply", "remove"}
      PROVE  Forwarding(k, e)'
  <2>1. /\ IsGroup(f.vec) /\ k \in ToSet(f.vec) /\ v \in Value /\ f.i \in Nat \ {0}
        /\ \A q \in RM : q \notin ToSet(f.vec) => Empty(q, n)
        /\ \A j \in 1 .. 3 : Backup(f.vec[j], f, v, Stage(k, f, j))
    BY <1>1, <1>7 DEF Forwarding, GroupSize
  <2>a. f.i \in 1 .. 3 /\ f.vec[f.i] = r /\ r # k /\ h.op = f.op
    BY <1>2, <1>7 DEF Forwarding, GroupSize
  <2>2. h.pc = "reply"
    BY <1>7, <2>a DEF Secondary, BackupRepeat
  <2>3. \A j \in 1 .. 3 : f.vec[j] \in RM
    BY <2>1, GroupMembers
  <2>b. Stage(k, f, f.i) = "reply"
    BY <1>2, <2>a, <2>2 DEF Stage
  <2>4. \A j \in 1 .. 3 : Stage(k, f, j) = IF f.vec[j] = k THEN "check"
                                           ELSE IF j < f.i + 1 THEN "reply" ELSE "check"
    <3>1. ASSUME NEW j \in 1 .. 3, j # f.i
          PROVE  Stage(k, f, j) = IF f.vec[j] = k THEN "check"
                                  ELSE IF j < f.i + 1 THEN "reply" ELSE "check"
      BY <2>a, <3>1 DEF Stage
    <3> QED
      BY <2>a, <2>b, <3>1
  <2>5. \A j \in 1 .. 3 : Stage(k, e, j)' = IF f.vec[j] = k THEN "check"
                                           ELSE IF j < f.i + 1 THEN "reply" ELSE "check"
    BY <1>4 DEF Stage
  <2>6. \A j \in 1 .. 3 : Stage(k, e, j)' = Stage(k, f, j)
    BY <2>4, <2>5
  <2>7. ASSUME NEW j \in 1 .. 3, NEW x, x = Stage(k, f, j)
        PROVE  Backup(f.vec[j], e, v, x)'
    <3>1. Backup(f.vec[j], f, v, x)
      BY <2>1, <2>7
    <3> QED
      BY <1>1, <1>3, <1>4, <2>3, <3>1 DEF Backup, Copy, Empty
  <2>8. \A j \in 1 .. 3 : Backup(e.vec[j], e, v, Stage(k, e, j))'
    BY <1>4, <2>6, <2>7
  <2>9. \A q \in RM : q \notin ToSet(e.vec) => Empty(q, n)'
    BY <1>3, <1>4, <2>1 DEF Empty, Copy
  <2>10. machines'[k][n] = v /\ e.i \in Nat \ {0}
    BY <1>1, <1>2, <1>3, <1>4
  <2> QED
    BY <1>4, <2>1, <2>8, <2>9, <2>10 DEF Forwarding, GroupSize
<1>8. CASE f.op = "apply"
  <2>1. Applying(k, f) /\ f.fromFrontEnd
    BY <1>8 DEF Primary
  <2>2. f.pc = "fwd" => Forwarding(k, e)'
    BY <1>7, <1>8, <2>1 DEF Applying
  <2>3. Applying(k, e)'
    BY <1>1, <1>3, <1>4, <2>1, <2>2 DEF Applying
  <2> QED
    BY <1>4, <1>8, <2>1, <2>3 DEF Primary
<1>9. CASE f.op = "remove"
  <2>1. Removing(k, f) /\ f.fromFrontEnd
    BY <1>9 DEF Primary
  <2>2. f.pc = "fwd" => Forwarding(k, e)'
    BY <1>7, <1>9, <2>1 DEF Removing
  <2>3. Removing(k, e)'
    BY <1>4, <2>1, <2>2 DEF Removing
  <2> QED
    BY <1>4, <1>9, <2>1, <2>3 DEF Primary
<1> QED
  BY <1>2, <1>5, <1>6, <1>8, <1>9 DEF Op

(* Whoever waits in a loop is told of nothing but that it may go on.       *)
LEMMA SecondaryResumes ==
    ASSUME NEW k \in RM, NEW f \in Frame, NEW p, NEW r \in RM, NEW h \in Frame,
           Secondary(k, f, p, r, h), h.pc \in {"send", "fwd"}, NEW e, e = Resume(h)
    PROVE  Secondary(k, f, p, r, e)
<1>1. /\ e.op = h.op /\ e.name = h.name /\ e.val = h.val /\ e.vec = h.vec
      /\ e.fromFrontEnd = h.fromFrontEnd /\ e.pc = h.pc
  BY ResumedFields
<1>2. BackupCreate(k, f, r, h) => BackupCreate(k, f, r, e)
  BY <1>1 DEF BackupCreate
<1>3. BackupRepeat(k, f, p, r, h) => BackupRepeat(k, f, p, r, e)
  BY <1>1 DEF BackupRepeat
<1> QED
  BY <1>1, <1>2, <1>3 DEF Secondary

LEMMA SecondaryAnswers ==
    ASSUME ReplicasAssumption, ManagerAssumption, NEW c \in Client, NEW s, Calm(c, s),
           NEW p \in RM, NEW r \in RM, Reply(p, r)
    PROVE  Data(c)'
<1>1. PICK h : h = thread[p][r]
  OBVIOUS
<1>2. /\ h.pc \in {"reply", "error"} /\ thread' = ThreadsAfterReply(p, r) /\ Same
      /\ p \in Proc /\ c \in Proc /\ c \notin RM /\ \A t \in RM : t \in Proc
  BY <1>1, SameWhenUnchanged DEF Reply, Proc, ReplicasAssumption, Id
<1>3. h # Idle /\ h.wait = NoRM /\ TypeOK /\ Path(c, s) /\ NoRM \notin RM
  <2>1. h # Idle
    BY <1>2 DEF Idle
  <2>2. thread[p][r].wait = NoRM
    BY <1>1, <1>2 DEF Calm, WaitInv, WaitsAtCall
  <2> QED
    BY <1>1, <2>1, <2>2, NoRMOut DEF Calm, NoRMIsNoManager
<1>4. PICK k \in RM : /\ thread[c][k] # Idle /\ thread[c][k].wait # NoRM
                      /\ thread[c][k].pc \in {"send", "fwd"}
                      /\ Secondary(k, thread[c][k], p, r, h)
  BY <1>1, <1>3, ServesManager
<1>5. PICK f, n : f = thread[c][k] /\ n = f.name
  OBVIOUS
<1>6. /\ f \in Frame /\ h \in Frame /\ n \in Name /\ Primary(k, f) /\ Busy(c, k)
      /\ f.pc \in {"send", "fwd"} /\ f.wait \in RM /\ Secondary(k, f, p, r, h)
      /\ \A u \in RM : thread[c][u] # Idle => u = k
  <2>1. f \in Frame /\ n \in Name /\ Primary(k, f) /\ Busy(c, k)
        /\ \A u \in RM : thread[c][u] # Idle => u = k
    BY <1>4, <1>5, ServesClient
  <2>2. h \in Frame
    BY <1>1, <1>2, <1>3, FrameThere
  <2>3. f.wait \in RM
    BY <1>4, <1>5, <2>1 DEF Frame, Id
  <2> QED
    BY <1>4, <1>5, <2>1, <2>2, <2>3
<1>7. \A t \in Proc, u \in RM :
        thread'[t][u] = IF t = p /\ u = r THEN Idle
                        ELSE IF u = p /\ thread[t][u].wait = r THEN Resume(thread[t][u])
                        ELSE thread[t][u]
  BY <1>2 DEF ThreadsAfterReply
<1>8. \A m \in Name : m # n => Consistent(m)'
  BY <1>2, <1>5, <1>6, SameStays DEF Busy
<1>9. PICK t \in Proc : thread[t][p] # Idle /\ thread[t][p].wait = r
  BY <1>1, <1>3, HasCaller
<1>10. CASE t = c
  <2>1. p = k /\ f.wait = r
    BY <1>5, <1>6, <1>9, <1>10
  <2>2. \A a \in Proc, b \in RM : thread[a][b] # Idle => (a = c /\ b = k) \/ (a = k /\ b = r)
    BY <1>1, <1>3, <1>4, <1>5, <2>1, CallerIsClient
  <2>3. \A a, b \in RM : thread[a][b].pc # "group"
    <3>1. ASSUME NEW a \in RM, NEW b \in RM, thread[a][b].pc = "group"
          PROVE  FALSE
      <4>1. thread[a][b] # Idle
        BY <3>1 DEF Idle
      <4>2. a = p /\ b = r
        BY <1>2, <2>1, <2>2, <4>1
      <4> QED
        BY <1>1, <1>2, <3>1, <4>2
    <3> QED
      BY <3>1
  <2>4. PICK e : e = Resume(f)
    OBVIOUS
  <2>5. Primary(k, e)'
    BY <1>1, <1>2, <1>6, <2>1, <2>3, <2>4, PrimaryResumes
  <2>6. e # Idle /\ e.name = n
    BY <1>5, <1>6, <2>4, ResumedFields
  <2>7. thread'[c][k] = e
    BY <1>2, <1>5, <1>7, <2>1, <2>4
  <2>8. \A a \in Proc, b \in RM : thread'[a][b] # Idle => a = c /\ b = k
    <3>1. ASSUME NEW a \in Proc, NEW b \in RM, thread'[a][b] # Idle
          PROVE  a = c /\ b = k
      <4>1. ~(a = p /\ b = r)
        BY <1>7, <3>1
      <4>2. thread[a][b] # Idle
        <5>1. thread[a][b].wait = r => thread[a][b] # Idle
          BY <1>3 DEF Idle
        <5> QED
          BY <1>7, <3>1, <4>1, <5>1
      <4> QED
        BY <2>1, <2>2, <4>1, <4>2
    <3> QED
      BY <3>1
  <2>9. Busy(c, k)'
    BY <1>2, <1>8, <2>5, <2>6, <2>7, <2>8 DEF Busy
  <2>10. ~Quiet'
    BY <1>2, <2>6, <2>7 DEF Quiet
  <2> QED
    BY <1>2, <2>8, <2>9, <2>10 DEF Data
<1>11. CASE t # c
  <2>1. \A a \in Proc : thread[a][p].wait = r => a = t
    BY <1>9 DEF Calm, WaitInv, WaitsForAnswer, Waiting
  <2>2. <<k, f.wait>> # <<p, r>>
    BY <1>2, <1>5, <1>11, <2>1
  <2>3. \A u \in RM : thread'[c][u] = thread[c][u]
    BY <1>2, <1>7, <1>11, <2>1
  <2>4. \A a \in Proc, b \in RM : <<a, b>> # <<p, r>> =>
          /\ thread'[a][b].pc = thread[a][b].pc
          /\ thread'[a][b] = thread[a][b] \/ thread'[a][b].op = thread[a][b].op
    BY <1>2, <1>3, AfterReply
  <2>5. \A a, b \in RM : thread[a][b].pc = "group" => thread'[a][b].pc = "group"
    BY <1>1, <1>2, <2>4
  <2>6. thread'[k][f.wait].pc = thread[k][f.wait].pc /\ thread'[k][f.wait].op = thread[k][f.wait].op
    BY <1>2, <1>6, <2>2, <2>4
  <2>7. Primary(k, f)'
    BY <1>2, <1>6, <2>5, <2>6, PrimaryStays
  <2>8. ASSUME NEW a \in RM, NEW b \in RM, thread'[a][b] # Idle, NEW x, x = thread'[a][b]
        PROVE  Secondary(k, f, a, b, x)'
    <3>1. PICK y : y = thread[a][b]
      OBVIOUS
    <3>2. x = y \/ (y.wait = r /\ x = Resume(y))
      BY <1>2, <1>7, <2>8, <3>1
    <3>3. y # Idle
      BY <1>3, <2>8, <3>2 DEF Idle
    <3>4. Secondary(k, f, a, b, y) /\ y \in Frame
      BY <1>2, <1>3, <1>5, <1>6, <3>1, <3>3, FrameThere DEF Busy
    <3>5. y.wait = r => y.pc \in {"send", "fwd"}
      BY <1>2, <1>3, <3>1 DEF Calm, WaitInv, WaitsAtCall
    <3>6. Secondary(k, f, a, b, x)
      BY <1>6, <3>2, <3>4, <3>5, SecondaryResumes
    <3> QED
      BY <1>2, <1>6, <3>6, SecondaryStays
  <2>9. f = thread'[c][k] /\ f # Idle
    BY <1>4, <1>5, <2>3
  <2>10. Busy(c, k)'
    BY <1>5, <1>8, <2>7, <2>8, <2>9 DEF Busy
  <2>11. ~Quiet'
    BY <1>2, <2>9 DEF Quiet
  <2> QED
    BY <1>6, <2>3, <2>10, <2>11 DEF Data
<1> QED
  BY <1>10, <1>11

(* The client gets its answer: the machine is at its group, or nowhere.    *)
LEMMA PrimaryAnswers ==
    ASSUME ReplicasAssumption, ManagerAssumption, NEW c \in Client, NEW s, Calm(c, s),
           NEW k \in RM, Reply(c, k)
    PROVE  Data(c)'
<1>1. PICK f, n : f = thread[c][k] /\ n = f.name
  OBVIOUS
<1>2. /\ f.pc \in {"reply", "error"} /\ thread' = ThreadsAfterReply(c, k) /\ Same
      /\ c \in Proc /\ c \notin RM
  BY <1>1, SameWhenUnchanged DEF Reply, Proc, ReplicasAssumption, Id
<1>3. f # Idle /\ f.wait = NoRM
  <2>1. f # Idle
    BY <1>2 DEF Idle
  <2> QED
    BY <1>1, <1>2, <2>1 DEF Calm, WaitInv, WaitsAtCall
<1>4. f \in Frame /\ n \in Name /\ Primary(k, f) /\ Busy(c, k) /\ f.op \in Op
  BY <1>1, <1>3, ServesClient, FrameThere DEF Calm
<1>5. \A t \in Proc, u \in RM : thread[t][u] # Idle => t = c /\ u = k
  BY <1>1, <1>3, ClientRuns DEF Calm
<1>6. \A t \in Proc, u \in RM : thread'[t][u] = Idle
  BY <1>2, <1>5 DEF ThreadsAfterReply
<1>7. Consistent(n)
  BY <1>1, <1>2, <1>4 DEF Primary, Creating, Reading, Applying, Removing, Consistent, Op
<1>8. \A m \in Name : Consistent(m)'
  BY <1>1, <1>2, <1>4, <1>7, SameStays DEF Busy
<1> QED
  BY <1>2, <1>6, <1>8 DEF Data

(* The client sends a request.                                             *)
LEMMA RequestArrives ==
    ASSUME ReplicasAssumption, ManagerAssumption, NEW c \in Client, NEW s, Calm(c, s),
           NEW k \in RM, NEW C, C \subseteq Op, Arrival(c, k, C),
           \A q \in RM : thread[c][q] = Idle
    PROVE  Data(c)'
<1>1. \A p \in Proc, u \in RM : thread[p][u] = Idle
  BY PathArrival DEF Calm
<1>2. c \in Proc /\ c \notin RM /\ TypeOK /\ Same
  BY SameWhenUnchanged DEF Calm, Proc, ReplicasAssumption, Id, Arrival
<1>3. \A m \in Name : Consistent(m) /\ Consistent(m)'
  BY <1>1, <1>2, SameStays DEF Calm, Data, Quiet
<1>4. PICK op \in C, n \in Name, v \in Value \cup {Nil} :
        /\ op \in {"create", "apply"} <=> v \in Value
        /\ Goto(c, k, Request(op, n, v, IF op = "create" THEN <<k>> ELSE <<>>, TRUE))
  BY DEF Arrival
<1>5. PICK h : h = Request(op, n, v, IF op = "create" THEN <<k>> ELSE <<>>, TRUE)
  OBVIOUS
<1>6. /\ h.op = op /\ h.name = n /\ h.val = v /\ h.fromFrontEnd /\ h # Idle /\ h.res = Nil
      /\ h.pc = IF op = "create" THEN "exists" ELSE "check"
      /\ op = "create" => h.vec = <<k>>
  BY <1>5 DEF Request, Idle
<1>7. thread'[c][k] = h /\ \A p \in Proc, u \in RM : ~(p = c /\ u = k) => thread'[p][u] = Idle
  BY <1>1, <1>2, <1>4, <1>5 DEF Goto, TypeOK
<1>8. Primary(k, h)'
  <2>1. op = "create" => Creating(k, h)'
    BY <1>3, <1>4, <1>6 DEF Creating
  <2>2. op = "getState" => Reading(k, h)'
    BY <1>3, <1>6 DEF Reading
  <2>3. op = "apply" => Applying(k, h)'
    BY <1>3, <1>4, <1>6 DEF Applying
  <2>4. op = "remove" => Removing(k, h)'
    BY <1>3, <1>6 DEF Removing
  <2> QED
    BY <1>6, <2>1, <2>2, <2>3, <2>4 DEF Primary
<1>9. Busy(c, k)'
  BY <1>2, <1>3, <1>6, <1>7, <1>8 DEF Busy, Proc
<1>10. ~Quiet'
  BY <1>2, <1>6, <1>7 DEF Quiet
<1>11. \A u \in RM : thread'[c][u] # Idle => u = k
  BY <1>2, <1>7
<1> QED
  BY <1>9, <1>10, <1>11 DEF Data

-----------------------------------------------------------------------------
(* The invariant                                                           *)

(* A step of the thread that serves the client.                            *)
LEMMA ClientThreadStep ==
    ASSUME ReplicasAssumption, ManagerAssumption, N >= GroupSize,
           NEW c \in Client, NEW s, Calm(c, s), NEW k \in RM, ServerStep(c, k)
    PROVE  Data(c)'
<1>1. PICK f : f = thread[c][k]
  OBVIOUS
<1>2. c \in Proc /\ TypeOK
  BY DEF Proc, Calm
<1>3. Ready(c, k, f) /\ f.op \in Op
  BY <1>1, <1>2, StepReady
<1>4. f # Idle
  BY <1>3 DEF Ready, Frame, Idle
<1>5. CASE SendCreate(c, k)
  BY <1>3, <1>4, <1>5, PrimarySends
<1>6. CASE Forward(c, k)
  BY <1>3, <1>4, <1>6, PrimaryForwards
<1>7. CASE ~SendCreate(c, k) /\ ~Forward(c, k)
  <2>1. f.op \in {"create", "getState", "apply", "remove"}
    BY <1>3 DEF Op
  <2>2. CASE f.op = "create"
    BY <1>3, <1>4, <1>7, <2>2, CreatingStep
  <2>3. CASE f.op = "getState"
    BY <1>3, <1>4, <1>7, <2>3, ReadingStep
  <2>4. CASE f.op = "apply"
    BY <1>3, <1>4, <1>7, <2>4, ApplyingStep
  <2>5. CASE f.op = "remove"
    BY <1>3, <1>4, <1>7, <2>5, RemovingStep
  <2> QED
    BY <2>1, <2>2, <2>3, <2>4, <2>5
<1> QED
  BY <1>5, <1>6, <1>7

(* A step of a thread that serves a manager.                               *)
LEMMA ManagerThreadStep ==
    ASSUME ReplicasAssumption, ManagerAssumption,
           NEW c \in Client, NEW s, Calm(c, s), NEW p \in RM, NEW r \in RM, ServerStep(p, r)
    PROVE  Data(c)'
<1>1. PICK h : h = thread[p][r]
  OBVIOUS
<1>2. p \in Proc /\ TypeOK
  BY DEF Proc, Calm
<1>3. Ready(p, r, h)
  BY <1>1, <1>2, StepReady
<1>4. h # Idle
  BY <1>3 DEF Ready, Frame, Idle
<1>5. CASE SendCreate(p, r)
  BY <1>3, <1>4, <1>5, SecondarySends
<1>6. CASE ~SendCreate(p, r) /\ h.op = "create"
  BY <1>3, <1>4, <1>6, RecruitStep
<1>7. CASE ~SendCreate(p, r) /\ h.op # "create"
  BY <1>3, <1>4, <1>7, RepeatStep
<1> QED
  BY <1>5, <1>6, <1>7

LEMMA PathStays ==
    ASSUME ReplicasAssumption, NEW c \in Client, NEW s, Path(c, s), UNCHANGED thread
    PROVE  Path(c, s)'
<1>1. s \in Seq(RM) /\ \A i \in 1 .. Len(s) : s[i] \in RM /\ From(c, s, i) \in Proc
  BY FromProc DEF Path
<1> QED
  BY <1>1 DEF Path

LEMMA DataStays ==
    ASSUME ManagerAssumption, NEW c \in Client, TypeOK, Data(c),
           UNCHANGED <<machines, groupMap, thread>>
    PROVE  Data(c)'
<1>1. Same
  BY SameWhenUnchanged
<1>2. \A n \in Name : Consistent(n) => Consistent(n)'
  BY <1>1, SameStays
<1>3. Quiet' <=> Quiet
  BY DEF Quiet
<1>4. ASSUME NEW k \in RM, Busy(c, k), thread[c][k] # Idle
      PROVE  Busy(c, k)'
  <2>0. PICK f : f = thread[c][k]
    OBVIOUS
  <2>1. f.name \in Name /\ Primary(k, f)
    BY <1>4, <2>0, FrameThere DEF Busy, Proc
  <2>2. /\ NoCopy(f.name) => NoCopy(f.name)'
        /\ Grouped(k, f.name) => Grouped(k, f.name)'
        /\ OnlyAt(k, f.name) => OnlyAt(k, f.name)'
    BY <1>1, <2>1, SameStays
  <2>3. Creating(k, f) => Creating(k, f)'
    BY <1>2, <2>1, <2>2 DEF Creating, Spreading, Partial, Copy, Empty, Inserted
  <2>4. Reading(k, f) => Reading(k, f)'
    BY <1>2, <2>1, <2>2 DEF Reading
  <2>5. Forwarding(k, f) => Forwarding(k, f)'
    BY DEF Forwarding, Backup, Stage, Copy, Empty
  <2>6. Forwarded(k, f) => Forwarded(k, f)'
    BY DEF Forwarded, Copy, Empty
  <2>7. Applying(k, f) => Applying(k, f)'
    BY <1>2, <2>1, <2>2, <2>5, <2>6 DEF Applying
  <2>8. Removing(k, f) => Removing(k, f)'
    BY <1>2, <2>1, <2>2, <2>5 DEF Removing
  <2>9. Primary(k, f)'
    BY <2>1, <2>3, <2>4, <2>7, <2>8 DEF Primary
  <2>10. f = thread'[c][k]
    BY <2>0
  <2>11. ASSUME NEW p \in RM, NEW r \in RM, thread[p][r] # Idle
         PROVE  Secondary(k, f, p, r, thread[p][r])'
    <3>1. PICK h : h = thread[p][r]
      OBVIOUS
    <3>2. Secondary(k, f, p, r, h)
      BY <1>4, <2>0, <2>11, <3>1 DEF Busy
    <3>3. Secondary(k, f, p, r, h)'
      BY <3>2 DEF Secondary, BackupCreate, BackupRepeat, Empty, Copy
    <3> QED
      BY <3>1, <3>3
  <2> QED
    BY <1>2, <1>4, <2>0, <2>9, <2>10, <2>11 DEF Busy
<1> QED
  BY <1>2, <1>3, <1>4 DEF Data

LEMMA GroupStep ==
    ASSUME ReplicasAssumption, ManagerAssumption, N >= GroupSize,
           NEW c \in Client, NEW s, Calm(c, s),
           NEW C, C \subseteq Op, CalmNext(c, C)
    PROVE  GroupInv(c)'
<1>0. /\ TypeOK /\ AllUp /\ Path(c, s) /\ c \in Proc /\ c \notin RM
      /\ s \in Seq(RM) /\ NoRM \notin RM
  BY NoRMOut DEF Calm, Path, Proc, ReplicasAssumption, Id, NoRMIsNoManager
<1>1. ASSUME NEW p \in Proc, NEW r \in RM, ServerStep(p, r)
      PROVE  GroupInv(c)'
  <2>1. thread[p][r] # Idle /\ thread[p][r].wait = NoRM
    BY <1>0, <1>1, StepKind DEF Frame, Idle
  <2>2. Data(c)'
    <3>1. CASE p \in RM
      BY <1>1, <3>1, ManagerThreadStep
    <3>2. CASE p \in Client
      <4>1. p = c
        BY <1>0, <2>1, <3>2, ClientFirst
      <4> QED
        BY <1>1, <4>1, ClientThreadStep
    <3> QED
      BY <3>1, <3>2 DEF Proc
  <2>3. \E h \in Seq(RM) : Path(c, h)'
    <3>1. CASE Moves(p, r)
      BY <1>0, <2>1, <3>1, PathMoves
    <3>2. ASSUME NEW q \in RM, Calls(p, r, q)
          PROVE  \E h \in Seq(RM) : Path(c, h)'
      <4>1. Path(c, Append(s, q))'
        BY <1>0, <2>1, <3>2, PathCalls
      <4>2. Append(s, q) \in Seq(RM)
        BY <1>0
      <4> QED
        BY <4>1, <4>2
    <3> QED
      BY <1>0, <1>1, <3>1, <3>2, StepKind
  <2>4. AllUp'
    BY <1>0, <1>1, ManagersReached
  <2> QED
    BY <2>2, <2>3, <2>4 DEF GroupInv
<1>2. ASSUME NEW p \in Proc, NEW r \in RM, Reply(p, r)
      PROVE  GroupInv(c)'
  <2>1. thread[p][r] # Idle /\ thread[p][r].wait = NoRM
    BY <1>2 DEF Reply, Idle, Calm, WaitInv, WaitsAtCall
  <2>2. thread' = ThreadsAfterReply(p, r) /\ UNCHANGED <<status, conn>>
    BY <1>2 DEF Reply
  <2>3. Data(c)'
    <3>1. CASE p \in RM
      BY <1>2, <3>1, SecondaryAnswers
    <3>2. CASE p \in Client
      <4>1. p = c
        BY <1>0, <2>1, <3>2, ClientFirst
      <4> QED
        BY <1>2, <4>1, PrimaryAnswers
    <3> QED
      BY <3>1, <3>2 DEF Proc
  <2>4. Path(c, SubSeq(s, 1, Len(s) - 1))'
    BY <1>0, <2>1, <2>2, PathReply
  <2>5. PICK h : h = SubSeq(s, 1, Len(s) - 1)
    OBVIOUS
  <2>6. Path(c, h)'
    BY <2>4, <2>5
  <2>7. AllUp'
    BY <1>0, <2>2 DEF AllUp, Up
  <2> QED
    BY <2>3, <2>6, <2>7 DEF GroupInv, Path
<1>3. ASSUME NEW r \in RM, Arrival(c, r, C), \A q \in RM : thread[c][q] = Idle
      PROVE  GroupInv(c)'
  <2>1. Data(c)'
    BY <1>3, RequestArrives
  <2>2. Path(c, <<r>>)' /\ <<r>> \in Seq(RM)
    BY <1>0, <1>3, PathArrival
  <2>3. AllUp'
    BY <1>0, <1>3 DEF AllUp, Up, Arrival, Connect, Opened, TypeOK
  <2> QED
    BY <2>1, <2>2, <2>3 DEF GroupInv
<1>4. ASSUME UNCHANGED <<status, managerVars>>, \A t \in RM : conn'[t] = conn[t]
      PROVE  GroupInv(c)'
  <2>1. Data(c)'
    BY <1>4, DataStays DEF managerVars, Calm
  <2>2. Path(c, s)'
    BY <1>0, <1>4, PathStays DEF managerVars
  <2>3. AllUp'
    BY <1>0, <1>4 DEF AllUp, Up
  <2> QED
    BY <1>0, <2>1, <2>2, <2>3 DEF GroupInv
<1>5. ASSUME Reconnects(c)
      PROVE  GroupInv(c)'
  <2>1. UNCHANGED <<status, managerVars>> /\ \A t \in RM : conn'[t] = conn[t]
    BY <1>0, <1>5 DEF Reconnects, Connect, Opened, TypeOK, Proc
  <2> QED
    BY <1>4, <2>1
<1>6. CASE UNCHANGED vars
  BY <1>4, <1>6 DEF vars, managerVars
<1>7. \A p \in Proc, r \in RM : ~Escape(p, r) /\ ~Abort(p, r)
  BY NobodyFails
<1> QED
  BY <1>1, <1>2, <1>3, <1>5, <1>6, <1>7 DEF CalmNext, Step

LEMMA GroupInit ==
    ASSUME ReplicasAssumption, ManagerAssumption, Init, Started = RM, NEW c \in Client
    PROVE  GroupInv(c)
<1>1. \A p \in Proc, r \in RM : thread[p][r] = Idle
  BY DEF Init
<1>2. AllUp
  BY DEF Init, ReplicasInit, AllUp, Up, Proc
<1>3. Path(c, <<>>) /\ <<>> \in Seq(RM)
  BY <1>1 DEF Path
<1>4. c \in Proc /\ \A n \in Name : Consistent(n)
  BY DEF Init, Proc, Consistent, NoCopy, Empty, Copy
<1>5. Data(c)
  BY <1>1, <1>4 DEF Data
<1> QED
  BY <1>2, <1>3, <1>5 DEF GroupInv

-----------------------------------------------------------------------------
(* What follows from it                                                    *)

LEMMA GroupedAgree ==
    ASSUME ManagerAssumption, NEW r \in RM, NEW n \in Name, Grouped(r, n)
    PROVE  LET g == groupMap[r][n] IN
           /\ g = Group(r, n) /\ Len(g) = GroupSize /\ Cardinality(ToSet(g)) = GroupSize
           /\ ToSet(g) = Hosting(n)
           /\ \A q \in Hosting(n) : machines[q][n] = machines[r][n] /\ groupMap[q][n] = g
<1>1. PICK g : g = groupMap[r][n]
  OBVIOUS
<1>2. IsGroup(g) /\ g # Nil
  BY <1>1, GroupedCopies
<1>3. /\ Len(g) = 3 /\ ToSet(g) \subseteq RM
      /\ \A j \in 1 .. 3 : g[j] \in ToSet(g)
      /\ \A e \in ToSet(g) : \E j \in 1 .. 3 : g[j] = e
  BY <1>2, GroupMembers
<1>4. g[1] # g[2] /\ g[1] # g[3] /\ g[2] # g[3]
  BY <1>2 DEF IsGroup, GroupSize
<1>5. ToSet(g) = {g[1], g[2], g[3]}
  <2>1. \A j \in 1 .. 3 : j = 1 \/ j = 2 \/ j = 3
    OBVIOUS
  <2> QED
    BY <1>3, <2>1
<1>6. Cardinality(ToSet(g)) = 3
  <2>1. Cardinality({g[1]}) = 1 /\ IsFiniteSet({g[1]})
    BY FS_Singleton
  <2>2. Cardinality({g[1]} \cup {g[2]}) = 2 /\ IsFiniteSet({g[1]} \cup {g[2]})
    <3>1. g[2] \notin {g[1]}
      BY <1>4
    <3>2. Cardinality({g[1]} \cup {g[2]}) = Cardinality({g[1]}) + 1
      BY <2>1, <3>1, FS_AddElement
    <3>3. IsFiniteSet({g[1]} \cup {g[2]})
      BY <2>1, FS_AddElement
    <3> QED
      BY <2>1, <3>2, <3>3
  <2>3. Cardinality(({g[1]} \cup {g[2]}) \cup {g[3]}) = 3
    <3>1. g[3] \notin {g[1]} \cup {g[2]}
      BY <1>4
    <3>2. Cardinality(({g[1]} \cup {g[2]}) \cup {g[3]}) = Cardinality({g[1]} \cup {g[2]}) + 1
      BY <2>2, <3>1, FS_AddElement
    <3> QED
      BY <2>2, <3>2
  <2>4. ToSet(g) = ({g[1]} \cup {g[2]}) \cup {g[3]}
    BY <1>5
  <2> QED
    BY <2>3, <2>4
<1>7. ToSet(g) = Hosting(n)
  BY <1>1, <1>3, GroupedCopies DEF Hosting
<1>8. \A q \in Hosting(n) : machines[q][n] = machines[r][n] /\ groupMap[q][n] = g
  BY <1>1, GroupedCopies DEF Hosting
<1>9. g = Group(r, n)
  BY <1>1, <1>2 DEF Group
<1> QED
  BY <1>1, <1>3, <1>6, <1>7, <1>8, <1>9 DEF GroupSize

LEMMA GroupImplies ==
    ASSUME ReplicasAssumption, ManagerAssumption, TypeOK, WaitInv,
           NEW c, Client = {c}, GroupInv(c)
    PROVE  GroupAgreement /\ AnsweredIsReplicated /\ AnsweredIsEverywhere /\ NoAbort
<1>0. PICK s : Calm(c, s)
  BY DEF GroupInv, Calm
<1>1. ASSUME Quiet, NEW n \in Name, NEW r \in Hosting(n)
      PROVE  /\ Len(groupMap[r][n]) = GroupSize
             /\ ToSet(groupMap[r][n]) = Hosting(n)
             /\ Cardinality(Hosting(n)) = GroupSize
             /\ \A q \in Hosting(n) :
                   machines[q][n] = machines[r][n] /\ groupMap[q][n] = groupMap[r][n]
  <2>1. Consistent(n)
    BY <1>1 DEF GroupInv, Data
  <2>2. r \in RM /\ Grouped(r, n)
    BY <1>1, <2>1, ConsistentHost DEF Hosting
  <2> QED
    BY <2>2, GroupedAgree
<1>2. ASSUME NEW r \in RM, NEW f, f = thread[c][r], At(c, r, "reply"), f.op # "remove"
      PROVE  /\ Grouped(r, f.name) /\ f.name \in Name
             /\ f.op = "apply" => f.res = machines[r][f.name]
  <2>1. f # Idle /\ f.pc = "reply"
    BY <1>2 DEF At, Idle
  <2>2. f.name \in Name /\ Primary(r, f) /\ f.op \in Op
    BY <1>0, <1>2, <2>1, ServesClient DEF Frame
  <2>3. CASE f.op = "create"
    BY <2>1, <2>2, <2>3 DEF Primary, Creating
  <2>4. CASE f.op = "getState"
    BY <2>1, <2>2, <2>4 DEF Primary, Reading
  <2>5. CASE f.op = "apply"
    BY <2>1, <2>2, <2>5 DEF Primary, Applying
  <2> QED
    BY <1>2, <2>2, <2>3, <2>4, <2>5 DEF Op
<1>3. AnsweredIsReplicated
  <2> SUFFICES ASSUME NEW r \in RM, NEW f, f = thread[c][r], At(c, r, "reply"), f.op # "remove"
               PROVE  LET n == f.name
                          G == ToSet(Group(r, n))
                      IN  /\ Len(Group(r, n)) = GroupSize /\ Cardinality(G) = GroupSize
                          /\ \A q \in G : q \in RM /\ Up(q) /\ machines[q][n] = machines[r][n]
    BY DEF AnsweredIsReplicated
  <2>1. Grouped(r, f.name) /\ f.name \in Name
    BY <1>2
  <2>2. \A q \in RM : Up(q)
    BY DEF GroupInv, AllUp
  <2>3. Hosting(f.name) \subseteq RM
    BY DEF Hosting
  <2> QED
    BY <2>1, <2>2, <2>3, GroupedAgree
<1>4. AnsweredIsEverywhere
  <2> SUFFICES ASSUME NEW r \in RM, NEW f, f = thread[c][r], At(c, r, "reply"), f.op = "apply",
                      NEW q \in Hosting(f.name)
               PROVE  machines[q][f.name] = f.res
    BY DEF AnsweredIsEverywhere
  <2> QED
    BY <1>2, GroupedAgree
<1>5. NoAbort
  BY DEF NoAbort, GroupInv, AllUp, Up
<1> QED
  BY <1>1, <1>3, <1>4, <1>5 DEF GroupAgreement

(* Managers that are up, and may not be stopped.                           *)
LEMMA NobodyStops ==
    ASSUME MaxDown = 0, AllUp, NEW r \in RM
    PROVE  ~Exit(r) /\ ~Start(r)
<1>1. ~Start(r)
  BY DEF Start, AllUp, Up
<1>2. {q \in RM : ~Up(q)} = {}
  BY DEF AllUp
<1>3. Cardinality({q \in RM : ~Up(q)}) = 0
  BY <1>2, FS_EmptySet
<1>4. ~Exit(r)
  BY <1>3 DEF Exit
<1> QED
  BY <1>1, <1>4

(* With one client, and managers that are never stopped.                   *)
LEMMA NextIsCalm ==
    ASSUME ReplicasAssumption, NEW c, Client = {c}, MaxDown = 0, AllUp, [Next]_vars
    PROVE  CalmNext(c, Command)
<1>1. \A r \in RM : ~Exit(r) /\ ~Start(r)
  BY NobodyStops
<1>2. ASSUME NEW d \in Client, NEW r \in RM, ClientCall(d, r)
      PROVE  d = c /\ Arrival(c, r, Command) /\ \A q \in RM : thread[c][q] = Idle
  BY <1>2 DEF ClientCall, Arrival
<1> QED
  BY <1>1, <1>2 DEF Next, CalmNext

LEMMA GroupAlways ==
    ASSUME NEW c, Client = {c}, Started = RM, MaxDown = 0, N >= GroupSize
    PROVE  Spec => [](TypeOK /\ WaitInv /\ GroupInv(c))
<1> USE ReplicasAssumption, ManagerAssumption
<1> DEFINE Inv == WaitInv /\ GroupInv(c)
<1>1. Init => Inv
  BY WaitInit, GroupInit
<1>2. TypeOK /\ Inv /\ [Next]_vars => Inv'
  <2> SUFFICES ASSUME TypeOK, Inv, [Next]_vars
               PROVE  Inv'
    OBVIOUS
  <2>1. WaitInv'
    BY NextIsOpen, WaitStep
  <2>2. CalmNext(c, Command)
    BY NextIsCalm DEF GroupInv
  <2>3. PICK s : Calm(c, s)
    BY DEF GroupInv, Calm
  <2>4. Command \subseteq Op
    BY DEF ManagerAssumption, Op
  <2>5. GroupInv(c)'
    BY <2>2, <2>3, <2>4, GroupStep
  <2> QED
    BY <2>1, <2>5
<1>3. TypeOK /\ Inv => TypeOK /\ WaitInv /\ GroupInv(c)
  OBVIOUS
<1> HIDE DEF Inv
<1> QED
  BY <1>1, <1>2, <1>3, TypeCorrect, PTL DEF Spec

LEMMA GroupHolds ==
    ASSUME NEW c, Client = {c}, Started = RM, MaxDown = 0, N >= GroupSize
    PROVE  Spec => [](GroupAgreement /\ AnsweredIsReplicated /\ AnsweredIsEverywhere /\ NoAbort)
<1> USE ReplicasAssumption, ManagerAssumption
<1>1. Spec => [](TypeOK /\ WaitInv /\ GroupInv(c))
  BY GroupAlways
<1>2. TypeOK /\ WaitInv /\ GroupInv(c) =>
        GroupAgreement /\ AnsweredIsReplicated /\ AnsweredIsEverywhere /\ NoAbort
  BY GroupImplies
<1> QED
  BY <1>1, <1>2, PTL

(***************************************************************************)
(* With one client, any number of managers from three on, and none of them *)
(* failing: whenever no request is being served, each machine is hosted by *)
(* exactly three managers, with the same state and the same list of these  *)
(* three, or by none.                                                      *)
(***************************************************************************)
THEOREM GroupsAgree ==
    ASSUME NEW c, Client = {c}, Started = RM, MaxDown = 0, N >= GroupSize
    PROVE  Spec => []GroupAgreement
BY GroupHolds, PTL

(***************************************************************************)
(* In the same setting, create(), apply() and getState() answer the client *)
(* only when three managers host the machine in the answering manager's    *)
(* state.                                                                  *)
(***************************************************************************)
THEOREM AnswersAreReplicated ==
    ASSUME NEW c, Client = {c}, Started = RM, MaxDown = 0, N >= GroupSize
    PROVE  Spec => []AnsweredIsReplicated
BY GroupHolds, PTL

(***************************************************************************)
(* In the same setting, when apply() answers the client every copy of the  *)
(* machine has the answered state.                                         *)
(***************************************************************************)
THEOREM AnswersAreEverywhere ==
    ASSUME NEW c, Client = {c}, Started = RM, MaxDown = 0, N >= GroupSize
    PROVE  Spec => []AnsweredIsEverywhere
BY GroupHolds, PTL

(***************************************************************************)
(* In the same setting no handler reaches a null machine or runs off a     *)
(* list, whatever the client sends: remove() and apply() of several        *)
(* machines included.                                                      *)
(***************************************************************************)
THEOREM OneClientIsSafe ==
    ASSUME NEW c, Client = {c}, Started = RM, MaxDown = 0, N >= GroupSize
    PROVE  Spec => []NoAbort
BY GroupHolds, PTL
=============================================================================
