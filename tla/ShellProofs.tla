------------------------------ MODULE ShellProofs ------------------------------
(***************************************************************************)
(* The client process over the managers, with one client and as long as no *)
(* manager fails: what holds of the copies holds here too, and the shell's *)
(* commands are requests to a StateMachineService that is a single host.   *)
(***************************************************************************)
EXTENDS ShellRefinement, ServiceProofs, FrontEndProofs

-----------------------------------------------------------------------------
(* The front end as the one client of managers that do not fail            *)

(* A shell at its prompt, or in a command and not waiting, has no request. *)
LEMMA NoneAsked ==
    ASSUME ReplicasAssumption, ShellInv, NEW c \in Client, shell[c].wait = NoRM
    PROVE  \A q \in RM : thread[c][q] = Idle
<1>1. \A q \in RM : q # NoRM
  BY NoRMOut DEF NoRMIsNoManager
<1> QED
  BY <1>1 DEF ShellInv, OneRequest

(* Everything but an answer, and the steps of the managers, finds that.    *)
LEMMA ClientIdles ==
    ASSUME ReplicasAssumption, ShellInv, NEW c \in Client,
           TypeCommand(c) \/ Quit(c) \/ ClientStep(c),
           \A q \in RM : ~Answer(c, q) /\ ~Lost(c, q)
    PROVE  \A q \in RM : thread[c][q] = Idle
<1>1. shell[c].wait = NoRM
  BY Zenon DEF TypeCommand, Quit, ClientStep, Return, Scan, CreateAt, Get, CallStub, CallNext, In
<1> QED
  BY <1>1, NoneAsked

LEMMA FrontEndIsCalm ==
    ASSUME ReplicasAssumption, ShellAssumption, TypeOK, ShellInv,
           NEW c, Client = {c}, MaxDown = 0, AllUp, [FrontEndNext]_feVars
    PROVE  CalmNext(c, TypedOp)
<1>0. c \in Client /\ c \in Proc
  BY DEF Proc
<1>1. \A r \in RM : ~Exit(r) /\ ~Start(r)
  BY NobodyStops
<1>2. CASE \A q \in RM : thread[c][q] = Idle
  <2>1. OpenNext(TypedOp)
    BY FrontEndIsOpen
  <2> QED
    BY <1>1, <1>2, <2>1 DEF OpenNext, CalmNext, ManagerStep
<1>3. CASE ~\A q \in RM : thread[c][q] = Idle
  <2>1. CASE TypeCommand(c) \/ Quit(c) \/ ClientStep(c)
    <3>1. PICK q \in RM : Answer(c, q) \/ Lost(c, q)
      BY <1>0, <1>3, <2>1, ClientIdles
    <3>2. Reply(c, q) \/ UNCHANGED vars
      BY <3>1 DEF Answer, Lost
    <3> QED
      BY <1>0, <3>2 DEF CalmNext, Step
  <2>2. ASSUME NEW r \in RM, ServeClient(c, r)
        PROVE  CalmNext(c, TypedOp)
    BY <1>0, <2>2 DEF ServeClient, CalmNext, Step
  <2>3. ASSUME NEW p \in RM, NEW r \in RM, ServeManager(p, r)
        PROVE  CalmNext(c, TypedOp)
    BY <2>3 DEF ServeManager, CalmNext, Proc
  <2>4. \A r \in RM : ~Fail(r) /\ ~Restart(r)
    BY <1>1 DEF Fail, Restart
  <2>5. CASE UNCHANGED feVars
    BY <2>5 DEF feVars, CalmNext
  <2> QED
    BY <2>1, <2>2, <2>3, <2>4, <2>5 DEF FrontEndNext
<1> QED
  BY <1>2, <1>3

(* The invariants of the shell and of the managers together.               *)
Calmly(c) == TypeOK /\ WaitInv /\ GroupInv(c) /\ ShellInv

LEMMA CalmStep ==
    ASSUME ReplicasAssumption, ManagerAssumption, ShellAssumption, N >= GroupSize,
           NEW c, Client = {c}, MaxDown = 0, Calmly(c), [FrontEndNext]_feVars
    PROVE  GroupInv(c)'
<1>1. CalmNext(c, TypedOp)
  BY FrontEndIsCalm DEF Calmly, GroupInv
<1>2. PICK s : Calm(c, s)
  BY DEF Calmly, GroupInv, Calm
<1>3. TypedOp \subseteq Op /\ c \in Client
  BY TypedOps
<1> QED
  BY <1>1, <1>2, <1>3, GroupStep

LEMMA CalmAlways ==
    ASSUME NEW c, Client = {c}, Started = RM, MaxDown = 0, N >= GroupSize
    PROVE  FrontEndSpec => []Calmly(c)
<1> USE ReplicasAssumption, ManagerAssumption, ShellAssumption
<1>1. FrontEndInit => GroupInv(c)
  BY GroupInit DEF FrontEndInit
<1>2. SystemInv /\ GroupInv(c) /\ [FrontEndNext]_feVars => GroupInv(c)'
  BY CalmStep DEF SystemInv, Calmly
<1>3. SystemInv /\ GroupInv(c) => Calmly(c)
  BY DEF SystemInv, Calmly
<1> QED
  BY <1>1, <1>2, <1>3, SystemInvariant, PTL DEF FrontEndSpec

(***************************************************************************)
(* With the shell and the front end over the managers, one client process  *)
(* (or several, one after the other), three managers or more and none of   *)
(* them failing, the machine's copies and lists agree between requests,    *)
(* answers are given only when the copies are in place and, for apply,     *)
(* changed, and no handler crashes; whatever is typed.                     *)
(***************************************************************************)
THEOREM FrontEndCopiesAgree ==
    ASSUME NEW c, Client = {c}, Started = RM, MaxDown = 0, N >= GroupSize
    PROVE  FrontEndSpec =>
              [](GroupAgreement /\ AnsweredIsReplicated /\ AnsweredIsEverywhere /\ NoAbort)
<1> USE ReplicasAssumption, ManagerAssumption
<1>1. Calmly(c) => GroupAgreement /\ AnsweredIsReplicated /\ AnsweredIsEverywhere /\ NoAbort
  BY GroupImplies DEF Calmly
<1> QED
  BY <1>1, CalmAlways, PTL

-----------------------------------------------------------------------------
(* Where a command is, and what the managers hold by then                  *)

(* The control points before a handler has looked for the machine, and     *)
(* after it has refused the request.                                       *)
Unserved == {"check", "error"}

(* No connection of client c has failed.                                   *)
Reaches(c) == \A q \in RM : conn[c][q] # "broken"

Absent(q, n) == machines[q][n] = Nil
Nowhere(n) == \A q \in RM : Absent(q, n)

(* A request is refused because the machine is not there, or, create(),    *)
(* because it is somewhere.                                                *)
Refusable(k, h) == IF h.op = "create" THEN ~Nowhere(h.name) ELSE Absent(k, h.name)
RefusalsRight(c) == \A k \in RM : thread[c][k].pc = "error" => Refusable(k, thread[c][k])

(* Where a command can be, and when it has been done.                      *)
Placed(f) ==
    /\ f.pc \in {"scan", "create"} => f.op = "create"
    /\ f.pc \in {"stub", "next"} => f.op # "create"
    /\ f.pc = "stub" => f.i = 0
    /\ f.pc = "next" /\ f.wait # NoRM => f.wait = f.i
    /\ f.ok => \/ f.pc = "returned"
               \/ f.pc = "get" /\ f.op = "create"
               \/ f.pc = "next" /\ f.op = "remove"

(* It waits for the very request that it is about.                         *)
Awaits(f, h) == h # Idle /\ h.op = f.op /\ h.name = f.name /\ h.val = f.val

(* The managers that the stub's loop has passed do not have the machine.   *)
Passed(f) == \A j \in RM : j < f.i => Absent(j, f.name)

(* In the stub's loop: when remove() goes on with it nobody has the machine *)
(* any more; otherwise the request, if it is not being executed, finds it   *)
(* at this manager or a later one.                                          *)
Looking(f, w, pc) ==
    IF f.ok THEN Nowhere(f.name) /\ (w # NoRM => pc \in Unserved)
    ELSE w = NoRM \/ pc \in Unserved => Passed(f)

CommandOK(c, f) ==
    /\ Placed(f)
    /\ f.wait # NoRM => Awaits(f, thread[c][f.wait])
    /\ f.pc = "next" => Looking(f, f.wait, thread[c][f.wait].pc)

CommandInv(c) ==
    /\ Reaches(c) /\ RefusalsRight(c)
    /\ shell[c] # Prompt => CommandOK(c, shell[c])

-----------------------------------------------------------------------------
(* What the managers' steps do to the request of the client                *)

(* A request is refused when the machine is looked for, and only then; no  *)
(* handler starts anew.                                                    *)
LEMMA RefusedAt ==
    ASSUME ManagerAssumption, TypeOK, AllUp, NEW p \in Proc, NEW r \in RM,
           NEW f, Ready(p, r, f), Sound(r, f), ServerStep(p, r),
           ~CreateExists(p, r), ~CreateDup(p, r), ~CheckExists(p, r)
    PROVE  f.pc \notin Unserved /\ thread'[p][r].pc \notin Unserved
<1> DEFINE pc == thread'[p][r].pc
<1>0. f \in Frame /\ f = thread[p][r] /\ f.wait = NoRM
  BY DEF Ready
<1>1. f.pc \notin Unserved
  BY StepAt DEF ServerStep, Unserved
<1> SUFFICES pc \notin Unserved
  BY <1>1
<1>2. ASSUME NEW x, NEW i, NEW vec, NEW res, Goes(p, r, x, i, vec, res), x \notin Unserved
      PROVE  pc \notin Unserved
  BY <1>2 DEF Goes, Has
<1>3. CASE Read(p, r)
  <2>1. Goto(p, r, [f EXCEPT !.pc = "lock", !.res = machines[r][f.name]])
    BY <1>0, <1>3, Zenon DEF Read
  <2>2. Goes(p, r, "lock", f.i, f.vec, machines[r][f.name])
    BY <1>0, <2>1, GoesOnward, Zenon
  <2> QED
    BY <1>2, <2>2 DEF Unserved
<1>4. CASE InsertGroup(p, r) \/ Insert(p, r) \/ Unlock(p, r) \/ Erase(p, r) \/ EraseGroup(p, r)
  <2>1. PICK x \in {"prune", "group", "reply", "eraseGroup"} : Goto(p, r, [f EXCEPT !.pc = x])
    BY <1>0, <1>4, Zenon DEF InsertGroup, Insert, Unlock, Erase, EraseGroup
  <2>2. Goes(p, r, x, f.i, f.vec, f.res)
    BY <1>0, <2>1, GoesOnward, Zenon
  <2> QED
    BY <1>2, <2>2 DEF Unserved
<1>5. CASE Lock(p, r)
  <2>1. PICK x : /\ x = IF f.op = "create" THEN "insert" ELSE IF f.op = "remove" THEN "erase" ELSE "prune"
                 /\ Goto(p, r, [f EXCEPT !.i = 1, !.pc = x])
    BY <1>0, <1>5, Zenon DEF Lock
  <2>2. Goes(p, r, x, 1, f.vec, f.res)
    BY <1>0, <2>1, GoesOnward, Zenon
  <2> QED
    BY <1>2, <2>1, <2>2 DEF Unserved
<1>6. CASE Prune(p, r)
  <2>1. Goto(p, r, [f EXCEPT !.i = 2])
    BY <1>0, <1>6, Zenon DEF Prune
  <2>2. thread'[p][r] = [f EXCEPT !.i = 2]
    BY <1>0, <2>1, GotoIs
  <2> QED
    BY <1>0, <1>1, <2>2 DEF Frame
<1>7. CASE PruneEnd(p, r)
  <2>1. Goto(p, r, [f EXCEPT !.pc = "select"]) \/ Goto(p, r, [f EXCEPT !.pc = "send", !.i = 1])
    BY <1>0, <1>7, Zenon DEF PruneEnd, Release
  <2>2. Goes(p, r, "select", f.i, f.vec, f.res) \/ Goes(p, r, "send", 1, f.vec, f.res)
    BY <1>0, <2>1, GoesOnward, Zenon
  <2> QED
    BY <1>2, <2>2 DEF Unserved
<1>8. CASE Select(p, r)
  <2>1. UNCHANGED thread \/ Goto(p, r, [f EXCEPT !.pc = "send", !.i = 1])
    BY <1>0, <1>8, Zenon DEF Select, Release
  <2>2. UNCHANGED thread \/ Goes(p, r, "send", 1, f.vec, f.res)
    BY <1>0, <2>1, GoesOnward, Zenon
  <2>3. CASE UNCHANGED thread
    BY <1>0, <1>1, <2>3
  <2> QED
    BY <1>2, <2>2, <2>3 DEF Unserved
<1>9. CASE SendCreate(p, r) \/ Forward(p, r)
  <2>1. CASE SendCreate(p, r)
    <3>1. \E j \in 1 .. Len(groupMap[r][f.name]) :
             Sends(p, r, f, j, groupMap[r][f.name][j],
                   Request("create", f.name, machines[r][f.name], groupMap[r][f.name], FALSE))
      BY <2>1, SendCreateShape, Zenon
    <3>2. pc = f.pc
      BY <3>1, Zenon DEF Sends, Has
    <3> QED
      BY <1>1, <3>2
  <2>2. CASE Forward(p, r)
    <3>1. \E j \in 1 .. Len(f.vec) :
             Sends(p, r, f, j, f.vec[j], Request(f.op, f.name, f.val, <<>>, FALSE))
      BY <2>2, ForwardShape, Zenon
    <3>2. pc = f.pc
      BY <3>1, Zenon DEF Sends, Has
    <3> QED
      BY <1>1, <3>2
  <2> QED
    BY <1>9, <2>1, <2>2
<1>10. CASE SendEnd(p, r)
  <2>1. PICK x : /\ x = IF f.op # "apply" THEN "reply" ELSE IF f.fromFrontEnd THEN "fwdlock" ELSE "local"
                 /\ Goto(p, r, [f EXCEPT !.i = 0, !.pc = x])
    BY <1>0, <1>10, Zenon DEF SendEnd
  <2>2. Goes(p, r, x, 0, f.vec, f.res)
    BY <1>0, <2>1, GoesOnward, Zenon
  <2> QED
    BY <1>2, <2>1, <2>2 DEF Unserved
<1>11. CASE ForwardLock(p, r)
  <2>1. Goto(p, r, [f EXCEPT !.pc = "fwd", !.i = 1, !.vec = Group(r, f.name)])
    BY <1>0, <1>11, Zenon DEF ForwardLock
  <2>2. Goes(p, r, "fwd", 1, Group(r, f.name), f.res)
    BY <1>0, <2>1, GoesOnward, Zenon
  <2> QED
    BY <1>2, <2>2 DEF Unserved
<1>12. CASE ForwardEnd(p, r)
  <2>1. PICK x \in {"local", "lock"} : Goto(p, r, [f EXCEPT !.i = 0, !.vec = <<>>, !.pc = x])
    BY <1>0, <1>12, Zenon DEF ForwardEnd
  <2>2. Goes(p, r, x, 0, <<>>, f.res)
    BY <1>0, <2>1, GoesOnward, Zenon
  <2> QED
    BY <1>2, <2>2 DEF Unserved
<1>13. CASE ApplyLocal(p, r)
  <2>1. PICK res : Goto(p, r, [f EXCEPT !.pc = "unlock", !.res = res])
    BY <1>0, <1>13, Zenon DEF ApplyLocal
  <2>2. Goes(p, r, "unlock", f.i, f.vec, res)
    BY <1>0, <2>1, GoesOnward, Zenon
  <2> QED
    BY <1>2, <2>2 DEF Unserved
<1> QED
  BY <1>1, <1>3, <1>4, <1>5, <1>6, <1>7, <1>8, <1>9, <1>10, <1>11, <1>12, <1>13 DEF ServerStep

(***************************************************************************)
(* While manager k serves the client's request: a handler, or the answer   *)
(* to one that is not the client's.                                        *)
(***************************************************************************)
Serves(c) ==
    \/ \E p \in Proc, r \in RM : ServerStep(p, r)
    \/ \E p, r \in RM : Reply(p, r)

Handles(k, f, h) ==
    /\ Awaits(f, h) /\ f.pc # "error"
    /\ f.pc = "check" \/ h.pc = "error" =>
          \A q \in RM, n \in Name : machines'[q][n] = machines[q][n]
    /\ f.pc = "check" /\ Absent(k, f.name) => h.pc = "error"
    /\ f.pc \notin Unserved /\ f.op # "create" => h.pc \notin Unserved
    /\ h.pc = "error" => Refusable(k, f)

LEMMA HandlersStep ==
    ASSUME ReplicasAssumption, ManagerAssumption, NEW c, Client = {c}, NEW s, Calm(c, s),
           NEW k \in RM, thread[c][k] # Idle, Serves(c)
    PROVE  /\ Handles(k, thread[c][k], thread'[c][k])
           /\ \A u \in RM : u # k => thread'[c][u] = Idle
<1> SUFFICES ASSUME NEW f, f = thread[c][k], NEW h, h = thread'[c][k]
             PROVE  Handles(k, f, h) /\ \A u \in RM : u # k => thread'[c][u] = Idle
  OBVIOUS
<1>0. /\ c \in Client /\ c \in Proc /\ c \notin RM /\ TypeOK /\ AllUp /\ WaitInv
      /\ f \in Frame /\ f # Idle /\ f.name \in Name /\ f.op \in Op /\ Primary(k, f)
      /\ \A u \in RM : u # k => thread[c][u] = Idle
  BY ServesClient DEF Calm, Proc, ReplicasAssumption, Id, Frame
<1>1. ASSUME h # Idle, h.op = f.op, h.name = f.name, h.val = f.val, h.pc = f.pc,
             f.pc \notin Unserved, \A u \in RM : u # k => thread'[c][u] = thread[c][u]
      PROVE  Handles(k, f, h) /\ \A u \in RM : u # k => thread'[c][u] = Idle
  BY <1>0, <1>1 DEF Handles, Awaits, Unserved
<1>2. ASSUME NEW p \in RM, NEW r \in RM, thread[p][r] # Idle
      PROVE  f.pc \notin Unserved
  <2>1. PICK u \in RM : thread[c][u] # Idle /\ thread[c][u].pc \in {"send", "fwd"}
    BY <1>0, <1>2, ServesManager
  <2>2. u = k
    BY <1>0, <2>1
  <2> QED
    BY <2>1, <2>2 DEF Unserved
<1>3. ASSUME NEW p \in RM, NEW r \in RM, ServerStep(p, r)
      PROVE  Handles(k, f, h) /\ \A u \in RM : u # k => thread'[c][u] = Idle
  <2>0. p \in Proc /\ r \in Proc
    BY DEF Proc
  <2>1. thread[p][r] # Idle
    BY <1>0, <1>3, <2>0, StepKind DEF Frame, Idle
  <2>2. \A u \in RM : thread'[c][u] = thread[c][u]
    <3>1. CASE Moves(p, r)
      BY <1>0, <3>1 DEF Moves, Untouched
    <3>2. ASSUME NEW q \in RM, Calls(p, r, q)
          PROVE  \A u \in RM : thread'[c][u] = thread[c][u]
      BY <1>0, <3>2 DEF Calls
    <3> QED
      BY <1>0, <1>3, <2>0, <3>1, <3>2, StepKind
  <2> QED
    BY <1>0, <1>1, <1>2, <2>1, <2>2
<1>4. ASSUME NEW p \in RM, NEW r \in RM, Reply(p, r)
      PROVE  Handles(k, f, h) /\ \A u \in RM : u # k => thread'[c][u] = Idle
  <2>1. thread[p][r] # Idle /\ thread' = ThreadsAfterReply(p, r)
    BY <1>4 DEF Reply, Idle
  <2>2. \A u \in RM : thread'[c][u] = IF u = p /\ thread[c][u].wait = r THEN Resume(thread[c][u])
                                      ELSE thread[c][u]
    BY <1>0, <2>1 DEF ThreadsAfterReply
  <2>3. \A u \in RM : u # k => thread'[c][u] = thread[c][u]
    <3>1. Idle.wait # r
      BY NoRMOut DEF Idle, NoRMIsNoManager
    <3> QED
      BY <1>0, <2>2, <3>1
  <2>4. CASE k = p /\ f.wait = r
    <3>1. h = Resume(f)
      BY <2>2, <2>4
    <3>2. h # Idle /\ h.op = f.op /\ h.name = f.name /\ h.val = f.val /\ h.pc = f.pc
      BY <1>0, <3>1, ResumedFields
    <3> QED
      BY <1>1, <1>2, <2>1, <2>3, <3>2
  <2>5. CASE ~(k = p /\ f.wait = r)
    <3>1. h = f
      BY <2>2, <2>5
    <3> QED
      BY <1>0, <1>1, <1>2, <2>1, <2>3, <3>1
  <2> QED
    BY <2>4, <2>5
<1>5. ASSUME NEW r \in RM, ServerStep(c, r)
      PROVE  Handles(k, f, h) /\ \A u \in RM : u # k => thread'[c][u] = Idle
  <2>1. r = k
    BY <1>0, <1>5, StepKind DEF Frame, Idle
  <2>2. ServerStep(c, k) /\ Ready(c, k, f)
    BY <1>0, <1>5, <2>1, StepReady
  <2>3. /\ SameRequest(f, h) /\ \A u \in RM : u # k => thread'[c][u] = Idle
    <3>1. CASE Moves(c, k)
      BY <1>0, <3>1 DEF Moves, Untouched
    <3>2. ASSUME NEW q \in RM, Calls(c, k, q)
          PROVE  SameRequest(f, h) /\ \A u \in RM : u # k => thread'[c][u] = Idle
      BY <1>0, <3>2 DEF Calls
    <3> QED
      BY <1>0, <2>2, <3>1, <3>2, StepKind
  <2>4. Awaits(f, h) /\ f.pc # "dup"
    BY <1>0, <2>3, PrimaryAt DEF SameRequest, Awaits
  <2>5. CASE CreateExists(c, k)
    <3>1. f.pc = "exists" /\ Same /\ f.op = "create"
      BY <1>0, <2>2, <2>5, ExistsShape, PrimaryAt
    <3>2. h.pc = "error" => ~Nowhere(f.name)
      BY <1>0, <2>2, <2>5, ExistsShape DEF Goes, Has, Nowhere, Absent
    <3> QED
      BY <2>3, <2>4, <3>1, <3>2 DEF Handles, Same, Refusable, Unserved
  <2>6. CASE CheckExists(c, k)
    <3>1. f.pc = "check" /\ Same /\ f.op # "create"
      BY <1>0, <2>2, <2>6, CheckShape, PrimaryAt
    <3>2. h.pc = "error" <=> Absent(k, f.name)
      BY <1>0, <2>2, <2>6, CheckShape DEF Goes, Has, Absent
    <3> QED
      BY <2>3, <2>4, <3>1, <3>2 DEF Handles, Same, Refusable, Unserved
  <2>7. CASE ~CreateExists(c, k) /\ ~CheckExists(c, k)
    <3>1. ~CreateDup(c, k)
      BY <1>0, <2>2, <2>4, DupShape
    <3>2. Sound(k, f)
      BY <1>0, AllSound
    <3>3. f.pc \notin Unserved /\ h.pc \notin Unserved
      BY <1>0, <2>2, <2>7, <3>1, <3>2, RefusedAt
    <3> QED
      BY <2>3, <2>4, <3>3 DEF Handles, Unserved
  <2> QED
    BY <2>5, <2>6, <2>7
<1> QED
  BY <1>0, <1>3, <1>4, <1>5 DEF Serves, Proc

-----------------------------------------------------------------------------
(* The command while the managers serve it                                 *)

(* Handlers and their answers do not break a connection of the client.     *)
LEMMA ReachesStays ==
    ASSUME ReplicasAssumption, NEW c \in Client, TypeOK, AllUp, Reaches(c),
           \/ Serves(c)
           \/ \E S : Connect(c, S)
           \/ UNCHANGED conn
           \/ conn' = [conn EXCEPT ![c] = [q \in RM |-> "none"]]
    PROVE  Reaches(c)'
<1>0. c \in Proc /\ c \notin RM
  BY DEF Proc, ReplicasAssumption, Id
<1>1. ASSUME NEW p \in Proc, NEW S, conn' = Opened(p, S)
      PROVE  Reaches(c)'
  <2>1. \A q \in RM : conn'[c][q] = IF c = p /\ q \in S
                                    THEN IF CanCall(p, q) THEN "open" ELSE "broken" ELSE conn[c][q]
    BY <1>0, <1>1 DEF Opened, TypeOK
  <2>2. \A q \in RM : CanCall(c, q)
    BY <1>0 DEF CanCall, AllUp, Reaches, TypeOK, ConnState
  <2> QED
    BY <2>1, <2>2 DEF Reaches
<1>2. CASE UNCHANGED conn
  BY <1>2 DEF Reaches
<1>3. CASE Serves(c)
  <2>1. ASSUME NEW p \in Proc, NEW r \in RM, ServerStep(p, r)
        PROVE  Reaches(c)'
    <3>1. r \in Proc
      BY DEF Proc
    <3> QED
      BY <1>1, <1>2, <2>1, <3>1, StepConn
  <2>2. ASSUME NEW p \in RM, NEW r \in RM, Reply(p, r)
        PROVE  Reaches(c)'
    BY <1>2, <2>2 DEF Reply
  <2> QED
    BY <1>3, <2>1, <2>2 DEF Serves
<1>4. CASE \E S : Connect(c, S)
  BY <1>0, <1>1, <1>4 DEF Connect
<1>5. CASE conn' = [conn EXCEPT ![c] = [q \in RM |-> "none"]]
  BY <1>0, <1>5 DEF Reaches, TypeOK
<1> QED
  BY <1>2, <1>3, <1>4, <1>5

(* When a handler runs, or answers a manager, there is a client's request. *)
LEMMA ServesSome ==
    ASSUME ReplicasAssumption, NEW c, Client = {c}, NEW s, Calm(c, s), Serves(c)
    PROVE  \E k \in RM : thread[c][k] # Idle
<1>0. c \in Client /\ TypeOK
  BY DEF Calm
<1>1. ASSUME NEW p \in RM, NEW r \in RM, thread[p][r] # Idle
      PROVE  \E k \in RM : thread[c][k] # Idle
  BY <1>0, <1>1, ServesManager
<1>2. ASSUME NEW p \in Proc, NEW r \in RM, ServerStep(p, r)
      PROVE  \E k \in RM : thread[c][k] # Idle
  <2>1. thread[p][r] # Idle
    BY <1>0, <1>2, StepKind DEF Frame, Idle
  <2> QED
    BY <1>1, <2>1 DEF Proc
<1>3. ASSUME NEW p \in RM, NEW r \in RM, Reply(p, r)
      PROVE  \E k \in RM : thread[c][k] # Idle
  <2>1. thread[p][r] # Idle
    BY <1>3 DEF Reply, Idle
  <2> QED
    BY <1>1, <2>1
<1> QED
  BY <1>2, <1>3 DEF Serves

LEMMA ServersKeepCommand ==
    ASSUME ReplicasAssumption, ManagerAssumption, NEW c, Client = {c}, NEW s, Calm(c, s),
           ShellInv, CommandInv(c), Serves(c), UNCHANGED shell
    PROVE  CommandInv(c)'
<1>0. c \in Client /\ TypeOK /\ AllUp /\ Reaches(c) /\ RefusalsRight(c) /\ NoRM \notin RM
  BY NoRMOut DEF Calm, CommandInv, NoRMIsNoManager
<1>1. PICK k \in RM : thread[c][k] # Idle
  BY <1>0, ServesSome
<1>2. PICK f, h, g : f = shell[c] /\ h = thread[c][k] /\ g = thread'[c][k]
  OBVIOUS
<1>3. Handles(k, h, g) /\ \A u \in RM : u # k => thread'[c][u] = Idle
  BY <1>1, <1>2, HandlersStep
<1>4. f.wait = k /\ f # Prompt /\ h \in Frame /\ h.name \in Name
  <2>1. f.wait = k /\ h \in Frame /\ h.name \in Name
    BY <1>0, <1>1, <1>2, ServesClient DEF ShellInv, OneRequest
  <2> QED
    BY <1>0, <2>1 DEF Prompt
<1>5. CommandOK(c, f) /\ f.wait \in RM
  BY <1>2, <1>4 DEF CommandInv
<1>6. Placed(f) /\ Awaits(f, h) /\ (f.pc = "next" => Looking(f, k, h.pc))
  BY <1>0, <1>2, <1>4, <1>5 DEF CommandOK
<1>7. Reaches(c)'
  BY <1>0, ReachesStays
<1>8. g.op = h.op /\ g.name = h.name /\ Awaits(f, g)
  BY <1>3, <1>6 DEF Handles, Awaits
<1>9. RefusalsRight(c)'
  <2>1. ASSUME g.pc = "error"
        PROVE  Refusable(k, g)'
    <3>1. Refusable(k, h) /\ \A q \in RM, n \in Name : machines'[q][n] = machines[q][n]
      BY <1>3, <2>1 DEF Handles
    <3> QED
      BY <1>4, <1>8, <3>1 DEF Refusable, Nowhere, Absent
  <2>2. Idle.pc # "error"
    BY DEF Idle
  <2> QED
    BY <1>2, <1>3, <2>1, <2>2 DEF RefusalsRight
<1>10. ASSUME f.pc = "next"
       PROVE  Looking(f, k, g.pc)'
  <2>1. f.op # "create" /\ f.name = h.name /\ f.op = h.op /\ f.name \in Name
    BY <1>4, <1>6, <1>10 DEF Placed, Awaits
  <2>2. CASE f.ok
    <3>1. Nowhere(f.name) /\ h.pc = "check"
      BY <1>0, <1>3, <1>4, <1>6, <1>10, <2>2 DEF Looking, Handles, Unserved
    <3>2. g.pc = "error" /\ \A q \in RM, n \in Name : machines'[q][n] = machines[q][n]
      BY <1>3, <2>1, <3>1 DEF Handles, Nowhere
    <3> QED
      BY <2>1, <2>2, <3>1, <3>2 DEF Looking, Nowhere, Absent, Unserved
  <2>3. CASE ~f.ok /\ g.pc \in Unserved
    <3>1. h.pc = "check" /\ \A q \in RM, n \in Name : machines'[q][n] = machines[q][n]
      BY <1>3, <2>1, <2>3 DEF Handles, Unserved
    <3>2. Passed(f)
      BY <1>6, <1>10, <2>3, <3>1 DEF Looking, Unserved
    <3> QED
      BY <2>1, <2>3, <3>1, <3>2 DEF Looking, Passed, Absent
  <2>4. CASE ~f.ok /\ g.pc \notin Unserved
    BY <1>0, <1>4, <2>4 DEF Looking
  <2> QED
    BY <2>2, <2>3, <2>4
<1>11. CommandOK(c, f)'
  BY <1>2, <1>4, <1>6, <1>8, <1>10 DEF CommandOK
<1> QED
  BY <1>2, <1>7, <1>9, <1>11 DEF CommandInv

-----------------------------------------------------------------------------
(* The command while the client process runs                               *)

LEMMA CommandBecomes ==
    ASSUME ReplicasAssumption, ManagerAssumption, NEW c \in Client, TypeOK, AllUp, ShellInv,
           Reaches(c), NEW h, Become(c, h), h = Prompt \/ h.name \in Name, UNCHANGED machines,
           \/ \E S : Connect(c, S)
           \/ UNCHANGED conn,
           \A k \in RM : thread'[c][k].pc # "error",
           h # Prompt =>
             /\ Placed(h)
             /\ h.wait # NoRM => Awaits(h, thread'[c][h.wait])
             /\ h.pc = "next" => Looking(h, h.wait, thread'[c][h.wait].pc)
    PROVE  CommandInv(c)'
<1>1. Reaches(c)'
  BY ReachesStays
<1>2. RefusalsRight(c)'
  BY DEF RefusalsRight
<1>3. shell'[c] = h
  BY DEF Become, ShellInv
<1>4. ASSUME h # Prompt
      PROVE  CommandOK(c, h)'
  <2>1. ASSUME h.pc = "next"
        PROVE  Looking(h, h.wait, thread[c][h.wait].pc)'
    <3>1. Looking(h, h.wait, thread'[c][h.wait].pc)
      BY <1>4, <2>1
    <3> QED
      BY <3>1 DEF Looking, Nowhere, Passed, Absent
  <2>2. Placed(h) /\ (h.wait # NoRM => Awaits(h, thread'[c][h.wait]))
    BY <1>4
  <2> QED
    BY <2>1, <2>2 DEF CommandOK
<1> QED
  BY <1>1, <1>2, <1>3, <1>4 DEF CommandInv

(* The common case: the command does not wait and has no request.          *)
LEMMA CommandGoesOn ==
    ASSUME ReplicasAssumption, ManagerAssumption, NEW c \in Client, TypeOK, AllUp, ShellInv,
           Reaches(c), NEW h, Become(c, h), h.name \in Name, UNCHANGED machines,
           \/ \E S : Connect(c, S)
           \/ UNCHANGED conn,
           \A k \in RM : thread'[c][k] = Idle,
           Placed(h), h.wait = NoRM,
           h.pc = "next" => IF h.ok THEN Nowhere(h.name) ELSE Passed(h)
    PROVE  CommandInv(c)'
<1>1. \A k \in RM : thread'[c][k].pc # "error"
  BY DEF Idle
<1>2. h.pc = "next" => Looking(h, h.wait, thread'[c][h.wait].pc)
  BY DEF Looking
<1> QED
  BY <1>1, <1>2, CommandBecomes

(* What the steps of a command do to it.                                   *)
SameCommand(f, h) == h.op = f.op /\ h.name = f.name /\ h.val = f.val

LEMMA NextManagerIs ==
    ASSUME ReplicasAssumption, NEW f \in Shells, NEW h, h = NextManager(f)
    PROVE  /\ SameCommand(f, h) /\ h.wait = f.wait /\ h.ok = f.ok /\ h.res = f.res
           /\ f.i + 1 = N => h.pc = "returned"
           /\ f.i + 1 # N => h.pc = f.pc /\ h.i = f.i + 1
<1>1. CASE f.i + 1 = N
  <2>1. h = [f EXCEPT !.pc = "returned"]
    BY <1>1 DEF NextManager
  <2> QED
    BY <1>1, <2>1 DEF Shells, SameCommand
<1>2. CASE f.i + 1 # N
  <2>1. h = [f EXCEPT !.i = f.i + 1]
    BY <1>2 DEF NextManager
  <2> QED
    BY <1>2, <2>1 DEF Shells, SameCommand
<1> QED
  BY <1>1, <1>2

LEMMA FailedIs ==
    ASSUME ReplicasAssumption, NEW f \in Shells, f.pc \in {"create", "stub", "next"},
           NEW h, h = Failed(f)
    PROVE  /\ SameCommand(f, h) /\ h.wait = f.wait /\ h.ok = f.ok /\ h.res = f.res
           /\ f.pc = "create" => h.pc = "get"
           /\ f.pc = "stub" => h.pc = "next" /\ h.i = f.i
           /\ f.pc = "next" /\ f.i + 1 = N => h.pc = "returned"
           /\ f.pc = "next" /\ f.i + 1 # N => h.pc = "next" /\ h.i = f.i + 1
<1>1. CASE f.pc = "next"
  <2>1. h = NextManager(f)
    BY <1>1 DEF Failed
  <2> QED
    BY <1>1, <2>1, NextManagerIs
<1>2. CASE f.pc = "create"
  <2>1. h = [f EXCEPT !.pc = "get"]
    BY <1>2 DEF Failed
  <2> QED
    BY <1>2, <2>1 DEF Shells, SameCommand
<1>3. CASE f.pc = "stub"
  <2>1. h = [f EXCEPT !.pc = "next"]
    BY <1>3 DEF Failed
  <2> QED
    BY <1>3, <2>1 DEF Shells, SameCommand
<1> QED
  BY <1>1, <1>2, <1>3

IsAnswered(f, v, h) ==
    /\ SameCommand(f, h) /\ h.wait = f.wait /\ h.ok /\ h.res = v
    /\ f.pc = "create" => h.pc = "get"
    /\ f.pc # "create" => h.pc = "returned" \/ (h.pc = "next" /\ f.pc = "next" /\ f.op = "remove")

LEMMA AnsweredIs ==
    ASSUME ReplicasAssumption, NEW f, ShellOK(f), f.pc \in {"create", "stub", "next"},
           NEW v \in Value \cup {Nil}
    PROVE  IsAnswered(f, v, Answered(f, v))
<1> SUFFICES ASSUME NEW h, h = Answered(f, v)
             PROVE  IsAnswered(f, v, h)
  OBVIOUS
<1> USE DEF IsAnswered
<1>1. PICK g : g = [f EXCEPT !.ok = TRUE, !.res = v]
  OBVIOUS
<1>2. f \in Shells /\ (f.pc = "stub" => f.op # "remove")
  BY DEF ShellOK
<1>3. /\ g \in Shells /\ SameCommand(f, g) /\ g.wait = f.wait /\ g.ok /\ g.res = v
      /\ g.pc = f.pc /\ g.i = f.i
  BY <1>1, <1>2 DEF Shells, SameCommand
<1>4. h = IF f.pc = "create" THEN [g EXCEPT !.pc = "get"]
          ELSE IF f.op = "remove" THEN NextManager(g)
          ELSE [g EXCEPT !.pc = "returned"]
  BY <1>1 DEF Answered
<1>5. CASE f.pc = "create"
  <2>1. h = [g EXCEPT !.pc = "get"]
    BY <1>4, <1>5
  <2> QED
    BY <1>3, <1>5, <2>1 DEF Shells, SameCommand
<1>6. CASE f.pc # "create" /\ f.op = "remove"
  <2>1. h = NextManager(g)
    BY <1>4, <1>6
  <2>2. /\ SameCommand(g, h) /\ h.wait = g.wait /\ h.ok = g.ok /\ h.res = g.res
        /\ h.pc = "returned" \/ h.pc = g.pc
    BY <1>3, <2>1, NextManagerIs
  <2> QED
    BY <1>2, <1>3, <1>6, <2>2 DEF SameCommand
<1>7. CASE f.pc # "create" /\ f.op # "remove"
  <2>1. h = [g EXCEPT !.pc = "returned"]
    BY <1>4, <1>7
  <2> QED
    BY <1>3, <1>7, <2>1 DEF Shells, SameCommand
<1> QED
  BY <1>5, <1>6, <1>7

LEMMA WithStubIs ==
    ASSUME NEW f \in Shells, NEW h, h = WithStub(f)
    PROVE  /\ h \in Shells
           /\ SameCommand(f, h) /\ h.wait = f.wait /\ h.ok = f.ok /\ h.res = f.res /\ h.i = f.i
           /\ h.pc = IF f.op = "create" THEN "returned" ELSE IF f.op = "remove" THEN "next" ELSE "stub"
<1>1. PICK x \in {"returned", "next", "stub"} :
        /\ x = IF f.op = "create" THEN "returned" ELSE IF f.op = "remove" THEN "next" ELSE "stub"
        /\ h = [f EXCEPT !.pc = x]
  BY DEF WithStub
<1>2. h \in Shells
  BY <1>1 DEF Shells, ShellPC
<1>3. SameCommand(f, h) /\ h.wait = f.wait /\ h.ok = f.ok /\ h.res = f.res /\ h.i = f.i /\ h.pc = x
  BY <1>1 DEF Shells, SameCommand
<1> QED
  BY <1>1, <1>2, <1>3

(* A command that has been typed.                                          *)
Begins(c, h) ==
    /\ Become(c, h) /\ h \in Shells
    /\ h.wait = NoRM /\ h.ok = FALSE /\ h.res = Nil /\ h.i = 0
    /\ \/ h.pc = "scan" /\ h.op = "create"
       \/ h.pc \in {"get", "stub", "next"} /\ h.op # "create"

LEMMA TypeCommandIs ==
    ASSUME ReplicasAssumption, ShellAssumption, NEW c \in Client, TypeCommand(c)
    PROVE  \E h : Begins(c, h)
<1>1. PICK t \in Typed :
        LET f == [pc |-> "scan", op |-> t.op, name |-> t.name, val |-> t.val,
                  i |-> 0, wait |-> NoRM, ok |-> FALSE, res |-> Nil]
        IN  Become(c, IF t.op = "create" THEN f
                      ELSE IF stub[c][t.name] = Nil THEN [f EXCEPT !.pc = "get"]
                      ELSE WithStub(f))
  BY DEF TypeCommand
<1>2. PICK f : f = [pc |-> "scan", op |-> t.op, name |-> t.name, val |-> t.val,
                    i |-> 0, wait |-> NoRM, ok |-> FALSE, res |-> Nil]
  OBVIOUS
<1>3. t.op \in Op /\ t.name \in Name /\ t.val \in Value \cup {Nil}
  BY DEF ShellAssumption
<1>4. /\ f \in Shells /\ f.op = t.op /\ f.wait = NoRM /\ f.ok = FALSE /\ f.res = Nil /\ f.i = 0
      /\ f.pc = "scan"
  BY <1>2, <1>3 DEF Shells, ShellPC, Id, RM, ReplicasAssumption
<1>5. Become(c, IF t.op = "create" THEN f
                ELSE IF stub[c][t.name] = Nil THEN [f EXCEPT !.pc = "get"] ELSE WithStub(f))
  BY <1>1, <1>2, Zenon
<1>6. CASE t.op = "create"
  BY <1>4, <1>5, <1>6 DEF Begins
<1>7. CASE t.op # "create" /\ stub[c][t.name] = Nil
  <2>1. PICK h : h = [f EXCEPT !.pc = "get"]
    OBVIOUS
  <2>2. /\ h \in Shells /\ h.op = f.op /\ h.wait = f.wait /\ h.ok = f.ok /\ h.res = f.res
        /\ h.i = f.i /\ h.pc = "get"
    BY <1>4, <2>1 DEF Shells, ShellPC
  <2> QED
    BY <1>4, <1>5, <1>7, <2>1, <2>2 DEF Begins
<1>8. CASE t.op # "create" /\ stub[c][t.name] # Nil
  <2>1. PICK h : h = WithStub(f)
    OBVIOUS
  <2>2. /\ h \in Shells /\ h.op = f.op /\ h.wait = f.wait /\ h.ok = f.ok /\ h.res = f.res /\ h.i = f.i
        /\ h.pc \in {"next", "stub"}
    BY <1>4, <1>8, <2>1, WithStubIs DEF SameCommand
  <2> QED
    BY <1>4, <1>5, <1>8, <2>1, <2>2 DEF Begins
<1> QED
  BY <1>6, <1>7, <1>8

LEMMA TypeCommandKeepsCommand ==
    ASSUME ReplicasAssumption, ManagerAssumption, ShellAssumption, NEW c \in Client, TypeOK, AllUp,
           ShellInv, CommandInv(c), TypeCommand(c)
    PROVE  CommandInv(c)'
<1>1. PICK h : Begins(c, h)
  BY TypeCommandIs
<1>2. UNCHANGED <<machines, conn, thread>> /\ shell[c].wait = NoRM
  BY DEF TypeCommand, In, vars
<1>3. \A k \in RM : thread'[c][k] = Idle
  BY <1>2, NoneAsked
<1>4. h.name \in Name /\ h.wait = NoRM /\ Placed(h) /\ (h.pc = "next" => ~h.ok /\ Passed(h))
  <2>1. \A j \in RM : ~(j < 0)
    BY DEF RM
  <2> QED
    BY <1>1, <2>1 DEF Begins, Placed, Passed, Shells
<1> QED
  BY <1>1, <1>2, <1>3, <1>4, CommandGoesOn DEF Begins, CommandInv

LEMMA QuitKeepsCommand ==
    ASSUME ReplicasAssumption, NEW c \in Client, TypeOK, AllUp, ShellInv, CommandInv(c), Quit(c)
    PROVE  CommandInv(c)'
<1>1. /\ shell' = shell /\ shell[c].pc = "shell" /\ shell[c].wait = NoRM
      /\ UNCHANGED <<machines, thread>> /\ conn' = [conn EXCEPT ![c] = [q \in RM |-> "none"]]
  BY DEF Quit, In, managerVars
<1>2. shell[c] = Prompt
  BY <1>1 DEF ShellInv, ShellsOK, ShellOK, Shells, ShellPC
<1>3. \A k \in RM : thread'[c][k].pc # "error"
  BY <1>1, NoneAsked DEF Idle
<1>4. Reaches(c)'
  BY <1>1, ReachesStays DEF CommandInv
<1> QED
  BY <1>1, <1>2, <1>3, <1>4 DEF CommandInv, RefusalsRight

LEMMA ReturnKeepsCommand ==
    ASSUME ReplicasAssumption, ManagerAssumption, NEW c \in Client, TypeOK, AllUp, ShellInv,
           CommandInv(c), Return(c)
    PROVE  CommandInv(c)'
<1>1. Become(c, Prompt) /\ UNCHANGED <<machines, conn, thread>> /\ shell[c].wait = NoRM
  BY DEF Return, In, vars
<1>2. \A k \in RM : thread'[c][k].pc # "error"
  BY <1>1, NoneAsked DEF Idle
<1> QED
  BY <1>1, <1>2, CommandBecomes DEF CommandInv

(* The command of a client that is in one.                                 *)
LEMMA CommandThere ==
    ASSUME ReplicasAssumption, NEW c \in Client, ShellInv, CommandInv(c), NEW f, f = shell[c],
           f.pc # "shell"
    PROVE  /\ f # Prompt /\ ShellOK(f) /\ f \in Shells /\ f.name \in Name /\ f.op \in Op
           /\ CommandOK(c, f) /\ Placed(f) /\ Reaches(c)
           /\ f.wait = NoRM => \A k \in RM : thread[c][k] = Idle
<1>1. f # Prompt
  BY DEF Prompt
<1>2. ShellOK(f) /\ CommandOK(c, f)
  BY <1>1 DEF ShellInv, ShellsOK, CommandInv
<1> QED
  BY <1>1, <1>2, NoneAsked DEF ShellOK, Shells, CommandOK, CommandInv

LEMMA ScanKeepsCommand ==
    ASSUME ReplicasAssumption, ManagerAssumption, NEW c \in Client, TypeOK, AllUp, ShellInv,
           CommandInv(c), Scan(c)
    PROVE  CommandInv(c)'
<1>1. PICK f : f = shell[c]
  OBVIOUS
<1>2. f.pc = "scan" /\ f.wait = NoRM /\ UNCHANGED <<machines, thread>> /\ Connect(c, RM)
  BY <1>1 DEF Scan, In, managerVars, Ping
<1>3. PICK rep : Become(c, [f EXCEPT !.pc = "create", !.i = rep])
  BY <1>1 DEF Scan
<1>4. f \in Shells /\ Placed(f) /\ f.name \in Name /\ Reaches(c) /\ \A k \in RM : thread[c][k] = Idle
  BY <1>1, <1>2, CommandThere
<1>5. PICK h : h = [f EXCEPT !.pc = "create", !.i = rep]
  OBVIOUS
<1>6. h.pc = "create" /\ h.op = f.op /\ h.name = f.name /\ h.wait = f.wait /\ h.ok = f.ok
  BY <1>4, <1>5 DEF Shells
<1>7. Placed(h)
  BY <1>2, <1>4, <1>6 DEF Placed
<1> QED
  BY <1>2, <1>3, <1>4, <1>5, <1>6, <1>7, CommandGoesOn

LEMMA GetKeepsCommand ==
    ASSUME ReplicasAssumption, ManagerAssumption, NEW c \in Client, TypeOK, AllUp, ShellInv,
           CommandInv(c), Get(c)
    PROVE  CommandInv(c)'
<1>1. PICK f, g, h : f = shell[c] /\ g = [f EXCEPT !.i = 0] /\ h = WithStub(g)
  OBVIOUS
<1>2. /\ f.pc = "get" /\ f.wait = NoRM /\ UNCHANGED <<machines, thread>> /\ \E S : Connect(c, S)
      /\ Become(c, h)
  BY <1>1 DEF Get, In, managerVars, Ping
<1>3. f \in Shells /\ Placed(f) /\ f.name \in Name /\ Reaches(c) /\ \A k \in RM : thread[c][k] = Idle
  BY <1>1, <1>2, CommandThere
<1>4. /\ g \in Shells /\ g.op = f.op /\ g.name = f.name /\ g.wait = f.wait /\ g.ok = f.ok /\ g.i = 0
  <2>1. 0 \in RM
    BY DEF RM, ReplicasAssumption
  <2> QED
    BY <1>1, <1>3, <2>1 DEF Shells
<1>5. /\ h.op = g.op /\ h.name = g.name /\ h.wait = g.wait /\ h.ok = g.ok /\ h.i = g.i
      /\ h.pc = IF g.op = "create" THEN "returned" ELSE IF g.op = "remove" THEN "next" ELSE "stub"
  <2>1. h = WithStub(g) /\ g \in Shells
    BY <1>1, <1>4
  <2> QED
    BY <2>1, WithStubIs, Zenon DEF SameCommand
<1>6. Placed(h) /\ (h.pc = "next" => ~h.ok /\ Passed(h))
  <2>1. \A j \in RM : ~(j < 0)
    BY DEF RM
  <2> QED
    BY <1>2, <1>3, <1>4, <1>5, <2>1 DEF Placed, Passed
<1> QED
  BY <1>2, <1>3, <1>4, <1>5, <1>6, CommandGoesOn

(* A call gets through, while no manager fails.                            *)
Asks(c, q, f, h) ==
    /\ Become(c, h) /\ UNCHANGED machines /\ Connect(c, {q})
    /\ h \in Shells /\ SameCommand(f, h) /\ h.wait = q
    /\ h.pc = f.pc /\ h.i = f.i /\ h.ok = f.ok /\ h.res = f.res
    /\ Awaits(f, thread'[c][q]) /\ thread'[c][q].res = Nil
    /\ thread'[c][q].pc = IF f.op = "create" THEN "exists" ELSE "check"
    /\ \A u \in RM : u # q => thread'[c][u] = Idle

LEMMA AskIs ==
    ASSUME ReplicasAssumption, NEW c \in Client, TypeOK, AllUp, ShellInv, CommandInv(c),
           NEW q \in RM, Ask(c, q), NEW f, f = shell[c], f.pc # "shell", f.wait = NoRM
    PROVE  \E h : Asks(c, q, f, h)
<1>1. /\ f \in Shells /\ f.op \in Op /\ Reaches(c) /\ c \in Proc
      /\ \A k \in RM : thread[c][k] = Idle
  BY CommandThere DEF Proc
<1>2. CanCall(c, q)
  BY <1>1 DEF CanCall, AllUp, Reaches, TypeOK, ConnState
<1>3. PICK x, h : x = RequestTo(q, f) /\ h = [f EXCEPT !.wait = q]
  OBVIOUS
<1>4. Goto(c, q, x) /\ Become(c, h) /\ UNCHANGED machines /\ Connect(c, {q})
  BY <1>2, <1>3 DEF Ask
<1>5. thread'[c][q] = x /\ \A u \in RM : u # q => thread'[c][u] = Idle
  BY <1>1, <1>4 DEF Goto, TypeOK
<1>6. q \in Id
  BY DEF Id
<1>7. /\ h \in Shells /\ SameCommand(f, h) /\ h.wait = q
      /\ h.pc = f.pc /\ h.i = f.i /\ h.ok = f.ok /\ h.res = f.res
  BY <1>1, <1>3, <1>6 DEF Shells, SameCommand
<1>8. /\ x.op = f.op /\ x.name = f.name /\ x.val = f.val /\ x.res = Nil
      /\ x.pc = IF f.op = "create" THEN "exists" ELSE "check"
  BY <1>3 DEF RequestTo, Request
<1>9. x # Idle
  BY <1>8 DEF Idle
<1> QED
  BY <1>4, <1>5, <1>7, <1>8, <1>9 DEF Asks, Awaits

(* Where the calls of a command are.                                       *)
LEMMA CallsAre ==
    ASSUME ReplicasAssumption, ShellInv, NEW c \in Client,
           CreateAt(c) \/ CallStub(c) \/ CallNext(c)
    PROVE  \E q \in RM :
             /\ Ask(c, q) /\ shell[c].pc \in {"create", "stub", "next"} /\ shell[c].wait = NoRM
             /\ shell[c].pc = "next" => q = shell[c].i
<1>1. CASE CreateAt(c) \/ CallNext(c)
  BY <1>1, CallTarget DEF CreateAt, CallNext, In
<1>2. CASE CallStub(c)
  BY <1>2, CallTarget DEF CallStub, In
<1> QED
  BY <1>1, <1>2

LEMMA AskKeepsCommand ==
    ASSUME ReplicasAssumption, ManagerAssumption, NEW c \in Client, TypeOK, AllUp, ShellInv,
           CommandInv(c), CreateAt(c) \/ CallStub(c) \/ CallNext(c)
    PROVE  CommandInv(c)'
<1>1. PICK f : f = shell[c]
  OBVIOUS
<1>2. PICK q \in RM : /\ Ask(c, q) /\ f.pc \in {"create", "stub", "next"} /\ f.wait = NoRM
                      /\ f.pc = "next" => q = f.i
  BY <1>1, CallsAre
<1>3. /\ f \in Shells /\ Placed(f) /\ f.name \in Name /\ f.op \in Op /\ Reaches(c)
      /\ CommandOK(c, f)
  BY <1>1, <1>2, CommandThere
<1>4. PICK h : Asks(c, q, f, h)
  BY <1>1, <1>2, AskIs
<1>5. PICK x : x = thread'[c][q]
  OBVIOUS
<1>6. /\ h \in Shells /\ h.op = f.op /\ h.name = f.name /\ h.val = f.val /\ h.wait = q
      /\ h.pc = f.pc /\ h.i = f.i /\ h.ok = f.ok
      /\ Awaits(f, x) /\ x.pc = IF f.op = "create" THEN "exists" ELSE "check"
  BY <1>4, <1>5 DEF Asks, SameCommand
<1>7. Placed(h) /\ Awaits(h, x)
  BY <1>2, <1>3, <1>6 DEF Placed, Awaits
<1>8. ASSUME h.pc = "next"
      PROVE  Looking(h, q, x.pc)
  <2>1. x.pc \in Unserved /\ Looking(f, f.wait, thread[c][f.wait].pc)
    BY <1>3, <1>6, <1>8 DEF Placed, Unserved, CommandOK
  <2>2. IF f.ok THEN Nowhere(f.name) ELSE Passed(f)
    BY <1>2, <2>1 DEF Looking
  <2> QED
    BY <1>6, <2>1, <2>2 DEF Looking, Passed
<1>9. \A k \in RM : thread'[c][k].pc # "error"
  BY <1>4, <1>5, <1>6 DEF Asks, Idle
<1>10. h.wait = q /\ h.name \in Name
  BY <1>3, <1>6
<1> QED
  BY <1>3, <1>4, <1>5, <1>7, <1>8, <1>9, <1>10, CommandBecomes DEF Asks

(* An answer never comes from a handler that is gone.                      *)
LEMMA NothingIsLost ==
    ASSUME ReplicasAssumption, NEW c \in Client, ShellInv, CommandInv(c), NEW q \in RM
    PROVE  ~Lost(c, q)
<1>1. q # NoRM
  BY NoRMOut DEF NoRMIsNoManager
<1> QED
  BY <1>1 DEF Lost, CommandInv, CommandOK, Awaits, Prompt

(* What an answer is about, and what the command becomes.                  *)
Answers(c, q, f, x, h) ==
    /\ f = shell[c] /\ x = thread[c][q] /\ Become(c, h) /\ Reply(c, q)
    /\ ShellOK(f) /\ f \in Shells /\ f.pc \in {"create", "stub", "next"} /\ f.wait = q
    /\ Placed(f) /\ Awaits(f, x) /\ (f.pc = "next" => f.i = q /\ Looking(f, q, x.pc))
    /\ x.pc \in {"reply", "error"} /\ x.res \in Value \cup {Nil} /\ Primary(q, x)
    /\ SameCommand(f, h) /\ h.wait = NoRM
    /\ x.pc = "reply" =>
         /\ h.ok /\ h.res = x.res
         /\ f.pc = "create" => h.pc = "get"
         /\ f.pc # "create" =>
              h.pc = "returned" \/ (h.pc = "next" /\ f.pc = "next" /\ f.op = "remove")
    /\ x.pc = "error" =>
         /\ h.ok = f.ok /\ h.res = f.res /\ Refusable(q, x)
         /\ f.pc = "create" => h.pc = "get"
         /\ f.pc = "stub" => h.pc = "next" /\ h.i = f.i
         /\ f.pc = "next" /\ f.i + 1 = N => h.pc = "returned"
         /\ f.pc = "next" /\ f.i + 1 # N => h.pc = "next" /\ h.i = f.i + 1

LEMMA AnswerIs ==
    ASSUME ReplicasAssumption, NEW c \in Client, NEW s, Calm(c, s), ShellInv, CommandInv(c),
           NEW q \in RM, Answer(c, q)
    PROVE  \E f, x, h : Answers(c, q, f, x, h)
<1>1. PICK f, g, x : f = shell[c] /\ g = [f EXCEPT !.wait = NoRM] /\ x = thread[c][q]
  OBVIOUS
<1>2. q # NoRM /\ NoRM \in Id
  BY NoRMOut DEF NoRMIsNoManager, Id
<1>3. /\ Reply(c, q) /\ f.wait = q /\ x.pc \in {"reply", "error"}
      /\ Become(c, IF x.pc = "reply" THEN Answered(g, x.res) ELSE Failed(g))
  BY <1>1 DEF Answer, Reply
<1>4. f # Prompt /\ x # Idle
  BY <1>2, <1>3 DEF Prompt, Idle
<1>5. /\ ShellOK(f) /\ f \in Shells /\ CommandOK(c, f) /\ Placed(f)
      /\ f.pc \in {"create", "stub", "next"}
  BY <1>1, <1>2, <1>3, <1>4 DEF ShellInv, ShellsOK, ShellOK, CommandInv, CommandOK
<1>6. Awaits(f, x) /\ (f.pc = "next" => f.i = q /\ Looking(f, q, x.pc))
  BY <1>1, <1>2, <1>3, <1>5 DEF CommandOK, Placed
<1>7. x \in Frame /\ x.res \in Value \cup {Nil} /\ Primary(q, x)
  BY <1>1, <1>4, ServesClient DEF Frame
<1>8. ShellOK(g) /\ g \in Shells /\ g.wait = NoRM
  BY <1>1, <1>2, <1>5, GoesOn DEF ShellOK, Shells
<1>9. SameCommand(f, g) /\ g.pc = f.pc /\ g.i = f.i /\ g.ok = f.ok /\ g.res = f.res
  BY <1>1, <1>5 DEF Shells, SameCommand
<1>10. CASE x.pc = "reply"
  <2>1. PICK v, h : v = x.res /\ h = Answered(g, v)
    OBVIOUS
  <2>2. /\ SameCommand(g, h) /\ h.wait = g.wait /\ h.ok /\ h.res = x.res
        /\ g.pc = "create" => h.pc = "get"
        /\ g.pc # "create" => h.pc = "returned" \/ (h.pc = "next" /\ g.pc = "next" /\ g.op = "remove")
    <3>1. v \in Value \cup {Nil} /\ g.pc \in {"create", "stub", "next"}
      BY <1>5, <1>7, <1>9, <2>1
    <3>2. IsAnswered(g, v, h)
      BY <1>8, <2>1, <3>1, AnsweredIs
    <3> QED
      BY <2>1, <3>2 DEF IsAnswered
  <2>3. Become(c, h)
    BY <1>3, <1>10, <2>1
  <2>4. Answers(c, q, f, x, h)
    BY <1>1, <1>3, <1>5, <1>6, <1>7, <1>8, <1>9, <1>10, <2>2, <2>3 DEF Answers, SameCommand
  <2> QED
    BY <2>4
<1>11. CASE x.pc = "error"
  <2>1. PICK h : h = Failed(g)
    OBVIOUS
  <2>2. /\ SameCommand(g, h) /\ h.wait = g.wait /\ h.ok = g.ok /\ h.res = g.res
        /\ g.pc = "create" => h.pc = "get"
        /\ g.pc = "stub" => h.pc = "next" /\ h.i = g.i
        /\ g.pc = "next" /\ g.i + 1 = N => h.pc = "returned"
        /\ g.pc = "next" /\ g.i + 1 # N => h.pc = "next" /\ h.i = g.i + 1
    BY <1>5, <1>8, <1>9, <2>1, FailedIs
  <2>3. Become(c, h)
    BY <1>3, <1>11, <2>1
  <2>4. Refusable(q, x)
    BY <1>1, <1>11 DEF CommandInv, RefusalsRight
  <2>5. Answers(c, q, f, x, h)
    BY <1>1, <1>3, <1>5, <1>6, <1>7, <1>8, <1>9, <1>11, <2>2, <2>3, <2>4 DEF Answers, SameCommand
  <2> QED
    BY <2>5
<1> QED
  BY <1>3, <1>10, <1>11

(* After an answer the client has no request.                              *)
LEMMA AnswerEnds ==
    ASSUME ReplicasAssumption, NEW c \in Client, ShellInv, NEW q \in RM, shell[c].wait = q, Reply(c, q)
    PROVE  UNCHANGED <<machines, conn>> /\ \A k \in RM : thread'[c][k] = Idle
<1>1. c \notin RM /\ c \in Proc /\ \A k \in RM : k # q => thread[c][k] = Idle
  BY DEF ReplicasAssumption, Id, Proc, ShellInv, OneRequest
<1> QED
  BY <1>1 DEF Reply, ThreadsAfterReply

(* remove() has been done when it is answered.                             *)
LEMMA RemovedAway ==
    ASSUME NEW k \in RM, NEW x, Primary(k, x), x.op = "remove", x.pc = "reply"
    PROVE  Nowhere(x.name)
BY DEF Primary, Removing, NoCopy, Empty, Copy, Nowhere, Absent

LEMMA AnswerKeepsCommand ==
    ASSUME ReplicasAssumption, ManagerAssumption, NEW c \in Client, NEW s, Calm(c, s), ShellInv,
           CommandInv(c), NEW q \in RM, Answer(c, q)
    PROVE  CommandInv(c)'
<1>1. PICK f, x, h : Answers(c, q, f, x, h)
  BY AnswerIs
<1>2. /\ f = shell[c] /\ f.wait = q /\ Reply(c, q) /\ Become(c, h) /\ f \in Shells
      /\ Placed(f) /\ x.op = f.op /\ x.name = f.name /\ h.op = f.op /\ h.name = f.name
      /\ h.wait = NoRM /\ f.pc \in {"create", "stub", "next"} /\ x.pc \in {"reply", "error"}
      /\ (f.pc = "next" => f.i = q /\ Looking(f, q, x.pc)) /\ Primary(q, x)
  BY <1>1 DEF Answers, SameCommand, Awaits
<1>3. f.name \in Name /\ Reaches(c) /\ TypeOK /\ AllUp /\ q # NoRM
  BY <1>2, NoRMOut DEF Shells, CommandInv, Calm, NoRMIsNoManager
<1>4. UNCHANGED <<machines, conn>> /\ \A k \in RM : thread'[c][k] = Idle
  BY <1>2, AnswerEnds
<1>5. CASE x.pc = "reply"
  <2>1. /\ h.ok /\ (f.pc = "create" => h.pc = "get")
        /\ f.pc # "create" =>
              h.pc = "returned" \/ (h.pc = "next" /\ f.pc = "next" /\ f.op = "remove")
    BY <1>1, <1>5 DEF Answers
  <2>2. Placed(h)
    BY <1>2, <2>1 DEF Placed
  <2>3. h.pc = "next" => Nowhere(h.name)
    BY <1>2, <1>5, <2>1, RemovedAway
  <2> QED
    BY <1>2, <1>3, <1>4, <2>1, <2>2, <2>3, CommandGoesOn
<1>6. CASE x.pc = "error"
  <2>1. /\ h.ok = f.ok /\ Refusable(q, x)
        /\ f.pc = "create" => h.pc = "get"
        /\ f.pc = "stub" => h.pc = "next" /\ h.i = f.i
        /\ f.pc = "next" /\ f.i + 1 = N => h.pc = "returned"
        /\ f.pc = "next" /\ f.i + 1 # N => h.pc = "next" /\ h.i = f.i + 1
    BY <1>1, <1>6 DEF Answers
  <2>2. Placed(h)
    BY <1>2, <2>1 DEF Placed
  <2>3. ASSUME h.pc = "next"
        PROVE  IF h.ok THEN Nowhere(h.name) ELSE Passed(h)
    <3>1. CASE f.pc = "stub"
      <4>1. \A j \in RM : ~(j < 0)
        BY DEF RM
      <4> QED
        BY <1>2, <2>1, <3>1, <4>1 DEF Placed, Passed
    <3>2. CASE f.pc = "next"
      <4>1. f.i = q /\ h.i = f.i + 1 /\ x.op # "create"
        BY <1>2, <2>1, <2>3, <3>2 DEF Placed
      <4>2. Absent(q, f.name)
        BY <1>2, <2>1, <4>1 DEF Refusable
      <4>3. IF f.ok THEN Nowhere(f.name) ELSE Passed(f)
        BY <1>2, <1>6, <3>2 DEF Looking, Unserved
      <4>4. \A j \in RM : j < q + 1 => j < q \/ j = q
        BY DEF RM, ReplicasAssumption
      <4> QED
        BY <1>2, <2>1, <4>1, <4>2, <4>3, <4>4 DEF Passed
    <3>3. f.pc # "create"
      BY <2>1, <2>3
    <3> QED
      BY <1>2, <3>1, <3>2, <3>3
  <2> QED
    BY <1>2, <1>3, <1>4, <2>2, <2>3, CommandGoesOn
<1> QED
  BY <1>2, <1>5, <1>6

LEMMA CommandStep ==
    ASSUME ReplicasAssumption, ManagerAssumption, ShellAssumption,
           NEW c, Client = {c}, MaxDown = 0, Calmly(c), CommandInv(c), [FrontEndNext]_feVars
    PROVE  CommandInv(c)'
<1>0. PICK s : Calm(c, s)
  BY DEF Calmly, GroupInv, Calm
<1>1. c \in Client /\ TypeOK /\ AllUp /\ ShellInv
  BY <1>0 DEF Calm, Calmly
<1>2. \A p \in Proc, r \in RM : ~Escape(p, r) /\ ~Abort(p, r)
  BY <1>0, <1>1, NobodyFails
<1>3. \A r \in RM : ~Fail(r) /\ ~Restart(r)
  BY <1>1, NobodyStops DEF Fail, Restart
<1>4. CASE ClientStep(c)
  <2>1. CASE \E q \in RM : Answer(c, q) \/ Lost(c, q)
    BY <1>0, <1>1, <2>1, AnswerKeepsCommand, NothingIsLost
  <2>2. CASE CreateAt(c) \/ CallStub(c) \/ CallNext(c)
    BY <1>1, <2>2, AskKeepsCommand
  <2>3. CASE Return(c) \/ Scan(c) \/ Get(c)
    BY <1>1, <2>3, ReturnKeepsCommand, ScanKeepsCommand, GetKeepsCommand
  <2> QED
    BY <1>4, <2>1, <2>2, <2>3 DEF ClientStep
<1>5. CASE TypeCommand(c) \/ Quit(c)
  BY <1>1, <1>5, TypeCommandKeepsCommand, QuitKeepsCommand
<1>6. ASSUME \/ \E r \in RM : ServeClient(c, r)
             \/ \E p, r \in RM : ServeManager(p, r)
      PROVE  CommandInv(c)'
  <2>1. UNCHANGED shell /\ Serves(c)
    BY <1>1, <1>2, <1>6 DEF ServeClient, ServeManager, Step, Serves, shellVars, Proc
  <2> QED
    BY <1>0, <1>1, <2>1, ServersKeepCommand
<1>7. CASE UNCHANGED feVars
  BY <1>7 DEF feVars, vars, CommandInv, Reaches, RefusalsRight, Refusable, CommandOK, Looking,
     Nowhere, Passed, Absent
<1> QED
  BY <1>1, <1>3, <1>4, <1>5, <1>6, <1>7 DEF FrontEndNext

LEMMA CommandAlways ==
    ASSUME NEW c, Client = {c}, Started = RM, MaxDown = 0, N >= GroupSize
    PROVE  FrontEndSpec => [](Calmly(c) /\ CommandInv(c))
<1> USE ReplicasAssumption, ManagerAssumption, ShellAssumption
<1>1. FrontEndInit => CommandInv(c)
  BY DEF FrontEndInit, Init, ReplicasInit, CommandInv, Reaches, RefusalsRight, Prompt, Idle, Proc
<1>2. Calmly(c) /\ CommandInv(c) /\ [FrontEndNext]_feVars => CommandInv(c)'
  BY CommandStep
<1> QED
  BY <1>1, <1>2, CalmAlways, PTL DEF FrontEndSpec

-----------------------------------------------------------------------------
(* What the managers, as a service, do in a step                           *)

StateSame(n) == StateOf(n)' = StateOf(n) /\ (Hosting(n)' = {} <=> Hosting(n) = {})
StatesSame == \A n \in Name : StateSame(n)
OthersSame(n) == \A m \in Name : m # n => StateSame(m)

(* The request takes effect on the state of its machine.                   *)
TakesEffect(q, n, p) ==
    /\ q.outcome = "pending" /\ OthersSame(n)
    /\ \/ /\ q.op = "create" /\ StateOf(n) = Nil /\ p = With(q, "done", Nil)
          /\ StateOf(n)' = q.val /\ Hosting(n)' # {}
       \/ /\ q.op = "apply" /\ Hosting(n) # {} /\ p = With(q, "done", StateOf(n)')
          /\ StateOf(n)' = Apply(StateOf(n), q.val) /\ Hosting(n)' # {}
       \/ /\ q.op = "getState" /\ Hosting(n) # {} /\ p = With(q, "done", StateOf(n))
          /\ StateSame(n)
       \/ /\ q.op = "remove" /\ Hosting(n) # {} /\ p = With(q, "done", Nil)
          /\ StateOf(n)' = Nil /\ Hosting(n)' = {}

ServiceDoes(q, n, p) ==
    \/ StatesSame /\ (p = q \/ q = None \/ p = None)
    \/ StatesSame /\ q.outcome = "pending" /\ p = With(q, "error", Nil)
    \/ TakesEffect(q, n, p)

LEMMA ServiceActs ==
    ASSUME NEW c, Client = {c}, NEW q, q = RequestOf(c), NEW p, p = RequestOf(c)',
           q # None => q.name \in Name, [Service!Next]_Service!serviceVars
    PROVE  ServiceDoes(q, q.name, p)
<1> DEFINE n == q.name
<1>0. /\ q.outcome = "pending" => q # None
      /\ Service!None = None
  BY DEF None, Service!None
<1>1. ASSUME NEW a, NEW b, Service!Answer(c, a, b)
      PROVE  p = With(q, a, b)
  BY <1>1 DEF Service!Answer, With
<1>2. CASE UNCHANGED Service!serviceVars
  BY <1>2 DEF Service!serviceVars, ServiceDoes, StatesSame, StateSame
<1>3. CASE Service!Call(c)
  BY <1>0, <1>3 DEF Service!Call, ServiceDoes, StatesSame, StateSame
<1>4. CASE Service!Return(c)
  BY <1>0, <1>4 DEF Service!Return, ServiceDoes, StatesSame, StateSame
<1>5. CASE Service!Refuse(c)
  <2>1. q.outcome = "pending" /\ p = With(q, "error", Nil)
    BY <1>1, <1>5 DEF Service!Refuse
  <2>2. StatesSame
    BY <1>5 DEF Service!Refuse, StatesSame, StateSame
  <2> QED
    BY <2>1, <2>2 DEF ServiceDoes
<1>6. CASE Service!GetState(c)
  <2>1. /\ q.outcome = "pending" /\ q.op = "getState" /\ n \in Name
    BY <1>0, <1>6 DEF Service!GetState, Service!Pending
  <2>2. p = With(q, "done", StateOf(n)) /\ Hosting(n) # {}
    BY <1>1, <1>6, <2>1 DEF Service!GetState
  <2>3. StateSame(n) /\ OthersSame(n)
    BY <1>6, <2>1 DEF Service!GetState, StateSame, OthersSame
  <2> QED
    BY <2>1, <2>2, <2>3 DEF ServiceDoes, TakesEffect
<1>7. CASE Service!Create(c)
  <2>1. /\ q.outcome = "pending" /\ q.op = "create" /\ n \in Name /\ p = With(q, "done", Nil)
    BY <1>0, <1>1, <1>7 DEF Service!Create, Service!Pending
  <2>2. /\ StateOf(n) = Nil /\ StateOf(n)' = q.val /\ Hosting(n)' # {} /\ OthersSame(n)
    BY <1>7, <2>1 DEF Service!Create, OthersSame, StateSame
  <2> QED
    BY <2>1, <2>2 DEF ServiceDoes, TakesEffect
<1>8. CASE Service!Operate(c)
  <2>1. /\ q.outcome = "pending" /\ q.op = "apply" /\ n \in Name
    BY <1>0, <1>8 DEF Service!Operate, Service!Pending
  <2>2. p = With(q, "done", Apply(StateOf(n), q.val))
    BY <1>1, <1>8, <2>1 DEF Service!Operate
  <2>3. /\ Hosting(n) # {} /\ Hosting(n)' # {} /\ OthersSame(n)
        /\ StateOf(n)' = Apply(StateOf(n), q.val)
    BY <1>8, <2>1 DEF Service!Operate, OthersSame, StateSame
  <2> QED
    BY <2>1, <2>2, <2>3 DEF ServiceDoes, TakesEffect
<1>9. CASE Service!Remove(c)
  <2>1. /\ q.outcome = "pending" /\ q.op = "remove" /\ n \in Name /\ p = With(q, "done", Nil)
    BY <1>0, <1>1, <1>9 DEF Service!Remove, Service!Pending
  <2>2. /\ Hosting(n) # {} /\ Hosting(n)' = {} /\ StateOf(n)' = Nil /\ OthersSame(n)
    BY <1>9, <2>1 DEF Service!Remove, OthersSame, StateSame
  <2> QED
    BY <2>1, <2>2 DEF ServiceDoes, TakesEffect
<1>10. ASSUME NEW m \in Name, Service!Rehost(m)
       PROVE  ServiceDoes(q, n, p)
  <2>1. p = q
    BY <1>10 DEF Service!Rehost
  <2>2. \A k \in Name : StateOf(k)' = StateOf(k)
    BY <1>10 DEF Service!Rehost
  <2>3. Hosting(m) # {} /\ Hosting(m)' # {}
    BY <1>10 DEF Service!Rehost
  <2>4. \A k \in Name : k # m => Hosting(k)' = Hosting(k)
    BY <1>10 DEF Service!Rehost
  <2> QED
    BY <2>1, <2>2, <2>3, <2>4 DEF ServiceDoes, StatesSame, StateSame
<1> QED
  BY <1>2, <1>3, <1>4, <1>5, <1>6, <1>7, <1>8, <1>9, <1>10 DEF Service!Next

-----------------------------------------------------------------------------
(* The command as the service's request                                    *)

Shown(f, outcome, res) ==
    [op |-> f.op, name |-> f.name, val |-> f.val, at |-> TheService, res |-> res, outcome |-> outcome]

(* A command f of the shell, whose request to the managers shows as q.     *)
Seen(f, q) ==
    IF f.ok THEN Shown(f, "done", f.res)
    ELSE IF q.outcome = "done" THEN Shown(f, "done", q.res)
    ELSE IF HasFailed(f) THEN Shown(f, "error", Nil)
    ELSE Shown(f, "pending", Nil)

LEMMA CommandSeen ==
    ASSUME NEW c, NEW f, f # Prompt, f.ok \in BOOLEAN
    PROVE  /\ f = shell[c] => CommandOf(c) = Seen(f, RequestOf(c))
           /\ f = shell'[c] => CommandOf(c)' = Seen(f, RequestOf(c)')
<1>1. ASSUME f = shell[c]
      PROVE  CommandOf(c) = Seen(f, RequestOf(c))
  <2>1. PICK q : q = RequestOf(c)
    OBVIOUS
  <2>2. q = IF Serving(c) = {} THEN None ELSE RequestOf(c)
    BY <2>1 DEF RequestOf
  <2>3. CommandOf(c) =
          [op |-> f.op, name |-> f.name, val |-> f.val, at |-> TheService,
           res |-> IF f.ok THEN f.res ELSE IF f.ok \/ q.outcome = "done" THEN q.res ELSE Nil,
           outcome |-> IF f.ok \/ q.outcome = "done" THEN "done"
                       ELSE IF HasFailed(f) THEN "error" ELSE "pending"]
    BY <1>1, <2>2 DEF CommandOf
  <2> QED
    BY <2>1, <2>3 DEF Seen, Shown
<1>2. ASSUME f = shell'[c]
      PROVE  CommandOf(c)' = Seen(f, RequestOf(c)')
  <2>1. PICK q : q = RequestOf(c)'
    OBVIOUS
  <2>2. q = IF Serving(c)' = {} THEN None ELSE RequestOf(c)'
    BY <2>1 DEF RequestOf
  <2>3. CommandOf(c)' =
          [op |-> f.op, name |-> f.name, val |-> f.val, at |-> TheService,
           res |-> IF f.ok THEN f.res ELSE IF f.ok \/ q.outcome = "done" THEN q.res ELSE Nil,
           outcome |-> IF f.ok \/ q.outcome = "done" THEN "done"
                       ELSE IF HasFailed(f) THEN "error" ELSE "pending"]
    BY <1>2, <2>2 DEF CommandOf, HasFailed
  <2> QED
    BY <2>1, <2>3 DEF Seen, Shown
<1> QED
  BY <1>1, <1>2

(* At the prompt there is no command.                                      *)
LEMMA NoCommand ==
    ASSUME NEW c
    PROVE  /\ shell[c] = Prompt => CommandOf(c) = None
           /\ shell'[c] = Prompt => CommandOf(c)' = None
BY DEF CommandOf

LEMMA WithIs ==
    ASSUME NEW f, NEW a, NEW u, NEW b, NEW v
    PROVE  With(Shown(f, a, u), b, v) = Shown(f, b, v)
<1> DEFINE S == [op : {f.op}, name : {f.name}, val : {f.val}, at : {TheService},
                 res : {u, v}, outcome : {a, b}]
<1>1. PICK q, h, e : q = Shown(f, a, u) /\ h = Shown(f, b, v) /\ e = With(q, b, v)
  OBVIOUS
<1>2. /\ q \in S /\ h \in S /\ h.res = v /\ h.outcome = b
      /\ h.op = f.op /\ h.name = f.name /\ h.val = f.val /\ h.at = TheService
      /\ q.op = f.op /\ q.name = f.name /\ q.val = f.val /\ q.at = TheService
  BY <1>1 DEF Shown
<1>3. /\ e \in S /\ e.op = q.op /\ e.name = q.name /\ e.val = q.val /\ e.at = q.at
      /\ e.res = v /\ e.outcome = b
  BY <1>1, <1>2 DEF With
<1>4. e = h
  BY <1>2, <1>3
<1> QED
  BY <1>1, <1>4

LEMMA WithFields ==
    ASSUME NEW k, NEW x, NEW b, NEW v
    PROVE  With(Asked(k, x), b, v).outcome = b /\ With(Asked(k, x), b, v).res = v
BY DEF With, Asked

LEMMA ShownSame ==
    ASSUME NEW f, NEW h, SameCommand(f, h), NEW a, NEW u
    PROVE  Shown(h, a, u) = Shown(f, a, u)
BY DEF Shown, SameCommand

-----------------------------------------------------------------------------
(* Steps of the service that is one host                                   *)

LEMMA CommandWaits ==
    ASSUME NEW c, Client = {c}, CommandOf(c)' = CommandOf(c), StatesSame
    PROVE  UNCHANGED ShellService!serviceVars
BY DEF ShellService!serviceVars, StatesSame, StateSame

LEMMA CommandCalls ==
    ASSUME NEW c, Client = {c}, NEW f \in Shells, CommandOf(c) = None,
           CommandOf(c)' = Shown(f, "pending", Nil), StatesSame
    PROVE  ShellService!Next
<1>1. f.op \in Op /\ f.name \in Name /\ f.val \in Value \cup {Nil}
  BY DEF Shells
<1>2. PICK q : q = [op |-> f.op, name |-> f.name, val |-> f.val, at |-> TheService,
                    outcome |-> "pending", res |-> Nil]
  OBVIOUS
<1>3. CommandOf(c)' = q
  BY <1>2 DEF Shown
<1>4. ShellService!Call(c)
  BY <1>1, <1>2, <1>3
  DEF ShellService!Call, ShellService!None, None, Op, StatesSame, StateSame
<1> QED
  BY <1>4 DEF ShellService!Next

LEMMA CommandReturns ==
    ASSUME NEW c, Client = {c}, CommandOf(c).outcome \in {"done", "error"}, CommandOf(c)' = None,
           StatesSame
    PROVE  ShellService!Next
<1>1. ShellService!Return(c)
  BY DEF ShellService!Return, ShellService!None, None, StatesSame, StateSame
<1> QED
  BY <1>1 DEF ShellService!Next

LEMMA CommandIsRefused ==
    ASSUME NEW c, Client = {c}, NEW f \in Shells, CommandOf(c) = Shown(f, "pending", Nil),
           CommandOf(c)' = Shown(f, "error", Nil), StatesSame,
           IF f.op = "create" THEN StateOf(f.name) # Nil ELSE Hosting(f.name) = {}
    PROVE  ShellService!Next
<1>1. PICK q : q = CommandOf(c)
  OBVIOUS
<1>2. q.outcome = "pending" /\ q.op = f.op /\ q.name = f.name /\ q.at = TheService /\ f.name \in Name
  BY <1>1 DEF Shown, Shells
<1>3. ShellService!Answer(c, "error", Nil)
  <2>1. CommandOf(c)' = With(q, "error", Nil)
    BY <1>1, WithIs
  <2> QED
    BY <1>1, <2>1 DEF ShellService!Answer, With
<1>4. ShellService!Refuse(c)
  BY <1>1, <1>2, <1>3 DEF ShellService!Refuse, StatesSame, StateSame
<1> QED
  BY <1>4 DEF ShellService!Next

LEMMA CommandTakesEffect ==
    ASSUME NEW c, Client = {c}, NEW q, q = CommandOf(c), NEW n \in Name, q.name = n,
           q.at = TheService, NEW p, p = CommandOf(c)', TakesEffect(q, n, p)
    PROVE  ShellService!Next
<1>1. ASSUME NEW op, q.op = op
      PROVE  ShellService!Pending(c, op)
  BY <1>1 DEF ShellService!Pending, TakesEffect
<1>2. ASSUME NEW v, p = With(q, "done", v)
      PROVE  ShellService!Answer(c, "done", v)
  BY <1>2 DEF ShellService!Answer, With
<1>3. CASE /\ q.op = "create" /\ StateOf(n) = Nil /\ p = With(q, "done", Nil)
           /\ StateOf(n)' = q.val /\ Hosting(n)' # {}
  <2>1. ShellService!Create(c)
    BY <1>1, <1>2, <1>3 DEF ShellService!Create, TakesEffect, OthersSame, StateSame
  <2> QED
    BY <2>1 DEF ShellService!Next
<1>4. CASE /\ q.op = "apply" /\ Hosting(n) # {} /\ p = With(q, "done", StateOf(n)')
           /\ StateOf(n)' = Apply(StateOf(n), q.val) /\ Hosting(n)' # {}
  <2>1. PICK v : v = StateOf(n)'
    OBVIOUS
  <2>2. ShellService!Pending(c, "apply") /\ ShellService!Answer(c, "done", v)
    BY <1>1, <1>2, <1>4, <2>1
  <2>3. ShellService!Operate(c)
    BY <1>4, <2>1, <2>2 DEF ShellService!Operate, TakesEffect, OthersSame, StateSame
  <2> QED
    BY <2>3 DEF ShellService!Next
<1>5. CASE /\ q.op = "getState" /\ Hosting(n) # {} /\ p = With(q, "done", StateOf(n))
           /\ StateSame(n)
  <2>1. PICK v : v = StateOf(n)
    OBVIOUS
  <2>2. ShellService!Pending(c, "getState") /\ ShellService!Answer(c, "done", v)
    BY <1>1, <1>2, <1>5, <2>1
  <2>3. ShellService!GetState(c)
    BY <1>5, <2>1, <2>2 DEF ShellService!GetState, TakesEffect, OthersSame, StateSame
  <2> QED
    BY <2>3 DEF ShellService!Next
<1>6. CASE /\ q.op = "remove" /\ Hosting(n) # {} /\ p = With(q, "done", Nil)
           /\ StateOf(n)' = Nil /\ Hosting(n)' = {}
  <2>1. ShellService!Remove(c)
    BY <1>1, <1>2, <1>6 DEF ShellService!Remove, TakesEffect, OthersSame, StateSame
  <2> QED
    BY <2>1 DEF ShellService!Next
<1> QED
  BY <1>3, <1>4, <1>5, <1>6 DEF TakesEffect

-----------------------------------------------------------------------------
(* The steps of the managers, as steps of that service                     *)

(* A request that is being served is one.                                  *)
LEMMA AskedIs ==
    ASSUME NEW k, NEW x
    PROVE  /\ Asked(k, x) # None /\ Asked(k, x).name = x.name /\ Asked(k, x).op = x.op
           /\ Asked(k, x).val = x.val /\ Asked(k, x).res = x.res
           /\ Asked(k, x).outcome = Outcome(x)
<1>1. /\ Asked(k, x).name = x.name /\ Asked(k, x).op = x.op /\ Asked(k, x).val = x.val
      /\ Asked(k, x).res = x.res /\ Asked(k, x).outcome = Outcome(x)
  BY DEF Asked
<1>2. Outcome(x) # "none" /\ None.outcome = "none"
  BY DEF Outcome, None
<1> QED
  BY <1>1, <1>2

(* What takes effect for the request takes effect for the command.         *)
LEMMA EffectSeen ==
    ASSUME NEW f, ~f.ok, ~HasFailed(f), NEW k, NEW x, Awaits(f, x), NEW n, NEW p,
           TakesEffect(Asked(k, x), n, p)
    PROVE  TakesEffect(Seen(f, Asked(k, x)), n, Seen(f, p))
<1>1. PICK q, d : q = Asked(k, x) /\ d = Seen(f, q)
  OBVIOUS
<1>2. q.op = f.op /\ q.val = f.val /\ q.outcome = "pending"
  BY <1>1, AskedIs DEF Awaits, TakesEffect
<1>3. d = Shown(f, "pending", Nil)
  BY <1>2, <1>1 DEF Seen
<1>4. d.op = f.op /\ d.val = f.val /\ d.outcome = "pending"
  BY <1>3 DEF Shown
<1>5. ASSUME NEW v, p = With(q, "done", v)
      PROVE  Seen(f, p) = With(d, "done", v)
  <2>1. p.outcome = "done" /\ p.res = v
    BY <1>1, <1>5, WithFields
  <2>2. Seen(f, p) = Shown(f, "done", v)
    BY <2>1 DEF Seen
  <2> QED
    BY <1>3, <2>2, WithIs
<1>6. OthersSame(n) /\ TakesEffect(q, n, p)
  BY <1>1 DEF TakesEffect
<1>7. TakesEffect(d, n, Seen(f, p))
  <2>1. PICK w, u : w = StateOf(n) /\ u = StateOf(n)'
    OBVIOUS
  <2>2. /\ p = With(q, "done", Nil) => Seen(f, p) = With(d, "done", Nil)
        /\ p = With(q, "done", w) => Seen(f, p) = With(d, "done", w)
        /\ p = With(q, "done", u) => Seen(f, p) = With(d, "done", u)
    BY <1>5
  <2> QED
    BY <1>2, <1>4, <1>6, <2>1, <2>2 DEF TakesEffect
<1> QED
  BY <1>1, <1>7

LEMMA ServersServeCommand ==
    ASSUME ReplicasAssumption, ManagerAssumption, NEW c, Client = {c}, NEW s, Calm(c, s),
           ShellInv, CommandInv(c), Serves(c), UNCHANGED shell,
           [Service!Next]_Service!serviceVars
    PROVE  ShellService!Next \/ UNCHANGED ShellService!serviceVars
<1>0. c \in Client /\ TypeOK /\ AllUp /\ NoRM \notin RM
  BY NoRMOut DEF Calm, NoRMIsNoManager
<1>1. PICK k \in RM : thread[c][k] # Idle
  BY <1>0, ServesSome
<1>2. PICK f, x, y : f = shell[c] /\ x = thread[c][k] /\ y = thread'[c][k]
  OBVIOUS
<1>3. Handles(k, x, y) /\ \A u \in RM : u # k => thread'[c][u] = Idle
  BY <1>1, <1>2, HandlersStep
<1>4. f.wait = k /\ f # Prompt /\ x \in Frame /\ x.name \in Name
  <2>1. f.wait = k /\ x \in Frame /\ x.name \in Name
    BY <1>0, <1>1, <1>2, ServesClient DEF ShellInv, OneRequest
  <2> QED
    BY <1>0, <2>1 DEF Prompt
<1>5. /\ f \in Shells /\ f.pc \in {"create", "stub", "next"} /\ CommandOK(c, f)
      /\ Placed(f) /\ Awaits(f, x) /\ (f.pc = "next" => Looking(f, k, x.pc))
  BY <1>0, <1>2, <1>4 DEF ShellInv, ShellsOK, ShellOK, CommandInv, CommandOK
<1>6. ~HasFailed(f) /\ f.ok \in BOOLEAN /\ f.name = x.name
  BY <1>5 DEF HasFailed, Shells, Awaits
<1>7. Serving(c) = {k} /\ Serving(c)' = {k}
  <2>1. y # Idle
    BY <1>3 DEF Handles, Awaits
  <2>2. Serving(c)' = {k}
    BY <1>2, <1>3, <2>1 DEF Serving
  <2> QED
    BY <1>0, <1>1, <2>2, ServesOne
<1>8. RequestOf(c) = Asked(k, x) /\ RequestOf(c)' = Asked(k, y)
  BY <1>2, <1>7, RequestIs
<1>9. CommandOf(c) = Seen(f, Asked(k, x)) /\ CommandOf(c)' = Seen(f, Asked(k, y))
  BY <1>2, <1>4, <1>6, <1>8, CommandSeen
<1>10. CASE f.ok
  <2>1. x.pc = "check"
    BY <1>0, <1>3, <1>5, <1>10 DEF Placed, Looking, Handles, Unserved
  <2>2. \A q \in RM, n \in Name : machines'[q][n] = machines[q][n]
    BY <1>3, <2>1 DEF Handles
  <2>3. StatesSame
    BY <1>1, <1>2, <1>7, <2>2, StatesStay DEF StatesSame, StateSame
  <2>4. CommandOf(c)' = CommandOf(c)
    BY <1>9, <1>10 DEF Seen
  <2> QED
    BY <2>3, <2>4, CommandWaits
<1>11. CASE ~f.ok
  <2>1. PICK q, p : q = Asked(k, x) /\ p = Asked(k, y)
    OBVIOUS
  <2>2. q # None /\ p # None /\ q.name = x.name /\ q.outcome = Outcome(x) /\ p.outcome = Outcome(y)
    BY <2>1, AskedIs
  <2>3. ServiceDoes(q, x.name, p)
    BY <1>4, <1>8, <2>1, <2>2, ServiceActs
  <2>4. CASE StatesSame /\ p = q
    BY <1>9, <2>1, <2>4, CommandWaits
  <2>5. CASE StatesSame /\ q.outcome = "pending" /\ p = With(q, "error", Nil)
    <3>1. p.outcome = "error"
      BY <2>1, <2>5, WithFields
    <3>2. Seen(f, q) = Seen(f, p)
      BY <1>6, <1>11, <2>5, <3>1 DEF Seen
    <3> QED
      BY <1>9, <2>1, <2>5, <3>2, CommandWaits
  <2>6. CASE TakesEffect(q, x.name, p)
    <3>1. PICK n, d, e : n = x.name /\ d = Seen(f, q) /\ e = Seen(f, p)
      OBVIOUS
    <3>2. TakesEffect(d, n, e)
      BY <1>5, <1>6, <1>11, <2>1, <2>6, <3>1, EffectSeen
    <3>3. d.name = n /\ d.at = TheService
      BY <1>6, <3>1 DEF Seen, Shown
    <3>4. n \in Name /\ d = CommandOf(c) /\ e = CommandOf(c)'
      BY <1>4, <1>9, <2>1, <3>1
    <3> QED
      BY <3>2, <3>3, <3>4, CommandTakesEffect
  <2> QED
    BY <2>2, <2>3, <2>4, <2>5, <2>6 DEF ServiceDoes
<1> QED
  BY <1>6, <1>10, <1>11

-----------------------------------------------------------------------------
(* The steps of the client process, as steps of that service               *)

LEMMA SilentStep ==
    ASSUME NEW c, Client = {c}, UNCHANGED <<machines, thread>>
    PROVE  StatesSame /\ RequestOf(c)' = RequestOf(c)
BY DEF StatesSame, StateSame, StateOf, Primaries, Hosting, Serving, RequestOf

(* A command that has no request with the managers.                        *)
Idles(f) ==
    IF f.ok THEN Shown(f, "done", f.res)
    ELSE IF HasFailed(f) THEN Shown(f, "error", Nil) ELSE Shown(f, "pending", Nil)

LEMMA IdlesSeen ==
    ASSUME NEW f
    PROVE  Seen(f, None) = Idles(f)
BY DEF Seen, Idles, None

(* The next state's command, when h is what the command becomes.           *)
LEMMA CommandIdles ==
    ASSUME ReplicasAssumption, NEW c \in Client, ShellInv, NEW h, Become(c, h), h.ok \in BOOLEAN,
           h # Prompt, \A k \in RM : thread'[c][k] = Idle
    PROVE  CommandOf(c)' = Idles(h)
<1>1. shell'[c] = h
  BY DEF Become, ShellInv
<1>2. RequestOf(c)' = None
  BY NoRequest
<1>3. PICK q : q = RequestOf(c)'
  OBVIOUS
<1>4. CommandOf(c)' = Seen(h, q)
  BY <1>1, <1>3, CommandSeen
<1> QED
  BY <1>2, <1>3, <1>4, IdlesSeen

(* The command of a client that waits for nobody, before a step.           *)
LEMMA CommandIdled ==
    ASSUME ReplicasAssumption, NEW c \in Client, ShellInv, CommandInv(c), NEW f, f = shell[c],
           f.pc # "shell", f.wait = NoRM
    PROVE  CommandOf(c) = Idles(f)
<1>1. f # Prompt /\ f.ok \in BOOLEAN /\ \A k \in RM : thread[c][k] = Idle
  BY CommandThere DEF Shells
<1>2. RequestOf(c) = None
  BY <1>1, NoRequest
<1> QED
  BY <1>1, <1>2, CommandSeen, IdlesSeen

LEMMA TypeCommandCalls ==
    ASSUME ReplicasAssumption, ManagerAssumption, ShellAssumption, NEW c, Client = {c},
           ShellInv, TypeCommand(c)
    PROVE  ShellService!Next
<1>1. PICK h : Begins(c, h)
  BY TypeCommandIs
<1>2. UNCHANGED <<machines, thread>> /\ shell[c].wait = NoRM /\ shell[c].pc = "shell"
  BY DEF TypeCommand, In, vars
<1>3. shell[c] = Prompt
  BY <1>2 DEF ShellInv, ShellsOK, ShellOK, Shells, ShellPC
<1>4. CommandOf(c) = None
  BY <1>3, NoCommand
<1>5. Become(c, h) /\ h \in Shells /\ h.ok = FALSE /\ h # Prompt /\ ~HasFailed(h)
  BY <1>1 DEF Begins, Prompt, HasFailed
<1>6. \A k \in RM : thread'[c][k] = Idle
  BY <1>2, NoneAsked
<1>7. CommandOf(c)' = Shown(h, "pending", Nil)
  BY <1>5, <1>6, CommandIdles DEF Idles
<1> QED
  BY <1>2, <1>4, <1>5, <1>7, SilentStep, CommandCalls

LEMMA ReturnReturns ==
    ASSUME ReplicasAssumption, NEW c, Client = {c}, ShellInv, CommandInv(c), Return(c)
    PROVE  ShellService!Next
<1>1. PICK f : f = shell[c]
  OBVIOUS
<1>2. /\ Become(c, Prompt) /\ UNCHANGED <<machines, thread>>
      /\ f.pc = "returned" /\ f.wait = NoRM
  BY <1>1 DEF Return, In, vars
<1>3. CommandOf(c) = Idles(f)
  BY <1>1, <1>2, CommandIdled
<1>4. CommandOf(c).outcome \in {"done", "error"}
  BY <1>2, <1>3 DEF Idles, HasFailed, Shown
<1>5. shell'[c] = Prompt
  BY <1>2 DEF Become, ShellInv
<1> QED
  BY <1>2, <1>4, <1>5, NoCommand, SilentStep, CommandReturns

LEMMA QuitIsSilent ==
    ASSUME NEW c, Client = {c}, Quit(c)
    PROVE  UNCHANGED ShellService!serviceVars
<1>1. UNCHANGED <<machines, thread, shell>>
  BY DEF Quit, managerVars
<1>2. CommandOf(c)' = CommandOf(c)
  BY <1>1, SilentStep DEF CommandOf, Serving, HasFailed
<1> QED
  BY <1>1, <1>2, SilentStep, CommandWaits

LEMMA ScanIsSilent ==
    ASSUME ReplicasAssumption, NEW c, Client = {c}, ShellInv, CommandInv(c), Scan(c)
    PROVE  UNCHANGED ShellService!serviceVars
<1>1. PICK f : f = shell[c]
  OBVIOUS
<1>2. f.pc = "scan" /\ f.wait = NoRM /\ UNCHANGED <<machines, thread>>
  BY <1>1 DEF Scan, In, managerVars
<1>3. PICK rep : Become(c, [f EXCEPT !.pc = "create", !.i = rep])
  BY <1>1 DEF Scan
<1>4. f \in Shells /\ Placed(f) /\ \A k \in RM : thread[c][k] = Idle
  BY <1>1, <1>2, CommandThere
<1>5. PICK h : h = [f EXCEPT !.pc = "create", !.i = rep]
  OBVIOUS
<1>6. h.pc = "create" /\ SameCommand(f, h) /\ h.ok = f.ok /\ ~f.ok
  BY <1>2, <1>4, <1>5 DEF Shells, SameCommand, Placed
<1>7. Idles(f) = Shown(f, "pending", Nil) /\ Idles(h) = Shown(h, "pending", Nil)
  BY <1>2, <1>6 DEF Idles, HasFailed
<1>8. CommandOf(c) = Idles(f)
  BY <1>1, <1>2, CommandIdled
<1>9. CommandOf(c)' = Idles(h)
  <2>1. Become(c, h) /\ h # Prompt /\ h.ok \in BOOLEAN
    BY <1>3, <1>4, <1>5, <1>6 DEF Prompt, Shells
  <2>2. \A k \in RM : thread'[c][k] = Idle
    BY <1>2, <1>4
  <2> QED
    BY <2>1, <2>2, CommandIdles
<1>10. Shown(h, "pending", Nil) = Shown(f, "pending", Nil)
  BY <1>6, ShownSame
<1> QED
  BY <1>2, <1>7, <1>8, <1>9, <1>10, SilentStep, CommandWaits

LEMMA GetIsSilent ==
    ASSUME ReplicasAssumption, NEW c, Client = {c}, ShellInv, CommandInv(c), Get(c)
    PROVE  UNCHANGED ShellService!serviceVars
<1>1. PICK f, g, h : f = shell[c] /\ g = [f EXCEPT !.i = 0] /\ h = WithStub(g)
  OBVIOUS
<1>2. f.pc = "get" /\ f.wait = NoRM /\ UNCHANGED <<machines, thread>> /\ Become(c, h)
  BY <1>1 DEF Get, In, managerVars
<1>3. f \in Shells /\ Placed(f) /\ \A k \in RM : thread[c][k] = Idle
  BY <1>1, <1>2, CommandThere
<1>4. g \in Shells /\ SameCommand(f, g) /\ g.ok = f.ok /\ g.res = f.res
  <2>1. 0 \in RM
    BY DEF RM, ReplicasAssumption
  <2> QED
    BY <1>1, <1>3, <2>1 DEF Shells, SameCommand
<1>5. /\ SameCommand(g, h) /\ h.ok = g.ok /\ h.res = g.res
      /\ h.pc = IF g.op = "create" THEN "returned" ELSE IF g.op = "remove" THEN "next" ELSE "stub"
  <2>1. h = WithStub(g) /\ g \in Shells
    BY <1>1, <1>4
  <2> QED
    BY <2>1, WithStubIs, Zenon
<1>6. SameCommand(f, h) /\ h.ok = f.ok /\ h.res = f.res /\ h.ok \in BOOLEAN /\ h # Prompt
  BY <1>3, <1>4, <1>5 DEF SameCommand, Shells, Prompt
<1>7. HasFailed(h) <=> HasFailed(f)
  BY <1>2, <1>4, <1>5, <1>6 DEF HasFailed, SameCommand
<1>8. Idles(h) = Idles(f)
  BY <1>6, <1>7, ShownSame DEF Idles
<1>9. CommandOf(c) = Idles(f)
  BY <1>1, <1>2, CommandIdled
<1>10. CommandOf(c)' = Idles(h)
  BY <1>2, <1>3, <1>6, CommandIdles
<1> QED
  BY <1>2, <1>8, <1>9, <1>10, SilentStep, CommandWaits

(* A call to a manager.                                                    *)
LEMMA AskIsSilent ==
    ASSUME ReplicasAssumption, ManagerAssumption, ShellAssumption, NEW c, Client = {c},
           NEW s, Calm(c, s), ShellInv, CommandInv(c),
           CreateAt(c) \/ CallStub(c) \/ CallNext(c), [Service!Next]_Service!serviceVars
    PROVE  UNCHANGED ShellService!serviceVars
<1>0. c \in Client /\ TypeOK /\ AllUp
  BY DEF Calm
<1>1. PICK f : f = shell[c]
  OBVIOUS
<1>2. PICK q \in RM : Ask(c, q) /\ f.pc \in {"create", "stub", "next"} /\ f.wait = NoRM
  BY <1>0, <1>1, CallsAre
<1>3. f \in Shells /\ f.op \in Op /\ \A k \in RM : thread[c][k] = Idle
  BY <1>0, <1>1, <1>2, CommandThere
<1>4. PICK h : Asks(c, q, f, h)
  BY <1>0, <1>1, <1>2, AskIs
<1>5. PICK x : x = thread'[c][q]
  OBVIOUS
<1>6. /\ SameCommand(f, h) /\ h.pc = f.pc /\ h.ok = f.ok /\ h.res = f.res /\ Become(c, h)
      /\ Awaits(f, x) /\ x.pc = IF f.op = "create" THEN "exists" ELSE "check"
      /\ \A u \in RM : u # q => thread'[c][u] = Idle
  BY <1>4, <1>5 DEF Asks
<1>7. StatesSame
  <2>1. PICK a, p : a = RequestOf(c) /\ p = RequestOf(c)'
    OBVIOUS
  <2>2. a = None /\ a.outcome # "pending"
    BY <1>3, <2>1, NoRequest DEF None
  <2>3. ServiceDoes(a, a.name, p)
    BY <2>1, <2>2, ServiceActs
  <2> QED
    BY <2>2, <2>3 DEF ServiceDoes, TakesEffect
<1>8. RequestOf(c)' = Asked(q, x)
  <2>1. Serving(c)' = {q}
    BY <1>5, <1>6 DEF Serving, Awaits
  <2> QED
    BY <1>5, <2>1, RequestIs
<1>9. Outcome(x) = "pending"
  <2>1. x.op \in Op /\ (x.op = "create" => x.pc = "exists") /\ (x.op # "create" => x.pc = "check")
    BY <1>3, <1>6 DEF Awaits
  <2>2. x.op \in {"create", "apply", "getState", "remove"}
    BY <2>1 DEF Op
  <2> QED
    BY <2>1, <2>2, OutcomeIs
<1>10. CommandOf(c)' = Idles(h)
  <2>1. shell'[c] = h /\ h # Prompt /\ h.ok \in BOOLEAN
    BY <1>0, <1>2, <1>3, <1>6 DEF Become, ShellInv, Prompt, Shells
  <2>2. PICK p : p = Asked(q, x)
    OBVIOUS
  <2>3. CommandOf(c)' = Seen(h, p)
    BY <1>8, <2>1, <2>2, CommandSeen
  <2>4. p.outcome = "pending"
    BY <1>9, <2>2, AskedIs
  <2> QED
    BY <2>3, <2>4 DEF Seen, Idles
<1>11. CommandOf(c) = Idles(f)
  BY <1>0, <1>1, <1>2, CommandIdled
<1>12. HasFailed(h) <=> HasFailed(f)
  BY <1>6 DEF HasFailed, SameCommand
<1>13. Idles(h) = Idles(f)
  BY <1>6, <1>12, ShownSame DEF Idles
<1> QED
  BY <1>7, <1>10, <1>11, <1>13, CommandWaits

(* An answer leaves the machines alone.                                    *)
LEMMA AnswerLeaves ==
    ASSUME ReplicasAssumption, NEW c, Client = {c}, NEW q, NEW x,
           RequestOf(c) = Asked(q, x), x.name \in Name, RequestOf(c)' = None,
           [Service!Next]_Service!serviceVars
    PROVE  StatesSame
<1>1. PICK a, p : a = Asked(q, x) /\ p = None
  OBVIOUS
<1>2. ServiceDoes(a, a.name, p)
  <2>1. a = RequestOf(c) /\ p = RequestOf(c)' /\ a.name \in Name
    BY <1>1, AskedIs
  <2> QED
    BY <2>1, ServiceActs
<1>3. \A b, v : p = With(a, b, v) => b = "none"
  <2>1. p.outcome = "none"
    BY <1>1 DEF None
  <2> QED
    BY <1>1, <2>1, WithFields
<1>4. \A v : p # With(a, "done", v) /\ p # With(a, "error", v)
  BY <1>3
<1> QED
  BY <1>2, <1>4 DEF ServiceDoes, TakesEffect

LEMMA AnswerServes ==
    ASSUME ReplicasAssumption, ManagerAssumption, ShellAssumption, NEW c, Client = {c},
           NEW s, Calm(c, s), ShellInv, CommandInv(c),
           NEW q \in RM, Answer(c, q), [Service!Next]_Service!serviceVars
    PROVE  ShellService!Next \/ UNCHANGED ShellService!serviceVars
<1>0. c \in Client
  BY DEF Calm
<1>1. PICK f, x, h : Answers(c, q, f, x, h)
  BY <1>0, AnswerIs
<1>2. /\ f = shell[c] /\ x = thread[c][q] /\ Reply(c, q) /\ Become(c, h) /\ f \in Shells
      /\ f.pc \in {"create", "stub", "next"} /\ f.wait = q /\ Placed(f) /\ Awaits(f, x)
      /\ (f.pc = "next" => f.i = q /\ Looking(f, q, x.pc))
      /\ x.pc \in {"reply", "error"} /\ SameCommand(f, h)
  BY <1>1 DEF Answers
<1>3. /\ x # Idle /\ x.op = f.op /\ x.name = f.name /\ f.name \in Name /\ f.op \in Op
      /\ f.ok \in BOOLEAN /\ f # Prompt /\ ~HasFailed(f) /\ q # NoRM
      /\ (f.pc = "create" <=> f.op = "create")
  BY <1>2, NoRMOut DEF Awaits, Shells, HasFailed, NoRMIsNoManager, Placed, Prompt
<1>4. UNCHANGED machines /\ \A k \in RM : thread'[c][k] = Idle
  BY <1>0, <1>2, AnswerEnds
<1>5. RequestOf(c) = Asked(q, x)
  BY <1>0, <1>2, <1>3, ServesOne, RequestIs
<1>6. StatesSame
  BY <1>3, <1>4, <1>5, NoRequest, AnswerLeaves
<1>7. CommandOf(c) = Seen(f, Asked(q, x))
  BY <1>2, <1>3, <1>5, CommandSeen
<1>8. ASSUME h.ok \in BOOLEAN
      PROVE  CommandOf(c)' = Idles(h)
  <2>1. h # Prompt
    BY <1>1, <1>2 DEF Answers, Prompt
  <2> QED
    BY <1>0, <1>2, <1>4, <1>8, <2>1, CommandIdles
<1>9. CASE x.pc = "reply"
  <2>1. h.ok /\ h.ok \in BOOLEAN /\ h.res = x.res
    BY <1>1, <1>9 DEF Answers
  <2>2. ~f.ok
    BY <1>2, <1>3, <1>9 DEF Placed, Looking, Unserved
  <2>3. PICK p : p = Asked(q, x)
    OBVIOUS
  <2>4. p.outcome = "done" /\ p.res = x.res
    <3>1. Outcome(x) = "done"
      BY <1>3, <1>9, OutcomeIs DEF Op
    <3> QED
      BY <2>3, <3>1, AskedIs
  <2>5. CommandOf(c) = Shown(f, "done", x.res)
    BY <1>7, <2>2, <2>3, <2>4 DEF Seen
  <2>6. CommandOf(c)' = Shown(h, "done", x.res)
    BY <1>8, <2>1 DEF Idles
  <2>7. Shown(h, "done", x.res) = Shown(f, "done", x.res)
    BY <1>2, ShownSame
  <2> QED
    BY <1>6, <2>5, <2>6, <2>7, CommandWaits
<1>10. CASE x.pc = "error"
  <2>1. /\ h.ok = f.ok /\ h.res = f.res /\ Refusable(q, x)
        /\ f.pc = "create" => h.pc = "get"
        /\ f.pc = "stub" => h.pc = "next" /\ h.i = f.i
        /\ f.pc = "next" /\ f.i + 1 = N => h.pc = "returned"
        /\ f.pc = "next" /\ f.i + 1 # N => h.pc = "next" /\ h.i = f.i + 1
    BY <1>1, <1>10 DEF Answers
  <2>2. CommandOf(c) = Idles(f)
    <3>1. PICK p : p = Asked(q, x)
      OBVIOUS
    <3>2. p.outcome # "done"
      <4>1. Outcome(x) = "error"
        BY <1>3, <1>10, OutcomeIs
      <4> QED
        BY <3>1, <4>1, AskedIs
    <3> QED
      BY <1>7, <3>1, <3>2 DEF Seen, Idles
  <2>3. CommandOf(c)' = Idles(h)
    BY <1>3, <1>8, <2>1
  <2>4. CASE f.ok \/ ~HasFailed(h)
    <3>1. Idles(h) = Idles(f)
      BY <1>2, <1>3, <2>1, <2>4, ShownSame DEF Idles
    <3> QED
      BY <1>6, <2>2, <2>3, <3>1, CommandWaits
  <2>5. CASE ~f.ok /\ HasFailed(h)
    <3>1. CommandOf(c) = Shown(f, "pending", Nil)
      BY <1>3, <2>2, <2>5 DEF Idles
    <3>2. CommandOf(c)' = Shown(f, "error", Nil)
      BY <1>2, <2>1, <2>3, <2>5, ShownSame DEF Idles
    <3>3. IF f.op = "create" THEN StateOf(f.name) # Nil ELSE Hosting(f.name) = {}
      <4>1. CASE f.op = "create"
        <5>1. PICK r \in RM : machines[r][f.name] # Nil
          BY <1>3, <2>1, <4>1 DEF Refusable, Nowhere, Absent
        <5>2. Hosting(f.name) # {}
          BY <5>1 DEF Hosting
        <5>3. StateIsChosen(c, f.name)
          BY <1>3, StateChosen
        <5> QED
          BY <4>1, <5>2, <5>3 DEF StateIsChosen, Hosting
      <4>2. CASE f.op # "create"
        <5>1. f.pc = "next" /\ f.i + 1 = N
          BY <1>2, <1>3, <2>1, <2>5, <4>2 DEF HasFailed, SameCommand
        <5>2. Passed(f) /\ f.i = q
          BY <1>2, <1>3, <1>10, <2>5, <5>1 DEF Looking, Unserved
        <5>3. Absent(q, f.name)
          BY <1>3, <2>1, <4>2 DEF Refusable
        <5>4. \A r \in RM : r < q \/ r = q
          BY <5>1, <5>2 DEF RM, ReplicasAssumption
        <5>5. \A r \in RM : machines[r][f.name] = Nil
          BY <5>2, <5>3, <5>4 DEF Passed, Absent
        <5> QED
          BY <4>2, <5>5 DEF Hosting
      <4> QED
        BY <4>1, <4>2
    <3> QED
      BY <1>2, <1>6, <3>1, <3>2, <3>3, CommandIsRefused
  <2> QED
    BY <2>4, <2>5
<1> QED
  BY <1>2, <1>9, <1>10

LEMMA ShellServiceStep ==
    ASSUME ReplicasAssumption, ManagerAssumption, ShellAssumption,
           NEW c, Client = {c}, MaxDown = 0, Calmly(c), CommandInv(c), [FrontEndNext]_feVars
    PROVE  [ShellService!Next]_ShellService!serviceVars
<1>0. PICK s : Calm(c, s)
  BY DEF Calmly, GroupInv, Calm
<1>1. c \in Client /\ TypeOK /\ AllUp /\ ShellInv
  BY <1>0 DEF Calm, Calmly
<1>2. \A p \in Proc, r \in RM : ~Escape(p, r) /\ ~Abort(p, r)
  BY <1>0, <1>1, NobodyFails
<1>3. \A r \in RM : ~Fail(r) /\ ~Restart(r)
  BY <1>1, NobodyStops DEF Fail, Restart
<1>4. [Service!Next]_Service!serviceVars
  <2>1. CalmNext(c, TypedOp)
    BY <1>1, FrontEndIsCalm
  <2>2. TypedOp \subseteq Op
    BY TypedOps
  <2> QED
    BY <1>0, <2>1, <2>2, ServiceStep
<1>5. CASE ClientStep(c)
  <2>1. CASE \E q \in RM : Answer(c, q) \/ Lost(c, q)
    BY <1>0, <1>1, <1>4, <2>1, AnswerServes, NothingIsLost
  <2>2. CASE CreateAt(c) \/ CallStub(c) \/ CallNext(c)
    BY <1>0, <1>1, <1>4, <2>2, AskIsSilent
  <2>3. CASE Return(c) \/ Scan(c) \/ Get(c)
    BY <1>1, <2>3, ReturnReturns, ScanIsSilent, GetIsSilent
  <2> QED
    BY <1>5, <2>1, <2>2, <2>3 DEF ClientStep
<1>6. CASE TypeCommand(c) \/ Quit(c)
  BY <1>1, <1>6, TypeCommandCalls, QuitIsSilent
<1>7. ASSUME \/ \E r \in RM : ServeClient(c, r)
             \/ \E p, r \in RM : ServeManager(p, r)
      PROVE  [ShellService!Next]_ShellService!serviceVars
  <2>1. UNCHANGED shell /\ Serves(c)
    BY <1>1, <1>2, <1>7 DEF ServeClient, ServeManager, Step, Serves, shellVars, Proc
  <2> QED
    BY <1>0, <1>1, <1>4, <2>1, ServersServeCommand
<1>8. CASE UNCHANGED feVars
  <2>1. UNCHANGED <<machines, thread, shell>>
    BY <1>8 DEF feVars, vars
  <2>2. CommandOf(c)' = CommandOf(c)
    BY <2>1, SilentStep DEF CommandOf, Serving, HasFailed
  <2> QED
    BY <2>1, <2>2, SilentStep, CommandWaits
<1> QED
  BY <1>1, <1>3, <1>5, <1>6, <1>7, <1>8 DEF FrontEndNext

LEMMA ShellServiceInit ==
    ASSUME NEW c, Client = {c}, FrontEndInit
    PROVE  ShellService!Init
<1>1. Init /\ shell[c] = Prompt
  BY DEF FrontEndInit
<1>2. \A n \in Name : Hosting(n) = {}
  BY <1>1 DEF Init, Hosting
<1>3. \A n \in Name : StateOf(n) = Nil
  BY <1>2 DEF StateOf
<1>4. CommandOf(c) = None
  BY <1>1, NoCommand
<1> QED
  BY <1>2, <1>3, <1>4 DEF ShellService!Init, ShellService!None, None

(***************************************************************************)
(* With one client process, any number of managers from three on, and none *)
(* of them failing, what the front end makes of the shell's commands, the  *)
(* scans, the pings, the stub that stays with its manager while the        *)
(* machine moves, the loop over all managers that follows, is one request  *)
(* to a StateMachineService that is a single host: a command takes effect  *)
(* once at most and, when it is answered, once; it is answered with the    *)
(* machine's one state, and it fails only when the machine does not exist  *)
(* or, for create(), does.                                                 *)
(***************************************************************************)
THEOREM CommandsAreRequests ==
    ASSUME NEW c, Client = {c}, Started = RM, MaxDown = 0, N >= GroupSize
    PROVE  FrontEndSpec => ImplementsOneHost
<1> USE ReplicasAssumption, ManagerAssumption, ShellAssumption
<1>1. FrontEndInit => ShellService!Init
  BY ShellServiceInit
<1>2. Calmly(c) /\ CommandInv(c) /\ [FrontEndNext]_feVars =>
          [ShellService!Next]_ShellService!serviceVars
  BY ShellServiceStep
<1>3. FrontEndSpec => [](Calmly(c) /\ CommandInv(c))
  BY CommandAlways
<1> QED
  BY <1>1, <1>2, <1>3, PTL DEF FrontEndSpec, ImplementsOneHost, ShellService!Spec
=============================================================================
