--------------------------- MODULE ReplicaManager ---------------------------
(***************************************************************************)
(* The RPC handlers of a replica manager (replica_handler.cpp).            *)
(*                                                                         *)
(* thread[p][r] is the thread of manager r that serves the connection from *)
(* process p: a connection has one thread, which serves one request at a   *)
(* time, so a second request of p on r waits in the socket.  A thread that *)
(* calls manager q has wait = q until the thread [r][q] answers.  A thread *)
(* whose caller died runs on; its answer is lost.                          *)
(*                                                                         *)
(* hasStateMachine() and numMachines() take no lock and call nobody: a     *)
(* ping is answered within the step of the caller.                         *)
(***************************************************************************)
EXTENDS Replicas, SequencesExt

CONSTANTS
    Name,           \* state machine names
    Value,          \* the strings that are states and operations
    Apply(_, _),    \* Apply(s, o): StateMachine::apply in state s
    Command,        \* the requests the clients send
    MaxDown,        \* bound: managers that are down at the same time
    Nil,            \* no machine, no group list, no lock holder, no result
    Gone            \* holder of a mutex whose thread ended without unlocking

ASSUME ManagerAssumption ==
    /\ \A s, o \in Value : Apply(s, o) \in Value
    /\ Command \subseteq {"create", "apply", "getState", "remove"}
    /\ Nil \notin Value
    /\ Nil \notin Proc
    /\ Nil \notin Seq(Id)
    /\ Gone \notin Proc \cup {Nil}
    /\ IsFiniteSet(Name)
    /\ MaxDown \in Nat

VARIABLES
    machines,   \* machines[r][n]: the state of machine n at manager r
    groupMap,   \* groupMap[r][n]: the group list of n at r
    mutex,      \* mutex[r]: the thread that last locked r's managerMutex
    thread      \* the server threads

managerVars == <<machines, groupMap, mutex, thread>>
vars == <<status, conn, machines, groupMap, mutex, thread>>

GroupSize == 3

Op == {"create", "apply", "getState", "remove"}
PC == {"exists", "dup", "check", "read", "lock", "insert", "group", "prune",
       "select", "send", "fwdlock", "fwd", "local", "unlock", "erase",
       "eraseGroup", "reply", "error"}

(***************************************************************************)
(* A request being served.  vec is the RMs argument of create() and the    *)
(* groupVector of apply() and remove(); i is the position of a loop.       *)
(***************************************************************************)
Frame == {f \in [op : Op, name : Name, val : Value \cup {Nil}, vec : Seq(Id),
                 fromFrontEnd : BOOLEAN, pc : PC, wait : Id, i : Nat,
                 res : Value \cup {Nil}] :
            /\ f.op = "apply" => f.val \in Value
            /\ f.pc \in {"local", "unlock"} => f.op = "apply"}
Idle == [pc |-> "idle", wait |-> NoRM]

Request(op, n, val, vec, ff) ==
    [op |-> op, name |-> n, val |-> val, vec |-> vec, fromFrontEnd |-> ff,
     pc |-> IF op # "create" THEN "check" ELSE IF ff THEN "exists" ELSE "dup",
     wait |-> NoRM, i |-> 0, res |-> Nil]

Init ==
    /\ ReplicasInit
    /\ machines = [r \in RM |-> [n \in Name |-> Nil]]
    /\ groupMap = [r \in RM |-> [n \in Name |-> Nil]]
    /\ mutex = [r \in RM |-> Nil]
    /\ thread = [p \in Proc |-> [r \in RM |-> Idle]]

(* groupMap[name] with the operator[] of a map: a missing list is empty.   *)
Group(r, n) == IF groupMap[r][n] = Nil THEN <<>> ELSE groupMap[r][n]
SetGroup(r, n, g) == groupMap' = [groupMap EXCEPT ![r][n] = g]
NumMachines(r) == Cardinality({n \in Name : machines[r][n] # Nil})

At(p, r, pc) == thread[p][r].pc = pc /\ thread[p][r].wait = NoRM
Goto(p, r, f) == thread' = [thread EXCEPT ![p][r] = f]
Free(r) == mutex' = [mutex EXCEPT ![r] = Nil]

(***************************************************************************)
(* Manager r pings the managers S.  A connection that another thread of r  *)
(* is using makes it wait.  A ping changes nothing but the connection, so  *)
(* a loop of pings is one step.                                            *)
(***************************************************************************)
Ping(r, S) ==
    /\ \A q \in S : CanCall(r, q) => thread[r][q] = Idle
    /\ Connect(r, S)

(* The managers that answer process p and say they do not have machine n.  *)
NonHolders(p, n) == {k \in RM : CanCall(p, k) /\ machines[k][n] = Nil}

(* The loops "if(minload > num)": the first of the least loaded.           *)
LeastLoaded(S) ==
    {k \in S : \A j \in S :
        \/ NumMachines(k) < NumMachines(j)
        \/ NumMachines(k) = NumMachines(j) /\ k <= j}

(* Mutant: two threads of r use the connection to q at the same time.      *)
SendShared(p, r, q, f, req) ==
    /\ Connect(r, {q})
    /\ IF CanCall(r, q)
       THEN thread' = [thread EXCEPT ![p][r] = [f EXCEPT !.wait = q], ![r][q] = req]
       ELSE Goto(p, r, [f EXCEPT !.i = @ + 1])

(***************************************************************************)
(* Thread [p][r], in state f, sends request req to q.  If q cannot be      *)
(* reached the exception is ignored and the loop goes on.                  *)
(***************************************************************************)
Send(p, r, q, f, req) ==
    /\ Connect(r, {q})
    /\ IF CanCall(r, q)
       THEN /\ thread[r][q] = Idle
            /\ thread' = [thread EXCEPT ![p][r] = [f EXCEPT !.wait = q],
                                        ![r][q] = req]
       ELSE Goto(p, r, [f EXCEPT !.i = @ + 1])

-----------------------------------------------------------------------------
(* create(), apply(), getState() and remove() up to the call of replaceRM  *)

(* create(): ask every manager whether it already has the machine.         *)
CreateExists(p, r) ==
    LET f == thread[p][r] IN
    /\ At(p, r, "exists")
    /\ Ping(r, RM)
    /\ Goto(p, r, [f EXCEPT !.pc =
            IF \E q \in RM : CanCall(r, q) /\ machines[q][f.name] # Nil
            THEN "error" ELSE "lock"])
    /\ UNCHANGED <<status, machines, groupMap, mutex>>

(* create() from another manager: a duplicate only updates the group list. *)
CreateDup(p, r) ==
    LET f == thread[p][r] IN
    /\ At(p, r, "dup")
    /\ IF machines[r][f.name] # Nil
       THEN /\ SetGroup(r, f.name, f.vec)
            /\ Goto(p, r, [f EXCEPT !.pc = "error"])
       ELSE /\ Goto(p, r, [f EXCEPT !.pc = "lock"])
            /\ UNCHANGED groupMap
    /\ UNCHANGED <<status, conn, machines, mutex>>

CheckExists(p, r) ==
    LET f == thread[p][r] IN
    /\ At(p, r, "check")
    /\ Goto(p, r, [f EXCEPT !.pc =
            IF machines[r][f.name] = Nil THEN "error"
            ELSE IF f.op = "getState" THEN "read"
            ELSE IF f.op = "remove" /\ f.fromFrontEnd THEN "fwdlock"
            ELSE "lock"])
    /\ UNCHANGED <<status, conn, machines, groupMap, mutex>>

Read(p, r) ==
    LET f == thread[p][r] IN
    /\ At(p, r, "read")
    /\ machines[r][f.name] # Nil
    /\ Goto(p, r, [f EXCEPT !.pc = "lock", !.res = machines[r][f.name]])
    /\ UNCHANGED <<status, conn, machines, groupMap, mutex>>

(* Mutant: the mutex is taken over, locked or not.                         *)
LockTakenOver(p, r) ==
    LET f == thread[p][r] IN
    /\ At(p, r, "lock")
    /\ mutex' = [mutex EXCEPT ![r] = p]
    /\ Goto(p, r, [f EXCEPT !.i = 1, !.pc =
            IF f.op = "create" THEN "insert"
            ELSE IF f.op = "remove" THEN "erase" ELSE "prune"])
    /\ UNCHANGED <<status, conn, machines, groupMap>>

Lock(p, r) ==
    LET f == thread[p][r] IN
    /\ At(p, r, "lock")
    /\ mutex[r] = Nil
    /\ mutex' = [mutex EXCEPT ![r] = p]
    /\ Goto(p, r, [f EXCEPT !.i = 1, !.pc =
            IF f.op = "create" THEN "insert"
            ELSE IF f.op = "remove" THEN "erase" ELSE "prune"])
    /\ UNCHANGED <<status, conn, machines, groupMap>>

(* Mutant: the machine is left to be inserted later.                       *)
InsertLate(p, r) ==
    /\ At(p, r, "insert")
    /\ Goto(p, r, [thread[p][r] EXCEPT !.pc = "group"])
    /\ UNCHANGED <<status, conn, machines, groupMap, mutex>>

(* insert() keeps an element that is already there.                        *)
Insert(p, r) ==
    LET f == thread[p][r] IN
    /\ At(p, r, "insert")
    /\ machines' = [machines EXCEPT ![r][f.name] = IF @ = Nil THEN f.val ELSE @]
    /\ Goto(p, r, [f EXCEPT !.pc = "group"])
    /\ UNCHANGED <<status, conn, groupMap, mutex>>

InsertGroup(p, r) ==
    LET f == thread[p][r] IN
    /\ At(p, r, "group")
    /\ groupMap' = [groupMap EXCEPT ![r][f.name] = IF @ = Nil THEN f.vec ELSE @]
    /\ Goto(p, r, [f EXCEPT !.pc = "prune"])
    /\ UNCHANGED <<status, conn, machines, mutex>>

-----------------------------------------------------------------------------
(* replaceRM(), entered with the mutex held and left without it            *)

(* Mutant: replaceRM() goes on with the mutex locked.                      *)
ReleaseForgotten(p, r, f) ==
    UNCHANGED mutex /\ Goto(p, r, [f EXCEPT !.pc = "send", !.i = 1])

(* The unlock after both loops, and the start of the loop that sends.      *)
Release(p, r, f) == Free(r) /\ Goto(p, r, [f EXCEPT !.pc = "send", !.i = 1])

(***************************************************************************)
(* Ping the members of the list from position f.i to the first that does   *)
(* not answer, and erase it.  That sends the iterator back to begin() and  *)
(* ++it then to position 2: the new first member is not pinged.            *)
(***************************************************************************)
(* Mutant: the last member of the list is not pinged.                      *)
SilentButLast(r, g, i) ==
    {j \in DOMAIN g : i <= j /\ j < Len(g) /\ (g[j] = NoRM \/ ~CanCall(r, g[j]))}

Silent(r, g, i) ==
    {j \in DOMAIN g : i <= j /\ (g[j] = NoRM \/ ~CanCall(r, g[j]))}

Prune(p, r) ==
    LET f == thread[p][r]
        g == Group(r, f.name)
        j == Min(Silent(r, g, f.i))
    IN
    /\ At(p, r, "prune")
    /\ Silent(r, g, f.i) # {}
    /\ g[j] # NoRM
    /\ Ping(r, {g[k] : k \in f.i .. j})
    /\ SetGroup(r, f.name, RemoveAt(g, j))
    /\ Goto(p, r, [f EXCEPT !.i = 2])
    /\ UNCHANGED <<status, machines, mutex>>

PruneEnd(p, r) ==
    LET f == thread[p][r]
        g == Group(r, f.name)
    IN
    /\ At(p, r, "prune")
    /\ f.i <= Len(g) + 1
    /\ Silent(r, g, f.i) = {}
    /\ Ping(r, {g[k] : k \in f.i .. Len(g)})
    /\ SetGroup(r, f.name, g)
    /\ IF Len(g) < GroupSize
       THEN Goto(p, r, [f EXCEPT !.pc = "select"]) /\ UNCHANGED mutex
       ELSE Release(p, r, f)
    /\ UNCHANGED <<status, machines>>

(***************************************************************************)
(* Add the least loaded manager without the machine, other than element 1  *)
(* of the list.  With no such manager, push_back() takes an uninitialised  *)
(* variable: any index.  Element 1 of an empty list must not be looked at. *)
(***************************************************************************)
Select(p, r) ==
    LET f == thread[p][r]
        g == Group(r, f.name)
        C == {k \in NonHolders(r, f.name) : Len(g) = 1 \/ g[2] # k}
    IN
    /\ At(p, r, "select")
    /\ g = <<>> => NonHolders(r, f.name) = {}
    /\ Ping(r, RM)
    /\ \E rep \in IF C = {} THEN Id ELSE LeastLoaded(C) :
            SetGroup(r, f.name, Append(g, rep))
    /\ IF Len(g) + 1 < GroupSize
       THEN UNCHANGED <<mutex, thread>>
       ELSE Release(p, r, f)
    /\ UNCHANGED <<status, machines>>

(* The next member from position i on that is not r itself.                *)
Others(r, g, i) == {j \in DOMAIN g : i <= j /\ g[j] # r}
NextOther(r, g, i) == Min(Others(r, g, i))

(* Mutant: the list that is sent is the argument of the request.           *)
SendCreateOldList(p, r) ==
    LET f == thread[p][r]
        g == Group(r, f.name)
        j == NextOther(r, g, f.i)
    IN
    /\ At(p, r, "send")
    /\ Others(r, g, f.i) # {}
    /\ g[j] # NoRM
    /\ machines[r][f.name] # Nil \/ OpenFails(r, g[j])
    /\ Send(p, r, g[j], [f EXCEPT !.i = j],
            Request("create", f.name, machines[r][f.name], f.vec, FALSE))
    /\ UNCHANGED <<status, machines, groupMap, mutex>>

(* Send the machine and the group list, as they are now, to every member.  *)
SendCreate(p, r) ==
    LET f == thread[p][r]
        g == Group(r, f.name)
        j == NextOther(r, g, f.i)
    IN
    /\ At(p, r, "send")
    /\ Others(r, g, f.i) # {}
    /\ g[j] # NoRM
    /\ machines[r][f.name] # Nil \/ OpenFails(r, g[j])
    /\ Send(p, r, g[j], [f EXCEPT !.i = j],
            Request("create", f.name, machines[r][f.name], g, FALSE))
    /\ UNCHANGED <<status, machines, groupMap, mutex>>

(* Mutant: getState() goes on like apply().                                *)
SendEndFallsThrough(p, r) ==
    LET f == thread[p][r]
        g == Group(r, f.name)
    IN
    /\ At(p, r, "send")
    /\ Others(r, g, f.i) = {}
    /\ SetGroup(r, f.name, g)
    /\ Goto(p, r, [f EXCEPT !.i = 0, !.pc =
            IF f.op = "create" THEN "reply"
            ELSE IF f.fromFrontEnd THEN "fwdlock" ELSE "local"])
    /\ UNCHANGED <<status, conn, machines, mutex>>

(* End of replaceRM(): back to the handler that called it.                 *)
SendEnd(p, r) ==
    LET f == thread[p][r]
        g == Group(r, f.name)
    IN
    /\ At(p, r, "send")
    /\ Others(r, g, f.i) = {}
    /\ SetGroup(r, f.name, g)
    /\ Goto(p, r, [f EXCEPT !.i = 0, !.pc =
            IF f.op # "apply" THEN "reply"
            ELSE IF f.fromFrontEnd THEN "fwdlock" ELSE "local"])
    /\ UNCHANGED <<status, conn, machines, mutex>>

-----------------------------------------------------------------------------
(* apply() and remove() after that                                         *)

ForwardLock(p, r) ==
    LET f == thread[p][r] IN
    /\ At(p, r, "fwdlock")
    /\ mutex[r] = Nil
    /\ mutex' = [mutex EXCEPT ![r] = p]
    /\ SetGroup(r, f.name, Group(r, f.name))
    /\ Goto(p, r, [f EXCEPT !.pc = "fwd", !.i = 1, !.vec = Group(r, f.name)])
    /\ UNCHANGED <<status, conn, machines>>

(* Mutant: the state is sent, where the operation should be.               *)
ForwardState(p, r) ==
    LET f == thread[p][r]
        j == NextOther(r, f.vec, f.i)
    IN
    /\ At(p, r, "fwd")
    /\ Others(r, f.vec, f.i) # {}
    /\ f.vec[j] # NoRM
    /\ Send(p, r, f.vec[j], [f EXCEPT !.i = j],
            Request(f.op, f.name, machines[r][f.name], <<>>, FALSE))
    /\ UNCHANGED <<status, machines, groupMap, mutex>>

(* Repeat the request to the other members, holding the mutex.             *)
Forward(p, r) ==
    LET f == thread[p][r]
        j == NextOther(r, f.vec, f.i)
    IN
    /\ At(p, r, "fwd")
    /\ Others(r, f.vec, f.i) # {}
    /\ f.vec[j] # NoRM
    /\ Send(p, r, f.vec[j], [f EXCEPT !.i = j],
            Request(f.op, f.name, f.val, <<>>, FALSE))
    /\ UNCHANGED <<status, machines, groupMap, mutex>>

ForwardEnd(p, r) ==
    LET f == thread[p][r] IN
    /\ At(p, r, "fwd")
    /\ Others(r, f.vec, f.i) = {}
    /\ Free(r)
    /\ Goto(p, r, [f EXCEPT !.i = 0, !.vec = <<>>, !.pc =
            IF f.op = "apply" THEN "local" ELSE "lock"])
    /\ UNCHANGED <<status, conn, machines, groupMap>>

(* The local operation runs without the mutex, which is unlocked after it. *)
ApplyLocal(p, r) ==
    LET f == thread[p][r]
        s == Apply(machines[r][f.name], f.val)
    IN
    /\ At(p, r, "local")
    /\ machines[r][f.name] # Nil
    /\ machines' = [machines EXCEPT ![r][f.name] = s]
    /\ Goto(p, r, [f EXCEPT !.pc = "unlock", !.res = s])
    /\ UNCHANGED <<status, conn, groupMap, mutex>>

Unlock(p, r) ==
    /\ At(p, r, "unlock")
    /\ Free(r)
    /\ Goto(p, r, [thread[p][r] EXCEPT !.pc = "reply"])
    /\ UNCHANGED <<status, conn, machines, groupMap>>

Erase(p, r) ==
    LET f == thread[p][r] IN
    /\ At(p, r, "erase")
    /\ machines' = [machines EXCEPT ![r][f.name] = Nil]
    /\ Goto(p, r, [f EXCEPT !.pc = "eraseGroup"])
    /\ UNCHANGED <<status, conn, groupMap, mutex>>

EraseGroup(p, r) ==
    LET f == thread[p][r] IN
    /\ At(p, r, "eraseGroup")
    /\ SetGroup(r, f.name, Nil)
    /\ Free(r)
    /\ Goto(p, r, [f EXCEPT !.pc = "reply"])
    /\ UNCHANGED <<status, conn, machines>>

ServerStep(p, r) ==
    \/ CreateExists(p, r) \/ CreateDup(p, r) \/ CheckExists(p, r)
    \/ Read(p, r) \/ Lock(p, r) \/ Insert(p, r) \/ InsertGroup(p, r)
    \/ Prune(p, r) \/ PruneEnd(p, r) \/ Select(p, r) \/ SendCreate(p, r) \/ SendEnd(p, r)
    \/ ForwardLock(p, r) \/ Forward(p, r) \/ ForwardEnd(p, r)
    \/ ApplyLocal(p, r) \/ Unlock(p, r) \/ Erase(p, r) \/ EraseGroup(p, r)

-----------------------------------------------------------------------------
(* How a request ends, and how a process ends                              *)

(* Mutant: the caller is not woken up.                                     *)
ResumeForgotten(f) == [f EXCEPT !.i = @ + 1]

(* A caller that gets its answer, or an exception, goes on with its loop.  *)
Resume(f) == [f EXCEPT !.wait = NoRM, !.i = @ + 1]

ThreadsAfterReply(p, r) ==
    [t \in Proc |-> [q \in RM |->
        IF t = p /\ q = r THEN Idle
        ELSE IF q = p /\ thread[t][q].wait = r THEN Resume(thread[t][q])
        ELSE thread[t][q]]]

Reply(p, r) ==
    /\ thread[p][r].pc \in {"reply", "error"}
    /\ thread' = ThreadsAfterReply(p, r)
    /\ UNCHANGED <<status, conn, machines, groupMap, mutex>>

(* The loop of replaceRM() is beyond end(), or at an index without a manager. *)
Overrun(p, r) ==
    At(p, r, "prune") /\ thread[p][r].i > Len(Group(r, thread[p][r].name)) + 1

BadIndex(p, r) ==
    LET f == thread[p][r]
        g == Group(r, f.name)
        HitsNoRM(S, h) == S # {} /\ h[Min(S)] = NoRM
    IN  \/ At(p, r, "prune") /\ HitsNoRM(Silent(r, g, f.i), g)
        \/ At(p, r, "send") /\ HitsNoRM(Others(r, g, f.i), g)
        \/ At(p, r, "fwd") /\ HitsNoRM(Others(r, f.vec, f.i), f.vec)

(* The members that a thread in the loop of replaceRM() pings before that. *)
Pinged(p, r) ==
    LET f == thread[p][r]
        g == Group(r, f.name)
        J == Silent(r, g, f.i)
    IN  IF At(p, r, "prune") /\ J # {} THEN {g[k] : k \in f.i .. Min(J) - 1} ELSE {}

(***************************************************************************)
(* operator[] throws a char const *, which is no std::exception: it leaves *)
(* the handler, the server closes the connection, and a mutex the thread   *)
(* holds stays locked.                                                     *)
(***************************************************************************)
Escape(p, r) ==
    /\ BadIndex(p, r) \/ Overrun(p, r)
    /\ thread' = ThreadsAfterReply(p, r)
    /\ conn' = [Opened(r, Pinged(p, r)) EXCEPT ![p][r] = IF @ = "open" THEN "broken" ELSE @]
    /\ mutex' = [mutex EXCEPT ![r] = IF @ = p THEN Gone ELSE @]
    /\ UNCHANGED <<status, machines, groupMap>>

(* Process r ends: its threads die and whoever waits for them goes on.     *)
Die(r, how) ==
    /\ status' = [status EXCEPT ![r] = how]
    /\ conn' = ConnWithout(r)
    /\ machines' = [machines EXCEPT ![r] = [n \in Name |-> Nil]]
    /\ groupMap' = [groupMap EXCEPT ![r] = [n \in Name |-> Nil]]
    /\ mutex' = [mutex EXCEPT ![r] = Nil]
    /\ thread' = [t \in Proc |-> [q \in RM |->
            IF q = r THEN Idle
            ELSE IF thread[t][q].wait = r THEN Resume(thread[t][q])
            ELSE thread[t][q]]]

(* Dereferencing a machine that is gone, or element 1 of an empty list.    *)
Abort(p, r) ==
    LET f == thread[p][r]
        g == Group(r, f.name)
    IN
    /\ \/ At(p, r, "read") /\ machines[r][f.name] = Nil
       \/ At(p, r, "local") /\ machines[r][f.name] = Nil
       \/ /\ At(p, r, "send") /\ Others(r, g, f.i) # {}
          /\ machines[r][f.name] = Nil
          /\ LET q == g[NextOther(r, g, f.i)] IN q # NoRM /\ ~OpenFails(r, q)
       \/ At(p, r, "select") /\ g = <<>> /\ NonHolders(r, f.name) # {}
       \/ Overrun(p, r)
    /\ Die(r, "aborted")

(* exit(), SIGINT or SIGTERM: atexit() removes the pipe.                   *)
Exit(r) ==
    /\ Up(r)
    /\ Cardinality({q \in RM : ~Up(q)}) < MaxDown
    /\ Die(r, "exited")

(***************************************************************************)
(* A manager is started, for the first time or again.  serve() refuses if  *)
(* an aborted process left its pipe.  Requests that the process sent in an *)
(* earlier life have been served by then.                                  *)
(***************************************************************************)
Start(r) ==
    /\ status[r] = "exited"
    /\ \A q \in RM : thread[r][q] = Idle
    /\ status' = [status EXCEPT ![r] = "up"]
    /\ UNCHANGED <<conn, machines, groupMap, mutex, thread>>

-----------------------------------------------------------------------------
(***************************************************************************)
(* The managers with clients that send any request of Command, one at a    *)
(* time each, to any manager.                                              *)
(***************************************************************************)
ClientCall(c, r) ==
    /\ \A q \in RM : thread[c][q] = Idle
    /\ CanCall(c, r)
    /\ Connect(c, {r})
    /\ \E op \in Command, n \in Name, v \in Value \cup {Nil} :
          /\ op \in {"create", "apply"} <=> v \in Value
          /\ Goto(c, r, Request(op, n, v, IF op = "create" THEN <<r>> ELSE <<>>, TRUE))
    /\ UNCHANGED <<status, machines, groupMap, mutex>>

Step(p, r) == ServerStep(p, r) \/ Reply(p, r) \/ Escape(p, r) \/ Abort(p, r)

Next ==
    \/ \E p \in Proc, r \in RM : Step(p, r)
    \/ \E r \in RM : Exit(r) \/ Start(r)
    \/ \E c \in Client, r \in RM : ClientCall(c, r)

Spec == Init /\ [][Next]_vars

-----------------------------------------------------------------------------
(* Properties                                                              *)

TypeOK ==
    /\ status \in [RM -> Status]
    /\ conn \in [Proc -> [RM -> ConnState]]
    /\ machines \in [RM -> [Name -> Value \cup {Nil}]]
    /\ groupMap \in [RM -> [Name -> Seq(Id) \cup {Nil}]]
    /\ mutex \in [RM -> Proc \cup {Nil, Gone}]
    /\ thread \in [Proc -> [RM -> Frame \cup {Idle}]]

(* The code between pthread_mutex_lock() and pthread_mutex_unlock().       *)
Critical == {"insert", "group", "prune", "select", "fwd", "erase", "eraseGroup"}
InCritical(p, r) == thread[p][r].pc \in Critical

(***************************************************************************)
(* The mutex is never left locked by a thread that has gone on: whichever  *)
(* way replaceRM(), apply(), getState() or remove() leaves its critical    *)
(* section, it unlocks, or the thread has ended by an escaping exception   *)
(* (then the holder is Gone).                                              *)
(***************************************************************************)
LockOwner == \A p \in Proc, r \in RM : mutex[r] = p => InCritical(p, r)

(***************************************************************************)
(* At most one thread of a manager is between a lock and its unlock.  The  *)
(* design document relies on it ("Synchronization is accounted for by the  *)
(* use of a mutex on each replica manager").                               *)
(***************************************************************************)
MutualExclusion ==
    \A r \in RM : \A p, q \in Proc : InCritical(p, r) /\ InCritical(q, r) => p = q

(***************************************************************************)
(* A thread that waits for a manager waits for a request that is being     *)
(* served there, and nobody else waits for that request.                   *)
(***************************************************************************)
Waiting(t, p, q) == thread[t][p].wait = q
WaitsForAnswer ==
    \A p, q \in RM :
        /\ \A t \in Proc : Waiting(t, p, q) => thread[p][q] # Idle
        /\ \A t, u \in Proc : Waiting(t, p, q) /\ Waiting(u, p, q) => t = u

Quiet == \A p \in Proc, r \in RM : thread[p][r] = Idle
Hosting(n) == {r \in RM : machines[r][n] # Nil}

(***************************************************************************)
(* When no request is being served, a machine is hosted by exactly three   *)
(* managers (or none), their copies have the same state, and each of them  *)
(* has the same list of these three.                                       *)
(***************************************************************************)
GroupAgreement ==
    Quiet => \A n \in Name : \A r \in Hosting(n) :
        /\ Len(groupMap[r][n]) = GroupSize
        /\ ToSet(groupMap[r][n]) = Hosting(n)
        /\ Cardinality(Hosting(n)) = GroupSize
        /\ \A q \in Hosting(n) :
              machines[q][n] = machines[r][n] /\ groupMap[q][n] = groupMap[r][n]

(* A manager that hosts a machine and has its list is on that list.        *)
SelfListed ==
    \A r \in RM, n \in Name :
        machines[r][n] # Nil /\ groupMap[r][n] # Nil => r \in ToSet(groupMap[r][n])

(* No process dereferences a null machine or runs off a group list.        *)
NoAbort == \A r \in RM : status[r] # "aborted"

(***************************************************************************)
(* When create(), apply() or getState() is about to answer a client, three *)
(* managers that are up host the machine in the state of the answering     *)
(* manager, and are its group.                                             *)
(***************************************************************************)
AnsweredIsReplicated ==
    \A c \in Client, r \in RM :
        At(c, r, "reply") /\ thread[c][r].op # "remove" =>
            LET n == thread[c][r].name
                G == ToSet(Group(r, n))
            IN  /\ Len(Group(r, n)) = GroupSize /\ Cardinality(G) = GroupSize
                /\ \A q \in G : q \in RM /\ Up(q) /\ machines[q][n] = machines[r][n]

(* When apply() answers a client, every copy has the answered state.       *)
AnsweredIsEverywhere ==
    \A c \in Client, r \in RM :
        At(c, r, "reply") /\ thread[c][r].op = "apply" =>
            \A q \in Hosting(thread[c][r].name) :
                machines[q][thread[c][r].name] = thread[c][r].res

(* The copies of a machine agree when no request is being served.          *)
CopiesAgree ==
    Quiet => \A n \in Name : \A r, q \in Hosting(n) : machines[r][n] = machines[q][n]
=============================================================================
