------------------------------ MODULE Replicas ------------------------------
(***************************************************************************)
(* The processes and the RPC connections between them (replicas.cpp).      *)
(*                                                                         *)
(* N replica managers, numbered 0 .. N-1, each a server process on a named *)
(* pipe; a set Client of front-end processes.  Every process owns one      *)
(* Replicas object, which keeps at most one Thrift client per manager and  *)
(* never replaces it: Replicas::operator[] stores the client BEFORE it     *)
(* opens the transport, so a manager that could not be reached once, or    *)
(* whose connection died, is unreachable for that process for good.        *)
(***************************************************************************)
EXTENDS Integers, FiniteSets

CONSTANTS
    N,          \* numreplicas
    Client,     \* the front-end processes
    Started,    \* the managers already serving when a behaviour begins
    PoolSize    \* threads of a manager's TThreadPoolServer

RM == 0 .. N - 1
Proc == RM \cup Client
NoRM == N           \* any index >= numreplicas: no manager has it
Id == RM \cup {NoRM}

(***************************************************************************)
(* TThreadPoolServer gives a connection one thread until it closes, so a   *)
(* pool at least as large as the number of processes never runs out.       *)
(***************************************************************************)
ASSUME ReplicasAssumption ==
    /\ N \in Nat \ {0}
    /\ Client \cap Id = {}
    /\ Started \subseteq RM

ASSUME PoolAssumption ==
    /\ IsFiniteSet(Client)
    /\ PoolSize \in Nat
    /\ N + Cardinality(Client) <= PoolSize

VARIABLES
    status,     \* status[r]: "exited" means no process and no pipe
    conn        \* conn[p][q]: the entry for q in p's Replicas object

Status == {"up", "exited", "aborted"}
ConnState == {"none", "open", "broken"}

Up(r) == status[r] = "up"

ReplicasInit ==
    /\ status = [r \in RM |-> IF r \in Started THEN "up" ELSE "exited"]
    /\ conn = [p \in Proc |-> [q \in RM |-> "none"]]

(***************************************************************************)
(* Whether a call of p on manager q gets through, and what the attempt     *)
(* leaves in p's Replicas object.  OpenFails(p, q): the first use of the   *)
(* entry throws out of operator[] itself, before any argument is used.     *)
(***************************************************************************)
OpenFails(p, q) == conn[p][q] = "none" /\ ~Up(q)
CanCall(p, q) == conn[p][q] = "open" \/ (conn[p][q] = "none" /\ Up(q))

(* The connections after p has used its entries for the managers S.        *)
Opened(p, S) ==
    [conn EXCEPT ![p] = [q \in RM |-> IF q \notin S THEN @[q]
                                      ELSE IF CanCall(p, q) THEN "open" ELSE "broken"]]

Connect(p, S) == conn' = Opened(p, S)

(***************************************************************************)
(* The connections after process r is gone: r's own entries with it, and   *)
(* every open connection to r fails from now on.                           *)
(***************************************************************************)
ConnWithout(r) ==
    [p \in Proc |-> [q \in RM |->
        IF p = r THEN "none"
        ELSE IF q = r /\ conn[p][q] = "open" THEN "broken"
        ELSE conn[p][q]]]
=============================================================================
