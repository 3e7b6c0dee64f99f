------------------------ MODULE StateMachineService ------------------------
(***************************************************************************)
(* What the replica managers promise to a client (the design document and  *)
(* replica.thrift): every named state machine has ONE state, whichever of  *)
(* its hosts a request is sent to.  A request takes effect at once, at one *)
(* instant between its call and its answer; a manager that hosts no copy   *)
(* answers NOT_FOUND and a second create() of a name ALREADY_EXISTS.       *)
(***************************************************************************)
EXTENDS Integers, FiniteSets

CONSTANTS
    Manager, Client, Name, Value,
    Apply(_, _),    \* the state that an operation makes of a state
    Nil             \* no machine, no result

VARIABLES
    state,      \* state[n]: the state of machine n
    hosts,      \* hosts[n]: the managers with a copy of it
    request     \* request[c]: what client c is waiting for

serviceVars == <<state, hosts, request>>

None == [outcome |-> "none"]

Init ==
    /\ state = [n \in Name |-> Nil]
    /\ hosts = [n \in Name |-> {}]
    /\ request = [c \in Client |-> None]

Call(c) ==
    /\ request[c] = None
    /\ \E op \in {"create", "apply", "getState", "remove"}, n \in Name,
          v \in Value \cup {Nil}, m \in Manager :
            request' = [request EXCEPT ![c] =
                [op |-> op, name |-> n, val |-> v, at |-> m,
                 outcome |-> "pending", res |-> Nil]]
    /\ UNCHANGED <<state, hosts>>

Pending(c, op) == request[c].outcome = "pending" /\ request[c].op = op

Answer(c, outcome, res) ==
    request' = [request EXCEPT ![c].outcome = outcome, ![c].res = res]

Create(c) ==
    LET q == request[c] IN
    /\ Pending(c, "create")
    /\ state[q.name] = Nil
    /\ state' = [state EXCEPT ![q.name] = q.val]
    /\ hosts' = [hosts EXCEPT ![q.name] = {q.at}]
    /\ Answer(c, "done", Nil)

Operate(c) ==
    LET q == request[c]
        s == Apply(state[q.name], q.val)
    IN
    /\ Pending(c, "apply")
    /\ q.at \in hosts[q.name]
    /\ state' = [state EXCEPT ![q.name] = s]
    /\ Answer(c, "done", s)
    /\ UNCHANGED hosts

GetState(c) ==
    LET q == request[c] IN
    /\ Pending(c, "getState")
    /\ q.at \in hosts[q.name]
    /\ Answer(c, "done", state[q.name])
    /\ UNCHANGED <<state, hosts>>

Remove(c) ==
    LET q == request[c] IN
    /\ Pending(c, "remove")
    /\ q.at \in hosts[q.name]
    /\ state' = [state EXCEPT ![q.name] = Nil]
    /\ hosts' = [hosts EXCEPT ![q.name] = {}]
    /\ Answer(c, "done", Nil)

Refuse(c) ==
    LET q == request[c] IN
    /\ q.outcome = "pending"
    /\ IF q.op = "create" THEN state[q.name] # Nil ELSE q.at \notin hosts[q.name]
    /\ Answer(c, "error", Nil)
    /\ UNCHANGED <<state, hosts>>

Return(c) ==
    /\ request[c].outcome \in {"done", "error"}
    /\ request' = [request EXCEPT ![c] = None]
    /\ UNCHANGED <<state, hosts>>

(* While a request is served, managers get or drop a copy, never the last. *)
Rehost(n) ==
    /\ \E c \in Client : request[c].outcome # "none" /\ request[c].name = n
    /\ hosts[n] # {}
    /\ \E m \in Manager :
          \/ hosts' = [hosts EXCEPT ![n] = @ \cup {m}]
          \/ hosts[n] # {m} /\ hosts' = [hosts EXCEPT ![n] = @ \ {m}]
    /\ UNCHANGED <<state, request>>

Next ==
    \/ \E c \in Client :
          \/ Call(c) \/ Create(c) \/ Operate(c) \/ GetState(c) \/ Remove(c)
          \/ Refuse(c) \/ Return(c)
    \/ \E n \in Name : Rehost(n)

Spec == Init /\ [][Next]_serviceVars
=============================================================================
