----------------------------- MODULE ServiceProofs -----------------------------
(***************************************************************************)
(* The managers, with one client and as long as no manager fails,          *)
(* implement StateMachineService: every request takes effect at one        *)
(* instant, on the one state that the machine has.                         *)
(***************************************************************************)
EXTENDS ServiceRefinement, GroupProofs

-----------------------------------------------------------------------------
(* The state and the request that the service shows                        *)

LEMMA LowestIn ==
    ASSUME ReplicasAssumption, NEW S \in SUBSET RM, S # {}
    PROVE  Min(S) \in S
<1>1. S \subseteq Nat
  BY DEF RM, ReplicasAssumption
<1> QED
  BY <1>1, MinOfNats

LEMMA LowestOf ==
    ASSUME ReplicasAssumption, NEW k \in RM
    PROVE  Min({k}) = k
<1>1. {k} \in SUBSET RM /\ {k} # {}
  OBVIOUS
<1>2. Min({k}) \in {k}
  BY <1>1, LowestIn
<1> QED
  BY <1>2

(* What the state of n is: nothing, or that of a host, of the one that     *)
(* serves client c if that is one.                                         *)
StateIsChosen(c, n) ==
    IF Hosting(n) = {} THEN StateOf(n) = Nil
    ELSE \E q \in Hosting(n) :
            /\ StateOf(n) = machines[q][n]
            /\ \A k \in Hosting(n) : Serving(c) = {k} => q = k

LEMMA StateChosen ==
    ASSUME ReplicasAssumption, NEW c, Client = {c}, NEW n \in Name
    PROVE  StateIsChosen(c, n) /\ StateIsChosen(c, n)'
<1>1. ASSUME NEW H \in SUBSET RM, NEW P \in SUBSET H, H # {}
      PROVE  /\ Min(IF P # {} THEN P ELSE H) \in H
             /\ \A k \in RM : P = {k} => Min(IF P # {} THEN P ELSE H) = k
  <2>1. P # {} => Min(P) \in P
    BY LowestIn
  <2>2. Min(H) \in H
    BY <1>1, LowestIn
  <2> QED
    BY <2>1, <2>2, LowestOf
<1>2. UNION {Serving(d) : d \in Client} = Serving(c)
  OBVIOUS
<1>3. (UNION {Serving(d) : d \in Client})' = Serving(c)'
  OBVIOUS
<1>4. StateIsChosen(c, n)
  <2>1. CASE Hosting(n) = {}
    BY <2>1 DEF StateIsChosen, StateOf
  <2>2. CASE Hosting(n) # {}
    <3>1. PICK H, P : H = Hosting(n) /\ P = Hosting(n) \cap Serving(c)
      OBVIOUS
    <3>2. H \in SUBSET RM /\ P \in SUBSET H /\ H # {} /\ P = Primaries(n)
      BY <1>2, <2>2, <3>1 DEF Hosting, Primaries
    <3>3. PICK q : q = Min(IF P # {} THEN P ELSE H)
      OBVIOUS
    <3>4. q \in H /\ \A k \in RM : P = {k} => q = k
      BY <1>1, <3>2, <3>3
    <3>5. StateOf(n) = machines[q][n]
      BY <2>2, <3>1, <3>2, <3>3 DEF StateOf
    <3>6. \A k \in H : Serving(c) = {k} => P = {k} /\ k \in RM
      BY <3>1, <3>2
    <3> QED
      BY <2>2, <3>1, <3>4, <3>5, <3>6 DEF StateIsChosen
  <2> QED
    BY <2>1, <2>2
<1>5. StateIsChosen(c, n)'
  <2>1. CASE Hosting(n)' = {}
    BY <2>1 DEF StateIsChosen, StateOf
  <2>2. CASE Hosting(n)' # {}
    <3>1. PICK H, P : H = Hosting(n)' /\ P = (Hosting(n) \cap Serving(c))'
      OBVIOUS
    <3>2. H \in SUBSET RM /\ P \in SUBSET H /\ H # {} /\ P = Primaries(n)'
      BY <1>3, <2>2, <3>1 DEF Hosting, Primaries
    <3>3. PICK q : q = Min(IF P # {} THEN P ELSE H)
      OBVIOUS
    <3>4. q \in H /\ \A k \in RM : P = {k} => q = k
      BY <1>1, <3>2, <3>3
    <3>5. StateOf(n)' = machines'[q][n]
      BY <2>2, <3>1, <3>2, <3>3 DEF StateOf
    <3>6. \A k \in H : Serving(c)' = {k} => P = {k} /\ k \in RM
      BY <3>1, <3>2
    <3> QED
      BY <2>2, <3>1, <3>4, <3>5, <3>6 DEF StateIsChosen
  <2> QED
    BY <2>1, <2>2
<1> QED
  BY <1>4, <1>5

(* All copies of n have the same state.                                    *)
Agreed(n) == \A q, u \in Hosting(n) : machines[q][n] = machines[u][n]

LEMMA ConsistentAgreed ==
    ASSUME ManagerAssumption, NEW n \in Name, Consistent(n)
    PROVE  Agreed(n)
<1> SUFFICES ASSUME NEW q \in Hosting(n), NEW u \in Hosting(n)
             PROVE  machines[q][n] = machines[u][n]
  BY DEF Agreed
<1>1. q \in RM /\ u \in RM /\ machines[q][n] # Nil /\ machines[u][n] # Nil
  BY DEF Hosting
<1>2. Grouped(q, n)
  BY <1>1, ConsistentHost
<1> QED
  BY <1>1, <1>2, GroupedCopies

LEMMA StateStays ==
    ASSUME ReplicasAssumption, NEW c, Client = {c}, NEW n \in Name,
           \A q \in RM : machines'[q][n] = machines[q][n],
           Agreed(n) \/ \E k \in Hosting(n) : Serving(c) = {k} /\ Serving(c)' = {k}
    PROVE  StateOf(n)' = StateOf(n) /\ Hosting(n)' = Hosting(n)
<1>1. Hosting(n)' = Hosting(n) /\ Hosting(n) \subseteq RM
  BY DEF Hosting
<1>2. StateIsChosen(c, n) /\ StateIsChosen(c, n)'
  BY StateChosen
<1>3. CASE Hosting(n) = {}
  BY <1>1, <1>2, <1>3 DEF StateIsChosen
<1>4. CASE Hosting(n) # {}
  <2>1. PICK q \in Hosting(n) : /\ StateOf(n) = machines[q][n]
                                /\ \A k \in Hosting(n) : Serving(c) = {k} => q = k
    BY <1>2, <1>4 DEF StateIsChosen
  <2>2. PICK u \in Hosting(n) : /\ StateOf(n)' = machines'[u][n]
                                /\ \A k \in Hosting(n) : Serving(c)' = {k} => u = k
    BY <1>1, <1>2, <1>4 DEF StateIsChosen
  <2> QED
    BY <1>1, <2>1, <2>2 DEF Agreed
<1> QED
  BY <1>1, <1>3, <1>4

-----------------------------------------------------------------------------
(* Steps of the service                                                    *)

With(q, outcome, res) == [q EXCEPT !.outcome = outcome, !.res = res]

LEMMA ServiceWaits ==
    ASSUME NEW c, Client = {c}, RequestOf(c)' = RequestOf(c),
           \A n \in Name : StateOf(n)' = StateOf(n) /\ Hosting(n)' = Hosting(n)
    PROVE  UNCHANGED Service!serviceVars
BY DEF Service!serviceVars

LEMMA ServiceCreates ==
    ASSUME NEW c, Client = {c}, NEW n \in Name, NEW k, NEW q,
           RequestOf(c) = q, q.name = n, q.at = k, q.op = "create", q.outcome = "pending",
           StateOf(n) = Nil, StateOf(n)' = q.val, Hosting(n)' = {k},
           RequestOf(c)' = With(q, "done", Nil),
           \A m \in Name : m # n => StateOf(m)' = StateOf(m) /\ Hosting(m)' = Hosting(m)
    PROVE  Service!Next
<1>1. Service!Pending(c, "create")
  BY DEF Service!Pending
<1>2. Service!Answer(c, "done", Nil)
  BY DEF Service!Answer, With
<1>3. Service!Create(c)
  BY <1>1, <1>2 DEF Service!Create
<1> QED
  BY <1>3 DEF Service!Next

LEMMA ServiceCalls ==
    ASSUME NEW c, Client = {c}, NEW op \in Op, NEW n \in Name, NEW v \in Value \cup {Nil},
           NEW k \in RM, RequestOf(c) = None,
           RequestOf(c)' = [op |-> op, name |-> n, val |-> v, at |-> k, res |-> Nil,
                            outcome |-> "pending"],
           \A m \in Name : StateOf(m)' = StateOf(m) /\ Hosting(m)' = Hosting(m)
    PROVE  Service!Next
<1>1. PICK q : q = [op |-> op, name |-> n, val |-> v, at |-> k, outcome |-> "pending", res |-> Nil]
  OBVIOUS
<1>2. RequestOf(c)' = q
  BY <1>1
<1>3. Service!Call(c)
  BY <1>1, <1>2 DEF Service!Call, Service!None, None, Op
<1> QED
  BY <1>3 DEF Service!Next

LEMMA ServiceOperates ==
    ASSUME NEW c, Client = {c}, NEW n \in Name, NEW q, NEW v,
           RequestOf(c) = q, q.name = n, q.op = "apply", q.outcome = "pending",
           q.at \in Hosting(n), Hosting(n)' = Hosting(n),
           v = Apply(StateOf(n), q.val), StateOf(n)' = v,
           RequestOf(c)' = With(q, "done", v),
           \A m \in Name : m # n => StateOf(m)' = StateOf(m) /\ Hosting(m)' = Hosting(m)
    PROVE  Service!Next
<1>1. Service!Pending(c, "apply")
  BY DEF Service!Pending
<1>2. Service!Answer(c, "done", v)
  BY DEF Service!Answer, With
<1>3. Service!Operate(c)
  BY <1>1, <1>2 DEF Service!Operate
<1> QED
  BY <1>3 DEF Service!Next

LEMMA ServiceReads ==
    ASSUME NEW c, Client = {c}, NEW n \in Name, NEW q,
           RequestOf(c) = q, q.name = n, q.op = "getState", q.outcome = "pending",
           q.at \in Hosting(n),
           RequestOf(c)' = With(q, "done", StateOf(n)),
           \A m \in Name : StateOf(m)' = StateOf(m) /\ Hosting(m)' = Hosting(m)
    PROVE  Service!Next
<1>1. Service!Pending(c, "getState")
  BY DEF Service!Pending
<1>2. Service!Answer(c, "done", StateOf(n))
  BY DEF Service!Answer, With
<1>3. Service!GetState(c)
  BY <1>1, <1>2 DEF Service!GetState
<1> QED
  BY <1>3 DEF Service!Next

LEMMA ServiceRemoves ==
    ASSUME NEW c, Client = {c}, NEW n \in Name, NEW q,
           RequestOf(c) = q, q.name = n, q.op = "remove", q.outcome = "pending",
           q.at \in Hosting(n), StateOf(n)' = Nil, Hosting(n)' = {},
           RequestOf(c)' = With(q, "done", Nil),
           \A m \in Name : m # n => StateOf(m)' = StateOf(m) /\ Hosting(m)' = Hosting(m)
    PROVE  Service!Next
<1>1. Service!Pending(c, "remove")
  BY DEF Service!Pending
<1>2. Service!Answer(c, "done", Nil)
  BY DEF Service!Answer, With
<1>3. Service!Remove(c)
  BY <1>1, <1>2 DEF Service!Remove
<1> QED
  BY <1>3 DEF Service!Next

LEMMA ServiceRefuses ==
    ASSUME NEW c, Client = {c}, NEW n \in Name, NEW q,
           RequestOf(c) = q, q.name = n, q.outcome = "pending",
           IF q.op = "create" THEN StateOf(n) # Nil ELSE q.at \notin Hosting(n),
           RequestOf(c)' = With(q, "error", Nil),
           \A m \in Name : StateOf(m)' = StateOf(m) /\ Hosting(m)' = Hosting(m)
    PROVE  Service!Next
<1>1. Service!Answer(c, "error", Nil)
  BY DEF Service!Answer, With
<1>2. Service!Refuse(c)
  BY <1>1 DEF Service!Refuse
<1> QED
  BY <1>2 DEF Service!Next

LEMMA ServiceReturns ==
    ASSUME NEW c, Client = {c}, RequestOf(c).outcome \in {"done", "error"}, RequestOf(c)' = None,
           \A m \in Name : StateOf(m)' = StateOf(m) /\ Hosting(m)' = Hosting(m)
    PROVE  Service!Next
<1>1. Service!Return(c)
  BY DEF Service!Return, Service!None, None
<1> QED
  BY <1>1 DEF Service!Next

LEMMA ServiceRehosts ==
    ASSUME NEW c, Client = {c}, NEW n \in Name, NEW k \in RM,
           RequestOf(c)' = RequestOf(c), RequestOf(c).outcome # "none", RequestOf(c).name = n,
           Hosting(n) # {},
           \/ Hosting(n)' = Hosting(n) \cup {k}
           \/ Hosting(n) # {k} /\ Hosting(n)' = Hosting(n) \ {k},
           StateOf(n)' = StateOf(n),
           \A m \in Name : m # n => StateOf(m)' = StateOf(m) /\ Hosting(m)' = Hosting(m)
    PROVE  Service!Next
<1>1. Service!Rehost(n)
  BY DEF Service!Rehost
<1> QED
  BY <1>1 DEF Service!Next

-----------------------------------------------------------------------------
(* The client's request, served by k in state f                            *)

Outcome(f) ==
    IF f.pc = "error" THEN "error"
    ELSE IF f.pc \in Effective[f.op] THEN "done" ELSE "pending"

Asked(k, f) ==
    [op |-> f.op, name |-> f.name, val |-> f.val, at |-> k, res |-> f.res, outcome |-> Outcome(f)]

LEMMA AskedChanges ==
    ASSUME NEW k, NEW f, NEW h, h.op = f.op, h.name = f.name, h.val = f.val
    PROVE  /\ Asked(k, h) = With(Asked(k, f), Outcome(h), h.res)
           /\ Outcome(h) = Outcome(f) /\ h.res = f.res => Asked(k, h) = Asked(k, f)
<1>1. ASSUME NEW A, NEW B, NEW D, NEW E, NEW R, NEW O,
             NEW a \in [op : A, name : B, val : D, at : E, res : R, outcome : O],
             NEW b \in [op : A, name : B, val : D, at : E, res : R, outcome : O],
             a.op = b.op, a.name = b.name, a.val = b.val, a.at = b.at,
             a.res = b.res, a.outcome = b.outcome
      PROVE  a = b
  BY <1>1
<1>2. ASSUME NEW A, NEW B, NEW D, NEW E, NEW R, NEW O, NEW x \in R, NEW y \in O,
             NEW a \in [op : A, name : B, val : D, at : E, res : R, outcome : O]
      PROVE  /\ [a EXCEPT !.outcome = y, !.res = x] \in
                    [op : A, name : B, val : D, at : E, res : R, outcome : O]
             /\ [a EXCEPT !.outcome = y, !.res = x].op = a.op
             /\ [a EXCEPT !.outcome = y, !.res = x].name = a.name
             /\ [a EXCEPT !.outcome = y, !.res = x].val = a.val
             /\ [a EXCEPT !.outcome = y, !.res = x].at = a.at
             /\ [a EXCEPT !.outcome = y, !.res = x].res = x
             /\ [a EXCEPT !.outcome = y, !.res = x].outcome = y
  OBVIOUS
<1>3. PICK a, b, x, y : a = Asked(k, f) /\ b = Asked(k, h) /\ x = h.res /\ y = Outcome(h)
  OBVIOUS
<1>4. PICK R, O : R = {f.res, x} /\ O = {Outcome(f), y}
  OBVIOUS
<1> DEFINE S == [op : {f.op}, name : {f.name}, val : {f.val}, at : {k}, res : R, outcome : O]
<1>5. a \in S /\ b \in S /\ x \in R /\ y \in O
  BY <1>3, <1>4 DEF Asked
<1>6. /\ b.op = a.op /\ b.name = a.name /\ b.val = a.val /\ b.at = a.at
      /\ b.res = x /\ b.outcome = y /\ a.res = f.res /\ a.outcome = Outcome(f)
  BY <1>3 DEF Asked
<1>7. PICK e : e = [a EXCEPT !.outcome = y, !.res = x]
  OBVIOUS
<1>8. /\ e \in S /\ e.op = a.op /\ e.name = a.name /\ e.val = a.val /\ e.at = a.at
      /\ e.res = x /\ e.outcome = y
  BY <1>2, <1>5, <1>7
<1>9. b = e
  BY <1>1, <1>5, <1>6, <1>8
<1>10. Outcome(h) = Outcome(f) /\ h.res = f.res => b = a
  BY <1>1, <1>3, <1>5, <1>6
<1> QED
  BY <1>3, <1>7, <1>9, <1>10 DEF With

LEMMA RequestIs ==
    ASSUME ReplicasAssumption, NEW c, NEW k \in RM
    PROVE  /\ Serving(c) = {k} => RequestOf(c) = Asked(k, thread[c][k])
           /\ Serving(c)' = {k} => RequestOf(c)' = Asked(k, thread'[c][k])
           /\ Serving(c) = {} => RequestOf(c) = None
           /\ Serving(c)' = {} => RequestOf(c)' = None
<1>1. Min({k}) = k
  BY LowestOf
<1>2. ASSUME Serving(c) = {k}
      PROVE  RequestOf(c) = Asked(k, thread[c][k])
  BY <1>1, <1>2 DEF RequestOf, Asked, Outcome
<1>3. ASSUME Serving(c)' = {k}
      PROVE  RequestOf(c)' = Asked(k, thread'[c][k])
  BY <1>1, <1>3 DEF RequestOf, Asked, Outcome
<1> QED
  BY <1>2, <1>3 DEF RequestOf

LEMMA ServesOne ==
    ASSUME ReplicasAssumption, NEW c \in Client, NEW s, Calm(c, s), NEW k \in RM, thread[c][k] # Idle
    PROVE  Serving(c) = {k}
BY ServesClient DEF Serving

(* The state of the machine that the client's request is about.            *)
LEMMA StateThere ==
    ASSUME ReplicasAssumption, NEW c, Client = {c}, NEW n \in Name, NEW k \in RM
    PROVE  /\ Serving(c) = {k} /\ machines[k][n] # Nil =>
                 k \in Hosting(n) /\ StateOf(n) = machines[k][n]
           /\ Serving(c)' = {k} /\ machines'[k][n] # Nil =>
                 k \in Hosting(n)' /\ StateOf(n)' = machines'[k][n]
           /\ (\A q \in RM : machines[q][n] = Nil) => Hosting(n) = {} /\ StateOf(n) = Nil
           /\ (\A q \in RM : machines'[q][n] = Nil) => Hosting(n)' = {} /\ StateOf(n)' = Nil
<1>1. StateIsChosen(c, n) /\ StateIsChosen(c, n)'
  BY StateChosen
<1>2. machines[k][n] # Nil => k \in Hosting(n)
  BY DEF Hosting
<1>3. machines'[k][n] # Nil => k \in Hosting(n)'
  BY DEF Hosting
<1>4. (\A q \in RM : machines[q][n] = Nil) => Hosting(n) = {}
  BY DEF Hosting
<1>5. (\A q \in RM : machines'[q][n] = Nil) => Hosting(n)' = {}
  BY DEF Hosting
<1> QED
  BY <1>1, <1>2, <1>3, <1>4, <1>5 DEF StateIsChosen

(* No two copies differ, or the handler of the client's request has one.   *)
LEMMA PrimaryAgreed ==
    ASSUME ReplicasAssumption, ManagerAssumption, NEW k \in RM, NEW f \in Frame, Primary(k, f)
    PROVE  Agreed(f.name) \/ machines[k][f.name] # Nil
<1>1. PICK n : n = f.name
  OBVIOUS
<1>2. n \in Name /\ f.op \in Op /\ Nil \notin Value /\ f.pc \in PC
  BY <1>1 DEF Frame, ManagerAssumption
<1>3. Consistent(n) => Agreed(n)
  BY <1>2, ConsistentAgreed
<1>4. NoCopy(n) => Agreed(n)
  BY DEF NoCopy, Empty, Copy, Agreed, Hosting
<1>5. Grouped(k, n) => machines[k][n] # Nil
  BY <1>2, GroupedCopies
<1>6. OnlyAt(k, n) /\ machines[k][n] = Nil => Agreed(n)
  BY DEF OnlyAt, Empty, Copy, Agreed, Hosting
<1>7. Forwarding(k, f) => machines[k][n] # Nil
  BY <1>1, <1>2 DEF Forwarding
<1>8. Forwarded(k, f) => machines[k][n] # Nil
  BY <1>1, <1>2 DEF Forwarded
<1>9. CASE f.op = "create"
  <2>1. Creating(k, f)
    BY <1>9 DEF Primary
  <2>2. f.pc \in {"exists", "error"} => Consistent(n)
    BY <1>1, <2>1 DEF Creating
  <2>3. f.pc \in {"lock", "insert"} => NoCopy(n)
    BY <1>1, <2>1 DEF Creating
  <2>4. f.pc \in {"group", "prune", "select", "send"} => machines[k][n] = f.val
    BY <1>1, <2>1 DEF Creating, Copy, Spreading
  <2>5. f.pc = "reply" => Grouped(k, n)
    BY <1>1, <2>1 DEF Creating
  <2>6. f.val # Nil
    BY <1>2, <2>1 DEF Creating
  <2>7. f.pc \in {"exists", "error", "lock", "insert", "group", "prune", "select", "send", "reply"}
    BY <2>1 DEF Creating
  <2> QED
    BY <1>1, <1>3, <1>4, <1>5, <2>2, <2>3, <2>4, <2>5, <2>6, <2>7
<1>10. CASE f.op = "getState"
  BY <1>1, <1>3, <1>5, <1>10 DEF Primary, Reading
<1>11. CASE f.op = "apply"
  BY <1>1, <1>3, <1>5, <1>7, <1>8, <1>11 DEF Primary, Applying
<1>12. CASE f.op = "remove"
  BY <1>1, <1>3, <1>4, <1>5, <1>6, <1>7, <1>12 DEF Primary, Removing
<1> QED
  BY <1>2, <1>9, <1>10, <1>11, <1>12 DEF Op

(* Machines that no step touches.                                          *)
LEMMA OtherStatesStay ==
    ASSUME ReplicasAssumption, ManagerAssumption, NEW c, Client = {c}, NEW s, Calm(c, s),
           NEW k \in RM, thread[c][k] # Idle,
           \A q \in RM, m \in Name : m # thread[c][k].name => machines'[q][m] = machines[q][m],
           NEW m \in Name, m # thread[c][k].name
    PROVE  StateOf(m)' = StateOf(m) /\ Hosting(m)' = Hosting(m)
<1>1. c \in Client /\ Busy(c, k)
  BY ServesClient
<1>2. Consistent(m)
  BY <1>1 DEF Busy
<1>3. Agreed(m)
  BY <1>2, ConsistentAgreed
<1> QED
  BY <1>3, StateStays

(* The client's handler, from state f to state h.                          *)
LEMMA HandlerGoesOn ==
    ASSUME ReplicasAssumption, NEW c, Client = {c}, NEW s, Calm(c, s),
           NEW k \in RM, NEW f, f = thread[c][k], f # Idle,
           NEW h, h = thread'[c][k], SameRequest(f, h),
           \A u \in RM : u # k => thread'[c][u] = thread[c][u]
    PROVE  /\ Serving(c) = {k} /\ Serving(c)' = {k}
           /\ RequestOf(c) = Asked(k, f) /\ RequestOf(c)' = Asked(k, h)
           /\ Asked(k, h) = With(Asked(k, f), Outcome(h), h.res)
<1>1. Serving(c) = {k}
  BY ServesOne
<1>2. \A u \in RM : thread'[c][u] # Idle <=> u = k
  <2>1. \A u \in RM : thread[c][u] # Idle => u = k
    BY <1>1 DEF Serving
  <2>2. thread'[c][k] # Idle
    BY DEF SameRequest
  <2> QED
    BY <2>1, <2>2
<1>3. Serving(c)' = {k}
  BY <1>2 DEF Serving
<1>4. h.op = f.op /\ h.name = f.name /\ h.val = f.val
  BY DEF SameRequest
<1>5. Asked(k, h) = With(Asked(k, f), Outcome(h), h.res)
  BY <1>4, AskedChanges
<1>6. RequestOf(c) = Asked(k, f) /\ RequestOf(c)' = Asked(k, h)
  BY <1>1, <1>3, RequestIs
<1> QED
  BY <1>1, <1>3, <1>5, <1>6

(* A step of the client's handler that leaves the machines alone.          *)
LEMMA StatesStay ==
    ASSUME ReplicasAssumption, ManagerAssumption, NEW c, Client = {c}, NEW s, Calm(c, s),
           NEW k \in RM, NEW f, f = thread[c][k], f # Idle,
           Serving(c) = {k}, Serving(c)' = {k},
           \A q \in RM, m \in Name : machines'[q][m] = machines[q][m]
    PROVE  \A m \in Name : StateOf(m)' = StateOf(m) /\ Hosting(m)' = Hosting(m)
<1>1. f \in Frame /\ f.name \in Name /\ Primary(k, f)
  BY ServesClient
<1>2. \A m \in Name : m # f.name => StateOf(m)' = StateOf(m) /\ Hosting(m)' = Hosting(m)
  BY OtherStatesStay
<1>3. Agreed(f.name) \/ k \in Hosting(f.name)
  BY <1>1, PrimaryAgreed DEF Hosting
<1>4. StateOf(f.name)' = StateOf(f.name) /\ Hosting(f.name)' = Hosting(f.name)
  BY <1>1, <1>3, StateStays
<1> QED
  BY <1>2, <1>4

(* The client's handler, from state f to state h.                          *)
Onward(c, k, f, h) ==
    /\ Serving(c) = {k} /\ Serving(c)' = {k}
    /\ RequestOf(c) = Asked(k, f) /\ RequestOf(c)' = With(Asked(k, f), Outcome(h), h.res)
    /\ h.op = f.op /\ h.name = f.name /\ h.val = f.val
    /\ \A m \in Name :
          m # f.name /\ (\A q \in RM : machines'[q][m] = machines[q][m]) =>
             StateOf(m)' = StateOf(m) /\ Hosting(m)' = Hosting(m)
    /\ (\A q \in RM, m \in Name : machines'[q][m] = machines[q][m]) =>
          /\ \A m \in Name : StateOf(m)' = StateOf(m) /\ Hosting(m)' = Hosting(m)
          /\ Outcome(h) = Outcome(f) /\ h.res = f.res => UNCHANGED Service!serviceVars

LEMMA HandlerOnward ==
    ASSUME ReplicasAssumption, ManagerAssumption, NEW c, Client = {c}, NEW s, Calm(c, s),
           NEW k \in RM, NEW f, f = thread[c][k], f # Idle,
           NEW h, h = thread'[c][k], SameRequest(f, h),
           \A u \in RM : u # k => thread'[c][u] = thread[c][u]
    PROVE  Onward(c, k, f, h)
<1>1. /\ Serving(c) = {k} /\ Serving(c)' = {k}
      /\ RequestOf(c) = Asked(k, f) /\ RequestOf(c)' = Asked(k, h)
      /\ Asked(k, h) = With(Asked(k, f), Outcome(h), h.res)
  BY HandlerGoesOn
<1>2. h.op = f.op /\ h.name = f.name /\ h.val = f.val
  BY DEF SameRequest
<1>3. ASSUME NEW m \in Name, m # f.name, \A q \in RM : machines'[q][m] = machines[q][m]
      PROVE  StateOf(m)' = StateOf(m) /\ Hosting(m)' = Hosting(m)
  <2>1. c \in Client /\ Busy(c, k)
    BY ServesClient
  <2>2. Agreed(m)
    BY <1>3, <2>1, ConsistentAgreed DEF Busy
  <2> QED
    BY <1>3, <2>2, StateStays
<1>4. ASSUME \A q \in RM, m \in Name : machines'[q][m] = machines[q][m]
      PROVE  \A m \in Name : StateOf(m)' = StateOf(m) /\ Hosting(m)' = Hosting(m)
  BY <1>1, <1>4, StatesStay
<1>5. ASSUME \A q \in RM, m \in Name : machines'[q][m] = machines[q][m],
             Outcome(h) = Outcome(f), h.res = f.res
      PROVE  UNCHANGED Service!serviceVars
  <2>1. Asked(k, h) = Asked(k, f)
    BY <1>2, <1>5, AskedChanges
  <2> QED
    BY <1>1, <1>4, <1>5, <2>1, ServiceWaits
<1> QED
  BY <1>1, <1>2, <1>3, <1>4, <1>5 DEF Onward

(* Where the requests of the client are.                                   *)
LEMMA PrimaryAt ==
    ASSUME NEW k \in RM, NEW f, f.op \in Op, Primary(k, f)
    PROVE  /\ f.pc # "dup" /\ f.fromFrontEnd
           /\ f.pc = "exists" => f.op = "create" /\ f.res = Nil
           /\ f.pc = "check" => f.op # "create" /\ f.res = Nil
           /\ f.pc = "read" => f.op = "getState" /\ Grouped(k, f.name)
           /\ f.pc \in {"insert", "group"} => f.op = "create"
           /\ f.pc = "insert" => NoCopy(f.name) /\ f.val \in Value /\ f.res = Nil
           /\ f.pc = "group" => groupMap[k][f.name] = Nil
           /\ f.pc = "select" => f.op = "create"
           /\ f.pc = "lock" /\ f.op = "create" => f.res = Nil
           /\ f.pc \in {"prune", "send"} => f.op # "remove"
           /\ f.pc \in {"fwdlock", "fwd"} => f.op \in {"apply", "remove"}
           /\ f.pc = "fwdlock" => Grouped(k, f.name)
           /\ f.pc \in {"local", "unlock"} => f.op = "apply"
           /\ f.pc = "local" => Forwarded(k, f) /\ f.val \in Value
           /\ f.pc \in {"erase", "eraseGroup"} => f.op = "remove"
           /\ f.pc = "erase" => OnlyAt(k, f.name) /\ machines[k][f.name] # Nil /\ f.res = Nil
<1>1. f.op \in {"create", "apply", "getState", "remove"}
  BY DEF Op
<1>2. CASE f.op = "create"
  BY <1>2 DEF Primary, Creating, Copy
<1>3. CASE f.op = "apply"
  BY <1>3 DEF Primary, Applying
<1>4. CASE f.op = "getState"
  BY <1>4 DEF Primary, Reading
<1>5. CASE f.op = "remove"
  BY <1>5 DEF Primary, Removing
<1> QED
  BY <1>1, <1>2, <1>3, <1>4, <1>5

LEMMA OutcomeIs ==
    ASSUME NEW f, f.op \in Op
    PROVE  /\ f.pc = "error" => Outcome(f) = "error"
           /\ f.op = "create" =>
                /\ f.pc \in {"exists", "lock", "insert"} => Outcome(f) = "pending"
                /\ f.pc \in {"group", "prune", "select", "send", "reply"} => Outcome(f) = "done"
           /\ f.op = "apply" =>
                /\ f.pc \in {"check", "lock", "prune", "select", "send", "fwdlock", "fwd", "local"} =>
                      Outcome(f) = "pending"
                /\ f.pc \in {"unlock", "reply"} => Outcome(f) = "done"
           /\ f.op = "getState" =>
                /\ f.pc \in {"check", "read"} => Outcome(f) = "pending"
                /\ f.pc \in {"lock", "prune", "select", "send", "reply"} => Outcome(f) = "done"
           /\ f.op = "remove" =>
                /\ f.pc \in {"check", "fwdlock", "fwd", "lock", "erase"} => Outcome(f) = "pending"
                /\ f.pc \in {"eraseGroup", "reply"} => Outcome(f) = "done"
BY DEF Outcome, Effective, Op

LEMMA HandlerFrame ==
    ASSUME ReplicasAssumption, ManagerAssumption, NEW c, Client = {c}, NEW s, Calm(c, s),
           NEW k \in RM, NEW f, Ready(c, k, f), f # Idle, ServerStep(c, k),
           NEW h, h = thread'[c][k]
    PROVE  /\ Onward(c, k, f, h) /\ Primary(k, f) /\ Sound(k, f)
           /\ TypeOK /\ AllUp /\ c \in Client /\ c \in Proc
           /\ f \in Frame /\ f.name \in Name /\ f.op \in Op /\ h.op \in Op
<1>1. c \in Client /\ c \in Proc /\ TypeOK /\ AllUp /\ c \notin RM
  BY DEF Proc, Calm, ReplicasAssumption, Id
<1>2. f \in Frame /\ f.name \in Name /\ f.op \in Op /\ f = thread[c][k]
  BY DEF Ready, Frame
<1>3. Primary(k, f)
  BY <1>1, <1>2, ServesClient
<1>4. Sound(k, f)
  BY <1>2, <1>3, PrimarySound
<1>5. SameRequest(f, h) /\ \A u \in RM : u # k => thread'[c][u] = thread[c][u]
  <2>1. CASE Moves(c, k)
    BY <1>1, <1>2, <2>1 DEF Moves, Untouched
  <2>2. ASSUME NEW q \in RM, Calls(c, k, q)
        PROVE  SameRequest(f, h) /\ \A u \in RM : u # k => thread'[c][u] = thread[c][u]
    BY <1>1, <1>2, <2>2 DEF Calls
  <2> QED
    BY <1>1, <2>1, <2>2, StepKind
<1>6. Onward(c, k, f, h)
  BY <1>2, <1>5, HandlerOnward
<1>7. h.op \in Op
  BY <1>2, <1>5 DEF SameRequest
<1> QED
  BY <1>1, <1>2, <1>3, <1>4, <1>6, <1>7

(* Steps by which nothing takes effect.                                    *)
LEMMA HandlerIdles ==
    ASSUME ReplicasAssumption, ManagerAssumption, NEW c, Client = {c}, NEW s, Calm(c, s),
           NEW k \in RM, NEW f, Ready(c, k, f), f # Idle, ServerStep(c, k),
           ~CreateExists(c, k), ~CheckExists(c, k), ~Read(c, k), ~Insert(c, k),
           ~ApplyLocal(c, k), ~Erase(c, k)
    PROVE  UNCHANGED Service!serviceVars
<1> SUFFICES ASSUME NEW h, h = thread'[c][k]
             PROVE  UNCHANGED Service!serviceVars
  OBVIOUS
<1>0. /\ Onward(c, k, f, h) /\ Primary(k, f) /\ Sound(k, f)
      /\ TypeOK /\ AllUp /\ c \in Client /\ c \in Proc
      /\ f \in Frame /\ f.name \in Name /\ f.op \in Op /\ h.op \in Op /\ h.op = f.op
  BY HandlerFrame DEF Onward
<1>1. /\ f.pc # "dup" /\ f.fromFrontEnd
      /\ f.pc \in {"insert", "group", "select"} => f.op = "create"
      /\ f.pc = "group" => groupMap[k][f.name] = Nil
      /\ f.pc \in {"prune", "send"} => f.op # "remove"
      /\ f.pc \in {"fwdlock", "fwd"} => f.op \in {"apply", "remove"}
      /\ f.pc = "fwdlock" => Grouped(k, f.name)
      /\ f.pc \in {"local", "unlock"} => f.op = "apply"
      /\ f.pc \in {"erase", "eraseGroup"} => f.op = "remove"
  BY <1>0, PrimaryAt
<1>2. ASSUME NEW g, Same \/ SetsList(k, f.name, g), Outcome(h) = Outcome(f), h.res = f.res
      PROVE  UNCHANGED Service!serviceVars
  <2>1. \A q \in RM, m \in Name : machines'[q][m] = machines[q][m]
    BY <1>2 DEF Same, SetsList
  <2> QED
    BY <1>0, <1>2, <2>1 DEF Onward
<1>3. ASSUME NEW g, Same \/ SetsList(k, f.name, g), NEW pc, NEW i, NEW vec,
             Goes(c, k, pc, i, vec, f.res),
             \/ f.op = "create" /\ pc # "error" /\ (f.pc \in Effective.create <=> pc \in Effective.create)
             \/ f.op = "apply" /\ pc # "error" /\ (f.pc \in Effective.apply <=> pc \in Effective.apply)
             \/ f.op = "getState" /\ pc # "error" /\ (f.pc \in Effective.getState <=> pc \in Effective.getState)
             \/ f.op = "remove" /\ pc # "error" /\ (f.pc \in Effective.remove <=> pc \in Effective.remove),
             f.pc # "error"
      PROVE  UNCHANGED Service!serviceVars
  <2>1. h.pc = pc /\ h.res = f.res
    BY <1>3 DEF Goes, Has
  <2>2. Outcome(h) = Outcome(f)
    BY <1>0, <1>3, <2>1 DEF Outcome
  <2> QED
    BY <1>2, <1>3, <2>1, <2>2
<1>4. f.op \in {"create", "apply", "getState", "remove"}
  BY <1>0 DEF Op
<1>5. CASE CreateDup(c, k)
  BY <1>0, <1>1, <1>5, StepAt
<1>6. CASE Lock(c, k)
  <2>1. f.pc = "lock" /\ Same
    BY <1>0, <1>6, LockShape
  <2>2. PICK pc : /\ pc = IF f.op = "create" THEN "insert" ELSE IF f.op = "remove" THEN "erase" ELSE "prune"
                  /\ Goes(c, k, pc, 1, f.vec, f.res)
    BY <1>0, <1>6, LockShape
  <2> QED
    BY <1>3, <1>4, <2>1, <2>2 DEF Effective
<1>7. CASE InsertGroup(c, k)
  <2>1. f.pc = "group"
    BY <1>0, <1>7, StepAt
  <2>2. SetsList(k, f.name, f.vec) /\ Goes(c, k, "prune", f.i, f.vec, f.res)
    BY <1>0, <1>1, <1>7, <2>1, InsertGroupShape
  <2> QED
    BY <1>1, <1>3, <2>1, <2>2 DEF Effective
<1>8. ~Prune(c, k)
  BY <1>0, PruneShape
<1>9. CASE PruneEnd(c, k)
  <2>1. f.pc = "prune" /\ Same
    BY <1>0, <1>9, PruneEndShape
  <2>2. PICK pc, i : pc \in {"select", "send"} /\ Goes(c, k, pc, i, f.vec, f.res)
    BY <1>0, <1>9, PruneEndShape
  <2> QED
    BY <1>1, <1>3, <1>4, <2>1, <2>2 DEF Effective
<1>10. CASE Select(c, k)
  <2>1. f.pc = "select" /\ f.op = "create"
    BY <1>0, <1>1, <1>10, StepAt
  <2>2. UNCHANGED machines /\ (UNCHANGED thread \/ Release(c, k, f))
    BY <1>10, Zenon DEF Select, Ready
  <2>3. h.pc \in {"select", "send"} /\ h.res = f.res
    <3>1. CASE UNCHANGED thread
      BY <2>1, <3>1 DEF Ready
    <3>2. CASE Release(c, k, f)
      <4>1. Goto(c, k, [f EXCEPT !.pc = "send", !.i = 1])
        BY <3>2 DEF Release
      <4>2. Goes(c, k, "send", 1, f.vec, f.res)
        BY <1>0, <4>1, GoesOnward, Zenon DEF Ready
      <4> QED
        BY <4>2 DEF Goes, Has
    <3> QED
      BY <2>2, <3>1, <3>2
  <2>4. Outcome(h) = Outcome(f)
    BY <1>0, <2>1, <2>3, OutcomeIs
  <2>5. \A q \in RM, m \in Name : machines'[q][m] = machines[q][m]
    BY <2>2
  <2> QED
    BY <1>0, <2>3, <2>4, <2>5 DEF Onward
<1>11. CASE SendCreate(c, k)
  <2>0. f.pc = "send" /\ Same /\ \E j, q, req : Sends(c, k, f, j, q, req)
    <3>1. /\ f.pc = "send" /\ Same
          /\ \E j \in 1 .. Len(groupMap[k][f.name]) :
                Sends(c, k, f, j, groupMap[k][f.name][j],
                      Request("create", f.name, machines[k][f.name], groupMap[k][f.name], FALSE))
      BY <1>0, <1>11, SendCreateShape, Zenon
    <3> QED
      BY <3>1, Zenon
  <2>1. f.pc = "send" /\ Same /\ h.pc = f.pc /\ h.res = f.res
    BY <2>0, Zenon DEF Sends, Has
  <2>2. Outcome(h) = Outcome(f)
    BY <1>0, <2>1 DEF Outcome
  <2> QED
    BY <1>2, <2>1, <2>2
<1>12. CASE SendEnd(c, k)
  <2>1. f.pc = "send" /\ Same
    BY <1>0, <1>12, SendEndShape
  <2>2. PICK pc : /\ pc = IF f.op # "apply" THEN "reply" ELSE IF f.fromFrontEnd THEN "fwdlock" ELSE "local"
                  /\ Goes(c, k, pc, 0, f.vec, f.res)
    BY <1>0, <1>12, SendEndShape
  <2> QED
    BY <1>1, <1>3, <1>4, <2>1, <2>2 DEF Effective
<1>13. CASE ForwardLock(c, k)
  <2>1. f.pc = "fwdlock"
    BY <1>0, <1>13, StepAt
  <2>2. groupMap[k][f.name] \in Seq(RM)
    BY <1>1, <2>1 DEF Grouped, IsGroup
  <2>3. Same /\ Goes(c, k, "fwd", 1, groupMap[k][f.name], f.res)
    BY <1>0, <1>13, <2>2, ForwardLockShape
  <2> QED
    BY <1>1, <1>3, <2>1, <2>3 DEF Effective
<1>14. CASE Forward(c, k)
  <2>0. f.pc = "fwd" /\ Same /\ \E j, q, req : Sends(c, k, f, j, q, req)
    <3>1. /\ f.pc = "fwd" /\ Same
          /\ \E j \in 1 .. Len(f.vec) :
                Sends(c, k, f, j, f.vec[j], Request(f.op, f.name, f.val, <<>>, FALSE))
      BY <1>0, <1>14, ForwardShape, Zenon
    <3> QED
      BY <3>1, Zenon
  <2>1. f.pc = "fwd" /\ Same /\ h.pc = f.pc /\ h.res = f.res
    BY <2>0, Zenon DEF Sends, Has
  <2>2. Outcome(h) = Outcome(f)
    BY <1>0, <2>1 DEF Outcome
  <2> QED
    BY <1>2, <2>1, <2>2
<1>15. CASE ForwardEnd(c, k)
  <2>1. f.pc = "fwd" /\ Same
    BY <1>0, <1>15, ForwardEndShape
  <2>2. PICK pc : pc = (IF f.op = "apply" THEN "local" ELSE "lock") /\ Goes(c, k, pc, 0, <<>>, f.res)
    BY <1>0, <1>15, ForwardEndShape
  <2> QED
    BY <1>1, <1>3, <2>1, <2>2 DEF Effective
<1>16. CASE Unlock(c, k)
  <2>1. f.pc = "unlock" /\ Same /\ Goes(c, k, "reply", f.i, f.vec, f.res)
    BY <1>0, <1>16, UnlockShape
  <2> QED
    BY <1>1, <1>3, <2>1 DEF Effective
<1>17. CASE EraseGroup(c, k)
  <2>1. f.pc = "eraseGroup" /\ SetsList(k, f.name, Nil) /\ Goes(c, k, "reply", f.i, f.vec, f.res)
    BY <1>0, <1>17, EraseGroupShape
  <2> QED
    BY <1>1, <1>3, <2>1 DEF Effective
<1> QED
  BY <1>5, <1>6, <1>7, <1>8, <1>9, <1>10, <1>11, <1>12, <1>13, <1>14, <1>15, <1>16, <1>17
  DEF ServerStep

(* The client's request takes effect, or is refused.                       *)
LEMMA HandlerActs ==
    ASSUME ReplicasAssumption, ManagerAssumption, NEW c, Client = {c}, NEW s, Calm(c, s),
           NEW k \in RM, NEW f, Ready(c, k, f), f # Idle, ServerStep(c, k),
           \/ CreateExists(c, k) \/ CheckExists(c, k) \/ Read(c, k) \/ Insert(c, k)
           \/ ApplyLocal(c, k) \/ Erase(c, k)
    PROVE  Service!Next \/ UNCHANGED Service!serviceVars
<1> SUFFICES ASSUME NEW h, h = thread'[c][k]
             PROVE  Service!Next \/ UNCHANGED Service!serviceVars
  OBVIOUS
<1>0. /\ Onward(c, k, f, h) /\ Primary(k, f)
      /\ TypeOK /\ AllUp /\ c \in Client /\ c \in Proc /\ Nil \notin Value
      /\ f \in Frame /\ f.name \in Name /\ f.op \in Op /\ h.op \in Op /\ h.op = f.op
  BY HandlerFrame DEF Onward, ManagerAssumption
<1>1. PICK n, q : n = f.name /\ q = Asked(k, f)
  OBVIOUS
<1>2. /\ Serving(c) = {k} /\ Serving(c)' = {k}
      /\ RequestOf(c) = q /\ RequestOf(c)' = With(q, Outcome(h), h.res)
      /\ q.name = n /\ q.at = k /\ q.op = f.op /\ q.val = f.val /\ q.outcome = Outcome(f)
      /\ n \in Name
  BY <1>0, <1>1 DEF Onward, Asked
<1>3. ASSUME \A u \in RM, m \in Name : machines'[u][m] = machines[u][m]
      PROVE  /\ \A m \in Name : StateOf(m)' = StateOf(m) /\ Hosting(m)' = Hosting(m)
             /\ Outcome(h) = Outcome(f) /\ h.res = f.res => UNCHANGED Service!serviceVars
  BY <1>0, <1>3 DEF Onward
<1>4. ASSUME \A u \in RM, m \in Name : m # n => machines'[u][m] = machines[u][m]
      PROVE  \A m \in Name : m # n => StateOf(m)' = StateOf(m) /\ Hosting(m)' = Hosting(m)
  BY <1>0, <1>1, <1>4 DEF Onward
<1>5. /\ machines[k][n] # Nil => k \in Hosting(n) /\ StateOf(n) = machines[k][n]
      /\ machines'[k][n] # Nil => k \in Hosting(n)' /\ StateOf(n)' = machines'[k][n]
      /\ (\A u \in RM : machines[u][n] = Nil) => Hosting(n) = {} /\ StateOf(n) = Nil
      /\ (\A u \in RM : machines'[u][n] = Nil) => Hosting(n)' = {} /\ StateOf(n)' = Nil
  BY <1>2, StateThere
<1>6. CASE CreateExists(c, k)
  <2>1. f.pc = "exists" /\ Same
    BY <1>0, <1>6, ExistsShape
  <2>2. f.op = "create" /\ f.res = Nil /\ Outcome(f) = "pending"
    BY <1>0, <2>1, PrimaryAt, OutcomeIs
  <2>3. \A u \in RM, m \in Name : machines'[u][m] = machines[u][m]
    BY <2>1 DEF Same
  <2>4. CASE \A u \in RM : machines[u][n] = Nil
    <3>1. h.pc = "lock" /\ h.res = f.res
      BY <1>0, <1>1, <1>6, <2>4, ExistsShape DEF Goes, Has
    <3>2. Outcome(h) = "pending"
      BY <1>0, <2>2, <3>1, OutcomeIs
    <3> QED
      BY <1>3, <2>2, <2>3, <3>1, <3>2
  <2>5. CASE ~\A u \in RM : machines[u][n] = Nil
    <3>1. h.pc = "error" /\ h.res = Nil
      BY <1>0, <1>1, <1>6, <2>2, <2>5, ExistsShape DEF Goes, Has
    <3>2. Outcome(h) = "error"
      BY <1>0, <3>1, OutcomeIs
    <3>3. StateOf(n) # Nil
      <4>1. StateIsChosen(c, n)
        BY <1>2, StateChosen
      <4> QED
        BY <2>5, <4>1 DEF StateIsChosen, Hosting
    <3> QED
      BY <1>2, <1>3, <2>2, <2>3, <3>1, <3>2, <3>3, ServiceRefuses
  <2> QED
    BY <2>4, <2>5
<1>7. CASE CheckExists(c, k)
  <2>1. f.pc = "check" /\ Same
    BY <1>0, <1>7, CheckShape
  <2>2. f.op # "create" /\ f.res = Nil
    BY <1>0, <2>1, PrimaryAt
  <2>3. Outcome(f) = "pending" /\ f.op \in {"apply", "getState", "remove"} /\ f.fromFrontEnd
    BY <1>0, <2>1, <2>2, OutcomeIs, PrimaryAt DEF Op
  <2>4. \A u \in RM, m \in Name : machines'[u][m] = machines[u][m]
    BY <2>1 DEF Same
  <2>5. /\ h.res = Nil
        /\ h.pc = IF machines[k][n] = Nil THEN "error"
                  ELSE IF f.op = "getState" THEN "read"
                  ELSE IF f.op = "remove" THEN "fwdlock" ELSE "lock"
    BY <1>0, <1>1, <1>7, <2>2, <2>3, CheckShape DEF Goes, Has
  <2>6. CASE machines[k][n] # Nil
    <3>1. Outcome(h) = "pending"
      BY <1>0, <2>3, <2>5, <2>6, OutcomeIs
    <3> QED
      BY <1>3, <2>2, <2>3, <2>4, <2>5, <3>1
  <2>7. CASE machines[k][n] = Nil
    <3>1. Outcome(h) = "error" /\ k \notin Hosting(n)
      BY <1>0, <2>5, <2>7, OutcomeIs DEF Hosting
    <3> QED
      BY <1>2, <1>3, <2>2, <2>3, <2>4, <2>5, <3>1, ServiceRefuses
  <2> QED
    BY <2>6, <2>7
<1>8. CASE Read(c, k)
  <2>1. f.pc = "read" /\ Same /\ h.pc = "lock" /\ h.res = machines[k][n]
    BY <1>0, <1>1, <1>8, ReadShape DEF Goes, Has
  <2>2. f.op = "getState" /\ machines[k][n] # Nil
    BY <1>0, <1>1, <2>1, PrimaryAt, GroupedCopies
  <2>3. Outcome(f) = "pending" /\ Outcome(h) = "done"
    BY <1>0, <2>1, <2>2, OutcomeIs
  <2>4. \A u \in RM, m \in Name : machines'[u][m] = machines[u][m]
    BY <2>1 DEF Same
  <2> QED
    BY <1>2, <1>3, <1>5, <2>1, <2>2, <2>3, <2>4, ServiceReads
<1>9. CASE Insert(c, k)
  <2>1. f.pc = "insert"
    BY <1>0, <1>9, StepAt
  <2>2. f.op = "create" /\ NoCopy(n) /\ f.val \in Value /\ f.res = Nil
    BY <1>0, <1>1, <2>1, PrimaryAt
  <2>3. \A u \in RM : machines[u][n] = Nil
    BY <2>2 DEF NoCopy, Empty, Copy
  <2>4. SetsMachine(k, n, f.val) /\ h.pc = "group" /\ h.res = Nil
    BY <1>0, <1>1, <1>9, <2>2, <2>3, InsertShape DEF Goes, Has
  <2>5. Outcome(f) = "pending" /\ Outcome(h) = "done"
    BY <1>0, <2>1, <2>2, <2>4, OutcomeIs
  <2>6. /\ machines'[k][n] = f.val /\ f.val # Nil
        /\ \A u \in RM : u # k => machines'[u][n] = Nil
        /\ \A u \in RM, m \in Name : m # n => machines'[u][m] = machines[u][m]
    BY <1>0, <1>2, <2>2, <2>3, <2>4 DEF SetsMachine
  <2>7. Hosting(n)' = {k}
    BY <2>6 DEF Hosting
  <2> QED
    BY <1>2, <1>4, <1>5, <2>2, <2>3, <2>4, <2>5, <2>6, <2>7, ServiceCreates
<1>10. CASE ApplyLocal(c, k)
  <2>1. f.pc = "local"
    BY <1>0, <1>10, StepAt
  <2>2. f.op = "apply" /\ Forwarded(k, f) /\ f.val \in Value
    BY <1>0, <2>1, PrimaryAt
  <2>3. PICK v : v = Apply(machines[k][n], f.val)
    OBVIOUS
  <2>4. SetsMachine(k, n, v) /\ h.pc = "unlock" /\ h.res = v
    BY <1>0, <1>1, <1>10, <2>3, ApplyLocalShape DEF Goes, Has
  <2>5. machines[k][n] \in Value /\ machines[k][n] # Nil /\ v \in Value /\ v # Nil
    BY <1>0, <1>1, <2>2, <2>3 DEF Forwarded, ManagerAssumption
  <2>6. /\ machines'[k][n] = v
        /\ \A u \in RM : u # k => machines'[u][n] = machines[u][n]
        /\ \A u \in RM, m \in Name : m # n => machines'[u][m] = machines[u][m]
    BY <1>2, <2>4 DEF SetsMachine
  <2>7. Hosting(n)' = Hosting(n)
    BY <2>5, <2>6 DEF Hosting
  <2>8. Outcome(f) = "pending" /\ Outcome(h) = "done"
    BY <1>0, <2>1, <2>2, <2>4, OutcomeIs
  <2>9. k \in Hosting(n) /\ StateOf(n) = machines[k][n] /\ StateOf(n)' = v
    BY <1>5, <2>5, <2>6
  <2>10. v = Apply(StateOf(n), q.val)
    BY <1>2, <2>3, <2>9
  <2> QED
    BY <1>2, <1>4, <2>2, <2>4, <2>6, <2>7, <2>8, <2>9, <2>10, ServiceOperates
<1>11. CASE Erase(c, k)
  <2>1. f.pc = "erase" /\ SetsMachine(k, n, Nil) /\ h.pc = "eraseGroup" /\ h.res = f.res
    BY <1>0, <1>1, <1>11, EraseShape DEF Goes, Has
  <2>2. f.op = "remove" /\ OnlyAt(k, n) /\ machines[k][n] # Nil /\ f.res = Nil
    BY <1>0, <1>1, <2>1, PrimaryAt
  <2>3. /\ \A u \in RM : machines'[u][n] = Nil
        /\ \A u \in RM, m \in Name : m # n => machines'[u][m] = machines[u][m]
    BY <1>2, <2>1, <2>2 DEF SetsMachine, OnlyAt, Empty, Copy
  <2>4. Outcome(f) = "pending" /\ Outcome(h) = "done"
    BY <1>0, <2>1, <2>2, OutcomeIs
  <2> QED
    BY <1>2, <1>4, <1>5, <2>1, <2>2, <2>3, <2>4, ServiceRemoves
<1> QED
  BY <1>6, <1>7, <1>8, <1>9, <1>10, <1>11

-----------------------------------------------------------------------------
(* Steps of a handler that serves a manager                                *)

(* The client's request is where it was.                                   *)
LEMMA RequestStays ==
    ASSUME ReplicasAssumption, NEW c \in Client, NEW s, Calm(c, s),
           NEW k \in RM, NEW f, f = thread[c][k], f # Idle,
           NEW h, h = thread'[c][k], h # Idle, h.op = f.op, h.name = f.name, h.val = f.val,
           h.pc = f.pc, h.res = f.res,
           \A u \in RM : u # k => thread'[c][u] = thread[c][u]
    PROVE  /\ Serving(c) = {k} /\ Serving(c)' = {k} /\ RequestOf(c) = Asked(k, f)
           /\ RequestOf(c)' = RequestOf(c)
<1>1. Serving(c) = {k}
  BY ServesOne
<1>2. \A u \in RM : thread'[c][u] # Idle <=> u = k
  BY <1>1 DEF Serving
<1>3. Serving(c)' = {k}
  BY <1>2 DEF Serving
<1>4. Outcome(h) = Outcome(f)
  BY DEF Outcome
<1>5. Asked(k, h) = Asked(k, f)
  BY <1>4, AskedChanges
<1> QED
  BY <1>1, <1>3, <1>5, RequestIs

(* The machines are as they were.                                          *)
LEMMA BackupIdles ==
    ASSUME ReplicasAssumption, ManagerAssumption, NEW c, Client = {c}, NEW s, Calm(c, s),
           NEW k \in RM, NEW f, f = thread[c][k], f # Idle,
           NEW h, h = thread'[c][k], h # Idle, h.op = f.op, h.name = f.name, h.val = f.val,
           h.pc = f.pc, h.res = f.res,
           \A u \in RM : u # k => thread'[c][u] = thread[c][u],
           \A q \in RM, m \in Name : machines'[q][m] = machines[q][m]
    PROVE  UNCHANGED Service!serviceVars
<1>1. c \in Client
  OBVIOUS
<1>2. Serving(c) = {k} /\ Serving(c)' = {k} /\ RequestOf(c)' = RequestOf(c)
  BY <1>1, RequestStays
<1>3. \A m \in Name : StateOf(m)' = StateOf(m) /\ Hosting(m)' = Hosting(m)
  BY <1>2, StatesStay
<1> QED
  BY <1>2, <1>3, ServiceWaits

(* A manager other than the client's gets, changes or drops its copy.      *)
LEMMA BackupWrites ==
    ASSUME ReplicasAssumption, ManagerAssumption, NEW c, Client = {c}, NEW s, Calm(c, s),
           NEW k \in RM, thread[c][k] # Idle,
           \A u \in RM : thread'[c][u] = thread[c][u],
           NEW n \in Name, n = thread[c][k].name, machines[k][n] # Nil,
           NEW r \in RM, r # k, NEW w, SetsMachine(r, n, w)
    PROVE  Service!Next
<1>0. PICK f : f = thread[c][k]
  OBVIOUS
<1>1. c \in Client /\ f # Idle /\ f = thread'[c][k] /\ n = f.name
  BY <1>0
<1>2. /\ Serving(c) = {k} /\ Serving(c)' = {k} /\ RequestOf(c) = Asked(k, f)
      /\ RequestOf(c)' = RequestOf(c)
  BY <1>0, <1>1, RequestStays
<1>3. /\ machines'[r][n] = w
      /\ \A q \in RM : q # r => machines'[q][n] = machines[q][n]
      /\ \A q \in RM, m \in Name : m # n => machines'[q][m] = machines[q][m]
  BY DEF SetsMachine
<1>4. \A m \in Name : m # n => StateOf(m)' = StateOf(m) /\ Hosting(m)' = Hosting(m)
  BY <1>3, OtherStatesStay
<1>5. k \in Hosting(n) /\ StateOf(n) = machines[k][n] /\ StateOf(n)' = machines'[k][n]
  BY <1>2, <1>3, StateThere
<1>6. \/ Hosting(n)' = Hosting(n) \cup {r}
      \/ Hosting(n)' = Hosting(n) \ {r}
  <2>1. CASE w = Nil
    <3>1. Hosting(n)' = Hosting(n) \ {r}
      BY <1>3, <2>1 DEF Hosting
    <3> QED
      BY <3>1
  <2>2. CASE w # Nil
    <3>1. Hosting(n)' = Hosting(n) \cup {r}
      BY <1>3, <2>2 DEF Hosting
    <3> QED
      BY <3>1
  <2> QED
    BY <2>1, <2>2
<1>7. Hosting(n) # {} /\ Hosting(n) # {r} /\ StateOf(n)' = StateOf(n)
  BY <1>3, <1>5
<1>8. RequestOf(c).outcome # "none" /\ RequestOf(c).name = n
  BY <1>1, <1>2 DEF Asked, Outcome
<1>9. \/ Hosting(n)' = Hosting(n) \cup {r}
      \/ Hosting(n) # {r} /\ Hosting(n)' = Hosting(n) \ {r}
  BY <1>6, <1>7
<1> QED
  BY <1>2, <1>4, <1>7, <1>8, <1>9, ServiceRehosts, Zenon

(* A handler that serves a manager writes to a manager that is not the     *)
(* client's, which has the machine.                                        *)
LEMMA WritesBackup ==
    ASSUME ReplicasAssumption, ManagerAssumption, NEW c \in Client, NEW s, Calm(c, s),
           NEW p \in RM, NEW r \in RM, NEW h, Ready(p, r, h), h # Idle,
           Insert(p, r) \/ ApplyLocal(p, r) \/ Erase(p, r)
    PROVE  \E k \in RM, n \in Name : \E w :
             /\ thread[c][k] # Idle /\ n = thread[c][k].name /\ machines[k][n] # Nil
             /\ r # k /\ SetsMachine(r, n, w)
<1>0. TypeOK /\ p \in Proc /\ h \in Frame /\ h = thread[p][r] /\ Nil \notin Value
  BY DEF Calm, Proc, Ready, ManagerAssumption
<1>1. CASE h.op = "create"
  <2>1. PICK k \in RM : \E f \in Frame : \E n \in Name : \E g, v :
             /\ f = thread[c][k] /\ f # Idle /\ f.pc \in {"send", "fwd"} /\ Primary(k, f)
             /\ n = f.name /\ g = groupMap[k][n] /\ v = machines[k][n]
             /\ f.pc = "fwd" => f.wait \in RM /\ <<k, f.wait>> # <<p, r>>
             /\ Secondary(k, f, p, r, h) /\ BackupCreate(k, f, r, h)
             /\ IsGroup(g) /\ v \in Value /\ h.name = n /\ r \in ToSet(g) /\ h.vec = g
             /\ f.op = "create" => v = f.val /\ h.val = v /\ Spreading(k, n, v, g, f.i)
             /\ f.op # "create" => machines[r][n] # Nil /\ groupMap[r][n] = g
             /\ \A t, u \in RM : thread[t][u].pc = "group" => t = p /\ u = r
    BY <1>1, RecruitKnows
  <2>2. PICK f \in Frame, n \in Name :
             /\ f = thread[c][k] /\ f # Idle /\ n = f.name /\ machines[k][n] \in Value
             /\ h.name = n /\ BackupCreate(k, f, r, h)
    BY <2>1
  <2>3. h.pc \notin {"local", "erase"}
    BY <2>2 DEF BackupCreate
  <2>4. Insert(p, r) /\ h.pc = "insert"
    BY <1>0, <2>3, StepAt
  <2>5. machines[r][n] = Nil
    BY <2>2, <2>4 DEF BackupCreate, Empty, Copy
  <2>6. SetsMachine(r, n, h.val)
    BY <1>0, <2>2, <2>4, <2>5, InsertShape
  <2> QED
    BY <1>0, <2>2, <2>5, <2>6
<1>2. CASE h.op # "create"
  <2>1. PICK k, f : /\ k \in RM /\ f = thread[c][k] /\ f # Idle /\ Secondary(k, f, p, r, h)
    BY <1>0, ServesManager
  <2>2. f \in Frame /\ f.name \in Name /\ Primary(k, f)
    BY <2>1, ServesClient
  <2>3. r # k /\ h.name = f.name /\ machines[k][f.name] \in Value
    BY <1>0, <1>2, <2>1, <2>2, RepeatIsForwarded
  <2>4. h.pc # "insert"
    BY <1>2, <2>1 DEF Secondary, BackupRepeat
  <2>5. ApplyLocal(p, r) \/ Erase(p, r)
    BY <1>0, <2>4, StepAt
  <2>6. PICK n : n = f.name
    OBVIOUS
  <2>7. \E w : SetsMachine(r, n, w)
    <3>1. CASE ApplyLocal(p, r)
      BY <1>0, <2>3, <2>6, <3>1, ApplyLocalShape
    <3>2. CASE Erase(p, r)
      BY <1>0, <2>3, <2>6, <3>2, EraseShape
    <3> QED
      BY <2>5, <3>1, <3>2
  <2> QED
    BY <1>0, <2>1, <2>2, <2>3, <2>6, <2>7
<1> QED
  BY <1>1, <1>2

(* Every other step leaves the machines alone.                             *)
LEMMA MachinesStay ==
    ASSUME NEW p \in Proc, NEW r \in RM, ServerStep(p, r),
           ~Insert(p, r), ~ApplyLocal(p, r), ~Erase(p, r)
    PROVE  UNCHANGED machines
BY DEF ServerStep, CreateExists, CreateDup, CheckExists, Read, Lock, InsertGroup,
   Prune, PruneEnd, Select, SendCreate, SendEnd, ForwardLock, Forward, ForwardEnd,
   Unlock, EraseGroup

LEMMA BackupSteps ==
    ASSUME ReplicasAssumption, ManagerAssumption, NEW c, Client = {c}, NEW s, Calm(c, s),
           NEW p \in RM, NEW r \in RM, ServerStep(p, r)
    PROVE  Service!Next \/ UNCHANGED Service!serviceVars
<1>1. PICK h : h = thread[p][r]
  OBVIOUS
<1>2. c \in Client /\ p \in Proc /\ c \in Proc /\ TypeOK /\ c # p /\ c \notin RM
  BY DEF Proc, Calm, ReplicasAssumption, Id
<1>3. Ready(p, r, h)
  BY <1>1, <1>2, StepReady
<1>4. h # Idle
  BY <1>3 DEF Ready, Frame, Idle
<1>5. \A u \in RM : thread'[c][u] = thread[c][u]
  <2>1. CASE Moves(p, r)
    BY <1>2, <2>1 DEF Moves, Untouched
  <2>2. ASSUME NEW q \in RM, Calls(p, r, q)
        PROVE  \A u \in RM : thread'[c][u] = thread[c][u]
    BY <1>2, <2>2 DEF Calls
  <2> QED
    BY <1>2, <2>1, <2>2, StepKind
<1>6. CASE Insert(p, r) \/ ApplyLocal(p, r) \/ Erase(p, r)
  <2>1. PICK k \in RM, n \in Name : \E w :
             /\ thread[c][k] # Idle /\ n = thread[c][k].name /\ machines[k][n] # Nil
             /\ r # k /\ SetsMachine(r, n, w)
    BY <1>2, <1>3, <1>4, <1>6, WritesBackup, Zenon
  <2>2. PICK w : SetsMachine(r, n, w)
    BY <2>1
  <2>3. Service!Next
    <3>1. thread[c][k] # Idle /\ n = thread[c][k].name /\ machines[k][n] # Nil /\ r # k
      BY <2>1
    <3> QED
      BY <1>5, <2>2, <3>1, BackupWrites, Zenon
  <2> QED
    BY <2>3
<1>7. CASE ~(Insert(p, r) \/ ApplyLocal(p, r) \/ Erase(p, r))
  <2>1. PICK k \in RM : thread[c][k] # Idle
    BY <1>1, <1>2, <1>4, ServesManager
  <2>2. UNCHANGED machines
    BY <1>2, <1>7, MachinesStay
  <2>3. PICK f : f = thread[c][k]
    OBVIOUS
  <2>4. f = thread'[c][k] /\ f # Idle
    BY <1>5, <2>1, <2>3
  <2>5. \A q \in RM, m \in Name : machines'[q][m] = machines[q][m]
    BY <2>2
  <2>6. UNCHANGED Service!serviceVars
    BY <1>5, <2>3, <2>4, <2>5, BackupIdles
  <2> QED
    BY <2>6
<1> QED
  BY <1>6, <1>7

(* The answer of a handler that serves a manager.                          *)
LEMMA BackupAnswers ==
    ASSUME ReplicasAssumption, ManagerAssumption, NEW c, Client = {c}, NEW s, Calm(c, s),
           NEW p \in RM, NEW r \in RM, Reply(p, r)
    PROVE  UNCHANGED Service!serviceVars
<1>1. /\ thread[p][r].pc \in {"reply", "error"} /\ thread' = ThreadsAfterReply(p, r)
      /\ UNCHANGED machines
  BY DEF Reply
<1>2. /\ c \in Client /\ p \in Proc /\ c \in Proc /\ c # p /\ c \notin RM
      /\ thread[p][r] # Idle /\ NoRM \notin RM
  BY <1>1, NoRMOut DEF Proc, ReplicasAssumption, Id, Idle, NoRMIsNoManager
<1>3. PICK k \in RM : thread[c][k] # Idle
  BY <1>2, ServesManager
<1>4. PICK f, h : f = thread[c][k] /\ h = thread'[c][k]
  OBVIOUS
<1>5. f \in Frame /\ f # Idle
  BY <1>2, <1>3, <1>4, ServesClient
<1>6. \A u \in RM : thread'[c][u] = IF u = p /\ thread[c][u].wait = r THEN Resume(thread[c][u])
                                    ELSE thread[c][u]
  BY <1>1, <1>2 DEF ThreadsAfterReply
<1>7. h = f \/ h = Resume(f)
  BY <1>4, <1>6
<1>8. /\ h # Idle /\ h.op = f.op /\ h.name = f.name /\ h.val = f.val
      /\ h.pc = f.pc /\ h.res = f.res
  <2>1. CASE h = f
    BY <1>5, <2>1
  <2>2. CASE h = Resume(f)
    BY <1>5, <2>2, ResumedFields
  <2> QED
    BY <1>7, <2>1, <2>2
<1>9. \A u \in RM : thread[c][u] = Idle => thread'[c][u] = thread[c][u]
  BY <1>2, <1>6, NoRMOut DEF Idle, NoRMIsNoManager
<1>10. \A u \in RM : u # k => thread'[c][u] = thread[c][u]
  BY <1>2, <1>3, <1>9, ServesClient
<1>11. \A q \in RM, m \in Name : machines'[q][m] = machines[q][m]
  BY <1>1
<1> QED
  BY <1>4, <1>5, <1>8, <1>10, <1>11, BackupIdles

-----------------------------------------------------------------------------
(* The start and the end of a request                                      *)

LEMMA NoRequest ==
    ASSUME ReplicasAssumption, NEW c
    PROVE  /\ (\A u \in RM : thread[c][u] = Idle) => RequestOf(c) = None
           /\ (\A u \in RM : thread'[c][u] = Idle) => RequestOf(c)' = None
BY DEF RequestOf, Serving

(* Between requests no two copies differ.                                  *)
LEMMA AllAgreedStay ==
    ASSUME ReplicasAssumption, ManagerAssumption, NEW c, Client = {c},
           \A m \in Name : Consistent(m),
           \A q \in RM, m \in Name : machines'[q][m] = machines[q][m]
    PROVE  \A m \in Name : StateOf(m)' = StateOf(m) /\ Hosting(m)' = Hosting(m)
<1> SUFFICES ASSUME NEW m \in Name
             PROVE  StateOf(m)' = StateOf(m) /\ Hosting(m)' = Hosting(m)
  OBVIOUS
<1>1. Agreed(m)
  BY ConsistentAgreed
<1> QED
  BY <1>1, StateStays

LEMMA RequestComes ==
    ASSUME ReplicasAssumption, ManagerAssumption, NEW c, Client = {c}, NEW s, Calm(c, s),
           NEW k \in RM, NEW C, C \subseteq Op, Arrival(c, k, C),
           \A q \in RM : thread[c][q] = Idle
    PROVE  Service!Next
<1>1. c \in Client /\ c \in Proc /\ TypeOK
  BY DEF Calm, Proc
<1>2. \A p \in Proc, u \in RM : thread[p][u] = Idle
  BY <1>1, PathArrival DEF Calm
<1>3. \A m \in Name : Consistent(m)
  BY <1>2 DEF Calm, Data, Quiet
<1>4. \A q \in RM, m \in Name : machines'[q][m] = machines[q][m]
  BY DEF Arrival
<1>5. \A m \in Name : StateOf(m)' = StateOf(m) /\ Hosting(m)' = Hosting(m)
  BY <1>3, <1>4, AllAgreedStay
<1>6. PICK op \in C, n \in Name, v \in Value \cup {Nil} :
        Goto(c, k, Request(op, n, v, IF op = "create" THEN <<k>> ELSE <<>>, TRUE))
  BY DEF Arrival
<1>7. PICK h : h = Request(op, n, v, IF op = "create" THEN <<k>> ELSE <<>>, TRUE)
  OBVIOUS
<1>8. /\ h.op = op /\ h.name = n /\ h.val = v /\ h # Idle /\ h.res = Nil
      /\ h.pc = IF op = "create" THEN "exists" ELSE "check"
  BY <1>7 DEF Request, Idle
<1>9. thread'[c][k] = h /\ \A u \in RM : u # k => thread'[c][u] = Idle
  BY <1>1, <1>2, <1>6, <1>7 DEF Goto, TypeOK
<1>10. Serving(c)' = {k}
  BY <1>8, <1>9 DEF Serving
<1>11. op \in Op
  OBVIOUS
<1>12. Outcome(h) = "pending"
  BY <1>8, <1>11, OutcomeIs DEF Op
<1>13. RequestOf(c)' = Asked(k, h)
  BY <1>9, <1>10, RequestIs
<1>14. RequestOf(c)' = [op |-> op, name |-> n, val |-> v, at |-> k, res |-> Nil,
                        outcome |-> "pending"]
  BY <1>8, <1>12, <1>13 DEF Asked
<1>15. RequestOf(c) = None
  BY NoRequest
<1> QED
  BY <1>5, <1>11, <1>14, <1>15, ServiceCalls

LEMMA RequestReturns ==
    ASSUME ReplicasAssumption, ManagerAssumption, NEW c, Client = {c}, NEW s, Calm(c, s),
           NEW k \in RM, Reply(c, k)
    PROVE  Service!Next
<1>1. PICK f, n : f = thread[c][k] /\ n = f.name
  OBVIOUS
<1>2. /\ f.pc \in {"reply", "error"} /\ thread' = ThreadsAfterReply(c, k) /\ UNCHANGED machines
      /\ c \in Client /\ c \in Proc /\ c \notin RM /\ f # Idle
  BY <1>1 DEF Reply, Proc, ReplicasAssumption, Id, Idle
<1>3. f \in Frame /\ n \in Name /\ Primary(k, f) /\ Busy(c, k) /\ f.op \in Op
  BY <1>1, <1>2, ServesClient, FrameThere DEF Calm
<1>4. Serving(c) = {k} /\ RequestOf(c) = Asked(k, f)
  BY <1>1, <1>2, ServesOne, RequestIs
<1>5. \A u \in RM : thread'[c][u] = Idle
  BY <1>1, <1>2, ServesClient DEF ThreadsAfterReply
<1>6. RequestOf(c)' = None
  BY <1>5, NoRequest
<1>7. Outcome(f) \in {"done", "error"}
  BY <1>2, <1>3, OutcomeIs DEF Op
<1>8. RequestOf(c).outcome \in {"done", "error"}
  BY <1>4, <1>7 DEF Asked
<1>9. Consistent(n)
  BY <1>1, <1>2, <1>3 DEF Primary, Creating, Reading, Applying, Removing, Consistent, Op
<1>10. \A m \in Name : Consistent(m)
  BY <1>1, <1>3, <1>9 DEF Busy
<1>11. \A q \in RM, m \in Name : machines'[q][m] = machines[q][m]
  BY <1>2
<1>12. \A m \in Name : StateOf(m)' = StateOf(m) /\ Hosting(m)' = Hosting(m)
  BY <1>10, <1>11, AllAgreedStay
<1> QED
  BY <1>6, <1>8, <1>12, ServiceReturns

-----------------------------------------------------------------------------
(* The refinement                                                          *)

(* Steps that change no machine and no request.                            *)
LEMMA NothingHappens ==
    ASSUME NEW c, Client = {c}, UNCHANGED <<machines, thread>>
    PROVE  UNCHANGED Service!serviceVars
BY DEF Service!serviceVars, RequestOf, StateOf, Primaries, Serving, Hosting

LEMMA ServiceStep ==
    ASSUME ReplicasAssumption, ManagerAssumption, NEW c, Client = {c}, NEW s, Calm(c, s),
           NEW C, C \subseteq Op, CalmNext(c, C)
    PROVE  [Service!Next]_Service!serviceVars
<1>0. c \in Client /\ c \in Proc /\ TypeOK
  BY DEF Calm, Proc
<1>1. ASSUME NEW p \in Proc, NEW r \in RM, ServerStep(p, r)
      PROVE  Service!Next \/ UNCHANGED Service!serviceVars
  <2>1. CASE p \in RM
    BY <1>1, <2>1, BackupSteps
  <2>2. CASE p \in Client
    <3>1. p = c
      BY <2>2
    <3>2. PICK f : f = thread[c][r]
      OBVIOUS
    <3>3. Ready(c, r, f) /\ ServerStep(c, r)
      BY <1>0, <1>1, <3>1, <3>2, StepReady
    <3>4. f # Idle
      BY <3>3 DEF Ready, Frame, Idle
    <3>5. CASE \/ CreateExists(c, r) \/ CheckExists(c, r) \/ Read(c, r) \/ Insert(c, r)
               \/ ApplyLocal(c, r) \/ Erase(c, r)
      BY <3>3, <3>4, <3>5, HandlerActs
    <3>6. CASE ~(\/ CreateExists(c, r) \/ CheckExists(c, r) \/ Read(c, r) \/ Insert(c, r)
                 \/ ApplyLocal(c, r) \/ Erase(c, r))
      BY <3>3, <3>4, <3>6, HandlerIdles
    <3> QED
      BY <3>5, <3>6
  <2> QED
    BY <2>1, <2>2 DEF Proc
<1>2. ASSUME NEW p \in Proc, NEW r \in RM, Reply(p, r)
      PROVE  Service!Next \/ UNCHANGED Service!serviceVars
  <2>1. CASE p \in RM
    BY <1>2, <2>1, BackupAnswers
  <2>2. CASE p \in Client
    BY <1>2, <2>2, RequestReturns
  <2> QED
    BY <2>1, <2>2 DEF Proc
<1>3. ASSUME NEW r \in RM, Arrival(c, r, C), \A q \in RM : thread[c][q] = Idle
      PROVE  Service!Next
  BY <1>3, RequestComes
<1>4. CASE Reconnects(c) \/ UNCHANGED vars
  BY <1>4, NothingHappens DEF Reconnects, managerVars, vars
<1>5. \A p \in Proc, r \in RM : ~Escape(p, r) /\ ~Abort(p, r)
  BY <1>0, NobodyFails
<1> QED
  BY <1>1, <1>2, <1>3, <1>4, <1>5 DEF CalmNext, Step

LEMMA ServiceInit ==
    ASSUME NEW c, Client = {c}, Init
    PROVE  Service!Init
<1>1. \A n \in Name : Hosting(n) = {}
  BY DEF Init, Hosting
<1>2. \A n \in Name : StateOf(n) = Nil
  BY <1>1 DEF StateOf
<1>3. \A d \in Client : Serving(d) = {}
  BY DEF Init, Serving, Proc
<1>4. \A d \in Client : RequestOf(d) = None
  BY <1>3 DEF RequestOf
<1> QED
  BY <1>1, <1>2, <1>4 DEF Service!Init, Service!None, None

(***************************************************************************)
(* With one client, any number of managers from three on, and none of them *)
(* failing, the managers implement StateMachineService: create(), apply(), *)
(* getState() and remove() take effect at one instant each, on the one     *)
(* state that the machine has, whichever of its hosts is asked, and what   *)
(* the handlers send to each other changes nothing but where the copies    *)
(* are.                                                                    *)
(***************************************************************************)
THEOREM ManagersImplementService ==
    ASSUME NEW c, Client = {c}, Started = RM, MaxDown = 0, N >= GroupSize
    PROVE  Spec => ImplementsService
<1> USE ReplicasAssumption, ManagerAssumption
<1>1. Init => Service!Init
  BY ServiceInit
<1>2. TypeOK /\ WaitInv /\ GroupInv(c) /\ [Next]_vars => [Service!Next]_Service!serviceVars
  <2> SUFFICES ASSUME TypeOK, WaitInv, GroupInv(c), [Next]_vars
               PROVE  [Service!Next]_Service!serviceVars
    OBVIOUS
  <2>1. CalmNext(c, Command)
    BY NextIsCalm DEF GroupInv
  <2>2. PICK s : Calm(c, s)
    BY DEF GroupInv, Calm
  <2>3. Command \subseteq Op
    BY DEF ManagerAssumption, Op
  <2> QED
    BY <2>1, <2>2, <2>3, ServiceStep
<1>3. Spec => [](TypeOK /\ WaitInv /\ GroupInv(c))
  BY GroupAlways
<1> QED
  BY <1>1, <1>2, <1>3, PTL DEF Spec, ImplementsService, Service!Spec
=============================================================================
