# Replicated state machines: a TLA+ model

The repository implements replicated state machines by passive replication. A
user types commands at a *shell*, which calls a *front end*; the front end sends
requests to *replica managers* (RM); a manager repeats a request to the other
managers of the machine's group and answers. There are `numreplicas` managers
(6 in `config`), every machine is meant to have three copies, and a manager that
dies is replaced by the least loaded one. This directory holds TLA+ models of
that code, the TLC configurations that check them, and TLAPS proofs.

## The system

| part | source | state | operations |
|---|---|---|---|
| replica manager | `replica_handler.cpp`, `.h` | `machines`, `groupMap`, `managerMutex` | `create`, `apply`, `getState`, `remove`, `numMachines`, `hasStateMachine`, `exit`, and `replaceRM`, which the first three call |
| front end | `frontend.cpp`, `.h` | a stub's manager | `create`, `get`, `remove`, the stub's `apply` and `getState` with their retry |
| client shell | `client.cpp` | its stubs | reads commands, calls the front end |
| processes and connections | `replicas.cpp`, `.h`, `replica_main.cpp` | the pipe of a manager, the vector `replicas` of Thrift clients, the thread pool | `serve`, `operator[]`, `piperemove` at exit |
| RPC layer | `replica.thrift`, `gen-cpp/` (generated) | frames on a connection | client methods, dispatch, `process_` functions, `read` and `write` of each struct |
| state machines | `statemachine.h`, `stringmachine.h`, `bankbalance.h` | one string, one int | `apply`, `getState` |

How they interact. Every process owns one `Replicas` object with one Thrift
client per manager, and all threads of the process share it. A manager runs a
`TThreadPoolServer` with 15 threads: each connection occupies one for its life,
and serves one request at a time. A handler calls other managers synchronously,
`replaceRM` even calls its own manager, and partly while it holds `managerMutex`.
Nothing is persistent: a manager that is started again is empty.

What is hard here. Handlers of several connections interleave; the mutex is
locked in the handler and unlocked in `replaceRM`, and `apply` unlocks it once
more; state is checked, and used after a wait; a manager can die between any two
steps; a failed connection is remembered for ever; `replaceRM` edits the list
it walks and may read an uninitialised variable; handlers of different managers
wait for each other; the front end acts on pings that are out of date and
repeats what may have happened. `PROJECT.json` lists each hazard at its line.

What makes the parts correct.

* *Managers*: three live hosts with the same state and the same list when a
  request is answered; a request takes effect exactly once at each; the mutex
  excludes and is always released; no crash.
* *Front end and shell*: every command ends; the commands are requests to one
  reliable host, wherever the machine has moved.
* *RPC and connections*: a call returns what the handler did for that very call;
  every call returns; a caller waits only for a request that is being served.

## The modules

    Replicas                  processes and connections
      ReplicaManager          the handlers and their threads; the properties
        ReplicaManagerProofs    theorems: types, the mutex, who waits for whom
          ListProofs              theorems: group lists, no crash
            PathProofs              lemmas: one client, no failures
              GroupProofs             theorems: the copies and their group
        ServiceRefinement       the managers as a StateMachineService
          ServiceProofs           + GroupProofs: theorem: they implement it
          MCReplicaManager        + StateMachines: for TLC, single requests
        FrontEnd                shell, front end and stubs over the managers
          ShellRefinement         the shell's commands as a StateMachineService
            MCFrontEnd              + StateMachines: for TLC
          FrontEndProofs          + ListProofs: theorems about the whole system
            ShellProofs             + ServiceProofs, ShellRefinement: theorems: the
                                    copies under the front end; its commands
    StateMachines             StringMachine, BankBalance
    StateMachineService       the abstract specification
    ReplicaWire               the structs and messages of the generated code
      ReplicaRpc              remote calls to one manager, and its thread pool
        MCReplicaRpc            for TLC
        RpcProofs               theorems

**Replicas** (`replicas.cpp`). `status[r]` says whether manager r serves
(`up`), has no process and no pipe (`exited`), or has died and left its pipe
(`aborted`, and then `serve` refuses to start it, line 111). `conn[p][q]` is the
entry for q in p's `Replicas` object: `none`, `open`, or `broken`. `operator[]`
stores the client before it opens it (lines 153-154), so an entry never leaves
`broken`: that is `CanCall`, `Opened` and `OpenFails`. `NoRM` stands for every
index without a manager, for which `operator[]` throws.

**ReplicaManager** (`replica_handler.cpp`). `thread[p][r]` is the server thread
of r for the connection from process p: idle, or a request with its arguments
and a control point `pc`. A thread in the middle of a call to manager q has
`wait = q`, and the called thread is `thread[r][q]`. One action is one stretch
of code between points where another thread or process can matter:

| code | actions |
|---|---|
| `create` 38-71 | `CreateExists`, `CreateDup` |
| `create` 89-92 | `Lock`, `Insert`, `InsertGroup`, then `replaceRM` |
| `checkExists` in the others | `CheckExists`; `Read` (138) |
| `replaceRM` 206-222 | `Prune` (up to and with an erased member), `PruneEnd` |
| `replaceRM` 225-248 | `Select` (one recruit), unlock with the last |
| `replaceRM` 250-258 | `SendCreate`, `SendEnd` |
| `apply` 111-123, `remove` 160-171 | `ForwardLock`, `Forward`, `ForwardEnd` |
| `apply` 127-128 | `ApplyLocal`, `Unlock` |
| `remove` 175-178 | `Lock`, `Erase`, `EraseGroup` |
| answer, exception | `Reply` (also wakes the caller), `Escape` |
| process | `Exit`, `Abort`, `Start` |

`Escape` is the `char const *` of `operator[]`, which leaves a handler past every
`catch (exception e)`: the connection is closed, and a mutex the thread holds
stays locked (holder `Gone`). `Abort` is the null pointer of `machines[name]`
after a concurrent `remove`, and element 1 of an empty list. Running off the end
of a list (`Overrun`) may do either.

**FrontEnd** (`frontend.cpp`, `client.cpp`). `shell[c]` is the command a client
process is executing, with its control point, the position of its loop and the
manager it waits for; `stub[c][n]` is the manager of its stub for machine n.

| code | actions |
|---|---|
| `main` 44-112 | `TypeCommand` (which stub, which call), `Quit`, `Return` |
| `create` 119-158 | `Scan` (ping all, choose), `CreateAt`; then `get` |
| `get` 166-193 | `Get` (ping up to the first host, else the last manager) |
| the stubs' `apply` and `getState` | `CallStub`, then `CallNext` for manager after manager |
| `remove` 202-215 | `CallNext` for every manager |
| a call returns, throws, breaks | `Answer`, `Lost` |

The assignment `replica = (*replicas)[i]` (46, 87) is to a reference and copies
only an empty base class: a stub keeps the manager it was made for, and the
model has no step for it. Two promises of `frontend.h` are not kept and are
modelled as the code has it: `get` never returns `NULL` (21-22), and a stub of a
removed machine answers `""` instead of throwing (24-26).

**ReplicaWire** (`gen-cpp/Replica.cpp`, `replica_types.cpp`). The generated code
has a `read` and a `write` for every struct, and its client and server use
different ones: `create_pargs::write` meets `create_args::read`, `create_result::write`
meets `create_presult::read`. Each is a table of field ids, names and types here;
`Read` skips an unknown id and a value of another type, `WriteResult` writes
`success` or else `e`. `ReplicaClient` and `ProcessMap` say which structs and
which message name a client method and a `process_` function use.

**ReplicaRpc**. `caller[p][t]` is the call of a thread, `link[p]` the connection
of a process with the frames on it, `waiting` and `pool` the connections without
and with a server thread, `worker[p]` the request in a handler. `Call` is
`operator[]`, `SendCall` and `Receive` are the `send_` and `recv_` functions,
`Dispatch` and `Finish` the processor, with the three ways a handler answers.
`Escape` closes one connection, `HandlerExit` ends the manager. `done` is a history
variable: what a handler did for the thread's call.

**StateMachines**: `apply` of the two machines in the repository, the balance
with the width of its integer (`Width`, 2 bits here). **StateMachineService**:
what a client is promised, one state per machine and requests that take effect
at one instant. **ServiceRefinement** maps a machine's state to the copy at the
manager that is serving a client, if it has one, else at any host, and says at
which control points each request has taken effect. **ShellRefinement** does the
same for whole commands, with a single host that never fails.

### Abstractions

* A loop of pings (`hasStateMachine`, `numMachines`) is one step. A ping takes no
  lock and calls nobody, and changes only the caller's connections. What is lost
  is a crash or a change of `machines` between two pings of one loop; between the
  pings and what follows from them everything may happen.
* In `ReplicaManager`, two threads of a manager that need the client for the same
  manager take turns. The code does not do that: `swapped_answers` shows what can
  happen, `rpc` (with `Exclusive`) that turns are enough.
* In `ReplicaManager` no thread of the pool is missing (`PoolAssumption`); `rpc`
  shows that it suffices that no more connections are open than there are threads.
* In `ReplicaRpc` a frame is written and read as a whole, what a handler does is
  left open, and arguments are tokens that tell calls (of all processes) and fields
  apart. The sequence number of a message is always 0 in this code and left out. After a
  skipped answer the code reads the next message header as a struct; what that
  leaves unread of the frame is dropped.
* `Start` waits until no thread serves a request of the process's earlier life.
* The forward loop of `create` (73-84) is left out: the front end sends a
  list of one element, and the loop starts at the second.
* In the runs of `MCReplicaManager` a client sends any request to any manager, one
  at a time, which includes all that the front end sends.

## What is checked

The mutants of `PROJECT.json` (defined next to what they change) show for every
property of a passing run a plausible mistake in the code that it finds.

| run | instance | properties |
|---|---|---|
| `one_client` | 4 managers, 1 client without a front end, unlimited requests, a 2-bit balance | `TypeOK`, `GroupAgreement`, `ImplementsService` |
| `too_few_managers` | 2 managers, 1 client without a front end, unlimited requests, exits and starts at any moment, one down at a time | `LockOwner`, `WaitsForAnswer` |
| `two_shells` | 4 managers, 2 shells, 3 commands other than `remove` | `MutualExclusion`, `WaitsForAnswer` |
| `crash_front_end` | 4 managers, 1 shell, 2 commands other than `remove`, an exit and a start at any moment | `NoAbort`, `SelfListed`, `MutualExclusion` |
| `calm_front_end` | 5 managers, 1 shell, 3 commands, 2 exits between commands | `ShellTypeOK`, `AnsweredIsReplicated`, `AnsweredIsEverywhere`, `CommandEnds`, `ImplementsOneHost` |
| `rpc` | 1 manager, 2 processes with 2 threads that come and go, 1 server thread, 4 calls | `RpcTypeOK`, `OwnAnswer`, `CallsReturn` |

So with one client and no failure the managers are one linearizable service; a
BankBalance shows that no operation is applied twice. With failures between
commands the same holds one level up: `ImplementsOneHost` says that whichever
managers the front end asks and the stub retries, a command takes effect exactly
once on the one state of the machine, and is refused only if the machine does
not exist (or, for `create`, does). And every answer finds three live copies in
the answered state: the iterator reset in `replaceRM` does skip a member, but
the `create` calls that it sends run `replaceRM` again elsewhere and repair the
list before the answer. With failures at any moment, or two shells, what still
holds is about the locks, the waiting, and the absence of crashes as long as
nobody removes. Mutual exclusion of `two_shells` is a matter of numbers: two
requests that overlap cannot break it, one more can (`stolen_lock`).

Six runs refute what documents, comments and headers say (`findings`). Five of
them start from an empty system and go through the real shell and front end:

* `stolen_lock`: the `unlock` at the end of `apply` frees a lock of another
  thread, and a third gets in.
* `diverging_copies`: two shells apply at the same primary. It forwards under its
  mutex, but changes its own copy at line 127, after the mutex is released, in
  the opposite order.
* `stale_recruit`: a member dies during `create`, and the primary replaces it. A
  backup that is still passing `create` around re-sends its older list, which the
  primary takes over (line 65). The next `apply` is forwarded to the old list,
  and the recruit stays stale.
* `late_start`: a manager that was not up when it was first called is never
  recruited; `rep` stays uninitialised and the group gets a wrong third member
  although three managers are up.
* `create_deadlock`: two shells create machines of different names at different
  managers; the server threads of three managers wait for each other in a
  cycle, and the commands never end.
* `swapped_answers`: two threads of one manager call another one through the
  `ReplicaClient` they share, and one gets the answer to the other's request.

Not a run of its own: when a manager dies while it forwards an operation, the
stub repeats the operation at a backup that may already have applied it, and
copies that had it and copies that had not end up different. Nothing in the
repository promises otherwise.

### Bounds

`MaxDown` bounds the managers that are down at a time; `MaxCommand`, `MaxExit`,
`MaxStart` and `MaxCall` what happens in a behaviour; `one_client` and
`too_few_managers` have no bound but their sets. There is one machine name,
except in `create_deadlock`, which has two. Four managers are three hosts and a
recruit; five allow two recruits after two failures, the case of the skipped
member. A command of the shell is up to two scans and a request to every
manager, so that three commands are a create and any two commands after it. One exit and one start are enough for a recruit and a stale
connection; two exits are all that five managers can bear. Two managers are
too few for a group of three, so every `create` of `too_few_managers` meets the
index without a manager. `CalmExit` restricts exits to moments when every shell
is at its prompt. In `rpc` one server thread and one open connection make the
pool full all the time: the second process gets its thread only when the first
has left. `AddOne` creates a balance with 0 and adds 1, `AddOneKeep` is without
`remove`. Clients are symmetric where no liveness is checked.

Deadlock is checked in `one_client`; the bounded runs stop when their commands
or calls are used up, and `too_few_managers` when both managers have aborted and
left their pipes.

### Fairness

`FrontEndFairness` is weak fairness of every client process in a command and of
every server thread: the operating system schedules them, and a thread at
`pthread_mutex_lock` or in a read goes on once it can. Users need not type,
managers need not fail. `RpcFairness` is the same for the threads of
`ReplicaRpc`, and assumes that a handler ends, which `CommandEnds` checks for the
managers. `CommandEnds` holds with one shell; with two it does not, however fair
the threads are (`create_deadlock`).

## What is proved

TLAPS proves the theorems below for all numbers of managers, clients, processes,
threads and connections, all sets of names and values and every `Apply`, from the
named assumptions on the constants only (`ReplicasAssumption`,
`ManagerAssumption`, `ShellAssumption`, `RpcAssumption`); what a theorem assumes
beyond them is in its statement. TLC finds the inductive invariants to hold on the
instances above: `AnswerInv` on `rpc`, `SystemInv` on the three front end runs,
`WaitInv` on `one_client` and `too_few_managers`, and `ListInv` on `two_shells` and
`crash_front_end`, whose commands meet its hypotheses.

**The managers and whoever calls them.** The step lemmas are not about `Next` but
about `OpenNext(C)`: the manager steps, and clients that may call, connect, lose
connections or receive answers in any order, with any request whose operation is
in C. `Next` is such a step (`NextIsOpen`), and so is every step of the shell and the
front end (`FrontEndIsOpen`), so each invariant of the managers is proved once and
holds for both specifications.

* `TypeCorrect`: `Spec => []TypeOK`. `TypeOK` is inductive because `Frame` says
  that only `apply` reaches `local` and `unlock`, and that it carries a value.
* `LockReleased`: `Spec => []LockOwner`. `LockOwner` is inductive. `LockStep`
  classifies each of the 19 server actions: it keeps the mutex and the thread's
  being critical, acquires both, or releases both, and moves no other thread
  into or out of a critical section.
* `ExclusionWithoutApply`: if `"apply" \notin Command`,
  `Spec => []MutualExclusion`. The inductive invariant is `CriticalOwns` (a thread
  in a critical section is the holder) with `NoApply`; without it the release
  at `unlock` destroys `CriticalOwns`, which is what `stolen_lock` shows.
* `CallerWaitsAlone`: `Spec => []WaitsForAnswer`. `WaitInv` adds that a thread waits
  only at `send` or `fwd`. `StepKind` says that a server step moves its thread on
  or makes one call, to an idle thread; `WaitsAfterReply` and `WaitsAfterDeath` say
  who is woken up by an answer and by the end of a process.
* `HostIsListed` and `NobodyAborts`: without `remove`, and with one name or without
  `apply`, `Spec => []SelfListed` and `Spec => []NoAbort`. `ListInv` has the reasons:
  a manager that serves can call itself (`SelfReached`, `UpServes`), so no pruning
  takes it off its own list; every list that travels in a request to a manager is
  one with that manager on it (`FramesOK`); a machine without a list is one that
  a `create` holding the mutex has just inserted (`BeingCreated`, `Settled`); and
  the thread at `group` is the holder (`Owned`). The hypothesis on `apply` is
  needed: with two names, the `unlock` of an `apply` to one machine can free the
  mutex in the middle of a `create` of the other. An `apply` to that machine, which
  has no list yet, then gets in and looks at element 1 of an empty list. TLC finds
  this run with three managers and two clients; it is the defect of `stolen_lock`
  once more.

**The copies of a machine** (`PathProofs`, `GroupProofs`), with one client, all managers
up and none failing (`Client = {c}`, `Started = RM`, `MaxDown = 0`), and
`N >= GroupSize`: these are the circumstances in which the copies agree at all
(`diverging_copies`, `stale_recruit` and `too_few_managers` show what happens
outside them), and `GroupAgreement` and the `Answered` properties are false without
them. The number of managers, of names and of requests, the values and `Apply` are
arbitrary.

* `GroupsAgree`, `AnswersAreReplicated`, `AnswersAreEverywhere`: `Spec =>
  []GroupAgreement`, `[]AnsweredIsReplicated`, `[]AnsweredIsEverywhere`.
  `OneClientIsSafe`: `Spec => []NoAbort`, here with `remove` and `apply` of several
  machines, which `NobodyAborts` has to exclude because there clients race.

The inductive invariant is `GroupInv`, in three parts. `AllUp`: nobody has failed.
`Path(c, s)`: the requests in service are one inside the other, s[1] serving the
client and s[i + 1] serving s[i]; a chain of nested `create` calls has no bound
that the invariant needs, since `PathCalls`, `PathReply` and `PathMoves` only look
at its end. `Data(c)`: the copies and lists of a machine are given by the control
point of the client's handler alone (`Primary`: `Creating`, `Reading`, `Applying`,
`Removing`), and each request between managers is at a point that the client's
handler accounts for (`Secondary`). In the loop of `create` that sends (`Spreading`)
every member of the group has the machine or has not, those before the loop's
position have it, and a member that has the machine and no list is at `group`
inside a nested `create`; in the loop of `apply` and `remove` (`Forwarding`) the state
of each backup follows from the position of the loop and the control point of the
request being repeated (`Stage`, `Backup`). So a nested `create` that overtakes its
sender's own loop does no harm: it writes what the loop would write. One lemma per
action of the handlers shows that `Data` is kept, for the client's handler
(`CreatingStep`, `ReadingStep`, `ApplyingStep`, `RemovingStep`, `PrimarySends`,
`PrimaryForwards`, `PrimaryAnswers`) and for the others (`RecruitStep`, `RepeatStep`,
`SecondarySends`, `SecondaryAnswers`). TLC finds `GroupInv` to hold on `one_client`.

**The managers as one service** (`ServiceProofs`), in the same setting.

* `ManagersImplementService`: `Spec => ImplementsService`. The state of the service
  is that of the client's manager, or of any holder: `PrimaryAgreed` derives from
  `Data` that the holders agree whenever the choice between them matters, so
  `StateOf` does not depend on it (`StateChosen`). Each step of the client's handler
  is one of the service's actions, at the point where the request takes effect
  (`HandlerActs`: insertion, application, reading, erasure, refusal), or a stutter
  (`HandlerIdles`). The copies that backups insert, change and erase are `Rehost`
  steps or stutters (`WritesBackup`, `BackupWrites`): only who hosts the machine
  changes, and never the last host. A client's call and its answer are `Call` and
  `Return` (`RequestComes`, `RequestReturns`).

**The shell and the front end** (`FrontEndProofs`). `ShellInv` is the invariant of
the client processes: what a command in execution is made of (`ShellOK`), that a
stub that is used exists (`StubsOK`), the counters, and that the only request a
client has is the one its shell waits for (`OneRequest`), which is what makes the
front end an environment for the managers. In turn `ManagersServe` says that no
manager step gives a client a request, which is all that the shell's invariant
needs of the managers. `SystemInvariant` joins both.

* `ShellTypeCorrect`: `FrontEndSpec => []ShellTypeOK`.
* `FrontEndIsSafe`: `FrontEndSpec => [](TypeOK /\ LockOwner /\ WaitsForAnswer)`.
* `FrontEndExcludes`: `[]MutualExclusion`, if no user types `apply`.
* `FrontEndNeverAborts`: `[](SelfListed /\ NoAbort)`, if no user types `remove` and,
  where there are two names, none types `apply`.

The last two say for any number of shells, managers, exits and starts what
`two_shells` and `crash_front_end` show on an instance (these runs do type `apply`,
with a bound on the commands under which mutual exclusion survives it).

**The shell over managers that agree** (`ShellProofs`), with one client process at a
time and no failures, as for the copies.

* `FrontEndCopiesAgree`: `FrontEndSpec => [](GroupAgreement /\ AnsweredIsReplicated /\
  AnsweredIsEverywhere /\ NoAbort)`. By `OneRequest` a shell that does not wait has
  no request, so the front end is the client that `GroupInv` allows
  (`FrontEndIsCalm`).
* `CommandsAreRequests`: `FrontEndSpec => ImplementsOneHost`. The refinement is that of
  `ManagersImplementService`, read once more: the step of a handler that is an action
  of the managers' service is the same action of the one host
  (`ServersServeCommand`), and the client's own steps are its `Call`, `Return` and
  `Refuse`, or stutter. The hard part is `Refuse`: a stub fails its command only after
  its loop has asked every manager, and `AnswerServes` has to show that the machine
  is then nowhere; the managers' service alone would allow a refusal by a manager
  that the machine has left. `CommandInv` has the reason: the managers that the loop has passed
  do not have the machine (`Passed`), and no machine moves to one of them before
  the request is executed (`Looking`); the loop of `remove`, which goes on after
  its success, meets only refusals, so it cannot remove twice; a refusal on its
  way still says what is true of the machine (`Refusable`); the request is the
  command's own (`Awaits`); and no connection of the client is broken (`Reaches`).
  TLC finds `CommandInv` to hold on the instance of `calm_front_end` without exits,
  and with five commands.

**The RPC layer** (`RpcProofs`).

* What is written is read: `ReadWrite` for the fields of any schema with different
  names, `ArgsAreRead` for the arguments of each method, `OutcomeIsRead` for
  every way a handler ends.
* `RpcTypeCorrect`: `RpcSpec => []RpcTypeOK`. `RpcTypeInv` adds that no connection
  is queued twice and that the pool is finite.
* `AnswersAreOwn`: if `Exclusive`, `RpcSpec => []OwnAnswer`. `AnswerInv` says where
  the one call is that a process waits for: lost, the last frame on the connection,
  in the handler, or answered by the only frame that comes back (`Unasked`, `Asked`,
  `Served`, `Finished`). All other requests of the process are calls of `exit`, which
  is answered by nobody. Without `Exclusive` two requests can be on the
  connection, and `OwnAnswer` fails (`swapped_answers`).

Only model-checked: the properties of the copies, and the refinement of the shell's
commands, when managers do fail between commands (`calm_front_end`); and liveness
(`CommandEnds`, `CallsReturn`), which is out of the prover's reach.

## Not modelled

* Option parsing and the config file: input.
* The single-threaded server (`threadpool=no`): a manager that pings itself in
  `replaceRM` would wait for itself; the configuration in the repository uses the
  pool.
* Operands that are not integers: `BankBalance` is not what `replica_main` serves,
  and its parsing is left out.
* Two threads that make the client for a manager at the same moment
  (`replicas.cpp` 143): the second destroys the client the first uses, and what
  follows is undefined.
* The end of the shell's input, at which its loop spins for ever, and lines that
  only print a message.
* The generated classes the program does not use, the tutorial, the unit tests.

## What could come next

1. `GroupRepair.tla`: `replaceRM` as a function of the managers' answers, against
   a reference (live members kept, filled to three, least loaded first), for
   more managers and loads than the interleaved model can have.
2. The copies of a machine with failures between commands, as in
   `calm_front_end`: `Data` would have to say what a list may hold when managers on
   it are gone, and that `replaceRM` restores three copies in the next request.
