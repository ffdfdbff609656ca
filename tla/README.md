# A TLA+ model of apb

apb runs commands and copies files on remote machines that can only dial out.
A **server** with a public port relays encrypted frames between **agents** (the
machines) and **controllers** (`apb exec`, `push`, `pull`, `stop`, `status`,
`doctor`). This directory models the parts in which threads, queues, timeouts
and failures meet, checks them with TLC and proves the central facts about
them with TLAPS. Paths below are relative to the repository.

## 1. Inventory

| Part | State | Operations | Hard because |
|---|---|---|---|
| Relay server, `src/server.rs` | `agents`, `routes`, `by_req`, each under its own lock; the route counter | register, relay a request or a continuation, forward a result, clean up after an agent or a controller | one thread per connection, several locks taken one after the other, sends outside the locks |
| Connection, `src/wire.rs` | socket, Noise session, a bounded channel to one writer thread, the counter `pending` | send, recv, flush, close | several sending threads, a full queue, a close that overtakes what was written |
| Agent, `src/agent.rs` | stop flag, one worker slot (inbox and cancel flag) per route | connect and reconnect, deliver, cancel, shut down | reconnects race the server's cleanup |
| exec worker | child process group, two pipes, two pumps | spawn, poll, kill, drain, report | exit, deadline, cancel and output race; background processes keep pipes open |
| push worker, `FileWriter` of `src/delta.rs` | list of targets, plans, the writer at work | manifest, plans, data, verify and rename | queues in both directions, files that change, errors at any frame |
| pull worker | the same with the roles exchanged | walk, read plans, stream | the same |
| Controller, `src/ctrl.rs` | reader thread and a bounded event channel; the state of one command | exec, push, pull, stop, status, doctor | deadlines, replies read at the wrong moment |
| Delta algorithm, `src/delta.rs` | none | block signatures, sliding-window match | boundaries |
| Codec, helpers, command line | none | encode, decode, parse, print | |

How they interact: an agent or a controller opens a connection and sends Hello. A
controller's RelayReq is delivered to an agent under a route id (RelayDeliver);
the agent's RelayResult frames carry that id back, and the server forwards them
to the controller. A final payload (ExecEnd, Error, TransferDone, Bye) removes the route.
The end of a controller's connection sends RouteCancel to the agent; the end of an
agent's connection answers its open routes with Error 410.

What makes each part correct: the relay delivers answers to those who asked, lets no
route outlive its controller, gives names back, and drops nothing in
silence; exec reports the command's own exit code and all its output, and leaves
no command running; push and pull publish the promised content or nothing, and
never block for ever; a delta spells the source, byte by byte; stop ends the agent and tells the truth
about it; and one busy agent does not bring the server to a halt.

## 2. Modules

| Module | Models |
|---|---|
| `Delivery` | abstract: what the server promises about requests, workers and the answers to them |
| `Relay` | the server, one step per critical section or send; implements `Delivery` |
| `Publish` | abstract: what push and pull promise about the destination and about success |
| `Transfer` | what push and pull share: four bounded queues, the server between them, plans |
| `Push` | one push: controller main thread and the agent's worker; implements `Publish` |
| `Pull` | one pull, with the roles exchanged; implements `Publish` |
| `Delta` | the delta transfer of one file: `produce_delta` and `FileWriter` on real byte sequences |
| `Queues` | several commands of one agent at the `agents` lock and the two queues of its connection |
| `Stop` | `apb stop` by several controllers, the agent's reader thread, another job, the writer thread and `pending` |
| `Exec` | one exec: process group, pipes, worker, pumps, the agent's connection, the controller |
| `MCRelay`, `MCPush`, `MCPull`, `MCDelta`, `MCQueues`, `MCStop`, `MCExec` | the instances TLC checks |
| `RelayProofs`, `StopProofs`, `ExecProofs`, `PushProofs`, `PullProofs`, `DeltaProofs`, `QueuesProofs` | theorems about the module each is named after, with their proofs |
| `TransferProofs` | lemmas about the two ways between controller and worker and the theorems about `Publish`; `PushProofs` and `PullProofs` extend it |

`Push` and `Pull` extend `Transfer`, which instantiates `Publish`. `Relay` instantiates `Delivery`; it is the server in detail with unbounded queues;
`Transfer` keeps of it what one request can see; `Queues` keeps the lock and the queues and drops the routes. `Push` and
`Pull` abstract what `Delta` computes to an arbitrary mix of Copy and Data frames, good or bad.

### Relay

The variables `agents`, `routes`, `byReq`, `nextRoute` are the fields of `State`. Each
connection has a program counter (`apc`, `cpc`) for the place its thread has reached
in `handle_connection`, `agent_loop`, `relay_to_agent` or a cleanup, and the locals that survive
from one lock to the next: `aframe` the result in hand, `aheld` and `cheld` entries cloned or
taken out of `routes`, `call` the locals of `relay_to_agent`. `LookupReq` and `LookupRoute` are two
actions because the code unlocks `by_req` before it locks `routes`; so are `AgentRmRoute` and
`AgentRmReq`. `cleanup_agent` nests `by_req` inside `routes`, which is one step here: no other
thread that holds `by_req` waits for `routes`.

The agents are reduced to `link`, `writer` (the server's writer thread for that connection),
`first` (the first frame they saw), `jobs` and `cancelled`. A frame handed to a live link
takes effect when it is sent; the queue to each agent is bounded in `Queues` only. `started`, `reached` and
`answered` are history: what was asked for, which requests a worker was started for, and what was answered.

Names are assigned to connections by the constant `NameOf`, so a reconnect is a second connection
with the name of the first.

`Delivery` knows no maps, locks, route ids or threads. A request is opened, then starts one worker on an agent that serves, misses
(it is sent to an agent that was not greeted or is gone), or is refused; the worker ends with a final payload, which is delivered to the
request it belongs to, or it ends unheard, which `Delivery` allows only if it was told to stop, its controller left or was told
already, or an agent of its name was lost. Workers are stopped only after their own controller left or their own agent was lost, and a
request that reached an agent is ended by an error (`Fail`) only after some agent connection was lost. "Lost" includes a connection whose name was
refused (400, 409). The refinement mapping at the end of `Relay`: an agent is lost when its `link` is down and serving after HelloOk; a request is
pending while its first frame is in the hands of `relay_to_agent`; the jobs are the workers and the cancelled ones those that are stopped; a final
payload has arrived while its thread is at `forward` with it; `answered` is who was told. All steps on `agents`, `routes` and `by_req` alone are
invisible.

### Transfer, Push and Pull

`up` is the controller's writer queue with the socket behind it, `inbox` the way from the server to
the worker, `down` the way back and `events` the channel the reader thread fills. A send is
enabled only while its queue has room, so a blocked thread is a disabled action. The manifest has directories, links and
files, numbered in this order. A file has `Size` units, each carried by one `Data` or `Copy` frame, and content is `good`
when it is what the manifest hashed. `Streams` lets the source be shorter, longer or different from that; a copy may
read a changed base.

The server takes its locks one after the other, as in `Relay`. `hand` is where `relay_to_agent` stands with the frame at the head of
`up`: `FindRoute` looks into `by_req` and `routes`, `FindAgent` and `ChooseAgent` into `agents`, `InsertRoute` writes the route, and `Deliver`,
`SendFails` or `AnswerError` are done with the frame. A continuation whose route is gone goes through `ChooseAgent` too; with exactly one agent
online it gets a new route (`stray`) and is dropped by that agent, otherwise it is answered by an Error. `LoseAgent` is the end of the
agent's connection and nothing else; `cleanup` follows the agent's thread on the server through `CleanName`, `CleanRoutes` and `Send410`. So a route may
be inserted after the scan that would have answered it. `LinkLost` is the end of the controller's own connection.

In `Push`, `DrainFeedback` is `check_send_feedback`: it throws away every event that is not an error, plans that
came early included. In `Pull` the controller reads nothing during phase 2 and writes files in phase 3; its end is the
agent's `TransferDone`, after which it does not count what it received. `WorkerQuits` is a worker that ends without a word:
`produce_delta` hands on a read that a signal interrupted with the kind of error that stands for a cancel, and `run_pull` believes it.

`Publish` says what both are for. Its variables are `dest` (what is at the destination of each entry) and `outcome`.
A file changes in one step to the announced content, or not; a link is removed and made again and may be lost in
between, as in the code; success is reported once, when everything is in place. The refinement mapping is the identity on `dest`,
and `Outcome` is computed from the program counter and the exit code. An agent may go on placing files after the controller
has given up, and the abstract `Place` allows that.

### Delta

A file is a sequence of small numbers. `Refill`, `TakeBlock`, `Slide` and `Finish` are the four ways through one iteration of the
loop of `produce_delta`, with `buf`, `pos`, `lit`, `eof`, `roll` named as there; the two refill branches of the code do the same
and are one action. A read returns any positive number of bytes that fits, and zero only at the end. `out` is the batcher: the
instructions sent, the pending literals and the open copy. The receiver's `FileWriter` applies instructions while they are produced. The
weak checksum is computed as in the code with a small modulus, so that it collides; the strong one is taken to be injective. Block sizes
have two tiers here and four in the code. Source and base may differ from what was announced and scanned.

### Queues

The threads that can hold each other up: `relay_to_agent` of a push and of a stop, `cleanup_ctrl` of an exec whose controller left,
`agent_loop`; at the agent `reader_loop`, the push worker and the output pump. `lock` is the mutex on `agents`. Critical sections that
do not block are one step that needs it free; `cleanup_ctrl` takes it in `CleanLock` and gives it back in `CleanSend`, when its
RouteCancel has found room. Controllers are assumed to read what they get.

### Stop

`Conn::send` is two steps (`SendAdd`, `SendPush`), the writer thread three (`WriterRecv`,
`WriterWrite`, `WriterSub`), because `pending` is changed outside the channel. `Flush` may happen at
any moment: it returns TRUE when the counter is zero and FALSE when the timeout is over first.
`Close` waits for BYE_GRACE, which is modelled by its purpose: within it the server reads a Bye that
was written. Nothing else about the grace period is assumed, and what is still
unread afterwards may be lost.

### Exec

`Write`, `ChildExits` and `LingerEnds` are the environment: the command and a background process
it may leave. `KillGroup` kills all but a process that left the group. `Poll`,
`TryWait` and `CheckDeadline` are the three checks of one poll round, with steps of everybody else in
between. `GraceOver` is PUMP_GRACE and may come at any moment of the drain loop. The queue stands for
everything between agent and controller. `LinkBreaks` ends the agent's connection with any part of the queue lost; then
`CancelAll` (the end of `run_once`) cancels the job, sends fail or go nowhere, and `CleanupAgent` of the server answers 410 if the route is
still there. `Deliver` keeps working, because the server and the controller are still connected.

## 3. Runs

| Run | Instance | Shows |
|---|---|---|
| `relay_ctrls` | 2 controllers with the same request id, 2 frames each, agents x and y (y not valid) | `RouteOwnerAlive`, `AnswersGoToRequester`, `CancelOnDisconnect`, `ContinuesOwnRoute` |
| `relay_reconnect` | 2 connections with one name, 1 controller, 2 frames, fair | `TypeOK`, `AgentsMatchThreads`, `NoSilentDrop`, `RouteInv`, `NameFreed`, `ImplementsDelivery` |
| `push` | a directory, a link, 2 files of 1 unit, 2 signature frames, queues of 1 (events: 2), a dying agent, failing disks, changing files, lost connections, fair | `TypeOK`, `PhasesDoNotBlock`, `ImplementsPublish`, `Terminates` |
| `pull` | the same with files of 2 units and an inbox and a way back of 2 | `TypeOK`, `PlanHonoured`, `PhasesDoNotBlock`, `ImplementsPublish`, `Terminates` |
| `delta` | all files of up to 5 bytes over {0, 1}, blocks of 2 and 3, checksum modulo 2, frames of 2, fair | `TypeOK`, `RollExact`, `StreamExact`, `FramesFit`, `OneCopyForPrefix`, `RefusedOnlyOnChange`, `Ends` |
| `queues` | queues of 4, a failing worker, a stop, fair | `TypeOK`, `OnlyWedge`, `LockReleased`, `CancelArrives` |
| `stop_safe` | 2 controllers, a job with 2 frames, queue 1, a link that may break, fair | `TypeOK`, `FlushMeansWritten`, `ObeyedNotRefused`, `StopEndsAgent` |
| `exec_job` | 1 chunk per stream, pipes 1, queue 1, a link that may break, fair | `TypeOK`, `OutputComplete`, `ExitFaithful`, `CommandStopped`, `WorkerEnds`, `ControllerTold` |

Every property has a mutant: an operator next to the definition it replaces, marked `mutant:`, under which
TLC finds the property violated.

### Where the code disagrees with what is said about it

| Run | Property | The counterexample |
|---|---|---|
| `relay_cancel` | `CancelOnDisconnect` | An agent reconnects after its old thread gave the name back but before that thread scanned `routes`. A request opens a route to the new connection; the old thread removes it because it looks for the name. The controller gets a 410, disconnects, and no RouteCancel is sent: the job runs on (`docs/协议.md` line 48). |
| `relay_hello` | `HelloOkFirst` | The agent is visible in `agents` before HelloOk is sent. A request sent in that window reaches the agent first, which takes it for a bad answer and disconnects. |
| `push_gridlock` | `NoGridlock` | The agent dies while a file is streamed. Each further frame is answered by an Error, nobody reads events between data frames, and controller, reader and server wait for each other (line 80). Pull has the same cycle in its phase 2. |
| `queues_wedge` | `NoWedge` | An exec job floods its output, its controller leaves, and a push worker on the same agent fails. `cleanup_ctrl` holds the lock on `agents` and waits for the queue to the agent; the agent's reader waits for the worker's inbox; the worker waits to send its Error; `agent_loop`, which would make room for it, waits for the lock in `touch_agent`. From then on no request of any controller is relayed (`src/agent.rs` line 642, `docs/协议.md` line 80). |

`relay_ctrls` checks `CancelOnDisconnect` for agents with names of their own, where it holds: the
violation needs the reconnect. `Terminates` of `Push` and `Pull` and the two leads-to properties of `Queues` name the one state in which
they do not hold, so that these runs show there is no other; `OnlyWedge` says the same of `Queues` as an invariant.

Smaller differences met on the way, which no run is about:

- A frame that arrives after the final payload of its request opens a second route, perhaps to another agent, which
  drops the frame (line 45 speaks of one route per request). `ChooseAgent` of `Relay` and of `Transfer` does this.
- A request whose route is inserted after `cleanup_agent` has scanned `routes` is never answered by the server: its first frame went into a
  connection that is gone. Controllers find out by their deadlines, an hour for a pull. `NoSilentDrop` states it as its exception, and
  `Terminates` of `Pull` rests on the deadline there.
- `produce_delta` of a pull that meets an interrupted read ends the worker without a final answer (`src/agent.rs` line 1364); again only the
  controller's deadline ends the pull.
- The feedback check after ManifestEnd throws away a `skip` plan that has already arrived, so the file is sent in full (line 96).
  `Push` does this too; the file that results is the right one, which is what `ImplementsPublish` shows.
- The deadline of `stop` nearly always passes inside `recv_event`, whose error makes it exit 3, not 5 (line 171). `exec`
  has the same shape in `src/ctrl.rs` lines 174-202.

### Bounds

All bounds are constants. Two controllers are enough for one to refill what another removed;
two connections of one name are enough for a reconnect, and `relay_to_agent` handles one frame at a
time, so two frames give an opening and a continuation. `MaxFrames` bounds what a controller sends. The theorems of section 4
hold for all values of the constants; the bounds matter for liveness and for the counterexamples. In `Push` and `Pull`, two files
give a file that follows another one; two signature frames give a partial signature list, and
the sources yield from `Size - 1` to `Size + 1` units, so that even with one unit a stream may be empty, right or too long; `Pull` has two
units for a file that is partly there. Queue capacities of one and two are the worst case for blocking;
the real ones (the WRITE_QUEUE of `wire.rs`, 128 for an inbox) only delay it. In `Delta`, five bytes give two full blocks and a
short one, a window that crosses a refill, and a literal longer than a frame; the modulus 2 makes different blocks share a checksum. One chunk per
stream in `Exec` fills the pipe and the queue.

Deadlock is checked in every run but `queues`: the modules have a `Finished` step for the states in which all
commands and connections have come to their end, and nothing else may stop. `Queues` can stop, in the wedge that
`queues_wedge` shows, and after the agent has closed its connection.

### Fairness

- Relay: an agent's thread keeps running where it needs nothing but `routes` and `by_req`, which nobody holds while waiting (`AgentRuns`), and a
  cancelled worker ends, so that a broken link holds no endless supply of results. Nothing is assumed of its sends, which a controller that
  does not read blocks without a limit, nor of the lock on `agents`, which `cleanup_ctrl` may hold for ever (`queues_wedge`). `NameFreed` takes both
  as conditions, for the agent it is about: its sends complete (`SendsComplete`) and it is granted the lock (`LockGranted`). Agents and
  controllers may stay silent and connected for ever, and jobs may run for ever.
- Push: every thread keeps running, and the three waits end at their deadlines (15 s, 60 min, 30 min in the code): a swallowed
  PlanEnd leaves the controller nothing else. No fairness for failures.
- Pull: every thread keeps running. The deadlines of an hour and a day are fair only where nobody is left to answer (`Unanswered`):
  nothing is under way, the route is still there, and either the agent's cleanup is over or the worker has ended without a word. In every other
  state the pull has to end without them. Without either half of `Unanswered` TLC finds a pull that never ends.
- Delta: the two loops keep running.
- Queues: threads that can run do, weakly fair. A reply that waits for room competes with an endless flood of output, so `ReaderBye` and
  `WorkerError` are strongly fair: the channel (`std::sync::mpsc::sync_channel`) queues its blocked senders and wakes them. Nobody is
  assumed to fail, stop or leave.
- Stop: the threads of agent and server keep running and `flush` ends, by its own timeout. Controllers are not
  assumed to do anything. A writer stuck on a peer that never reads again is not covered.
- Exec: worker, pumps, delivery, both cleanups and the grace period make progress. The deadline is not assumed to come, as there may
  be none. The command owes nothing: it may run, and a background process may hold the pipes, for ever.

## 4. Proofs

Every safety invariant that a passing run checks is a theorem for all values of the constants, and so are
the three refinements. The assumptions are those the modules state: sets and naturals where the code has them, capacities and
sizes that are not zero. Each proof has one shape. An inductive invariant, the type invariant among its parts, holds
initially (`...Init`); a lemma per part says that a step keeps it (`...Step`, one case per action or per kind of step); one theorem
puts them together; the properties follow from it.

| Module | Inductive invariant | Theorems |
|---|---|---|
| `Relay` | `TypeOK`, `RouteInv`; `RemoveInv`, `DropInv`, `LinkInv`, `CarryInv`, `AttendInv`; `CancelInv`; `DeliverInv` | `RelaySafe`, `RelayTypeOK`, `RelayNames`, `RelayRoutesEnd`, `RelayAnswers`, `RelayContinues`, `RelayNoSilentDrop`, `RelayCancels`, `RelayRefines`, `RelayOneWorker`, `RelayStopsForReason`, `RelayNoFalseEnd` |
| `Stop` | `StopInv` | `StopSafe`, `StopTypeOK`, `StopFlush`, `StopObeyed` |
| `Exec` | `ExecInv` | `ExecInvariant`, `ExecTypes`, `ExecOutputComplete`, `ExecExitFaithful` |
| `Publish` (in `TransferProofs`) | `PublishInv` | `PublishSuccess`, `PublishKeeps` |
| `Push` | `PushInv` | `PushInvariant`, `PushTypes`, `PushPhasesDoNotBlock`, `PushRefines`, `PushSucceeds`, `PushKeeps` |
| `Pull` | `PullInv` | `PullInvariant`, `PullTypes`, `PullHonoursPlans`, `PullPhasesDoNotBlock`, `PullRefines`, `PullSucceeds`, `PullKeeps` |
| `Queues` | `QueuesInv` | `QueuesInvariant`, `QueuesTypes`, `QueuesOnlyWedge`, `QueuesWedgeStays` |
| `Delta` | `DeltaInv`; `PrefixInv` | `DeltaInvariant`, `DeltaTypes`, `DeltaFramesFit`, `DeltaRefused`, `DeltaRollExact`, `DeltaStreamExact`, `DeltaOneCopy` |

### Relay

`AnswersGoToRequester` is not inductive. A thread holds a clone of a route entry and a job refers to it by its id,
while the entry may be removed and others inserted. `RouteInv` says what keeps the id meaningful:

- `IdsFresh`: all ids in use, in maps, clones, jobs and locals, are below the counter, so a new route collides with none;
- `IdsUnique`: two entries with the same id, wherever they are, are the same entry;
- `JobsAgree`, `ByReqAgrees`, `CallsAgree`: whoever refers to an entry by id belongs to its request and agent;
- `LocalsSet`: a thread's locals are set when it reaches the step that uses them;
- `AgentsMatchThreads` and `RouteOwnerAlive`, which are properties in their own right.

`RelayInit` and the five step lemmas (`TypeStep`, `AgentsStep`, `OwnerStep`, `LocalsStep`, `IdsStep`, one case per action)
give `RelaySafe`; `RelayTypeOK`, `RelayNames`, `RelayRoutesEnd`, `RelayAnswers` and `RelayContinues` follow from it.

`NoSilentDrop` needs to know who may remove an entry. `DropInv` says that a request which was started is answered, has its entry in
`routes`, or is on the list of a `cleanup_agent` that is about to answer it. `RemoveInv` says that a call that
gives up its route removes an entry of its own request. For a request that a worker was started for, `AttendInv` says more: its entry is about
to be answered, or is in `routes` while some thread of its agent's name has its scan still to come. It rests on `LinkInv` (the server's
thread of a connection that is up is not yet cleaning up, so that a frame which reaches a worker does so before the scan) and on `CarryInv` (the route
a call carries is in the table, or its request is answered or going to be).

`CancelOnDisconnect` needs `CancelInv`. Its centre is `RoutedInv`: a running job that is not cancelled has its route in the table or in the hands
of the `cleanup_ctrl` that is about to cancel it. The other parts exclude the ways to lose that route: a first frame is sent while its route is in the
table or its agent is gone (`StartInv`, `SendInv`), a job ends with its link (`LinkInv`, `JobsLive`), a final payload is in hand only
when its job has ended (`FinalInv`), and a call gives up only routes of cancelled jobs (`RemovedInv`). The theorem `RelayCancels` has the hypothesis
`NamesDistinct`: no two agent connections share a name. The run `relay_cancel` shows that without it the property fails.

`RelayRefines` has no such hypothesis. The mapping hides everything but requests, jobs and answers, so three kinds of steps are hard to
map, and `DeliverInv` says why each is one of `Delivery`:

- A worker whose final payload finds no route. `Delivery` lets it vanish only if nobody misses it. `GoneInv`: a job without a route belongs to a request
  that was answered, to a controller in `cleanup_ctrl` or beyond, or to a name of which an agent is lost. `SendInv` and `KnownInv` say it of the calls
  that insert, carry and give up routes: the names they use are registered, or were and their agent is lost.
- An error for a continuation (410, or 404 after a stale `by_req` entry sent it to `choose_agent`). `CalmInv`: while all agents are connected,
  `by_req` leads every unanswered request to its route from the moment its first frame is sent, so a continuation finds it and no
  error is sent. `RmReqInv` says that the `by_req` half of `remove_route` touches answered requests only.
- A worker that ends. It takes its worker in `Delivery` with it and no other: `OneJob`, no request has two jobs, running or in hand.

Then one lemma per group of actions maps its steps (`HelloRefines` to `LeaveRefines`), and `RelayStepRefines` joins them. `DeliverySafe`
proves the three promises of `Delivery` (`OneWorker`, `StoppedForReason`, `NoFalseEnd`) of it alone, and the refinement
carries them to the server.

### Stop

`StopSafe` holds for any number of controllers, any queue capacity and any amount of other
output. `PendingCovers` is the heart of it: the counter is at least the number of frames between `fetch_add` and
`fetch_sub`, wherever they are. `ByeOnItsWay` and `FlushedBye` follow the Bye from the queue through the writer and
the socket to the server; `UpMeansQuiet` and `ClosedAtExit` say that nothing else ends the connection. From it follow
`StopTypeOK` (the counter never underflows), `StopFlush` and `StopObeyed`.

### Exec

`Conserved` is the heart of `ExecOutputComplete`. For each stream there is a tally `n` along the queue, `n[i]` being what the controller will have printed
once it has the first `i` frames. Nothing is printed that was not written; while the connection is up every chunk is in the pipe, in the pump's hand, in the queue
or printed; and unless the job was cancelled ExecEnd comes after the last chunk. `TallyAppend`, `TallyTail`, `TallyCut` and `TallyEnd` say
how a send, a delivery, a lost tail of the queue and an ExecEnd change it. `EndInv` says that an ExecEnd on its way carries the child's own code or its deadline, and that
the pumps were done when it was sent, which is where the drain loop matters; `WorkerInv` relates the worker's place, the pumps and the
state of the child; `EndedInv` keeps what the controller was told true afterwards.

### Publish, Push and Pull

The end of `TransferProofs` proves, for any sets of files, links and directories, what the abstract specification is worth:
`PublishSuccess` (after success every entry is in place) and `PublishKeeps` (only a link can be missing that was there before).
`SuccessMeansPlaced` is inductive as it stands, because nothing is enabled after success.

Both transfers have four queues in a row, but the order of frames does not depend on where the server stands. So the proofs reason about two
paths, `ToWorker == inbox \o up` and `ToCtrl == events \o down`: handing a frame on leaves a path as it is, a send appends, a receive
takes the head, for any capacity (`PathMoves`). Lemmas of `TransferProofs` say how these three change a statement about order
in a path: a frame is ahead of another one, a unit lies within its file's FileStart and FileEnd, entries are listed in order.
What the server's threads do meanwhile is one invariant, `ServerInv`, and three lemmas: `RelayMoves` (a step of `relay_to_agent` leaves both paths of a
request that is `Served` as they are, and otherwise may add an Error), `CleanupMoves` and `LosesMoves`. `RouteInv` of Push and Pull says that a
worker that is not over is served.

`PushInv` says that the frames under way continue what the worker has received, and `PullInv` the same of the way back:

- `ListInv`: the manifest under way goes on at the entry the receiver waits for;
- `FrameInv`: a FileEnd under way finds the receiver writing that file, because its FileStart is ahead or was read and no other comes between;
- `DestInv`, `DoneInv`: nothing bad is ever in place, and each entry is new at the destination or the frame that makes it is under way ahead of ManifestEnd or of the final frame;
- `SkipInv` of Push: a file whose plan is `skip` is in place already, wherever the plan is;
- `PhaseInv`, `VerdictInv` of Push: each end enters a phase after the frame that ends the one before it, which gives `PushPhasesDoNotBlock`, and the worker has nothing left to do when success is reported;
- `PlanInv` of Pull: a plan is held by both sides or under way to the agent, ahead of PlanEnd, which gives `PullHonoursPlans`;
- `PhaseInv` of Pull: while the controller sends its plans and the agent lives, the agent is in its own reading phase and nothing it
  sent is still under way, which gives `PullPhasesDoNotBlock`.

Both proofs first describe steps by what they do to the two paths (`MainMoves`, `WorkerMoves` and `Moves` in Push; `CtrlSends`, `Heard`
and `Told` in Pull), so that a part of the invariant is shown once per kind of step and not once per action.
`PushRefines` and `PullRefines` then show that initial states map to initial states and that every step maps to a step of `Publish` or a
stutter. The theorems about `Publish` are stated for the instance in `Transfer`, so that they carry over: `PushSucceeds`, `PushKeeps`,
`PullSucceeds`, `PullKeeps`.

### Delta

`StreamInv` names the cuts: numbers that divide the source at the borders of the instructions sent, the pending literal and the
open copy, each of which carries the bytes between its two cuts. `BufInv` says which part of the source the buffer holds,
`ReceiverInv` that the writer has written the source up to a cut; `DoneInv` closes the account at the end, and `Constant` says what
does not change. From it come the index bounds (`DeltaTypes`), `DeltaFramesFit` and `DeltaRefused`, for any contents, block sizes, frame and buffer lengths, reads and
modulus. The strong checksum is injective, as in the model.

Three properties speak of folds over sequences. A fold of the community modules is a recursive function, so no induction theorem with an
operator as a parameter is needed: `Induction` states, from the well-foundedness of the naturals, that a *set* of numbers that has 0 and is closed
under successor has all of them; `FoldsExist` and `AlongPrefixes` use it to show that a fold along a sequence satisfies its recursion. On them rest

- `DeltaRollExact`: `RollIsRolling` shows that the two sums, each taken modulo `WeakMod`, change by a slide as `Rolling::roll` changes them;
- `DeltaStreamExact`: `SentIsSource` shows that the concatenation of the instructions is the source up to the last cut;
- `DeltaOneCopy`: `PrefixInv` says that, when the source begins with the base, the blocks scanned so far are one copy from 0, and that past
  the last signed block only literals follow unless a whole block was added.

### Queues

`QueuesInv` says who may be where: the lock is held exactly while `cleanup_ctrl` sends its cancel,
and the connection only goes down when the reader has stopped and its workers are gone. `QueuesOnlyWedge` is an argument about who waits for whom: if the holder of the lock, `agent_loop`,
the agent's reader and its worker all wait, both queues are full and the cycle is closed. `QueuesWedgeStays` shows that no step opens it again.

### Only model-checked

Every liveness property (`NameFreed`, `Terminates` of Push and Pull, `StopEndsAgent`, `CommandStopped`, `WorkerEnds`, `ControllerTold`, `Ends`,
`LockReleased`, `CancelArrives`), because the prover does not handle fairness and ENABLED; and the counterexamples, each of which is a run.

## 5. Not modelled

- The Noise handshake and encryption (`snow` crate), keepalive and socket options: frames are reliable and in order until the link breaks.
- The byte encoding of frames (`src/proto.rs`) and frames that cannot be decoded.
- `apb status`, `apb doctor`, `ListReq`, Ping and Pong, the last-seen time: one reply, no effect on routing.
- The command line, configuration, JSON output, output truncation (`src/main.rs`, `src/util.rs`, parts of `src/ctrl.rs`) and `runApb.sh`.
- Poisoned locks: a thread that panics while it holds one.
- File modes, parent directories and the names of temporary files; two transfers to one destination at a time.
- The answer to a rejected Hello, which is closed without a flush, and the Error with id 0 for a request that cannot be decoded: both
  matter only to a log line or to peers of different versions.
- `DeltaStats` and the other counters of the summary a transfer prints.
- A read error on a command's stdout or stderr (Exec has only their end), and the server's own `pending` counter of queued frames,
  which nothing on the server reads: only the agent flushes.
- The loss of the controller's own connection in Stop and Exec, where it is the same as giving up.

## 6. Plan

Done: every module of section 2, and theorems for every safety property and refinement that a run checks. Next, in this order:

1. Two writers of one destination, for the temporary names (`tmp_path` in `src/agent.rs`).
2. The server's queues to controllers in `Queues`: a controller that does not read holds up `agent_loop`.
