------------------------------ MODULE Delivery ------------------------------
(***************************************************************************)
(* What the relay server promises to those who use it, whatever maps,      *)
(* locks and route ids it uses.  A request of a controller starts at most  *)
(* one worker, on an agent that is connected; the worker's final payload   *)
(* ends that request and no other; a worker is told to stop only for a     *)
(* reason; an error is sent only where a request or an agent fell short.   *)
(***************************************************************************)
CONSTANTS Agents, Ctrls, ReqIds, NameOf

VARIABLES
  agent,     \* each agent connection: new, serving or lost
  present,   \* the controllers that are connected
  opened,    \* the requests received
  pending,   \* those on their way to an agent
  workers,   \* the workers that run, each with its agent and its request
  stopped,   \* the workers told to stop
  finals,    \* the requests whose worker's final payload has arrived
  told       \* the requests whose controller was told that they are over

vars == <<agent, present, opened, pending, workers, stopped, finals, told>>

Requests == Ctrls \X ReqIds

Lost(n) == \E a \in Agents : NameOf[a] = n /\ agent[a] = "lost"
AllConnected == \A a \in Agents : agent[a] # "lost"

Init ==
  /\ agent = [a \in Agents |-> "new"]
  /\ present = Ctrls
  /\ opened = {} /\ pending = {} /\ workers = {} /\ stopped = {} /\ finals = {} /\ told = {}

(* a controller opens a request; it does so once *)
Open(r) ==
  /\ r[1] \in present /\ r \notin opened
  /\ opened' = opened \cup {r} /\ pending' = pending \cup {r}
  /\ UNCHANGED <<agent, present, workers, stopped, finals, told>>

(* the request reaches an agent that serves ... *)
Start(r, a) ==
  /\ r \in pending /\ agent[a] = "serving"
  /\ pending' = pending \ {r}
  /\ workers' = workers \cup {[agent |-> a, req |-> r]}
  /\ UNCHANGED <<agent, present, opened, stopped, finals, told>>

(* ... or one that was not greeted yet or is gone ... *)
Miss(r) ==
  /\ r \in pending /\ \E a \in Agents : agent[a] # "serving"
  /\ pending' = pending \ {r}
  /\ UNCHANGED <<agent, present, opened, workers, stopped, finals, told>>

(* ... or none. *)
Refuse(r) ==
  /\ r \in pending
  /\ pending' = pending \ {r} /\ told' = told \cup {r}
  /\ UNCHANGED <<agent, present, opened, workers, stopped, finals>>

(* a worker ends and its final payload arrives *)
Finish(w) ==
  /\ w \in workers
  /\ workers' = workers \ {w} /\ stopped' = stopped \ {w}
  /\ finals' = finals \cup {w.req}
  /\ UNCHANGED <<agent, present, opened, pending, told>>

(* a worker ends unheard, which nobody misses: it was told to stop, or its   *)
(* controller is gone or was told already, or an agent of its name was lost  *)
(* and an error is on its way                                                *)
Vanish(w) ==
  /\ w \in workers
  /\ w \in stopped \/ w.req[1] \notin present \/ w.req \in told \/ Lost(NameOf[w.agent])
  /\ workers' = workers \ {w} /\ stopped' = stopped \ {w}
  /\ UNCHANGED <<agent, present, opened, pending, finals, told>>

Deliver(r) ==
  /\ r \in finals
  /\ finals' = finals \ {r} /\ told' = told \cup {r}
  /\ UNCHANGED <<agent, present, opened, pending, workers, stopped>>

(* an error for a request that reached an agent, after the loss of one *)
Fail(r) ==
  /\ r \in opened /\ ~AllConnected
  /\ told' = told \cup {r}
  /\ UNCHANGED <<agent, present, opened, pending, workers, stopped, finals>>

Leave(c) ==
  /\ present' = present \ {c}
  /\ UNCHANGED <<agent, opened, pending, workers, stopped, finals, told>>

(* workers of a controller that is gone are told to stop *)
Cancel(W) ==
  /\ \A w \in W : w \in workers /\ w.req[1] \notin present
  /\ stopped' = stopped \cup W
  /\ UNCHANGED <<agent, present, opened, pending, workers, finals, told>>

Greet(a) ==
  /\ agent[a] = "new"
  /\ agent' = [agent EXCEPT ![a] = "serving"]
  /\ UNCHANGED <<present, opened, pending, workers, stopped, finals, told>>

(* an agent that loses its connection stops its workers itself *)
Lose(a) ==
  /\ agent[a] # "lost"
  /\ agent' = [agent EXCEPT ![a] = "lost"]
  /\ stopped' = stopped \cup {w \in workers : w.agent = a}
  /\ UNCHANGED <<present, opened, pending, workers, finals, told>>

Next ==
  \/ \E r \in Requests : Open(r) \/ Miss(r) \/ Refuse(r) \/ Deliver(r) \/ Fail(r)
  \/ \E r \in Requests, a \in Agents : Start(r, a)
  \/ \E w \in workers : Finish(w) \/ Vanish(w)
  \/ \E W \in SUBSET workers : Cancel(W)
  \/ \E c \in Ctrls : Leave(c)
  \/ \E a \in Agents : Greet(a) \/ Lose(a)

Spec == Init /\ [][Next]_vars

----------------------------------------------------------------------------
(* A request is in one place: it is on its way, or one worker runs for it,   *)
(* or the final payload of its worker is there.  No request runs twice.      *)
OneWorker ==
  /\ \A v, w \in workers : v.req = w.req => v = w
  /\ \A w \in workers : w.req \notin pending \cup finals
  /\ pending \cap finals = {}

(* A worker is stopped only after its controller left or its agent was lost: *)
(* no other request, and no other agent's end, interrupts it.                *)
StoppedForReason ==
  \A w \in stopped : w.req[1] \notin present \/ agent[w.agent] = "lost"

(* While every agent connection lasts, the end a controller is told of is    *)
(* the refusal of a request that reached no agent, or the final payload of   *)
(* the request's own worker.                                                 *)
NoFalseEnd ==
  [][AllConnected => told' \ told \subseteq pending \cup finals]_vars

============================================================================
