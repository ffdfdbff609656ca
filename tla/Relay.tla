------------------------------- MODULE Relay -------------------------------
(***************************************************************************)
(* The relay server of apb (src/server.rs) at the granularity of its       *)
(* locks: one step is one critical section on `agents`, `routes` or        *)
(* `by_req`, or one send on a connection.                                  *)
(*                                                                         *)
(* An accepted connection is served by a thread of its own.  An agent      *)
(* connection registers under the name in its Hello, then forwards each    *)
(* RelayResult to the controller that owns the route.  A controller        *)
(* connection hands each RelayReq to relay_to_agent, which continues the   *)
(* route of (controller, request id) or opens a new one.  Both clean the   *)
(* shared maps up when their peer goes away.                               *)
(*                                                                         *)
(* The far ends are reduced to what the server can observe: whether the    *)
(* link is up, which frame an agent saw first, and the jobs it runs.  A    *)
(* frame handed to a live link takes effect at the agent when it is sent   *)
(* (the queue of one connection is FIFO and its capacity is not modelled). *)
(***************************************************************************)
EXTENDS Naturals, FiniteSets

CONSTANTS
  AConns,       \* connections opened by agents
  CConns,       \* connections opened by controllers
  Names,        \* names agents announce
  ValidNames,   \* those valid_name accepts
  NameOf,       \* the name announced on each agent connection
  ReqIds,       \* request ids a controller uses on its connection
  MaxFrames,    \* bound: RelayReq frames one controller sends
  NoConn,       \* no connection (an absent map entry)
  NoName        \* the empty target

ASSUME NameOfAssumption == NameOf \in [AConns -> Names]
ASSUME ValidAssumption == ValidNames \subseteq Names
ASSUME NoConnAssumption == NoConn \notin AConns
ASSUME NoNameAssumption == NoName \notin Names
ASSUME MaxFramesAssumption == MaxFrames \in Nat

VARIABLES
  \* State, shared by all threads (server.rs)
  agents,     \* name -> the connection registered under it, or NoConn
  routes,     \* the live RouteEntry records, each with its key
  byReq,      \* (controller, request id) -> route, 0 when absent
  nextRoute,  \* the next route id
  \* the thread of each agent connection
  apc,        \* where it is
  aframe,     \* the RelayResult in hand: job it came from, final or not
  aheld,      \* the entries it has cloned or taken out of `routes`
  \* the thread of each controller connection
  cpc,
  call,       \* locals of relay_to_agent
  cheld,      \* the entries it has taken out of `routes`
  frames,     \* RelayReq frames received so far
  \* what the peers are doing
  link,       \* agent connection up or down
  writer,     \* its writer thread on the server, up or dead
  first,      \* first frame the agent saw: none yet, HelloOk, or another
  jobs,       \* worker threads of the agents
  cancelled,  \* those whose cancel flag is set
  reached,    \* requests a worker was started for
  started,    \* requests each controller has sent the first frame of
  answered    \* requests a final payload or an Error was sent for

shared == <<agents, routes, byReq, nextRoute>>
athread == <<apc, aframe, aheld>>
cthread == <<cpc, call, cheld, frames, started>>
peers == <<link, writer, first, jobs, cancelled, reached>>
vars == <<shared, athread, cthread, peers, answered>>

APcs == {"accept", "hello", "loop", "forward", "rmroute", "rmreq",
         "cleanagents", "cleanroutes", "doomed", "closed"}
CPcs == {"loop", "byreq", "route", "contconn", "choose", "getconn",
         "insroute", "insreq", "send", "rmroute", "rmreq", "err410",
         "cleanroutes", "cancel", "closed"}

Entries == [id : Nat, ctrl : CConns, agent : Names, req : ReqIds]
(* a worker thread of an agent: the route it serves, and who asked for it *)
Jobs == [conn : AConns, route : Nat, ctrl : CConns, req : ReqIds]
Calls == [req : ReqIds, kind : {"start", "cont"}, target : Names \cup {NoName},
          route : Nat, name : Names \cup {NoName}, conn : AConns \cup {NoConn}]
Results == [job : Jobs, kind : {"data", "final"}]
NoCall == [kind |-> "none"]
NoResult == [kind |-> "none"]

(* mutant: first_route_id without `.max(1)` *)
FirstRouteIdZero == 0

(* first_route_id: some positive number; 0 is reserved *)
FirstRouteId == 1

(* HashMap::get and HashMap::remove on `routes` *)
RouteOf(id) == {e \in routes : e.id = id}
WithoutRoute(id) == {e \in routes : e.id # id}

(* by_req.remove for every entry of a set of removed routes *)
Unlink(es) == [k \in CConns \X ReqIds |->
                 IF \E e \in es : <<e.ctrl, e.req>> = k THEN 0 ELSE byReq[k]]

Registered == {n \in Names : agents[n] # NoConn}

(* choose_agent: the target, or the only agent when none is named *)
Chosen(target) ==
  IF target # NoName THEN Registered \cap {target}
  ELSE {n \in Registered : Registered = {n}}

(* run_once takes the first frame as the answer to its Hello *)
FirstFrame(a, f) ==
  IF link[a] = "up" /\ first[a] = "none" THEN [first EXCEPT ![a] = f] ELSE first

(* mutant: a stray continuation starts a worker *)
DeliveredAny(a, job, kind) ==
  IF link[a] = "up" /\ first[a] = "helloOk" THEN jobs \cup {job} ELSE jobs

(* reader_loop on a RelayDeliver for a route without a worker: a request    *)
(* starts one, a stray continuation is dropped.                              *)
Delivered(a, job, kind) ==
  IF link[a] = "up" /\ first[a] = "helloOk" /\ kind = "start"
    THEN jobs \cup {job} ELSE jobs

JobsOn(a) == {j \in jobs : j.conn = a}

Init ==
  /\ agents = [n \in Names |-> NoConn]
  /\ routes = {}
  /\ byReq = [k \in CConns \X ReqIds |-> 0]
  /\ nextRoute = FirstRouteId
  /\ apc = [a \in AConns |-> "accept"]
  /\ aframe = [a \in AConns |-> NoResult]
  /\ aheld = [a \in AConns |-> {}]
  /\ cpc = [c \in CConns |-> "loop"]
  /\ call = [c \in CConns |-> NoCall]
  /\ cheld = [c \in CConns |-> {}]
  /\ frames = [c \in CConns |-> 0]
  /\ link = [a \in AConns |-> "up"]
  /\ writer = [a \in AConns |-> "up"]
  /\ first = [a \in AConns |-> "none"]
  /\ jobs = {}
  /\ cancelled = {}
  /\ reached = {}
  /\ started = [c \in CConns |-> {}]
  /\ answered = {}

----------------------------------------------------------------------------
(* The thread of an agent connection: handle_connection, agent_loop and      *)
(* cleanup_agent.                                                            *)

(* Hello with an invalid name (400) or a name in use (409): the connection  *)
(* is closed and nothing is registered.                                     *)
HelloReject(a) ==
  /\ apc[a] = "accept"
  /\ ~(NameOf[a] \in ValidNames /\ agents[NameOf[a]] = NoConn)
  /\ apc' = [apc EXCEPT ![a] = "closed"]
  /\ link' = [link EXCEPT ![a] = "down"]
  /\ UNCHANGED <<shared, aframe, aheld, cthread, writer, first, jobs, cancelled, reached, answered>>

(* mutant: no check for a name in use *)
RegisterOver(a) ==
  /\ apc[a] = "accept"
  /\ NameOf[a] \in ValidNames
  /\ agents' = [agents EXCEPT ![NameOf[a]] = a]
  /\ apc' = [apc EXCEPT ![a] = "hello"]
  /\ UNCHANGED <<routes, byReq, nextRoute, aframe, aheld, cthread, peers, answered>>

Register(a) ==
  /\ apc[a] = "accept"
  /\ NameOf[a] \in ValidNames
  /\ agents[NameOf[a]] = NoConn
  /\ agents' = [agents EXCEPT ![NameOf[a]] = a]
  /\ apc' = [apc EXCEPT ![a] = "hello"]
  /\ UNCHANGED <<routes, byReq, nextRoute, aframe, aheld, cthread, peers, answered>>

(* HelloOk goes out after the lock on `agents` is released *)
SendHelloOk(a) ==
  /\ apc[a] = "hello"
  /\ apc' = [apc EXCEPT ![a] = "loop"]
  /\ first' = FirstFrame(a, "helloOk")
  /\ UNCHANGED <<shared, aframe, aheld, cthread, link, writer, jobs, cancelled, reached, answered>>

(* A RelayResult arrives.  The frame may have been sent before the link went *)
(* down or before its job was cancelled.  A final one ends its job.  Results *)
(* of a route the server no longer knows are dropped.                        *)
AgentRecvResult(a) ==
  /\ apc[a] = "loop"
  /\ \E j \in JobsOn(a), kind \in {"data", "final"} :
       /\ jobs' = IF kind = "final" THEN jobs \ {j} ELSE jobs
       /\ cancelled' = cancelled \cap jobs'
       /\ IF RouteOf(j.route) = {}
            THEN UNCHANGED athread
            ELSE /\ apc' = [apc EXCEPT ![a] = "forward"]
                 /\ aframe' = [aframe EXCEPT ![a] = [job |-> j, kind |-> kind]]
                 /\ aheld' = [aheld EXCEPT ![a] = RouteOf(j.route)]
  /\ UNCHANGED <<shared, cthread, link, writer, first, reached, answered>>

(* e.ctrl_tx.send, outside every lock *)
AgentForward(a) ==
  /\ apc[a] = "forward"
  /\ IF aframe[a].kind = "final"
       THEN /\ apc' = [apc EXCEPT ![a] = "rmroute"]
            /\ answered' = answered \cup {<<e.ctrl, e.req>> : e \in aheld[a]}
            /\ UNCHANGED aframe
       ELSE /\ apc' = [apc EXCEPT ![a] = "loop"]
            /\ aframe' = [aframe EXCEPT ![a] = NoResult]
            /\ UNCHANGED answered
  /\ aheld' = [aheld EXCEPT ![a] = {}]
  /\ UNCHANGED <<shared, cthread, peers>>

(* remove_route after a final payload: `routes` first ... *)
AgentRmRoute(a) ==
  /\ apc[a] = "rmroute"
  /\ aheld' = [aheld EXCEPT ![a] = RouteOf(aframe[a].job.route)]
  /\ routes' = WithoutRoute(aframe[a].job.route)
  /\ apc' = [apc EXCEPT ![a] = "rmreq"]
  /\ UNCHANGED <<agents, byReq, nextRoute, aframe, cthread, peers, answered>>

(* ... then, under its own lock and only if the route was there, `by_req` *)
AgentRmReq(a) ==
  /\ apc[a] = "rmreq"
  /\ byReq' = Unlink(aheld[a])
  /\ aheld' = [aheld EXCEPT ![a] = {}]
  /\ aframe' = [aframe EXCEPT ![a] = NoResult]
  /\ apc' = [apc EXCEPT ![a] = "loop"]
  /\ UNCHANGED <<agents, routes, nextRoute, cthread, peers, answered>>

(* conn.recv fails: leave agent_loop *)
AgentRecvErr(a) ==
  /\ apc[a] = "loop"
  /\ link[a] = "down"
  /\ apc' = [apc EXCEPT ![a] = "cleanagents"]
  /\ UNCHANGED <<shared, aframe, aheld, cthread, peers, answered>>

(* mutant: agent_loop ends without the removal from `agents` *)
AgentCleanAgentsNot(a) ==
  /\ apc[a] = "cleanagents"
  /\ apc' = [apc EXCEPT ![a] = "cleanroutes"]
  /\ UNCHANGED <<shared, aframe, aheld, cthread, peers, answered>>

(* cleanup_agent, first lock: unregister unless another connection took over *)
AgentCleanAgents(a) ==
  /\ apc[a] = "cleanagents"
  /\ agents' = IF agents[NameOf[a]] = a
                 THEN [agents EXCEPT ![NameOf[a]] = NoConn] ELSE agents
  /\ apc' = [apc EXCEPT ![a] = "cleanroutes"]
  /\ UNCHANGED <<routes, byReq, nextRoute, aframe, aheld, cthread, peers, answered>>

(* mutant: the removed routes are not collected for the 410 answers *)
AgentCleanRoutesSilent(a) ==
  /\ apc[a] = "cleanroutes"
  /\ LET doomed == {e \in routes : e.agent = NameOf[a]}
     IN /\ routes' = routes \ doomed
        /\ byReq' = Unlink(doomed)
  /\ apc' = [apc EXCEPT ![a] = "doomed"]
  /\ UNCHANGED <<agents, nextRoute, aframe, aheld, cthread, peers, answered>>

(* cleanup_agent, second lock: every route to this *name* is removed.  The   *)
(* by_req removals nested inside commute with the other threads' steps on    *)
(* `by_req`, which never hold `routes` meanwhile.                            *)
AgentCleanRoutes(a) ==
  /\ apc[a] = "cleanroutes"
  /\ LET doomed == {e \in routes : e.agent = NameOf[a]}
     IN /\ routes' = routes \ doomed
        /\ byReq' = Unlink(doomed)
        /\ aheld' = [aheld EXCEPT ![a] = doomed]
  /\ apc' = [apc EXCEPT ![a] = "doomed"]
  /\ UNCHANGED <<agents, nextRoute, aframe, cthread, peers, answered>>

(* Error 410 to the controller of each doomed route *)
AgentCleanError(a) ==
  /\ apc[a] = "doomed"
  /\ \E e \in aheld[a] :
       /\ answered' = answered \cup {<<e.ctrl, e.req>>}
       /\ aheld' = [aheld EXCEPT ![a] = @ \ {e}]
  /\ UNCHANGED <<shared, apc, aframe, cthread, peers>>

AgentClose(a) ==
  /\ apc[a] = "doomed"
  /\ aheld[a] = {}
  /\ apc' = [apc EXCEPT ![a] = "closed"]
  /\ UNCHANGED <<shared, aframe, aheld, cthread, peers, answered>>

----------------------------------------------------------------------------
(* The thread of a controller connection: ctrl_loop, relay_to_agent and      *)
(* cleanup_ctrl.                                                             *)

(* End of relay_to_agent: back to conn.recv with no locals left *)
Return(c) ==
  /\ cpc' = [cpc EXCEPT ![c] = "loop"]
  /\ call' = [call EXCEPT ![c] = NoCall]

Goto(c, pc) == cpc' = [cpc EXCEPT ![c] = pc]

(* send_ctrl_error for the request in hand *)
CtrlError(c) == answered' = answered \cup {<<c, call[c].req>>}

(* A RelayReq arrives: a request the controller opens (with the target the  *)
(* user named, if any) or a further frame of one it opened before, which    *)
(* carries no target.                                                       *)
CtrlRecvReq(c) ==
  /\ cpc[c] = "loop"
  /\ frames[c] < MaxFrames
  /\ frames' = [frames EXCEPT ![c] = @ + 1]
  /\ \E q \in ReqIds, kind \in {"start", "cont"}, t \in Names \cup {NoName} :
       /\ kind = "start" <=> q \notin started[c]
       /\ kind = "cont" => t = NoName
       /\ started' = [started EXCEPT ![c] = @ \cup {q}]
       /\ call' = [call EXCEPT ![c] = [req |-> q, kind |-> kind, target |-> t,
                     route |-> 0, name |-> NoName, conn |-> NoConn]]
  /\ Goto(c, "byreq")
  /\ UNCHANGED <<shared, athread, cheld, peers, answered>>

(* mutant: by_req keyed by the request id alone; every controller counts its *)
(* own, so ids repeat                                                        *)
LookupReqAny(c) ==
  /\ cpc[c] = "byreq"
  /\ \E d \in CConns : LET r == byReq[<<d, call[c].req>>]
     IN /\ call' = [call EXCEPT ![c].route = r]
        /\ Goto(c, IF r = 0 THEN "choose" ELSE "route")
  /\ UNCHANGED <<shared, athread, cheld, frames, started, peers, answered>>

(* by_req lookup; its lock is released before `routes` is locked *)
LookupReq(c) ==
  /\ cpc[c] = "byreq"
  /\ LET r == byReq[<<c, call[c].req>>]
     IN /\ call' = [call EXCEPT ![c].route = r]
        /\ Goto(c, IF r = 0 THEN "choose" ELSE "route")
  /\ UNCHANGED <<shared, athread, cheld, frames, started, peers, answered>>

LookupRoute(c) ==
  /\ cpc[c] = "route"
  /\ \/ /\ RouteOf(call[c].route) = {}
        /\ Goto(c, "choose")
        /\ UNCHANGED call
     \/ /\ \E e \in RouteOf(call[c].route) : call' = [call EXCEPT ![c].name = e.agent]
        /\ Goto(c, "contconn")
  /\ UNCHANGED <<shared, athread, cheld, frames, started, peers, answered>>

(* The connection registered under a name; absent, the request fails *)
ContConn(c) ==
  /\ cpc[c] = "contconn"
  /\ call' = [call EXCEPT ![c].conn = agents[call[c].name]]
  /\ Goto(c, IF agents[call[c].name] = NoConn THEN "rmroute" ELSE "send")
  /\ UNCHANGED <<shared, athread, cheld, frames, started, peers, answered>>

ChooseAgent(c) ==
  /\ cpc[c] = "choose"
  /\ \/ /\ Chosen(call[c].target) = {}
        /\ CtrlError(c)
        /\ Return(c)
     \/ /\ \E n \in Chosen(call[c].target) : call' = [call EXCEPT ![c].name = n]
        /\ Goto(c, "getconn")
        /\ UNCHANGED answered
  /\ UNCHANGED <<shared, athread, cheld, frames, started, peers>>

(* `agents` is locked a second time for the connection itself *)
GetConn(c) ==
  /\ cpc[c] = "getconn"
  /\ \/ /\ agents[call[c].name] = NoConn
        /\ CtrlError(c)
        /\ Return(c)
     \/ /\ agents[call[c].name] # NoConn
        /\ call' = [call EXCEPT ![c].conn = agents[call[c].name]]
        /\ Goto(c, "insroute")
        /\ UNCHANGED answered
  /\ UNCHANGED <<shared, athread, cheld, frames, started, peers>>

(* mutant: the route id is read but not advanced *)
InsertRouteSameId(c) ==
  /\ cpc[c] = "insroute"
  /\ routes' = WithoutRoute(nextRoute) \cup
       {[id |-> nextRoute, ctrl |-> c, agent |-> call[c].name, req |-> call[c].req]}
  /\ call' = [call EXCEPT ![c].route = nextRoute]
  /\ Goto(c, "insreq")
  /\ UNCHANGED <<agents, byReq, nextRoute, athread, cheld, frames, started, peers, answered>>

InsertRoute(c) ==
  /\ cpc[c] = "insroute"
  /\ nextRoute' = nextRoute + 1
  /\ routes' = WithoutRoute(nextRoute) \cup
       {[id |-> nextRoute, ctrl |-> c, agent |-> call[c].name, req |-> call[c].req]}
  /\ call' = [call EXCEPT ![c].route = nextRoute]
  /\ Goto(c, "insreq")
  /\ UNCHANGED <<agents, byReq, athread, cheld, frames, started, peers, answered>>

InsertReq(c) ==
  /\ cpc[c] = "insreq"
  /\ byReq' = [byReq EXCEPT ![<<c, call[c].req>>] = call[c].route]
  /\ Goto(c, "send")
  /\ UNCHANGED <<agents, routes, nextRoute, athread, call, cheld, frames, started, peers, answered>>

(* RelayDeliver on the connection found before, whatever became of it since. *)
(* The send fails only once the writer thread is gone.                       *)
Send(c) ==
  /\ cpc[c] = "send"
  /\ \/ /\ writer[call[c].conn] = "dead"
        /\ Goto(c, "rmroute")
        /\ UNCHANGED <<call, first, jobs, reached>>
     \/ /\ writer[call[c].conn] = "up"
        /\ first' = FirstFrame(call[c].conn, "other")
        /\ jobs' = Delivered(call[c].conn,
                     [conn |-> call[c].conn, route |-> call[c].route, ctrl |-> c,
                      req |-> call[c].req], call[c].kind)
        /\ reached' = reached \cup {<<j.ctrl, j.req>> : j \in jobs' \ jobs}
        /\ Return(c)
  /\ UNCHANGED <<shared, athread, cheld, frames, started, link, writer, cancelled, answered>>

(* remove_route and Error 410, in that order *)
CtrlRmRoute(c) ==
  /\ cpc[c] = "rmroute"
  /\ cheld' = [cheld EXCEPT ![c] = RouteOf(call[c].route)]
  /\ routes' = WithoutRoute(call[c].route)
  /\ Goto(c, "rmreq")
  /\ UNCHANGED <<agents, byReq, nextRoute, athread, call, frames, started, peers, answered>>

CtrlRmReq(c) ==
  /\ cpc[c] = "rmreq"
  /\ byReq' = Unlink(cheld[c])
  /\ cheld' = [cheld EXCEPT ![c] = {}]
  /\ Goto(c, "err410")
  /\ UNCHANGED <<agents, routes, nextRoute, athread, call, frames, started, peers, answered>>

CtrlErr410(c) ==
  /\ cpc[c] = "err410"
  /\ CtrlError(c)
  /\ Return(c)
  /\ UNCHANGED <<shared, athread, cheld, frames, started, peers>>

(* The controller hangs up, is killed, or loses its network *)
CtrlRecvErr(c) ==
  /\ cpc[c] = "loop"
  /\ Goto(c, "cleanroutes")
  /\ UNCHANGED <<shared, athread, call, cheld, frames, started, peers, answered>>

(* mutant: only the routes by_req leads to are cleaned *)
CtrlCleanRoutesByReq(c) ==
  /\ cpc[c] = "cleanroutes"
  /\ LET doomed == {e \in routes : e.ctrl = c /\ byReq[<<c, e.req>>] = e.id}
     IN /\ routes' = routes \ doomed
        /\ byReq' = Unlink(doomed)
        /\ cheld' = [cheld EXCEPT ![c] = doomed]
  /\ Goto(c, "cancel")
  /\ UNCHANGED <<agents, nextRoute, athread, call, frames, started, peers, answered>>

(* cleanup_ctrl: take every route of this controller out ... *)
CtrlCleanRoutes(c) ==
  /\ cpc[c] = "cleanroutes"
  /\ LET doomed == {e \in routes : e.ctrl = c}
     IN /\ routes' = routes \ doomed
        /\ byReq' = Unlink(doomed)
        /\ cheld' = [cheld EXCEPT ![c] = doomed]
  /\ Goto(c, "cancel")
  /\ UNCHANGED <<agents, nextRoute, athread, call, frames, started, peers, answered>>

(* mutant: the routes are dropped without RouteCancel *)
CtrlCancelNone(c) ==
  /\ cpc[c] = "cancel"
  /\ \E e \in cheld[c] : cheld' = [cheld EXCEPT ![c] = @ \ {e}]
  /\ UNCHANGED <<shared, athread, cpc, call, frames, started, peers, answered>>

(* ... and send RouteCancel to whoever is registered under its agent's name *)
CtrlCancel(c) ==
  /\ cpc[c] = "cancel"
  /\ \E e \in cheld[c] :
       /\ LET a == agents[e.agent]
          IN IF a \in AConns /\ writer[a] = "up"
             THEN /\ cancelled' = cancelled \cup {j \in JobsOn(a) : j.route = e.id}
                  /\ first' = FirstFrame(a, "other")
             ELSE UNCHANGED <<cancelled, first>>
       /\ cheld' = [cheld EXCEPT ![c] = @ \ {e}]
  /\ UNCHANGED <<shared, athread, cpc, call, frames, started, link, writer, jobs, reached, answered>>

CtrlClose(c) ==
  /\ cpc[c] = "cancel"
  /\ cheld[c] = {}
  /\ Goto(c, "closed")
  /\ UNCHANGED <<shared, athread, call, cheld, frames, started, peers, answered>>

----------------------------------------------------------------------------
(* The far ends of the agent connections.                                   *)

(* The agent process ends, is rejected, gives up or loses its network:      *)
(* reader_loop fails and cancel_all tells every worker to stop.             *)
AgentDrop(a) ==
  /\ link[a] = "up"
  /\ link' = [link EXCEPT ![a] = "down"]
  /\ cancelled' = cancelled \cup JobsOn(a)
  /\ UNCHANGED <<shared, athread, cthread, writer, first, jobs, reached, answered>>

(* A cancelled worker ends without its final payload being received *)
JobQuit(a) ==
  /\ \E j \in JobsOn(a) \cap cancelled :
       /\ jobs' = jobs \ {j}
       /\ cancelled' = cancelled \ {j}
  /\ UNCHANGED <<shared, athread, cthread, link, writer, first, reached, answered>>

(* The writer thread of the server exits after a failed write *)
WriterExit(a) ==
  /\ link[a] = "down"
  /\ writer[a] = "up"
  /\ writer' = [writer EXCEPT ![a] = "dead"]
  /\ UNCHANGED <<shared, athread, cthread, link, first, jobs, cancelled, reached, answered>>

(* Every connection has come and gone; the server itself never stops *)
Finished ==
  /\ \A a \in AConns : apc[a] = "closed"
  /\ \A c \in CConns : cpc[c] = "closed"
  /\ UNCHANGED vars

(* the steps an agent thread takes on its own: all but receiving a result *)
AgentWork(a) ==
  \/ HelloReject(a) \/ Register(a) \/ SendHelloOk(a)
  \/ AgentForward(a) \/ AgentRmRoute(a) \/ AgentRmReq(a)
  \/ AgentRecvErr(a) \/ AgentCleanAgents(a) \/ AgentCleanRoutes(a)
  \/ AgentCleanError(a) \/ AgentClose(a)

(* the steps a controller thread takes between two conn.recv, and its end *)
CtrlWork(c) ==
  \/ LookupReq(c) \/ LookupRoute(c) \/ ContConn(c) \/ ChooseAgent(c)
  \/ GetConn(c) \/ InsertRoute(c) \/ InsertReq(c) \/ Send(c)
  \/ CtrlRmRoute(c) \/ CtrlRmReq(c) \/ CtrlErr410(c)
  \/ CtrlCleanRoutes(c) \/ CtrlCancel(c) \/ CtrlClose(c)

AgentPeer(a) == AgentDrop(a) \/ JobQuit(a) \/ WriterExit(a)

Next ==
  \/ \E a \in AConns : AgentRecvResult(a) \/ AgentWork(a) \/ AgentPeer(a)
  \/ \E c \in CConns : CtrlRecvReq(c) \/ CtrlWork(c) \/ CtrlRecvErr(c)
  \/ Finished

Spec == Init /\ [][Next]_vars

(* What an agent's thread does under `routes` and `by_req` alone: no thread  *)
(* waits for anything while it holds one of them.                            *)
AgentRuns(a) ==
  AgentRmRoute(a) \/ AgentRmReq(a) \/ AgentCleanRoutes(a) \/ AgentClose(a)

(* Threads the operating system schedules keep running, and a cancelled      *)
(* worker ends: a broken link holds no endless supply of its results.  A     *)
(* thread may wait for ever in a send (the receiver does not read) or for    *)
(* the lock on `agents` (cleanup_ctrl holds it across a send); peers may     *)
(* stay connected or silent for ever, and a job that is not cancelled may    *)
(* run for ever.                                                             *)
Fairness == \A a \in AConns : WF_vars(AgentRuns(a)) /\ WF_vars(JobQuit(a))

FairSpec == Spec /\ Fairness

----------------------------------------------------------------------------
(* The state has the types of the code's fields and locals. *)
TypeOK ==
  /\ agents \in [Names -> AConns \cup {NoConn}]
  /\ routes \subseteq Entries
  /\ byReq \in [CConns \X ReqIds -> Nat]
  /\ nextRoute \in Nat \ {0}
  /\ apc \in [AConns -> APcs]
  /\ aframe \in [AConns -> Results \cup {NoResult}]
  /\ aheld \in [AConns -> SUBSET Entries]
  /\ cpc \in [CConns -> CPcs]
  /\ call \in [CConns -> Calls \cup {NoCall}]
  /\ cheld \in [CConns -> SUBSET Entries]
  /\ frames \in [CConns -> 0..MaxFrames]
  /\ link \in [AConns -> {"up", "down"}]
  /\ writer \in [AConns -> {"up", "dead"}]
  /\ first \in [AConns -> {"none", "helloOk", "other"}]
  /\ jobs \subseteq Jobs
  /\ cancelled \subseteq jobs
  /\ reached \subseteq CConns \X ReqIds
  /\ started \in [CConns -> SUBSET ReqIds]
  /\ answered \subseteq CConns \X ReqIds

(* Every entry some part of the server still has in hand *)
HeldByAgents == UNION {aheld[a] : a \in AConns}
HeldByCtrls == UNION {cheld[c] : c \in CConns}
Held == routes \cup HeldByAgents \cup HeldByCtrls

(* A connection is registered exactly while its thread is between the insert *)
(* in handle_connection and the removal in cleanup_agent: no second agent    *)
(* takes over a name in use (409), and a name never stays taken by a         *)
(* connection that is gone.                                                  *)
AgentsMatchThreads ==
  \A n \in Names, a \in AConns :
    agents[n] = a <=>
      n = NameOf[a] /\ apc[a] \in {"hello", "loop", "forward", "rmroute",
                                   "rmreq", "cleanagents"}

(* No route outlives its controller: after cleanup_ctrl no entry names a     *)
(* controller that is gone, although agent threads remove entries and other  *)
(* controllers insert them all the while.                                    *)
RouteOwnerAlive ==
  \A e \in routes : cpc[e.ctrl] \notin {"cancel", "closed"}

(* The result a thread forwards goes to the very request whose job produced  *)
(* it: a route id never stands for two requests, however often the maps are  *)
(* cleaned and refilled between the delivery and the answer.                 *)
AnswersGoToRequester ==
  \A a \in AConns : apc[a] = "forward" =>
    \A e \in aheld[a] :
      /\ <<e.ctrl, e.req>> = <<aframe[a].job.ctrl, aframe[a].job.req>>
      /\ e.agent = NameOf[a]

(* A frame is only continued on a route of its own request: what by_req      *)
(* yields, as far as it is still a route, belongs to this controller and     *)
(* request, even if the entry went stale between the two locks.              *)
ContinuesOwnRoute ==
  \A c \in CConns : cpc[c] = "route" =>
    \A e \in RouteOf(call[c].route) : e.ctrl = c /\ e.req = call[c].req

(* Some thread of the name has its scan of `routes` still to come. *)
Watched(n) ==
  \E a \in AConns : NameOf[a] = n /\ apc[a] \in {"hello", "loop", "forward", "rmroute",
                                                "rmreq", "cleanagents", "cleanroutes"}

(* Entries a cleanup_agent has taken out and will answer with 410 *)
AboutToFail == UNION {aheld[a] : a \in {b \in AConns : apc[b] = "doomed"}}

(* While its controller is idle, a request without an answer has a route, or *)
(* sits in the list of a cleanup_agent that is about to answer it; and if a  *)
(* worker was ever started for it, that route is one which an agent serves   *)
(* or whose cleanup has its scan still to come.  The exception is a request  *)
(* whose first frame goes into a connection that was cleaned up after it was *)
(* fetched: its route is inserted after the scan, no worker sees it, and     *)
(* nobody answers it but the controller's own deadline.                      *)
NoSilentDrop ==
  \A c \in CConns : cpc[c] = "loop" =>
    \A q \in started[c] : <<c, q>> \notin answered =>
      \E e \in routes \cup AboutToFail :
        /\ e.ctrl = c /\ e.req = q
        /\ <<c, q>> \in reached => e \in AboutToFail \/ Watched(e.agent)

(* After a controller is gone none of its jobs runs on: each was reached by  *)
(* RouteCancel or by the end of its agent's connection.                      *)
CancelOnDisconnect ==
  \A c \in CConns : cpc[c] = "closed" =>
    \A j \in jobs : j.ctrl = c => j \in cancelled

----------------------------------------------------------------------------
(* The inductive invariant behind the safety properties.                    *)

(* the jobs whose payloads may still be forwarded *)
JobsInSight == jobs \cup {aframe[a].job : a \in {b \in AConns : aframe[b] \in Results}}

(* Locals are set when the code uses them. *)
LocalsSet ==
  /\ \A a \in AConns : apc[a] \in {"forward", "rmroute", "rmreq"} => aframe[a] \in Results
  /\ \A a \in AConns : apc[a] = "forward" =>
       aframe[a].job.conn = a /\ \A e \in aheld[a] : e.id = aframe[a].job.route
  /\ \A c \in CConns : cpc[c] \notin {"loop", "cleanroutes", "cancel", "closed"} =>
       call[c] \in Calls
  /\ \A c \in CConns : cpc[c] \in {"contconn", "getconn"} => call[c].name \in Names
  /\ \A c \in CConns : cpc[c] \in {"insroute", "insreq", "send"} =>
       call[c].conn \in AConns /\ call[c].name = NameOf[call[c].conn]

(* Ids in use are positive and below the counter. *)
IdsFresh ==
  /\ \A e \in Held : e.id > 0 /\ e.id < nextRoute
  /\ \A k \in CConns \X ReqIds : byReq[k] < nextRoute
  /\ \A j \in JobsInSight : j.route < nextRoute
  /\ \A c \in CConns : call[c] \in Calls => call[c].route < nextRoute

(* An id names one entry, in whichever thread's hands its copies are. *)
IdsUnique == \A e, f \in Held : e.id = f.id => e = f

(* Whoever refers to an entry by its id means the request it belongs to: *)
JobsAgree ==
  \A e \in Held, j \in JobsInSight : e.id = j.route =>
    e.ctrl = j.ctrl /\ e.req = j.req /\ e.agent = NameOf[j.conn]

ByReqAgrees ==
  \A e \in Held, k \in CConns \X ReqIds : e.id = byReq[k] => k = <<e.ctrl, e.req>>

CallsAgree ==
  \A e \in Held, c \in CConns :
    cpc[c] \in {"route", "contconn", "insreq", "send"} /\ e.id = call[c].route =>
      /\ e.ctrl = c /\ e.req = call[c].req
      /\ cpc[c] \in {"contconn", "insreq", "send"} => e.agent = call[c].name

IdsInv == IdsFresh /\ IdsUnique /\ JobsAgree /\ ByReqAgrees /\ CallsAgree

(* Route ids keep their meaning: what the maps, the threads' locals and the  *)
(* agents' jobs say about a route id agrees in every reachable state.        *)
RouteInv ==
  AgentsMatchThreads /\ LocalsSet /\ RouteOwnerAlive /\ IdsInv

----------------------------------------------------------------------------
(* The first frame an agent receives is the HelloOk it waits for.            *)
HelloOkFirst == \A a \in AConns : first[a] # "other"

(* What the server does not control: the controllers this agent's results go *)
(* to keep reading, so that its thread gets through every send ...           *)
SendsComplete(a) == WF_vars(SendHelloOk(a) \/ AgentForward(a))

(* ... and the lock on `agents`, which it takes for every frame it receives  *)
(* (touch_agent) and in cleanup_agent, comes free.                           *)
LockGranted(a) == WF_vars(AgentRecvErr(a) \/ AgentCleanAgents(a))

(* The name of an agent whose connection broke becomes free again, unless    *)
(* its thread waits for ever for a controller that does not read or for the  *)
(* lock on `agents` (Queues shows how that happens).                         *)
NameFreed ==
  \A a \in AConns : SendsComplete(a) /\ LockGranted(a) =>
    (link[a] = "down" ~> agents[NameOf[a]] # a)

----------------------------------------------------------------------------
(* What all of this is for: the relay implements Delivery.  A request is     *)
(* pending until its first frame is sent or refused, a job is the worker of  *)
(* its request, and a final payload has arrived while its thread is about to *)
(* forward it.                                                               *)
AgentState ==
  [a \in AConns |-> IF link[a] = "down" THEN "lost"
                    ELSE IF first[a] = "helloOk" THEN "serving" ELSE "new"]
Present == {c \in CConns : cpc[c] \notin {"cleanroutes", "cancel", "closed"}}
Opened == {r \in CConns \X ReqIds : r[2] \in started[r[1]]}
Pending == {r \in CConns \X ReqIds :
              /\ cpc[r[1]] \notin {"loop", "cleanroutes", "cancel", "closed"}
              /\ call[r[1]].kind = "start" /\ call[r[1]].req = r[2]}
WorkerOf(j) == [agent |-> j.conn, req |-> <<j.ctrl, j.req>>]
Workers == {WorkerOf(j) : j \in jobs}
Stopped == {WorkerOf(j) : j \in cancelled}
Finals == {r \in CConns \X ReqIds : \E a \in AConns :
             /\ apc[a] = "forward" /\ aframe[a].kind = "final"
             /\ <<aframe[a].job.ctrl, aframe[a].job.req>> = r}

D == INSTANCE Delivery WITH
       Agents <- AConns, Ctrls <- CConns, agent <- AgentState, present <- Present,
       opened <- Opened, pending <- Pending, workers <- Workers, stopped <- Stopped,
       finals <- Finals, told <- answered

(* Whatever the order in which the threads take the locks, each request runs *)
(* at most once, is ended by its own worker or by an error that has a cause, *)
(* and its worker is stopped only for a reason.                              *)
ImplementsDelivery == D!Spec

============================================================================
