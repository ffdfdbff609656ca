---------------------------- MODULE RelayProofs ----------------------------
(* Proofs about the relay server, for every set of connections and names.   *)
EXTENDS Relay, TLAPS

USE DEF APcs, CPcs

(* Assigning one local of relay_to_agent keeps the locals well typed and the *)
(* others as they were.                                                      *)
LEMMA SetRoute ==
  ASSUME NEW f \in [CConns -> Calls \cup {NoCall}], NEW c \in CConns, f[c] \in Calls,
         NEW v \in Nat, NEW g, g = [f EXCEPT ![c].route = v]
  PROVE  /\ g \in [CConns -> Calls \cup {NoCall}]
         /\ g[c] \in Calls /\ g[c].route = v
         /\ g[c].req = f[c].req /\ g[c].kind = f[c].kind /\ g[c].target = f[c].target
         /\ g[c].name = f[c].name /\ g[c].conn = f[c].conn
         /\ \A d \in CConns \ {c} : g[d] = f[d]
<1>1. [f[c] EXCEPT !.route = v] \in Calls
  BY DEF Calls
<1>2. g[c] = [f[c] EXCEPT !.route = v]
  OBVIOUS
<1> QED
  BY <1>1, <1>2 DEF Calls

(* Assigning the local `agent name` of one call leaves the other locals alone. *)
LEMMA SetName ==
  ASSUME NEW f \in [CConns -> Calls \cup {NoCall}], NEW c \in CConns, f[c] \in Calls,
         NEW v \in Names, NEW g, g = [f EXCEPT ![c].name = v]
  PROVE  /\ g \in [CConns -> Calls \cup {NoCall}]
         /\ g[c] \in Calls /\ g[c].name = v
         /\ g[c].req = f[c].req /\ g[c].kind = f[c].kind /\ g[c].target = f[c].target
         /\ g[c].route = f[c].route /\ g[c].conn = f[c].conn
         /\ \A d \in CConns \ {c} : g[d] = f[d]
<1>1. [f[c] EXCEPT !.name = v] \in Calls
  BY DEF Calls
<1>2. g[c] = [f[c] EXCEPT !.name = v]
  OBVIOUS
<1> QED
  BY <1>1, <1>2 DEF Calls

(* Assigning the local `connection` of one call leaves the other locals alone. *)
LEMMA SetConn ==
  ASSUME NEW f \in [CConns -> Calls \cup {NoCall}], NEW c \in CConns, f[c] \in Calls,
         NEW v \in AConns \cup {NoConn}, NEW g, g = [f EXCEPT ![c].conn = v]
  PROVE  /\ g \in [CConns -> Calls \cup {NoCall}]
         /\ g[c] \in Calls /\ g[c].conn = v
         /\ g[c].req = f[c].req /\ g[c].kind = f[c].kind /\ g[c].target = f[c].target
         /\ g[c].route = f[c].route /\ g[c].name = f[c].name
         /\ \A d \in CConns \ {c} : g[d] = f[d]
<1>1. [f[c] EXCEPT !.conn = v] \in Calls
  BY DEF Calls
<1>2. g[c] = [f[c] EXCEPT !.conn = v]
  OBVIOUS
<1> QED
  BY <1>1, <1>2 DEF Calls

(* relay_to_agent changes a local of its own call and nothing of the others *)
CallStep(c) ==
  /\ call[c] \in Calls /\ call'[c] \in Calls
  /\ call' \in [CConns -> Calls \cup {NoCall}]
  /\ call'[c].req = call[c].req /\ call'[c].kind = call[c].kind
  /\ \A d \in CConns \ {c} : call'[d] = call[d]

(* What each step of relay_to_agent that assigns a local does to the locals. *)
LEMMA LookupReqEffect ==
  ASSUME TypeOK, LocalsSet, NEW c \in CConns, LookupReq(c)
  PROVE  CallStep(c) /\ call'[c].route = byReq[<<c, call[c].req>>]
<1>1. call \in [CConns -> Calls \cup {NoCall}] /\ call[c] \in Calls
  BY DEF TypeOK, LocalsSet, LookupReq
<1>2. byReq[<<c, call[c].req>>] \in Nat
  BY <1>1 DEF TypeOK, Calls
<1>3. call' = [call EXCEPT ![c].route = byReq[<<c, call[c].req>>]]
  BY DEF LookupReq
<1> QED
  BY <1>1, <1>2, <1>3, SetRoute DEF CallStep

(* The `routes` lookup yields the agent name of a live entry, or no entry. *)
LEMMA LookupRouteEffect ==
  ASSUME TypeOK, LocalsSet, NEW c \in CConns, LookupRoute(c)
  PROVE  \/ cpc'[c] = "choose" /\ UNCHANGED call
         \/ /\ cpc'[c] = "contconn" /\ CallStep(c)
            /\ call'[c].route = call[c].route
            /\ \E e \in routes : e.id = call[c].route /\ call'[c].name = e.agent
<1>1. call \in [CConns -> Calls \cup {NoCall}] /\ call[c] \in Calls
  BY DEF TypeOK, LocalsSet, LookupRoute
<1>2. CASE cpc'[c] = "choose" /\ UNCHANGED call
  BY <1>2
<1>3. CASE cpc'[c] = "contconn" /\
           \E e \in RouteOf(call[c].route) : call' = [call EXCEPT ![c].name = e.agent]
  <2>1. PICK e \in RouteOf(call[c].route) : call' = [call EXCEPT ![c].name = e.agent]
    BY <1>3
  <2>2. e \in routes /\ e.id = call[c].route /\ e.agent \in Names
    BY DEF RouteOf, TypeOK, Entries
  <2>3. CallStep(c) /\ call'[c].route = call[c].route /\ call'[c].name = e.agent
    BY <1>1, <2>1, <2>2, SetName DEF CallStep
  <2> QED
    BY <1>3, <2>2, <2>3
<1> QED
  BY <1>2, <1>3 DEF LookupRoute, Goto, TypeOK

(* A continuation takes the connection registered under the name. *)
LEMMA ContConnEffect ==
  ASSUME TypeOK, LocalsSet, NEW c \in CConns, ContConn(c)
  PROVE  /\ CallStep(c)
         /\ call[c].name \in Names
         /\ call'[c].route = call[c].route /\ call'[c].name = call[c].name
         /\ call'[c].conn = agents[call[c].name]
<1>1. call \in [CConns -> Calls \cup {NoCall}] /\ call[c] \in Calls
  BY DEF TypeOK, LocalsSet, ContConn
<1>2. call[c].name \in Names /\ agents[call[c].name] \in AConns \cup {NoConn}
  BY DEF TypeOK, LocalsSet, ContConn
<1>3. call' = [call EXCEPT ![c].conn = agents[call[c].name]]
  BY DEF ContConn
<1> QED
  BY <1>1, <1>2, <1>3, SetConn DEF CallStep

(* choose_agent answers an error or sets a registered name. *)
LEMMA ChooseAgentEffect ==
  ASSUME TypeOK, LocalsSet, NEW c \in CConns, ChooseAgent(c)
  PROVE  \/ cpc'[c] = "loop" /\ call' = [call EXCEPT ![c] = NoCall]
         \/ /\ cpc'[c] = "getconn" /\ CallStep(c)
            /\ call'[c].name \in Names /\ call'[c].route = call[c].route
<1>1. call \in [CConns -> Calls \cup {NoCall}] /\ call[c] \in Calls
  BY DEF TypeOK, LocalsSet, ChooseAgent
<1>2. CASE cpc'[c] = "loop" /\ call' = [call EXCEPT ![c] = NoCall]
  BY <1>2
<1>3. CASE cpc'[c] = "getconn" /\
           \E n \in Chosen(call[c].target) : call' = [call EXCEPT ![c].name = n]
  <2>1. PICK n \in Chosen(call[c].target) : call' = [call EXCEPT ![c].name = n]
    BY <1>3
  <2>2. n \in Names
    BY DEF Chosen, Registered
  <2>3. CallStep(c) /\ call'[c].route = call[c].route /\ call'[c].name = n
    BY <1>1, <2>1, <2>2, SetName DEF CallStep
  <2> QED
    BY <1>3, <2>2, <2>3
<1> QED
  BY <1>2, <1>3 DEF ChooseAgent, Return, Goto, TypeOK

(* A new request takes the connection registered under the chosen name. *)
LEMMA GetConnEffect ==
  ASSUME TypeOK, LocalsSet, NEW c \in CConns, GetConn(c)
  PROVE  \/ cpc'[c] = "loop" /\ call' = [call EXCEPT ![c] = NoCall]
         \/ /\ cpc'[c] = "insroute" /\ CallStep(c)
            /\ call[c].name \in Names /\ agents[call[c].name] # NoConn
            /\ call'[c].route = call[c].route /\ call'[c].name = call[c].name
            /\ call'[c].conn = agents[call[c].name]
<1>1. call \in [CConns -> Calls \cup {NoCall}] /\ call[c] \in Calls
  BY DEF TypeOK, LocalsSet, GetConn
<1>2. call[c].name \in Names /\ agents[call[c].name] \in AConns \cup {NoConn}
  BY DEF TypeOK, LocalsSet, GetConn
<1>3. CASE cpc'[c] = "loop" /\ call' = [call EXCEPT ![c] = NoCall]
  BY <1>3
<1>4. CASE /\ cpc'[c] = "insroute" /\ agents[call[c].name] # NoConn
           /\ call' = [call EXCEPT ![c].conn = agents[call[c].name]]
  BY <1>1, <1>2, <1>4, SetConn DEF CallStep
<1> QED
  BY <1>3, <1>4 DEF GetConn, Return, Goto, TypeOK

(* The new route has the id that was next, in the map and in the local. *)
LEMMA InsertRouteEffect ==
  ASSUME TypeOK, LocalsSet, NEW c \in CConns, InsertRoute(c)
  PROVE  /\ CallStep(c)
         /\ call[c].conn \in AConns /\ call[c].name = NameOf[call[c].conn]
         /\ call'[c].route = nextRoute
         /\ call'[c].name = call[c].name /\ call'[c].conn = call[c].conn
<1>1. call \in [CConns -> Calls \cup {NoCall}] /\ call[c] \in Calls
  BY SMTT(60) DEF TypeOK, LocalsSet, InsertRoute
<1>2. nextRoute \in Nat /\ call[c].conn \in AConns /\ call[c].name = NameOf[call[c].conn]
  BY DEF TypeOK, LocalsSet, InsertRoute
<1>3. call' = [call EXCEPT ![c].route = nextRoute]
  BY DEF InsertRoute
<1> QED
  BY <1>1, <1>2, <1>3, SetRoute DEF CallStep

(* Every step of every thread and peer keeps the types. *)
LEMMA TypeStep ==
  TypeOK /\ LocalsSet /\ [Next]_vars => TypeOK'
<1> SUFFICES ASSUME TypeOK, LocalsSet, [Next]_vars
             PROVE  TypeOK'
  OBVIOUS
<1> USE NameOfAssumption DEF TypeOK, LocalsSet
<1>HelloReject. ASSUME NEW a \in AConns, HelloReject(a)
      PROVE  TypeOK'
    BY <1>HelloReject DEF HelloReject, shared, athread, cthread, peers
<1>Register. ASSUME NEW a \in AConns, Register(a)
      PROVE  TypeOK'
    BY <1>Register DEF Register, shared, athread, cthread, peers
<1>SendHelloOk. ASSUME NEW a \in AConns, SendHelloOk(a)
      PROVE  TypeOK'
    BY <1>SendHelloOk DEF SendHelloOk, FirstFrame, shared, athread, cthread, peers
<1>AgentForward. ASSUME NEW a \in AConns, AgentForward(a)
      PROVE  TypeOK'
    <2>1. aframe' \in [AConns -> Results \cup {NoResult}]
      BY <1>AgentForward DEF AgentForward
    <2>2. answered' \subseteq CConns \X ReqIds
      BY <1>AgentForward DEF AgentForward, Entries
    <2>3. apc' \in [AConns -> APcs] /\ aheld' \in [AConns -> SUBSET Entries]
      BY <1>AgentForward, SMTT(60) DEF AgentForward
    <2>4. UNCHANGED <<shared, cthread, peers>>
      BY <1>AgentForward DEF AgentForward
    <2> QED
      BY <2>1, <2>2, <2>3, <2>4 DEF shared, cthread, peers
<1>AgentRmRoute. ASSUME NEW a \in AConns, AgentRmRoute(a)
      PROVE  TypeOK'
    BY <1>AgentRmRoute DEF AgentRmRoute, RouteOf, WithoutRoute, shared, athread, cthread, peers
<1>AgentRmReq. ASSUME NEW a \in AConns, AgentRmReq(a)
      PROVE  TypeOK'
    BY <1>AgentRmReq DEF AgentRmReq, Unlink, shared, athread, cthread, peers
<1>AgentRecvErr. ASSUME NEW a \in AConns, AgentRecvErr(a)
      PROVE  TypeOK'
    BY <1>AgentRecvErr DEF AgentRecvErr, shared, athread, cthread, peers
<1>AgentCleanAgents. ASSUME NEW a \in AConns, AgentCleanAgents(a)
      PROVE  TypeOK'
    BY <1>AgentCleanAgents DEF AgentCleanAgents, shared, athread, cthread, peers
<1>AgentCleanRoutes. ASSUME NEW a \in AConns, AgentCleanRoutes(a)
      PROVE  TypeOK'
    BY <1>AgentCleanRoutes DEF AgentCleanRoutes, Unlink, shared, athread, cthread, peers
<1>AgentCleanError. ASSUME NEW a \in AConns, AgentCleanError(a)
      PROVE  TypeOK'
    BY <1>AgentCleanError DEF AgentCleanError, Entries, shared, athread, cthread, peers
<1>AgentClose. ASSUME NEW a \in AConns, AgentClose(a)
      PROVE  TypeOK'
    BY <1>AgentClose DEF AgentClose, shared, athread, cthread, peers
<1>AgentRecvResult. ASSUME NEW a \in AConns, AgentRecvResult(a)
      PROVE  TypeOK'
    <2>1. PICK j \in JobsOn(a), kind \in {"data", "final"} :
             /\ jobs' = IF kind = "final" THEN jobs \ {j} ELSE jobs
             /\ cancelled' = cancelled \cap jobs'
             /\ IF RouteOf(j.route) = {}
                  THEN UNCHANGED athread
                  ELSE /\ apc' = [apc EXCEPT ![a] = "forward"]
                       /\ aframe' = [aframe EXCEPT ![a] = [job |-> j, kind |-> kind]]
                       /\ aheld' = [aheld EXCEPT ![a] = RouteOf(j.route)]
      BY <1>AgentRecvResult DEF AgentRecvResult
    <2>2. [job |-> j, kind |-> kind] \in Results
      BY DEF Results, JobsOn
    <2>3. aframe' \in [AConns -> Results \cup {NoResult}]
      BY <2>1, <2>2 DEF athread
    <2>a. RouteOf(j.route) \subseteq Entries
      BY DEF RouteOf
    <2>4. apc' \in [AConns -> APcs] /\ aheld' \in [AConns -> SUBSET Entries]
      <3>1. CASE RouteOf(j.route) = {}
        BY <2>1, <3>1 DEF athread
      <3>2. CASE RouteOf(j.route) # {}
        <4>1. apc' = [apc EXCEPT ![a] = "forward"] /\ aheld' = [aheld EXCEPT ![a] = RouteOf(j.route)]
          BY <2>1, <3>2
        <4> QED
          BY <4>1, <2>a
      <3> QED
        BY <3>1, <3>2
    <2>5. jobs' \subseteq Jobs /\ cancelled' \subseteq jobs'
      BY <2>1
    <2>6. UNCHANGED <<shared, cthread, link, writer, first, reached, answered>>
      BY <1>AgentRecvResult DEF AgentRecvResult
    <2> QED
      BY <2>3, <2>4, <2>5, <2>6 DEF shared, cthread
<1>AgentDrop. ASSUME NEW a \in AConns, AgentDrop(a)
      PROVE  TypeOK'
    BY <1>AgentDrop DEF AgentDrop, JobsOn, shared, athread, cthread, peers
<1>JobQuit. ASSUME NEW a \in AConns, JobQuit(a)
      PROVE  TypeOK'
    BY <1>JobQuit DEF JobQuit, shared, athread, cthread, peers
<1>WriterExit. ASSUME NEW a \in AConns, WriterExit(a)
      PROVE  TypeOK'
    BY <1>WriterExit DEF WriterExit, shared, athread, cthread, peers
<1>LookupReq. ASSUME NEW c \in CConns, LookupReq(c)
      PROVE  TypeOK'
    <2>1. call[c] \in Calls /\ call' \in [CConns -> Calls \cup {NoCall}]
      BY <1>LookupReq, LookupReqEffect DEF LookupReq, CallStep
    <2> QED
      BY <1>LookupReq, <2>1 DEF LookupReq, Goto, shared, athread, peers
<1>LookupRoute. ASSUME NEW c \in CConns, LookupRoute(c)
      PROVE  TypeOK'
    <2>1. call[c] \in Calls /\ call' \in [CConns -> Calls \cup {NoCall}]
      BY <1>LookupRoute, LookupRouteEffect, ZenonT(60) DEF LookupRoute, CallStep
    <2> QED
      BY <1>LookupRoute, <2>1 DEF LookupRoute, Goto, shared, athread, peers
<1>ContConn. ASSUME NEW c \in CConns, ContConn(c)
      PROVE  TypeOK'
    <2>1. call[c] \in Calls /\ call' \in [CConns -> Calls \cup {NoCall}]
      BY <1>ContConn, ContConnEffect DEF ContConn, CallStep
    <2> QED
      BY <1>ContConn, <2>1 DEF ContConn, Goto, shared, athread, peers
<1>ChooseAgent. ASSUME NEW c \in CConns, ChooseAgent(c)
      PROVE  TypeOK'
    <2>0. call[c] \in Calls
      BY <1>ChooseAgent DEF ChooseAgent
    <2>1. call[c] \in Calls /\ call' \in [CConns -> Calls \cup {NoCall}]
      BY <1>ChooseAgent, <2>0, ChooseAgentEffect DEF CallStep
    <2>2. cpc' \in [CConns -> CPcs] /\ answered' \subseteq CConns \X ReqIds
      BY <1>ChooseAgent, <2>1 DEF ChooseAgent, Goto, Return, CtrlError, Calls
    <2>3. UNCHANGED <<shared, athread, cheld, frames, started, peers>>
      BY <1>ChooseAgent DEF ChooseAgent
    <2> QED
      BY <2>1, <2>2, <2>3 DEF shared, athread, peers
<1>GetConn. ASSUME NEW c \in CConns, GetConn(c)
      PROVE  TypeOK'
    <2>1. call[c] \in Calls /\ call' \in [CConns -> Calls \cup {NoCall}]
      <3>1. call[c] \in Calls
        BY <1>GetConn DEF GetConn
      <3>2. CASE call' = [call EXCEPT ![c] = NoCall]
        BY <3>1, <3>2
      <3>3. CASE CallStep(c)
        BY <3>1, <3>3 DEF CallStep
      <3> QED
        BY <1>GetConn, <3>2, <3>3, GetConnEffect
    <2>2. cpc' \in [CConns -> CPcs] /\ answered' \subseteq CConns \X ReqIds
      BY <1>GetConn, <2>1 DEF GetConn, Goto, Return, CtrlError, Calls
    <2>3. UNCHANGED <<shared, athread, cheld, frames, started, peers>>
      BY <1>GetConn DEF GetConn
    <2> QED
      BY <2>1, <2>2, <2>3 DEF shared, athread, peers
<1>InsertRoute. ASSUME NEW c \in CConns, InsertRoute(c)
      PROVE  TypeOK'
    <2>1. call[c] \in Calls /\ call[c].name \in Names
      BY <1>InsertRoute, SMTT(60) DEF InsertRoute
    <2>2. call' \in [CConns -> Calls \cup {NoCall}]
      BY <1>InsertRoute, InsertRouteEffect DEF CallStep
    <2>3. [id |-> nextRoute, ctrl |-> c, agent |-> call[c].name, req |-> call[c].req] \in Entries
      BY <2>1 DEF Entries, Calls
    <2>4. routes' \subseteq Entries
      BY <1>InsertRoute, <2>3 DEF InsertRoute, WithoutRoute
    <2> QED
      BY <1>InsertRoute, <2>1, <2>2, <2>4 DEF InsertRoute, Goto, Calls, athread, peers
<1>InsertReq. ASSUME NEW c \in CConns, InsertReq(c)
      PROVE  TypeOK'
    BY <1>InsertReq DEF InsertReq, Goto, Calls, shared, athread, cthread, peers
<1>Send. ASSUME NEW c \in CConns, Send(c)
      PROVE  TypeOK'
    <2>1. call[c] \in Calls /\ call[c].conn \in AConns
      BY <1>Send DEF Send
    <2>2. [conn |-> call[c].conn, route |-> call[c].route, ctrl |-> c,
           req |-> call[c].req] \in Jobs
      BY <2>1 DEF Calls, Jobs
    <2>3. jobs' \subseteq Jobs /\ jobs \subseteq jobs'
      BY <1>Send, <2>2 DEF Send, Delivered
    <2>4. first' \in [AConns -> {"none", "helloOk", "other"}]
      BY <1>Send DEF Send, FirstFrame
    <2>5. cpc' \in [CConns -> CPcs] /\ call' \in [CConns -> Calls \cup {NoCall}]
      BY <1>Send DEF Send, Goto, Return
    <2>6. UNCHANGED <<shared, athread, cheld, frames, started, link, writer, cancelled, answered>>
      BY <1>Send DEF Send
    <2>7. reached' \subseteq CConns \X ReqIds
      <3>1. reached' = reached \/ reached' = reached \cup {<<j.ctrl, j.req>> : j \in jobs' \ jobs}
        BY <1>Send DEF Send
      <3>2. \A j \in jobs' : <<j.ctrl, j.req>> \in CConns \X ReqIds
        BY <2>3 DEF Jobs
      <3> QED
        BY <3>1, <3>2
    <2> QED
      BY <2>3, <2>4, <2>5, <2>6, <2>7 DEF shared, athread
<1>CtrlRmRoute. ASSUME NEW c \in CConns, CtrlRmRoute(c)
      PROVE  TypeOK'
    BY <1>CtrlRmRoute DEF CtrlRmRoute, RouteOf, WithoutRoute, Goto, shared, athread, cthread, peers
<1>CtrlRmReq. ASSUME NEW c \in CConns, CtrlRmReq(c)
      PROVE  TypeOK'
    BY <1>CtrlRmReq DEF CtrlRmReq, Unlink, Goto, shared, athread, cthread, peers
<1>CtrlErr410. ASSUME NEW c \in CConns, CtrlErr410(c)
      PROVE  TypeOK'
    BY <1>CtrlErr410, SMTT(60) DEF CtrlErr410, CtrlError, Return, Calls, shared, athread, cthread, peers
<1>CtrlCleanRoutes. ASSUME NEW c \in CConns, CtrlCleanRoutes(c)
      PROVE  TypeOK'
    BY <1>CtrlCleanRoutes DEF CtrlCleanRoutes, Unlink, Goto, shared, athread, cthread, peers
<1>CtrlCancel. ASSUME NEW c \in CConns, CtrlCancel(c)
      PROVE  TypeOK'
    <2>1. cancelled' \subseteq jobs /\ first' \in [AConns -> {"none", "helloOk", "other"}]
      BY <1>CtrlCancel DEF CtrlCancel, JobsOn, FirstFrame
    <2>2. cheld' \in [CConns -> SUBSET Entries]
      BY <1>CtrlCancel DEF CtrlCancel
    <2> QED
      BY <1>CtrlCancel, <2>1, <2>2 DEF CtrlCancel, shared, athread
<1>CtrlClose. ASSUME NEW c \in CConns, CtrlClose(c)
      PROVE  TypeOK'
    BY <1>CtrlClose DEF CtrlClose, Goto, shared, athread, cthread, peers
<1>CtrlRecvReq. ASSUME NEW c \in CConns, CtrlRecvReq(c)
      PROVE  TypeOK'
    <2>1. PICK q \in ReqIds, kind \in {"start", "cont"}, t \in Names \cup {NoName} :
             /\ kind = "start" <=> q \notin started[c]
             /\ kind = "cont" => t = NoName
             /\ started' = [started EXCEPT ![c] = @ \cup {q}]
             /\ call' = [call EXCEPT ![c] = [req |-> q, kind |-> kind, target |-> t,
                           route |-> 0, name |-> NoName, conn |-> NoConn]]
      BY <1>CtrlRecvReq DEF CtrlRecvReq
    <2>2. [req |-> q, kind |-> kind, target |-> t,
           route |-> 0, name |-> NoName, conn |-> NoConn] \in Calls
      BY DEF Calls
    <2>3. call' \in [CConns -> Calls \cup {NoCall}]
      BY <2>1, <2>2
    <2>4. frames' \in [CConns -> 0..MaxFrames]
      BY <1>CtrlRecvReq, MaxFramesAssumption DEF CtrlRecvReq
    <2> QED
      BY <1>CtrlRecvReq, <2>1, <2>3, <2>4 DEF CtrlRecvReq, Goto, shared, athread, peers
<1>CtrlRecvErr. ASSUME NEW c \in CConns, CtrlRecvErr(c)
      PROVE  TypeOK'
    BY <1>CtrlRecvErr DEF CtrlRecvErr, Goto, shared, athread, cthread, peers
<1>idle. ASSUME UNCHANGED vars
      PROVE  TypeOK'
    BY <1>idle DEF vars, shared, athread, cthread, peers
<1> QED
  BY <1>idle, <1>HelloReject, <1>Register, <1>SendHelloOk, <1>AgentForward, <1>AgentRmRoute, <1>AgentRmReq, <1>AgentRecvErr, <1>AgentCleanAgents, <1>AgentCleanRoutes, <1>AgentCleanError, <1>AgentClose, <1>AgentRecvResult, <1>AgentDrop, <1>JobQuit, <1>WriterExit, <1>LookupReq, <1>LookupRoute, <1>ContConn, <1>ChooseAgent, <1>GetConn, <1>InsertRoute, <1>InsertReq, <1>Send, <1>CtrlRmRoute, <1>CtrlRmReq, <1>CtrlErr410, <1>CtrlCleanRoutes, <1>CtrlCancel, <1>CtrlClose, <1>CtrlRecvReq, <1>CtrlRecvErr
  DEF Next, Finished, AgentWork, AgentPeer, CtrlWork

(* Registration follows the threads: 409 keeps a name with its connection. *)
LEMMA AgentsStep ==
  TypeOK /\ AgentsMatchThreads /\ [Next]_vars => AgentsMatchThreads'
<1> SUFFICES ASSUME TypeOK, AgentsMatchThreads, [Next]_vars
             PROVE  AgentsMatchThreads'
  OBVIOUS
<1> USE NameOfAssumption, NoConnAssumption DEF TypeOK, AgentsMatchThreads
<1>HelloReject. ASSUME NEW a \in AConns, HelloReject(a)
      PROVE  AgentsMatchThreads'
    BY <1>HelloReject DEF HelloReject, shared, athread, cthread, peers
<1>Register. ASSUME NEW a \in AConns, Register(a)
      PROVE  AgentsMatchThreads'
    BY <1>Register DEF Register, shared, athread, cthread, peers
<1>SendHelloOk. ASSUME NEW a \in AConns, SendHelloOk(a)
      PROVE  AgentsMatchThreads'
    BY <1>SendHelloOk DEF SendHelloOk, shared, athread, cthread, peers
<1>AgentForward. ASSUME NEW a \in AConns, AgentForward(a)
      PROVE  AgentsMatchThreads'
    BY <1>AgentForward DEF AgentForward, shared, athread, cthread, peers
<1>AgentRmRoute. ASSUME NEW a \in AConns, AgentRmRoute(a)
      PROVE  AgentsMatchThreads'
    BY <1>AgentRmRoute DEF AgentRmRoute, shared, athread, cthread, peers
<1>AgentRmReq. ASSUME NEW a \in AConns, AgentRmReq(a)
      PROVE  AgentsMatchThreads'
    BY <1>AgentRmReq DEF AgentRmReq, shared, athread, cthread, peers
<1>AgentRecvErr. ASSUME NEW a \in AConns, AgentRecvErr(a)
      PROVE  AgentsMatchThreads'
    BY <1>AgentRecvErr DEF AgentRecvErr, shared, athread, cthread, peers
<1>AgentCleanAgents. ASSUME NEW a \in AConns, AgentCleanAgents(a)
      PROVE  AgentsMatchThreads'
    BY <1>AgentCleanAgents DEF AgentCleanAgents, shared, athread, cthread, peers
<1>AgentCleanRoutes. ASSUME NEW a \in AConns, AgentCleanRoutes(a)
      PROVE  AgentsMatchThreads'
    BY <1>AgentCleanRoutes DEF AgentCleanRoutes, shared, athread, cthread, peers
<1>AgentCleanError. ASSUME NEW a \in AConns, AgentCleanError(a)
      PROVE  AgentsMatchThreads'
    BY <1>AgentCleanError DEF AgentCleanError, shared, athread, cthread, peers
<1>AgentClose. ASSUME NEW a \in AConns, AgentClose(a)
      PROVE  AgentsMatchThreads'
    BY <1>AgentClose DEF AgentClose, shared, athread, cthread, peers
<1>AgentRecvResult. ASSUME NEW a \in AConns, AgentRecvResult(a)
      PROVE  AgentsMatchThreads'
    BY <1>AgentRecvResult DEF AgentRecvResult, shared, athread, cthread, peers
<1>AgentDrop. ASSUME NEW a \in AConns, AgentDrop(a)
      PROVE  AgentsMatchThreads'
    BY <1>AgentDrop DEF AgentDrop, shared, athread, cthread, peers
<1>JobQuit. ASSUME NEW a \in AConns, JobQuit(a)
      PROVE  AgentsMatchThreads'
    BY <1>JobQuit DEF JobQuit, shared, athread, cthread, peers
<1>WriterExit. ASSUME NEW a \in AConns, WriterExit(a)
      PROVE  AgentsMatchThreads'
    BY <1>WriterExit DEF WriterExit, shared, athread, cthread, peers
<1>LookupReq. ASSUME NEW c \in CConns, LookupReq(c)
      PROVE  AgentsMatchThreads'
    BY <1>LookupReq DEF LookupReq, shared, athread, cthread, peers
<1>LookupRoute. ASSUME NEW c \in CConns, LookupRoute(c)
      PROVE  AgentsMatchThreads'
    BY <1>LookupRoute DEF LookupRoute, shared, athread, cthread, peers
<1>ContConn. ASSUME NEW c \in CConns, ContConn(c)
      PROVE  AgentsMatchThreads'
    BY <1>ContConn DEF ContConn, shared, athread, cthread, peers
<1>ChooseAgent. ASSUME NEW c \in CConns, ChooseAgent(c)
      PROVE  AgentsMatchThreads'
    BY <1>ChooseAgent DEF ChooseAgent, shared, athread, cthread, peers
<1>GetConn. ASSUME NEW c \in CConns, GetConn(c)
      PROVE  AgentsMatchThreads'
    BY <1>GetConn DEF GetConn, shared, athread, cthread, peers
<1>InsertRoute. ASSUME NEW c \in CConns, InsertRoute(c)
      PROVE  AgentsMatchThreads'
    BY <1>InsertRoute DEF InsertRoute, shared, athread, cthread, peers
<1>InsertReq. ASSUME NEW c \in CConns, InsertReq(c)
      PROVE  AgentsMatchThreads'
    BY <1>InsertReq DEF InsertReq, shared, athread, cthread, peers
<1>Send. ASSUME NEW c \in CConns, Send(c)
      PROVE  AgentsMatchThreads'
    BY <1>Send DEF Send, shared, athread, cthread, peers
<1>CtrlRmRoute. ASSUME NEW c \in CConns, CtrlRmRoute(c)
      PROVE  AgentsMatchThreads'
    BY <1>CtrlRmRoute DEF CtrlRmRoute, shared, athread, cthread, peers
<1>CtrlRmReq. ASSUME NEW c \in CConns, CtrlRmReq(c)
      PROVE  AgentsMatchThreads'
    BY <1>CtrlRmReq DEF CtrlRmReq, shared, athread, cthread, peers
<1>CtrlErr410. ASSUME NEW c \in CConns, CtrlErr410(c)
      PROVE  AgentsMatchThreads'
    BY <1>CtrlErr410 DEF CtrlErr410, shared, athread, cthread, peers
<1>CtrlCleanRoutes. ASSUME NEW c \in CConns, CtrlCleanRoutes(c)
      PROVE  AgentsMatchThreads'
    BY <1>CtrlCleanRoutes DEF CtrlCleanRoutes, shared, athread, cthread, peers
<1>CtrlCancel. ASSUME NEW c \in CConns, CtrlCancel(c)
      PROVE  AgentsMatchThreads'
    BY <1>CtrlCancel DEF CtrlCancel, shared, athread, cthread, peers
<1>CtrlClose. ASSUME NEW c \in CConns, CtrlClose(c)
      PROVE  AgentsMatchThreads'
    BY <1>CtrlClose DEF CtrlClose, shared, athread, cthread, peers
<1>CtrlRecvReq. ASSUME NEW c \in CConns, CtrlRecvReq(c)
      PROVE  AgentsMatchThreads'
    BY <1>CtrlRecvReq DEF CtrlRecvReq, shared, athread, cthread, peers
<1>CtrlRecvErr. ASSUME NEW c \in CConns, CtrlRecvErr(c)
      PROVE  AgentsMatchThreads'
    BY <1>CtrlRecvErr DEF CtrlRecvErr, shared, athread, cthread, peers
<1>idle. ASSUME UNCHANGED vars
      PROVE  AgentsMatchThreads'
    BY <1>idle DEF vars, shared, athread, cthread, peers
<1> QED
  BY <1>idle, <1>HelloReject, <1>Register, <1>SendHelloOk, <1>AgentForward, <1>AgentRmRoute, <1>AgentRmReq, <1>AgentRecvErr, <1>AgentCleanAgents, <1>AgentCleanRoutes, <1>AgentCleanError, <1>AgentClose, <1>AgentRecvResult, <1>AgentDrop, <1>JobQuit, <1>WriterExit, <1>LookupReq, <1>LookupRoute, <1>ContConn, <1>ChooseAgent, <1>GetConn, <1>InsertRoute, <1>InsertReq, <1>Send, <1>CtrlRmRoute, <1>CtrlRmReq, <1>CtrlErr410, <1>CtrlCleanRoutes, <1>CtrlCancel, <1>CtrlClose, <1>CtrlRecvReq, <1>CtrlRecvErr
  DEF Next, Finished, AgentWork, AgentPeer, CtrlWork

(* Only a live controller thread inserts routes, and it ends by removing them. *)
LEMMA OwnerStep ==
  TypeOK /\ RouteOwnerAlive /\ [Next]_vars => RouteOwnerAlive'
<1> SUFFICES ASSUME TypeOK, RouteOwnerAlive, [Next]_vars
             PROVE  RouteOwnerAlive'
  OBVIOUS
<1> USE DEF TypeOK, RouteOwnerAlive
<1>HelloReject. ASSUME NEW a \in AConns, HelloReject(a)
      PROVE  RouteOwnerAlive'
    BY <1>HelloReject DEF HelloReject, Entries, WithoutRoute, Goto, Return, shared, athread, cthread, peers
<1>Register. ASSUME NEW a \in AConns, Register(a)
      PROVE  RouteOwnerAlive'
    BY <1>Register DEF Register, Entries, WithoutRoute, Goto, Return, shared, athread, cthread, peers
<1>SendHelloOk. ASSUME NEW a \in AConns, SendHelloOk(a)
      PROVE  RouteOwnerAlive'
    BY <1>SendHelloOk DEF SendHelloOk, Entries, WithoutRoute, Goto, Return, shared, athread, cthread, peers
<1>AgentForward. ASSUME NEW a \in AConns, AgentForward(a)
      PROVE  RouteOwnerAlive'
    BY <1>AgentForward DEF AgentForward, Entries, WithoutRoute, Goto, Return, shared, athread, cthread, peers
<1>AgentRmRoute. ASSUME NEW a \in AConns, AgentRmRoute(a)
      PROVE  RouteOwnerAlive'
    BY <1>AgentRmRoute DEF AgentRmRoute, Entries, WithoutRoute, Goto, Return, shared, athread, cthread, peers
<1>AgentRmReq. ASSUME NEW a \in AConns, AgentRmReq(a)
      PROVE  RouteOwnerAlive'
    BY <1>AgentRmReq DEF AgentRmReq, Entries, WithoutRoute, Goto, Return, shared, athread, cthread, peers
<1>AgentRecvErr. ASSUME NEW a \in AConns, AgentRecvErr(a)
      PROVE  RouteOwnerAlive'
    BY <1>AgentRecvErr DEF AgentRecvErr, Entries, WithoutRoute, Goto, Return, shared, athread, cthread, peers
<1>AgentCleanAgents. ASSUME NEW a \in AConns, AgentCleanAgents(a)
      PROVE  RouteOwnerAlive'
    BY <1>AgentCleanAgents DEF AgentCleanAgents, Entries, WithoutRoute, Goto, Return, shared, athread, cthread, peers
<1>AgentCleanRoutes. ASSUME NEW a \in AConns, AgentCleanRoutes(a)
      PROVE  RouteOwnerAlive'
    BY <1>AgentCleanRoutes DEF AgentCleanRoutes, Entries, WithoutRoute, Goto, Return, shared, athread, cthread, peers
<1>AgentCleanError. ASSUME NEW a \in AConns, AgentCleanError(a)
      PROVE  RouteOwnerAlive'
    BY <1>AgentCleanError DEF AgentCleanError, Entries, WithoutRoute, Goto, Return, shared, athread, cthread, peers
<1>AgentClose. ASSUME NEW a \in AConns, AgentClose(a)
      PROVE  RouteOwnerAlive'
    BY <1>AgentClose DEF AgentClose, Entries, WithoutRoute, Goto, Return, shared, athread, cthread, peers
<1>AgentRecvResult. ASSUME NEW a \in AConns, AgentRecvResult(a)
      PROVE  RouteOwnerAlive'
    BY <1>AgentRecvResult DEF AgentRecvResult, Entries, WithoutRoute, Goto, Return, shared, athread, cthread, peers
<1>AgentDrop. ASSUME NEW a \in AConns, AgentDrop(a)
      PROVE  RouteOwnerAlive'
    BY <1>AgentDrop DEF AgentDrop, Entries, WithoutRoute, Goto, Return, shared, athread, cthread, peers
<1>JobQuit. ASSUME NEW a \in AConns, JobQuit(a)
      PROVE  RouteOwnerAlive'
    BY <1>JobQuit DEF JobQuit, Entries, WithoutRoute, Goto, Return, shared, athread, cthread, peers
<1>WriterExit. ASSUME NEW a \in AConns, WriterExit(a)
      PROVE  RouteOwnerAlive'
    BY <1>WriterExit DEF WriterExit, Entries, WithoutRoute, Goto, Return, shared, athread, cthread, peers
<1>LookupReq. ASSUME NEW c \in CConns, LookupReq(c)
      PROVE  RouteOwnerAlive'
    BY <1>LookupReq DEF LookupReq, Entries, WithoutRoute, Goto, Return, shared, athread, cthread, peers
<1>LookupRoute. ASSUME NEW c \in CConns, LookupRoute(c)
      PROVE  RouteOwnerAlive'
    BY <1>LookupRoute DEF LookupRoute, Entries, WithoutRoute, Goto, Return, shared, athread, cthread, peers
<1>ContConn. ASSUME NEW c \in CConns, ContConn(c)
      PROVE  RouteOwnerAlive'
    BY <1>ContConn DEF ContConn, Entries, WithoutRoute, Goto, Return, shared, athread, cthread, peers
<1>ChooseAgent. ASSUME NEW c \in CConns, ChooseAgent(c)
      PROVE  RouteOwnerAlive'
    BY <1>ChooseAgent DEF ChooseAgent, Entries, WithoutRoute, Goto, Return, shared, athread, cthread, peers
<1>GetConn. ASSUME NEW c \in CConns, GetConn(c)
      PROVE  RouteOwnerAlive'
    BY <1>GetConn DEF GetConn, Entries, WithoutRoute, Goto, Return, shared, athread, cthread, peers
<1>InsertRoute. ASSUME NEW c \in CConns, InsertRoute(c)
      PROVE  RouteOwnerAlive'
    BY <1>InsertRoute DEF InsertRoute, Entries, WithoutRoute, Goto, Return, shared, athread, cthread, peers
<1>InsertReq. ASSUME NEW c \in CConns, InsertReq(c)
      PROVE  RouteOwnerAlive'
    BY <1>InsertReq DEF InsertReq, Entries, WithoutRoute, Goto, Return, shared, athread, cthread, peers
<1>Send. ASSUME NEW c \in CConns, Send(c)
      PROVE  RouteOwnerAlive'
    BY <1>Send DEF Send, Entries, WithoutRoute, Goto, Return, shared, athread, cthread, peers
<1>CtrlRmRoute. ASSUME NEW c \in CConns, CtrlRmRoute(c)
      PROVE  RouteOwnerAlive'
    BY <1>CtrlRmRoute DEF CtrlRmRoute, Entries, WithoutRoute, Goto, Return, shared, athread, cthread, peers
<1>CtrlRmReq. ASSUME NEW c \in CConns, CtrlRmReq(c)
      PROVE  RouteOwnerAlive'
    BY <1>CtrlRmReq DEF CtrlRmReq, Entries, WithoutRoute, Goto, Return, shared, athread, cthread, peers
<1>CtrlErr410. ASSUME NEW c \in CConns, CtrlErr410(c)
      PROVE  RouteOwnerAlive'
    BY <1>CtrlErr410 DEF CtrlErr410, Entries, WithoutRoute, Goto, Return, shared, athread, cthread, peers
<1>CtrlCleanRoutes. ASSUME NEW c \in CConns, CtrlCleanRoutes(c)
      PROVE  RouteOwnerAlive'
    BY <1>CtrlCleanRoutes DEF CtrlCleanRoutes, Entries, WithoutRoute, Goto, Return, shared, athread, cthread, peers
<1>CtrlCancel. ASSUME NEW c \in CConns, CtrlCancel(c)
      PROVE  RouteOwnerAlive'
    BY <1>CtrlCancel DEF CtrlCancel, Entries, WithoutRoute, Goto, Return, shared, athread, cthread, peers
<1>CtrlClose. ASSUME NEW c \in CConns, CtrlClose(c)
      PROVE  RouteOwnerAlive'
    BY <1>CtrlClose DEF CtrlClose, Entries, WithoutRoute, Goto, Return, shared, athread, cthread, peers
<1>CtrlRecvReq. ASSUME NEW c \in CConns, CtrlRecvReq(c)
      PROVE  RouteOwnerAlive'
    BY <1>CtrlRecvReq DEF CtrlRecvReq, Entries, WithoutRoute, Goto, Return, shared, athread, cthread, peers
<1>CtrlRecvErr. ASSUME NEW c \in CConns, CtrlRecvErr(c)
      PROVE  RouteOwnerAlive'
    BY <1>CtrlRecvErr DEF CtrlRecvErr, Entries, WithoutRoute, Goto, Return, shared, athread, cthread, peers
<1>idle. ASSUME UNCHANGED vars
      PROVE  RouteOwnerAlive'
    BY <1>idle DEF vars, shared, athread, cthread, peers
<1> QED
  BY <1>idle, <1>HelloReject, <1>Register, <1>SendHelloOk, <1>AgentForward, <1>AgentRmRoute, <1>AgentRmReq, <1>AgentRecvErr, <1>AgentCleanAgents, <1>AgentCleanRoutes, <1>AgentCleanError, <1>AgentClose, <1>AgentRecvResult, <1>AgentDrop, <1>JobQuit, <1>WriterExit, <1>LookupReq, <1>LookupRoute, <1>ContConn, <1>ChooseAgent, <1>GetConn, <1>InsertRoute, <1>InsertReq, <1>Send, <1>CtrlRmRoute, <1>CtrlRmReq, <1>CtrlErr410, <1>CtrlCleanRoutes, <1>CtrlCancel, <1>CtrlClose, <1>CtrlRecvReq, <1>CtrlRecvErr
  DEF Next, Finished, AgentWork, AgentPeer, CtrlWork

(* A name leads to a connection that announced it. *)
LEMMA RegisteredName ==
  ASSUME TypeOK, AgentsMatchThreads, NEW n \in Names, agents[n] # NoConn
  PROVE  agents[n] \in AConns /\ NameOf[agents[n]] = n
<1>1. agents[n] \in AConns
  BY DEF TypeOK
<1> QED
  BY <1>1 DEF AgentsMatchThreads

(* When one call moves on, the locals the next step uses are what matters. *)
LEMMA CallLocals ==
  ASSUME TypeOK, LocalsSet, NEW c \in CConns, UNCHANGED athread,
         \A d \in CConns \ {c} : call'[d] = call[d] /\ cpc'[d] = cpc[d],
         cpc'[c] \notin {"loop", "cleanroutes", "cancel", "closed"} => call'[c] \in Calls,
         cpc'[c] \in {"contconn", "getconn"} => call'[c].name \in Names,
         cpc'[c] \in {"insroute", "insreq", "send"} =>
           call'[c].conn \in AConns /\ call'[c].name = NameOf[call'[c].conn]
  PROVE  LocalsSet'
<1>1. \A a \in AConns : aframe'[a] = aframe[a] /\ aheld'[a] = aheld[a] /\ apc'[a] = apc[a]
  BY DEF athread
<1>2. \A d \in CConns : cpc'[d] \notin {"loop", "cleanroutes", "cancel", "closed"} =>
        call'[d] \in Calls
  BY DEF LocalsSet
<1>3. \A d \in CConns : cpc'[d] \in {"contconn", "getconn"} => call'[d].name \in Names
  BY DEF LocalsSet
<1>4. \A d \in CConns : cpc'[d] \in {"insroute", "insreq", "send"} =>
        call'[d].conn \in AConns /\ call'[d].name = NameOf[call'[d].conn]
  BY SMTT(60) DEF LocalsSet
<1> QED
  BY <1>1, <1>2, <1>3, <1>4 DEF LocalsSet

(* The locals each step uses were set by the steps before it. *)
LEMMA LocalsStep ==
  TypeOK /\ TypeOK' /\ LocalsSet /\ AgentsMatchThreads /\ [Next]_vars => LocalsSet'
<1> SUFFICES ASSUME TypeOK, TypeOK', LocalsSet, AgentsMatchThreads, [Next]_vars
             PROVE  LocalsSet'
  OBVIOUS
<1> USE NameOfAssumption, NoConnAssumption DEF TypeOK, LocalsSet
<1>HelloReject. ASSUME NEW a \in AConns, HelloReject(a)
      PROVE  LocalsSet'
    BY <1>HelloReject DEF HelloReject, shared, athread, cthread, peers
<1>Register. ASSUME NEW a \in AConns, Register(a)
      PROVE  LocalsSet'
    BY <1>Register DEF Register, shared, athread, cthread, peers
<1>SendHelloOk. ASSUME NEW a \in AConns, SendHelloOk(a)
      PROVE  LocalsSet'
    BY <1>SendHelloOk DEF SendHelloOk, shared, athread, cthread, peers
<1>AgentForward. ASSUME NEW a \in AConns, AgentForward(a)
      PROVE  LocalsSet'
    BY <1>AgentForward DEF AgentForward, shared, athread, cthread, peers
<1>AgentRmRoute. ASSUME NEW a \in AConns, AgentRmRoute(a)
      PROVE  LocalsSet'
    BY <1>AgentRmRoute DEF AgentRmRoute, shared, athread, cthread, peers
<1>AgentRmReq. ASSUME NEW a \in AConns, AgentRmReq(a)
      PROVE  LocalsSet'
    BY <1>AgentRmReq DEF AgentRmReq, shared, athread, cthread, peers
<1>AgentRecvErr. ASSUME NEW a \in AConns, AgentRecvErr(a)
      PROVE  LocalsSet'
    BY <1>AgentRecvErr DEF AgentRecvErr, shared, athread, cthread, peers
<1>AgentCleanAgents. ASSUME NEW a \in AConns, AgentCleanAgents(a)
      PROVE  LocalsSet'
    BY <1>AgentCleanAgents DEF AgentCleanAgents, shared, athread, cthread, peers
<1>AgentCleanRoutes. ASSUME NEW a \in AConns, AgentCleanRoutes(a)
      PROVE  LocalsSet'
    BY <1>AgentCleanRoutes DEF AgentCleanRoutes, shared, athread, cthread, peers
<1>AgentCleanError. ASSUME NEW a \in AConns, AgentCleanError(a)
      PROVE  LocalsSet'
    BY <1>AgentCleanError DEF AgentCleanError, shared, athread, cthread, peers
<1>AgentClose. ASSUME NEW a \in AConns, AgentClose(a)
      PROVE  LocalsSet'
    BY <1>AgentClose DEF AgentClose, shared, athread, cthread, peers
<1>AgentRecvResult. ASSUME NEW a \in AConns, AgentRecvResult(a)
      PROVE  LocalsSet'
    <2>1. PICK j \in JobsOn(a), kind \in {"data", "final"} :
             IF RouteOf(j.route) = {}
               THEN UNCHANGED athread
               ELSE /\ apc' = [apc EXCEPT ![a] = "forward"]
                    /\ aframe' = [aframe EXCEPT ![a] = [job |-> j, kind |-> kind]]
                    /\ aheld' = [aheld EXCEPT ![a] = RouteOf(j.route)]
      BY <1>AgentRecvResult DEF AgentRecvResult
    <2>2. UNCHANGED <<cpc, call>>
      BY <1>AgentRecvResult DEF AgentRecvResult, cthread
    <2>3. CASE UNCHANGED athread
      BY <2>2, <2>3 DEF athread
    <2>4. CASE /\ apc' = [apc EXCEPT ![a] = "forward"]
               /\ aframe' = [aframe EXCEPT ![a] = [job |-> j, kind |-> kind]]
               /\ aheld' = [aheld EXCEPT ![a] = RouteOf(j.route)]
      <3>1. [job |-> j, kind |-> kind] \in Results /\ j.conn = a
        BY DEF Results, JobsOn
      <3>2. \A e \in aheld'[a] : e.id = j.route
        BY <2>4 DEF RouteOf
      <3>3. \A b \in AConns \ {a} : apc'[b] = apc[b] /\ aframe'[b] = aframe[b] /\ aheld'[b] = aheld[b]
        BY <2>4
      <3>4. apc'[a] = "forward" /\ aframe'[a] = [job |-> j, kind |-> kind]
        BY <2>4
      <3>5. aframe'[a] \in Results /\ aframe'[a].job.conn = a
            /\ \A e \in aheld'[a] : e.id = aframe'[a].job.route
        BY <3>1, <3>2, <3>4
      <3>6. \A b \in AConns : apc'[b] \in {"forward", "rmroute", "rmreq"} => aframe'[b] \in Results
        BY <3>3, <3>5
      <3>7. \A b \in AConns : apc'[b] = "forward" =>
              aframe'[b].job.conn = b /\ \A e \in aheld'[b] : e.id = aframe'[b].job.route
        BY <3>3, <3>5
      <3> QED
        BY <2>2, <3>6, <3>7
    <2> QED
      BY <2>1, <2>3, <2>4
<1>AgentDrop. ASSUME NEW a \in AConns, AgentDrop(a)
      PROVE  LocalsSet'
    BY <1>AgentDrop DEF AgentDrop, shared, athread, cthread, peers
<1>JobQuit. ASSUME NEW a \in AConns, JobQuit(a)
      PROVE  LocalsSet'
    BY <1>JobQuit DEF JobQuit, shared, athread, cthread, peers
<1>WriterExit. ASSUME NEW a \in AConns, WriterExit(a)
      PROVE  LocalsSet'
    BY <1>WriterExit DEF WriterExit, shared, athread, cthread, peers
<1>LookupReq. ASSUME NEW c \in CConns, LookupReq(c)
      PROVE  LocalsSet'
    <2>1. /\ cpc[c] = "byreq" /\ cpc'[c] \in {"choose", "route"} /\ UNCHANGED athread
          /\ \A d \in CConns \ {c} : cpc'[d] = cpc[d]
      BY <1>LookupReq DEF LookupReq, Goto, Return
    <2>2. /\ \A d \in CConns \ {c} : call'[d] = call[d]
          /\ call'[c] \in Calls
      BY <2>1, <1>LookupReq, LookupReqEffect DEF CallStep
    <2>3. /\ cpc'[c] \in {"contconn", "getconn"} => call'[c].name \in Names
          /\ cpc'[c] \in {"insroute", "insreq", "send"} =>
               call'[c].conn \in AConns /\ call'[c].name = NameOf[call'[c].conn]
      BY <2>1, <1>LookupReq, LookupReqEffect
    <2> QED
      BY <2>1, <2>2, <2>3, CallLocals
<1>LookupRoute. ASSUME NEW c \in CConns, LookupRoute(c)
      PROVE  LocalsSet'
    <2>1. /\ cpc[c] = "route" /\ cpc'[c] \in {"choose", "contconn"} /\ UNCHANGED athread
          /\ \A d \in CConns \ {c} : cpc'[d] = cpc[d]
      BY <1>LookupRoute DEF LookupRoute, Goto, Return
    <2>2. /\ \A d \in CConns \ {c} : call'[d] = call[d]
          /\ call'[c] \in Calls
      BY <2>1, <1>LookupRoute, LookupRouteEffect DEF CallStep
    <2>3. /\ cpc'[c] \in {"contconn", "getconn"} => call'[c].name \in Names
          /\ cpc'[c] \in {"insroute", "insreq", "send"} =>
               call'[c].conn \in AConns /\ call'[c].name = NameOf[call'[c].conn]
      BY <2>1, <1>LookupRoute, LookupRouteEffect DEF Entries
    <2> QED
      BY <2>1, <2>2, <2>3, CallLocals
<1>ContConn. ASSUME NEW c \in CConns, ContConn(c)
      PROVE  LocalsSet'
    <2>1. /\ cpc[c] = "contconn" /\ cpc'[c] \in {"rmroute", "send"} /\ UNCHANGED athread
          /\ \A d \in CConns \ {c} : cpc'[d] = cpc[d]
          /\ agents[call[c].name] = NoConn => cpc'[c] = "rmroute"
      BY <1>ContConn DEF ContConn, Goto, Return
    <2>2. /\ \A d \in CConns \ {c} : call'[d] = call[d]
          /\ call'[c] \in Calls
      BY <2>1, <1>ContConn, ContConnEffect DEF CallStep
    <2>3. /\ cpc'[c] \in {"contconn", "getconn"} => call'[c].name \in Names
          /\ cpc'[c] \in {"insroute", "insreq", "send"} =>
               call'[c].conn \in AConns /\ call'[c].name = NameOf[call'[c].conn]
      <3>1. cpc'[c] = "send" => agents[call[c].name] # NoConn
        BY <2>1
      <3>2. /\ call[c].name \in Names /\ call'[c].name = call[c].name
            /\ call'[c].conn = agents[call[c].name]
        BY <1>ContConn, ContConnEffect
      <3> QED
        BY <2>1, <3>1, <3>2, RegisteredName
    <2> QED
      BY <2>1, <2>2, <2>3, CallLocals, SMTT(60)
<1>ChooseAgent. ASSUME NEW c \in CConns, ChooseAgent(c)
      PROVE  LocalsSet'
    <2>1. /\ cpc[c] = "choose" /\ cpc'[c] \in {"loop", "getconn"} /\ UNCHANGED athread
          /\ \A d \in CConns \ {c} : cpc'[d] = cpc[d]
      BY <1>ChooseAgent DEF ChooseAgent, Goto, Return
    <2>2. /\ \A d \in CConns \ {c} : call'[d] = call[d]
          /\ cpc'[c] # "loop" => call'[c] \in Calls
      BY <2>1, <1>ChooseAgent, ChooseAgentEffect DEF CallStep
    <2>3. /\ cpc'[c] \in {"contconn", "getconn"} => call'[c].name \in Names
          /\ cpc'[c] \in {"insroute", "insreq", "send"} =>
               call'[c].conn \in AConns /\ call'[c].name = NameOf[call'[c].conn]
      BY <2>1, <1>ChooseAgent, ChooseAgentEffect
    <2> QED
      BY <2>1, <2>2, <2>3, CallLocals, SMTT(60)
<1>GetConn. ASSUME NEW c \in CConns, GetConn(c)
      PROVE  LocalsSet'
    <2>1. /\ cpc[c] = "getconn" /\ cpc'[c] \in {"loop", "insroute"} /\ UNCHANGED athread
          /\ \A d \in CConns \ {c} : cpc'[d] = cpc[d]
      BY <1>GetConn DEF GetConn, Goto, Return
    <2>2. /\ \A d \in CConns \ {c} : call'[d] = call[d]
          /\ cpc'[c] # "loop" => call'[c] \in Calls
      BY <2>1, <1>GetConn, GetConnEffect DEF CallStep
    <2>3. /\ cpc'[c] \in {"contconn", "getconn"} => call'[c].name \in Names
          /\ cpc'[c] \in {"insroute", "insreq", "send"} =>
               call'[c].conn \in AConns /\ call'[c].name = NameOf[call'[c].conn]
      BY <2>1, <1>GetConn, GetConnEffect, RegisteredName, SMTT(60)
    <2> QED
      BY <2>1, <2>2, <2>3, CallLocals
<1>InsertRoute. ASSUME NEW c \in CConns, InsertRoute(c)
      PROVE  LocalsSet'
    <2>1. /\ cpc[c] = "insroute" /\ cpc'[c] \in {"insreq"} /\ UNCHANGED athread
          /\ \A d \in CConns \ {c} : cpc'[d] = cpc[d]
      BY <1>InsertRoute DEF InsertRoute, Goto, Return
    <2>2. /\ \A d \in CConns \ {c} : call'[d] = call[d]
          /\ call'[c] \in Calls
      BY <2>1, <1>InsertRoute, InsertRouteEffect DEF CallStep
    <2>3. /\ cpc'[c] \in {"contconn", "getconn"} => call'[c].name \in Names
          /\ cpc'[c] \in {"insroute", "insreq", "send"} =>
               call'[c].conn \in AConns /\ call'[c].name = NameOf[call'[c].conn]
      BY <2>1, <1>InsertRoute, InsertRouteEffect
    <2> QED
      BY <2>1, <2>2, <2>3, CallLocals, ZenonT(60)
<1>InsertReq. ASSUME NEW c \in CConns, InsertReq(c)
      PROVE  LocalsSet'
    BY <1>InsertReq DEF InsertReq, Calls, Goto, Return, shared, athread, cthread, peers
<1>Send. ASSUME NEW c \in CConns, Send(c)
      PROVE  LocalsSet'
    <2>1. UNCHANGED athread
      BY <1>Send DEF Send
    <2>0. cpc[c] = "send"
      BY <1>Send DEF Send
    <2>2. CASE Goto(c, "rmroute") /\ UNCHANGED call
      <3>1. cpc'[c] = "rmroute" /\ \A d \in CConns \ {c} : cpc'[d] = cpc[d]
        BY <2>2 DEF Goto, TypeOK
      <3>2. call' = call /\ call[c] \in Calls
        BY <2>0, <2>2 DEF LocalsSet
      <3> QED
        BY <2>1, <3>1, <3>2, CallLocals
    <2>3. CASE Return(c)
      BY <2>1, <2>3, CallLocals DEF Return
    <2>4. Return(c) \/ (Goto(c, "rmroute") /\ UNCHANGED call)
      BY <1>Send DEF Send
    <2> QED
      BY <2>2, <2>3, <2>4
<1>CtrlRmRoute. ASSUME NEW c \in CConns, CtrlRmRoute(c)
      PROVE  LocalsSet'
    BY <1>CtrlRmRoute DEF CtrlRmRoute, Goto, Return, shared, athread, cthread, peers
<1>CtrlRmReq. ASSUME NEW c \in CConns, CtrlRmReq(c)
      PROVE  LocalsSet'
    BY <1>CtrlRmReq DEF CtrlRmReq, Goto, Return, shared, athread, cthread, peers
<1>CtrlErr410. ASSUME NEW c \in CConns, CtrlErr410(c)
      PROVE  LocalsSet'
    BY <1>CtrlErr410 DEF CtrlErr410, Goto, Return, shared, athread, cthread, peers
<1>CtrlCleanRoutes. ASSUME NEW c \in CConns, CtrlCleanRoutes(c)
      PROVE  LocalsSet'
    BY <1>CtrlCleanRoutes DEF CtrlCleanRoutes, Goto, Return, shared, athread, cthread, peers
<1>CtrlCancel. ASSUME NEW c \in CConns, CtrlCancel(c)
      PROVE  LocalsSet'
    BY <1>CtrlCancel DEF CtrlCancel, Goto, Return, shared, athread, cthread, peers
<1>CtrlClose. ASSUME NEW c \in CConns, CtrlClose(c)
      PROVE  LocalsSet'
    BY <1>CtrlClose DEF CtrlClose, Goto, Return, shared, athread, cthread, peers
<1>CtrlRecvReq. ASSUME NEW c \in CConns, CtrlRecvReq(c)
      PROVE  LocalsSet'
    BY <1>CtrlRecvReq DEF CtrlRecvReq, Calls, Goto, Return, shared, athread, cthread, peers
<1>CtrlRecvErr. ASSUME NEW c \in CConns, CtrlRecvErr(c)
      PROVE  LocalsSet'
    BY <1>CtrlRecvErr DEF CtrlRecvErr, Goto, Return, shared, athread, cthread, peers
<1>idle. ASSUME UNCHANGED vars
      PROVE  LocalsSet'
    BY <1>idle DEF vars, shared, athread, cthread, peers
<1> QED
  BY <1>idle, <1>HelloReject, <1>Register, <1>SendHelloOk, <1>AgentForward, <1>AgentRmRoute, <1>AgentRmReq, <1>AgentRecvErr, <1>AgentCleanAgents, <1>AgentCleanRoutes, <1>AgentCleanError, <1>AgentClose, <1>AgentRecvResult, <1>AgentDrop, <1>JobQuit, <1>WriterExit, <1>LookupReq, <1>LookupRoute, <1>ContConn, <1>ChooseAgent, <1>GetConn, <1>InsertRoute, <1>InsertReq, <1>Send, <1>CtrlRmRoute, <1>CtrlRmReq, <1>CtrlErr410, <1>CtrlCleanRoutes, <1>CtrlCancel, <1>CtrlClose, <1>CtrlRecvReq, <1>CtrlRecvErr
  DEF Next, Finished, AgentWork, AgentPeer, CtrlWork

(* Where an entry can be. *)
LEMMA HeldIff ==
  /\ \A e : e \in Held <=> \/ e \in routes
                           \/ \E a \in AConns : e \in aheld[a]
                           \/ \E c \in CConns : e \in cheld[c]
  /\ \A e : e \in Held' <=> \/ e \in routes'
                            \/ \E a \in AConns : e \in aheld'[a]
                            \/ \E c \in CConns : e \in cheld'[c]
<1>1. \A e : e \in HeldByAgents <=> \E a \in AConns : e \in aheld[a]
  BY DEF HeldByAgents
<1>2. \A e : e \in HeldByCtrls <=> \E c \in CConns : e \in cheld[c]
  BY DEF HeldByCtrls
<1>3. \A e : e \in HeldByAgents' <=> \E a \in AConns : e \in aheld'[a]
  BY DEF HeldByAgents
<1>4. \A e : e \in HeldByCtrls' <=> \E c \in CConns : e \in cheld'[c]
  BY DEF HeldByCtrls
<1> QED
  BY <1>1, <1>2, <1>3, <1>4 DEF Held

(* Where a job can be. *)
LEMMA JobsIff ==
  /\ \A j : j \in JobsInSight <=>
       j \in jobs \/ \E a \in AConns : aframe[a] \in Results /\ j = aframe[a].job
  /\ \A j : j \in JobsInSight' <=>
       j \in jobs' \/ \E a \in AConns : aframe'[a] \in Results /\ j = aframe'[a].job
BY DEF JobsInSight

(* Ids stay coherent when no entry, job or by_req key appears and the locals  *)
(* of every call still agree with the entries.                                *)
LEMMA IdsKept ==
  ASSUME TypeOK, TypeOK', IdsInv,
         Held' \subseteq Held, JobsInSight' \subseteq JobsInSight, nextRoute' = nextRoute,
         \A k \in CConns \X ReqIds : byReq'[k] \in {byReq[k], 0},
         \A c \in CConns : call'[c] \in Calls => call'[c].route < nextRoute,
         \A e \in Held, c \in CConns :
           cpc'[c] \in {"route", "contconn", "insreq", "send"} /\ e.id = call'[c].route =>
             /\ e.ctrl = c /\ e.req = call'[c].req
             /\ cpc'[c] \in {"contconn", "insreq", "send"} => e.agent = call'[c].name
  PROVE  IdsInv'
<1> USE DEF IdsInv
<1>1. IdsFresh'
  <2>1. \A e \in Held' : e.id > 0 /\ e.id < nextRoute'
    BY DEF IdsFresh
  <2>2. \A k \in CConns \X ReqIds : byReq'[k] < nextRoute'
    BY SMTT(60) DEF IdsFresh, TypeOK
  <2>3. \A j \in JobsInSight' : j.route < nextRoute'
    BY DEF IdsFresh
  <2> QED
    BY <2>1, <2>2, <2>3 DEF IdsFresh
<1>2. IdsUnique'
  BY DEF IdsUnique
<1>3. JobsAgree'
  BY DEF JobsAgree
<1>4. ByReqAgrees'
  <2>1. \A e \in Held : e.id > 0
    BY DEF IdsFresh
  <2> QED
    BY <2>1 DEF ByReqAgrees
<1>5. CallsAgree'
  BY DEF CallsAgree
<1> QED
  BY <1>1, <1>2, <1>3, <1>4, <1>5

(* Every step keeps route ids coherent. *)
LEMMA IdsStep ==
  TypeOK /\ TypeOK' /\ AgentsMatchThreads /\ LocalsSet /\ IdsInv /\ [Next]_vars => IdsInv'
<1> SUFFICES ASSUME TypeOK, TypeOK', AgentsMatchThreads, LocalsSet, IdsInv, [Next]_vars
             PROVE  IdsInv'
  OBVIOUS
<1>a. ASSUME UNCHANGED <<cpc, call>>
      PROVE  /\ \A c \in CConns : call'[c] \in Calls => call'[c].route < nextRoute
             /\ \A e \in Held, c \in CConns :
                  cpc'[c] \in {"route", "contconn", "insreq", "send"} /\ e.id = call'[c].route =>
                    /\ e.ctrl = c /\ e.req = call'[c].req
                    /\ cpc'[c] \in {"contconn", "insreq", "send"} => e.agent = call'[c].name
    BY <1>a DEF IdsInv, IdsFresh, CallsAgree
<1>h. UNCHANGED <<routes, aheld, cheld>> => Held' = Held
    BY DEF Held, HeldByAgents, HeldByCtrls
<1>j. UNCHANGED <<jobs, aframe>> => JobsInSight' = JobsInSight
    BY DEF JobsInSight
<1>HelloReject. ASSUME NEW a \in AConns, HelloReject(a)
      PROVE  IdsInv'
    <2>1. Held' \subseteq Held
      BY <1>HelloReject, <1>h DEF HelloReject, shared, athread, cthread, peers
    <2>2. JobsInSight' \subseteq JobsInSight
      BY <1>HelloReject, <1>j DEF HelloReject, shared, athread, cthread, peers
    <2>3. /\ nextRoute' = nextRoute /\ UNCHANGED <<cpc, call>>
          /\ \A k \in CConns \X ReqIds : byReq'[k] \in {byReq[k], 0}
      BY <1>HelloReject DEF HelloReject, shared, athread, cthread, peers
    <2> QED
      BY <2>1, <2>2, <2>3, <1>a, IdsKept
<1>Register. ASSUME NEW a \in AConns, Register(a)
      PROVE  IdsInv'
    <2>1. Held' \subseteq Held
      BY <1>Register, <1>h DEF Register, shared, athread, cthread, peers
    <2>2. JobsInSight' \subseteq JobsInSight
      BY <1>Register, <1>j DEF Register, shared, athread, cthread, peers
    <2>3. /\ nextRoute' = nextRoute /\ UNCHANGED <<cpc, call>>
          /\ \A k \in CConns \X ReqIds : byReq'[k] \in {byReq[k], 0}
      BY <1>Register DEF Register, shared, athread, cthread, peers
    <2> QED
      BY <2>1, <2>2, <2>3, <1>a, IdsKept
<1>SendHelloOk. ASSUME NEW a \in AConns, SendHelloOk(a)
      PROVE  IdsInv'
    <2>1. Held' \subseteq Held
      BY <1>SendHelloOk, <1>h DEF SendHelloOk, shared, athread, cthread, peers
    <2>2. JobsInSight' \subseteq JobsInSight
      BY <1>SendHelloOk, <1>j DEF SendHelloOk, shared, athread, cthread, peers
    <2>3. /\ nextRoute' = nextRoute /\ UNCHANGED <<cpc, call>>
          /\ \A k \in CConns \X ReqIds : byReq'[k] \in {byReq[k], 0}
      BY <1>SendHelloOk DEF SendHelloOk, shared, athread, cthread, peers
    <2> QED
      BY <2>1, <2>2, <2>3, <1>a, IdsKept
<1>AgentForward. ASSUME NEW a \in AConns, AgentForward(a)
      PROVE  IdsInv'
    <2>1. Held' \subseteq Held
      BY <1>AgentForward, HeldIff DEF AgentForward, TypeOK, shared, athread, cthread, peers
    <2>2. JobsInSight' \subseteq JobsInSight
      BY <1>AgentForward, JobsIff DEF AgentForward, TypeOK, NoResult, Results, shared, athread, cthread, peers
    <2>3. /\ nextRoute' = nextRoute /\ UNCHANGED <<cpc, call>>
          /\ \A k \in CConns \X ReqIds : byReq'[k] \in {byReq[k], 0}
      BY <1>AgentForward DEF AgentForward, shared, athread, cthread, peers
    <2> QED
      BY <2>1, <2>2, <2>3, <1>a, IdsKept
<1>AgentRmRoute. ASSUME NEW a \in AConns, AgentRmRoute(a)
      PROVE  IdsInv'
    <2>1. Held' \subseteq Held
      BY <1>AgentRmRoute, HeldIff DEF AgentRmRoute, TypeOK, RouteOf, WithoutRoute, shared, athread, cthread, peers
    <2>2. JobsInSight' \subseteq JobsInSight
      BY <1>AgentRmRoute, <1>j DEF AgentRmRoute, shared, athread, cthread, peers
    <2>3. /\ nextRoute' = nextRoute /\ UNCHANGED <<cpc, call>>
          /\ \A k \in CConns \X ReqIds : byReq'[k] \in {byReq[k], 0}
      BY <1>AgentRmRoute DEF AgentRmRoute, shared, athread, cthread, peers
    <2> QED
      BY <2>1, <2>2, <2>3, <1>a, IdsKept
<1>AgentRmReq. ASSUME NEW a \in AConns, AgentRmReq(a)
      PROVE  IdsInv'
    <2>1. Held' \subseteq Held
      BY <1>AgentRmReq, HeldIff DEF AgentRmReq, TypeOK, shared, athread, cthread, peers
    <2>2. JobsInSight' \subseteq JobsInSight
      BY <1>AgentRmReq, JobsIff DEF AgentRmReq, TypeOK, NoResult, Results, shared, athread, cthread, peers
    <2>3. /\ nextRoute' = nextRoute /\ UNCHANGED <<cpc, call>>
          /\ \A k \in CConns \X ReqIds : byReq'[k] \in {byReq[k], 0}
      BY <1>AgentRmReq DEF AgentRmReq, Unlink, TypeOK, shared, athread, cthread, peers
    <2> QED
      BY <2>1, <2>2, <2>3, <1>a, IdsKept
<1>AgentRecvErr. ASSUME NEW a \in AConns, AgentRecvErr(a)
      PROVE  IdsInv'
    <2>1. Held' \subseteq Held
      BY <1>AgentRecvErr, <1>h DEF AgentRecvErr, shared, athread, cthread, peers
    <2>2. JobsInSight' \subseteq JobsInSight
      BY <1>AgentRecvErr, <1>j DEF AgentRecvErr, shared, athread, cthread, peers
    <2>3. /\ nextRoute' = nextRoute /\ UNCHANGED <<cpc, call>>
          /\ \A k \in CConns \X ReqIds : byReq'[k] \in {byReq[k], 0}
      BY <1>AgentRecvErr DEF AgentRecvErr, shared, athread, cthread, peers
    <2> QED
      BY <2>1, <2>2, <2>3, <1>a, IdsKept
<1>AgentCleanAgents. ASSUME NEW a \in AConns, AgentCleanAgents(a)
      PROVE  IdsInv'
    <2>1. Held' \subseteq Held
      BY <1>AgentCleanAgents, <1>h DEF AgentCleanAgents, shared, athread, cthread, peers
    <2>2. JobsInSight' \subseteq JobsInSight
      BY <1>AgentCleanAgents, <1>j DEF AgentCleanAgents, shared, athread, cthread, peers
    <2>3. /\ nextRoute' = nextRoute /\ UNCHANGED <<cpc, call>>
          /\ \A k \in CConns \X ReqIds : byReq'[k] \in {byReq[k], 0}
      BY <1>AgentCleanAgents DEF AgentCleanAgents, shared, athread, cthread, peers
    <2> QED
      BY <2>1, <2>2, <2>3, <1>a, IdsKept
<1>AgentCleanRoutes. ASSUME NEW a \in AConns, AgentCleanRoutes(a)
      PROVE  IdsInv'
    <2>1. Held' \subseteq Held
      BY <1>AgentCleanRoutes, HeldIff DEF AgentCleanRoutes, TypeOK, shared, athread, cthread, peers
    <2>2. JobsInSight' \subseteq JobsInSight
      BY <1>AgentCleanRoutes, <1>j DEF AgentCleanRoutes, shared, athread, cthread, peers
    <2>3. /\ nextRoute' = nextRoute /\ UNCHANGED <<cpc, call>>
          /\ \A k \in CConns \X ReqIds : byReq'[k] \in {byReq[k], 0}
      BY <1>AgentCleanRoutes DEF AgentCleanRoutes, Unlink, TypeOK, shared, athread, cthread, peers
    <2> QED
      BY <2>1, <2>2, <2>3, <1>a, IdsKept
<1>AgentCleanError. ASSUME NEW a \in AConns, AgentCleanError(a)
      PROVE  IdsInv'
    <2>1. Held' \subseteq Held
      BY <1>AgentCleanError, HeldIff DEF AgentCleanError, TypeOK, shared, athread, cthread, peers
    <2>2. JobsInSight' \subseteq JobsInSight
      BY <1>AgentCleanError, <1>j DEF AgentCleanError, shared, athread, cthread, peers
    <2>3. /\ nextRoute' = nextRoute /\ UNCHANGED <<cpc, call>>
          /\ \A k \in CConns \X ReqIds : byReq'[k] \in {byReq[k], 0}
      BY <1>AgentCleanError DEF AgentCleanError, shared, athread, cthread, peers
    <2> QED
      BY <2>1, <2>2, <2>3, <1>a, IdsKept
<1>AgentClose. ASSUME NEW a \in AConns, AgentClose(a)
      PROVE  IdsInv'
    <2>1. Held' \subseteq Held
      BY <1>AgentClose, <1>h DEF AgentClose, shared, athread, cthread, peers
    <2>2. JobsInSight' \subseteq JobsInSight
      BY <1>AgentClose, <1>j DEF AgentClose, shared, athread, cthread, peers
    <2>3. /\ nextRoute' = nextRoute /\ UNCHANGED <<cpc, call>>
          /\ \A k \in CConns \X ReqIds : byReq'[k] \in {byReq[k], 0}
      BY <1>AgentClose DEF AgentClose, shared, athread, cthread, peers
    <2> QED
      BY <2>1, <2>2, <2>3, <1>a, IdsKept
<1>AgentRecvResult. ASSUME NEW a \in AConns, AgentRecvResult(a)
      PROVE  IdsInv'
    <2>1. Held' \subseteq Held
      <3>1. routes' = routes /\ cheld' = cheld
        BY <1>AgentRecvResult DEF AgentRecvResult, shared, cthread
      <3>2. \A b \in AConns : aheld'[b] \subseteq aheld[b] \cup routes
        BY <1>AgentRecvResult DEF AgentRecvResult, TypeOK, RouteOf, athread
      <3> QED
        BY <3>1, <3>2, HeldIff
    <2>2. JobsInSight' \subseteq JobsInSight
      BY <1>AgentRecvResult, JobsIff DEF AgentRecvResult, TypeOK, JobsOn, Results, shared, athread, cthread, peers
    <2>3. /\ nextRoute' = nextRoute /\ UNCHANGED <<cpc, call>>
          /\ \A k \in CConns \X ReqIds : byReq'[k] \in {byReq[k], 0}
      BY <1>AgentRecvResult DEF AgentRecvResult, shared, athread, cthread, peers
    <2> QED
      BY <2>1, <2>2, <2>3, <1>a, IdsKept
<1>AgentDrop. ASSUME NEW a \in AConns, AgentDrop(a)
      PROVE  IdsInv'
    <2>1. Held' \subseteq Held
      BY <1>AgentDrop, <1>h DEF AgentDrop, shared, athread, cthread, peers
    <2>2. JobsInSight' \subseteq JobsInSight
      BY <1>AgentDrop, <1>j DEF AgentDrop, shared, athread, cthread, peers
    <2>3. /\ nextRoute' = nextRoute /\ UNCHANGED <<cpc, call>>
          /\ \A k \in CConns \X ReqIds : byReq'[k] \in {byReq[k], 0}
      BY <1>AgentDrop DEF AgentDrop, shared, athread, cthread, peers
    <2> QED
      BY <2>1, <2>2, <2>3, <1>a, IdsKept
<1>JobQuit. ASSUME NEW a \in AConns, JobQuit(a)
      PROVE  IdsInv'
    <2>1. Held' \subseteq Held
      BY <1>JobQuit, <1>h DEF JobQuit, shared, athread, cthread, peers
    <2>2. JobsInSight' \subseteq JobsInSight
      BY <1>JobQuit, JobsIff DEF JobQuit, TypeOK, JobsOn, shared, athread, cthread, peers
    <2>3. /\ nextRoute' = nextRoute /\ UNCHANGED <<cpc, call>>
          /\ \A k \in CConns \X ReqIds : byReq'[k] \in {byReq[k], 0}
      BY <1>JobQuit DEF JobQuit, shared, athread, cthread, peers
    <2> QED
      BY <2>1, <2>2, <2>3, <1>a, IdsKept
<1>WriterExit. ASSUME NEW a \in AConns, WriterExit(a)
      PROVE  IdsInv'
    <2>1. Held' \subseteq Held
      BY <1>WriterExit, <1>h DEF WriterExit, shared, athread, cthread, peers
    <2>2. JobsInSight' \subseteq JobsInSight
      BY <1>WriterExit, <1>j DEF WriterExit, shared, athread, cthread, peers
    <2>3. /\ nextRoute' = nextRoute /\ UNCHANGED <<cpc, call>>
          /\ \A k \in CConns \X ReqIds : byReq'[k] \in {byReq[k], 0}
      BY <1>WriterExit DEF WriterExit, shared, athread, cthread, peers
    <2> QED
      BY <2>1, <2>2, <2>3, <1>a, IdsKept
<1>LookupReq. ASSUME NEW c \in CConns, LookupReq(c)
      PROVE  IdsInv'
    <2>1. Held' \subseteq Held
      BY <1>LookupReq, <1>h DEF LookupReq, shared, athread, cthread, peers
    <2>2. JobsInSight' \subseteq JobsInSight
      BY <1>LookupReq, <1>j DEF LookupReq, shared, athread, cthread, peers
    <2>3. /\ nextRoute' = nextRoute
          /\ \A k \in CConns \X ReqIds : byReq'[k] \in {byReq[k], 0}
          /\ \A d \in CConns \ {c} : cpc'[d] = cpc[d]
      BY <1>LookupReq DEF LookupReq, TypeOK, Goto, Return, shared, athread, cthread, peers
    <2>4. \A d \in CConns \ {c} : call'[d] = call[d]
      BY <1>LookupReq, LookupReqEffect DEF CallStep, TypeOK
    <2>a. cpc'[c] \in {"choose", "route"}
      BY <1>LookupReq DEF LookupReq, Goto, TypeOK
    <2>b. /\ call[c] \in Calls /\ call'[c].req = call[c].req
          /\ call'[c].route = byReq[<<c, call[c].req>>]
      BY <1>LookupReq, LookupReqEffect DEF CallStep
    <2>c. <<c, call[c].req>> \in CConns \X ReqIds
      BY <2>b DEF Calls
    <2>5. /\ cpc'[c] \in {"choose", "route"}
          /\ call'[c].req = call[c].req /\ call'[c].route = byReq[<<c, call[c].req>>]
          /\ <<c, call[c].req>> \in CConns \X ReqIds
      BY <2>a, <2>b, <2>c
    <2>6. call'[c].route < nextRoute
      BY <2>5 DEF IdsInv, IdsFresh
    <2>7. \A e \in Held : e.id = call'[c].route => e.ctrl = c /\ e.req = call'[c].req
      BY <2>5 DEF IdsInv, ByReqAgrees
    <2>8. \A d \in CConns : call'[d] \in Calls => call'[d].route < nextRoute
      BY <2>4, <2>6 DEF IdsInv, IdsFresh
    <2>9. \A e \in Held, d \in CConns :
            cpc'[d] \in {"route", "contconn", "insreq", "send"} /\ e.id = call'[d].route =>
              /\ e.ctrl = d /\ e.req = call'[d].req
              /\ cpc'[d] \in {"contconn", "insreq", "send"} => e.agent = call'[d].name
      BY <2>3, <2>4, <2>5, <2>7 DEF IdsInv, CallsAgree
    <2> QED
      BY <2>1, <2>2, <2>3, <2>8, <2>9, IdsKept
<1>LookupRoute. ASSUME NEW c \in CConns, LookupRoute(c)
      PROVE  IdsInv'
    <2>1. Held' \subseteq Held
      BY <1>LookupRoute, <1>h DEF LookupRoute, shared, athread, cthread, peers
    <2>2. JobsInSight' \subseteq JobsInSight
      BY <1>LookupRoute, <1>j DEF LookupRoute, shared, athread, cthread, peers
    <2>3. /\ nextRoute' = nextRoute
          /\ \A k \in CConns \X ReqIds : byReq'[k] \in {byReq[k], 0}
          /\ \A d \in CConns \ {c} : cpc'[d] = cpc[d]
      BY <1>LookupRoute DEF LookupRoute, TypeOK, Goto, Return, shared, athread, cthread, peers
    <2>4. \A d \in CConns \ {c} : call'[d] = call[d]
      BY <1>LookupRoute, LookupRouteEffect DEF CallStep, TypeOK
    <2>5. cpc[c] = "route" /\ call[c] \in Calls
      BY <1>LookupRoute DEF LookupRoute, LocalsSet
    <2>6. call'[c].route < nextRoute
      BY <1>LookupRoute, <2>5, LookupRouteEffect DEF IdsInv, IdsFresh
    <2>7. cpc'[c] \in {"choose", "contconn"} /\ (cpc'[c] = "contconn" =>
            \A e \in Held : e.id = call'[c].route =>
              e.ctrl = c /\ e.req = call'[c].req /\ e.agent = call'[c].name)
      <3>1. CASE cpc'[c] = "choose" /\ UNCHANGED call
        BY <3>1
      <3>2. CASE /\ cpc'[c] = "contconn" /\ CallStep(c)
                 /\ call'[c].route = call[c].route
                 /\ \E e \in routes : e.id = call[c].route /\ call'[c].name = e.agent
        <4>1. PICK f \in routes : f.id = call[c].route /\ call'[c].name = f.agent
          BY <3>2
        <4>2. f \in Held
          BY HeldIff
        <4> QED
          BY <2>5, <3>2, <4>1, <4>2 DEF IdsInv, IdsUnique, CallsAgree, CallStep
      <3> QED
        BY <1>LookupRoute, LookupRouteEffect, <3>1, <3>2
    <2>8. \A d \in CConns : call'[d] \in Calls => call'[d].route < nextRoute
      BY <2>4, <2>6 DEF IdsInv, IdsFresh
    <2>9. \A e \in Held, d \in CConns :
            cpc'[d] \in {"route", "contconn", "insreq", "send"} /\ e.id = call'[d].route =>
              /\ e.ctrl = d /\ e.req = call'[d].req
              /\ cpc'[d] \in {"contconn", "insreq", "send"} => e.agent = call'[d].name
      BY <2>3, <2>4, <2>5, <2>7 DEF IdsInv, CallsAgree
    <2> QED
      BY <2>1, <2>2, <2>3, <2>8, <2>9, IdsKept
<1>ContConn. ASSUME NEW c \in CConns, ContConn(c)
      PROVE  IdsInv'
    <2>1. Held' \subseteq Held
      BY <1>ContConn, <1>h DEF ContConn, shared, athread, cthread, peers
    <2>2. JobsInSight' \subseteq JobsInSight
      BY <1>ContConn, <1>j DEF ContConn, shared, athread, cthread, peers
    <2>3. /\ nextRoute' = nextRoute
          /\ \A k \in CConns \X ReqIds : byReq'[k] \in {byReq[k], 0}
          /\ \A d \in CConns \ {c} : cpc'[d] = cpc[d]
      BY <1>ContConn DEF ContConn, TypeOK, Goto, Return, shared, athread, cthread, peers
    <2>4. \A d \in CConns \ {c} : call'[d] = call[d]
      BY <1>ContConn, ContConnEffect DEF CallStep, TypeOK
    <2>5. /\ cpc[c] = "contconn" /\ cpc'[c] \in {"rmroute", "send"} /\ call[c] \in Calls
          /\ call'[c].req = call[c].req /\ call'[c].route = call[c].route
          /\ call'[c].name = call[c].name
      <3>1. cpc[c] = "contconn" /\ cpc'[c] \in {"rmroute", "send"}
        BY <1>ContConn DEF ContConn, Goto, TypeOK
      <3> QED
        BY <3>1, <1>ContConn, ContConnEffect DEF CallStep
    <2>6. call'[c].route < nextRoute
      BY <2>5 DEF IdsInv, IdsFresh
    <2>7. \A e \in Held : e.id = call'[c].route =>
            e.ctrl = c /\ e.req = call'[c].req /\ e.agent = call'[c].name
      BY <2>5 DEF IdsInv, CallsAgree
    <2>8. \A d \in CConns : call'[d] \in Calls => call'[d].route < nextRoute
      BY <2>4, <2>6 DEF IdsInv, IdsFresh
    <2>9. \A e \in Held, d \in CConns :
            cpc'[d] \in {"route", "contconn", "insreq", "send"} /\ e.id = call'[d].route =>
              /\ e.ctrl = d /\ e.req = call'[d].req
              /\ cpc'[d] \in {"contconn", "insreq", "send"} => e.agent = call'[d].name
      BY <2>3, <2>4, <2>5, <2>7 DEF IdsInv, CallsAgree
    <2> QED
      BY <2>1, <2>2, <2>3, <2>8, <2>9, IdsKept
<1>ChooseAgent. ASSUME NEW c \in CConns, ChooseAgent(c)
      PROVE  IdsInv'
    <2>1. Held' \subseteq Held
      BY <1>ChooseAgent, <1>h DEF ChooseAgent, shared, athread, cthread, peers
    <2>2. JobsInSight' \subseteq JobsInSight
      BY <1>ChooseAgent, <1>j DEF ChooseAgent, shared, athread, cthread, peers
    <2>3. /\ nextRoute' = nextRoute
          /\ \A k \in CConns \X ReqIds : byReq'[k] \in {byReq[k], 0}
          /\ \A d \in CConns \ {c} : cpc'[d] = cpc[d]
      BY <1>ChooseAgent DEF ChooseAgent, TypeOK, Goto, Return, shared, athread, cthread, peers
    <2>4. \A d \in CConns \ {c} : call'[d] = call[d]
      <3>1. CASE call' = [call EXCEPT ![c] = NoCall]
        BY <3>1 DEF TypeOK
      <3>2. CASE CallStep(c)
        BY <3>2 DEF CallStep
      <3> QED
        BY <3>1, <3>2, <1>ChooseAgent, ChooseAgentEffect
    <2>5. cpc'[c] \in {"loop", "getconn"} /\ call[c] \in Calls
      <3>1. cpc[c] \notin {"loop", "cleanroutes", "cancel", "closed"}
        BY <1>ChooseAgent DEF ChooseAgent
      <3>2. call[c] \in Calls
        BY <3>1 DEF LocalsSet
      <3> QED
        BY <3>2, <1>ChooseAgent, ChooseAgentEffect
    <2>6. call'[c] \in Calls => call'[c].route < nextRoute
      BY <1>ChooseAgent, <2>5, ChooseAgentEffect DEF IdsInv, IdsFresh, TypeOK, Calls, NoCall
    <2>8. \A d \in CConns : call'[d] \in Calls => call'[d].route < nextRoute
      BY <2>4, <2>6 DEF IdsInv, IdsFresh
    <2>9. \A e \in Held, d \in CConns :
            cpc'[d] \in {"route", "contconn", "insreq", "send"} /\ e.id = call'[d].route =>
              /\ e.ctrl = d /\ e.req = call'[d].req
              /\ cpc'[d] \in {"contconn", "insreq", "send"} => e.agent = call'[d].name
      BY <2>3, <2>4, <2>5 DEF IdsInv, CallsAgree
    <2> QED
      BY <2>1, <2>2, <2>3, <2>8, <2>9, IdsKept
<1>GetConn. ASSUME NEW c \in CConns, GetConn(c)
      PROVE  IdsInv'
    <2>1. Held' \subseteq Held
      BY <1>GetConn, <1>h DEF GetConn, shared, athread, cthread, peers
    <2>2. JobsInSight' \subseteq JobsInSight
      BY <1>GetConn, <1>j DEF GetConn, shared, athread, cthread, peers
    <2>3. /\ nextRoute' = nextRoute
          /\ \A k \in CConns \X ReqIds : byReq'[k] \in {byReq[k], 0}
          /\ \A d \in CConns \ {c} : cpc'[d] = cpc[d]
      BY <1>GetConn DEF GetConn, TypeOK, Goto, Return, shared, athread, cthread, peers
    <2>4. \A d \in CConns \ {c} : call'[d] = call[d]
      BY <1>GetConn, GetConnEffect DEF CallStep, TypeOK
    <2>5. cpc'[c] \in {"loop", "insroute"} /\ call[c] \in Calls
      <3>1. cpc[c] \notin {"loop", "cleanroutes", "cancel", "closed"}
        BY <1>GetConn DEF GetConn
      <3>2. call[c] \in Calls
        BY <3>1 DEF LocalsSet
      <3> QED
        BY <3>2, <1>GetConn, GetConnEffect
    <2>6. call'[c] \in Calls => call'[c].route < nextRoute
      BY <1>GetConn, <2>5, GetConnEffect DEF IdsInv, IdsFresh, TypeOK, Calls, NoCall
    <2>8. \A d \in CConns : call'[d] \in Calls => call'[d].route < nextRoute
      BY <2>4, <2>6 DEF IdsInv, IdsFresh
    <2>9. \A e \in Held, d \in CConns :
            cpc'[d] \in {"route", "contconn", "insreq", "send"} /\ e.id = call'[d].route =>
              /\ e.ctrl = d /\ e.req = call'[d].req
              /\ cpc'[d] \in {"contconn", "insreq", "send"} => e.agent = call'[d].name
      BY <2>3, <2>4, <2>5 DEF IdsInv, CallsAgree
    <2> QED
      BY <2>1, <2>2, <2>3, <2>8, <2>9, IdsKept
<1>CtrlRmRoute. ASSUME NEW c \in CConns, CtrlRmRoute(c)
      PROVE  IdsInv'
    <2>1. Held' \subseteq Held
      BY <1>CtrlRmRoute, HeldIff DEF CtrlRmRoute, TypeOK, RouteOf, WithoutRoute, shared, athread, cthread, peers
    <2>2. JobsInSight' \subseteq JobsInSight
      BY <1>CtrlRmRoute, <1>j DEF CtrlRmRoute, shared, athread, cthread, peers
    <2>3. /\ nextRoute' = nextRoute
          /\ \A k \in CConns \X ReqIds : byReq'[k] \in {byReq[k], 0}
          /\ \A d \in CConns \ {c} : cpc'[d] = cpc[d]
      BY <1>CtrlRmRoute DEF CtrlRmRoute, TypeOK, Goto, Return, shared, athread, cthread, peers
    <2>4. \A d \in CConns \ {c} : call'[d] = call[d]
      BY <1>CtrlRmRoute DEF CtrlRmRoute, TypeOK, Goto, Return, cthread
    <2>5. /\ cpc'[c] \notin {"route", "contconn", "insreq", "send"}
          /\ call'[c] = call[c]
      BY <1>CtrlRmRoute DEF CtrlRmRoute, Goto, TypeOK, cthread
    <2>6. call'[c] \in Calls => call'[c].route < nextRoute
      BY <2>5 DEF IdsInv, IdsFresh
    <2>8. \A d \in CConns : call'[d] \in Calls => call'[d].route < nextRoute
      BY <2>4, <2>6 DEF IdsInv, IdsFresh
    <2>9. \A e \in Held, d \in CConns :
            cpc'[d] \in {"route", "contconn", "insreq", "send"} /\ e.id = call'[d].route =>
              /\ e.ctrl = d /\ e.req = call'[d].req
              /\ cpc'[d] \in {"contconn", "insreq", "send"} => e.agent = call'[d].name
      BY <2>3, <2>4, <2>5 DEF IdsInv, CallsAgree
    <2> QED
      BY <2>1, <2>2, <2>3, <2>8, <2>9, IdsKept
<1>CtrlRmReq. ASSUME NEW c \in CConns, CtrlRmReq(c)
      PROVE  IdsInv'
    <2>1. Held' \subseteq Held
      BY <1>CtrlRmReq, HeldIff, SMTT(60) DEF CtrlRmReq, TypeOK, shared, athread, cthread, peers
    <2>2. JobsInSight' \subseteq JobsInSight
      BY <1>CtrlRmReq, <1>j DEF CtrlRmReq, shared, athread, cthread, peers
    <2>3. /\ nextRoute' = nextRoute
          /\ \A k \in CConns \X ReqIds : byReq'[k] \in {byReq[k], 0}
          /\ \A d \in CConns \ {c} : cpc'[d] = cpc[d]
      BY <1>CtrlRmReq DEF CtrlRmReq, Unlink, TypeOK, Goto, Return, shared, athread, cthread, peers
    <2>4. \A d \in CConns \ {c} : call'[d] = call[d]
      BY <1>CtrlRmReq DEF CtrlRmReq, TypeOK, Goto, Return, cthread
    <2>5. /\ cpc'[c] \notin {"route", "contconn", "insreq", "send"}
          /\ call'[c] = call[c]
      BY <1>CtrlRmReq DEF CtrlRmReq, Goto, TypeOK, cthread
    <2>6. call'[c] \in Calls => call'[c].route < nextRoute
      BY <2>5 DEF IdsInv, IdsFresh
    <2>8. \A d \in CConns : call'[d] \in Calls => call'[d].route < nextRoute
      BY <2>4, <2>6 DEF IdsInv, IdsFresh
    <2>9. \A e \in Held, d \in CConns :
            cpc'[d] \in {"route", "contconn", "insreq", "send"} /\ e.id = call'[d].route =>
              /\ e.ctrl = d /\ e.req = call'[d].req
              /\ cpc'[d] \in {"contconn", "insreq", "send"} => e.agent = call'[d].name
      BY <2>3, <2>4, <2>5 DEF IdsInv, CallsAgree
    <2> QED
      BY <2>1, <2>2, <2>3, <2>8, <2>9, IdsKept
<1>CtrlErr410. ASSUME NEW c \in CConns, CtrlErr410(c)
      PROVE  IdsInv'
    <2>1. Held' \subseteq Held
      BY <1>CtrlErr410, <1>h DEF CtrlErr410, shared, athread, cthread, peers
    <2>2. JobsInSight' \subseteq JobsInSight
      BY <1>CtrlErr410, <1>j DEF CtrlErr410, shared, athread, cthread, peers
    <2>3. /\ nextRoute' = nextRoute
          /\ \A k \in CConns \X ReqIds : byReq'[k] \in {byReq[k], 0}
          /\ \A d \in CConns \ {c} : cpc'[d] = cpc[d]
      BY <1>CtrlErr410 DEF CtrlErr410, TypeOK, Goto, Return, shared, athread, cthread, peers
    <2>4. \A d \in CConns \ {c} : call'[d] = call[d]
      BY <1>CtrlErr410 DEF CtrlErr410, TypeOK, Goto, Return, cthread
    <2>5. cpc'[c] = "loop" /\ call'[c] = NoCall
      BY <1>CtrlErr410 DEF CtrlErr410, Goto, Return, TypeOK
    <2>6. call'[c] \in Calls => call'[c].route < nextRoute
      BY <2>5 DEF Calls, NoCall
    <2>8. \A d \in CConns : call'[d] \in Calls => call'[d].route < nextRoute
      BY <2>4, <2>6 DEF IdsInv, IdsFresh
    <2>9. \A e \in Held, d \in CConns :
            cpc'[d] \in {"route", "contconn", "insreq", "send"} /\ e.id = call'[d].route =>
              /\ e.ctrl = d /\ e.req = call'[d].req
              /\ cpc'[d] \in {"contconn", "insreq", "send"} => e.agent = call'[d].name
      BY <2>3, <2>4, <2>5 DEF IdsInv, CallsAgree
    <2> QED
      BY <2>1, <2>2, <2>3, <2>8, <2>9, IdsKept
<1>CtrlCleanRoutes. ASSUME NEW c \in CConns, CtrlCleanRoutes(c)
      PROVE  IdsInv'
    <2>1. Held' \subseteq Held
      BY <1>CtrlCleanRoutes, HeldIff, SMTT(60) DEF CtrlCleanRoutes, TypeOK, shared, athread, cthread, peers
    <2>2. JobsInSight' \subseteq JobsInSight
      BY <1>CtrlCleanRoutes, <1>j DEF CtrlCleanRoutes, shared, athread, cthread, peers
    <2>3. /\ nextRoute' = nextRoute
          /\ \A k \in CConns \X ReqIds : byReq'[k] \in {byReq[k], 0}
          /\ \A d \in CConns \ {c} : cpc'[d] = cpc[d]
      BY <1>CtrlCleanRoutes DEF CtrlCleanRoutes, Unlink, TypeOK, Goto, Return, shared, athread, cthread, peers
    <2>4. \A d \in CConns \ {c} : call'[d] = call[d]
      BY <1>CtrlCleanRoutes DEF CtrlCleanRoutes, TypeOK, Goto, Return, cthread
    <2>5. /\ cpc'[c] \notin {"route", "contconn", "insreq", "send"}
          /\ call'[c] = call[c]
      BY <1>CtrlCleanRoutes DEF CtrlCleanRoutes, Goto, TypeOK, cthread
    <2>6. call'[c] \in Calls => call'[c].route < nextRoute
      BY <2>5 DEF IdsInv, IdsFresh
    <2>8. \A d \in CConns : call'[d] \in Calls => call'[d].route < nextRoute
      BY <2>4, <2>6 DEF IdsInv, IdsFresh
    <2>9. \A e \in Held, d \in CConns :
            cpc'[d] \in {"route", "contconn", "insreq", "send"} /\ e.id = call'[d].route =>
              /\ e.ctrl = d /\ e.req = call'[d].req
              /\ cpc'[d] \in {"contconn", "insreq", "send"} => e.agent = call'[d].name
      BY <2>3, <2>4, <2>5 DEF IdsInv, CallsAgree
    <2> QED
      BY <2>1, <2>2, <2>3, <2>8, <2>9, IdsKept
<1>CtrlCancel. ASSUME NEW c \in CConns, CtrlCancel(c)
      PROVE  IdsInv'
    <2>1. Held' \subseteq Held
      BY <1>CtrlCancel, HeldIff DEF CtrlCancel, TypeOK, shared, athread, cthread, peers
    <2>2. JobsInSight' \subseteq JobsInSight
      BY <1>CtrlCancel, <1>j DEF CtrlCancel, shared, athread, cthread, peers
    <2>3. /\ nextRoute' = nextRoute
          /\ \A k \in CConns \X ReqIds : byReq'[k] \in {byReq[k], 0}
          /\ \A d \in CConns \ {c} : cpc'[d] = cpc[d]
      BY <1>CtrlCancel DEF CtrlCancel, TypeOK, Goto, Return, shared, athread, cthread, peers
    <2>4. \A d \in CConns \ {c} : call'[d] = call[d]
      BY <1>CtrlCancel DEF CtrlCancel, TypeOK, Goto, Return, cthread
    <2>5. /\ cpc'[c] \notin {"route", "contconn", "insreq", "send"}
          /\ call'[c] = call[c]
      BY <1>CtrlCancel DEF CtrlCancel, Goto, TypeOK, cthread
    <2>6. call'[c] \in Calls => call'[c].route < nextRoute
      BY <2>5 DEF IdsInv, IdsFresh
    <2>8. \A d \in CConns : call'[d] \in Calls => call'[d].route < nextRoute
      BY <2>4, <2>6 DEF IdsInv, IdsFresh
    <2>9. \A e \in Held, d \in CConns :
            cpc'[d] \in {"route", "contconn", "insreq", "send"} /\ e.id = call'[d].route =>
              /\ e.ctrl = d /\ e.req = call'[d].req
              /\ cpc'[d] \in {"contconn", "insreq", "send"} => e.agent = call'[d].name
      BY <2>3, <2>4, <2>5 DEF IdsInv, CallsAgree
    <2> QED
      BY <2>1, <2>2, <2>3, <2>8, <2>9, IdsKept
<1>CtrlClose. ASSUME NEW c \in CConns, CtrlClose(c)
      PROVE  IdsInv'
    <2>1. Held' \subseteq Held
      BY <1>CtrlClose, <1>h DEF CtrlClose, shared, athread, cthread, peers
    <2>2. JobsInSight' \subseteq JobsInSight
      BY <1>CtrlClose, <1>j DEF CtrlClose, shared, athread, cthread, peers
    <2>3. /\ nextRoute' = nextRoute
          /\ \A k \in CConns \X ReqIds : byReq'[k] \in {byReq[k], 0}
          /\ \A d \in CConns \ {c} : cpc'[d] = cpc[d]
      BY <1>CtrlClose DEF CtrlClose, TypeOK, Goto, Return, shared, athread, cthread, peers
    <2>4. \A d \in CConns \ {c} : call'[d] = call[d]
      BY <1>CtrlClose DEF CtrlClose, TypeOK, Goto, Return, cthread
    <2>5. /\ cpc'[c] \notin {"route", "contconn", "insreq", "send"}
          /\ call'[c] = call[c]
      BY <1>CtrlClose DEF CtrlClose, Goto, TypeOK, cthread
    <2>6. call'[c] \in Calls => call'[c].route < nextRoute
      BY <2>5 DEF IdsInv, IdsFresh
    <2>8. \A d \in CConns : call'[d] \in Calls => call'[d].route < nextRoute
      BY <2>4, <2>6 DEF IdsInv, IdsFresh
    <2>9. \A e \in Held, d \in CConns :
            cpc'[d] \in {"route", "contconn", "insreq", "send"} /\ e.id = call'[d].route =>
              /\ e.ctrl = d /\ e.req = call'[d].req
              /\ cpc'[d] \in {"contconn", "insreq", "send"} => e.agent = call'[d].name
      BY <2>3, <2>4, <2>5 DEF IdsInv, CallsAgree
    <2> QED
      BY <2>1, <2>2, <2>3, <2>8, <2>9, IdsKept
<1>CtrlRecvReq. ASSUME NEW c \in CConns, CtrlRecvReq(c)
      PROVE  IdsInv'
    <2>1. Held' \subseteq Held
      BY <1>CtrlRecvReq, <1>h DEF CtrlRecvReq, shared, athread, cthread, peers
    <2>2. JobsInSight' \subseteq JobsInSight
      BY <1>CtrlRecvReq, <1>j DEF CtrlRecvReq, shared, athread, cthread, peers
    <2>3. /\ nextRoute' = nextRoute
          /\ \A k \in CConns \X ReqIds : byReq'[k] \in {byReq[k], 0}
          /\ \A d \in CConns \ {c} : cpc'[d] = cpc[d]
      BY <1>CtrlRecvReq DEF CtrlRecvReq, TypeOK, Goto, Return, shared, athread, cthread, peers
    <2>4. \A d \in CConns \ {c} : call'[d] = call[d]
      BY <1>CtrlRecvReq DEF CtrlRecvReq, TypeOK, Goto, Return, cthread
    <2>5. cpc'[c] = "byreq" /\ call'[c].route = 0
      BY <1>CtrlRecvReq DEF CtrlRecvReq, Goto, TypeOK
    <2>6. call'[c] \in Calls => call'[c].route < nextRoute
      BY <2>5 DEF TypeOK
    <2>8. \A d \in CConns : call'[d] \in Calls => call'[d].route < nextRoute
      BY <2>4, <2>6 DEF IdsInv, IdsFresh
    <2>9. \A e \in Held, d \in CConns :
            cpc'[d] \in {"route", "contconn", "insreq", "send"} /\ e.id = call'[d].route =>
              /\ e.ctrl = d /\ e.req = call'[d].req
              /\ cpc'[d] \in {"contconn", "insreq", "send"} => e.agent = call'[d].name
      BY <2>3, <2>4, <2>5 DEF IdsInv, CallsAgree
    <2> QED
      BY <2>1, <2>2, <2>3, <2>8, <2>9, IdsKept
<1>CtrlRecvErr. ASSUME NEW c \in CConns, CtrlRecvErr(c)
      PROVE  IdsInv'
    <2>1. Held' \subseteq Held
      BY <1>CtrlRecvErr, <1>h DEF CtrlRecvErr, shared, athread, cthread, peers
    <2>2. JobsInSight' \subseteq JobsInSight
      BY <1>CtrlRecvErr, <1>j DEF CtrlRecvErr, shared, athread, cthread, peers
    <2>3. /\ nextRoute' = nextRoute
          /\ \A k \in CConns \X ReqIds : byReq'[k] \in {byReq[k], 0}
          /\ \A d \in CConns \ {c} : cpc'[d] = cpc[d]
      BY <1>CtrlRecvErr DEF CtrlRecvErr, TypeOK, Goto, Return, shared, athread, cthread, peers
    <2>4. \A d \in CConns \ {c} : call'[d] = call[d]
      BY <1>CtrlRecvErr DEF CtrlRecvErr, TypeOK, Goto, Return, cthread
    <2>5. /\ cpc'[c] \notin {"route", "contconn", "insreq", "send"}
          /\ call'[c] = call[c]
      BY <1>CtrlRecvErr DEF CtrlRecvErr, Goto, TypeOK, cthread
    <2>6. call'[c] \in Calls => call'[c].route < nextRoute
      BY <2>5 DEF IdsInv, IdsFresh
    <2>8. \A d \in CConns : call'[d] \in Calls => call'[d].route < nextRoute
      BY <2>4, <2>6 DEF IdsInv, IdsFresh
    <2>9. \A e \in Held, d \in CConns :
            cpc'[d] \in {"route", "contconn", "insreq", "send"} /\ e.id = call'[d].route =>
              /\ e.ctrl = d /\ e.req = call'[d].req
              /\ cpc'[d] \in {"contconn", "insreq", "send"} => e.agent = call'[d].name
      BY <2>3, <2>4, <2>5 DEF IdsInv, CallsAgree
    <2> QED
      BY <2>1, <2>2, <2>3, <2>8, <2>9, IdsKept
<1>InsertRoute. ASSUME NEW c \in CConns, InsertRoute(c)
      PROVE  IdsInv'
    <2> DEFINE new == [id |-> nextRoute, ctrl |-> c, agent |-> call[c].name, req |-> call[c].req]
    <2>1. \A e \in Held' : e \in Held \/ e = new
      BY <1>InsertRoute, HeldIff DEF InsertRoute, WithoutRoute, athread
    <2>2. JobsInSight' = JobsInSight
      BY <1>InsertRoute, <1>j DEF InsertRoute, athread, peers
    <2>3. /\ nextRoute' = nextRoute + 1 /\ byReq' = byReq /\ nextRoute \in Nat \ {0}
          /\ cpc'[c] = "insreq"
          /\ \A d \in CConns \ {c} : cpc'[d] = cpc[d]
      BY <1>InsertRoute DEF InsertRoute, Goto, TypeOK
    <2>4. /\ \A d \in CConns \ {c} : call'[d] = call[d]
          /\ call'[c].route = nextRoute /\ call'[c].req = call[c].req
          /\ call'[c].name = call[c].name
      BY <1>InsertRoute, InsertRouteEffect DEF CallStep
    <2>5. new.id = nextRoute /\ new.ctrl = c /\ new.agent = call[c].name /\ new.req = call[c].req
      OBVIOUS
    <2>f. /\ \A e \in Held : e.id > 0 /\ e.id < nextRoute
          /\ \A k \in CConns \X ReqIds : byReq[k] < nextRoute /\ byReq[k] \in Nat
          /\ \A j \in JobsInSight : j.route < nextRoute
          /\ \A d \in CConns : call[d] \in Calls => call[d].route < nextRoute
      BY DEF IdsInv, IdsFresh, TypeOK
    <2>g. /\ \A e \in Held : e.id \in Nat
          /\ \A j \in JobsInSight : j.route \in Nat
          /\ \A d \in CConns : call[d] \in Calls => call[d].route \in Nat
      BY HeldIff, JobsIff, SMTT(60) DEF TypeOK, Entries, Jobs, Results, Calls
    <2> HIDE DEF new
    <2>6. IdsFresh'
      <3>1. \A e \in Held' : e.id > 0 /\ e.id < nextRoute'
        BY <2>1, <2>3, <2>5, <2>f, <2>g
      <3>2. \A k \in CConns \X ReqIds : byReq'[k] < nextRoute'
        BY <2>3, <2>f
      <3>3. \A j \in JobsInSight' : j.route < nextRoute'
        BY <2>2, <2>3, <2>f, <2>g
      <3>4. \A d \in CConns : call'[d] \in Calls => call'[d].route < nextRoute'
        BY <2>3, <2>4, <2>f, <2>g
      <3> QED
        BY <3>1, <3>2, <3>3, <3>4 DEF IdsFresh
    <2>7. IdsUnique'
      BY <2>1, <2>3, <2>5, <2>f, <2>g DEF IdsInv, IdsUnique
    <2>8. JobsAgree'
      BY <2>1, <2>2, <2>3, <2>5, <2>f, <2>g DEF IdsInv, JobsAgree
    <2>9. ByReqAgrees'
      BY <2>1, <2>3, <2>5, <2>f, <2>g DEF IdsInv, ByReqAgrees
    <2>10. CallsAgree'
      <3> SUFFICES ASSUME NEW e \in Held', NEW d \in CConns,
                          cpc'[d] \in {"route", "contconn", "insreq", "send"},
                          e.id = call'[d].route
                   PROVE  /\ e.ctrl = d /\ e.req = call'[d].req
                          /\ cpc'[d] \in {"contconn", "insreq", "send"} => e.agent = call'[d].name
        BY DEF CallsAgree
      <3>1. CASE d = c
        <4>1. e = new
          BY <2>1, <2>4, <2>f, <2>g, <3>1
        <4> QED
          BY <2>4, <2>5, <3>1, <4>1
      <3>2. CASE d # c
        <4>1. call[d] \in Calls
          BY <2>3, <3>2 DEF LocalsSet
        <4>2. e \in Held
          BY <2>1, <2>4, <2>5, <2>f, <2>g, <3>2, <4>1
        <4> QED
          BY <2>3, <2>4, <3>2, <4>2 DEF IdsInv, CallsAgree
      <3> QED
        BY <3>1, <3>2
    <2> QED
      BY <2>6, <2>7, <2>8, <2>9, <2>10 DEF IdsInv
<1>InsertReq. ASSUME NEW c \in CConns, InsertReq(c)
      PROVE  IdsInv'
    <2>1. Held' = Held /\ JobsInSight' = JobsInSight
      BY <1>InsertReq, <1>h, <1>j DEF InsertReq, athread, peers
    <2>2. /\ nextRoute' = nextRoute /\ call' = call
          /\ cpc[c] = "insreq" /\ cpc'[c] = "send" /\ call[c] \in Calls
          /\ \A d \in CConns \ {c} : cpc'[d] = cpc[d]
      <3>1. /\ nextRoute' = nextRoute /\ call' = call
            /\ cpc[c] = "insreq" /\ cpc'[c] = "send"
            /\ \A d \in CConns \ {c} : cpc'[d] = cpc[d]
        BY <1>InsertReq DEF InsertReq, Goto, TypeOK
      <3> QED
        BY <3>1 DEF LocalsSet
    <2>3. \A k \in CConns \X ReqIds :
             byReq'[k] = IF k = <<c, call[c].req>> THEN call[c].route ELSE byReq[k]
      BY <1>InsertReq DEF InsertReq, TypeOK
    <2>4. IdsFresh'
      BY <2>1, <2>2, <2>3 DEF IdsInv, IdsFresh
    <2>5. IdsUnique' /\ JobsAgree'
      BY <2>1 DEF IdsInv, IdsUnique, JobsAgree
    <2>6. ByReqAgrees'
      BY <2>1, <2>2, <2>3 DEF IdsInv, ByReqAgrees, CallsAgree
    <2>7. CallsAgree'
      BY <2>1, <2>2 DEF IdsInv, CallsAgree
    <2> QED
      BY <2>4, <2>5, <2>6, <2>7 DEF IdsInv
<1>Send. ASSUME NEW c \in CConns, Send(c)
      PROVE  IdsInv'
    <2> DEFINE new == [conn |-> call[c].conn, route |-> call[c].route, ctrl |-> c,
                       req |-> call[c].req]
    <2>1. Held' = Held
      BY <1>Send, <1>h DEF Send, shared, athread
    <2>2. \A j \in JobsInSight' : j \in JobsInSight \/ j = new
      BY <1>Send, JobsIff DEF Send, Delivered, athread
    <2>3. /\ nextRoute' = nextRoute /\ byReq' = byReq
          /\ cpc[c] = "send" /\ cpc'[c] \in {"loop", "rmroute"} /\ call[c] \in Calls
          /\ call[c].conn \in AConns /\ call[c].name = NameOf[call[c].conn]
          /\ \A d \in CConns \ {c} : cpc'[d] = cpc[d]
      BY <1>Send, SMTT(60) DEF Send, Goto, Return, TypeOK, LocalsSet, shared
    <2>4. /\ \A d \in CConns \ {c} : call'[d] = call[d]
          /\ call'[c] \in {call[c], NoCall}
      BY <1>Send DEF Send, Return, TypeOK
    <2>5. /\ new.conn = call[c].conn /\ new.route = call[c].route
          /\ new.ctrl = c /\ new.req = call[c].req
      OBVIOUS
    <2> HIDE DEF new
    <2>6. IdsFresh'
      <3>1. \A j \in JobsInSight' : j.route < nextRoute'
        BY <2>2, <2>3, <2>5 DEF IdsInv, IdsFresh
      <3>2. NoCall \notin Calls
        BY DEF NoCall, Calls
      <3>3. \A d \in CConns : call'[d] \in Calls => call'[d].route < nextRoute'
        BY <2>3, <2>4, <3>2 DEF IdsInv, IdsFresh
      <3> QED
        BY <2>1, <2>3, <3>1, <3>3 DEF IdsInv, IdsFresh
    <2>7. IdsUnique' /\ ByReqAgrees'
      BY <2>1, <2>3 DEF IdsInv, IdsUnique, ByReqAgrees
    <2>8. JobsAgree'
      BY <2>1, <2>2, <2>3, <2>5 DEF IdsInv, JobsAgree, CallsAgree
    <2>9. CallsAgree'
      BY <2>1, <2>3, <2>4 DEF IdsInv, CallsAgree
    <2> QED
      BY <2>6, <2>7, <2>8, <2>9 DEF IdsInv
<1>idle. ASSUME UNCHANGED vars
      PROVE  IdsInv'
    <2>1. Held' = Held /\ JobsInSight' = JobsInSight
      BY <1>idle, <1>h, <1>j DEF vars, shared, athread, cthread, peers
    <2>2. nextRoute' = nextRoute /\ byReq' = byReq /\ UNCHANGED <<cpc, call>>
      BY <1>idle DEF vars, shared, cthread
    <2> QED
      BY <2>1, <2>2, <1>a, IdsKept
<1> QED
  BY <1>idle, <1>HelloReject, <1>Register, <1>SendHelloOk, <1>AgentForward, <1>AgentRmRoute, <1>AgentRmReq, <1>AgentRecvErr, <1>AgentCleanAgents, <1>AgentCleanRoutes, <1>AgentCleanError, <1>AgentClose, <1>AgentRecvResult, <1>AgentDrop, <1>JobQuit, <1>WriterExit, <1>LookupReq, <1>LookupRoute, <1>ContConn, <1>ChooseAgent, <1>GetConn, <1>InsertRoute, <1>InsertReq, <1>Send, <1>CtrlRmRoute, <1>CtrlRmReq, <1>CtrlErr410, <1>CtrlCleanRoutes, <1>CtrlCancel, <1>CtrlClose, <1>CtrlRecvReq, <1>CtrlRecvErr
  DEF Next, Finished, AgentWork, AgentPeer, CtrlWork

(* The relay starts with empty maps and idle threads. *)
LEMMA RelayInit == Init => TypeOK /\ RouteInv
<1> SUFFICES ASSUME Init
             PROVE  TypeOK /\ RouteInv
  OBVIOUS
<1> USE DEF Init
<1>1. TypeOK
  BY NameOfAssumption, MaxFramesAssumption DEF TypeOK, FirstRouteId
<1>2. AgentsMatchThreads /\ LocalsSet /\ RouteOwnerAlive
  BY NoConnAssumption DEF AgentsMatchThreads, LocalsSet, RouteOwnerAlive
<1>3. Held = {}
  BY HeldIff
<1>4. JobsInSight = {}
  <2>1. NoResult \notin Results
    BY DEF NoResult, Results
  <2> QED
    BY <2>1, JobsIff
<1>5. NoCall \notin Calls
  BY DEF NoCall, Calls
<1>6. IdsInv
  BY <1>3, <1>4, <1>5
  DEF IdsInv, IdsFresh, IdsUnique, JobsAgree, ByReqAgrees, CallsAgree, FirstRouteId
<1> QED
  BY <1>1, <1>2, <1>6 DEF RouteInv

(* Type correctness and the coherence of route ids hold in every reachable   *)
(* state of the relay, for any number of agents, controllers and requests:   *)
(* RouteInv is inductive together with the types.                            *)
THEOREM RelaySafe == Spec => [](TypeOK /\ RouteInv)
<1>1. Init => TypeOK /\ RouteInv
  BY RelayInit
<1>2. TypeOK /\ RouteInv /\ [Next]_vars => (TypeOK /\ RouteInv)'
  BY TypeStep, AgentsStep, LocalsStep, OwnerStep, IdsStep DEF RouteInv
<1> QED
  BY <1>1, <1>2, PTL DEF Spec

(* The state of the server is well typed (TypeOK): the maps of State and the *)
(* locals of the threads that use them.                                      *)
THEOREM RelayTypeOK == Spec => []TypeOK
  BY RelaySafe, PTL

(* A name is registered for exactly the connection whose thread is between   *)
(* its insert in handle_connection and its removal in cleanup_agent.         *)
THEOREM RelayNames == Spec => []AgentsMatchThreads
<1>1. RouteInv => AgentsMatchThreads
  BY DEF RouteInv
<1> QED
  BY <1>1, RelaySafe, PTL

(* After cleanup_ctrl no route of the controller is left in the table, and   *)
(* none is added later.                                                      *)
THEOREM RelayRoutesEnd == Spec => []RouteOwnerAlive
<1>1. RouteInv => RouteOwnerAlive
  BY DEF RouteInv
<1> QED
  BY <1>1, RelaySafe, PTL

(* agent_loop forwards the payload of a job to the controller and request    *)
(* that started the job, and to no other, whatever cleanups and new routes   *)
(* come in between.                                                          *)
THEOREM RelayAnswers == Spec => []AnswersGoToRequester
<1>1. TypeOK /\ RouteInv => AnswersGoToRequester
  <2> SUFFICES ASSUME TypeOK, RouteInv, NEW a \in AConns, apc[a] = "forward",
                      NEW e \in aheld[a]
               PROVE  /\ <<e.ctrl, e.req>> = <<aframe[a].job.ctrl, aframe[a].job.req>>
                      /\ e.agent = NameOf[a]
    BY DEF AnswersGoToRequester
  <2>1. aframe[a] \in Results /\ aframe[a].job.conn = a /\ e.id = aframe[a].job.route
    BY DEF RouteInv, LocalsSet
  <2>2. e \in Held /\ aframe[a].job \in JobsInSight
    BY <2>1, HeldIff, JobsIff
  <2> QED
    BY <2>1, <2>2 DEF RouteInv, IdsInv, JobsAgree
<1> QED
  BY <1>1, RelaySafe, PTL

(* A continuation frame is matched only with a route of its own controller   *)
(* and request.                                                              *)
THEOREM RelayContinues == Spec => []ContinuesOwnRoute
<1>1. TypeOK /\ RouteInv => ContinuesOwnRoute
  BY HeldIff DEF ContinuesOwnRoute, RouteOf, RouteInv, IdsInv, CallsAgree
<1> QED
  BY <1>1, RelaySafe, PTL

----------------------------------------------------------------------------
(* The steps of the relay, seen from one thread: an agent's thread with its  *)
(* peer, or a controller's.                                                  *)
AgentStep(a) == AgentRecvResult(a) \/ AgentWork(a) \/ AgentPeer(a)
CtrlStep(c) == CtrlRecvReq(c) \/ CtrlWork(c) \/ CtrlRecvErr(c)

LEMMA RelaySteps ==
  [Next]_vars => (\E a \in AConns : AgentStep(a)) \/ (\E c \in CConns : CtrlStep(c)) \/ UNCHANGED vars
BY DEF Next, Finished, AgentStep, CtrlStep

(* An agent's thread leaves the calls and the other agents alone, and only   *)
(* few of its steps touch what the threads share.                            *)
LEMMA AgentMoves ==
  ASSUME TypeOK, NEW a \in AConns, AgentStep(a)
  PROVE  /\ UNCHANGED <<cpc, call, cheld, started, nextRoute>>
         /\ \A b \in AConns \ {a} :
              /\ apc'[b] = apc[b] /\ aframe'[b] = aframe[b] /\ aheld'[b] = aheld[b]
              /\ link'[b] = link[b] /\ writer'[b] = writer[b] /\ first'[b] = first[b]
         /\ routes' = routes \/ AgentRmRoute(a) \/ AgentCleanRoutes(a)
         /\ UNCHANGED <<jobs, cancelled>> \/ AgentRecvResult(a) \/ AgentDrop(a) \/ JobQuit(a)
         /\ answered' = answered \/ AgentForward(a) \/ AgentCleanError(a)
<1> USE DEF TypeOK, cthread, athread, shared, peers
<1>1. CASE HelloReject(a) \/ Register(a) \/ SendHelloOk(a)
  BY <1>1 DEF HelloReject, Register, SendHelloOk, FirstFrame
<1>2. CASE AgentForward(a) \/ AgentRmRoute(a) \/ AgentRmReq(a)
  BY <1>2 DEF AgentForward, AgentRmRoute, AgentRmReq
<1>3. CASE AgentRecvErr(a) \/ AgentCleanAgents(a) \/ AgentCleanRoutes(a)
  BY <1>3 DEF AgentRecvErr, AgentCleanAgents, AgentCleanRoutes
<1>4. CASE AgentCleanError(a) \/ AgentClose(a)
  BY <1>4 DEF AgentCleanError, AgentClose
<1>5. CASE AgentRecvResult(a)
  BY <1>5, ZenonT(60) DEF AgentRecvResult
<1>6. CASE AgentPeer(a)
  BY <1>6 DEF AgentPeer, AgentDrop, JobQuit, WriterExit
<1> QED
  BY <1>1, <1>2, <1>3, <1>4, <1>5, <1>6 DEF AgentStep, AgentWork

(* The stages of relay_to_agent: a frame is in hand, and the route it found  *)
(* or made is carried along until the frame is sent.                         *)
Busy(c) == cpc[c] \notin {"loop", "cleanroutes", "cancel", "closed"}
Carried(c) == cpc[c] \in {"contconn", "insreq", "send"}

SameCall(c) == call'[c].req = call[c].req /\ call'[c].kind = call[c].kind
SameRoute(c) == SameCall(c) /\ call'[c].route = call[c].route /\ call'[c].name = call[c].name
Nowhere == UNCHANGED <<routes, jobs, cancelled, answered, first>>

Asks(c) == /\ cpc[c] = "loop" /\ cpc'[c] = "byreq" /\ Nowhere
           /\ started' = [started EXCEPT ![c] = @ \cup {call'[c].req}]
           /\ call'[c].kind = "start" <=> call'[c].req \notin started[c]
Looks(c) == /\ cpc[c] \in {"byreq", "route", "choose", "getconn", "rmreq"}
            /\ cpc'[c] \in {"choose", "route", "getconn", "insroute", "err410"}
            /\ SameCall(c) /\ Nowhere /\ started' = started
            /\ cpc'[c] = "err410" <=> cpc[c] = "rmreq"
            /\ cpc'[c] = "route" => cpc[c] = "byreq"
            /\ cpc[c] = "route" => RouteOf(call[c].route) = {}
            /\ cpc[c] = "byreq" => /\ call'[c].route = byReq[<<c, call[c].req>>]
                                  /\ cpc'[c] = IF call'[c].route = 0 THEN "choose" ELSE "route"
            /\ cpc'[c] = "insroute" => agents[call[c].name] # NoConn /\ call'[c].name = call[c].name
Finds(c) == /\ cpc[c] = "route" /\ cpc'[c] = "contconn"
            /\ SameCall(c) /\ call'[c].route = call[c].route /\ Nowhere /\ started' = started
            /\ \E e \in routes : e.id = call[c].route /\ call'[c].name = e.agent
Inserts(c) == /\ cpc[c] = "insroute" /\ cpc'[c] = "insreq" /\ started' = started
              /\ SameCall(c) /\ call'[c].route = nextRoute /\ call'[c].name = call[c].name
              /\ UNCHANGED <<jobs, cancelled, answered, first>>
              /\ routes' = WithoutRoute(nextRoute) \cup
                   {[id |-> nextRoute, ctrl |-> c, agent |-> call[c].name, req |-> call[c].req]}
Goes(c) == /\ cpc[c] \in {"contconn", "insreq"} /\ cpc'[c] = "send"
           /\ SameRoute(c) /\ Nowhere /\ started' = started
           /\ cpc[c] = "insreq" => byReq' = [byReq EXCEPT ![<<c, call[c].req>>] = call[c].route]
Fails(c) == /\ \/ cpc[c] = "contconn" /\ agents[call[c].name] = NoConn
               \/ cpc[c] = "send" /\ writer[call[c].conn] = "dead"
            /\ cpc'[c] = "rmroute" /\ SameRoute(c) /\ Nowhere /\ started' = started
Removes(c) == /\ cpc[c] = "rmroute" /\ cpc'[c] = "rmreq" /\ routes' = WithoutRoute(call[c].route)
              /\ SameRoute(c) /\ UNCHANGED <<jobs, cancelled, answered, first, started>>
Answers(c) == /\ cpc[c] \in {"choose", "getconn", "err410"} /\ cpc'[c] = "loop"
              /\ answered' = answered \cup {<<c, call[c].req>>}
              /\ UNCHANGED <<routes, jobs, cancelled, first, started>>
Sends(c) == /\ cpc[c] = "send" /\ cpc'[c] = "loop"
            /\ first' = FirstFrame(call[c].conn, "other")
            /\ jobs' = Delivered(call[c].conn,
                         [conn |-> call[c].conn, route |-> call[c].route, ctrl |-> c,
                          req |-> call[c].req], call[c].kind)
            /\ UNCHANGED <<routes, cancelled, answered, started>>
Leaves(c) == cpc[c] = "loop" /\ cpc'[c] = "cleanroutes" /\ Nowhere /\ started' = started
Cleans(c) == /\ cpc[c] = "cleanroutes" /\ cpc'[c] = "cancel"
             /\ routes' = routes \ {e \in routes : e.ctrl = c}
             /\ cheld' = [cheld EXCEPT ![c] = {e \in routes : e.ctrl = c}]
             /\ UNCHANGED <<jobs, cancelled, answered, first, started>>
Cancels(c) == CtrlCancel(c) /\ cpc'[c] = "cancel" /\ UNCHANGED <<routes, jobs, answered, started>>
Closes(c) == cpc[c] = "cancel" /\ cpc'[c] = "closed" /\ cheld[c] = {} /\ Nowhere /\ started' = started

LEMMA CallMoves ==
  ASSUME TypeOK, LocalsSet, NEW c \in CConns, CtrlStep(c)
  PROVE  /\ UNCHANGED <<agents, apc, aframe, aheld, link, writer>>
         /\ \A d \in CConns \ {c} :
              cpc'[d] = cpc[d] /\ call'[d] = call[d] /\ cheld'[d] = cheld[d] /\ started'[d] = started[d]
         /\ \/ Asks(c) \/ Looks(c) \/ Finds(c) \/ Inserts(c) \/ Goes(c) \/ Fails(c) \/ Removes(c)
            \/ Answers(c) \/ Sends(c) \/ Leaves(c) \/ Cleans(c) \/ Cancels(c) \/ Closes(c)
<1> USE DEF shared, athread, peers
<1>0. /\ cpc \in [CConns -> CPcs] /\ call \in [CConns -> Calls \cup {NoCall}]
      /\ cheld \in [CConns -> SUBSET Entries] /\ started \in [CConns -> SUBSET ReqIds]
  BY DEF TypeOK
<1>1. CASE LookupReq(c)
  <2>1. CallStep(c) /\ call'[c].route = byReq[<<c, call[c].req>>]
    BY <1>1, LookupReqEffect
  <2>2. Looks(c)
    BY <1>0, <1>1, <2>1 DEF LookupReq, Goto, Looks, Nowhere, SameCall, CallStep
  <2> QED
    BY <1>0, <1>1, <2>1, <2>2 DEF LookupReq, Goto, CallStep
<1>2. CASE LookupRoute(c)
  <2>1. CASE cpc'[c] = "choose" /\ UNCHANGED call
    BY <1>0, <1>2, <2>1 DEF LookupRoute, Goto, Looks, Nowhere, SameCall
  <2>2. CASE /\ cpc'[c] = "contconn" /\ CallStep(c) /\ call'[c].route = call[c].route
             /\ \E e \in routes : e.id = call[c].route /\ call'[c].name = e.agent
    <3>1. Finds(c)
      BY <1>2, <2>2 DEF LookupRoute, Finds, Nowhere, SameCall, CallStep
    <3> QED
      BY <1>0, <1>2, <2>2, <3>1 DEF LookupRoute, Goto, CallStep
  <2> QED
    BY <1>2, <2>1, <2>2, LookupRouteEffect
<1>3. CASE ContConn(c)
  <2>1. CallStep(c) /\ call'[c].route = call[c].route /\ call'[c].name = call[c].name
    BY <1>3, ContConnEffect
  <2>2. Goes(c) \/ Fails(c)
    BY <1>0, <1>3, <2>1 DEF ContConn, Goto, Goes, Fails, Nowhere, SameRoute, SameCall, CallStep
  <2> QED
    BY <1>0, <1>3, <2>1, <2>2 DEF ContConn, Goto, CallStep
<1>4. CASE ChooseAgent(c)
  <2>1. CASE cpc'[c] = "loop" /\ call' = [call EXCEPT ![c] = NoCall]
    <3>1. answered' = answered \cup {<<c, call[c].req>>}
      BY <1>0, <1>4, <2>1 DEF ChooseAgent, Goto, CtrlError
    <3>2. Answers(c)
      BY <1>4, <2>1, <3>1 DEF ChooseAgent, Answers
    <3> QED
      BY <1>0, <1>4, <2>1, <3>2 DEF ChooseAgent, Goto, Return
  <2>2. CASE cpc'[c] = "getconn" /\ CallStep(c)
    <3>1. answered' = answered
      BY <1>0, <1>4, <2>2 DEF ChooseAgent, Return
    <3>2. Looks(c)
      BY <1>4, <2>2, <3>1 DEF ChooseAgent, Looks, Nowhere, SameCall, CallStep
    <3> QED
      BY <1>0, <1>4, <2>2, <3>2 DEF ChooseAgent, Goto, Return, CallStep
  <2> QED
    BY <1>4, <2>1, <2>2, ChooseAgentEffect
<1>5. CASE GetConn(c)
  <2>1. CASE cpc'[c] = "loop" /\ call' = [call EXCEPT ![c] = NoCall]
    <3>1. answered' = answered \cup {<<c, call[c].req>>}
      BY <1>0, <1>5, <2>1 DEF GetConn, Goto, CtrlError
    <3>2. Answers(c)
      BY <1>5, <2>1, <3>1 DEF GetConn, Answers
    <3> QED
      BY <1>0, <1>5, <2>1, <3>2 DEF GetConn, Goto, Return
  <2>2. CASE /\ cpc'[c] = "insroute" /\ CallStep(c)
             /\ agents[call[c].name] # NoConn /\ call'[c].name = call[c].name
    <3>1. answered' = answered
      BY <1>0, <1>5, <2>2 DEF GetConn, Return
    <3>2. Looks(c)
      BY <1>5, <2>2, <3>1 DEF GetConn, Looks, Nowhere, SameCall, CallStep
    <3> QED
      BY <1>0, <1>5, <2>2, <3>2 DEF GetConn, Goto, Return, CallStep
  <2> QED
    BY <1>5, <2>1, <2>2, GetConnEffect
<1>6. CASE InsertRoute(c)
  <2>1. CallStep(c) /\ call'[c].route = nextRoute /\ call'[c].name = call[c].name
    BY <1>6, InsertRouteEffect
  <2>2. Inserts(c)
    BY <1>0, <1>6, <2>1 DEF InsertRoute, Goto, Inserts, SameCall, CallStep
  <2> QED
    BY <1>0, <1>6, <2>1, <2>2 DEF InsertRoute, Goto, CallStep
<1>7. CASE InsertReq(c)
  BY <1>0, <1>7 DEF InsertReq, Goto, Goes, Nowhere, SameRoute, SameCall
<1>8. CASE Send(c)
  <2>1. CASE writer[call[c].conn] = "dead" /\ Goto(c, "rmroute") /\ UNCHANGED <<call, first, jobs>>
    BY <1>0, <1>8, <2>1 DEF Send, Goto, Fails, Nowhere, SameRoute, SameCall
  <2>2. CASE /\ first' = FirstFrame(call[c].conn, "other") /\ Return(c)
             /\ jobs' = Delivered(call[c].conn,
                     [conn |-> call[c].conn, route |-> call[c].route, ctrl |-> c,
                      req |-> call[c].req], call[c].kind)
    <3>1. Sends(c)
      BY <1>0, <1>8, <2>2 DEF Send, Return, Sends
    <3> QED
      BY <1>0, <1>8, <2>2, <3>1 DEF Send, Return
  <2> QED
    BY <1>8, <2>1, <2>2 DEF Send
<1>9. CASE CtrlRmRoute(c)
  BY <1>0, <1>9 DEF CtrlRmRoute, Goto, Removes, SameRoute, SameCall
<1>10. CASE CtrlRmReq(c)
  BY <1>0, <1>10 DEF CtrlRmReq, Goto, Looks, Nowhere, SameCall
<1>11. CASE CtrlErr410(c)
  BY <1>0, <1>11 DEF CtrlErr410, CtrlError, Return, Answers
<1>12. CASE CtrlCleanRoutes(c)
  BY <1>0, <1>12 DEF CtrlCleanRoutes, Goto, Cleans
<1>13. CASE CtrlCancel(c)
  <2>1. UNCHANGED <<cpc, call, routes, jobs, answered, started>>
    BY <1>13 DEF CtrlCancel
  <2>2. Cancels(c)
    BY <1>13, <2>1 DEF Cancels, CtrlCancel
  <2>3. \A d \in CConns \ {c} : cheld'[d] = cheld[d]
    BY <1>0, <1>13 DEF CtrlCancel
  <2> QED
    BY <1>13, <2>1, <2>2, <2>3 DEF CtrlCancel
<1>14. CASE CtrlClose(c)
  BY <1>0, <1>14 DEF CtrlClose, Goto, Closes, Nowhere
<1>15. CASE CtrlRecvErr(c)
  BY <1>0, <1>15 DEF CtrlRecvErr, Goto, Leaves, Nowhere
<1>16. CASE CtrlRecvReq(c)
  <2>1. PICK q \in ReqIds, kind \in {"start", "cont"}, t \in Names \cup {NoName} :
          /\ kind = "start" <=> q \notin started[c]
          /\ started' = [started EXCEPT ![c] = @ \cup {q}]
          /\ call' = [call EXCEPT ![c] = [req |-> q, kind |-> kind, target |-> t,
                        route |-> 0, name |-> NoName, conn |-> NoConn]]
    BY <1>16 DEF CtrlRecvReq
  <2>2. call'[c].req = q /\ call'[c].kind = kind
    BY <1>0, <2>1
  <2>3. cpc[c] = "loop" /\ cpc' = [cpc EXCEPT ![c] = "byreq"] /\ Nowhere /\ UNCHANGED cheld
    BY <1>16 DEF CtrlRecvReq, Goto, Nowhere
  <2>4. Asks(c)
    BY <1>0, <2>1, <2>2, <2>3 DEF Asks
  <2> QED
    BY <1>0, <1>16, <2>1, <2>3, <2>4 DEF CtrlRecvReq
<1> QED
  BY <1>1, <1>2, <1>3, <1>4, <1>5, <1>6, <1>7, <1>8, <1>9, <1>10, <1>11, <1>12, <1>13, <1>14, <1>15, <1>16
  DEF CtrlStep, CtrlWork

----------------------------------------------------------------------------
(* What every step does to the shared state.                                 *)

(* What was said, done or lost stays so. *)
LEMMA Trends ==
  ASSUME TypeOK, LocalsSet, [Next]_vars
  PROVE  /\ \A a \in AConns : first[a] = "helloOk" => first'[a] = "helloOk"
         /\ \A a \in AConns : link[a] = "down" => link'[a] = "down"
         /\ answered \subseteq answered'
         /\ \A j \in cancelled : j \in jobs' => j \in cancelled'
<1>0. first \in [AConns -> {"none", "helloOk", "other"}] /\ link \in [AConns -> {"up", "down"}]
  BY DEF TypeOK
<1>f. \A x, f : \A a \in AConns : first[a] = "helloOk" => FirstFrame(x, f)[a] = "helloOk"
  BY <1>0 DEF FirstFrame
<1>1. ASSUME NEW a \in AConns, AgentStep(a)
      PROVE  /\ \A b \in AConns : first[b] = "helloOk" => first'[b] = "helloOk"
             /\ \A b \in AConns : link[b] = "down" => link'[b] = "down"
             /\ answered \subseteq answered'
             /\ \A j \in cancelled : j \in jobs' => j \in cancelled'
  <2> USE DEF athread, cthread, shared, peers
  <2>1. answered \subseteq answered'
    BY <1>1, AgentMoves DEF AgentForward, AgentCleanError
  <2>2. \A j \in cancelled : j \in jobs' => j \in cancelled'
    <3>1. CASE AgentRecvResult(a) \/ AgentDrop(a) \/ JobQuit(a)
      BY <3>1 DEF AgentRecvResult, AgentDrop, JobQuit
    <3> QED
      BY <1>1, <3>1, AgentMoves
  <2>3. \/ UNCHANGED <<first, link>>
        \/ UNCHANGED first /\ link' = [link EXCEPT ![a] = "down"]
        \/ UNCHANGED link /\ first' = FirstFrame(a, "helloOk")
    <3>1. CASE HelloReject(a) \/ Register(a) \/ SendHelloOk(a) \/ AgentRecvResult(a)
      BY <3>1 DEF HelloReject, Register, SendHelloOk, AgentRecvResult
    <3>2. CASE AgentForward(a) \/ AgentRmRoute(a) \/ AgentRmReq(a) \/ AgentRecvErr(a) \/ AgentCleanAgents(a)
      BY <3>2 DEF AgentForward, AgentRmRoute, AgentRmReq, AgentRecvErr, AgentCleanAgents
    <3>3. CASE AgentCleanRoutes(a) \/ AgentCleanError(a) \/ AgentClose(a) \/ AgentPeer(a)
      BY <3>3 DEF AgentCleanRoutes, AgentCleanError, AgentClose, AgentPeer, AgentDrop, JobQuit, WriterExit
    <3> QED
      BY <1>1, <3>1, <3>2, <3>3 DEF AgentStep, AgentWork
  <2> QED
    BY <1>0, <1>f, <2>1, <2>2, <2>3
<1>2. ASSUME NEW c \in CConns, CtrlStep(c)
      PROVE  /\ \A b \in AConns : first[b] = "helloOk" => first'[b] = "helloOk"
             /\ \A b \in AConns : link[b] = "down" => link'[b] = "down"
             /\ answered \subseteq answered'
             /\ \A j \in cancelled : j \in jobs' => j \in cancelled'
  <2>1. /\ first' = first \/ \E x : first' = FirstFrame(x, "other")
        /\ answered \subseteq answered' /\ cancelled \subseteq cancelled'
    BY <1>2, CallMoves DEF Asks, Looks, Finds, Inserts, Goes, Fails, Removes, Answers, Sends, Leaves, Cleans,
      Cancels, CtrlCancel, Closes, Nowhere
  <2>2. link' = link
    BY <1>2, CallMoves
  <2> QED
    BY <1>f, <2>1, <2>2
<1>3. CASE UNCHANGED vars
  BY <1>3 DEF vars, peers
<1> QED
  BY RelaySteps, <1>1, <1>2, <1>3

(* Who takes a route out of the table ... *)
LEMMA RoutesOut ==
  ASSUME TypeOK, LocalsSet, IdsInv, [Next]_vars, NEW e \in routes
  PROVE  \/ e \in routes'
         \/ \E a \in AConns : AgentRmRoute(a) /\ e.id = aframe[a].job.route
         \/ \E a \in AConns : AgentCleanRoutes(a) /\ e.agent = NameOf[a] /\ e \in aheld'[a] /\ apc'[a] = "doomed"
         \/ \E c \in CConns : CtrlStep(c) /\ Removes(c) /\ e.id = call[c].route
         \/ \E c \in CConns : CtrlStep(c) /\ Cleans(c) /\ e.ctrl = c /\ e \in cheld'[c]
<1>0. e.id < nextRoute /\ nextRoute \in Nat /\ e.id \in Nat /\ e \in Entries
  BY HeldIff DEF IdsInv, IdsFresh, TypeOK, Entries
<1>1. ASSUME NEW a \in AConns, AgentStep(a)
      PROVE  \/ e \in routes'
             \/ AgentRmRoute(a) /\ e.id = aframe[a].job.route
             \/ AgentCleanRoutes(a) /\ e.agent = NameOf[a] /\ e \in aheld'[a] /\ apc'[a] = "doomed"
  <2>1. AgentRmRoute(a) => e \in routes' \/ e.id = aframe[a].job.route
    BY DEF AgentRmRoute, WithoutRoute
  <2>2. AgentCleanRoutes(a) => e \in routes' \/ (e.agent = NameOf[a] /\ e \in aheld'[a] /\ apc'[a] = "doomed")
    BY DEF AgentCleanRoutes, TypeOK
  <2> QED
    BY <1>1, <2>1, <2>2, AgentMoves
<1>2. ASSUME NEW c \in CConns, CtrlStep(c)
      PROVE  e \in routes' \/ (Removes(c) /\ e.id = call[c].route) \/ (Cleans(c) /\ e.ctrl = c /\ e \in cheld'[c])
  <2>1. Inserts(c) => e \in routes'
    BY <1>0 DEF Inserts, WithoutRoute
  <2>2. Removes(c) => e \in routes' \/ e.id = call[c].route
    BY DEF Removes, WithoutRoute
  <2>3. Cleans(c) => e \in routes' \/ (e.ctrl = c /\ e \in cheld'[c])
    BY DEF Cleans, TypeOK
  <2>4. routes' = routes \/ Inserts(c) \/ Removes(c) \/ Cleans(c)
    BY <1>2, CallMoves DEF Asks, Looks, Finds, Goes, Fails, Answers, Sends, Leaves, Cancels, Closes, Nowhere
  <2> QED
    BY <2>1, <2>2, <2>3, <2>4
<1>3. UNCHANGED vars => e \in routes'
  BY DEF vars, shared
<1> QED
  BY RelaySteps, <1>1, <1>2, <1>3

(* ... who puts one in ... *)
LEMMA RoutesIn ==
  ASSUME TypeOK, LocalsSet, [Next]_vars, NEW e \in routes'
  PROVE  \/ e \in routes
         \/ \E c \in CConns : CtrlStep(c) /\ Inserts(c)
              /\ e = [id |-> nextRoute, ctrl |-> c, agent |-> call[c].name, req |-> call[c].req]
<1>1. ASSUME NEW a \in AConns, AgentStep(a) PROVE e \in routes
  BY <1>1, AgentMoves DEF AgentRmRoute, WithoutRoute, AgentCleanRoutes
<1>2. ASSUME NEW c \in CConns, CtrlStep(c)
      PROVE  e \in routes \/ (Inserts(c)
               /\ e = [id |-> nextRoute, ctrl |-> c, agent |-> call[c].name, req |-> call[c].req])
  <2>1. routes' = routes \/ Inserts(c) \/ Removes(c) \/ Cleans(c)
    BY <1>2, CallMoves DEF Asks, Looks, Finds, Goes, Fails, Answers, Sends, Leaves, Cancels, Closes, Nowhere
  <2> QED
    BY <2>1 DEF Inserts, Removes, Cleans, WithoutRoute
<1>3. UNCHANGED vars => e \in routes
  BY DEF vars, shared
<1> QED
  BY RelaySteps, <1>1, <1>2, <1>3

(* ... and who starts a job. *)
Starts(c, j) ==
  /\ CtrlStep(c) /\ Sends(c) /\ call[c].kind = "start"
  /\ j = [conn |-> call[c].conn, route |-> call[c].route, ctrl |-> c, req |-> call[c].req]
  /\ link[call[c].conn] = "up" /\ first[call[c].conn] = "helloOk"

LEMMA JobsIn ==
  ASSUME TypeOK, LocalsSet, [Next]_vars
  PROVE  /\ \A j \in jobs' : j \in jobs \/ \E c \in CConns : Starts(c, j)
         /\ \A j \in JobsInSight' : j \in JobsInSight \/ \E c \in CConns : Starts(c, j)
<1>1. ASSUME NEW a \in AConns, AgentStep(a) PROVE jobs' \subseteq jobs /\ JobsInSight' \subseteq JobsInSight
  <2> USE DEF TypeOK, athread, cthread, shared, peers
  <2>n. NoResult \notin Results
    BY DEF NoResult, Results
  <2>1. jobs' \subseteq jobs
    BY <1>1, AgentMoves DEF AgentRecvResult, AgentDrop, JobQuit
  <2>2. aframe' = aframe \/ aframe' = [aframe EXCEPT ![a] = NoResult]
        \/ \E j \in jobs, k \in {"data", "final"} : j.conn = a /\ aframe' = [aframe EXCEPT ![a] = [job |-> j, kind |-> k]]
    <3>1. CASE HelloReject(a) \/ Register(a) \/ SendHelloOk(a) \/ AgentForward(a) \/ AgentRmRoute(a) \/ AgentRmReq(a)
      BY <3>1 DEF HelloReject, Register, SendHelloOk, AgentForward, AgentRmRoute, AgentRmReq
    <3>2. CASE AgentRecvErr(a) \/ AgentCleanAgents(a) \/ AgentCleanRoutes(a) \/ AgentCleanError(a) \/ AgentClose(a)
      BY <3>2 DEF AgentRecvErr, AgentCleanAgents, AgentCleanRoutes, AgentCleanError, AgentClose
    <3>3. CASE AgentPeer(a)
      BY <3>3 DEF AgentPeer, AgentDrop, JobQuit, WriterExit
    <3>4. CASE AgentRecvResult(a)
      BY <3>4 DEF AgentRecvResult, JobsOn
    <3> QED
      BY <1>1, <3>1, <3>2, <3>3, <3>4 DEF AgentStep, AgentWork
  <2>3. JobsInSight' \subseteq JobsInSight
    <3> SUFFICES ASSUME NEW b \in AConns, aframe'[b] \in Results PROVE aframe'[b].job \in JobsInSight
      BY <2>1, JobsIff
    <3>1. aframe'[b] = aframe[b] \/ \E j \in jobs, k \in {"data", "final"} : aframe'[b] = [job |-> j, kind |-> k]
      BY <2>n, <2>2
    <3> QED
      <4>1. CASE aframe'[b] = aframe[b]
        BY <4>1, JobsIff
      <4>2. ASSUME NEW j \in jobs, NEW k \in {"data", "final"}, aframe'[b] = [job |-> j, kind |-> k]
            PROVE  aframe'[b].job \in JobsInSight
        <5>1. aframe'[b].job = j
          BY <4>2
        <5> QED
          BY <5>1, JobsIff
      <4> QED
        BY <3>1, <4>1, <4>2
  <2> QED
    BY <2>1, <2>3
<1>2. ASSUME NEW c \in CConns, CtrlStep(c)
      PROVE  /\ \A j \in jobs' : j \in jobs \/ Starts(c, j)
             /\ \A j \in JobsInSight' : j \in JobsInSight \/ Starts(c, j)
  <2>1. jobs' = jobs \/ Sends(c)
    BY <1>2, CallMoves DEF Asks, Looks, Finds, Inserts, Goes, Fails, Removes, Answers, Leaves, Cleans, Cancels, Closes, Nowhere
  <2>2. \A j \in jobs' : j \in jobs \/ Starts(c, j)
    BY <1>2, <2>1 DEF Sends, Delivered, Starts
  <2>3. aframe' = aframe
    BY <1>2, CallMoves
  <2> QED
    BY <2>2, <2>3, JobsIff
<1>3. UNCHANGED vars => jobs' = jobs /\ JobsInSight' = JobsInSight
  BY DEF vars, peers, athread, JobsInSight
<1> QED
  BY RelaySteps, <1>1, <1>2, <1>3

(* How a call gets to where it is. *)
LEMMA CallFrom ==
  ASSUME TypeOK, LocalsSet, [Next]_vars, NEW c \in CConns
  PROVE  \/ cpc'[c] = cpc[c] /\ call'[c] = call[c] /\ started'[c] = started[c]
         \/ CtrlStep(c)
<1>1. ASSUME NEW a \in AConns, AgentStep(a)
      PROVE  cpc'[c] = cpc[c] /\ call'[c] = call[c] /\ started'[c] = started[c]
  BY <1>1, AgentMoves
<1>2. ASSUME NEW d \in CConns, CtrlStep(d), d # c
      PROVE  cpc'[c] = cpc[c] /\ call'[c] = call[c] /\ started'[c] = started[c]
  BY <1>2, CallMoves
<1>3. UNCHANGED vars => cpc'[c] = cpc[c] /\ call'[c] = call[c] /\ started'[c] = started[c]
  BY DEF vars, cthread
<1> QED
  BY RelaySteps, <1>1, <1>2, <1>3

----------------------------------------------------------------------------
(* A call that gives its route up removes only a route of its own request.   *)
RemoveInv ==
  \A c \in CConns, e \in routes : cpc[c] = "rmroute" /\ e.id = call[c].route =>
    e.ctrl = c /\ e.req = call[c].req

(* A request is kept while it is answered, or in the table, or in the list   *)
(* of a cleanup_agent that is sending its 410s.                              *)
Doomed(e) == \E a \in AConns : apc[a] = "doomed" /\ e \in aheld[a]
Resolved(c, q) == <<c, q>> \in answered \/ \E e \in Entries : Doomed(e) /\ e.ctrl = c /\ e.req = q
Kept(c, q) ==
  <<c, q>> \in answered \/ \E e \in Entries : (e \in routes \/ Doomed(e)) /\ e.ctrl = c /\ e.req = q

DropInv ==
  /\ \A c \in CConns : \A q \in started[c] : cpc[c] = "loop" \/ Busy(c) =>
       Kept(c, q) \/ (Busy(c) /\ ~Carried(c) /\ q = call[c].req)
  /\ \A a \in AConns : apc[a] = "forward" => aheld[a] # {}
  /\ \A a \in AConns : apc[a] = "rmroute" =>
       <<aframe[a].job.ctrl, aframe[a].job.req>> \in answered

(* the route a call carries, if it is in the table, is one of its request *)
LEMMA OwnRoute ==
  ASSUME TypeOK, RouteInv, NEW c \in CConns, NEW e \in routes, e.id = call[c].route,
         cpc[c] \in {"route", "contconn", "insreq", "send"}
  PROVE  e.ctrl = c /\ e.req = call[c].req /\ (Carried(c) => e.agent = call[c].name)
BY HeldIff DEF RouteInv, IdsInv, CallsAgree, Carried

LEMMA RemoveStep ==
  ASSUME TypeOK, RouteInv, RemoveInv, [Next]_vars
  PROVE  RemoveInv'
<1> SUFFICES ASSUME NEW c \in CConns, NEW e \in routes', cpc'[c] = "rmroute", e.id = call'[c].route
             PROVE  e.ctrl = c /\ e.req = call'[c].req
  BY DEF RemoveInv
<1>0. LocalsSet /\ IdsInv
  BY DEF RouteInv
<1>1. CASE cpc'[c] = cpc[c] /\ call'[c] = call[c]
  <2>1. call[c].route < nextRoute
    BY <1>0, <1>1 DEF LocalsSet, IdsInv, IdsFresh
  <2>2. e \in routes
    <3>1. CASE e \in routes
      BY <3>1
    <3>2. ASSUME NEW d \in CConns, e = [id |-> nextRoute, ctrl |-> d, agent |-> call[d].name, req |-> call[d].req]
          PROVE  FALSE
      <4>1. e.id = nextRoute /\ nextRoute \in Nat
        BY <3>2 DEF TypeOK
      <4> QED
        BY <1>1, <2>1, <4>1
    <3> QED
      BY <1>0, <3>1, <3>2, RoutesIn
  <2> QED
    BY <1>1, <2>2 DEF RemoveInv
<1>2. CASE CtrlStep(c) /\ ~(cpc'[c] = cpc[c] /\ call'[c] = call[c])
  <2>1. Fails(c)
    BY <1>0, <1>2, CallMoves DEF Asks, Looks, Finds, Inserts, Goes, Removes, Answers, Sends, Leaves, Cleans, Cancels, Closes
  <2>2. /\ cpc[c] \in {"contconn", "send"} /\ routes' = routes
        /\ call'[c].route = call[c].route /\ call'[c].req = call[c].req
    BY <2>1 DEF Fails, SameRoute, SameCall, Nowhere
  <2> QED
    BY <2>2, OwnRoute
<1> QED
  BY <1>0, <1>1, <1>2, CallFrom

(* Once answered or doomed, a request stays so until the 410 is sent. *)
LEMMA ResolvedStays ==
  ASSUME TypeOK, RouteInv, [Next]_vars, NEW c \in CConns, NEW q, Resolved(c, q)
  PROVE  Resolved(c, q)'
<1>0. LocalsSet /\ answered \subseteq answered'
  BY Trends DEF RouteInv
<1>1. CASE <<c, q>> \in answered
  BY <1>0, <1>1 DEF Resolved
<1>2. ASSUME NEW e \in Entries, NEW b \in AConns, apc[b] = "doomed", e \in aheld[b], e.ctrl = c, e.req = q
      PROVE  Resolved(c, q)'
  <2>1. (apc'[b] = "doomed" /\ e \in aheld'[b]) \/ <<e.ctrl, e.req>> \in answered'
    <3>1. CASE AgentStep(b)
      <4>1. AgentCleanError(b) => (apc'[b] = "doomed" /\ e \in aheld'[b]) \/ <<e.ctrl, e.req>> \in answered'
        BY <1>2 DEF AgentCleanError, TypeOK
      <4>2. ~AgentClose(b)
        BY <1>2 DEF AgentClose
      <4>3. AgentCleanError(b) \/ AgentPeer(b)
        BY <1>2, <3>1, <4>2 DEF AgentStep, AgentWork, HelloReject, Register, SendHelloOk, AgentForward, AgentRmRoute,
          AgentRmReq, AgentRecvErr, AgentCleanAgents, AgentCleanRoutes, AgentRecvResult
      <4>4. AgentPeer(b) => apc' = apc /\ aheld' = aheld
        BY DEF AgentPeer, AgentDrop, JobQuit, WriterExit, athread
      <4> QED
        BY <1>2, <4>1, <4>3, <4>4
    <3>2. ASSUME NEW a \in AConns, AgentStep(a), a # b PROVE apc'[b] = apc[b] /\ aheld'[b] = aheld[b]
      BY <3>2, AgentMoves
    <3>3. ASSUME NEW d \in CConns, CtrlStep(d) PROVE apc' = apc /\ aheld' = aheld
      BY <1>0, <3>3, CallMoves
    <3>4. UNCHANGED vars => apc' = apc /\ aheld' = aheld
      BY DEF vars, athread
    <3> QED
      BY <1>2, <3>1, <3>2, <3>3, <3>4, RelaySteps
  <2> QED
    BY <1>2, <2>1 DEF Resolved, Doomed
<1> QED
  BY <1>1, <1>2 DEF Resolved, Doomed

(* Whoever takes a route out of the table, its request has been answered or  *)
(* is going to be, unless its own controller gives it up or leaves.          *)
LEMMA TakenOut ==
  ASSUME TypeOK, RouteInv, RemoveInv, DropInv, [Next]_vars, NEW e \in routes,
         NEW c \in CConns, e.ctrl = c
  PROVE  \/ e \in routes' \/ Resolved(c, e.req)'
         \/ (CtrlStep(c) /\ Removes(c) /\ e.req = call[c].req)
         \/ (CtrlStep(c) /\ Cleans(c))
<1>0. LocalsSet /\ IdsInv /\ answered \subseteq answered' /\ e \in Entries
  BY Trends DEF RouteInv, TypeOK
<1>1. ASSUME NEW a \in AConns, AgentRmRoute(a), e.id = aframe[a].job.route PROVE Resolved(c, e.req)'
  <2>1. apc[a] = "rmroute" /\ aframe[a] \in Results
    BY <1>0, <1>1 DEF AgentRmRoute, LocalsSet
  <2>2. e \in Held /\ aframe[a].job \in JobsInSight
    BY <2>1, HeldIff, JobsIff
  <2>3. e.ctrl = aframe[a].job.ctrl /\ e.req = aframe[a].job.req
    BY <1>0, <1>1, <2>2 DEF IdsInv, JobsAgree
  <2>4. <<c, e.req>> \in answered
    BY <2>1, <2>3 DEF DropInv
  <2> QED
    BY <1>0, <2>4 DEF Resolved
<1>2. ASSUME NEW a \in AConns, e \in aheld'[a], apc'[a] = "doomed" PROVE Resolved(c, e.req)'
  BY <1>0, <1>2 DEF Resolved, Doomed
<1>3. ASSUME NEW d \in CConns, CtrlStep(d), Removes(d), e.id = call[d].route
      PROVE  CtrlStep(c) /\ Removes(c) /\ e.req = call[c].req
  <2>1. cpc[d] = "rmroute"
    BY <1>3 DEF Removes
  <2>2. e.ctrl = d /\ e.req = call[d].req
    BY <1>3, <2>1 DEF RemoveInv
  <2> QED
    BY <1>3, <2>2
<1> QED
  BY <1>0, <1>1, <1>2, <1>3, RoutesOut

(* A request stays kept, but for the steps of its own controller that let go. *)
LEMMA KeptStays ==
  ASSUME TypeOK, RouteInv, RemoveInv, DropInv, [Next]_vars, NEW c \in CConns, NEW q, Kept(c, q)
  PROVE  Kept(c, q)' \/ (CtrlStep(c) /\ Removes(c) /\ q = call[c].req) \/ (CtrlStep(c) /\ Cleans(c))
<1>1. CASE Resolved(c, q)
  <2>1. Resolved(c, q)'
    BY <1>1, ResolvedStays
  <2> QED
    BY <2>1 DEF Kept, Resolved
<1>2. ASSUME NEW e \in Entries, e \in routes, e.ctrl = c, e.req = q
      PROVE  Kept(c, q)' \/ (CtrlStep(c) /\ Removes(c) /\ q = call[c].req) \/ (CtrlStep(c) /\ Cleans(c))
  <2>1. \/ e \in routes' \/ Resolved(c, q)'
        \/ (CtrlStep(c) /\ Removes(c) /\ q = call[c].req)
        \/ (CtrlStep(c) /\ Cleans(c))
    BY <1>2, TakenOut
  <2> QED
    BY <1>2, <2>1 DEF Kept, Resolved
<1> QED
  BY <1>1, <1>2 DEF Kept, Resolved

LEMMA DropStep ==
  ASSUME TypeOK, TypeOK', RouteInv, RemoveInv, DropInv, [Next]_vars
  PROVE  DropInv'
<1>0. LocalsSet /\ IdsInv /\ answered \subseteq answered'
  BY Trends DEF RouteInv
<1>1. ASSUME NEW c \in CConns, NEW q \in started'[c], cpc'[c] = "loop" \/ Busy(c)'
      PROVE  Kept(c, q)' \/ (Busy(c)' /\ ~Carried(c)' /\ q = call'[c].req)
  <2>1. CASE cpc'[c] = cpc[c] /\ call'[c] = call[c] /\ started'[c] = started[c]
    <3>1. Kept(c, q) \/ (Busy(c) /\ ~Carried(c) /\ q = call[c].req)
      BY <1>1, <2>1 DEF DropInv, Busy
    <3>2. ~Removes(c) /\ ~Cleans(c)
      BY <2>1 DEF Removes, Cleans
    <3> QED
      BY <2>1, <3>1, <3>2, KeptStays DEF Busy, Carried
  <2>2. CASE CtrlStep(c)
    <3>0. cpc \in [CConns -> CPcs] /\ started \in [CConns -> SUBSET ReqIds]
      BY DEF TypeOK
    <3>1. CASE Asks(c)
      <4>1. cpc[c] = "loop" /\ cpc'[c] = "byreq" /\ started'[c] = started[c] \cup {call'[c].req}
        BY <3>0, <3>1 DEF Asks
      <4>2. q = call'[c].req \/ Kept(c, q)
        BY <1>1, <4>1 DEF DropInv, Busy
      <4>3. ~Removes(c) /\ ~Cleans(c)
        BY <4>1 DEF Removes, Cleans
      <4> QED
        BY <4>1, <4>2, <4>3, KeptStays DEF Busy, Carried
    <3>2. CASE Looks(c) \/ Removes(c)
      <4>1. /\ Busy(c) /\ ~Carried(c) /\ Busy(c)' /\ ~Carried(c)' /\ started' = started
            /\ call'[c].req = call[c].req /\ ~Cleans(c)
        BY <3>2 DEF Looks, Removes, Busy, Carried, SameCall, SameRoute, Cleans
      <4>2. q = call[c].req \/ Kept(c, q)
        BY <1>1, <4>1 DEF DropInv
      <4> QED
        BY <4>1, <4>2, KeptStays
    <3>3. CASE Finds(c) \/ Inserts(c)
      <4>1. /\ Busy(c) /\ started' = started /\ ~Cleans(c) /\ ~Removes(c)
        BY <3>3 DEF Finds, Inserts, Busy, Cleans, Removes
      <4>2. q = call[c].req \/ Kept(c, q)
        BY <1>1, <4>1 DEF DropInv
      <4>3. \E e \in routes' : e.ctrl = c /\ e.req = call[c].req
        <5>1. CASE Finds(c)
          BY <5>1, OwnRoute DEF Finds, Nowhere
        <5>2. CASE Inserts(c)
          <6> DEFINE new == [id |-> nextRoute, ctrl |-> c, agent |-> call[c].name, req |-> call[c].req]
          <6>1. new \in routes'
            BY <5>2 DEF Inserts
          <6>2. new.ctrl = c /\ new.req = call[c].req
            OBVIOUS
          <6> HIDE DEF new
          <6> QED
            BY <6>1, <6>2
        <5> QED
          BY <3>3, <5>1, <5>2
      <4>4. routes' \subseteq Entries
        BY DEF TypeOK
      <4>5. q = call[c].req => Kept(c, q)'
        BY <4>3, <4>4 DEF Kept
      <4> QED
        BY <2>2, <4>1, <4>2, <4>5, KeptStays
    <3>4. CASE Goes(c) \/ Sends(c)
      <4>1. Carried(c) /\ Busy(c) /\ started' = started /\ ~Cleans(c) /\ ~Removes(c)
        BY <3>4 DEF Goes, Sends, Busy, Carried, Cleans, Removes
      <4>2. Kept(c, q)
        BY <1>1, <4>1 DEF DropInv
      <4> QED
        BY <4>1, <4>2, KeptStays
    <3>5. CASE Fails(c)
      <4>1. Carried(c) /\ Busy(c) /\ started' = started /\ ~Cleans(c) /\ ~Removes(c)
        BY <3>5 DEF Fails, Busy, Carried, Cleans, Removes
      <4>2. Kept(c, q)
        BY <1>1, <4>1 DEF DropInv
      <4> QED
        BY <4>1, <4>2, KeptStays
    <3>6. CASE Answers(c)
      <4>1. /\ Busy(c) /\ started' = started /\ ~Cleans(c) /\ ~Removes(c)
            /\ <<c, call[c].req>> \in answered'
        BY <3>6 DEF Answers, Busy, Cleans, Removes
      <4>2. q = call[c].req \/ Kept(c, q)
        BY <1>1, <4>1 DEF DropInv
      <4>3. q = call[c].req => Kept(c, q)'
        BY <4>1 DEF Kept
      <4> QED
        BY <4>1, <4>2, <4>3, KeptStays
    <3>7. ~(Leaves(c) \/ Cleans(c) \/ Cancels(c) \/ Closes(c))
      BY <1>1 DEF Leaves, Cleans, Cancels, Closes, Busy
    <3> QED
      BY <1>0, <2>2, <3>1, <3>2, <3>3, <3>4, <3>5, <3>6, <3>7, CallMoves
  <2> QED
    BY <1>0, <2>1, <2>2, CallFrom
<1>2. ASSUME NEW a \in AConns
      PROVE  /\ apc'[a] = "forward" => aheld'[a] # {}
             /\ apc'[a] = "rmroute" => <<aframe'[a].job.ctrl, aframe'[a].job.req>> \in answered'
  <2>1. CASE apc'[a] = apc[a] /\ aheld'[a] = aheld[a] /\ aframe'[a] = aframe[a]
    BY <1>0, <2>1 DEF DropInv
  <2>2. CASE AgentRecvResult(a)
    <3>1. \/ UNCHANGED athread
          \/ apc' = [apc EXCEPT ![a] = "forward"] /\ aheld'[a] # {}
      <4>1. PICK j \in JobsOn(a) :
              IF RouteOf(j.route) = {}
                THEN UNCHANGED athread
                ELSE /\ apc' = [apc EXCEPT ![a] = "forward"]
                     /\ aheld' = [aheld EXCEPT ![a] = RouteOf(j.route)]
        BY <2>2 DEF AgentRecvResult
      <4>2. aheld \in [AConns -> SUBSET Entries]
        BY DEF TypeOK
      <4> QED
        BY <4>1, <4>2
    <3>2. UNCHANGED athread => apc' = apc /\ aheld' = aheld /\ aframe' = aframe
      BY DEF athread
    <3>3. apc \in [AConns -> APcs]
      BY DEF TypeOK
    <3>4. CASE UNCHANGED athread
      BY <2>1, <3>2, <3>4
    <3>5. CASE apc' = [apc EXCEPT ![a] = "forward"] /\ aheld'[a] # {}
      BY <3>3, <3>5
    <3> QED
      BY <3>1, <3>4, <3>5
  <2>3. CASE AgentForward(a)
    <3>1. /\ apc[a] = "forward" /\ apc'[a] # "forward"
          /\ apc'[a] = "rmroute" =>
               aframe' = aframe /\ answered' = answered \cup {<<e.ctrl, e.req>> : e \in aheld[a]}
      BY <2>3 DEF AgentForward, TypeOK
    <3>2. PICK e \in aheld[a] : TRUE
      BY <3>1 DEF DropInv
    <3>3. e \in Held /\ aframe[a].job \in JobsInSight /\ e.id = aframe[a].job.route
      BY <1>0, <3>1, HeldIff, JobsIff DEF LocalsSet
    <3>4. e.ctrl = aframe[a].job.ctrl /\ e.req = aframe[a].job.req
      BY <1>0, <3>3 DEF IdsInv, JobsAgree
    <3> QED
      BY <3>1, <3>4
  <2>4. CASE AgentStep(a) /\ ~AgentRecvResult(a) /\ ~AgentForward(a)
    <3>1. CASE AgentPeer(a)
      <4>1. apc' = apc /\ aheld' = aheld /\ aframe' = aframe
        BY <3>1 DEF AgentPeer, AgentDrop, JobQuit, WriterExit, athread
      <4> QED
        BY <2>1, <4>1
    <3>2. CASE AgentCleanError(a)
      BY <3>2 DEF AgentCleanError
    <3>3. CASE ~AgentPeer(a) /\ ~AgentCleanError(a)
      <4>1. apc'[a] \notin {"forward", "rmroute"}
        BY <2>4, <3>3 DEF AgentStep, AgentWork, HelloReject, Register, SendHelloOk, AgentRmRoute, AgentRmReq,
          AgentRecvErr, AgentCleanAgents, AgentCleanRoutes, AgentClose, TypeOK
      <4> QED
        BY <4>1
    <3> QED
      BY <3>1, <3>2, <3>3
  <2>5. AgentStep(a) \/ (apc'[a] = apc[a] /\ aheld'[a] = aheld[a] /\ aframe'[a] = aframe[a])
    <3>1. ASSUME NEW b \in AConns, AgentStep(b), a # b
          PROVE  apc'[a] = apc[a] /\ aheld'[a] = aheld[a] /\ aframe'[a] = aframe[a]
      BY <3>1, AgentMoves
    <3>2. ASSUME NEW d \in CConns, CtrlStep(d) PROVE apc' = apc /\ aheld' = aheld /\ aframe' = aframe
      BY <1>0, <3>2, CallMoves
    <3>3. UNCHANGED vars => apc' = apc /\ aheld' = aheld /\ aframe' = aframe
      BY DEF vars, athread
    <3> QED
      BY <3>1, <3>2, <3>3, RelaySteps
  <2> QED
    BY <2>1, <2>2, <2>3, <2>4, <2>5
<1> QED
  BY <1>1, <1>2 DEF DropInv

----------------------------------------------------------------------------
(* Requests a worker was started for.                                        *)

(* The server's thread of an agent that is up still serves it. *)
LinkInv ==
  \A a \in AConns :
    /\ link[a] = "up" =>
         writer[a] = "up" /\ apc[a] \in {"accept", "hello", "loop", "forward", "rmroute", "rmreq"}
    /\ first[a] = "helloOk" => apc[a] \notin {"accept", "hello"}

LEMMA LinkStep ==
  ASSUME TypeOK, LocalsSet, LinkInv, [Next]_vars
  PROVE  LinkInv'
<1> SUFFICES ASSUME NEW b \in AConns
             PROVE  /\ link'[b] = "up" => writer'[b] = "up"
                         /\ apc'[b] \in {"accept", "hello", "loop", "forward", "rmroute", "rmreq"}
                    /\ first'[b] = "helloOk" => apc'[b] \notin {"accept", "hello"}
  BY DEF LinkInv
<1>1. CASE AgentStep(b)
  <2> USE <1>1 DEF TypeOK, LinkInv, athread
  <2>1. CASE HelloReject(b) \/ Register(b) \/ SendHelloOk(b) \/ AgentForward(b) \/ AgentRmRoute(b)
    BY <2>1 DEF HelloReject, Register, SendHelloOk, AgentForward, AgentRmRoute, peers
  <2>2. CASE AgentRmReq(b) \/ AgentRecvErr(b) \/ AgentCleanAgents(b) \/ AgentCleanRoutes(b)
    BY <2>2 DEF AgentRmReq, AgentRecvErr, AgentCleanAgents, AgentCleanRoutes, peers
  <2>3. CASE AgentCleanError(b) \/ AgentClose(b) \/ AgentPeer(b)
    BY <2>3 DEF AgentCleanError, AgentClose, AgentPeer, AgentDrop, JobQuit, WriterExit, peers
  <2>4. CASE AgentRecvResult(b)
    <3>1. /\ apc'[b] \in {apc[b], "forward"} /\ apc[b] = "loop"
          /\ UNCHANGED <<link, writer, first>>
      BY <2>4 DEF AgentRecvResult
    <3> QED
      BY <3>1
  <2> QED
    BY <2>1, <2>2, <2>3, <2>4 DEF AgentStep, AgentWork
<1>2. ASSUME NEW a \in AConns, AgentStep(a), a # b
      PROVE  apc'[b] = apc[b] /\ link'[b] = link[b] /\ writer'[b] = writer[b] /\ first'[b] = first[b]
  BY <1>2, AgentMoves
<1>3. ASSUME NEW c \in CConns, CtrlStep(c)
      PROVE  /\ UNCHANGED <<apc, link, writer>>
             /\ first'[b] = "helloOk" => first[b] = "helloOk"
  <2>1. first' = first \/ \E x : first' = FirstFrame(x, "other")
    BY <1>3, CallMoves DEF Asks, Looks, Finds, Inserts, Goes, Fails, Removes, Answers, Sends, Leaves, Cleans,
      Cancels, CtrlCancel, Closes, Nowhere
  <2>2. first \in [AConns -> {"none", "helloOk", "other"}]
    BY DEF TypeOK
  <2>3. \A x : FirstFrame(x, "other")[b] = "helloOk" => first[b] = "helloOk"
    BY <2>2 DEF FirstFrame
  <2> QED
    BY <1>3, <2>1, <2>3, CallMoves
<1>4. UNCHANGED vars => UNCHANGED <<apc, link, writer, first>>
  BY DEF vars, athread, peers
<1> QED
  BY <1>1, <1>2, <1>3, <1>4, RelaySteps DEF LinkInv

(* The route a call carries is still in the table, or its request has been   *)
(* answered or is going to be.                                               *)
CarryInv ==
  \A c \in CConns : Carried(c) =>
    Resolved(c, call[c].req) \/ \E e \in routes : e.id = call[c].route

(* Somebody will answer a request: its entry waits for its 410, or is in the *)
(* table and a thread of its agent's name is still to come by.               *)
Attended(c, q) ==
  Resolved(c, q) \/ \E e \in routes : e.ctrl = c /\ e.req = q /\ Watched(e.agent)

AttendInv ==
  \A c \in CConns, q \in ReqIds : <<c, q>> \in reached /\ (cpc[c] = "loop" \/ Busy(c)) =>
    Attended(c, q) \/ (cpc[c] \in {"rmreq", "err410"} /\ q = call[c].req)

LEMMA CarryStep ==
  ASSUME TypeOK, RouteInv, RemoveInv, DropInv, CarryInv, [Next]_vars
  PROVE  CarryInv'
<1> SUFFICES ASSUME NEW c \in CConns, Carried(c)', NEW q, q = call'[c].req
             PROVE  Resolved(c, q)' \/ \E e \in routes' : e.id = call'[c].route
  BY DEF CarryInv, Resolved, Doomed
<1>0. LocalsSet
  BY DEF RouteInv
<1>1. CASE Carried(c) /\ SameRoute(c)
  <2>0. q = call[c].req /\ call'[c].route = call[c].route
    BY <1>1 DEF SameRoute, SameCall
  <2>1. CASE Resolved(c, q)
    BY <2>1, ResolvedStays
  <2>2. ASSUME NEW e \in routes, e.id = call[c].route
        PROVE  e \in routes' \/ Resolved(c, q)'
    <3>1. e.ctrl = c /\ e.req = q
      BY <1>1, <2>0, <2>2, OwnRoute DEF Carried
    <3>2. ~Removes(c) /\ ~Cleans(c)
      BY <1>1 DEF Carried, Removes, Cleans
    <3>3. e \in routes' \/ Resolved(c, e.req)'
      BY <3>1, <3>2, TakenOut
    <3> QED
      BY <3>1, <3>3
  <2> QED
    BY <1>1, <2>0, <2>1, <2>2 DEF CarryInv
<1>2. CASE Finds(c)
  BY <1>2 DEF Finds, Nowhere
<1>3. CASE Inserts(c)
  <2> DEFINE new == [id |-> nextRoute, ctrl |-> c, agent |-> call[c].name, req |-> call[c].req]
  <2>1. new \in routes' /\ new.id = call'[c].route
    BY <1>3 DEF Inserts
  <2> HIDE DEF new
  <2> QED
    BY <2>1
<1>4. (Carried(c) /\ SameRoute(c)) \/ Finds(c) \/ Inserts(c)
  <2>1. CASE cpc'[c] = cpc[c] /\ call'[c] = call[c]
    BY <2>1 DEF Carried, SameRoute, SameCall
  <2>2. CASE CtrlStep(c)
    <3>1. ~(Asks(c) \/ Looks(c) \/ Fails(c) \/ Removes(c) \/ Answers(c) \/ Sends(c) \/ Leaves(c)
             \/ Cleans(c) \/ Cancels(c) \/ Closes(c))
      BY DEF Carried, Asks, Looks, Fails, Removes, Answers, Sends, Leaves, Cleans, Cancels, Closes
    <3>2. Goes(c) => Carried(c) /\ SameRoute(c)
      BY DEF Goes, Carried
    <3> QED
      BY <1>0, <2>2, <3>1, <3>2, CallMoves
  <2> QED
    BY <1>0, <2>1, <2>2, CallFrom
<1> QED
  BY <1>1, <1>2, <1>3, <1>4

(* A name is watched until a thread of that name has scanned the table. *)
LEMMA WatchedStays ==
  ASSUME TypeOK, LocalsSet, [Next]_vars, NEW n, Watched(n)
  PROVE  Watched(n)' \/ \E a \in AConns : AgentCleanRoutes(a) /\ NameOf[a] = n
<1> DEFINE Pcs == {"hello", "loop", "forward", "rmroute", "rmreq", "cleanagents", "cleanroutes"}
<1>1. PICK a \in AConns : NameOf[a] = n /\ apc[a] \in Pcs
  BY DEF Watched
<1>2. apc'[a] \in Pcs \/ AgentCleanRoutes(a)
  <2>1. CASE AgentStep(a)
    <3> USE DEF TypeOK, athread
    <3>1. CASE HelloReject(a) \/ Register(a) \/ SendHelloOk(a) \/ AgentForward(a) \/ AgentRmRoute(a) \/ AgentRmReq(a)
      BY <1>1, <3>1 DEF HelloReject, Register, SendHelloOk, AgentForward, AgentRmRoute, AgentRmReq
    <3>2. CASE AgentRecvErr(a) \/ AgentCleanAgents(a) \/ AgentCleanError(a) \/ AgentClose(a)
      BY <1>1, <3>2 DEF AgentRecvErr, AgentCleanAgents, AgentCleanError, AgentClose
    <3>3. CASE AgentPeer(a)
      BY <1>1, <3>3 DEF AgentPeer, AgentDrop, JobQuit, WriterExit
    <3>4. CASE AgentRecvResult(a)
      <4>1. apc'[a] \in {apc[a], "forward"}
        BY <3>4 DEF AgentRecvResult
      <4> QED
        BY <1>1, <4>1
    <3> QED
      BY <2>1, <3>1, <3>2, <3>3, <3>4 DEF AgentStep, AgentWork
  <2>2. ASSUME NEW b \in AConns, AgentStep(b), b # a PROVE apc'[a] = apc[a]
    BY <2>2, AgentMoves
  <2>3. ASSUME NEW d \in CConns, CtrlStep(d) PROVE apc' = apc
    BY <2>3, CallMoves
  <2>4. UNCHANGED vars => apc' = apc
    BY DEF vars, athread
  <2> QED
    BY <1>1, <2>1, <2>2, <2>3, <2>4, RelaySteps
<1> QED
  BY <1>1, <1>2 DEF Watched

(* A request is reached by the first frame that starts its worker. *)
LEMMA ReachedIn ==
  ASSUME TypeOK, LocalsSet, [Next]_vars, NEW r \in reached'
  PROVE  r \in reached \/ \E c \in CConns, j \in jobs' : Starts(c, j) /\ r = <<c, call[c].req>>
<1>1. reached' = reached \/ reached' = reached \cup {<<j.ctrl, j.req>> : j \in jobs' \ jobs}
  <2> USE DEF peers
  <2>1. ASSUME NEW a \in AConns, AgentStep(a) PROVE reached' = reached
    BY <2>1 DEF AgentStep, AgentWork, AgentPeer, HelloReject, Register, SendHelloOk, AgentForward, AgentRmRoute,
      AgentRmReq, AgentRecvErr, AgentCleanAgents, AgentCleanRoutes, AgentCleanError, AgentClose, AgentRecvResult,
      AgentDrop, JobQuit, WriterExit
  <2>2. ASSUME NEW c \in CConns, CtrlStep(c)
        PROVE  reached' = reached \/ reached' = reached \cup {<<j.ctrl, j.req>> : j \in jobs' \ jobs}
    <3>1. CASE Send(c)
      BY <3>1 DEF Send
    <3>2. CASE CtrlRecvReq(c) \/ CtrlRecvErr(c) \/ LookupReq(c) \/ LookupRoute(c) \/ ContConn(c) \/ ChooseAgent(c)
      BY <3>2 DEF CtrlRecvReq, CtrlRecvErr, LookupReq, LookupRoute, ContConn, ChooseAgent
    <3>3. CASE GetConn(c) \/ InsertRoute(c) \/ InsertReq(c) \/ CtrlRmRoute(c) \/ CtrlRmReq(c) \/ CtrlErr410(c)
      BY <3>3 DEF GetConn, InsertRoute, InsertReq, CtrlRmRoute, CtrlRmReq, CtrlErr410
    <3>4. CASE CtrlCleanRoutes(c) \/ CtrlCancel(c) \/ CtrlClose(c)
      BY <3>4 DEF CtrlCleanRoutes, CtrlCancel, CtrlClose
    <3> QED
      BY <2>2, <3>1, <3>2, <3>3, <3>4 DEF CtrlStep, CtrlWork
  <2>3. UNCHANGED vars => reached' = reached
    BY DEF vars
  <2> QED
    BY <2>1, <2>2, <2>3, RelaySteps
<1>2. ASSUME NEW j \in jobs', j \notin jobs
      PROVE  \E c \in CConns : Starts(c, j) /\ <<j.ctrl, j.req>> = <<c, call[c].req>>
  <2>1. PICK c \in CConns : Starts(c, j)
    BY <1>2, JobsIn
  <2>2. j.ctrl = c /\ j.req = call[c].req
    BY <2>1 DEF Starts
  <2> QED
    BY <2>1, <2>2
<1> QED
  BY <1>1, <1>2

(* An attended request stays so, but for the steps of its own controller. *)
LEMMA AttendedStays ==
  ASSUME TypeOK, RouteInv, RemoveInv, DropInv, [Next]_vars, NEW c \in CConns, NEW q, Attended(c, q)
  PROVE  Attended(c, q)' \/ (CtrlStep(c) /\ Removes(c) /\ q = call[c].req) \/ (CtrlStep(c) /\ Cleans(c))
<1>0. LocalsSet
  BY DEF RouteInv
<1>1. CASE Resolved(c, q)
  <2>1. Resolved(c, q)'
    BY <1>1, ResolvedStays
  <2> QED
    BY <2>1 DEF Attended, Resolved, Doomed
<1>2. ASSUME NEW e \in routes, e.ctrl = c, e.req = q, Watched(e.agent)
      PROVE  Attended(c, q)' \/ (CtrlStep(c) /\ Removes(c) /\ q = call[c].req) \/ (CtrlStep(c) /\ Cleans(c))
  <2>1. \/ e \in routes' \/ Resolved(c, q)'
        \/ (CtrlStep(c) /\ Removes(c) /\ q = call[c].req)
        \/ (CtrlStep(c) /\ Cleans(c))
    BY <1>2, TakenOut
  <2>2. CASE e \in routes'
    <3>1. ~(\E a \in AConns : AgentCleanRoutes(a) /\ NameOf[a] = e.agent)
      BY <2>2 DEF AgentCleanRoutes
    <3>2. Watched(e.agent)'
      BY <1>0, <1>2, <3>1, WatchedStays
    <3> QED
      BY <1>2, <2>2, <3>2 DEF Attended, Watched
  <2>3. CASE Resolved(c, q)'
    BY <2>3 DEF Attended, Resolved, Doomed
  <2> QED
    BY <2>1, <2>2, <2>3
<1> QED
  BY <1>1, <1>2 DEF Attended

LEMMA AttendStep ==
  ASSUME TypeOK, RouteInv, RemoveInv, DropInv, LinkInv, CarryInv, AttendInv, [Next]_vars
  PROVE  AttendInv'
<1> SUFFICES ASSUME NEW c \in CConns, NEW q \in ReqIds, <<c, q>> \in reached', cpc'[c] = "loop" \/ Busy(c)'
             PROVE  Attended(c, q)' \/ (cpc'[c] \in {"rmreq", "err410"} /\ q = call'[c].req)
  BY DEF AttendInv, Attended, Busy, Watched, Resolved, Doomed
<1>0. LocalsSet
  BY DEF RouteInv
<1>1. CASE <<c, q>> \in reached
  <2>1. CASE CtrlStep(c)
    <3>1. ~(Leaves(c) \/ Cleans(c) \/ Cancels(c) \/ Closes(c))
      BY DEF Leaves, Cleans, Cancels, Closes, Busy
    <3>2. \/ Asks(c) \/ Looks(c) \/ Finds(c) \/ Inserts(c) \/ Goes(c) \/ Fails(c) \/ Removes(c)
          \/ Answers(c) \/ Sends(c)
      BY <1>0, <2>1, <3>1, CallMoves
    <3>3. cpc[c] = "loop" \/ Busy(c)
      BY <3>2 DEF Asks, Looks, Finds, Inserts, Goes, Fails, Removes, Answers, Sends, Busy
    <3>4. CASE Attended(c, q)
      <4>1. Removes(c) => cpc'[c] = "rmreq" /\ call'[c].req = call[c].req
        BY DEF Removes, SameRoute, SameCall
      <4> QED
        BY <3>1, <3>4, <4>1, AttendedStays
    <3>5. CASE cpc[c] \in {"rmreq", "err410"} /\ q = call[c].req
      <4>1. Looks(c) \/ Answers(c)
        BY <3>2, <3>5 DEF Asks, Finds, Inserts, Goes, Fails, Removes, Sends
      <4>2. Looks(c) => cpc'[c] = "err410" /\ call'[c].req = call[c].req
        BY <3>5 DEF Looks, SameCall
      <4>3. Answers(c) => Attended(c, q)'
        BY <3>5 DEF Answers, Attended, Resolved
      <4> QED
        BY <3>5, <4>1, <4>2, <4>3
    <3> QED
      BY <1>1, <3>3, <3>4, <3>5 DEF AttendInv
  <2>2. CASE cpc'[c] = cpc[c] /\ call'[c] = call[c]
    <3>1. Attended(c, q) \/ (cpc[c] \in {"rmreq", "err410"} /\ q = call[c].req)
      BY <1>1, <2>2 DEF AttendInv, Busy
    <3>2. ~Removes(c) /\ ~Cleans(c)
      BY <2>2 DEF Removes, Cleans
    <3> QED
      BY <2>2, <3>1, <3>2, AttendedStays
  <2> QED
    BY <1>0, <2>1, <2>2, CallFrom
<1>2. ASSUME NEW j, Starts(c, j), q = call[c].req
      PROVE  Attended(c, q)'
  <2>1. /\ cpc[c] = "send" /\ routes' = routes /\ CtrlStep(c) /\ call[c].conn \in AConns
        /\ call[c].name = NameOf[call[c].conn]
        /\ link[call[c].conn] = "up" /\ first[call[c].conn] = "helloOk"
    BY <1>0, <1>2 DEF Starts, Sends, LocalsSet
  <2>2. apc' = apc
    BY <1>0, <2>1, CallMoves
  <2>3. ASSUME NEW n, n = call[c].name PROVE Watched(n)'
    BY <2>1, <2>2, <2>3 DEF LinkInv, Watched
  <2>4. CASE Resolved(c, q)
    <3>1. Resolved(c, q)'
      BY <2>4, ResolvedStays
    <3> QED
      BY <3>1 DEF Attended, Resolved, Doomed
  <2>5. ASSUME NEW e \in routes, e.id = call[c].route PROVE Attended(c, q)'
    <3>1. e.ctrl = c /\ e.req = q /\ e.agent = call[c].name /\ e \in routes'
      BY <1>2, <2>1, <2>5, OwnRoute DEF Carried
    <3>2. Watched(e.agent)'
      BY <2>3, <3>1
    <3> QED
      BY <3>1, <3>2 DEF Attended, Watched
  <2> QED
    BY <1>2, <2>1, <2>4, <2>5 DEF CarryInv, Carried
<1>3. <<c, q>> \in reached \/ \E j : Starts(c, j) /\ q = call[c].req
  BY <1>0, ReachedIn
<1> QED
  BY <1>1, <1>2, <1>3

(* A request that has had no answer while its controller is idle still has a *)
(* route, or sits in the list of a cleanup_agent that will answer it; and    *)
(* once a worker was started for it, that route is one an agent serves or    *)
(* whose cleanup has yet to scan the table: no order of remove_route,        *)
(* cleanup_agent and relay_to_agent strands a request that reached an agent. *)
THEOREM RelayNoSilentDrop == Spec => []NoSilentDrop
<1> DEFINE Inv == TypeOK /\ RouteInv /\ RemoveInv /\ DropInv /\ LinkInv /\ CarryInv /\ AttendInv
<1>1. Init => Inv
  <2>1. Init => RemoveInv /\ DropInv /\ LinkInv /\ CarryInv /\ AttendInv
    BY DEF Init, RemoveInv, DropInv, LinkInv, CarryInv, AttendInv, Carried
  <2> QED
    BY <2>1, RelayInit
<1>2. Inv /\ [Next]_vars => Inv'
  <2>1. TypeOK /\ RouteInv /\ [Next]_vars => TypeOK' /\ RouteInv'
    BY TypeStep, AgentsStep, LocalsStep, OwnerStep, IdsStep DEF RouteInv
  <2>2. TypeOK /\ RouteInv /\ LinkInv /\ [Next]_vars => LinkInv'
    BY LinkStep DEF RouteInv
  <2> QED
    BY <2>1, <2>2, RemoveStep, DropStep, CarryStep, AttendStep
<1>3. Inv => NoSilentDrop
  <2> SUFFICES ASSUME Inv, NEW c \in CConns, cpc[c] = "loop", NEW q \in started[c], <<c, q>> \notin answered
               PROVE  \E e \in routes \cup AboutToFail :
                        /\ e.ctrl = c /\ e.req = q
                        /\ <<c, q>> \in reached => e \in AboutToFail \/ Watched(e.agent)
    BY DEF NoSilentDrop
  <2>1. \A e : Doomed(e) => e \in AboutToFail
    BY DEF Doomed, AboutToFail
  <2>2. CASE <<c, q>> \in reached
    <3>1. q \in ReqIds
      BY <2>2 DEF TypeOK
    <3>2. Attended(c, q)
      BY <2>2, <3>1 DEF AttendInv
    <3> QED
      BY <2>1, <3>2 DEF Attended, Resolved
  <2>3. CASE <<c, q>> \notin reached
    <3>1. Kept(c, q)
      BY DEF DropInv, Busy
    <3> QED
      BY <2>1, <2>3, <3>1 DEF Kept
  <2> QED
    BY <2>2, <2>3
<1> QED
  BY <1>1, <1>2, <1>3, PTL DEF Spec

----------------------------------------------------------------------------
(* The cancelling of jobs, as long as no two connections share a name.       *)
NamesDistinct == \A a, b \in AConns : NameOf[a] = NameOf[b] => a = b

(* A first frame is sent once per request: no job of it exists before.       *)
StartInv ==
  /\ \A c \in CConns : Busy(c) => call[c].req \in started[c]
  /\ \A j \in JobsInSight : j.req \in started[j.ctrl]
  /\ \A c \in CConns : \A j \in JobsInSight :
       Busy(c) /\ call[c].kind = "start" => ~(j.ctrl = c /\ j.req = call[c].req)

(* A job runs on an agent that was greeted, and ends with its link. *)
JobsLive ==
  \A j \in jobs : first[j.conn] = "helloOk" /\ (link[j.conn] = "up" \/ j \in cancelled)

On(id) == \E e \in routes : e.id = id
Lost(n) == \E a \in AConns : NameOf[a] = n /\ link[a] = "down"

(* A first frame on its way has its route, unless an agent of the name is gone. *)
SendInv ==
  \A c \in CConns : Carried(c) /\ call[c].kind = "start" => On(call[c].route) \/ Lost(call[c].name)

(* The job of a final payload has ended. *)
Final(a) == (apc[a] = "forward" /\ aframe[a].kind = "final") \/ apc[a] = "rmroute"
FinalInv == \A a \in AConns : \A j \in jobs : Final(a) => j.route # aframe[a].job.route

(* A call gives up only the routes of jobs that have been cancelled. *)
RemovedInv ==
  \A c \in CConns : \A j \in jobs : cpc[c] = "rmroute" /\ j.route = call[c].route => j \in cancelled

(* A running job has its route in the table or in the hands of the           *)
(* cleanup_ctrl that is about to cancel it.                                  *)
RoutedInv ==
  \A j \in jobs \ cancelled :
    \/ On(j.route)
    \/ cpc[j.ctrl] = "cancel" /\ \E e \in cheld[j.ctrl] : e.id = j.route

CancelInv == StartInv /\ LinkInv /\ JobsLive /\ SendInv /\ FinalInv /\ RemovedInv /\ RoutedInv

LEMMA LiveStep ==
  ASSUME TypeOK, LocalsSet, LinkInv, JobsLive, [Next]_vars
  PROVE  JobsLive'
<1> SUFFICES ASSUME NEW j \in jobs'
             PROVE  first'[j.conn] = "helloOk" /\ (link'[j.conn] = "up" \/ j \in cancelled')
  BY DEF JobsLive
<1>1. ASSUME NEW c \in CConns, Starts(c, j)
      PROVE  first'[j.conn] = "helloOk" /\ link'[j.conn] = "up"
  <2>1. j.conn = call[c].conn /\ call[c].conn \in AConns /\ link' = link
    BY <1>1, CallMoves DEF Starts, Sends, LocalsSet
  <2> QED
    BY <1>1, <2>1, Trends DEF Starts
<1>2. CASE j \in jobs
  <2>1. j.conn \in AConns
    BY <1>2 DEF TypeOK, Jobs
  <2>2. first'[j.conn] = "helloOk"
    BY <1>2, <2>1, Trends DEF JobsLive
  <2>3. CASE j \in cancelled
    BY <2>2, <2>3, Trends
  <2>4. CASE link[j.conn] = "up"
    <3>1. CASE AgentStep(j.conn)
      <4>1. ~HelloReject(j.conn)
        BY <1>2, <2>1 DEF HelloReject, LinkInv, JobsLive
      <4>2. AgentDrop(j.conn) => j \in cancelled'
        BY <1>2 DEF AgentDrop, JobsOn
      <4>3. AgentDrop(j.conn) \/ link' = link
        BY <3>1, <4>1 DEF AgentStep, AgentWork, AgentPeer, Register, SendHelloOk, AgentForward, AgentRmRoute,
          AgentRmReq, AgentRecvErr, AgentCleanAgents, AgentCleanRoutes, AgentCleanError, AgentClose,
          AgentRecvResult, JobQuit, WriterExit, peers
      <4> QED
        BY <2>2, <2>4, <4>2, <4>3
    <3>2. ASSUME NEW a \in AConns, AgentStep(a), a # j.conn PROVE link'[j.conn] = link[j.conn]
      BY <2>1, <3>2, AgentMoves
    <3>3. ASSUME NEW c \in CConns, CtrlStep(c) PROVE link' = link
      BY <3>3, CallMoves
    <3>4. UNCHANGED vars => link' = link
      BY DEF vars, peers
    <3> QED
      BY <2>2, <2>4, <3>1, <3>2, <3>3, <3>4, RelaySteps
  <2> QED
    BY <1>2, <2>3, <2>4 DEF JobsLive
<1> QED
  BY <1>1, <1>2, JobsIn

LEMMA StartStep ==
  ASSUME TypeOK, TypeOK', LocalsSet, StartInv, [Next]_vars
  PROVE  StartInv'
<1>0. started \in [CConns -> SUBSET ReqIds] /\ cpc \in [CConns -> CPcs]
  BY DEF TypeOK
<1>1. \A c \in CConns : started[c] \subseteq started'[c]
  <2> SUFFICES ASSUME NEW c \in CConns, CtrlStep(c) PROVE started[c] \subseteq started'[c]
    BY CallFrom
  <2>1. started' = started \/ Asks(c)
    BY CallMoves DEF Looks, Finds, Inserts, Goes, Fails, Removes, Answers, Sends, Leaves, Cleans, Cancels, Closes
  <2> QED
    BY <1>0, <2>1 DEF Asks
<1>2. ASSUME NEW c \in CConns, Busy(c)'
      PROVE  \/ Busy(c) /\ SameCall(c)
             \/ CtrlStep(c) /\ Asks(c)
  <2>1. CASE cpc'[c] = cpc[c] /\ call'[c] = call[c]
    BY <1>2, <2>1 DEF Busy, SameCall
  <2>2. CASE CtrlStep(c)
    <3>1. ~(Answers(c) \/ Sends(c) \/ Leaves(c) \/ Cleans(c) \/ Cancels(c) \/ Closes(c))
      BY <1>2 DEF Answers, Sends, Leaves, Cleans, Cancels, Closes, Busy
    <3>2. Looks(c) \/ Finds(c) \/ Inserts(c) \/ Goes(c) \/ Fails(c) \/ Removes(c) => Busy(c) /\ SameCall(c)
      BY DEF Looks, Finds, Inserts, Goes, Fails, Removes, Busy, SameRoute
    <3> QED
      BY <2>2, <3>1, <3>2, CallMoves
  <2> QED
    BY <2>1, <2>2, CallFrom
<1>3. ASSUME NEW c \in CConns, Busy(c)' PROVE call'[c].req \in started'[c]
  <2>1. CASE Asks(c)
    BY <1>0, <2>1 DEF Asks
  <2>2. CASE Busy(c) /\ SameCall(c)
    BY <1>1, <2>2 DEF StartInv, SameCall
  <2> QED
    BY <1>2, <1>3, <2>1, <2>2
<1>4. ASSUME NEW c \in CConns, NEW j, Starts(c, j)
      PROVE  /\ j.ctrl = c /\ j.req = call[c].req /\ Busy(c)
             /\ cpc[c] = "send" /\ cpc'[c] = "loop" /\ CtrlStep(c)
  BY <1>4 DEF Starts, Sends, Busy
<1>5. ASSUME NEW j \in JobsInSight' PROVE j.req \in started'[j.ctrl]
  <2>1. CASE j \in JobsInSight
    <3>1. j.ctrl \in CConns
      BY <2>1, JobsIff DEF TypeOK, Jobs, Results, NoResult
    <3> QED
      BY <1>1, <2>1, <3>1 DEF StartInv
  <2>2. ASSUME NEW c \in CConns, Starts(c, j) PROVE j.req \in started'[j.ctrl]
    BY <1>1, <1>4, <2>2 DEF StartInv
  <2> QED
    BY <2>1, <2>2, JobsIn
<1>6. ASSUME NEW c \in CConns, NEW j \in JobsInSight', Busy(c)', call'[c].kind = "start"
      PROVE  ~(j.ctrl = c /\ j.req = call'[c].req)
  <2>1. CASE j \in JobsInSight
    <3>1. CASE Busy(c) /\ SameCall(c)
      BY <1>6, <2>1, <3>1 DEF StartInv, SameCall
    <3>2. CASE Asks(c)
      BY <1>6, <2>1, <3>2 DEF StartInv, Asks
    <3> QED
      BY <1>2, <1>6, <3>1, <3>2
  <2>2. ASSUME NEW d \in CConns, Starts(d, j) PROVE j.ctrl # c
    BY <1>4, <1>6, <2>2 DEF Busy
  <2> QED
    BY <2>1, <2>2, JobsIn
<1> QED
  BY <1>3, <1>5, <1>6 DEF StartInv

(* the job a first frame starts, and the route it runs on *)
LEMMA StartsOn ==
  ASSUME NamesDistinct, TypeOK, RouteInv, SendInv, NEW c \in CConns, NEW j, Starts(c, j)
  PROVE  /\ j.ctrl = c /\ j.req = call[c].req /\ j.route = call[c].route /\ j.conn = call[c].conn
         /\ cpc[c] = "send" /\ call[c].kind = "start" /\ routes' = routes /\ aframe' = aframe
         /\ \E e \in routes : e.id = j.route /\ e.ctrl = c /\ e.req = j.req
<1>0. LocalsSet
  BY DEF RouteInv
<1>1. /\ j.ctrl = c /\ j.req = call[c].req /\ j.route = call[c].route /\ j.conn = call[c].conn
      /\ cpc[c] = "send" /\ call[c].kind = "start" /\ routes' = routes /\ CtrlStep(c)
      /\ link[call[c].conn] = "up"
  BY DEF Starts, Sends
<1>2. aframe' = aframe
  BY <1>0, <1>1, CallMoves
<1>3. ~Lost(call[c].name)
  BY <1>0, <1>1 DEF Lost, LocalsSet, NamesDistinct
<1>4. PICK e \in routes : e.id = call[c].route
  BY <1>1, <1>3 DEF SendInv, Carried, On
<1>5. e.ctrl = c /\ e.req = call[c].req
  BY <1>1, <1>4, OwnRoute
<1> QED
  BY <1>1, <1>2, <1>4, <1>5

LEMMA SendStep ==
  ASSUME TypeOK, RouteInv, RemoveInv, StartInv, LinkInv, SendInv, [Next]_vars
  PROVE  SendInv'
<1> SUFFICES ASSUME NEW c \in CConns, Carried(c)', call'[c].kind = "start",
                    NEW r, r = call'[c].route, NEW n, n = call'[c].name
             PROVE  On(r)' \/ Lost(n)'
  BY DEF SendInv, On, Lost
<1>0. LocalsSet /\ IdsInv
  BY DEF RouteInv
<1>1. CASE Carried(c) /\ SameRoute(c)
  <2>1. CASE Lost(call[c].name)
    BY <1>0, <1>1, <2>1, Trends DEF Lost, SameRoute
  <2>2. ASSUME NEW e \in routes, e.id = call[c].route
        PROVE  e \in routes' \/ Lost(n)'
    <3>1. /\ e.ctrl = c /\ e.req = call[c].req /\ e.agent = call[c].name /\ call[c].kind = "start"
          /\ e \in Held /\ Busy(c)
      BY <1>1, <2>2, OwnRoute, HeldIff DEF Carried, SameRoute, SameCall, Busy
    <3>2. ASSUME NEW a \in AConns, AgentRmRoute(a), e.id = aframe[a].job.route PROVE FALSE
      <4>1. aframe[a].job \in JobsInSight
        BY <1>0, <3>2, JobsIff DEF AgentRmRoute, LocalsSet
      <4>2. aframe[a].job.ctrl = c /\ aframe[a].job.req = call[c].req
        BY <1>0, <3>1, <3>2, <4>1 DEF IdsInv, JobsAgree
      <4> QED
        BY <3>1, <4>1, <4>2 DEF StartInv
    <3>3. ASSUME NEW a \in AConns, AgentCleanRoutes(a), e.agent = NameOf[a] PROVE Lost(n)'
      <4>1. link[a] # "up" /\ link[a] \in {"up", "down"}
        BY <3>3 DEF AgentCleanRoutes, LinkInv, TypeOK
      <4>2. Lost(call[c].name)
        BY <3>1, <3>3, <4>1 DEF Lost
      <4> QED
        BY <1>0, <1>1, <4>2, Trends DEF Lost, SameRoute
    <3>4. ASSUME NEW d \in CConns, Removes(d), e.id = call[d].route PROVE FALSE
      BY <1>1, <3>1, <3>4 DEF Removes, RemoveInv, Carried
    <3>5. ASSUME NEW d \in CConns, Cleans(d), e.ctrl = d PROVE FALSE
      BY <1>1, <3>1, <3>5 DEF Cleans, Carried
    <3> QED
      BY <1>0, <2>2, <3>2, <3>3, <3>4, <3>5, RoutesOut
  <2> QED
    BY <1>1, <2>1, <2>2 DEF SendInv, On, SameRoute, SameCall
<1>2. CASE Finds(c)
  BY <1>2 DEF Finds, Nowhere, On
<1>3. CASE Inserts(c)
  <2> DEFINE new == [id |-> nextRoute, ctrl |-> c, agent |-> call[c].name, req |-> call[c].req]
  <2>1. new \in routes' /\ new.id = call'[c].route
    BY <1>3 DEF Inserts
  <2> HIDE DEF new
  <2> QED
    BY <2>1 DEF On
<1>4. (Carried(c) /\ SameRoute(c)) \/ Finds(c) \/ Inserts(c)
  <2>1. CASE cpc'[c] = cpc[c] /\ call'[c] = call[c]
    BY <2>1 DEF Carried, SameRoute, SameCall
  <2>2. CASE CtrlStep(c)
    <3>1. ~(Asks(c) \/ Looks(c) \/ Fails(c) \/ Removes(c) \/ Answers(c) \/ Sends(c) \/ Leaves(c)
             \/ Cleans(c) \/ Cancels(c) \/ Closes(c))
      BY DEF Carried, Asks, Looks, Fails, Removes, Answers, Sends, Leaves, Cleans, Cancels, Closes
    <3>2. Goes(c) => Carried(c) /\ SameRoute(c)
      BY DEF Goes, Carried
    <3> QED
      BY <1>0, <2>2, <3>1, <3>2, CallMoves
  <2> QED
    BY <1>0, <2>1, <2>2, CallFrom
<1> QED
  BY <1>1, <1>2, <1>3, <1>4

LEMMA FinalStep ==
  ASSUME NamesDistinct, TypeOK, RouteInv, StartInv, SendInv, FinalInv, [Next]_vars
  PROVE  FinalInv'
<1> SUFFICES ASSUME NEW a \in AConns, NEW j \in jobs', Final(a)'
             PROVE  j.route # aframe'[a].job.route
  BY DEF FinalInv
<1>0. LocalsSet /\ IdsInv
  BY DEF RouteInv
<1>1. CASE Final(a) /\ aframe'[a] = aframe[a]
  <2>1. CASE j \in jobs
    BY <1>1, <2>1 DEF FinalInv
  <2>2. ASSUME NEW c \in CConns, Starts(c, j), j.route = aframe[a].job.route PROVE FALSE
    <3>1. /\ j.ctrl = c /\ j.req = call[c].req /\ cpc[c] = "send" /\ call[c].kind = "start"
      BY <2>2, StartsOn
    <3>2. PICK e \in routes : e.id = j.route /\ e.ctrl = c /\ e.req = j.req
      BY <2>2, StartsOn
    <3>3. e \in Held /\ aframe[a].job \in JobsInSight
      BY <1>0, <1>1, HeldIff, JobsIff DEF Final, LocalsSet
    <3>4. aframe[a].job.ctrl = c /\ aframe[a].job.req = call[c].req
      BY <1>0, <2>2, <3>1, <3>2, <3>3 DEF IdsInv, JobsAgree
    <3> QED
      BY <3>1, <3>3, <3>4 DEF StartInv, Busy
  <2> QED
    BY <1>0, <1>1, <2>1, <2>2, JobsIn
<1>2. CASE AgentRecvResult(a)
  <2>1. PICK i \in JobsOn(a), kind \in {"data", "final"} :
          /\ jobs' = IF kind = "final" THEN jobs \ {i} ELSE jobs
          /\ IF RouteOf(i.route) = {}
               THEN UNCHANGED athread
               ELSE /\ apc' = [apc EXCEPT ![a] = "forward"]
                    /\ aframe' = [aframe EXCEPT ![a] = [job |-> i, kind |-> kind]]
    BY <1>2 DEF AgentRecvResult
  <2>2. apc[a] = "loop"
    BY <1>2 DEF AgentRecvResult
  <2>3. /\ RouteOf(i.route) # {} /\ aframe' = [aframe EXCEPT ![a] = [job |-> i, kind |-> kind]]
        /\ apc' = [apc EXCEPT ![a] = "forward"]
    BY <2>1, <2>2 DEF Final, athread
  <2>4. apc'[a] = "forward" /\ aframe'[a].job = i /\ aframe'[a].kind = kind
    BY <2>3 DEF TypeOK
  <2>5. jobs' = jobs \ {i}
    BY <2>1, <2>4 DEF Final
  <2>6. ASSUME j.route = i.route PROVE FALSE
    <3>1. PICK e \in routes : e.id = i.route
      BY <2>3 DEF RouteOf
    <3>2. e \in Held /\ i \in JobsInSight /\ j \in JobsInSight /\ j \in jobs /\ i \in jobs /\ i.conn = a
      BY <2>5, <3>1, HeldIff, JobsIff DEF JobsOn
    <3>3. i.ctrl = j.ctrl /\ i.req = j.req /\ NameOf[i.conn] = NameOf[j.conn]
      BY <1>0, <2>6, <3>1, <3>2 DEF IdsInv, JobsAgree
    <3>4. i \in Jobs /\ j \in Jobs
      BY <3>2 DEF TypeOK
    <3>5. i.conn = j.conn
      BY <3>3, <3>4 DEF NamesDistinct, Jobs
    <3>6. i = j
      BY <2>6, <3>3, <3>4, <3>5 DEF Jobs
    <3> QED
      BY <2>5, <3>6
  <2> QED
    BY <2>4, <2>6
<1>3. (Final(a) /\ aframe'[a] = aframe[a]) \/ AgentRecvResult(a)
  <2>1. CASE AgentStep(a) /\ ~AgentRecvResult(a)
    <3>1. CASE AgentForward(a)
      BY <3>1 DEF AgentForward, Final, TypeOK
    <3>2. CASE AgentPeer(a)
      BY <3>2 DEF AgentPeer, AgentDrop, JobQuit, WriterExit, athread, Final
    <3>3. CASE AgentCleanError(a)
      BY <3>3 DEF AgentCleanError, Final
    <3>4. CASE ~AgentForward(a) /\ ~AgentPeer(a) /\ ~AgentCleanError(a)
      <4>1. apc'[a] \notin {"forward", "rmroute"}
        BY <2>1, <3>4 DEF AgentStep, AgentWork, HelloReject, Register, SendHelloOk, AgentRmRoute, AgentRmReq,
          AgentRecvErr, AgentCleanAgents, AgentCleanRoutes, AgentClose, TypeOK
      <4> QED
        BY <4>1 DEF Final
    <3> QED
      BY <3>1, <3>2, <3>3, <3>4
  <2>2. ASSUME NEW b \in AConns, AgentStep(b), a # b PROVE apc'[a] = apc[a] /\ aframe'[a] = aframe[a]
    BY <2>2, AgentMoves
  <2>3. ASSUME NEW d \in CConns, CtrlStep(d) PROVE apc' = apc /\ aframe' = aframe
    BY <1>0, <2>3, CallMoves
  <2>4. UNCHANGED vars => apc' = apc /\ aframe' = aframe
    BY DEF vars, athread
  <2> QED
    BY <2>1, <2>2, <2>3, <2>4, RelaySteps DEF Final
<1> QED
  BY <1>1, <1>2, <1>3

(* the agent of a job that is not cancelled is up and registered *)
LEMMA JobsAgentUp ==
  ASSUME TypeOK, RouteInv, LinkInv, JobsLive, NEW j \in jobs, j \notin cancelled
  PROVE  /\ j.conn \in AConns /\ link[j.conn] = "up" /\ writer[j.conn] = "up"
         /\ agents[NameOf[j.conn]] = j.conn /\ j.ctrl \in CConns /\ NameOf[j.conn] \in Names
         /\ j \in JobsInSight
<1>1. j.conn \in AConns /\ j.ctrl \in CConns /\ NameOf[j.conn] \in Names
  BY NameOfAssumption DEF TypeOK, Jobs
<1>2. link[j.conn] = "up" /\ first[j.conn] = "helloOk" /\ j \in JobsInSight
  BY JobsIff DEF JobsLive
<1>3. writer[j.conn] = "up" /\ apc[j.conn] \in {"loop", "forward", "rmroute", "rmreq"}
  BY <1>1, <1>2 DEF LinkInv
<1> QED
  BY <1>1, <1>2, <1>3 DEF RouteInv, AgentsMatchThreads

LEMMA RemovedStep ==
  ASSUME NamesDistinct, TypeOK, RouteInv, RemoveInv, CancelInv, [Next]_vars
  PROVE  RemovedInv'
<1> SUFFICES ASSUME NEW c \in CConns, NEW j \in jobs', cpc'[c] = "rmroute", j.route = call'[c].route
             PROVE  j \in cancelled'
  BY DEF RemovedInv
<1>0. LocalsSet /\ IdsInv /\ LinkInv /\ JobsLive /\ SendInv /\ RemovedInv /\ RoutedInv
  BY DEF RouteInv, CancelInv
<1>1. CASE cpc'[c] = cpc[c] /\ call'[c] = call[c]
  <2>1. CASE j \in jobs
    BY <1>0, <1>1, <2>1, Trends DEF RemovedInv
  <2>2. ASSUME NEW d \in CConns, Starts(d, j) PROVE FALSE
    <3>1. cpc[d] = "send" /\ \E e \in routes : e.id = j.route /\ e.ctrl = d
      BY <1>0, <2>2, StartsOn
    <3> QED
      BY <1>1, <3>1 DEF RemoveInv
  <2> QED
    BY <1>0, <2>1, <2>2, JobsIn
<1>2. ASSUME Fails(c), j \in jobs, j \notin cancelled PROVE FALSE
  <2>1. /\ cpc[c] \in {"contconn", "send"} /\ j.route = call[c].route
    BY <1>2 DEF Fails, SameRoute
  <2>2. /\ j.conn \in AConns /\ writer[j.conn] = "up" /\ agents[NameOf[j.conn]] = j.conn
        /\ j.ctrl \in CConns /\ j \in JobsInSight
    BY <1>0, <1>2, JobsAgentUp
  <2>3. PICK e \in Held : e.id = j.route /\ (e \in routes \/ cpc[j.ctrl] = "cancel")
    BY <1>0, <1>2, <2>2, HeldIff DEF RoutedInv, On
  <2>4. e.ctrl = j.ctrl /\ e.agent = NameOf[j.conn]
    BY <1>0, <2>2, <2>3 DEF IdsInv, JobsAgree
  <2>5. e.ctrl = c /\ e.agent = call[c].name
    BY <1>0, <2>1, <2>3 DEF IdsInv, CallsAgree
  <2>6. CASE cpc[c] = "contconn" /\ agents[call[c].name] = NoConn
    BY <2>2, <2>4, <2>5, <2>6, NoConnAssumption
  <2>7. CASE cpc[c] = "send" /\ writer[call[c].conn] = "dead"
    <3>1. call[c].conn \in AConns /\ call[c].name = NameOf[call[c].conn]
      BY <1>0, <2>7 DEF LocalsSet
    <3>2. call[c].conn = j.conn
      BY <2>2, <2>4, <2>5, <3>1 DEF NamesDistinct
    <3> QED
      BY <2>2, <2>7, <3>2
  <2> QED
    BY <1>2, <2>6, <2>7 DEF Fails
<1>3. CASE CtrlStep(c) /\ ~(cpc'[c] = cpc[c] /\ call'[c] = call[c])
  <2>1. Fails(c)
    BY <1>0, <1>3, CallMoves DEF Asks, Looks, Finds, Inserts, Goes, Removes, Answers, Sends, Leaves, Cleans, Cancels, Closes
  <2>2. jobs' = jobs /\ cancelled' = cancelled
    BY <2>1 DEF Fails, Nowhere
  <2> QED
    BY <1>2, <2>1, <2>2
<1> QED
  BY <1>0, <1>1, <1>3, CallFrom

LEMMA RoutedStep ==
  ASSUME NamesDistinct, TypeOK, RouteInv, RemoveInv, CancelInv, [Next]_vars
  PROVE  RoutedInv'
<1> SUFFICES ASSUME NEW j \in jobs', j \notin cancelled'
             PROVE  \/ \E e \in routes' : e.id = j.route
                    \/ cpc'[j.ctrl] = "cancel" /\ \E e \in cheld'[j.ctrl] : e.id = j.route
  BY DEF RoutedInv, On
<1>0. /\ LocalsSet /\ IdsInv /\ AgentsMatchThreads
      /\ LinkInv /\ JobsLive /\ SendInv /\ FinalInv /\ RemovedInv /\ RoutedInv
  BY DEF RouteInv, CancelInv
<1>1. ASSUME NEW c \in CConns, Starts(c, j) PROVE \E e \in routes' : e.id = j.route
  BY <1>0, <1>1, StartsOn
<1>2. ASSUME j \in jobs, NEW e \in routes, e.id = j.route
      PROVE  e \in routes' \/ (cpc'[j.ctrl] = "cancel" /\ e \in cheld'[j.ctrl])
  <2>1. j \notin cancelled
    BY <1>0, Trends
  <2>2. j.conn \in AConns /\ link[j.conn] = "up" /\ j \in JobsInSight /\ e \in Held
    BY <1>0, <1>2, <2>1, JobsAgentUp, HeldIff
  <2>3. e.ctrl = j.ctrl /\ e.agent = NameOf[j.conn]
    BY <1>0, <1>2, <2>2 DEF IdsInv, JobsAgree
  <2>4. ASSUME NEW a \in AConns, AgentRmRoute(a), e.id = aframe[a].job.route PROVE FALSE
    BY <1>0, <1>2, <2>4 DEF AgentRmRoute, FinalInv, Final
  <2>5. ASSUME NEW a \in AConns, AgentCleanRoutes(a), e.agent = NameOf[a] PROVE FALSE
    <3>1. a = j.conn
      BY <2>2, <2>3, <2>5 DEF NamesDistinct
    <3> QED
      BY <1>0, <2>2, <2>5, <3>1 DEF AgentCleanRoutes, LinkInv
  <2>6. ASSUME NEW c \in CConns, Removes(c), e.id = call[c].route PROVE FALSE
    BY <1>0, <1>2, <2>1, <2>6 DEF Removes, RemovedInv
  <2>7. ASSUME NEW c \in CConns, Cleans(c), e.ctrl = c, e \in cheld'[c]
        PROVE  cpc'[j.ctrl] = "cancel" /\ e \in cheld'[j.ctrl]
    BY <2>3, <2>7 DEF Cleans
  <2> QED
    BY <1>0, <2>4, <2>5, <2>6, <2>7, RoutesOut
<1>3. ASSUME j \in jobs, cpc[j.ctrl] = "cancel", NEW e \in cheld[j.ctrl], e.id = j.route
      PROVE  cpc'[j.ctrl] = "cancel" /\ e \in cheld'[j.ctrl]
  <2>1. j \notin cancelled
    BY <1>0, Trends
  <2>2. /\ j.conn \in AConns /\ j.ctrl \in CConns /\ j \in JobsInSight /\ e \in Held
        /\ agents[NameOf[j.conn]] = j.conn /\ writer[j.conn] = "up"
    BY <1>0, <1>3, <2>1, JobsAgentUp, HeldIff
  <2>3. e.agent = NameOf[j.conn]
    BY <1>0, <1>3, <2>2 DEF IdsInv, JobsAgree
  <2>4. ASSUME NEW a \in AConns, AgentStep(a) PROVE UNCHANGED <<cpc, cheld>>
    BY <2>4, AgentMoves
  <2>5. ASSUME NEW c \in CConns, CtrlStep(c), c # j.ctrl
        PROVE  cpc'[j.ctrl] = cpc[j.ctrl] /\ cheld'[j.ctrl] = cheld[j.ctrl]
    BY <1>0, <2>2, <2>5, CallMoves
  <2>6. CASE CtrlStep(j.ctrl)
    <3>1. Cancels(j.ctrl)
      BY <1>0, <1>3, <2>2, <2>6, CallMoves DEF Asks, Looks, Finds, Inserts, Goes, Fails, Removes, Answers, Sends, Leaves, Cleans, Closes
    <3>2. PICK f \in cheld[j.ctrl] :
            /\ agents[f.agent] \in AConns /\ writer[agents[f.agent]] = "up" =>
                 cancelled' = cancelled \cup {i \in JobsOn(agents[f.agent]) : i.route = f.id}
            /\ cheld' = [cheld EXCEPT ![j.ctrl] = @ \ {f}]
      BY <3>1 DEF Cancels, CtrlCancel
    <3>3. f # e
      BY <1>3, <2>2, <2>3, <3>2 DEF JobsOn
    <3>4. e \in cheld'[j.ctrl]
      BY <2>2, <1>3, <3>2, <3>3 DEF TypeOK
    <3> QED
      BY <3>1, <3>4 DEF Cancels
  <2>7. UNCHANGED vars => UNCHANGED <<cpc, cheld>>
    BY DEF vars, cthread
  <2> QED
    BY <1>3, <2>4, <2>5, <2>6, <2>7, RelaySteps
<1>4. CASE j \in jobs
  <2>1. j \notin cancelled
    BY <1>0, Trends
  <2> QED
    BY <1>0, <1>2, <1>3, <1>4, <2>1 DEF RoutedInv, On
<1> QED
  BY <1>0, <1>1, <1>4, JobsIn

LEMMA CancelStep ==
  ASSUME NamesDistinct, TypeOK, TypeOK', RouteInv, RemoveInv, CancelInv, [Next]_vars
  PROVE  CancelInv'
<1>1. LocalsSet /\ StartInv /\ LinkInv /\ JobsLive /\ SendInv /\ FinalInv
  BY DEF RouteInv, CancelInv
<1>2. StartInv' /\ LinkInv' /\ JobsLive'
  BY <1>1, StartStep, LinkStep, LiveStep
<1>3. SendInv' /\ FinalInv'
  BY <1>1, SendStep, FinalStep
<1> QED
  BY <1>2, <1>3, RemovedStep, RoutedStep DEF CancelInv

(* Once cleanup_ctrl is through, every job of the controller has been told   *)
(* to stop, by a RouteCancel or by the end of its agent's link, provided no  *)
(* two agent connections share a name (the hypothesis; without it the        *)
(* property fails, as the run relay_cancel shows).                           *)
THEOREM RelayCancels ==
  ASSUME NamesDistinct
  PROVE  Spec => []CancelOnDisconnect
<1> DEFINE Inv == TypeOK /\ RouteInv /\ RemoveInv /\ CancelInv
<1>1. Init => Inv
  <2>1. Init => RemoveInv /\ CancelInv
    <3> SUFFICES ASSUME Init PROVE RemoveInv /\ CancelInv
      OBVIOUS
    <3>1. RemoveInv /\ LinkInv /\ JobsLive /\ RoutedInv /\ FinalInv /\ RemovedInv
      BY DEF Init, RemoveInv, LinkInv, JobsLive, RoutedInv, FinalInv, RemovedInv
    <3>2. StartInv
      BY JobsIff DEF Init, StartInv, Busy, NoResult, Results
    <3>3. SendInv
      BY DEF Init, SendInv, Carried
    <3> QED
      BY <3>1, <3>2, <3>3 DEF CancelInv
  <2> QED
    BY <2>1, RelayInit
<1>2. Inv /\ [Next]_vars => Inv'
  <2>1. TypeOK /\ RouteInv /\ [Next]_vars => TypeOK' /\ RouteInv'
    BY TypeStep, AgentsStep, LocalsStep, OwnerStep, IdsStep DEF RouteInv
  <2> QED
    BY <2>1, RemoveStep, CancelStep
<1>3. Inv => CancelOnDisconnect
  <2> SUFFICES ASSUME Inv, NEW c \in CConns, cpc[c] = "closed", NEW j \in jobs, j.ctrl = c, j \notin cancelled
               PROVE  FALSE
    BY DEF CancelOnDisconnect
  <2>1. PICK e \in routes : e.id = j.route
    BY DEF CancelInv, RoutedInv, On
  <2>2. e \in Held /\ j \in JobsInSight
    BY <2>1, HeldIff, JobsIff
  <2>3. e.ctrl = c
    BY <2>1, <2>2 DEF RouteInv, IdsInv, JobsAgree
  <2> QED
    BY <2>1, <2>3 DEF RouteInv, RouteOwnerAlive
<1> QED
  BY <1>1, <1>2, <1>3, PTL DEF Spec

----------------------------------------------------------------------------
(* The relay implements Delivery.  What its refinement needs to know, beyond *)
(* the parts above that do not depend on the names:                          *)

(* no request has two jobs, whether running or about to be forwarded *)
OneJob ==
  \A j, k \in JobsInSight : j.ctrl = k.ctrl /\ j.req = k.req => j = k

(* entries are of requests that were opened *)
OpenedInv ==
  /\ \A e \in routes : e.req \in started[e.ctrl]
  /\ \A a \in AConns : \A e \in aheld[a] : e.req \in started[e.ctrl]

(* cleanup_ctrl cancels jobs of its own controller *)
CancelOwn == \A c \in CConns : cpc[c] = "cancel" => \A e \in cheld[c] : e.ctrl = c

(* a route leads to a name that is registered, or was, and its agent is lost *)
Known(n) == agents[n] # NoConn \/ Lost(n)
Calm == \A a \in AConns : link[a] = "up"

KnownInv ==
  /\ \A e \in routes : Known(e.agent)
  /\ \A c \in CConns : cpc[c] \in {"contconn", "insroute", "insreq", "send"} => Known(call[c].name)
  /\ \A c \in CConns : cpc[c] = "rmroute" =>
       Lost(call[c].name) /\ \A e \in routes : e.id = call[c].route => e.agent = call[c].name
  /\ \A c \in CConns : cpc[c] \in {"rmreq", "err410"} => ~Calm

(* a job without a route is not missed: its controller was told or is gone,  *)
(* or an agent of its name is                                                *)
GoneInv ==
  \A j \in jobs :
    \/ On(j.route) \/ <<j.ctrl, j.req>> \in answered
    \/ cpc[j.ctrl] \in {"cancel", "closed"} \/ Lost(NameOf[j.conn])

LEMMA StartedGrows ==
  ASSUME TypeOK, LocalsSet, [Next]_vars, NEW c \in CConns
  PROVE  started[c] \subseteq started'[c]
<1> SUFFICES ASSUME CtrlStep(c) PROVE started[c] \subseteq started'[c]
  BY CallFrom
<1>1. started' = started \/ Asks(c)
  BY CallMoves DEF Looks, Finds, Inserts, Goes, Fails, Removes, Answers, Sends, Leaves, Cleans, Cancels, Closes
<1> QED
  BY <1>1 DEF Asks, TypeOK

LEMMA OneJobStep ==
  ASSUME TypeOK, LocalsSet, StartInv, OneJob, [Next]_vars
  PROVE  OneJob'
<1> SUFFICES ASSUME NEW j \in JobsInSight', NEW k \in JobsInSight', j.ctrl = k.ctrl, j.req = k.req
             PROVE  j = k
  BY DEF OneJob
<1>1. ASSUME NEW c \in CConns, NEW i, Starts(c, i)
      PROVE  /\ i = [conn |-> call[c].conn, route |-> call[c].route, ctrl |-> c, req |-> call[c].req]
             /\ i.ctrl = c /\ i.req = call[c].req
             /\ \A h \in JobsInSight : ~(h.ctrl = c /\ h.req = call[c].req)
  BY <1>1 DEF Starts, Sends, StartInv, Busy
<1>2. CASE j \in JobsInSight /\ k \in JobsInSight
  BY <1>2 DEF OneJob
<1>3. ASSUME NEW c \in CConns, Starts(c, j) PROVE j = k
  <2>1. k \notin JobsInSight
    BY <1>1, <1>3
  <2>2. PICK d \in CConns : Starts(d, k)
    BY <2>1, JobsIn
  <2> QED
    BY <1>1, <1>3, <2>2
<1>4. ASSUME NEW c \in CConns, Starts(c, k) PROVE j = k
  <2>1. j \notin JobsInSight
    BY <1>1, <1>4
  <2>2. PICK d \in CConns : Starts(d, j)
    BY <2>1, JobsIn
  <2> QED
    BY <1>1, <1>4, <2>2
<1> QED
  BY <1>2, <1>3, <1>4, JobsIn

(* an agent's thread holds what it held, or takes it from the table *)
LEMMA HeldFrom ==
  ASSUME TypeOK, LocalsSet, [Next]_vars, NEW a \in AConns, NEW e \in aheld'[a]
  PROVE  e \in aheld[a] \/ e \in routes
<1>1. CASE AgentStep(a)
  <2> USE <1>1 DEF TypeOK, athread
  <2>1. CASE HelloReject(a) \/ Register(a) \/ SendHelloOk(a) \/ AgentRmReq(a) \/ AgentRecvErr(a)
    BY <2>1 DEF HelloReject, Register, SendHelloOk, AgentRmReq, AgentRecvErr
  <2>2. CASE AgentForward(a) \/ AgentRmRoute(a)
    BY <2>2 DEF AgentForward, AgentRmRoute, RouteOf
  <2>3. CASE AgentCleanAgents(a) \/ AgentCleanRoutes(a) \/ AgentCleanError(a) \/ AgentClose(a)
    BY <2>3 DEF AgentCleanAgents, AgentCleanRoutes, AgentCleanError, AgentClose
  <2>4. CASE AgentPeer(a)
    BY <2>4 DEF AgentPeer, AgentDrop, JobQuit, WriterExit
  <2>5. CASE AgentRecvResult(a)
    BY <2>5 DEF AgentRecvResult, RouteOf
  <2> QED
    BY <2>1, <2>2, <2>3, <2>4, <2>5 DEF AgentStep, AgentWork
<1>2. ASSUME NEW b \in AConns, AgentStep(b), b # a PROVE aheld'[a] = aheld[a]
  BY <1>2, AgentMoves
<1>3. ASSUME NEW c \in CConns, CtrlStep(c) PROVE aheld' = aheld
  BY <1>3, CallMoves
<1>4. UNCHANGED vars => aheld' = aheld
  BY DEF vars, athread
<1> QED
  BY <1>1, <1>2, <1>3, <1>4, RelaySteps

LEMMA OpenedStep ==
  ASSUME TypeOK, TypeOK', LocalsSet, StartInv, OpenedInv, [Next]_vars
  PROVE  OpenedInv'
<1>1. ASSUME NEW e \in routes PROVE e.req \in started'[e.ctrl]
  BY <1>1, StartedGrows DEF TypeOK, Entries, OpenedInv
<1>2. ASSUME NEW e \in routes' PROVE e.req \in started'[e.ctrl]
  <2>1. ASSUME NEW c \in CConns, CtrlStep(c), Inserts(c),
               e = [id |-> nextRoute, ctrl |-> c, agent |-> call[c].name, req |-> call[c].req]
        PROVE  e.req \in started'[e.ctrl]
    <3>1. call[c].req \in started[c]
      BY <2>1 DEF Inserts, StartInv, Busy
    <3> QED
      BY <2>1, <3>1, StartedGrows
  <2> QED
    BY <1>1, <2>1, RoutesIn
<1>3. ASSUME NEW a \in AConns, NEW e \in aheld'[a] PROVE e.req \in started'[e.ctrl]
  <2>1. CASE e \in aheld[a]
    BY <2>1, StartedGrows DEF TypeOK, Entries, OpenedInv
  <2> QED
    BY <1>1, <2>1, HeldFrom
<1> QED
  BY <1>2, <1>3 DEF OpenedInv

LEMMA CancelOwnStep ==
  ASSUME TypeOK, LocalsSet, CancelOwn, [Next]_vars
  PROVE  CancelOwn'
<1> SUFFICES ASSUME NEW c \in CConns, cpc'[c] = "cancel", NEW e \in cheld'[c] PROVE e.ctrl = c
  BY DEF CancelOwn
<1>1. CASE CtrlStep(c)
  <2>1. CASE Cleans(c)
    BY <2>1 DEF Cleans, TypeOK
  <2>2. CASE Cancels(c)
    BY <2>2 DEF Cancels, CtrlCancel, TypeOK, CancelOwn
  <2> QED
    BY <1>1, <2>1, <2>2, CallMoves DEF Asks, Looks, Finds, Inserts, Goes, Fails, Removes, Answers, Sends, Leaves, Closes
<1>2. ASSUME NEW a \in AConns, AgentStep(a) PROVE cpc' = cpc /\ cheld' = cheld
  BY <1>2, AgentMoves
<1>3. ASSUME NEW d \in CConns, CtrlStep(d), d # c PROVE cpc'[c] = cpc[c] /\ cheld'[c] = cheld[c]
  BY <1>3, CallMoves
<1>4. UNCHANGED vars => cpc' = cpc /\ cheld' = cheld
  BY DEF vars, cthread
<1> QED
  BY <1>1, <1>2, <1>3, <1>4, RelaySteps DEF CancelOwn

LEMMA LostStays ==
  ASSUME TypeOK, LocalsSet, [Next]_vars
  PROVE  (\A n : Lost(n) => Lost(n)') /\ (~Calm => ~Calm')
<1>1. \A a \in AConns : link[a] \in {"up", "down"}
  BY DEF TypeOK
<1> QED
  BY <1>1, Trends DEF Lost, Calm

LEMMA KnownStays ==
  ASSUME TypeOK, LocalsSet, LinkInv, [Next]_vars, NEW n \in Names, Known(n)
  PROVE  Known(n)'
<1>1. CASE Lost(n)
  BY <1>1, LostStays DEF Known
<1>2. CASE agents[n] # NoConn
  <2>1. ASSUME NEW a \in AConns, AgentStep(a) PROVE Known(n)'
    <3> USE DEF shared
    <3>1. CASE HelloReject(a) \/ SendHelloOk(a) \/ AgentForward(a) \/ AgentRmRoute(a) \/ AgentRmReq(a)
      BY <1>2, <3>1 DEF HelloReject, SendHelloOk, AgentForward, AgentRmRoute, AgentRmReq, Known
    <3>2. CASE AgentRecvErr(a) \/ AgentCleanRoutes(a) \/ AgentCleanError(a) \/ AgentClose(a) \/ AgentPeer(a)
      BY <1>2, <3>2 DEF AgentRecvErr, AgentCleanRoutes, AgentCleanError, AgentClose, AgentPeer, AgentDrop,
        JobQuit, WriterExit, Known
    <3>3. CASE AgentRecvResult(a)
      BY <1>2, <3>3 DEF AgentRecvResult, Known
    <3>4. CASE Register(a)
      BY <1>2, <3>4, NoConnAssumption DEF Register, Known, TypeOK
    <3>5. CASE AgentCleanAgents(a)
      <4>1. link[a] = "down"
        BY <3>5 DEF AgentCleanAgents, LinkInv, TypeOK
      <4>2. CASE n = NameOf[a]
        BY <4>1, <4>2, LostStays DEF Lost, Known
      <4>3. CASE n # NameOf[a]
        BY <1>2, <3>5, <4>3 DEF AgentCleanAgents, Known, TypeOK
      <4> QED
        BY <4>2, <4>3
    <3> QED
      BY <2>1, <3>1, <3>2, <3>3, <3>4, <3>5 DEF AgentStep, AgentWork
  <2>2. ASSUME NEW c \in CConns, CtrlStep(c) PROVE agents' = agents
    BY <2>2, CallMoves
  <2>3. UNCHANGED vars => agents' = agents
    BY DEF vars, shared
  <2> QED
    BY <1>2, <2>1, <2>2, <2>3, RelaySteps DEF Known
<1> QED
  BY <1>1, <1>2 DEF Known

LEMMA KnownStep ==
  ASSUME TypeOK, TypeOK', RouteInv, LinkInv, KnownInv, [Next]_vars
  PROVE  KnownInv'
<1>0. LocalsSet /\ IdsInv
  BY DEF RouteInv
<1>t. \A e \in routes : e \in Entries /\ e.agent \in Names /\ e.id \in Nat
  BY DEF TypeOK, Entries
<1>n. \A c \in CConns : cpc[c] \in {"contconn", "insroute", "insreq", "send"} => call[c].name \in Names
  BY <1>0, NameOfAssumption DEF LocalsSet
<1>1. ASSUME NEW e \in routes' PROVE Known(e.agent)'
  <2>1. CASE e \in routes
    BY <1>0, <1>t, <2>1, KnownStays DEF KnownInv
  <2>2. ASSUME NEW c \in CConns, Inserts(c),
               e = [id |-> nextRoute, ctrl |-> c, agent |-> call[c].name, req |-> call[c].req]
        PROVE  Known(e.agent)'
    <3>1. e.agent = call[c].name /\ call[c].name \in Names /\ Known(call[c].name)
      BY <1>n, <2>2 DEF Inserts, KnownInv
    <3> QED
      BY <1>0, <3>1, KnownStays
  <2> QED
    BY <1>0, <2>1, <2>2, RoutesIn
<1>2. ASSUME NEW c \in CConns, cpc'[c] \in {"contconn", "insroute", "insreq", "send"},
             NEW n, n = call'[c].name
      PROVE  Known(n)'
  <2>1. CASE cpc'[c] = cpc[c] /\ call'[c] = call[c]
    BY <1>0, <1>2, <1>n, <2>1, KnownStays DEF KnownInv
  <2>2. CASE CtrlStep(c)
    <3>1. CASE Finds(c)
      BY <1>0, <1>2, <1>t, <3>1, KnownStays DEF Finds, KnownInv
    <3>2. CASE Inserts(c) \/ Goes(c)
      BY <1>0, <1>2, <1>n, <3>2, KnownStays DEF Inserts, Goes, SameRoute, KnownInv
    <3>3. CASE Looks(c)
      <4>1. call'[c].name = call[c].name /\ agents[call[c].name] # NoConn /\ agents' = agents
        BY <1>0, <1>2, <2>2, <3>3, CallMoves DEF Looks
      <4> QED
        BY <1>2, <4>1 DEF Known
    <3> QED
      BY <1>0, <1>2, <2>2, <3>1, <3>2, <3>3, CallMoves
      DEF Asks, Fails, Removes, Answers, Sends, Leaves, Cleans, Cancels, Closes
  <2> QED
    BY <1>0, <2>1, <2>2, CallFrom
<1>3. ASSUME NEW c \in CConns, cpc'[c] = "rmroute", NEW n, n = call'[c].name
      PROVE  Lost(n)' /\ \A e \in routes' : e.id = call'[c].route => e.agent = n
  <2>1. CASE cpc'[c] = cpc[c] /\ call'[c] = call[c]
    <3>1. Lost(n)'
      BY <1>0, <1>3, <2>1, LostStays DEF KnownInv
    <3>2. call[c] \in Calls /\ call[c].route \in Nat /\ call[c].route < nextRoute /\ nextRoute \in Nat
      BY <1>0, <1>3, <2>1 DEF LocalsSet, IdsInv, IdsFresh, Calls, TypeOK
    <3>3. ASSUME NEW e \in routes', e.id = call[c].route PROVE e \in routes
      BY <1>0, <3>2, <3>3, RoutesIn
    <3> QED
      BY <1>3, <2>1, <3>1, <3>3 DEF KnownInv
  <2>2. CASE CtrlStep(c)
    <3>1. Fails(c)
      BY <1>0, <1>3, <2>2, CallMoves
      DEF Asks, Looks, Finds, Inserts, Goes, Removes, Answers, Sends, Leaves, Cleans, Cancels, Closes
    <3>2. Lost(call[c].name)
      <4>1. CASE cpc[c] = "contconn" /\ agents[call[c].name] = NoConn
        BY <4>1 DEF KnownInv, Known
      <4>2. CASE cpc[c] = "send" /\ writer[call[c].conn] = "dead"
        BY <1>0, <4>2 DEF LocalsSet, LinkInv, Lost, TypeOK
      <4> QED
        BY <3>1, <4>1, <4>2 DEF Fails
    <3>3. \A e \in routes : e.id = call[c].route => e.agent = call[c].name
      BY <3>1, OwnRoute DEF Fails, Carried
    <3> QED
      BY <1>0, <1>3, <3>1, <3>2, <3>3, LostStays DEF Fails, Nowhere, SameRoute
  <2> QED
    BY <1>0, <2>1, <2>2, CallFrom
<1>4. ASSUME NEW c \in CConns, cpc'[c] \in {"rmreq", "err410"} PROVE ~Calm'
  <2>1. cpc[c] \in {"rmroute", "rmreq", "err410"}
    <3>1. CASE CtrlStep(c)
      <4>1. CASE CtrlRmReq(c)
        BY <4>1 DEF CtrlRmReq
      <4> QED
        BY <1>0, <1>4, <3>1, CallMoves
        DEF Asks, Looks, Finds, Inserts, Goes, Fails, Removes, Answers, Sends, Leaves, Cleans, Cancels, Closes
    <3> QED
      BY <1>0, <1>4, <3>1, CallFrom
  <2>2. ~Calm
    BY <2>1 DEF KnownInv, Lost, Calm
  <2> QED
    BY <1>0, <2>2, LostStays
<1>5. \A c \in CConns : cpc'[c] \in {"contconn", "insroute", "insreq", "send"} => Known(call[c].name)'
  BY <1>2 DEF Known, Lost
<1>6. \A c \in CConns : cpc'[c] = "rmroute" => Lost(call[c].name)'
  BY <1>3 DEF Lost
<1> QED
  BY <1>1, <1>3, <1>4, <1>5, <1>6 DEF KnownInv

LEMMA GoneStep ==
  ASSUME TypeOK, RouteInv, DropInv, LinkInv, SendInv, KnownInv, GoneInv, [Next]_vars
  PROVE  GoneInv'
<1>0. LocalsSet /\ IdsInv
  BY DEF RouteInv
<1> SUFFICES ASSUME NEW j \in jobs'
             PROVE  \/ On(j.route)' \/ <<j.ctrl, j.req>> \in answered'
                    \/ cpc'[j.ctrl] \in {"cancel", "closed"} \/ Lost(NameOf[j.conn])'
  BY DEF GoneInv, On, Lost
<1>1. ASSUME NEW c \in CConns, Starts(c, j)
      PROVE  On(j.route)' \/ Lost(NameOf[j.conn])'
  <2>1. /\ j.conn = call[c].conn /\ j.route = call[c].route
        /\ cpc[c] = "send" /\ call[c].kind = "start" /\ routes' = routes
    BY <1>1 DEF Starts, Sends
  <2>2. NameOf[j.conn] = call[c].name
    BY <1>0, <2>1 DEF LocalsSet
  <2> QED
    BY <1>0, <2>1, <2>2, LostStays DEF SendInv, Carried, On
<1>2. CASE j \in jobs
  <2>t. j.ctrl \in CConns /\ j \in JobsInSight
    BY <1>2, JobsIff DEF TypeOK, Jobs
  <2>1. <<j.ctrl, j.req>> \in answered => <<j.ctrl, j.req>> \in answered'
    BY <1>0, Trends
  <2>2. Lost(NameOf[j.conn]) => Lost(NameOf[j.conn])'
    BY <1>0, LostStays
  <2>3. cpc[j.ctrl] \in {"cancel", "closed"} => cpc'[j.ctrl] \in {"cancel", "closed"}
    <3>1. CtrlStep(j.ctrl) /\ cpc[j.ctrl] \in {"cancel", "closed"} => cpc'[j.ctrl] \in {"cancel", "closed"}
      BY <1>0, <2>t, CallMoves
      DEF Asks, Looks, Finds, Inserts, Goes, Fails, Removes, Answers, Sends, Leaves, Cleans, Cancels, Closes
    <3> QED
      BY <1>0, <2>t, <3>1, CallFrom
  <2>4. ASSUME NEW e \in routes, e.id = j.route
        PROVE  \/ e \in routes' \/ <<j.ctrl, j.req>> \in answered'
               \/ cpc'[j.ctrl] \in {"cancel", "closed"} \/ Lost(NameOf[j.conn])
    <3>1. e.ctrl = j.ctrl /\ e.req = j.req /\ e.agent = NameOf[j.conn] /\ e \in Held
      BY <1>0, <2>t, <2>4, HeldIff DEF IdsInv, JobsAgree
    <3>2. ASSUME NEW a \in AConns, AgentRmRoute(a), e.id = aframe[a].job.route
          PROVE  <<j.ctrl, j.req>> \in answered
      <4>1. aframe[a].job \in JobsInSight /\ apc[a] = "rmroute"
        BY <1>0, <3>2, JobsIff DEF AgentRmRoute, LocalsSet
      <4>2. aframe[a].job.ctrl = e.ctrl /\ aframe[a].job.req = e.req
        BY <1>0, <3>1, <3>2, <4>1 DEF IdsInv, JobsAgree
      <4> QED
        BY <3>1, <4>1, <4>2 DEF DropInv
    <3>3. ASSUME NEW a \in AConns, AgentCleanRoutes(a), e.agent = NameOf[a] PROVE Lost(NameOf[j.conn])
      BY <3>1, <3>3 DEF AgentCleanRoutes, LinkInv, TypeOK, Lost
    <3>4. ASSUME NEW c \in CConns, Removes(c), e.id = call[c].route PROVE Lost(NameOf[j.conn])
      BY <3>1, <3>4 DEF Removes, KnownInv
    <3>5. ASSUME NEW c \in CConns, Cleans(c), e.ctrl = c PROVE cpc'[j.ctrl] = "cancel"
      BY <3>1, <3>5 DEF Cleans
    <3> QED
      BY <1>0, <2>1, <3>2, <3>3, <3>4, <3>5, RoutesOut
  <2> QED
    BY <1>2, <2>1, <2>2, <2>3, <2>4 DEF GoneInv, On
<1> QED
  BY <1>0, <1>1, <1>2, JobsIn

(* While all agents are connected, by_req leads every request that has had   *)
(* no answer to its route, from the moment its first frame is sent.          *)
Linked(c, q) == \E e \in routes : e.ctrl = c /\ e.req = q /\ e.id = byReq[<<c, q>>]

Unsent(c, q) == Busy(c) /\ cpc[c] # "send" /\ call[c].kind = "start" /\ call[c].req = q
Continues(c) ==
  /\ call[c].kind = "cont" => cpc[c] \in {"byreq", "route", "contconn", "send"}
  /\ cpc[c] \in {"route", "contconn"} => call[c].route = byReq[<<c, call[c].req>>]

CalmInv ==
  Calm => \A c \in CConns :
    /\ cpc[c] = "loop" \/ Busy(c) => \A q \in started[c] :
         <<c, q>> \in answered \/ Linked(c, q) \/ Unsent(c, q)
    /\ Busy(c) /\ <<c, call[c].req>> \notin answered => Continues(c)

(* remove_route after a final payload clears by_req of an answered request *)
RmReqInv ==
  \A a \in AConns : apc[a] = "rmreq" => \A e \in aheld[a] : <<e.ctrl, e.req>> \in answered

LEMMA RmReqStep ==
  ASSUME TypeOK, RouteInv, DropInv, RmReqInv, [Next]_vars
  PROVE  RmReqInv'
<1>0. LocalsSet /\ IdsInv
  BY DEF RouteInv
<1> SUFFICES ASSUME NEW a \in AConns, apc'[a] = "rmreq", NEW e \in aheld'[a]
             PROVE  <<e.ctrl, e.req>> \in answered
  BY <1>0, Trends DEF RmReqInv
<1>1. CASE AgentStep(a)
  <2>1. CASE AgentRmRoute(a)
    <3>1. e \in routes /\ e.id = aframe[a].job.route /\ apc[a] = "rmroute"
      BY <2>1 DEF AgentRmRoute, RouteOf, TypeOK
    <3>2. aframe[a].job \in JobsInSight
      BY <1>0, <3>1, JobsIff DEF LocalsSet
    <3>3. e.ctrl = aframe[a].job.ctrl /\ e.req = aframe[a].job.req
      BY <1>0, <3>1, <3>2, HeldIff DEF IdsInv, JobsAgree
    <3> QED
      BY <3>1, <3>3 DEF DropInv
  <2>2. CASE AgentPeer(a)
    BY <2>2 DEF AgentPeer, AgentDrop, JobQuit, WriterExit, athread, RmReqInv
  <2>3. CASE AgentRecvResult(a)
    BY <2>3 DEF AgentRecvResult, athread, RmReqInv, TypeOK
  <2>4. CASE HelloReject(a) \/ Register(a) \/ SendHelloOk(a) \/ AgentForward(a) \/ AgentRmReq(a)
    BY <2>4 DEF HelloReject, Register, SendHelloOk, AgentForward, AgentRmReq, TypeOK
  <2>5. CASE AgentRecvErr(a) \/ AgentCleanAgents(a) \/ AgentCleanRoutes(a) \/ AgentCleanError(a) \/ AgentClose(a)
    BY <2>5 DEF AgentRecvErr, AgentCleanAgents, AgentCleanRoutes, AgentCleanError, AgentClose, TypeOK
  <2> QED
    BY <1>1, <2>1, <2>2, <2>3, <2>4, <2>5 DEF AgentStep, AgentWork
<1>2. ASSUME NEW b \in AConns, AgentStep(b), b # a PROVE apc'[a] = apc[a] /\ aheld'[a] = aheld[a]
  BY <1>2, AgentMoves
<1>3. ASSUME NEW c \in CConns, CtrlStep(c) PROVE apc' = apc /\ aheld' = aheld
  BY <1>0, <1>3, CallMoves
<1>4. UNCHANGED vars => apc' = apc /\ aheld' = aheld
  BY DEF vars, athread
<1> QED
  BY <1>1, <1>2, <1>3, <1>4, RelaySteps DEF RmReqInv

(* who changes what by_req says of a request *)
LEMMA ByReqMoves ==
  ASSUME TypeOK, LocalsSet, [Next]_vars, NEW k \in CConns \X ReqIds
  PROVE  \/ byReq'[k] = byReq[k]
         \/ \E a \in AConns : AgentRmReq(a) /\ \E f \in aheld[a] : <<f.ctrl, f.req>> = k
         \/ \E a \in AConns : AgentCleanRoutes(a)
         \/ \E c \in CConns : CtrlRmReq(c)
         \/ \E c \in CConns : CtrlStep(c) /\ Cleans(c) /\ c = k[1]
         \/ \E c \in CConns : /\ CtrlStep(c) /\ Goes(c) /\ cpc[c] = "insreq"
                              /\ k = <<c, call[c].req>>
<1>0. byReq \in [CConns \X ReqIds -> Nat]
  BY DEF TypeOK
<1>1. ASSUME NEW a \in AConns, AgentStep(a)
      PROVE  \/ byReq'[k] = byReq[k] \/ AgentCleanRoutes(a)
             \/ AgentRmReq(a) /\ \E f \in aheld[a] : <<f.ctrl, f.req>> = k
  <2> USE DEF shared
  <2>1. CASE HelloReject(a) \/ Register(a) \/ SendHelloOk(a) \/ AgentForward(a) \/ AgentRmRoute(a)
    BY <2>1 DEF HelloReject, Register, SendHelloOk, AgentForward, AgentRmRoute
  <2>2. CASE AgentRecvErr(a) \/ AgentCleanAgents(a) \/ AgentCleanError(a) \/ AgentClose(a) \/ AgentPeer(a)
    BY <2>2 DEF AgentRecvErr, AgentCleanAgents, AgentCleanError, AgentClose, AgentPeer, AgentDrop, JobQuit, WriterExit
  <2>3. CASE AgentRecvResult(a)
    BY <2>3 DEF AgentRecvResult
  <2>4. CASE AgentRmReq(a)
    BY <2>4 DEF AgentRmReq, Unlink
  <2> QED
    BY <1>1, <2>1, <2>2, <2>3, <2>4 DEF AgentStep, AgentWork
<1>2. ASSUME NEW c \in CConns, CtrlStep(c)
      PROVE  \/ byReq'[k] = byReq[k] \/ CtrlRmReq(c)
             \/ Cleans(c) /\ c = k[1]
             \/ Goes(c) /\ cpc[c] = "insreq" /\ k = <<c, call[c].req>>
  <2> USE DEF shared
  <2>1. CASE LookupReq(c) \/ LookupRoute(c) \/ ContConn(c) \/ ChooseAgent(c) \/ GetConn(c) \/ InsertRoute(c)
    BY <2>1 DEF LookupReq, LookupRoute, ContConn, ChooseAgent, GetConn, InsertRoute
  <2>2. CASE Send(c) \/ CtrlRmRoute(c) \/ CtrlErr410(c) \/ CtrlCancel(c) \/ CtrlClose(c) \/ CtrlRecvErr(c)
    BY <2>2 DEF Send, CtrlRmRoute, CtrlErr410, CtrlCancel, CtrlClose, CtrlRecvErr
  <2>3. CASE CtrlRecvReq(c)
    BY <2>3 DEF CtrlRecvReq
  <2>4. CASE CtrlCleanRoutes(c)
    <3>1. byReq'[k] = byReq[k] \/ c = k[1]
      BY <2>4 DEF CtrlCleanRoutes, Unlink
    <3>2. Cleans(c)
      BY <1>2, <2>4, CallMoves DEF CtrlCleanRoutes, Asks, Looks, Finds, Inserts, Goes, Fails, Removes, Answers,
        Sends, Leaves, Cancels, CtrlCancel, Closes
    <3> QED
      BY <3>1, <3>2
  <2>5. CASE InsertReq(c)
    <3>1. call[c] \in Calls /\ call[c].req \in ReqIds /\ cpc[c] = "insreq"
      BY <2>5 DEF InsertReq, LocalsSet, Calls
    <3>2. byReq'[k] = byReq[k] \/ k = <<c, call[c].req>>
      BY <1>0, <2>5, <3>1 DEF InsertReq
    <3>3. Goes(c)
      BY <1>2, <3>1, CallMoves DEF Asks, Looks, Finds, Inserts, Fails, Removes, Answers,
        Sends, Leaves, Cleans, Cancels, CtrlCancel, Closes
    <3> QED
      BY <3>1, <3>2, <3>3
  <2> QED
    BY <1>2, <2>1, <2>2, <2>3, <2>4, <2>5 DEF CtrlStep, CtrlWork
<1>3. UNCHANGED vars => byReq'[k] = byReq[k]
  BY DEF vars, shared
<1> QED
  BY <1>1, <1>2, <1>3, RelaySteps

(* A step that leaves all agents connected keeps what by_req says of a       *)
(* request without an answer, unless it is the request's own insertion.      *)
LEMMA ByReqStays ==
  ASSUME TypeOK, LocalsSet, LinkInv, KnownInv, RmReqInv, [Next]_vars, Calm,
         NEW c \in CConns, NEW q \in ReqIds, <<c, q>> \notin answered,
         ~(CtrlStep(c) /\ Cleans(c)),
         ~(CtrlStep(c) /\ Goes(c) /\ cpc[c] = "insreq" /\ call[c].req = q)
  PROVE  byReq'[<<c, q>>] = byReq[<<c, q>>]
<1>1. ASSUME NEW a \in AConns, AgentRmReq(a), NEW f \in aheld[a] PROVE <<f.ctrl, f.req>> # <<c, q>>
  BY <1>1 DEF AgentRmReq, RmReqInv
<1>2. ASSUME NEW a \in AConns PROVE ~AgentCleanRoutes(a)
  BY <1>2 DEF AgentCleanRoutes, Calm, LinkInv
<1>3. ASSUME NEW d \in CConns PROVE ~CtrlRmReq(d)
  BY <1>3 DEF CtrlRmReq, KnownInv
<1>4. <<c, q>> \in CConns \X ReqIds /\ <<c, q>>[1] = c
  OBVIOUS
<1>5. ASSUME NEW d \in CConns, CtrlStep(d), Goes(d), cpc[d] = "insreq", <<c, q>> = <<d, call[d].req>> PROVE FALSE
  BY <1>5
<1> QED
  BY <1>1, <1>2, <1>3, <1>4, <1>5, ByReqMoves

LEMMA LinkedStays ==
  ASSUME TypeOK, RouteInv, DropInv, LinkInv, KnownInv, RmReqInv, [Next]_vars, Calm,
         NEW c \in CConns, NEW q \in ReqIds, Linked(c, q),
         ~(CtrlStep(c) /\ Cleans(c)),
         ~(CtrlStep(c) /\ Goes(c) /\ cpc[c] = "insreq" /\ call[c].req = q)
  PROVE  <<c, q>> \in answered' \/ Linked(c, q)'
<1>0. LocalsSet /\ IdsInv
  BY DEF RouteInv
<1> SUFFICES ASSUME <<c, q>> \notin answered PROVE Linked(c, q)'
  BY <1>0, Trends
<1>1. PICK e \in routes : e.ctrl = c /\ e.req = q /\ e.id = byReq[<<c, q>>]
  BY DEF Linked
<1>2. byReq'[<<c, q>>] = byReq[<<c, q>>]
  BY <1>0, ByReqStays
<1>3. ASSUME NEW a \in AConns, AgentRmRoute(a), e.id = aframe[a].job.route PROVE FALSE
  <2>1. aframe[a].job \in JobsInSight /\ apc[a] = "rmroute"
    BY <1>0, <1>3, JobsIff DEF AgentRmRoute, LocalsSet
  <2>2. aframe[a].job.ctrl = c /\ aframe[a].job.req = q
    BY <1>0, <1>1, <1>3, <2>1, HeldIff DEF IdsInv, JobsAgree
  <2> QED
    BY <2>1, <2>2 DEF DropInv
<1>4. ASSUME NEW a \in AConns PROVE ~AgentCleanRoutes(a)
  BY <1>4 DEF AgentCleanRoutes, Calm, LinkInv
<1>5. ASSUME NEW d \in CConns PROVE ~Removes(d)
  BY <1>5 DEF Removes, KnownInv, Lost, Calm
<1>6. e \in routes'
  BY <1>0, <1>1, <1>3, <1>4, <1>5, RoutesOut
<1> QED
  BY <1>1, <1>2, <1>6 DEF Linked

(* the frame is about to be sent, and by_req leads to its route *)
LEMMA LinkedWhenSent ==
  ASSUME TypeOK, TypeOK', RouteInv, SendInv, CalmInv, Calm, NEW c \in CConns, Goes(c),
         call[c].kind = "start", <<c, call[c].req>> \notin answered
  PROVE  \/ cpc[c] = "contconn" /\ Linked(c, call[c].req)
         \/ cpc[c] = "insreq" /\ Linked(c, call[c].req)'
<1>0. LocalsSet /\ IdsInv
  BY DEF RouteInv
<1>1. Busy(c) /\ Carried(c) /\ cpc[c] \in {"contconn", "insreq"} /\ routes' = routes
  BY DEF Goes, Busy, Carried, Nowhere
<1>2. ~Lost(call[c].name)
  BY DEF Calm, Lost
<1>3. PICK e \in routes : e.id = call[c].route
  BY <1>1, <1>2 DEF SendInv, On
<1>4. e.ctrl = c /\ e.req = call[c].req
  BY <1>1, <1>3, OwnRoute
<1>5. call[c].req \in ReqIds
  BY <1>0, <1>1 DEF LocalsSet, Busy, Calls
<1>6. CASE cpc[c] = "contconn"
  BY <1>1, <1>3, <1>4, <1>6 DEF CalmInv, Continues, Linked
<1>7. CASE cpc[c] = "insreq"
  <2>1. byReq'[<<c, call[c].req>>] = call[c].route
    BY <1>5, <1>7 DEF Goes, TypeOK
  <2>2. call'[c].req = call[c].req
    BY DEF Goes, SameRoute, SameCall
  <2> QED
    BY <1>1, <1>3, <1>4, <1>7, <2>1, <2>2 DEF Linked
<1> QED
  BY <1>1, <1>6, <1>7

LEMMA CalmStep ==
  ASSUME TypeOK, TypeOK', RouteInv, DropInv, StartInv, LinkInv, SendInv, KnownInv, RmReqInv, CalmInv,
         [Next]_vars
  PROVE  CalmInv'
<1>0. LocalsSet /\ IdsInv
  BY DEF RouteInv
<1> SUFFICES ASSUME Calm', NEW c \in CConns
             PROVE  /\ (cpc[c] = "loop" \/ Busy(c))' => \A q \in started'[c] :
                         <<c, q>> \in answered' \/ Linked(c, q)' \/ Unsent(c, q)'
                    /\ Busy(c)' /\ <<c, call'[c].req>> \notin answered' => Continues(c)'
  BY DEF CalmInv
<1>c. Calm
  BY <1>0, LostStays
<1>k. Busy(c) => call[c] \in Calls /\ call[c].req \in ReqIds /\ call[c].kind \in {"start", "cont"}
  BY <1>0 DEF LocalsSet, Busy, Calls
<1>i. ASSUME NEW q \in started[c], <<c, q>> \notin answered, cpc[c] = "loop" \/ Busy(c)
      PROVE  Linked(c, q) \/ Unsent(c, q)
  BY <1>c, <1>i DEF CalmInv
<1>j. Busy(c) /\ <<c, call[c].req>> \notin answered => Continues(c)
  BY <1>c DEF CalmInv
<1>1. ASSUME NEW q \in started'[c], (cpc[c] = "loop" \/ Busy(c))', <<c, q>> \notin answered'
      PROVE  Linked(c, q)' \/ Unsent(c, q)'
  <2>q. q \in ReqIds /\ <<c, q>> \notin answered
    BY <1>0, <1>1, Trends DEF TypeOK
  <2>s. Linked(c, q) /\ ~(CtrlStep(c) /\ Goes(c) /\ cpc[c] = "insreq" /\ call[c].req = q) => Linked(c, q)'
    <3>1. ~Cleans(c)
      BY <1>1 DEF Cleans, Busy
    <3> QED
      BY <1>1, <1>c, <2>q, <3>1, LinkedStays
  <2>1. CASE ~CtrlStep(c)
    <3>1. cpc'[c] = cpc[c] /\ call'[c] = call[c] /\ started'[c] = started[c]
      BY <1>0, <2>1, CallFrom
    <3> QED
      BY <1>1, <1>i, <2>1, <2>q, <2>s, <3>1 DEF Busy, Unsent
  <2>2. CASE CtrlStep(c)
    <3>1. CASE Asks(c)
      <4>1. cpc[c] = "loop" /\ cpc'[c] = "byreq" /\ started'[c] = started[c] \cup {call'[c].req}
            /\ (call'[c].kind = "start" <=> call'[c].req \notin started[c])
        BY <3>1 DEF Asks, TypeOK
      <4>2. CASE q \in started[c]
        BY <1>i, <2>q, <2>s, <4>1, <4>2 DEF Unsent, Busy
      <4>3. CASE q \notin started[c]
        BY <4>1, <4>3 DEF Unsent, Busy
      <4> QED
        BY <4>2, <4>3
    <3>2. CASE Looks(c) \/ Finds(c) \/ Inserts(c) \/ Fails(c) \/ Removes(c)
      <4>1. /\ Busy(c) /\ Busy(c)' /\ SameCall(c) /\ cpc'[c] # "send" /\ started' = started /\ ~Goes(c)
        BY <3>2 DEF Looks, Finds, Inserts, Fails, Removes, SameRoute, Busy, Goes
      <4> QED
        BY <1>1, <1>i, <2>q, <2>s, <4>1 DEF SameCall, Unsent
    <3>3. CASE Goes(c)
      <4>1. Busy(c) /\ started' = started
        BY <3>3 DEF Goes, Busy
      <4>2. CASE call[c].req = q /\ call[c].kind = "start"
        <5>1. \/ cpc[c] = "contconn" /\ Linked(c, call[c].req)
              \/ cpc[c] = "insreq" /\ Linked(c, call[c].req)'
          BY <1>c, <2>q, <3>3, <4>2, LinkedWhenSent
        <5>2. cpc[c] = "contconn" /\ Linked(c, q) => Linked(c, q)'
          BY <2>s
        <5>3. Linked(c, call[c].req)' => Linked(c, q)'
          BY <3>3, <4>2 DEF Linked, Goes, SameRoute, SameCall
        <5> QED
          BY <4>2, <5>1, <5>2, <5>3
      <4>3. CASE call[c].req = q /\ call[c].kind = "cont"
        <5>1. cpc[c] # "insreq" /\ ~Unsent(c, q)
          BY <1>j, <2>q, <4>1, <4>3 DEF Continues, Unsent
        <5> QED
          BY <1>1, <1>i, <2>q, <2>s, <4>1, <5>1
      <4>4. CASE call[c].req # q
        BY <1>1, <1>i, <2>q, <2>s, <4>1, <4>4 DEF Unsent
      <4> QED
        BY <1>k, <4>1, <4>2, <4>3, <4>4
    <3>4. CASE Answers(c)
      <4>1. Busy(c) /\ started' = started /\ ~Goes(c) /\ call[c].req # q
        BY <1>1, <3>4 DEF Answers, Busy, Goes
      <4> QED
        BY <1>1, <1>i, <2>q, <2>s, <4>1 DEF Unsent
    <3>5. CASE Sends(c)
      BY <1>1, <1>i, <2>q, <2>s, <3>5 DEF Sends, Unsent, Busy, Goes
    <3>6. ~Leaves(c) /\ ~Cleans(c) /\ ~Cancels(c) /\ ~Closes(c)
      BY <1>1 DEF Leaves, Cleans, Cancels, Closes, Busy
    <3> QED
      BY <1>0, <2>2, <3>1, <3>2, <3>3, <3>4, <3>5, <3>6, CallMoves
  <2> QED
    BY <2>1, <2>2
<1>2. ASSUME Busy(c)', NEW q, q = call'[c].req, <<c, q>> \notin answered'
      PROVE  /\ call'[c].kind = "cont" => cpc'[c] \in {"byreq", "route", "contconn", "send"}
             /\ cpc'[c] \in {"route", "contconn"} => call'[c].route = byReq'[<<c, q>>]
  <2>q. <<c, q>> \notin answered
    BY <1>0, <1>2, Trends
  <2>s. q \in ReqIds /\ ~(CtrlStep(c) /\ Goes(c)) => byReq'[<<c, q>>] = byReq[<<c, q>>]
    <3>1. ~Cleans(c)
      BY <1>2 DEF Cleans, Busy
    <3> QED
      BY <1>0, <1>c, <2>q, <3>1, ByReqStays
  <2>1. CASE ~CtrlStep(c)
    <3>1. cpc'[c] = cpc[c] /\ call'[c] = call[c]
      BY <1>0, <2>1, CallFrom
    <3> QED
      BY <1>2, <1>j, <1>k, <2>1, <2>q, <2>s, <3>1 DEF Busy, Continues
  <2>2. CASE CtrlStep(c)
    <3>1. CASE Asks(c)
      BY <3>1 DEF Asks
    <3>2. CASE Looks(c)
      <4>1. Busy(c) /\ call[c].req = q /\ call'[c].kind = call[c].kind /\ ~Goes(c)
        BY <1>2, <3>2 DEF Looks, Busy, SameCall, Goes
      <4>2. byReq'[<<c, q>>] = byReq[<<c, q>>]
        BY <1>k, <2>s, <4>1
      <4>3. ASSUME call[c].kind = "cont" PROVE Linked(c, q) /\ cpc[c] \in {"byreq", "route"}
        <5>1. q \in started[c]
          BY <4>1 DEF StartInv
        <5>2. Linked(c, q)
          BY <1>i, <2>q, <4>1, <4>3, <5>1 DEF Unsent
        <5> QED
          BY <1>j, <2>q, <3>2, <4>1, <4>3, <5>2 DEF Continues, Looks
      <4>4. Linked(c, q) => byReq[<<c, q>>] # 0
        BY <1>0, HeldIff DEF Linked, IdsInv, IdsFresh
      <4>5. Linked(c, q) /\ call[c].route = byReq[<<c, q>>] => RouteOf(call[c].route) # {}
        BY DEF Linked, RouteOf
      <4>6. cpc[c] = "route" => call[c].route = byReq[<<c, q>>]
        BY <1>j, <2>q, <4>1 DEF Continues
      <4>7. call[c].kind = "cont" => cpc'[c] = "route"
        BY <3>2, <4>1, <4>3, <4>4, <4>5, <4>6 DEF Looks
      <4> QED
        BY <3>2, <4>1, <4>2, <4>7 DEF Looks
    <3>3. CASE Finds(c)
      <4>1. /\ Busy(c) /\ call[c].req = q /\ call'[c].kind = call[c].kind /\ ~Goes(c)
            /\ call'[c].route = call[c].route /\ cpc[c] = "route" /\ cpc'[c] = "contconn"
        BY <1>2, <3>3 DEF Finds, Busy, SameCall, Goes
      <4> QED
        BY <1>j, <1>k, <2>q, <2>s, <4>1 DEF Continues
    <3>4. CASE Inserts(c)
      <4>1. /\ Busy(c) /\ call[c].req = q /\ call'[c].kind = call[c].kind
            /\ cpc[c] = "insroute" /\ cpc'[c] = "insreq"
        BY <1>2, <3>4 DEF Inserts, Busy, SameCall
      <4> QED
        BY <1>j, <2>q, <4>1 DEF Continues
    <3>5. CASE Goes(c)
      BY <3>5 DEF Goes
    <3>6. ~Fails(c) /\ ~Removes(c)
      <4>1. ~Removes(c)
        BY <1>c DEF Removes, KnownInv, Lost, Calm
      <4>2. ~(cpc[c] = "contconn" /\ agents[call[c].name] = NoConn)
        BY <1>c DEF KnownInv, Known, Lost, Calm
      <4>3. ~(cpc[c] = "send" /\ writer[call[c].conn] = "dead")
        BY <1>0, <1>c DEF LocalsSet, LinkInv, Calm
      <4> QED
        BY <4>1, <4>2, <4>3 DEF Fails
    <3>7. ~Answers(c) /\ ~Sends(c) /\ ~Leaves(c) /\ ~Cleans(c) /\ ~Cancels(c) /\ ~Closes(c)
      BY <1>2 DEF Answers, Sends, Leaves, Cleans, Cancels, Closes, Busy
    <3> QED
      BY <1>0, <2>2, <3>1, <3>2, <3>3, <3>4, <3>5, <3>6, <3>7, CallMoves
  <2> QED
    BY <2>1, <2>2
<1> QED
  BY <1>1, <1>2 DEF Continues

(* The inductive invariant of the refinement, beside TypeOK and RouteInv. *)
DeliverInv ==
  /\ RemoveInv /\ DropInv /\ StartInv /\ LinkInv /\ JobsLive /\ SendInv /\ OneJob
  /\ OpenedInv /\ CancelOwn /\ KnownInv /\ GoneInv /\ CalmInv /\ RmReqInv

LEMMA DeliverInit == Init => TypeOK /\ RouteInv /\ DeliverInv
<1> SUFFICES ASSUME Init PROVE DeliverInv
  BY RelayInit
<1>1. RemoveInv /\ DropInv /\ LinkInv /\ JobsLive /\ OpenedInv /\ CancelOwn /\ GoneInv /\ RmReqInv
  BY DEF Init, RemoveInv, DropInv, LinkInv, JobsLive, OpenedInv, CancelOwn, GoneInv, RmReqInv, Busy
<1>2. StartInv /\ OneJob
  BY JobsIff DEF Init, StartInv, OneJob, Busy, NoResult, Results
<1>3. SendInv /\ KnownInv /\ CalmInv
  BY DEF Init, SendInv, KnownInv, CalmInv, Carried, Busy
<1> QED
  BY <1>1, <1>2, <1>3 DEF DeliverInv

LEMMA DeliverStep ==
  ASSUME TypeOK, RouteInv, DeliverInv, [Next]_vars
  PROVE  TypeOK' /\ RouteInv' /\ DeliverInv'
<1>1. TypeOK' /\ RouteInv'
  BY TypeStep, AgentsStep, LocalsStep, OwnerStep, IdsStep DEF RouteInv
<1>2. LocalsSet
  BY DEF RouteInv
<1>3. RemoveInv' /\ DropInv' /\ RmReqInv'
  BY <1>1, RemoveStep, DropStep, RmReqStep DEF DeliverInv
<1>4. StartInv' /\ LinkInv' /\ JobsLive' /\ SendInv'
  BY <1>1, <1>2, StartStep, LinkStep, LiveStep, SendStep DEF DeliverInv
<1>5. OneJob' /\ OpenedInv' /\ CancelOwn'
  BY <1>1, <1>2, OneJobStep, OpenedStep, CancelOwnStep DEF DeliverInv
<1>6. KnownInv' /\ GoneInv' /\ CalmInv'
  BY <1>1, KnownStep, GoneStep, CalmStep DEF DeliverInv
<1> QED
  BY <1>1, <1>3, <1>4, <1>5, <1>6 DEF DeliverInv

(* What Delivery sees of a job: the agent it runs on and its request. *)
LEMMA JobWorker ==
  \A j \in Jobs : WorkerOf(j).agent = j.conn /\ WorkerOf(j).req = <<j.ctrl, j.req>>
BY DEF WorkerOf

(* An agent's thread opens and sends no requests, and no controller leaves.  *)
LEMMA AgentSide ==
  ASSUME TypeOK, NEW a \in AConns, AgentStep(a)
  PROVE  UNCHANGED <<Present, Opened, Pending>>
BY AgentMoves DEF Present, Opened, Pending

(* a job that ends takes its worker with it, and no other: it has only one *)
LEMMA WorkerEnds ==
  ASSUME TypeOK, OneJob, NEW j \in jobs, jobs' = jobs \ {j}, cancelled' = cancelled \ {j}
  PROVE  /\ Workers' = Workers \ {WorkerOf(j)} /\ Stopped' = Stopped \ {WorkerOf(j)}
<1>1. ASSUME NEW k \in jobs, WorkerOf(k) = WorkerOf(j) PROVE k = j
  <2>1. k.ctrl = j.ctrl /\ k.req = j.req
    BY <1>1, JobWorker DEF TypeOK
  <2> QED
    BY <2>1, JobsIff DEF OneJob
<1>2. cancelled \subseteq jobs
  BY DEF TypeOK
<1>3. Workers' = {WorkerOf(k) : k \in jobs'} /\ Stopped' = {WorkerOf(k) : k \in cancelled'}
  BY DEF Workers, Stopped, WorkerOf
<1> QED
  BY <1>1, <1>2, <1>3 DEF Workers, Stopped

(* A greeting is Greet, a refusal of the name is Lose: the connection never  *)
(* had a job.                                                                *)
LEMMA HelloRefines ==
  ASSUME TypeOK, RouteInv, DeliverInv, NEW a \in AConns,
         HelloReject(a) \/ Register(a) \/ SendHelloOk(a)
  PROVE  D!Next \/ UNCHANGED D!vars
<1>0. LinkInv /\ JobsLive /\ apc \in [AConns -> APcs] /\ link \in [AConns -> {"up", "down"}]
      /\ first \in [AConns -> {"none", "helloOk", "other"}]
  BY DEF TypeOK, DeliverInv
<1>1. UNCHANGED <<Present, Opened, Pending>>
  BY AgentSide DEF AgentStep, AgentWork
<1>2. UNCHANGED <<Workers, Stopped, answered>>
  BY DEF HelloReject, Register, SendHelloOk, Workers, Stopped, WorkerOf, peers
<1>3. Finals' = Finals
  <2>1. aframe' = aframe /\ \A b \in AConns : apc'[b] = "forward" <=> apc[b] = "forward"
    BY <1>0 DEF HelloReject, Register, SendHelloOk
  <2> QED
    BY <2>1 DEF Finals
<1>4. CASE UNCHANGED <<link, first>>
  BY <1>1, <1>2, <1>3, <1>4 DEF D!vars, AgentState
<1>5. CASE HelloReject(a) /\ link[a] = "up"
  <2>1. AgentState' = [AgentState EXCEPT ![a] = "lost"] /\ AgentState[a] # "lost"
    BY <1>0, <1>5 DEF HelloReject, AgentState
  <2>2. \A w \in Workers : w.agent # a
    BY <1>0, <1>5, JobWorker DEF HelloReject, LinkInv, JobsLive, Workers, TypeOK
  <2>3. D!Lose(a)
    BY <1>1, <1>2, <1>3, <2>1, <2>2 DEF D!Lose
  <2> QED
    BY <2>3 DEF D!Next
<1>6. CASE SendHelloOk(a) /\ link[a] = "up" /\ first[a] = "none"
  <2>1. AgentState' = [AgentState EXCEPT ![a] = "serving"] /\ AgentState[a] = "new"
    BY <1>0, <1>6 DEF SendHelloOk, FirstFrame, AgentState
  <2>2. D!Greet(a)
    BY <1>1, <1>2, <1>3, <2>1 DEF D!Greet
  <2> QED
    BY <2>2 DEF D!Next
<1>7. UNCHANGED <<link, first>> \/ (HelloReject(a) /\ link[a] = "up")
      \/ (SendHelloOk(a) /\ link[a] = "up" /\ first[a] = "none")
  BY <1>0 DEF HelloReject, Register, SendHelloOk, FirstFrame, peers
<1> QED
  BY <1>4, <1>5, <1>6, <1>7

(* "down" and "lost" are the same, so the two modules agree on who is gone.  *)
LEMMA LostSeen ==
  ASSUME TypeOK
  PROVE  /\ \A a \in AConns : AgentState[a] = "lost" <=> link[a] = "down"
         /\ \A n : Lost(n) => D!Lost(n)
         /\ D!AllConnected <=> Calm
BY DEF TypeOK, AgentState, Lost, D!Lost, D!AllConnected, Calm

(* A final result is Finish when its route is known; without one it          *)
(* vanishes, and GoneInv says that nobody misses it.                         *)
LEMMA ResultRefines ==
  ASSUME TypeOK, RouteInv, DeliverInv, NEW a \in AConns, AgentRecvResult(a)
  PROVE  D!Next \/ UNCHANGED D!vars
<1>0. /\ OneJob /\ GoneInv /\ apc \in [AConns -> APcs] /\ aframe \in [AConns -> Results \cup {NoResult}]
      /\ cancelled \subseteq jobs /\ jobs \subseteq Jobs
  BY DEF TypeOK, DeliverInv
<1>1. PICK j \in JobsOn(a), kind \in {"data", "final"} :
        /\ jobs' = IF kind = "final" THEN jobs \ {j} ELSE jobs
        /\ cancelled' = cancelled \cap jobs'
        /\ IF RouteOf(j.route) = {}
             THEN UNCHANGED athread
             ELSE /\ apc' = [apc EXCEPT ![a] = "forward"]
                  /\ aframe' = [aframe EXCEPT ![a] = [job |-> j, kind |-> kind]]
                  /\ aheld' = [aheld EXCEPT ![a] = RouteOf(j.route)]
  BY DEF AgentRecvResult
<1>2. /\ j \in jobs /\ j \in Jobs /\ j.ctrl \in CConns /\ j.req \in ReqIds /\ j.conn \in AConns
      /\ apc[a] = "loop" /\ WorkerOf(j) \in Workers
      /\ WorkerOf(j).agent = j.conn /\ WorkerOf(j).req = <<j.ctrl, j.req>>
  BY <1>0, <1>1, JobWorker DEF AgentRecvResult, JobsOn, Jobs, Workers
<1>3. UNCHANGED <<Present, Opened, Pending, AgentState, answered>>
  <2>1. UNCHANGED <<Present, Opened, Pending>>
    BY AgentSide DEF AgentStep
  <2> QED
    BY <2>1 DEF AgentRecvResult, AgentState
<1>4. CASE kind = "data"
  <2>1. jobs' = jobs /\ cancelled' = cancelled
    BY <1>0, <1>1, <1>4
  <2>2. Workers' = Workers /\ Stopped' = Stopped
    BY <2>1 DEF Workers, Stopped, WorkerOf
  <2>3. Finals' = Finals
    <3>1. CASE UNCHANGED athread
      BY <3>1 DEF athread, Finals
    <3>2. CASE /\ apc' = [apc EXCEPT ![a] = "forward"]
               /\ aframe' = [aframe EXCEPT ![a] = [job |-> j, kind |-> kind]]
      <4>1. aframe'[a].kind = "data"
        BY <1>0, <1>4, <3>2
      <4>2. \A b \in AConns \ {a} : apc'[b] = apc[b] /\ aframe'[b] = aframe[b]
        BY <1>0, <3>2
      <4> QED
        BY <1>2, <4>1, <4>2 DEF Finals
    <3> QED
      BY <1>1, <3>1, <3>2
  <2> QED
    BY <1>3, <2>2, <2>3 DEF D!vars
<1>5. CASE kind = "final"
  <2>1. jobs' = jobs \ {j} /\ cancelled' = cancelled \ {j}
    BY <1>0, <1>1, <1>5
  <2>2. Workers' = Workers \ {WorkerOf(j)} /\ Stopped' = Stopped \ {WorkerOf(j)}
    BY <1>0, <1>2, <2>1, WorkerEnds
  <2>3. CASE RouteOf(j.route) = {}
    <3>1. Finals' = Finals
      BY <1>1, <2>3 DEF athread, Finals
    <3>2. ~On(j.route)
      BY <2>3 DEF On, RouteOf
    <3>3. <<j.ctrl, j.req>>[1] = j.ctrl /\ (cpc[j.ctrl] \in {"cancel", "closed"} => j.ctrl \notin Present)
      BY DEF Present
    <3>4. \/ j.ctrl \notin Present \/ <<j.ctrl, j.req>> \in answered \/ D!Lost(NameOf[j.conn])
      BY <1>0, <1>2, <3>2, <3>3, LostSeen DEF GoneInv
    <3>5. D!Vanish(WorkerOf(j))
      BY <1>2, <1>3, <2>2, <3>1, <3>3, <3>4 DEF D!Vanish
    <3> QED
      BY <1>2, <3>5 DEF D!Next
  <2>4. CASE RouteOf(j.route) # {}
    <3>1. /\ apc' = [apc EXCEPT ![a] = "forward"]
          /\ aframe' = [aframe EXCEPT ![a] = [job |-> j, kind |-> kind]]
      BY <1>1, <2>4
    <3>2. apc'[a] = "forward" /\ aframe'[a].kind = "final" /\ aframe'[a].job = j
      BY <1>0, <1>5, <3>1
    <3>3. \A b \in AConns \ {a} : apc'[b] = apc[b] /\ aframe'[b] = aframe[b]
      BY <1>0, <3>1
    <3>4. Finals' = Finals \cup {<<j.ctrl, j.req>>}
      BY <1>2, <3>2, <3>3 DEF Finals
    <3>5. D!Finish(WorkerOf(j))
      BY <1>2, <1>3, <2>2, <3>4 DEF D!Finish
    <3> QED
      BY <1>2, <3>5 DEF D!Next
  <2> QED
    BY <2>3, <2>4
<1> QED
  BY <1>4, <1>5

(* Forwarding a final payload is Deliver, to the worker's own request.        *)
LEMMA ForwardRefines ==
  ASSUME TypeOK, RouteInv, DeliverInv, NEW a \in AConns, AgentForward(a)
  PROVE  D!Next \/ UNCHANGED D!vars
<1>0. /\ LocalsSet /\ IdsInv /\ OneJob /\ DropInv
      /\ apc \in [AConns -> APcs] /\ aframe \in [AConns -> Results \cup {NoResult}]
  BY DEF TypeOK, RouteInv, DeliverInv
<1>1. UNCHANGED <<Present, Opened, Pending, AgentState, Workers, Stopped>>
  <2>1. UNCHANGED <<Present, Opened, Pending>>
    BY AgentSide DEF AgentStep, AgentWork
  <2> QED
    BY <2>1 DEF AgentForward, AgentState, Workers, Stopped, WorkerOf, peers
<1>2. apc[a] = "forward" /\ \A b \in AConns \ {a} : apc'[b] = apc[b] /\ aframe'[b] = aframe[b]
  BY <1>0 DEF AgentForward
<1>3. CASE aframe[a].kind # "final"
  <2>1. apc'[a] = "loop" /\ answered' = answered
    BY <1>0, <1>3 DEF AgentForward
  <2>2. Finals' = Finals
    BY <1>2, <1>3, <2>1 DEF Finals
  <2> QED
    BY <1>1, <2>1, <2>2 DEF D!vars
<1>4. CASE aframe[a].kind = "final"
  <2> DEFINE j == aframe[a].job
             r == <<j.ctrl, j.req>>
  <2>1. j \in JobsInSight /\ j \in Jobs /\ r \in CConns \X ReqIds /\ aframe[a] \in Results
    BY <1>0, <1>2, JobsIff DEF LocalsSet, Results, Jobs
  <2>2. apc'[a] = "rmroute" /\ answered' = answered \cup {<<e.ctrl, e.req>> : e \in aheld[a]}
    BY <1>0, <1>4 DEF AgentForward
  <2>3. \A e \in aheld[a] : <<e.ctrl, e.req>> = r
    BY <1>0, <1>2, <2>1, HeldIff DEF LocalsSet, IdsInv, JobsAgree
  <2>4. answered' = answered \cup {r}
    BY <1>0, <1>2, <2>2, <2>3 DEF DropInv
  <2>5. ASSUME NEW b \in AConns, b # a, apc[b] = "forward" PROVE <<aframe[b].job.ctrl, aframe[b].job.req>> # r
    <3>1. aframe[b].job \in JobsInSight /\ aframe[b].job.conn # j.conn
      BY <1>0, <1>2, <2>5, JobsIff DEF LocalsSet
    <3> QED
      BY <1>0, <2>1, <3>1 DEF OneJob
  <2>6. r \in Finals
    BY <1>2, <1>4, <2>1 DEF Finals
  <2>7. Finals' = Finals \ {r}
    <3> HIDE DEF r
    <3>1. r = <<aframe[a].job.ctrl, aframe[a].job.req>>
      BY DEF r
    <3> QED
      BY <1>2, <2>2, <2>5, <3>1 DEF Finals
  <2>8. D!Deliver(r)
    BY <1>1, <2>4, <2>6, <2>7 DEF D!Deliver
  <2> QED
    BY <2>1, <2>8 DEF D!Next, D!Requests
<1> QED
  BY <1>3, <1>4

(* Of the maps' upkeep Delivery sees only the 410s, which follow a loss.      *)
LEMMA CleanupRefines ==
  ASSUME TypeOK, RouteInv, DeliverInv, NEW a \in AConns,
         AgentRmRoute(a) \/ AgentRmReq(a) \/ AgentRecvErr(a) \/ AgentCleanAgents(a)
         \/ AgentCleanRoutes(a) \/ AgentCleanError(a) \/ AgentClose(a)
  PROVE  D!Next \/ UNCHANGED D!vars
<1>0. LinkInv /\ OpenedInv /\ apc \in [AConns -> APcs] /\ aframe \in [AConns -> Results \cup {NoResult}]
      /\ aheld \in [AConns -> SUBSET Entries] /\ link \in [AConns -> {"up", "down"}]
  BY DEF TypeOK, DeliverInv
<1>1. UNCHANGED <<Present, Opened, Pending>>
  BY AgentSide DEF AgentStep, AgentWork
<1>2. UNCHANGED <<AgentState, Workers, Stopped>>
  <2>1. UNCHANGED peers
    BY DEF AgentRmRoute, AgentRmReq, AgentRecvErr, AgentCleanAgents, AgentCleanRoutes, AgentCleanError, AgentClose
  <2> QED
    BY <2>1 DEF AgentState, Workers, Stopped, WorkerOf, peers
<1>3. Finals' = Finals
  <2>1. /\ apc[a] # "forward" /\ apc'[a] # "forward"
        /\ \A b \in AConns \ {a} : apc'[b] = apc[b] /\ aframe'[b] = aframe[b]
    BY <1>0 DEF AgentRmRoute, AgentRmReq, AgentRecvErr, AgentCleanAgents, AgentCleanRoutes, AgentCleanError, AgentClose
  <2> QED
    BY <2>1 DEF Finals
<1>4. CASE answered' = answered
  BY <1>1, <1>2, <1>3, <1>4 DEF D!vars
<1>5. CASE AgentCleanError(a)
  <2>1. PICK e \in aheld[a] : answered' = answered \cup {<<e.ctrl, e.req>>}
    BY <1>5 DEF AgentCleanError
  <2>2. <<e.ctrl, e.req>> \in CConns \X ReqIds /\ <<e.ctrl, e.req>> \in Opened
    BY <1>0 DEF Entries, Opened, OpenedInv
  <2>3. ~D!AllConnected
    <3>1. link[a] = "down"
      BY <1>0, <1>5 DEF AgentCleanError, LinkInv
    <3> QED
      BY <3>1, LostSeen DEF Calm
  <2>4. D!Fail(<<e.ctrl, e.req>>)
    BY <1>1, <1>2, <1>3, <2>1, <2>2, <2>3 DEF D!Fail
  <2> QED
    BY <2>2, <2>4 DEF D!Next, D!Requests
<1> QED
  BY <1>4, <1>5 DEF AgentRmRoute, AgentRmReq, AgentRecvErr, AgentCleanAgents, AgentCleanRoutes, AgentClose

(* The far ends: Lose, or a stopped worker that vanishes.                     *)
LEMMA PeerRefines ==
  ASSUME TypeOK, RouteInv, DeliverInv, NEW a \in AConns, AgentPeer(a)
  PROVE  D!Next \/ UNCHANGED D!vars
<1>0. /\ OneJob /\ cancelled \subseteq jobs /\ jobs \subseteq Jobs
      /\ link \in [AConns -> {"up", "down"}] /\ first \in [AConns -> {"none", "helloOk", "other"}]
  BY DEF TypeOK, DeliverInv
<1>1. UNCHANGED <<Present, Opened, Pending, Finals, answered>>
  <2>1. UNCHANGED <<Present, Opened, Pending>>
    BY AgentSide DEF AgentStep
  <2> QED
    BY <2>1 DEF AgentPeer, AgentDrop, JobQuit, WriterExit, athread, Finals
<1>2. CASE AgentDrop(a)
  <2>1. AgentState' = [AgentState EXCEPT ![a] = "lost"] /\ AgentState[a] # "lost"
    BY <1>0, <1>2 DEF AgentDrop, AgentState
  <2>2. Workers' = Workers
    BY <1>2 DEF AgentDrop, Workers, WorkerOf
  <2>3. Stopped' = Stopped \cup {w \in Workers : w.agent = a}
    <3>1. Stopped' = {WorkerOf(j) : j \in cancelled \cup JobsOn(a)}
      BY <1>2 DEF AgentDrop, Stopped, WorkerOf
    <3>2. \A j \in jobs : WorkerOf(j).agent = a <=> j \in JobsOn(a)
      BY <1>0, JobWorker DEF JobsOn
    <3>3. JobsOn(a) \subseteq jobs
      BY DEF JobsOn
    <3> QED
      BY <3>1, <3>2, <3>3 DEF Stopped, Workers
  <2>4. D!Lose(a)
    BY <1>1, <2>1, <2>2, <2>3 DEF D!Lose
  <2> QED
    BY <2>4 DEF D!Next
<1>3. CASE JobQuit(a)
  <2>1. PICK j \in JobsOn(a) \cap cancelled : jobs' = jobs \ {j} /\ cancelled' = cancelled \ {j}
    BY <1>3 DEF JobQuit
  <2>2. j \in jobs /\ WorkerOf(j) \in Workers /\ WorkerOf(j) \in Stopped
    BY <1>0 DEF Workers, Stopped
  <2>3. Workers' = Workers \ {WorkerOf(j)} /\ Stopped' = Stopped \ {WorkerOf(j)}
    BY <1>0, <2>1, <2>2, WorkerEnds
  <2>4. AgentState' = AgentState
    BY <1>3 DEF JobQuit, AgentState
  <2>5. D!Vanish(WorkerOf(j))
    BY <1>1, <2>2, <2>3, <2>4 DEF D!Vanish
  <2> QED
    BY <2>2, <2>5 DEF D!Next
<1>4. CASE WriterExit(a)
  BY <1>1, <1>4 DEF WriterExit, D!vars, AgentState, Workers, Stopped, WorkerOf
<1> QED
  BY <1>2, <1>3, <1>4 DEF AgentPeer

(* A controller's thread neither greets nor loses agents.                    *)
LEMMA CtrlSide ==
  ASSUME TypeOK, LocalsSet, NEW c \in CConns, CtrlStep(c)
  PROVE  /\ UNCHANGED <<AgentState, Finals>>
         /\ ~Asks(c) => Opened' = Opened
         /\ jobs' = jobs => Workers' = Workers
         /\ cancelled' = cancelled => Stopped' = Stopped
<1>1. first' = first \/ \E x : first' = FirstFrame(x, "other")
  BY CallMoves DEF Asks, Looks, Finds, Inserts, Goes, Fails, Removes, Answers, Sends, Leaves, Cleans,
    Cancels, CtrlCancel, Closes, Nowhere
<1>2. \A b \in AConns : first'[b] = "helloOk" <=> first[b] = "helloOk"
  BY <1>1 DEF FirstFrame, TypeOK
<1>3. UNCHANGED <<AgentState, Finals>>
  BY <1>2, CallMoves DEF AgentState, Finals
<1>4. ~Asks(c) => started' = started
  BY CallMoves DEF Looks, Finds, Inserts, Goes, Fails, Removes, Answers, Sends, Leaves, Cleans,
    Cancels, Closes
<1> QED
  BY <1>3, <1>4 DEF Opened, Workers, Stopped, WorkerOf

(* a thread inside relay_to_agent has at most its own request pending *)
LEMMA PendingOf ==
  ASSUME NEW r \in CConns \X ReqIds
  PROVE  r \in Pending <=> Busy(r[1]) /\ call[r[1]].kind = "start" /\ call[r[1]].req = r[2]
BY DEF Pending, Busy

LEMMA PresentOf ==
  ASSUME NEW c \in CConns
  PROVE  c \in Present <=> cpc[c] = "loop" \/ Busy(c)
BY DEF Present, Busy

(* what the other threads' calls leave to say of Present and Pending *)
LEMMA OthersCalls ==
  ASSUME TypeOK, LocalsSet, NEW c \in CConns, CtrlStep(c)
  PROVE  /\ (cpc[c] = "loop" \/ Busy(c)) /\ (cpc'[c] = "loop" \/ Busy(c)') => Present' = Present
         /\ ~Busy(c) /\ ~Busy(c)' => Pending' = Pending
         /\ Busy(c) /\ Busy(c)' /\ SameCall(c) => Pending' = Pending
         /\ Busy(c) /\ ~Busy(c)' =>
              Pending' = IF call[c].kind = "start" THEN Pending \ {<<c, call[c].req>>} ELSE Pending
         /\ ~Busy(c) /\ Busy(c)' /\ call'[c].req \in ReqIds =>
              Pending' = IF call'[c].kind = "start" THEN Pending \cup {<<c, call'[c].req>>} ELSE Pending
<1>1. \A d \in CConns \ {c} : cpc'[d] = cpc[d] /\ call'[d] = call[d]
  BY CallMoves
<1>2. \A r \in CConns \X ReqIds : r[1] # c => (r \in Pending' <=> r \in Pending)
  BY <1>1, PendingOf DEF Pending
<1>3. \A r \in CConns \X ReqIds : r \in Pending' <=>
        Busy(r[1])' /\ call'[r[1]].kind = "start" /\ call'[r[1]].req = r[2]
  BY DEF Pending, Busy
<1>4. Pending \subseteq CConns \X ReqIds /\ Pending' \subseteq CConns \X ReqIds
  BY DEF Pending
<1>5. \A r \in CConns \X ReqIds : r = <<r[1], r[2]>> /\ r[1] \in CConns /\ r[2] \in ReqIds
  OBVIOUS
<1>6. (cpc[c] = "loop" \/ Busy(c)) /\ (cpc'[c] = "loop" \/ Busy(c)') => Present' = Present
  BY <1>1 DEF Present, Busy
<1>7. ASSUME ~Busy(c), ~Busy(c)' PROVE Pending' = Pending
  BY <1>2, <1>3, <1>4, <1>7, PendingOf
<1>8. ASSUME Busy(c), Busy(c)', SameCall(c) PROVE Pending' = Pending
  BY <1>2, <1>3, <1>4, <1>8, PendingOf DEF SameCall
<1>9. ASSUME Busy(c), ~Busy(c)'
      PROVE  Pending' = IF call[c].kind = "start" THEN Pending \ {<<c, call[c].req>>} ELSE Pending
  <2>1. \A r \in CConns \X ReqIds : r \in Pending' <=> r \in Pending /\ r[1] # c
    BY <1>2, <1>3, <1>9
  <2>2. \A r \in CConns \X ReqIds : r[1] = c =>
          (r \in Pending <=> call[c].kind = "start" /\ r = <<c, call[c].req>>)
    BY <1>5, <1>9, PendingOf
  <2> QED
    BY <1>4, <2>1, <2>2
<1>10. ASSUME ~Busy(c), Busy(c)', call'[c].req \in ReqIds
       PROVE  Pending' = IF call'[c].kind = "start" THEN Pending \cup {<<c, call'[c].req>>} ELSE Pending
  <2>1. \A r \in CConns \X ReqIds : r[1] = c => r \notin Pending
    BY <1>10, PendingOf
  <2>2. \A r \in CConns \X ReqIds : r[1] = c =>
          (r \in Pending' <=> call'[c].kind = "start" /\ r = <<c, call'[c].req>>)
    BY <1>3, <1>5, <1>10
  <2> QED
    BY <1>2, <1>4, <1>10, <2>1, <2>2
<1> QED
  BY <1>6, <1>7, <1>8, <1>9, <1>10

(* A first frame is Open, a continuation is nothing new.                      *)
LEMMA AskRefines ==
  ASSUME TypeOK, TypeOK', RouteInv, RouteInv', NEW c \in CConns, CtrlStep(c), Asks(c)
  PROVE  D!Next \/ UNCHANGED D!vars
<1>0. LocalsSet /\ LocalsSet'
  BY DEF RouteInv
<1> DEFINE q == call'[c].req
           r == <<c, q>>
<1>1. /\ cpc[c] = "loop" /\ ~Busy(c) /\ Busy(c)' /\ UNCHANGED <<jobs, cancelled, answered>>
      /\ started'[c] = started[c] \cup {q} /\ (call'[c].kind = "start" <=> q \notin started[c])
  BY DEF Asks, Nowhere, Busy, TypeOK
<1>2. q \in ReqIds /\ r \in CConns \X ReqIds /\ r[1] = c
  BY <1>0, <1>1 DEF LocalsSet, Busy, Calls
<1>3. UNCHANGED <<AgentState, Finals, Workers, Stopped, answered, Present>>
  BY <1>0, <1>1, CtrlSide, OthersCalls
<1>4. Pending' = IF call'[c].kind = "start" THEN Pending \cup {r} ELSE Pending
  BY <1>0, <1>1, <1>2, OthersCalls
<1>5. Opened' = Opened \cup {r}
  <2>1. \A d \in CConns \ {c} : started'[d] = started[d]
    BY <1>0, CallMoves
  <2> QED
    BY <1>1, <1>2, <2>1 DEF Opened
<1>6. r \in Opened <=> q \in started[c]
  BY <1>2 DEF Opened
<1>7. CASE call'[c].kind = "start"
  <2>1. c \in Present
    BY <1>1, PresentOf
  <2>2. D!Open(r)
    BY <1>1, <1>2, <1>3, <1>4, <1>5, <1>6, <1>7, <2>1 DEF D!Open
  <2> QED
    BY <1>2, <2>2 DEF D!Next, D!Requests
<1>8. CASE call'[c].kind # "start"
  <2>1. Opened' = Opened
    BY <1>1, <1>5, <1>6, <1>8
  <2> QED
    BY <1>3, <1>4, <1>8, <2>1 DEF D!vars
<1> QED
  BY <1>7, <1>8

(* An error for a first frame is Refuse.  One for a continuation needs a     *)
(* loss, because otherwise by_req leads to the route (CalmInv).               *)
LEMMA AnswerRefines ==
  ASSUME TypeOK, RouteInv, DeliverInv, NEW c \in CConns, CtrlStep(c), Answers(c)
  PROVE  D!Next \/ UNCHANGED D!vars
<1>0. LocalsSet /\ StartInv /\ CalmInv
  BY DEF RouteInv, DeliverInv
<1> DEFINE r == <<c, call[c].req>>
<1>1. /\ Busy(c) /\ ~Busy(c)' /\ cpc'[c] = "loop" /\ UNCHANGED <<jobs, cancelled>> /\ ~Asks(c)
      /\ answered' = answered \cup {r}
  BY DEF Answers, Busy, Asks
<1>2. UNCHANGED <<AgentState, Finals, Workers, Stopped, Opened, Present>>
  BY <1>0, <1>1, CtrlSide, OthersCalls
<1>3. Pending' = IF call[c].kind = "start" THEN Pending \ {r} ELSE Pending
  BY <1>0, <1>1, OthersCalls
<1>4. call[c].req \in ReqIds /\ call[c].kind \in {"start", "cont"} /\ r \in CConns \X ReqIds
  BY <1>0, <1>1 DEF LocalsSet, Busy, Calls
<1>5. CASE call[c].kind = "start"
  <2>1. r \in Pending
    BY <1>1, <1>4, <1>5, PendingOf
  <2>2. D!Refuse(r)
    BY <1>1, <1>2, <1>3, <1>5, <2>1 DEF D!Refuse
  <2> QED
    BY <1>4, <2>2 DEF D!Next, D!Requests
<1>6. CASE call[c].kind = "cont" /\ r \in answered
  <2>1. answered' = answered
    BY <1>1, <1>6
  <2> QED
    BY <1>2, <1>3, <1>6, <2>1 DEF D!vars
<1>7. CASE call[c].kind = "cont" /\ r \notin answered
  <2>1. ~Calm
    BY <1>0, <1>1, <1>7 DEF CalmInv, Continues, Answers
  <2>2. r \in Opened
    BY <1>0, <1>1, <1>4 DEF StartInv, Opened
  <2>3. D!Fail(r)
    BY <1>1, <1>2, <1>3, <1>7, <2>1, <2>2, LostSeen DEF D!Fail
  <2> QED
    BY <1>4, <2>3 DEF D!Next, D!Requests
<1> QED
  BY <1>4, <1>5, <1>6, <1>7

(* A first frame that is sent is Start, or Miss when nobody takes it.         *)
LEMMA SendRefines ==
  ASSUME TypeOK, RouteInv, DeliverInv, NEW c \in CConns, CtrlStep(c), Sends(c)
  PROVE  D!Next \/ UNCHANGED D!vars
<1>0. LocalsSet
  BY DEF RouteInv
<1> DEFINE r == <<c, call[c].req>>
           a == call[c].conn
           j == [conn |-> a, route |-> call[c].route, ctrl |-> c, req |-> call[c].req]
<1>1. /\ Busy(c) /\ ~Busy(c)' /\ cpc[c] = "send" /\ cpc'[c] = "loop" /\ ~Asks(c)
      /\ UNCHANGED <<cancelled, answered>> /\ jobs' = Delivered(a, j, call[c].kind)
  BY DEF Sends, Busy, Asks
<1>2. UNCHANGED <<AgentState, Finals, Stopped, Opened, Present>>
  BY <1>0, <1>1, CtrlSide, OthersCalls
<1>3. Pending' = IF call[c].kind = "start" THEN Pending \ {r} ELSE Pending
  BY <1>0, <1>1, OthersCalls
<1>4. a \in AConns /\ call[c].req \in ReqIds /\ r \in CConns \X ReqIds
  BY <1>0, <1>1 DEF LocalsSet, Calls
<1>5. CASE call[c].kind = "start" /\ link[a] = "up" /\ first[a] = "helloOk"
  <2>1. jobs' = jobs \cup {j}
    BY <1>1, <1>5 DEF Delivered
  <2>2. WorkerOf(j) = [agent |-> a, req |-> r]
    BY DEF WorkerOf
  <2>3. Workers' = Workers \cup {[agent |-> a, req |-> r]}
    <3>1. Workers' = {WorkerOf(k) : k \in jobs \cup {j}}
      BY <2>1 DEF Workers, WorkerOf
    <3> QED
      BY <2>2, <3>1 DEF Workers
  <2>4. r \in Pending /\ AgentState[a] = "serving"
    BY <1>1, <1>4, <1>5, PendingOf DEF AgentState
  <2>5. D!Start(r, a)
    BY <1>1, <1>2, <1>3, <1>5, <2>3, <2>4 DEF D!Start
  <2> QED
    BY <1>4, <2>5 DEF D!Next, D!Requests
<1>6. CASE call[c].kind = "start" /\ ~(link[a] = "up" /\ first[a] = "helloOk")
  <2>1. jobs' = jobs
    BY <1>1, <1>6 DEF Delivered
  <2>2. Workers' = Workers
    BY <1>0, <2>1, CtrlSide
  <2>3. r \in Pending /\ AgentState[a] # "serving"
    BY <1>1, <1>4, <1>6, PendingOf DEF AgentState, TypeOK
  <2>4. D!Miss(r)
    BY <1>1, <1>2, <1>3, <1>4, <1>6, <2>2, <2>3 DEF D!Miss
  <2> QED
    BY <1>4, <2>4 DEF D!Next, D!Requests
<1>7. CASE call[c].kind # "start"
  <2>1. jobs' = jobs
    BY <1>1, <1>7 DEF Delivered
  <2>2. Workers' = Workers
    BY <1>0, <2>1, CtrlSide
  <2> QED
    BY <1>1, <1>2, <1>3, <1>7, <2>2 DEF D!vars
<1> QED
  BY <1>5, <1>6, <1>7

(* The end of a controller is Leave, a RouteCancel is Cancel of its own jobs. *)
LEMMA LeaveRefines ==
  ASSUME TypeOK, RouteInv, DeliverInv, NEW c \in CConns, CtrlStep(c),
         Leaves(c) \/ Cleans(c) \/ Cancels(c) \/ Closes(c)
  PROVE  D!Next \/ UNCHANGED D!vars
<1>0. LocalsSet /\ IdsInv /\ CancelOwn
  BY DEF RouteInv, DeliverInv
<1>1. /\ ~Busy(c) /\ ~Busy(c)' /\ ~Asks(c) /\ UNCHANGED <<jobs, answered>>
      /\ cancelled' = cancelled \/ Cancels(c)
  BY DEF Leaves, Cleans, Cancels, Closes, Nowhere, Busy, Asks, CtrlCancel
<1>2. UNCHANGED <<AgentState, Finals, Workers, Opened, Pending, answered>>
  BY <1>0, <1>1, CtrlSide, OthersCalls
<1>3. \A d \in CConns \ {c} : cpc'[d] = cpc[d]
  BY <1>0, CallMoves
<1>4. CASE Leaves(c)
  <2>1. Present' = Present \ {c}
    BY <1>3, <1>4 DEF Leaves, Present
  <2>2. Stopped' = Stopped
    BY <1>0, <1>4, CtrlSide DEF Leaves, Nowhere
  <2>3. D!Leave(c)
    BY <1>2, <2>1, <2>2 DEF D!Leave
  <2> QED
    BY <2>3 DEF D!Next
<1>5. CASE ~Leaves(c)
  <2>1. Present' = Present
    BY <1>3, <1>5 DEF Cleans, Cancels, CtrlCancel, Closes, Present
  <2>2. CASE cancelled' = cancelled
    BY <1>0, <1>2, <2>1, <2>2, CtrlSide DEF D!vars
  <2>3. CASE Cancels(c) /\ cancelled' # cancelled
    <3>1. PICK e \in cheld[c] :
            cancelled' = cancelled \cup {j \in JobsOn(agents[e.agent]) : j.route = e.id}
      BY <2>3 DEF Cancels, CtrlCancel
    <3> DEFINE J == {j \in JobsOn(agents[e.agent]) : j.route = e.id}
               W == {WorkerOf(j) : j \in J}
    <3>2. J \subseteq jobs /\ W \subseteq Workers
      BY DEF JobsOn, Workers
    <3>3. Stopped' = Stopped \cup W
      <4>1. Stopped' = {WorkerOf(j) : j \in cancelled \cup J}
        BY <3>1 DEF Stopped, WorkerOf
      <4> QED
        BY <4>1 DEF Stopped
    <3>4. cpc[c] = "cancel" /\ e \in Held /\ e.ctrl = c /\ c \notin Present
      BY <1>0, <2>3, HeldIff DEF Cancels, CtrlCancel, CancelOwn, Present
    <3>5. \A j \in J : j.ctrl = c
      BY <1>0, <3>2, <3>4, JobsIff DEF IdsInv, JobsAgree
    <3>6. \A w \in W : w \in Workers /\ w.req[1] \notin Present
      BY <3>2, <3>4, <3>5, JobWorker DEF TypeOK
    <3>7. D!Cancel(W)
      BY <1>2, <2>1, <3>3, <3>6 DEF D!Cancel
    <3> QED
      BY <3>2, <3>7 DEF D!Next
  <2> QED
    BY <1>1, <2>2, <2>3
<1> QED
  BY <1>4, <1>5

(* Every step of the relay is one of Delivery, or none. *)
LEMMA RelayStepRefines ==
  ASSUME TypeOK, RouteInv, DeliverInv, [Next]_vars
  PROVE  [D!Next]_(D!vars)
<1>0. TypeOK' /\ RouteInv' /\ LocalsSet
  BY DeliverStep DEF RouteInv
<1>1. ASSUME NEW a \in AConns, AgentStep(a) PROVE D!Next \/ UNCHANGED D!vars
  BY <1>1, HelloRefines, ResultRefines, ForwardRefines, CleanupRefines, PeerRefines DEF AgentStep, AgentWork
<1>2. ASSUME NEW c \in CConns, CtrlStep(c) PROVE D!Next \/ UNCHANGED D!vars
  <2>1. CASE Looks(c) \/ Finds(c) \/ Inserts(c) \/ Goes(c) \/ Fails(c) \/ Removes(c)
    <3>1. /\ Busy(c) /\ Busy(c)' /\ SameCall(c) /\ ~Asks(c) /\ UNCHANGED <<jobs, cancelled, answered>>
      BY <2>1 DEF Looks, Finds, Inserts, Goes, Fails, Removes, SameRoute, Nowhere, Busy, Asks
    <3> QED
      BY <1>0, <1>2, <3>1, CtrlSide, OthersCalls DEF D!vars
  <2>2. CASE Asks(c) \/ Answers(c) \/ Sends(c)
    BY <1>0, <1>2, <2>2, AskRefines, AnswerRefines, SendRefines
  <2>3. CASE Leaves(c) \/ Cleans(c) \/ Cancels(c) \/ Closes(c)
    BY <1>2, <2>3, LeaveRefines
  <2> QED
    BY <1>0, <1>2, <2>1, <2>2, <2>3, CallMoves
<1>3. UNCHANGED vars => UNCHANGED D!vars
  BY DEF vars, shared, athread, cthread, peers, D!vars, AgentState, Present, Opened, Pending, Workers,
    Stopped, Finals, WorkerOf
<1> QED
  BY <1>1, <1>2, <1>3, RelaySteps

(* The relay implements Delivery: in every behaviour, whatever the order in  *)
(* which the threads take the locks on `agents`, `routes` and `by_req`, what *)
(* users see are steps of the map-less, lock-less specification.             *)
THEOREM RelayRefines == Spec => ImplementsDelivery
<1> DEFINE Inv == TypeOK /\ RouteInv /\ DeliverInv
<1>1. Init => Inv
  BY DeliverInit
<1>2. Inv /\ [Next]_vars => Inv'
  BY DeliverStep
<1>3. Init => D!Init
  <2> SUFFICES ASSUME Init PROVE D!Init
    OBVIOUS
  <2>1. AgentState = [a \in AConns |-> "new"]
    BY DEF Init, AgentState
  <2>2. Present = CConns /\ Opened = {} /\ Pending = {} /\ Workers = {} /\ Stopped = {} /\ Finals = {}
    BY DEF Init, Present, Opened, Pending, Workers, Stopped, Finals
  <2> QED
    BY <2>1, <2>2 DEF Init, D!Init
<1>4. Inv /\ [Next]_vars => [D!Next]_(D!vars)
  BY RelayStepRefines
<1> QED
  BY <1>1, <1>2, <1>3, <1>4, PTL DEF Spec, ImplementsDelivery, D!Spec

----------------------------------------------------------------------------
(* What Delivery promises holds of the relay: the invariant behind it.       *)
DeliveryInv ==
  /\ D!OneWorker /\ Pending \cup Finals \subseteq Opened /\ Stopped \subseteq Workers
  /\ \A w \in Workers : w.agent \in AConns /\ w.req \in Opened
  /\ D!StoppedForReason /\ DOMAIN AgentState = AConns

LEMMA DeliveryStep == DeliveryInv /\ [D!Next]_(D!vars) => DeliveryInv'
<1> SUFFICES ASSUME DeliveryInv, [D!Next]_(D!vars) PROVE DeliveryInv'
  OBVIOUS
<1> USE DEF DeliveryInv, D!OneWorker, D!StoppedForReason
<1>1. ASSUME NEW r \in D!Requests, D!Open(r) PROVE DeliveryInv'
  BY <1>1 DEF D!Open
<1>2. ASSUME NEW r \in D!Requests, D!Miss(r) \/ D!Refuse(r) PROVE DeliveryInv'
  BY <1>2 DEF D!Miss, D!Refuse
<1>3. ASSUME NEW r \in D!Requests, D!Deliver(r) \/ D!Fail(r) PROVE DeliveryInv'
  BY <1>3 DEF D!Deliver, D!Fail
<1>4. ASSUME NEW r \in D!Requests, NEW a \in AConns, D!Start(r, a) PROVE DeliveryInv'
  <2> DEFINE w == [agent |-> a, req |-> r]
  <2>1. w.agent = a /\ w.req = r
    OBVIOUS
  <2>2. Workers' = Workers \cup {w} /\ Pending' = Pending \ {r} /\ r \in Pending
        /\ UNCHANGED <<AgentState, Present, Opened, Stopped, Finals>>
    BY <1>4 DEF D!Start
  <2> HIDE DEF w
  <2>3. r \in Opened /\ r \notin Finals /\ \A v \in Workers : v.req # r
    BY <2>2
  <2>4. D!OneWorker'
    BY <2>1, <2>2, <2>3
  <2> QED
    BY <2>1, <2>2, <2>3, <2>4
<1>5. ASSUME NEW w \in Workers, D!Finish(w) \/ D!Vanish(w) PROVE DeliveryInv'
  BY <1>5 DEF D!Finish, D!Vanish
<1>6. ASSUME NEW W \in SUBSET Workers, D!Cancel(W) PROVE DeliveryInv'
  BY <1>6 DEF D!Cancel
<1>7. ASSUME NEW c \in CConns, D!Leave(c) PROVE DeliveryInv'
  BY <1>7 DEF D!Leave
<1>8. ASSUME NEW a \in AConns, D!Greet(a) \/ D!Lose(a) PROVE DeliveryInv'
  <2>1. /\ UNCHANGED <<Present, Opened, Pending, Workers, Finals>>
        /\ DOMAIN AgentState' = AConns
        /\ \A b \in AConns : AgentState[b] = "lost" => AgentState'[b] = "lost"
    BY <1>8 DEF D!Greet, D!Lose
  <2>2. Stopped' \subseteq Workers
        /\ \A w \in Stopped' : w \in Stopped \/ (w.agent = a /\ AgentState'[a] = "lost")
    BY <1>8 DEF D!Greet, D!Lose
  <2> QED
    BY <2>1, <2>2
<1>9. CASE UNCHANGED D!vars
  BY <1>9 DEF D!vars
<1> QED
  BY <1>1, <1>2, <1>3, <1>4, <1>5, <1>6, <1>7, <1>8, <1>9 DEF D!Next

LEMMA DeliverySafe == D!Spec => []DeliveryInv
<1>1. D!Init => DeliveryInv
  BY DEF D!Init, DeliveryInv, D!OneWorker, D!StoppedForReason
<1> QED
  BY <1>1, DeliveryStep, PTL DEF D!Spec

(* No request runs twice, and none runs beside its own end: it is on its way *)
(* to an agent, or has one worker, or that worker's final payload is in hand.*)
THEOREM RelayOneWorker == Spec => []D!OneWorker
<1>1. DeliveryInv => D!OneWorker
  BY DEF DeliveryInv
<1> QED
  BY <1>1, RelayRefines, DeliverySafe, PTL DEF ImplementsDelivery

(* A worker is told to stop only because its own controller left or its own  *)
(* agent's connection ended: the RouteCancel and the error handling of one   *)
(* peer never interrupt another's work.                                      *)
THEOREM RelayStopsForReason == Spec => []D!StoppedForReason
<1>1. DeliveryInv => D!StoppedForReason
  BY DEF DeliveryInv
<1> QED
  BY <1>1, RelayRefines, DeliverySafe, PTL DEF ImplementsDelivery

(* As long as no agent connection ended, a controller is told of the end of  *)
(* a request only when the request reached no agent or when the final        *)
(* payload of the request's own worker is forwarded.                         *)
THEOREM RelayNoFalseEnd == Spec => D!NoFalseEnd
<1>1. ASSUME [D!Next]_(D!vars)
      PROVE  [D!AllConnected => answered' \ answered \subseteq Pending \cup Finals]_(D!vars)
  <2>1. D!Next => (D!AllConnected => answered' \ answered \subseteq Pending \cup Finals)
    BY DEF D!Next, D!Open, D!Miss, D!Refuse, D!Deliver, D!Fail, D!Start, D!Finish, D!Vanish, D!Cancel,
      D!Leave, D!Greet, D!Lose
  <2> QED
    BY <1>1, <2>1
<1>2. D!Spec => D!NoFalseEnd
  BY <1>1, PTL DEF D!Spec, D!NoFalseEnd
<1> QED
  BY <1>2, RelayRefines, PTL DEF ImplementsDelivery

============================================================================
