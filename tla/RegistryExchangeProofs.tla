----------------------- MODULE RegistryExchangeProofs -----------------------
(***************************************************************************)
(* What is proved of RegistryExchange, for any number of calls, any        *)
(* payloads, any backlog and any number of restarts: its types, that it    *)
(* implements RegistryService, and that what was acknowledged is listed.   *)
(***************************************************************************)
EXTENDS RegistryExchange, SequenceTheorems, TLAPS

-----------------------------------------------------------------------------
(* The backlog, as a sequence.                                             *)

LEMMA Shifted ==
    ASSUME NEW S, NEW q \in Seq(S), q # <<>>
    PROVE  /\ Head(q) = q[1] /\ q[1] \in S /\ 1 \in DOMAIN q
           /\ Tail(q) \in Seq(S)
           /\ Len(Tail(q)) <= Len(q)
           /\ \A i \in DOMAIN Tail(q) : /\ i + 1 \in DOMAIN q /\ i + 1 # 1
                                        /\ Tail(q)[i] = q[i + 1]
<1>1. /\ Len(q) \in Nat /\ Len(q) # 0 /\ DOMAIN q = 1 .. Len(q)
      /\ \A i \in 1 .. Len(q) : q[i] \in S
  BY EmptySeq, LenProperties, ElementOfSeq
<1>2. /\ Head(q) = q[1] /\ Tail(q) \in Seq(S) /\ Len(Tail(q)) = Len(q) - 1
      /\ \A i \in 1 .. Len(Tail(q)) : Tail(q)[i] = q[i + 1]
  BY HeadTailProperties
<1>3. DOMAIN Tail(q) = 1 .. Len(Tail(q))
  BY <1>2, LenProperties
<1> QED
  BY <1>1, <1>2, <1>3

LEMMA Appended ==
    ASSUME NEW S, NEW q \in Seq(S), NEW x \in S
    PROVE  /\ Append(q, x) \in Seq(S)
           /\ Len(Append(q, x)) = Len(q) + 1 /\ Len(q) \in Nat
           /\ \A i \in DOMAIN Append(q, x) :
                \/ i \in DOMAIN q /\ Append(q, x)[i] = q[i]
                \/ i \notin DOMAIN q /\ i = Len(q) + 1 /\ Append(q, x)[i] = x
<1>1. Len(q) \in Nat /\ DOMAIN q = 1 .. Len(q)
  BY LenProperties
<1>2. /\ Append(q, x) \in Seq(S) /\ Len(Append(q, x)) = Len(q) + 1
      /\ \A i \in 1 .. Len(q) : Append(q, x)[i] = q[i]
      /\ Append(q, x)[Len(q) + 1] = x
  BY AppendProperties
<1>3. DOMAIN Append(q, x) = 1 .. (Len(q) + 1)
  BY <1>2, LenProperties
<1> QED
  BY <1>1, <1>2, <1>3
-----------------------------------------------------------------------------
(* The registry and its replies keep their types.                          *)

LEMMA PayloadType ==
    ASSUME NEW r \in Payloads
    PROVE  /\ r.action \in Actions /\ r.name \in STRING
           /\ \A at \in Nat : EntryOf(r, at) \in Entries
  BY ExchangeAssumption DEF EntryOf, Entries

LEMMA ReplyType ==
    ASSUME registry \subseteq Entries, NEW r \in Payloads
    PROVE  Reply(r) \in Replies /\ Error \in Replies
<1>1. FindNodeByName(r.name) \subseteq registry
  BY DEF FindNodeByName, Named
<1>2. Error \in Replies
  BY DEF Error, Replies
<1>3. [kind |-> "publicKey", entries |-> FindNodeByName(r.name)] \in Replies
  BY <1>1 DEF Replies
<1>4. [kind |-> "list", entries |-> registry] \in Replies
  BY DEF Replies
<1>5. [kind |-> "message", entries |-> {}] \in Replies
  BY DEF Replies
<1> QED
  BY <1>2, <1>3, <1>4, <1>5 DEF Reply

LEMMA FailedType == Service!Failed \in Replies /\ Service!Failed.kind = "failed"
  BY DEF Service!Failed, Service!Nothing, Replies

LEMMA OutcomeType ==
    ASSUME NEW r \in Payloads, NEW m \in Replies
    PROVE  Service!Outcome(r, m) \in Replies
<1>1. Service!Nothing("exception") \in Replies /\ Service!Nothing("no nodes") \in Replies
        /\ Service!Nothing("done") \in Replies
  BY DEF Service!Nothing, Replies
<1> QED
  BY <1>1, FailedType
     DEF Service!Outcome, Service!GetNodePublicKey, Service!PerformCurlRequest,
         Service!FetchNodesFromRegistry, Service!DeregisterNodeWithRegistry

LEMMA ProcessType ==
    ASSUME registry \subseteq Entries, pushes \in Nat,
           NEW r \in Payloads, ProcessRequest(r)
    PROVE  registry' \subseteq Entries /\ pushes' \in Nat
<1>1. CASE r.action = "register" /\ RegisterNode(r)
  BY <1>1, PayloadType DEF RegisterNode
<1>2. CASE r.action = "deregister" /\ DeregisterNode(r)
  BY <1>2 DEF DeregisterNode, Named
<1>3. CASE r.action = "update" /\ UpdateNode(r)
  <2>1. \A e \in registry : EntryOf(r, e.at) \in Entries
    <3>1. \A e \in registry : e.at \in Nat
      BY DEF Entries
    <3> QED
      BY <3>1, PayloadType
  <2> QED
    BY <1>3, <2>1 DEF UpdateNode
<1>4. CASE UNCHANGED <<registry, pushes>>
  BY <1>4
<1> QED
  BY <1>1, <1>2, <1>3, <1>4 DEF ProcessRequest
-----------------------------------------------------------------------------
(* The inductive invariant.                                                *)

(***************************************************************************)
(* Where the caller, the connection and the handler of a call can be at    *)
(* the same time: a call that has not been processed is still in requests, *)
(* has no reply, and is in the backlog at most once; one that has been is  *)
(* not, and has one.                                                       *)
(***************************************************************************)
CallerInv(k) ==
    /\ client[k] = "none" <=> payload[k] = None
    /\ client[k] # "returned" => result[k] = None
    /\ client[k] \in {"none", "connecting"} => handler[k] = "none"
    /\ client[k] = "connecting" => k \in requests

HandlerInv(k) ==
    /\ handler[k] \in {"recv", "process"} => k \in requests
    /\ handler[k] \in {"none", "recv", "process"} => reply[k] = None
    /\ handler[k] \in {"write", "closed"} => reply[k] # None

BacklogInv ==
    /\ \A i, j \in DOMAIN backlog : backlog[i] = backlog[j] => i = j
    /\ \A i \in DOMAIN backlog :
          /\ handler[backlog[i]] = "none"
          /\ client[backlog[i]] \in {"connected", "returned"}
          /\ backlog[i] \in requests

LinkInv ==
    /\ \A k \in CallId : CallerInv(k) /\ HandlerInv(k)
    /\ BacklogInv

(* A caller that waits, or is being handled, has asked something.          *)
LEMMA Asked ==
    ASSUME TypeOK, LinkInv, NEW k \in CallId,
           client[k] # "none" \/ handler[k] # "none"
    PROVE  payload[k] \in Payloads
  BY DEF TypeOK, LinkInv, CallerInv

LEMMA TypeStep ==
    ASSUME TypeOK, LinkInv, [Next]_vars
    PROVE  TypeOK'
<1> USE DEF vars, registryVars, serverVars, clientVars, handlerVars
<1>1. ASSUME NEW k \in CallId, NEW r \in Payloads, Call(k, r)
      PROVE  TypeOK'
  BY <1>1 DEF Call, TypeOK
<1>2. ASSUME NEW k \in CallId, Connect(k)
      PROVE  TypeOK'
  <2>1. /\ backlog' \in Seq(CallId)
        /\ Len(backlog') <= Backlog
    <3>1. backlog \in Seq(CallId) /\ backlog' = Append(backlog, k) /\ Len(backlog) < Backlog
      BY <1>2 DEF Connect, TypeOK
    <3>2. /\ Append(backlog, k) \in Seq(CallId)
          /\ Len(Append(backlog, k)) = Len(backlog) + 1 /\ Len(backlog) \in Nat
      BY <3>1, Appended
    <3> QED
      BY <3>1, <3>2, ExchangeAssumption
  <2> QED
    BY <1>2, <2>1 DEF Connect, TypeOK
<1>3. ASSUME NEW k \in CallId, SendHeaders(k) \/ SendBody(k)
      PROVE  TypeOK'
  BY <1>3 DEF SendHeaders, SendBody, TypeOK
<1>4. ASSUME NEW k \in CallId, Receive(k)
      PROVE  TypeOK'
  <2>1. payload[k] \in Payloads /\ reply[k] \in Replies
    BY <1>4, Asked DEF Receive, LinkInv, HandlerInv, TypeOK
  <2>2. Service!Outcome(payload[k], reply[k]) \in Replies
    BY <2>1, OutcomeType
  <2> QED
    BY <1>4, <2>2 DEF Receive, GetsBack, TypeOK
<1>5. ASSUME NEW k \in CallId, ConnectionFails(k) \/ TimesOut(k)
      PROVE  TypeOK'
  <2>1. client[k] \in {"connecting", "connected"} /\ PerformFails(k)
    BY <1>5 DEF ConnectionFails, IsReset, TimesOut
  <2>2. Service!Outcome(payload[k], Service!Failed) \in Replies
    BY <2>1, Asked, FailedType, OutcomeType
  <2> QED
    BY <2>1, <2>2 DEF PerformFails, GetsBack, TypeOK
<1>6. ASSUME NEW k \in CallId, ReadFromSocket(k)
      PROVE  TypeOK'
  BY <1>6 DEF ReadFromSocket, TypeOK
<1>7. ASSUME NEW k \in CallId, Process(k)
      PROVE  TypeOK'
  <2>1. payload[k] \in Payloads
    BY <1>7, Asked DEF Process
  <2>2. registry \subseteq Entries /\ pushes \in Nat
    BY DEF TypeOK
  <2>3. registry' \subseteq Entries /\ pushes' \in Nat
    <3>1. CASE ProcessRequest(payload[k])
      BY <2>1, <2>2, <3>1, ProcessType
    <3>2. CASE UNCHANGED <<registry, pushes>>
      BY <2>2, <3>2
    <3> QED
      BY <1>7, <3>1, <3>2 DEF Process
  <2>4. PICK m \in Replies : Respond(k, m)
    BY <1>7, <2>1, <2>2, ReplyType DEF Process
  <2> QED
    BY <1>7, <2>3, <2>4 DEF Process, Respond, TypeOK
<1>8. ASSUME NEW k \in CallId, WriteToSocket(k)
      PROVE  TypeOK'
  BY <1>8 DEF WriteToSocket, TypeOK
<1>9. ASSUME Accept
      PROVE  TypeOK'
  <2>1. backlog \in Seq(CallId) /\ backlog # <<>> /\ Len(backlog) <= Backlog
    BY <1>9 DEF Accept, TypeOK
  <2>2. Tail(backlog) \in Seq(CallId) /\ Len(Tail(backlog)) <= Len(backlog)
    BY <2>1, Shifted
  <2>3. Len(Tail(backlog)) \in Nat /\ Len(backlog) \in Nat
    BY <2>1, <2>2, LenProperties
  <2>4. backlog' \in Seq(CallId) /\ Len(backlog') <= Backlog
    BY <1>9, <2>1, <2>2, <2>3, ExchangeAssumption DEF Accept
  <2> QED
    BY <1>9, <2>4 DEF Accept, TypeOK
<1>10. ASSUME Start
       PROVE  TypeOK'
  BY <1>10, ExchangeAssumption DEF Start, TypeOK
<1>11. ASSUME Kill
       PROVE  TypeOK'
  <2>1. <<>> \in Seq(CallId) /\ Len(<<>>) <= Backlog
    BY EmptySeq, ExchangeAssumption
  <2> QED
    BY <1>11, <2>1 DEF Kill, TypeOK
<1>12. CASE UNCHANGED vars
  BY <1>12 DEF TypeOK
<1> QED
  BY <1>1, <1>2, <1>3, <1>4, <1>5, <1>6, <1>7, <1>8, <1>9, <1>10, <1>11, <1>12
  DEF Next, Caller, HandleClient
-----------------------------------------------------------------------------
(* The links between caller, connection and handler.                       *)

(* A step that leaves the backlog and the handlers alone keeps BacklogInv  *)
(* if no call in the backlog goes back to connecting or leaves requests.   *)
LEMMA BacklogStays ==
    ASSUME TypeOK, BacklogInv, UNCHANGED <<backlog, handler>>,
           \A k \in CallId :
              client[k] \in {"connected", "returned"} /\ k \in requests =>
                 client'[k] \in {"connected", "returned"} /\ k \in requests'
    PROVE  BacklogInv'
<1>1. \A i \in DOMAIN backlog : backlog[i] \in CallId
  BY LenProperties, ElementOfSeq DEF TypeOK
<1> QED
  BY <1>1 DEF BacklogInv

LEMMA LinkStep ==
    ASSUME TypeOK, LinkInv, [Next]_vars
    PROVE  LinkInv'
<1> USE DEF vars, registryVars, serverVars, clientVars, handlerVars
<1>0. \A i \in DOMAIN backlog : backlog[i] \in CallId
  BY LenProperties, ElementOfSeq DEF TypeOK
<1>1. ASSUME NEW k \in CallId, NEW r \in Payloads, Call(k, r)
      PROVE  LinkInv'
  <2>1. r # None
    BY ExchangeAssumption
  <2>2. \A j \in CallId : CallerInv(j)' /\ HandlerInv(j)'
    BY <1>1, <2>1 DEF Call, TypeOK, LinkInv, CallerInv, HandlerInv
  <2>3. \A j \in CallId : client[j] \in {"connected", "returned"} /\ j \in requests =>
             client'[j] \in {"connected", "returned"} /\ j \in requests'
    BY <1>1 DEF Call, TypeOK
  <2>4. BacklogInv'
    BY <1>1, <2>3, BacklogStays DEF Call, LinkInv
  <2> QED
    BY <2>2, <2>4 DEF LinkInv
<1>2. ASSUME NEW k \in CallId, Connect(k)
      PROVE  LinkInv'
  <2>1. client[k] = "connecting" /\ backlog' = Append(backlog, k) /\ handler[k] = "none"
    BY <1>2 DEF Connect, LinkInv, CallerInv
  <2>2. \A i \in DOMAIN backlog : backlog[i] # k
    BY <2>1 DEF LinkInv, BacklogInv
  <2>3. \A i \in DOMAIN backlog' :
           \/ i \in DOMAIN backlog /\ backlog'[i] = backlog[i]
           \/ i = Len(backlog) + 1 /\ backlog'[i] = k
    BY <2>1, Appended DEF TypeOK
  <2>4. k \in requests
    BY <2>1 DEF LinkInv, CallerInv
  <2>5. \A j \in CallId : CallerInv(j)' /\ HandlerInv(j)'
    BY <1>2, <2>1 DEF Connect, TypeOK, LinkInv, CallerInv, HandlerInv
  <2>6. \A i \in DOMAIN backlog' :
           /\ handler'[backlog'[i]] = "none"
           /\ client'[backlog'[i]] \in {"connected", "returned"}
           /\ backlog'[i] \in requests'
    BY <1>0, <1>2, <2>1, <2>2, <2>3, <2>4 DEF Connect, TypeOK, LinkInv, BacklogInv
  <2>7. \A i, j \in DOMAIN backlog' : backlog'[i] = backlog'[j] => i = j
    BY <2>2, <2>3 DEF LinkInv, BacklogInv
  <2> QED
    BY <2>4, <2>5, <2>6, <2>7 DEF LinkInv, BacklogInv
<1>3. ASSUME NEW k \in CallId, SendHeaders(k) \/ SendBody(k)
      PROVE  LinkInv'
  BY <1>3 DEF SendHeaders, SendBody, LinkInv, CallerInv, HandlerInv, BacklogInv
<1>4. ASSUME NEW k \in CallId, Receive(k)
      PROVE  LinkInv'
  <2>1. \A j \in CallId : CallerInv(j)' /\ HandlerInv(j)'
    BY <1>4 DEF Receive, GetsBack, TypeOK, LinkInv, CallerInv, HandlerInv
  <2>2. \A j \in CallId : client[j] \in {"connected", "returned"} /\ j \in requests =>
             client'[j] \in {"connected", "returned"} /\ j \in requests'
    BY <1>4 DEF Receive, GetsBack, TypeOK
  <2>3. BacklogInv'
    BY <1>4, <2>2, BacklogStays DEF Receive, LinkInv
  <2> QED
    BY <2>1, <2>3 DEF LinkInv
<1>5. ASSUME NEW k \in CallId, ConnectionFails(k) \/ TimesOut(k)
      PROVE  LinkInv'
  <2>1. client[k] \in {"connecting", "connected"} /\ PerformFails(k)
    BY <1>5 DEF ConnectionFails, IsReset, TimesOut
  <2>2. \A j \in CallId : CallerInv(j)' /\ HandlerInv(j)'
    BY <2>1 DEF PerformFails, GetsBack, TypeOK, LinkInv, CallerInv, HandlerInv
  <2>3. \A j \in CallId : client[j] \in {"connected", "returned"} /\ j \in requests =>
             client'[j] \in {"connected", "returned"} /\ j \in requests'
    BY <2>1 DEF PerformFails, GetsBack, TypeOK
  <2>4. BacklogInv'
    BY <2>1, <2>3, BacklogStays DEF PerformFails, LinkInv
  <2> QED
    BY <2>2, <2>4 DEF LinkInv
<1>6. ASSUME NEW k \in CallId, ReadFromSocket(k) \/ WriteToSocket(k)
      PROVE  LinkInv'
  <2>1. \A j \in CallId : CallerInv(j)' /\ HandlerInv(j)'
    BY <1>6 DEF ReadFromSocket, WriteToSocket, TypeOK, LinkInv, CallerInv, HandlerInv
  <2>2. BacklogInv'
    BY <1>0, <1>6 DEF ReadFromSocket, WriteToSocket, TypeOK, LinkInv, BacklogInv
  <2> QED
    BY <2>1, <2>2 DEF LinkInv
<1>7. ASSUME NEW k \in CallId, Process(k)
      PROVE  LinkInv'
  <2>1. payload[k] \in Payloads /\ handler[k] = "process"
    BY <1>7, Asked DEF Process
  <2>2. PICK m \in Replies : Respond(k, m)
    BY <1>7, <2>1, ReplyType DEF Process, TypeOK
  <2>3. m # None
    BY <2>2, ExchangeAssumption
  <2>4. \A j \in CallId : CallerInv(j)' /\ HandlerInv(j)'
    BY <1>7, <2>1, <2>2, <2>3
    DEF Process, Respond, TypeOK, LinkInv, CallerInv, HandlerInv
  <2>5. BacklogInv'
    BY <1>0, <1>7, <2>1, <2>2 DEF Process, Respond, TypeOK, LinkInv, BacklogInv
  <2> QED
    BY <2>4, <2>5 DEF LinkInv
<1>8. ASSUME Accept
      PROVE  LinkInv'
  <2> DEFINE h == Head(backlog)
  <2>1. /\ h = backlog[1] /\ 1 \in DOMAIN backlog /\ h \in CallId
        /\ \A i \in DOMAIN backlog' : /\ i + 1 \in DOMAIN backlog /\ i + 1 # 1
                                      /\ backlog'[i] = backlog[i + 1]
    BY <1>8, Shifted DEF Accept, TypeOK
  <2>2. /\ h \in requests /\ handler[h] = "none" /\ reply[h] = None
        /\ client[h] \in {"connected", "returned"}
    BY <2>1 DEF LinkInv, BacklogInv, HandlerInv
  <2>3. handler' = [handler EXCEPT ![h] = "recv"]
    BY <1>8 DEF Accept
  <2> HIDE DEF h
  <2>4. \A i \in DOMAIN backlog' : backlog'[i] \in CallId /\ backlog'[i] # h
    BY <1>0, <2>1 DEF LinkInv, BacklogInv
  <2>5. \A j \in CallId : CallerInv(j)' /\ HandlerInv(j)'
    BY <1>8, <2>2, <2>3 DEF Accept, TypeOK, LinkInv, CallerInv, HandlerInv
  <2>6. \A i \in DOMAIN backlog' :
           /\ handler'[backlog'[i]] = "none"
           /\ client'[backlog'[i]] \in {"connected", "returned"}
           /\ backlog'[i] \in requests'
    BY <1>8, <2>1, <2>3, <2>4 DEF Accept, TypeOK, LinkInv, BacklogInv
  <2>7. ASSUME NEW i \in DOMAIN backlog', NEW j \in DOMAIN backlog',
               backlog'[i] = backlog'[j]
        PROVE  i = j
    <3>1. i \in Int /\ j \in Int
      BY LenProperties, TypeStep DEF TypeOK
    <3>2. i + 1 = j + 1
      BY <2>1, <2>7 DEF LinkInv, BacklogInv
    <3> QED
      BY <3>1, <3>2
  <2> QED
    BY <2>5, <2>6, <2>7 DEF LinkInv, BacklogInv
<1>9. ASSUME Start
      PROVE  LinkInv'
  BY <1>9 DEF Start, LinkInv, CallerInv, HandlerInv, BacklogInv
<1>10. ASSUME Kill
       PROVE  LinkInv'
  <2>1. BacklogInv'
    BY <1>10 DEF Kill, BacklogInv
  <2>2. \A j \in CallId : client[j] \in {"none", "connecting"} => ~HasConnection(j)
    BY <1>0 DEF HasConnection, Range, LinkInv, BacklogInv, CallerInv
  <2>3. \A j \in CallId : CallerInv(j)' /\ HandlerInv(j)'
    BY <1>10, <2>2 DEF Kill, HasConnection, TypeOK, LinkInv, CallerInv, HandlerInv
  <2> QED
    BY <2>1, <2>3 DEF LinkInv
<1>11. CASE UNCHANGED vars
  BY <1>11 DEF LinkInv, CallerInv, HandlerInv, BacklogInv
<1> QED
  BY <1>1, <1>2, <1>3, <1>4, <1>5, <1>6, <1>7, <1>8, <1>9, <1>10, <1>11
  DEF Next, Caller, HandleClient
-----------------------------------------------------------------------------
LEMMA Started == Init => TypeOK /\ LinkInv
<1> SUFFICES ASSUME Init PROVE TypeOK /\ LinkInv
  OBVIOUS
<1> USE DEF Init, RegistryInit
<1>1. <<>> \in Seq(CallId) /\ Len(<<>>) = 0 /\ DOMAIN <<>> = 1 .. 0
  BY EmptySeq, LenProperties
<1>2. 0 \in 0 .. MaxRestarts + 1 /\ 0 <= Backlog /\ 1 .. 0 = {}
  BY ExchangeAssumption
<1>3. TypeOK
  BY <1>1, <1>2 DEF TypeOK
<1>4. LinkInv
  BY <1>1, <1>2 DEF LinkInv, CallerInv, HandlerInv, BacklogInv
<1> QED
  BY <1>3, <1>4

(***************************************************************************)
(* TypeCorrect: for any number of calls and restarts, the list, the        *)
(* backlog, the sockets and the threads of the registry keep their types,  *)
(* and the backlog its bound.                                              *)
(***************************************************************************)
THEOREM TypeCorrect == Spec => []TypeOK
<1>1. TypeOK /\ LinkInv /\ [Next]_vars => TypeOK' /\ LinkInv'
  BY TypeStep, LinkStep
<1> QED
  BY <1>1, Started, PTL DEF Spec

(***************************************************************************)
(* LinksHold: the places of the caller, the connection and the handler of  *)
(* a call fit together: no handler works for a call that is not made, and  *)
(* none handles a call a second time.                                      *)
(***************************************************************************)
THEOREM LinksHold == Spec => []LinkInv
<1>1. TypeOK /\ LinkInv /\ [Next]_vars => TypeOK' /\ LinkInv'
  BY TypeStep, LinkStep
<1> QED
  BY <1>1, Started, PTL DEF Spec
-----------------------------------------------------------------------------
(* The exchange implements the service.                                    *)

LEMMA SameReply ==
    ASSUME NEW r
    PROVE  /\ ProcessRequest(r) => Service!ProcessRequest(r)
           /\ Service!Reply(r) = Reply(r) /\ Service!Error = Error
<1>1. Service!ProcessRequest(r) <=> ProcessRequest(r)
  BY DEF ProcessRequest, RegisterNode, DeregisterNode, UpdateNode, EntryOf,
         IsFirstOf, Named, Service!ProcessRequest, Service!RegisterNode,
         Service!DeregisterNode, Service!UpdateNode, Service!EntryOf,
         Service!IsFirstOf, Service!Named
<1>2. Service!Error = Error /\ Service!Reply(r) = Reply(r)
  BY DEF Error, Reply, FindNodeByName, IsFirstOf, Named, Service!Error,
         Service!Reply, Service!FindNodeByName, Service!IsFirstOf, Service!Named
<1> QED
  BY <1>1, <1>2

LEMMA Refines ==
    ASSUME TypeOK, LinkInv, [Next]_vars
    PROVE  [Service!Next]_(Service!vars)
<1> USE DEF registryVars, serverVars, clientVars, handlerVars, Service!vars
<1>1. ASSUME NEW k \in CallId, NEW r \in Payloads, Call(k, r)
      PROVE  Service!Call(k, r)
  BY <1>1 DEF Call, LinkInv, CallerInv, Service!Call
<1>2. ASSUME NEW k \in CallId, Receive(k)
      PROVE  Service!Answer(k)
  <2>1. payload[k] # None /\ result[k] = None /\ reply[k] # None
    BY <1>2 DEF Receive, LinkInv, CallerInv, HandlerInv
  <2> QED
    BY <1>2, <2>1 DEF Receive, GetsBack, Service!Answer, Service!Open
<1>3. ASSUME NEW k \in CallId, ConnectionFails(k) \/ TimesOut(k)
      PROVE  Service!GiveUp(k)
  <2>1. client[k] \in {"connecting", "connected"} /\ PerformFails(k)
    BY <1>3 DEF ConnectionFails, IsReset, TimesOut
  <2>2. payload[k] # None /\ result[k] = None
    BY <2>1 DEF LinkInv, CallerInv
  <2> QED
    BY <2>1, <2>2 DEF PerformFails, GetsBack, Service!GiveUp, Service!Open
<1>4. ASSUME NEW k \in CallId, Process(k)
      PROVE  Service!TakeEffect(k) \/ Service!Refuse(k)
  <2>1. k \in requests
    BY <1>4 DEF Process, LinkInv, HandlerInv
  <2>2. CASE body[k] /\ ProcessRequest(payload[k]) /\ Respond(k, Reply(payload[k]))
    BY <1>4, <2>1, <2>2, SameReply DEF Process, Respond, Service!TakeEffect
  <2>3. CASE ~body[k] /\ Respond(k, Error) /\ UNCHANGED <<registry, pushes>>
    BY <1>4, <2>1, <2>3, SameReply DEF Process, Respond, Service!Refuse
  <2> QED
    BY <1>4, <2>2, <2>3 DEF Process
<1>5. ASSUME Kill
      PROVE  Service!Restart
  BY <1>5 DEF Kill, Service!Restart
<1>6. ASSUME NEW k \in CallId,
             \/ Connect(k) \/ SendHeaders(k) \/ SendBody(k)
             \/ ReadFromSocket(k) \/ WriteToSocket(k)
      PROVE  UNCHANGED Service!vars
  BY <1>6 DEF Connect, SendHeaders, SendBody, ReadFromSocket, WriteToSocket
<1>7. ASSUME Accept \/ Start \/ UNCHANGED vars
      PROVE  UNCHANGED Service!vars
  BY <1>7 DEF Accept, Start, vars
<1> QED
  BY <1>1, <1>2, <1>3, <1>4, <1>5, <1>6, <1>7
  DEF Next, Caller, HandleClient, Service!Next

(***************************************************************************)
(* Implements: with sockets, a backlog, timers, handler threads that read  *)
(* half a request and a registry that is killed, each call still takes     *)
(* effect at most once, between its being made and its answer, and the     *)
(* answer is the one of that moment.                                       *)
(***************************************************************************)
THEOREM Implements == Spec => ServiceImplemented
<1>1. Init => Service!Init
  BY DEF Init, RegistryInit, Service!Init, Service!RegistryInit
<1>2. TypeOK /\ LinkInv /\ [Next]_vars => [Service!Next]_(Service!vars)
  BY Refines
<1> QED
  BY <1>1, <1>2, TypeCorrect, LinksHold, PTL DEF Spec, ServiceImplemented, Service!Spec
-----------------------------------------------------------------------------
(* What was acknowledged is listed.                                        *)

Listed(k) ==
    \E e \in Named(registry, payload[k].name) :
        e.addr = payload[k].addr /\ e.coords = payload[k].coords

(* The registry has replied to a whole request to register a node.         *)
Registered(k) ==
    reply[k] # None /\ body[k] /\ payload[k].action = "register"

(***************************************************************************)
(* AcknowledgedIsListed speaks of the caller; what keeps it true is at the *)
(* registry: a reply is given with the entry.  A registry that has never   *)
(* been started has no handler, so its first run begins without replies.   *)
(***************************************************************************)
FirstRunInv ==
    /\ server = "listening" => starts # 0
    /\ starts = 0 => \A k \in CallId : handler[k] = "none"

RegisteredInv ==
    server = "listening" /\ starts = 1 /\ (\A j \in CallId : LeavesEntries(j))
      => \A k \in CallId : Registered(k) => Listed(k)

ResultInv == \A k \in CallId : Acknowledged(k) => reply[k] # None

AckInv == FirstRunInv /\ RegisteredInv /\ ResultInv

LEMMA FirstRunStep ==
    ASSUME TypeOK, LinkInv, FirstRunInv, [Next]_vars
    PROVE  FirstRunInv'
<1> USE DEF vars, registryVars, serverVars, clientVars, handlerVars, FirstRunInv
<1>1. ASSUME NEW k \in CallId, HandleClient(k)
      PROVE  FirstRunInv'
  <2>1. handler[k] # "none" /\ UNCHANGED <<server, starts>>
    BY <1>1 DEF HandleClient, ReadFromSocket, Process, WriteToSocket
  <2> QED
    BY <2>1
<1>2. CASE Accept
  BY <1>2 DEF Accept
<1>3. CASE Start
  BY <1>3, ExchangeAssumption DEF Start, TypeOK
<1>4. CASE Kill
  BY <1>4 DEF Kill
<1>5. ASSUME NEW k \in CallId, Caller(k) \/ \E r \in Payloads : Call(k, r)
      PROVE  FirstRunInv'
  <2>1. UNCHANGED <<server, starts, handler>>
    BY <1>5 DEF Caller, Call, Connect, SendHeaders, SendBody, Receive,
                ConnectionFails, TimesOut, PerformFails
  <2> QED
    BY <2>1
<1>6. CASE UNCHANGED vars
  BY <1>6
<1> QED
  BY <1>1, <1>2, <1>3, <1>4, <1>5, <1>6 DEF Next

(* Without removals and updates the list only grows.                       *)
LEMMA ListGrows ==
    ASSUME NEW r \in Payloads, r.action \notin {"deregister", "update"},
           ProcessRequest(r)
    PROVE  /\ registry \subseteq registry'
           /\ r.action = "register" =>
                \E e \in Named(registry', r.name) :
                    e.addr = r.addr /\ e.coords = r.coords
<1>1. CASE r.action = "register" /\ RegisterNode(r)
  <2>1. EntryOf(r, pushes + 1) \in Named(registry', r.name)
    BY <1>1 DEF RegisterNode, EntryOf, Named
  <2> QED
    BY <1>1, <2>1 DEF RegisterNode, EntryOf
<1>2. CASE r.action \in {"list", "getPublicKey"} /\ UNCHANGED <<registry, pushes>>
  BY <1>2
<1> QED
  BY <1>1, <1>2 DEF ProcessRequest

LEMMA RegisteredStep ==
    ASSUME TypeOK, LinkInv, FirstRunInv, RegisteredInv, [Next]_vars
    PROVE  RegisteredInv'
<1> USE DEF vars, registryVars, serverVars, clientVars, handlerVars
<1> SUFFICES ASSUME server' = "listening", starts' = 1,
                    \A j \in CallId : LeavesEntries(j)',
                    NEW k \in CallId, Registered(k)'
             PROVE  Listed(k)'
  BY DEF RegisteredInv
<1>1. ASSUME NEW j \in CallId, NEW r \in Payloads, Call(j, r)
      PROVE  Listed(k)'
  <2>1. reply[j] = None /\ payload[j] = None
    BY <1>1 DEF Call, LinkInv, CallerInv, HandlerInv
  <2>2. k # j
    BY <1>1, <2>1 DEF Call, Registered
  <2>3. \A i \in CallId : i # j => payload'[i] = payload[i]
    BY <1>1 DEF Call, TypeOK
  <2>4. \A i \in CallId : LeavesEntries(i)
    BY <2>1, <2>3 DEF LeavesEntries
  <2>5. Registered(k) /\ server = "listening" /\ starts = 1
    BY <1>1, <2>2, <2>3 DEF Call, Registered
  <2>6. Listed(k)
    BY <2>4, <2>5 DEF RegisteredInv
  <2> QED
    BY <1>1, <2>2, <2>3, <2>6 DEF Call, Listed, Named
<1>2. ASSUME NEW j \in CallId, Process(j)
      PROVE  Listed(k)'
  <2>1. payload[j] \in Payloads /\ payload' = payload
        /\ server = "listening" /\ starts = 1
    BY <1>2, Asked DEF Process
  <2>2. \A i \in CallId : LeavesEntries(i)
    BY <2>1 DEF LeavesEntries
  <2>3. payload[j].action \notin {"deregister", "update"}
    BY <2>1, <2>2, ExchangeAssumption DEF LeavesEntries
  <2>4. registry \subseteq registry'
    <3>1. CASE ProcessRequest(payload[j])
      BY <2>1, <2>3, <3>1, ListGrows
    <3>2. CASE UNCHANGED <<registry, pushes>>
      BY <3>2
    <3> QED
      BY <1>2, <3>1, <3>2 DEF Process
  <2>5. CASE k # j
    <3>1. reply'[k] = reply[k] /\ body'[k] = body[k]
      BY <1>2, <2>5 DEF Process, Respond, TypeOK
    <3>2. Listed(k)
      BY <2>1, <2>2, <3>1 DEF Registered, RegisteredInv
    <3> QED
      BY <2>1, <2>4, <3>2 DEF Listed, Named
  <2>6. CASE k = j
    <3>1. body[j] /\ ProcessRequest(payload[j])
      BY <1>2, <2>6 DEF Process, Registered
    <3>2. payload[j].action = "register"
      BY <2>1, <2>6 DEF Registered
    <3> QED
      BY <2>1, <2>3, <2>6, <3>1, <3>2, ListGrows DEF Listed
  <2> QED
    BY <2>5, <2>6
<1>3. ASSUME UNCHANGED <<registry, server, starts, payload, reply, body>>
      PROVE  Listed(k)'
  BY <1>3 DEF LeavesEntries, Registered, RegisteredInv, Listed, Named
<1>4. ASSUME NEW j \in CallId,
             Caller(j) \/ WriteToSocket(j)
      PROVE  UNCHANGED <<registry, server, starts, payload, reply, body>>
  BY <1>4 DEF Caller, Connect, SendHeaders, SendBody, Receive, GetsBack,
              ConnectionFails, TimesOut, PerformFails, WriteToSocket
<1>8. ASSUME NEW j \in CallId, ReadFromSocket(j)
      PROVE  Listed(k)'
  <2>1. reply[j] = None /\ reply' = reply
    BY <1>8 DEF ReadFromSocket, LinkInv, HandlerInv
  <2>2. k # j
    BY <2>1 DEF Registered
  <2>3. body'[k] = body[k] /\ UNCHANGED <<registry, server, starts, payload, reply>>
    BY <1>8, <2>2 DEF ReadFromSocket, TypeOK
  <2> QED
    BY <2>3 DEF LeavesEntries, Registered, RegisteredInv, Listed, Named
<1>5. CASE Accept \/ UNCHANGED vars
  BY <1>3, <1>5 DEF Accept
<1>6. CASE Start
  <2>1. starts = 0 /\ reply' = reply
    BY <1>6 DEF Start, TypeOK
  <2>2. reply[k] = None
    BY <2>1 DEF FirstRunInv, LinkInv, HandlerInv
  <2> QED
    BY <2>1, <2>2 DEF Registered
<1>7. CASE Kill
  BY <1>7 DEF Kill
<1> QED
  BY <1>1, <1>2, <1>3, <1>4, <1>5, <1>6, <1>7, <1>8 DEF Next, HandleClient

LEMMA ResultStep ==
    ASSUME TypeOK, LinkInv, ResultInv, [Next]_vars
    PROVE  ResultInv'
<1> USE DEF vars, registryVars, serverVars, clientVars, handlerVars
<1> SUFFICES ASSUME NEW k \in CallId, Acknowledged(k)'
             PROVE  reply'[k] # None
  BY DEF ResultInv
<1>1. ASSUME NEW j \in CallId, NEW r \in Payloads, Call(j, r)
      PROVE  reply'[k] # None
  <2>1. result[j] = None
    BY <1>1 DEF Call, LinkInv, CallerInv
  <2>2. k # j /\ payload'[k] = payload[k]
    BY <1>1, <2>1 DEF Call, Acknowledged, TypeOK
  <2> QED
    BY <1>1, <2>2 DEF Call, Acknowledged, ResultInv
<1>2. ASSUME NEW j \in CallId, Receive(j)
      PROVE  reply'[k] # None
  <2>1. CASE k = j
    BY <1>2, <2>1 DEF Receive, LinkInv, HandlerInv
  <2>2. CASE k # j
    BY <1>2, <2>2 DEF Receive, GetsBack, Acknowledged, ResultInv, TypeOK
  <2> QED
    BY <2>1, <2>2
<1>3. ASSUME NEW j \in CallId, ConnectionFails(j) \/ TimesOut(j)
      PROVE  reply'[k] # None
  <2>1. PerformFails(j)
    BY <1>3 DEF ConnectionFails, TimesOut
  <2>2. k # j
    <3>1. SUFFICES ASSUME k = j PROVE FALSE
      OBVIOUS
    <3>2. /\ payload[k].action = "register"
          /\ result'[k] = Service!Outcome(payload[k], Service!Failed)
      BY <2>1, <3>1 DEF PerformFails, GetsBack, Acknowledged, TypeOK
    <3>3. result'[k] = Service!Failed
      BY <3>2, FailedType DEF Service!Outcome, Service!PerformCurlRequest
    <3> QED
      BY <3>3, FailedType DEF Acknowledged
  <2> QED
    BY <2>1, <2>2 DEF PerformFails, GetsBack, Acknowledged, ResultInv, TypeOK
<1>4. ASSUME NEW j \in CallId, Process(j)
      PROVE  reply'[k] # None
  <2>1. Acknowledged(k) /\ reply[k] # None
    BY <1>4 DEF Process, Acknowledged, ResultInv
  <2>2. reply[j] = None
    BY <1>4 DEF Process, LinkInv, HandlerInv
  <2> QED
    BY <1>4, <2>1, <2>2 DEF Process, Respond, TypeOK
<1>5. ASSUME UNCHANGED <<payload, reply, result>>
      PROVE  reply'[k] # None
  BY <1>5 DEF Acknowledged, ResultInv
<1>6. ASSUME NEW j \in CallId,
             \/ Connect(j) \/ SendHeaders(j) \/ SendBody(j)
             \/ ReadFromSocket(j) \/ WriteToSocket(j)
      PROVE  UNCHANGED <<payload, reply, result>>
  BY <1>6 DEF Connect, SendHeaders, SendBody, ReadFromSocket, WriteToSocket
<1>7. CASE Accept \/ Start \/ Kill \/ UNCHANGED vars
  BY <1>5, <1>7 DEF Accept, Start, Kill
<1> QED
  BY <1>1, <1>2, <1>3, <1>4, <1>5, <1>6, <1>7 DEF Next, Caller, HandleClient

(***************************************************************************)
(* AcknowledgedAreListed: for any number of calls, a caller that was told  *)
(* "true" for a request the registry has read whole is listed as it asked, *)
(* while the registry runs on and nobody removes or updates, whatever the  *)
(* timers and the halves of other requests do.                             *)
(***************************************************************************)
THEOREM AcknowledgedAreListed == Spec => []AcknowledgedIsListed
<1>1. Init => AckInv
  <2> SUFFICES ASSUME Init PROVE AckInv
    OBVIOUS
  <2> QED
    BY DEF Init, RegistryInit, AckInv, FirstRunInv, RegisteredInv, ResultInv,
           Acknowledged, Registered
<1>2. TypeOK /\ LinkInv /\ AckInv /\ [Next]_vars => AckInv'
  BY FirstRunStep, RegisteredStep, ResultStep DEF AckInv
<1>3. AckInv => AcknowledgedIsListed
  BY DEF AckInv, RegisteredInv, ResultInv, AcknowledgedIsListed, Listed,
         Acknowledged, Registered
<1> QED
  BY <1>1, <1>2, <1>3, TypeCorrect, LinksHold, PTL DEF Spec
=============================================================================
