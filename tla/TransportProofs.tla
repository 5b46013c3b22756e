---------------------------- MODULE TransportProofs ----------------------------
(***************************************************************************)
(* What sending a message does to the message, to the descriptors and to   *)
(* the connections, for any number of threads, messages and settings.      *)
(***************************************************************************)
EXTENDS Transport, SequenceTheorems, TLAPS

\* Where a thread is inside send_message_direct, and where it has a socket.
Wired   == {"lookup", "store", "fallback", "copy", "connect", "write", "failed", "close"}
Sending == Wired \cup {"socket", "free"}
Places  == Sending \cup {"out", "rlookup", "resolve", "rstore"}

\* One buffer is held while a message is sent, the one that is written, and
\* none before and after.
Holds ==
  \A t \in Thread :
    /\ op[t].pc \in Sending => op[t].size \in {Small, Large} /\ op[t].held = {op[t].final}
    /\ op[t].pc \notin Sending => op[t].held = {}
    /\ op[t].pc \in Wired => op[t].fd \in Fd

\* An open descriptor is that of a thread that has a socket.
Owned ==
  \A n \in Fd : fds[n] # Free => op[fds[n]].fd = n /\ op[fds[n]].pc \in Wired

\* The one way to free a message that is free already.
Twice ==
  fault = "message"
    => \E t \in Thread : op[t].pc = "fallback" /\ op[t].final = "packed" /\ ~cache.set

\* The inductive invariant for any number of threads.
Inv == TransportTypeOK /\ Holds /\ Owned /\ Twice

\* The steps of TNext, without its bound.
Step ==
  \/ \E t \in Thread :
       \/ \E s \in Settings, profiled \in BOOLEAN : BeginRequest(t, s, profiled)
       \/ \E s \in Settings : Configure(t, s)
       \/ \E size \in {Small, Large} : Submit(t, size)
       \/ Inside(t)
       \/ EndRequest(t)
  \/ AgentTurns

\* The thread t comes to pc with the buffers and the descriptor it had.
Moved(t, pc) ==
  /\ op' \in [Thread -> Op]
  /\ \A u \in Thread : u # t => op'[u] = op[u]
  /\ op'[t].pc = pc
  /\ op'[t].msg = op[t].msg /\ op'[t].size = op[t].size
  /\ op'[t].held = op[t].held /\ op'[t].final = op[t].final
  /\ op'[t].fd = op[t].fd
-----------------------------------------------------------------------------
LEMMA OpTyped ==
  ASSUME op \in [Thread -> Op], NEW t \in Thread, NEW o \in Op, op' = [op EXCEPT ![t] = o]
  PROVE  op' \in [Thread -> Op] /\ op'[t] = o /\ \A u \in Thread : u # t => op'[u] = op[u]
<1> HIDE DEF Op
<1> QED OBVIOUS

LEMMA GotoMoves ==
  ASSUME op \in [Thread -> Op], NEW t \in Thread, NEW pc \in Places, Goto(t, pc)
  PROVE  /\ Moved(t, pc) /\ op'[t].left = op[t].left
         /\ op'[t].addr = op[t].addr /\ op'[t].path = op[t].path /\ op'[t].via = op[t].via
<1> DEFINE o == [op[t] EXCEPT !.pc = pc]
<1>1. op[t] \in Op
  OBVIOUS
<1>2. o \in Op /\ o.pc = pc /\ o.msg = op[t].msg /\ o.size = op[t].size /\ o.left = op[t].left
      /\ o.held = op[t].held /\ o.final = op[t].final /\ o.path = op[t].path /\ o.fd = op[t].fd
      /\ o.addr = op[t].addr /\ o.via = op[t].via
  BY <1>1 DEF Op, Places, Sending, Wired
<1>3. op' = [op EXCEPT ![t] = o]
  BY DEF Goto
<1> HIDE DEF o
<1> QED BY <1>2, <1>3, OpTyped DEF Moved

LEMMA AddressedMoves ==
  ASSUME op \in [Thread -> Op], NEW t \in Thread, NEW a \in Name \cup Numeric \cup {Unix},
         NEW via \in Via, Addressed(t, a, via)
  PROVE  /\ Moved(t, "connect") /\ op'[t].left = op[t].left
         /\ op'[t].addr = a /\ op'[t].path = op[t].path /\ op'[t].via = via
<1> DEFINE o == [op[t] EXCEPT !.pc = "connect", !.addr = a, !.via = via]
<1>1. op[t] \in Op
  OBVIOUS
<1>2. o \in Op /\ o.pc = "connect" /\ o.msg = op[t].msg /\ o.size = op[t].size /\ o.left = op[t].left
      /\ o.held = op[t].held /\ o.final = op[t].final /\ o.path = op[t].path /\ o.fd = op[t].fd
      /\ o.addr = a /\ o.via = via
  BY <1>1 DEF Op
<1>3. op' = [op EXCEPT ![t] = o]
  BY DEF Addressed
<1> HIDE DEF o
<1> QED BY <1>2, <1>3, OpTyped DEF Moved

LEMMA OutsideTyped == Outside \in Op
BY DEF Outside, Op, Via, NoPath, NoFd, Path

\* A thread that is outside the transport, with the buffers h.
Leaving(h) == [Outside EXCEPT !.held = h]

LEMMA LeavingTyped ==
  ASSUME NEW h \in SUBSET {"msg", "packed"}
  PROVE  /\ Leaving(h) \in Op /\ Leaving(h).pc = "out" /\ Leaving(h).held = h
         /\ "out" \notin Sending
<1>1. Leaving(h) \in Op
  BY OutsideTyped DEF Leaving, Op
<1>2. Leaving(h).pc = "out" /\ Leaving(h).held = h
  BY DEF Leaving, Outside
<1> QED BY <1>1, <1>2 DEF Sending, Wired

\* The thread t leaves the transport with the buffers h.
Left(t, h) ==
  /\ op' \in [Thread -> Op] /\ op'[t] = Leaving(h)
  /\ \A u \in Thread : u # t => op'[u] = op[u]

LEMMA ReturnMoves ==
  ASSUME op \in [Thread -> Op], NEW t \in Thread, ReturnOf(t)
  PROVE  Left(t, op[t].held)
<1>1. op[t].held \in SUBSET {"msg", "packed"}
  BY DEF Op
<1>2. op' = [op EXCEPT ![t] = Leaving(op[t].held)]
  BY DEF ReturnOf, Back, Leaving
<1> QED BY <1>1, <1>2, LeavingTyped, OpTyped DEF Left

LEMMA FreedMoves ==
  ASSUME op \in [Thread -> Op], NEW t \in Thread, NEW m, op' = [op EXCEPT ![t] = Freed(op[t], m)]
  PROVE  Left(t, op[t].held \ {m})
<1>1. op[t].held \ {m} \in SUBSET {"msg", "packed"}
  BY DEF Op
<1>2. op' = [op EXCEPT ![t] = Leaving(op[t].held \ {m})]
  BY DEF Freed, Leaving
<1> QED BY <1>1, <1>2, LeavingTyped, OpTyped DEF Left
-----------------------------------------------------------------------------
\* What is the same for every step that opens no socket and submits nothing.
LEMMA MovedKeeps ==
  ASSUME Inv, NEW t \in Thread, NEW pc \in Places, Moved(t, pc),
         TransportTypeOK', fault' # "message",
         pc \in Sending <=> op[t].pc \in Sending,
         pc \in Wired => op[t].pc \in Wired,
         (fds' = fds /\ (op[t].pc \in Wired => pc \in Wired)) \/ Closed(t)
  PROVE  Inv'
<1>1. Holds'
  BY DEF Inv, Holds, Moved
<1>2. Owned'
  <2> SUFFICES ASSUME NEW n \in Fd, fds'[n] # Free
               PROVE  op'[fds'[n]].fd = n /\ op'[fds'[n]].pc \in Wired
    BY DEF Owned
  <2>1. fds \in [Fd -> {Free} \cup Thread]
    BY DEF Inv, TransportTypeOK
  <2>2. fds'[n] = fds[n] /\ (n = op[t].fd => (op[t].pc \in Wired => pc \in Wired))
    BY <2>1 DEF Closed
  <2>3. fds[n] \in Thread /\ op[fds[n]].fd = n /\ op[fds[n]].pc \in Wired
    BY <2>1, <2>2 DEF Inv, Owned
  <2> QED BY <2>2, <2>3 DEF Moved
<1> QED BY <1>1, <1>2 DEF Inv, Twice

\* A thread that leaves holds nothing and has closed its socket.
LEMMA LeftKeeps ==
  ASSUME Inv, NEW t \in Thread, Left(t, {}), fault' # "message", TransportTypeOK',
         (fds' = fds /\ op[t].pc \notin Wired) \/ Closed(t)
  PROVE  Inv'
<1>0. op \in [Thread -> Op] /\ fds \in [Fd -> {Free} \cup Thread]
  BY DEF Inv, TransportTypeOK
<1>1. op'[t].pc \notin Sending /\ op'[t].held = {} /\ \A u \in Thread : u # t => op'[u] = op[u]
  BY LeavingTyped DEF Left
<1>2. Holds'
  BY <1>1 DEF Inv, Holds, Sending
<1>3. Owned'
  <2> SUFFICES ASSUME NEW n \in Fd, fds'[n] # Free
               PROVE  op'[fds'[n]].fd = n /\ op'[fds'[n]].pc \in Wired
    BY DEF Owned
  <2>1. fds'[n] = fds[n] /\ (n = op[t].fd => op[t].pc \notin Wired)
    BY <1>0 DEF Closed
  <2>2. fds[n] \in Thread /\ op[fds[n]].fd = n /\ op[fds[n]].pc \in Wired
    BY <1>0, <2>1 DEF Inv, Owned
  <2> QED BY <1>1, <2>1, <2>2
<1> QED BY <1>2, <1>3 DEF Inv, Twice
-----------------------------------------------------------------------------
Hosts == Name \cup Numeric \cup {Unix}

\* Everything but op and fault is as it was, or of its type.
LEMMA TypedBy ==
  ASSUME TransportTypeOK, op' \in [Thread -> Op],
         UNCHANGED <<settings, requests, request, submitted, answering>>,
         cache' = cache \/ \E t \in Thread : op[t].path.host \in Hosts /\ StoreHost(t, op[t].path),
         wire' = wire, fds' = fds \/ \E t \in Thread : Closed(t), fault' \in {"none", "host", "message"}
  PROVE  TransportTypeOK'
<1>1. cache' \in [set : BOOLEAN, host : Hosts, port : Nat, addr : Hosts, owner : Nat]
  <2>1. CASE cache' = cache
    BY <2>1 DEF TransportTypeOK, Hosts
  <2>2. ASSUME NEW t \in Thread, StoreHost(t, op[t].path), op[t].path.host \in Hosts
        PROVE  cache' \in [set : BOOLEAN, host : Hosts, port : Nat, addr : Hosts, owner : Nat]
    <3>1. op[t] \in Op /\ request[t] \in Nat
      BY DEF TransportTypeOK
    <3>2. op[t].path.port \in Nat
      BY <3>1 DEF Op, Path
    <3> QED BY <2>2, <3>1, <3>2 DEF StoreHost
  <2> QED BY <2>1, <2>2
<1>2. fds' \in [Fd -> {Free} \cup Thread]
  BY DEF TransportTypeOK, Closed
<1> QED BY <1>1, <1>2 DEF TransportTypeOK, Hosts

LEMMA FaultKeeps ==
  ASSUME Inv, NEW what \in {"host", "message"}, Fault(what),
         what = "message" => \E t \in Thread : op[t].pc = "fallback" /\ op[t].final = "packed" /\ ~cache.set
  PROVE  Inv'
<1>1. TransportTypeOK'
  BY DEF Inv, Fault, TransportTypeOK
<1>2. Holds' /\ Owned' /\ Twice'
  BY DEF Inv, Fault, Holds, Owned, Twice
<1> QED BY <1>1, <1>2 DEF Inv

\* A step that goes to another place, and possibly closes the socket.
LEMMA GotoKeeps ==
  ASSUME Inv, NEW t \in Thread, NEW pc \in Places, Goto(t, pc), fault = "none",
         UNCHANGED <<settings, requests, request, cache, wire, submitted, answering, fault>>,
         pc \in Sending <=> op[t].pc \in Sending,
         pc \in Wired => op[t].pc \in Wired,
         (fds' = fds /\ (op[t].pc \in Wired => pc \in Wired)) \/ Closed(t)
  PROVE  Inv'
<1>1. Moved(t, pc)
  BY GotoMoves DEF Inv, TransportTypeOK
<1>2. TransportTypeOK'
  <2>1. op' \in [Thread -> Op]
    BY <1>1 DEF Moved
  <2> QED BY <2>1, TypedBy DEF Inv, TransportTypeOK
<1> QED BY <1>1, <1>2, MovedKeeps

LEMMA AddressedKeeps ==
  ASSUME Inv, NEW t \in Thread, NEW a \in Hosts, NEW via \in Via, Addressed(t, a, via),
         op[t].pc \in Wired, fault = "none",
         UNCHANGED <<settings, requests, request, fds, wire, submitted, answering, fault>>,
         cache' = cache \/ (op[t].path.host \in Hosts /\ StoreHost(t, op[t].path))
  PROVE  Inv'
<1>1. Moved(t, "connect")
  BY AddressedMoves DEF Inv, TransportTypeOK, Hosts
<1>2. TransportTypeOK'
  <2>1. op' \in [Thread -> Op]
    BY <1>1 DEF Moved
  <2> QED BY <2>1, TypedBy DEF Inv, TransportTypeOK
<1> QED BY <1>1, <1>2, MovedKeeps DEF Places, Sending, Wired

LEMMA LeftOnly ==
  ASSUME Inv, NEW t \in Thread, Left(t, {}), fault = "none",
         UNCHANGED <<settings, requests, request, wire, submitted, answering, fault>>,
         cache' = cache \/ (op[t].path.host \in Hosts /\ StoreHost(t, op[t].path)),
         (fds' = fds /\ op[t].pc \notin Wired) \/ Closed(t)
  PROVE  Inv'
<1>1. TransportTypeOK'
  <2>1. op' \in [Thread -> Op]
    BY DEF Left
  <2> QED BY <2>1, TypedBy DEF Inv, TransportTypeOK
<1> QED BY <1>1, LeftKeeps

\* pre_resolve_agent_address returns.
LEMMA ReturnOnly ==
  ASSUME Inv, NEW t \in Thread, ReturnOf(t), op[t].pc \notin Sending, fault = "none",
         UNCHANGED <<settings, requests, request, wire, fds, submitted, answering, fault>>,
         cache' = cache \/ (op[t].path.host \in Hosts /\ StoreHost(t, op[t].path))
  PROVE  Inv'
<1>1. Left(t, {})
  BY ReturnMoves DEF Inv, TransportTypeOK, Holds
<1> QED BY <1>1, LeftOnly DEF Sending

\* send_message_direct frees the buffer it holds and returns.
LEMMA FreedOnly ==
  ASSUME Inv, NEW t \in Thread, op[t].pc \in Sending, fault = "none", NEW m \in op[t].held,
         op' = [op EXCEPT ![t] = Freed(op[t], m)],
         UNCHANGED <<settings, requests, request, cache, wire, submitted, answering, fault>>,
         (fds' = fds /\ op[t].pc \notin Wired) \/ Closed(t)
  PROVE  Inv'
<1>1. op[t].held \ {m} = {}
  BY DEF Inv, Holds
<1>2. Left(t, {})
  BY <1>1, FreedMoves DEF Inv, TransportTypeOK
<1> QED BY <1>2, LeftOnly

LEMMA OpFields ==
  ASSUME Inv, NEW t \in Thread
  PROVE  /\ op[t] \in Op /\ op[t].path \in Path /\ op[t].path.host \in Hosts
         /\ op[t].pc \in Wired => op[t].fd \in Fd /\ fds[op[t].fd] \in {Free} \cup Thread
         /\ cache.addr \in Hosts /\ wire[t] \in Socket_
<1>1. op[t] \in Op /\ wire[t] \in Socket_
  BY DEF Inv, TransportTypeOK
<1>2. op[t].path \in Path
  BY <1>1 DEF Op
<1>3. op[t].path.host \in Hosts
  BY <1>2 DEF Path, Hosts
<1>4. op[t].pc \in Wired => op[t].fd \in Fd /\ fds[op[t].fd] \in {Free} \cup Thread
  BY DEF Inv, Holds, TransportTypeOK
<1>5. cache.addr \in Hosts
  BY DEF Inv, TransportTypeOK, Hosts
<1> QED BY <1>1, <1>2, <1>3, <1>4, <1>5
-----------------------------------------------------------------------------
\* The steps that only move a thread along.
LEMMA MovingKeeps ==
  ASSUME Inv, NEW t \in Thread,
         \/ PreLookup(t) \/ Resolve(t) \/ PreStore(t) \/ Lookup(t) \/ Store(t) \/ Fallback(t)
         \/ Copy(t) \/ NoAddress(t) \/ CloseFailed(t) \/ Close(t) \/ FreeMessage(t)
  PROVE  Inv'
<1> USE DEF Places, Sending, Wired
<1>0. fault = "none" /\ {"own", "cache", "stale", "copy"} \subseteq Via
  BY DEF PreLookup, Resolve, PreStore, Lookup, Store, Fallback, Copy, NoAddress, CloseFailed,
         Close, FreeMessage, At, Via
<1>1. CASE PreLookup(t)
  BY <1>0, <1>1, GotoKeeps, ReturnOnly DEF PreLookup, At
<1>2. CASE Resolve(t)
  BY <1>0, <1>2, GotoKeeps, ReturnOnly DEF Resolve, At
<1>3. CASE PreStore(t)
  BY <1>0, <1>3, FaultKeeps, ReturnOnly, OpFields DEF PreStore, At
<1>4. CASE Lookup(t)
  BY <1>0, <1>4, GotoKeeps, AddressedKeeps, OpFields DEF Lookup, At
<1>5. CASE Store(t)
  BY <1>0, <1>5, FaultKeeps, AddressedKeeps, OpFields DEF Store, At
<1>6. CASE Fallback(t)
  <2>1. op[t].pc = "fallback" /\ op[t].held = {op[t].final} /\ op[t].final \in {"msg", "packed"}
    BY <1>6, OpFields DEF Fallback, At, Inv, Holds, Op
  <2>2. CASE ~cache.set /\ "msg" \in op[t].held
    BY <1>0, <1>6, <2>1, <2>2, FreedOnly DEF Fallback
  <2>3. CASE ~cache.set /\ "msg" \notin op[t].held
    BY <1>0, <1>6, <2>1, <2>3, FaultKeeps DEF Fallback
  <2>4. CASE cache.set
    BY <1>0, <1>6, <2>1, <2>4, GotoKeeps DEF Fallback
  <2> QED BY <2>2, <2>3, <2>4
<1>7. CASE Copy(t)
  BY <1>0, <1>7, AddressedKeeps, OpFields DEF Copy, At
<1>8. CASE NoAddress(t)
  BY <1>0, <1>8, GotoKeeps DEF NoAddress, At
<1>9. CASE CloseFailed(t)
  BY <1>0, <1>9, GotoKeeps DEF CloseFailed, At
<1>10. CASE Close(t)
  BY <1>0, <1>10, GotoKeeps DEF Close, At
<1>11. CASE FreeMessage(t)
  <2>1. op[t].pc = "free" /\ op[t].final \in op[t].held
    BY <1>11 DEF FreeMessage, At, Inv, Holds
  <2> QED BY <1>0, <1>11, <2>1, FreedOnly DEF FreeMessage
<1> QED BY <1>1, <1>2, <1>3, <1>4, <1>5, <1>6, <1>7, <1>8, <1>9, <1>10, <1>11

\* The steps of a request that are no part of a send.
LEMMA RequestKeeps ==
  ASSUME Inv, NEW t \in Thread,
         \/ \E s \in Settings, profiled \in BOOLEAN : BeginRequest(t, s, profiled)
         \/ \E s \in Settings : Configure(t, s)
         \/ EndRequest(t)
  PROVE  Inv'
<1>0. fault = "none"
  BY DEF BeginRequest, Configure, EndRequest, At
<1>1. ASSUME NEW s \in Settings, NEW profiled \in BOOLEAN, BeginRequest(t, s, profiled)
      PROVE  Inv'
  <2>1. /\ op[t].pc = "out" /\ settings' = s /\ requests' = requests + 1
        /\ request' = [request EXCEPT ![t] = requests + 1]
        /\ UNCHANGED <<cache, fds, wire, submitted, answering, fault>>
    BY <1>1 DEF BeginRequest, At
  <2>2. /\ op' \in [Thread -> Op] /\ \A u \in Thread : u # t => op'[u] = op[u]
        /\ op'[t].pc \in {"out", "rlookup"} /\ op'[t].held = op[t].held
    <3>1. CASE op' = [op EXCEPT ![t].pc = "rlookup", ![t].path = s.path]
      <4> DEFINE o == [op[t] EXCEPT !.pc = "rlookup", !.path = s.path]
      <4>1. s.path \in Path
        BY ConstantsAssumption DEF Settings
      <4>2. op[t] \in Op
        BY OpFields
      <4>4. o \in Op
        BY <4>1, <4>2 DEF Op
      <4>5. o.pc = "rlookup" /\ o.held = op[t].held
        BY <4>2 DEF Op
      <4>3. op' = [op EXCEPT ![t] = o]
        BY <3>1
      <4> HIDE DEF o
      <4> QED BY <2>1, <4>3, <4>4, <4>5, OpTyped DEF Inv, TransportTypeOK
    <3>2. CASE op' = op
      BY <2>1, <3>2 DEF Inv, TransportTypeOK
    <3> QED BY <1>1, <3>1, <3>2 DEF BeginRequest
  <2>3. TransportTypeOK'
    <3>1. requests' \in Nat /\ request' \in [Thread -> Nat]
      BY <2>1 DEF Inv, TransportTypeOK
    <3> QED BY <2>1, <2>2, <3>1 DEF Inv, TransportTypeOK
  <2>4. Holds'
    BY <2>1, <2>2 DEF Inv, Holds, Sending, Wired
  <2>5. Owned'
    BY <2>1, <2>2 DEF Inv, Owned, Wired, TransportTypeOK
  <2> QED BY <1>0, <2>1, <2>3, <2>4, <2>5 DEF Inv, Twice
<1>2. ASSUME NEW s \in Settings, Configure(t, s)
      PROVE  Inv'
  <2>1. settings' = s /\ UNCHANGED <<requests, request, cache, fds, wire, op, submitted, answering, fault>>
    BY <1>2 DEF Configure
  <2>2. TransportTypeOK'
    BY <2>1 DEF Inv, TransportTypeOK
  <2> QED BY <2>1, <2>2 DEF Inv, Holds, Owned, Twice
<1>3. CASE EndRequest(t)
  <2>1. /\ request' = [request EXCEPT ![t] = 0]
        /\ UNCHANGED <<settings, requests, cache, fds, wire, op, submitted, answering, fault>>
    BY <1>3 DEF EndRequest
  <2>2. TransportTypeOK'
    BY <2>1 DEF Inv, TransportTypeOK
  <2> QED BY <2>1, <2>2 DEF Inv, Holds, Owned, Twice
<1> QED BY <1>1, <1>2, <1>3

\* A message of size z that is going to be sent from the buffer m.
Given(z, m) == [Outside EXCEPT !.pc = "socket", !.msg = submitted + 1, !.held = {m}, !.final = m,
                               !.size = z, !.left = z]

\* A message is freed, or is going to be sent from the one buffer it has.
LEMMA SubmitEffect ==
  ASSUME Inv, NEW t \in Thread, NEW size \in {Small, Large}, Submit(t, size)
  PROVE  /\ op[t].pc = "out" /\ fault = "none" /\ submitted' = submitted + 1
         /\ UNCHANGED <<settings, requests, request, cache, fds, wire, answering, fault>>
         /\ \/ Left(t, {})
            \/ \E z \in {Small, Large}, m \in {"msg", "packed"} :
                 /\ op' = [op EXCEPT ![t] = Given(z, m)]
                 /\ Given(z, m) \in Op /\ Given(z, m).pc = "socket" /\ Given(z, m).size = z
                 /\ Given(z, m).left = z /\ Given(z, m).held = {m} /\ Given(z, m).final = m
<1> DEFINE o == [Outside EXCEPT !.pc = "socket", !.msg = submitted + 1, !.held = {"msg"},
                                !.size = size, !.left = size]
<1>1. /\ op[t].pc = "out" /\ fault = "none" /\ submitted' = submitted + 1
      /\ UNCHANGED <<settings, requests, request, cache, fds, wire, answering, fault>>
  BY DEF Submit, At
<1>2. ASSUME NEW z \in {Small, Large}, NEW m \in {"msg", "packed"}
      PROVE  /\ Given(z, m) \in Op /\ Given(z, m).pc = "socket" /\ Given(z, m).size = z
             /\ Given(z, m).left = z /\ Given(z, m).held = {m} /\ Given(z, m).final = m
  <2>1. submitted + 1 \in Nat /\ z \in 0..2 /\ {m} \in SUBSET {"msg", "packed"}
    BY DEF Inv, TransportTypeOK, Small, Large
  <2>2. Outside \in Op
    BY OutsideTyped
  <2>3. Given(z, m) \in Op
    BY <2>1, <2>2 DEF Op, Given
  <2> QED BY <2>3 DEF Given, Outside
<1>3. CASE op' = [op EXCEPT ![t] = Freed(o, "msg")]
  <2>1. o.held = {"msg"}
    BY DEF Outside
  <2>2. Freed(o, "msg") = Leaving({})
    BY <2>1 DEF Freed, Leaving
  <2> QED BY <1>1, <1>3, <2>2, LeavingTyped, OpTyped DEF Left, Inv, TransportTypeOK
<1>4. CASE op' = [op EXCEPT ![t] = o]
  <2>1. [Outside EXCEPT !.pc = "socket", !.msg = submitted + 1, !.held = {"msg"},
                        !.size = size, !.left = size]
          = Given(size, "msg")
    <3> DEFINE a == [Outside EXCEPT !.pc = "socket", !.msg = submitted + 1, !.held = {"msg"},
                                    !.size = size, !.left = size]
               b == Given(size, "msg")
               Fields == {"pc", "msg", "size", "left", "held", "final", "path", "addr", "via", "fd"}
    <3>1. a = [f \in Fields |-> a[f]] /\ b = [f \in Fields |-> b[f]]
      BY DEF Given, Outside
    <3>2. /\ a.pc = b.pc /\ a.msg = b.msg /\ a.size = b.size /\ a.left = b.left /\ a.path = b.path
          /\ a.addr = b.addr /\ a.via = b.via /\ a.fd = b.fd
      BY DEF Given, Outside
    <3>4. a.held = b.held
      BY DEF Given, Outside
    <3>5. a.final = b.final
      BY DEF Given, Outside
    <3> HIDE DEF a, b
    <3>3. a = b
      BY <3>1, <3>2, <3>4, <3>5
    <3> QED BY <3>3 DEF a, b
  <2> QED BY <1>1, <1>2, <1>4, <2>1
<1>5. CASE op' = [op EXCEPT ![t] = [o EXCEPT !.size = Small, !.left = Small, !.held = {"packed"},
                                             !.final = "packed"]]
  <2>1. [o EXCEPT !.size = Small, !.left = Small, !.held = {"packed"}, !.final = "packed"]
          = Given(Small, "packed")
    BY DEF Given, Outside
  <2> QED BY <1>1, <1>2, <1>5, <2>1
<1> QED BY <1>3, <1>4, <1>5 DEF Submit

LEMMA SubmitKeeps ==
  ASSUME Inv, NEW t \in Thread, NEW size \in {Small, Large}, Submit(t, size)
  PROVE  Inv'
<1>1. /\ op[t].pc = "out" /\ fault = "none" /\ submitted' = submitted + 1
      /\ UNCHANGED <<settings, requests, request, cache, fds, wire, answering, fault>>
  BY SubmitEffect
<1>2. ASSUME op' \in [Thread -> Op] PROVE TransportTypeOK'
  BY <1>1, <1>2 DEF Inv, TransportTypeOK
<1>3. CASE Left(t, {})
  BY <1>1, <1>2, <1>3, LeftKeeps DEF Left, Wired
<1>4. ASSUME NEW z \in {Small, Large}, NEW m \in {"msg", "packed"},
             op' = [op EXCEPT ![t] = Given(z, m)], Given(z, m) \in Op, Given(z, m).pc = "socket",
             Given(z, m).size = z, Given(z, m).held = {m}, Given(z, m).final = m
      PROVE  Inv'
  <2>1. op' \in [Thread -> Op] /\ op'[t] = Given(z, m) /\ \A u \in Thread : u # t => op'[u] = op[u]
    BY <1>4, OpTyped DEF Inv, TransportTypeOK
  <2>2. Holds'
    BY <1>1, <1>4, <2>1 DEF Inv, Holds, Sending, Wired
  <2>3. Owned'
    BY <1>1, <2>1 DEF Inv, Owned, Wired, TransportTypeOK
  <2> QED BY <1>1, <1>2, <2>1, <2>2, <2>3 DEF Inv, Twice
<1> QED BY <1>3, <1>4, SubmitEffect
-----------------------------------------------------------------------------
\* The record of a socket that is opened for the thread t.
Opened(t) == [NoSocket EXCEPT !.msg = op[t].msg, !.size = op[t].size, !.asked = settings.path]

\* The place and the fields of a thread that got a socket.
WithSocket(t, n, pc) ==
  [op[t] EXCEPT !.pc = pc, !.path = settings.path, !.addr = Unix, !.via = "own", !.fd = n]

LEMMA SocketEffect ==
  ASSUME Inv, NEW t \in Thread, Socket(t),
         ~(Goto(t, "free") /\ UNCHANGED <<fds, wire>>)
  PROVE  \E n \in Fd, pc \in {"connect", "lookup"} :
           /\ op[t].pc = "socket" /\ fault = "none"
           /\ fds[n] = Free /\ fds' = [fds EXCEPT ![n] = t]
           /\ wire' = [wire EXCEPT ![t] = Opened(t)] /\ Opened(t) \in Socket_
           /\ op' = [op EXCEPT ![t] = WithSocket(t, n, pc)] /\ WithSocket(t, n, pc) \in Op
           /\ (pc = "connect" => settings.path.host = Unix)
           /\ UNCHANGED <<settings, requests, request, cache, submitted, answering, fault>>
<1>2. PICK n \in Fd :
        /\ Lowest(n) /\ fds' = [fds EXCEPT ![n] = t] /\ wire' = [wire EXCEPT ![t] = Opened(t)]
        /\ op' = [op EXCEPT ![t].pc = IF settings.path.host = Unix THEN "connect" ELSE "lookup",
                            ![t].path = settings.path, ![t].addr = Unix, ![t].via = "own",
                            ![t].fd = n]
  BY DEF Socket, Opened, Goto
<1> DEFINE pc == IF settings.path.host = Unix THEN "connect" ELSE "lookup"
<1>3. settings.path \in Path /\ op[t].pc = "socket" /\ fault = "none"
  BY ConstantsAssumption DEF Inv, TransportTypeOK, Settings, Socket, At
<1>4. Opened(t) \in Socket_
  <2>1. op[t].size \in {Small, Large} /\ op[t].msg \in Nat
    BY <1>3, OpFields DEF Inv, Holds, Sending, Op
  <2>2. NoSocket \in Socket_
    BY DEF NoSocket, Socket_, NoPeer, Peer, NoPath, Path, Via, Small
  <2> QED BY <1>3, <2>1, <2>2 DEF Opened, Socket_
<1>6. WithSocket(t, n, pc) \in Op
  <2>1. op[t] \in Op /\ pc \in {"connect", "lookup"} /\ n \in Fd
    BY OpFields
  <2> HIDE DEF pc
  <2> QED BY <1>3, <2>1 DEF WithSocket, Op, Via
<1>7. op' = [op EXCEPT ![t] = WithSocket(t, n, pc)]
  BY <1>2 DEF WithSocket
<1> QED BY <1>2, <1>3, <1>4, <1>6, <1>7 DEF Lowest, Socket

LEMMA SocketKeeps ==
  ASSUME Inv, NEW t \in Thread, Socket(t)
  PROVE  Inv'
<1>1. CASE Goto(t, "free") /\ UNCHANGED <<fds, wire>>
  <2>1. /\ op[t].pc = "socket" /\ fault = "none"
        /\ UNCHANGED <<settings, requests, request, cache, fds, wire, submitted, answering, fault>>
    BY <1>1 DEF Socket, At
  <2> QED BY <1>1, <2>1, GotoKeeps DEF Places, Sending, Wired
<1>2. CASE ~(Goto(t, "free") /\ UNCHANGED <<fds, wire>>)
  <2>1. PICK n \in Fd, pc \in {"connect", "lookup"} :
           /\ op[t].pc = "socket" /\ fault = "none"
           /\ fds[n] = Free /\ fds' = [fds EXCEPT ![n] = t]
           /\ wire' = [wire EXCEPT ![t] = Opened(t)] /\ Opened(t) \in Socket_
           /\ op' = [op EXCEPT ![t] = WithSocket(t, n, pc)] /\ WithSocket(t, n, pc) \in Op
           /\ UNCHANGED <<settings, requests, request, cache, submitted, answering, fault>>
    BY <1>2, SocketEffect
  <2>2. /\ wire \in [Thread -> Socket_] /\ op \in [Thread -> Op] /\ fds \in [Fd -> {Free} \cup Thread]
        /\ op[t] \in Op
    BY OpFields DEF Inv, TransportTypeOK
  <2>4. /\ op' \in [Thread -> Op] /\ op'[t] = WithSocket(t, n, pc)
        /\ \A u \in Thread : u # t => op'[u] = op[u]
    BY <2>1, <2>2, OpTyped
  <2>5. /\ op'[t].pc = pc /\ op'[t].fd = n
        /\ op'[t].size = op[t].size /\ op'[t].held = op[t].held /\ op'[t].final = op[t].final
    BY <2>2, <2>4 DEF WithSocket, Op
  <2>6. fds' \in [Fd -> {Free} \cup Thread] /\ wire' \in [Thread -> Socket_]
    BY <2>1, <2>2
  <2>7. TransportTypeOK'
    BY <2>1, <2>4, <2>6 DEF Inv, TransportTypeOK
  <2>8. Holds'
    BY <2>1, <2>4, <2>5 DEF Inv, Holds, Sending, Wired
  <2>9. Owned'
    <3> SUFFICES ASSUME NEW m \in Fd, fds'[m] # Free
                 PROVE  op'[fds'[m]].fd = m /\ op'[fds'[m]].pc \in Wired
      BY DEF Owned
    <3>1. CASE m = n
      BY <3>1, <2>1, <2>2, <2>5 DEF Wired
    <3>2. CASE m # n
      <4>1. fds'[m] = fds[m] /\ fds[m] \in Thread
        BY <3>2, <2>1, <2>2
      <4>2. op[fds[m]].fd = m /\ op[fds[m]].pc \in Wired
        BY <4>1 DEF Inv, Owned
      <4>3. fds[m] # t
        BY <4>2, <2>1 DEF Wired
      <4> QED BY <4>1, <4>2, <4>3, <2>4
    <3> QED BY <3>1, <3>2
  <2> QED BY <2>1, <2>7, <2>8, <2>9 DEF Inv, Twice
<1> QED BY <1>1, <1>2

LEMMA ConnectKeeps ==
  ASSUME Inv, NEW t \in Thread, Connect(t)
  PROVE  Inv'
<1> DEFINE s == fds[op[t].fd]
<1>1. /\ op[t].pc = "connect" /\ fault = "none"
      /\ UNCHANGED <<settings, requests, request, cache, fds, submitted, answering, fault>>
  BY DEF Connect, At
<1>2. s \in {Free} \cup Thread
  BY <1>1, OpFields DEF Wired
<1>3. CASE Goto(t, "failed") /\ UNCHANGED wire
  BY <1>1, <1>3, GotoKeeps DEF Places, Sending, Wired
<1>4. CASE /\ s # Free /\ Goto(t, "write")
           /\ wire' = [wire EXCEPT ![s].to = [host |-> op[t].addr, port |-> op[t].path.port],
                                   ![s].linked = TRUE, ![s].via = op[t].via]
  <2> DEFINE r == [wire[s] EXCEPT !.to = [host |-> op[t].addr, port |-> op[t].path.port],
                                  !.linked = TRUE, !.via = op[t].via]
  <2>1. wire[s] \in Socket_ /\ s \in Thread
    BY <1>2, <1>4, OpFields
  <2>2. op[t].addr \in Name \cup Numeric \cup {Unix} /\ op[t].path.port \in Nat /\ op[t].via \in Via
    BY OpFields DEF Op, Path
  <2>3. r \in Socket_
    BY <2>1, <2>2 DEF Socket_, Peer
  <2>4. wire' = [wire EXCEPT ![s] = r]
    BY <1>4
  <2> HIDE DEF r, s
  <2>5. wire' \in [Thread -> Socket_]
    BY <2>1, <2>3, <2>4 DEF Inv, TransportTypeOK
  <2>6. Moved(t, "write")
    BY <1>4, GotoMoves DEF Inv, TransportTypeOK, Places, Sending, Wired
  <2>7. TransportTypeOK'
    BY <1>1, <2>5, <2>6 DEF Moved, Inv, TransportTypeOK
  <2> QED BY <1>1, <2>6, <2>7, MovedKeeps DEF Places, Sending, Wired
<1> QED BY <1>3, <1>4 DEF Connect

\* A socket that took n more of a message, and the thread that wrote it.
Taken(t, n) == [wire[fds[op[t].fd]] EXCEPT !.got = @ \o [i \in 1..n |-> op[t].msg]]
Wrote(t, n) ==
  [op[t] EXCEPT !.left = @ - n, !.pc = IF n = op[t].left THEN "close" ELSE "write"]
Cut(t) == [wire[t] EXCEPT !.cut = TRUE]

LEMMA WriteEffect ==
  ASSUME Inv, NEW t \in Thread, Write(t)
  PROVE  LET s == fds[op[t].fd] IN
         /\ op[t].pc = "write" /\ fault = "none"
         /\ UNCHANGED <<settings, requests, request, cache, fds, submitted, answering, fault>>
         /\ \/ /\ Goto(t, "close") /\ Cut(t) \in Socket_
               /\ wire' = [wire EXCEPT ![t] = Cut(t)]
            \/ \E n \in Nat \ {0} :
                 /\ s \in Thread /\ wire[s].linked /\ n <= op[t].left
                 /\ wire' = [wire EXCEPT ![s] = Taken(t, n)] /\ Taken(t, n) \in Socket_
                 /\ Taken(t, n).got = wire[s].got \o [i \in 1..n |-> op[t].msg]
                 /\ op' = [op EXCEPT ![t] = Wrote(t, n)] /\ Wrote(t, n) \in Op
<1> DEFINE s == fds[op[t].fd]
<1>1. /\ op[t].pc = "write" /\ fault = "none"
      /\ UNCHANGED <<settings, requests, request, cache, fds, submitted, answering, fault>>
  BY DEF Write, At
<1>2. s \in {Free} \cup Thread /\ op[t] \in Op /\ \A u \in Thread : wire[u] \in Socket_
  BY <1>1, OpFields DEF Wired
<1>4. CASE Goto(t, "close") /\ wire' = [wire EXCEPT ![t].cut = TRUE]
  <2>1. Cut(t) \in Socket_
    BY <1>2 DEF Cut, Socket_
  <2> QED BY <1>1, <1>2, <1>4, <2>1 DEF Cut
<1>5. ASSUME NEW n \in 1..op[t].left, s # Free, wire[s].linked,
             wire' = [wire EXCEPT ![s].got = @ \o [i \in 1..n |-> op[t].msg]],
             op' = [op EXCEPT ![t].left = @ - n, ![t].pc = IF n = op[t].left THEN "close" ELSE "write"]
      PROVE  /\ s \in Thread /\ wire[s].linked /\ n <= op[t].left /\ n \in Nat \ {0}
             /\ wire' = [wire EXCEPT ![s] = Taken(t, n)] /\ Taken(t, n) \in Socket_
             /\ Taken(t, n).got = wire[s].got \o [i \in 1..n |-> op[t].msg]
             /\ op' = [op EXCEPT ![t] = Wrote(t, n)] /\ Wrote(t, n) \in Op
  <2>1. s \in Thread /\ wire[s] \in Socket_
    BY <1>2, <1>5
  <2>2. op[t].left \in 0..2 /\ op[t].msg \in Nat
    BY <1>2 DEF Op
  <2>3. n \in Nat \ {0} /\ n <= op[t].left /\ op[t].left - n \in 0..2
    BY <2>2
  <2>4. wire[s].got \in Seq(Nat)
    BY <2>1 DEF Socket_
  <2>5. [i \in 1..n |-> op[t].msg] \in Seq(Nat)
    BY <2>2, <2>3
  <2>6. wire[s].got \o [i \in 1..n |-> op[t].msg] \in Seq(Nat)
    BY <2>4, <2>5
  <2>7. Taken(t, n) \in Socket_ /\ Taken(t, n).got = wire[s].got \o [i \in 1..n |-> op[t].msg]
    BY <2>1, <2>6 DEF Taken, Socket_
  <2>8. Wrote(t, n) \in Op
    BY <1>2, <2>3 DEF Wrote, Op
  <2> QED BY <1>5, <2>1, <2>3, <2>7, <2>8 DEF Taken, Wrote
<1> QED BY <1>1, <1>2, <1>4, <1>5 DEF Write

LEMMA WriteKeeps ==
  ASSUME Inv, NEW t \in Thread, Write(t)
  PROVE  Inv'
<1> DEFINE s == fds[op[t].fd]
<1>1. /\ op[t].pc = "write" /\ fault = "none" /\ wire \in [Thread -> Socket_]
      /\ UNCHANGED <<settings, requests, request, cache, fds, submitted, answering, fault>>
  BY WriteEffect DEF Inv, TransportTypeOK
<1>2. CASE Goto(t, "close") /\ Cut(t) \in Socket_ /\ wire' = [wire EXCEPT ![t] = Cut(t)]
  <2>1. wire' \in [Thread -> Socket_]
    BY <1>1, <1>2
  <2>2. Moved(t, "close")
    BY <1>2, GotoMoves DEF Inv, TransportTypeOK, Places, Sending, Wired
  <2>3. TransportTypeOK'
    BY <1>1, <2>1, <2>2 DEF Moved, Inv, TransportTypeOK
  <2> QED BY <1>1, <2>2, <2>3, MovedKeeps DEF Places, Sending, Wired
<1>3. ASSUME NEW n \in Nat \ {0}, s \in Thread,
             wire' = [wire EXCEPT ![s] = Taken(t, n)], Taken(t, n) \in Socket_,
             op' = [op EXCEPT ![t] = Wrote(t, n)], Wrote(t, n) \in Op
      PROVE  Inv'
  <2> DEFINE pc == IF n = op[t].left THEN "close" ELSE "write"
  <2>1. wire' \in [Thread -> Socket_]
    BY <1>1, <1>3
  <2>2. op[t] \in Op /\ op \in [Thread -> Op]
    BY OpFields DEF Inv, TransportTypeOK
  <2>3. /\ op' \in [Thread -> Op] /\ op'[t] = Wrote(t, n)
        /\ \A u \in Thread : u # t => op'[u] = op[u]
    BY <1>3, <2>2, OpTyped
  <2>4. Moved(t, pc)
    BY <2>2, <2>3 DEF Moved, Wrote, Op
  <2>5. TransportTypeOK'
    BY <1>1, <2>1, <2>3 DEF Inv, TransportTypeOK
  <2>6. pc \in {"close", "write"}
    OBVIOUS
  <2> HIDE DEF pc
  <2> QED BY <1>1, <2>4, <2>5, <2>6, MovedKeeps DEF Places, Sending, Wired
<1> QED BY <1>2, <1>3, WriteEffect
-----------------------------------------------------------------------------
LEMMA InvInit == TInit => Inv
<1> SUFFICES ASSUME TInit PROVE Inv
  OBVIOUS
<1>1. TransportTypeOK
  <2>1. EmptyCache \in [set : BOOLEAN, host : Name \cup Numeric \cup {Unix}, port : Nat,
                        addr : Name \cup Numeric \cup {Unix}, owner : Nat]
    BY DEF EmptyCache
  <2>2. op \in [Thread -> Op]
    BY OutsideTyped DEF TInit
  <2>3. wire \in [Thread -> Socket_]
    <3>1. NoSocket \in Socket_
      BY DEF NoSocket, Socket_, NoPeer, Peer, NoPath, Path, Via, Small
    <3> QED BY <3>1 DEF TInit
  <2> QED BY <2>1, <2>2, <2>3 DEF TInit, TransportTypeOK
<1> QED BY <1>1 DEF TInit, Inv, Holds, Owned, Twice, Outside, Sending, Wired

LEMMA InvStep == Inv /\ [Step]_tvars => Inv'
<1> SUFFICES ASSUME Inv, [Step]_tvars PROVE Inv'
  OBVIOUS
<1>1. ASSUME NEW t \in Thread, Inside(t) PROVE Inv'
  BY <1>1, MovingKeeps, SocketKeeps, ConnectKeeps, WriteKeeps DEF Inside
<1>2. CASE AgentTurns
  <2>1. answering' \in BOOLEAN /\ UNCHANGED <<settings, requests, request, cache, fds, wire, op, submitted, fault>>
    BY <1>2 DEF AgentTurns
  <2>2. TransportTypeOK'
    BY <2>1 DEF Inv, TransportTypeOK
  <2> QED BY <2>1, <2>2 DEF Inv, Holds, Owned, Twice
<1>3. CASE UNCHANGED tvars
  <2>1. TransportTypeOK'
    BY <1>3 DEF tvars, Inv, TransportTypeOK
  <2> QED BY <1>3, <2>1 DEF tvars, Inv, Holds, Owned, Twice
<1> QED BY <1>1, <1>2, <1>3, RequestKeeps, SubmitKeeps DEF Step

LEMMA TNextSteps == [TNext]_tvars => [Step]_tvars
BY DEF TNext, Step

\* The inductive invariant holds of every behaviour.
LEMMA InvHolds == TSpec => []Inv
<1> QED BY InvInit, InvStep, TNextSteps, PTL DEF TSpec

\* For any number of threads, messages, requests and descriptors, the globals
\* and the arguments have their types and a descriptor is one of a socket.
THEOREM TransportTyped == TSpec => []TransportTypeOK
<1>1. Inv => TransportTypeOK
  BY DEF Inv
<1> QED BY <1>1, InvHolds, PTL

\* For any number of threads and whatever fails, every way out of the send
\* frees the buffer it holds, the message or its packed copy, and only the
\* early return of Fallback frees one that is free already.
THEOREM MessagesFreedOnce == TSpec => []FreedOnce
<1>1. Inv => FreedOnce
  BY DEF Inv, Holds, Twice, FreedOnce, Sending, Wired
<1> QED BY <1>1, InvHolds, PTL

\* For any number of threads and whatever fails, every way out of the send
\* closes its socket, also when another thread has got its number meanwhile.
THEOREM SocketsClosed == TSpec => []NoSocketLeak
<1>1. Inv => NoSocketLeak
  BY DEF Inv, Owned, NoSocketLeak, Wired
<1> QED BY <1>1, InvHolds, PTL
-----------------------------------------------------------------------------
(* One thread, whose socket nobody else closes or gets.                    *)

Own(x)   == (\A i \in DOMAIN wire[x].got : wire[x].got[i] = wire[x].msg) /\ Len(wire[x].got) <= wire[x].size
Whole(x) == wire[x].linked /\ ~wire[x].cut => Len(wire[x].got) = wire[x].size

Asking == {"lookup", "store", "fallback", "copy", "connect"}

\* What the socket of the thread x has carried, by the place of x.
Alone(x) ==
  /\ Own(x) /\ (op[x].pc # "write" => Whole(x))
  /\ op[x].pc \in Asking \cup {"socket"} => op[x].left = op[x].size
  /\ op[x].pc \in Asking \cup {"write"} => fds[op[x].fd] = x
  /\ op[x].pc \in Wired => wire[x].msg = op[x].msg /\ wire[x].size = op[x].size
  /\ op[x].pc \in Asking => ~wire[x].linked /\ wire[x].got = <<>>
  /\ op[x].pc = "write" => Len(wire[x].got) + op[x].left = op[x].size

LEMMA AloneGoto ==
  ASSUME NEW x \in Thread, Inv, Alone(x), NEW pc \in Places, wire' = wire,
         \/ Goto(x, pc)
         \/ pc = "connect" /\ \E a \in Hosts, via \in Via : Addressed(x, a, via),
         fds' = fds \/ pc \notin Asking,
         \/ op[x].pc \in Asking /\ pc \in Asking
         \/ op[x].pc \in Asking /\ pc \in {"failed", "free"}
         \/ op[x].pc \in {"failed", "close"} /\ pc \in {"close", "free"}
         \/ op[x].pc = "socket" /\ pc = "free"
         \/ op[x].pc \notin Sending /\ pc \notin Sending
  PROVE  Alone(x)'
<1>1. /\ Moved(x, pc) /\ op'[x].left = op[x].left
  BY GotoMoves, AddressedMoves DEF Inv, TransportTypeOK, Hosts
<1> QED BY <1>1 DEF Alone, Own, Whole, Moved, Asking, Wired, Sending, Places

LEMMA AloneLeft ==
  ASSUME NEW x \in Thread, Alone(x), wire' = wire, NEW h \in SUBSET {"msg", "packed"}, Left(x, h),
         op[x].pc # "write"
  PROVE  Alone(x)'
<1>1. op'[x].pc = "out"
  BY LeavingTyped DEF Left
<1> QED BY <1>1 DEF Alone, Own, Whole, Asking, Wired

LEMMA AloneMoving ==
  ASSUME NEW x \in Thread, Inv, Alone(x),
         \/ PreLookup(x) \/ Resolve(x) \/ PreStore(x) \/ Lookup(x) \/ Store(x) \/ Fallback(x)
         \/ Copy(x) \/ NoAddress(x) \/ CloseFailed(x) \/ Close(x) \/ FreeMessage(x)
  PROVE  Alone(x)'
<1> USE DEF Places, Sending, Wired, Asking
<1>0. ASSUME NEW what, Fault(what) PROVE Alone(x)'
  BY <1>0 DEF Fault, Alone, Own, Whole
<1>r. ASSUME ReturnOf(x), wire' = wire, op[x].pc # "write" PROVE Alone(x)'
  <2>1. op[x].held \in SUBSET {"msg", "packed"}
    BY OpFields DEF Op
  <2> QED BY <1>r, <2>1, ReturnMoves, AloneLeft DEF Inv, TransportTypeOK
<1>m. ASSUME NEW m, op' = [op EXCEPT ![x] = Freed(op[x], m)], wire' = wire, op[x].pc # "write"
      PROVE  Alone(x)'
  <2>1. op[x].held \ {m} \in SUBSET {"msg", "packed"}
    BY OpFields DEF Op
  <2> QED BY <1>m, <2>1, FreedMoves, AloneLeft DEF Inv, TransportTypeOK
<1>v. {"own", "cache", "stale", "copy"} \subseteq Via
  BY DEF Via
<1>1. CASE PreLookup(x)
  BY <1>1, <1>r, AloneGoto DEF PreLookup, At
<1>2. CASE Resolve(x)
  BY <1>2, <1>r, AloneGoto DEF Resolve, At
<1>3. CASE PreStore(x)
  BY <1>0, <1>3, <1>r DEF PreStore, At
<1>4. CASE Lookup(x)
  BY <1>4, <1>v, AloneGoto, OpFields DEF Lookup, At
<1>5. CASE Store(x)
  BY <1>0, <1>5, <1>v, AloneGoto, OpFields DEF Store, At
<1>6. CASE Fallback(x)
  BY <1>0, <1>6, <1>m, AloneGoto DEF Fallback, At
<1>7. CASE Copy(x)
  BY <1>7, <1>v, AloneGoto, OpFields DEF Copy, At
<1>8. CASE NoAddress(x)
  BY <1>8, AloneGoto DEF NoAddress, At
<1>9. CASE CloseFailed(x)
  BY <1>9, AloneGoto DEF CloseFailed, At
<1>10. CASE Close(x)
  BY <1>10, AloneGoto DEF Close, At
<1>11. CASE FreeMessage(x)
  BY <1>0, <1>11, <1>m DEF FreeMessage, At
<1> QED BY <1>1, <1>2, <1>3, <1>4, <1>5, <1>6, <1>7, <1>8, <1>9, <1>10, <1>11

LEMMA AloneRequest ==
  ASSUME NEW x \in Thread, Inv, Alone(x),
         \/ \E s \in Settings, profiled \in BOOLEAN : BeginRequest(x, s, profiled)
         \/ \E s \in Settings : Configure(x, s)
         \/ EndRequest(x)
         \/ \E size \in {Small, Large} : Submit(x, size)
  PROVE  Alone(x)'
<1>0. op \in [Thread -> Op]
  BY DEF Inv, TransportTypeOK
<1>1. wire' = wire /\ fds' = fds /\ op[x].pc = "out"
  BY DEF BeginRequest, Configure, EndRequest, Submit, At
<1>2. \/ op' = op
      \/ op'[x].pc \in {"rlookup", "out"}
      \/ op'[x].pc = "socket" /\ op'[x].left = op'[x].size
  <2>1. ASSUME NEW s, NEW profiled, BeginRequest(x, s, profiled)
        PROVE  op' = op \/ op'[x].pc = "rlookup"
    <3>1. CASE op' = [op EXCEPT ![x].pc = "rlookup", ![x].path = s.path]
      <4>1. op'[x] = [op[x] EXCEPT !.pc = "rlookup", !.path = s.path]
        BY <1>0, <3>1
      <4> QED BY <4>1, OpFields DEF Op
    <3> QED BY <2>1, <3>1 DEF BeginRequest
  <2>2. ASSUME NEW size \in {Small, Large}, Submit(x, size)
        PROVE  op'[x].pc = "out" \/ (op'[x].pc = "socket" /\ op'[x].left = op'[x].size)
    <3>1. CASE Left(x, {})
      BY <3>1, LeavingTyped DEF Left
    <3>2. ASSUME NEW z, NEW m, op' = [op EXCEPT ![x] = Given(z, m)], Given(z, m).pc = "socket",
                 Given(z, m).size = z, Given(z, m).left = z
          PROVE  op'[x].pc = "socket" /\ op'[x].left = op'[x].size
      BY <1>0, <3>2
    <3> QED BY <2>2, <3>1, <3>2, SubmitEffect
  <2> QED BY <2>1, <2>2 DEF Configure, EndRequest
<1>3. op'[x].pc \notin Wired /\ op'[x].pc # "write"
  BY <1>1, <1>2 DEF Wired
<1> QED BY <1>1, <1>2, <1>3 DEF Alone, Own, Whole, Asking, Wired

LEMMA AloneSocket ==
  ASSUME NEW x \in Thread, Inv, Alone(x), Socket(x)
  PROVE  Alone(x)'
<1>1. CASE Goto(x, "free") /\ UNCHANGED <<fds, wire>>
  BY <1>1, AloneGoto DEF Socket, At, Places, Sending, Wired, Asking
<1>2. CASE ~(Goto(x, "free") /\ UNCHANGED <<fds, wire>>)
  <2>1. PICK n \in Fd, pc \in {"connect", "lookup"} :
           /\ op[x].pc = "socket"
           /\ fds' = [fds EXCEPT ![n] = x]
           /\ wire' = [wire EXCEPT ![x] = Opened(x)]
           /\ op' = [op EXCEPT ![x] = WithSocket(x, n, pc)]
    BY <1>2, SocketEffect
  <2>2. /\ op[x] \in Op /\ op'[x] = WithSocket(x, n, pc) /\ wire'[x] = Opened(x) /\ fds'[n] = x
    BY <2>1, OpFields DEF Inv, TransportTypeOK
  <2>3. /\ op'[x].pc = pc /\ op'[x].fd = n /\ op'[x].msg = op[x].msg
        /\ op'[x].size = op[x].size /\ op'[x].left = op[x].left
    BY <2>2 DEF WithSocket, Op
  <2>4. /\ Opened(x).msg = op[x].msg /\ Opened(x).size = op[x].size /\ ~Opened(x).linked
        /\ Opened(x).got = <<>> /\ op[x].size \in Nat
    BY <2>2 DEF Opened, NoSocket, Op
  <2>5. Own(x)' /\ Whole(x)'
    BY <2>2, <2>4 DEF Own, Whole
  <2>6. op[x].left = op[x].size
    BY <2>1 DEF Alone
  <2> QED BY <2>1, <2>2, <2>3, <2>4, <2>5, <2>6 DEF Alone, Asking, Wired
<1> QED BY <1>1, <1>2

LEMMA AloneConnect ==
  ASSUME NEW x \in Thread, Inv, Alone(x), Connect(x)
  PROVE  Alone(x)'
<1>1. op[x].pc = "connect" /\ fds' = fds /\ fds[op[x].fd] = x
  BY DEF Connect, At, Alone, Asking
<1>2. /\ op[x].size \in Nat /\ op[x].left = op[x].size /\ wire[x].got = <<>>
      /\ wire[x] \in Socket_ /\ wire \in [Thread -> Socket_]
  <2>1. op[x].size \in {Small, Large} /\ {Small, Large} \subseteq Nat
    BY <1>1 DEF Inv, Holds, Sending, Wired, Small, Large
  <2>2. op[x].left = op[x].size /\ wire[x].got = <<>>
    BY <1>1 DEF Alone, Asking
  <2> QED BY <2>1, <2>2, OpFields DEF Inv, TransportTypeOK
<1>3. CASE Goto(x, "failed") /\ UNCHANGED wire
  BY <1>1, <1>3, AloneGoto DEF Places, Sending, Wired, Asking
<1>4. CASE /\ Goto(x, "write")
           /\ wire' = [wire EXCEPT ![x].to = [host |-> op[x].addr, port |-> op[x].path.port],
                                   ![x].linked = TRUE, ![x].via = op[x].via]
  <2>1. wire'[x] = [wire[x] EXCEPT !.to = [host |-> op[x].addr, port |-> op[x].path.port],
                                   !.linked = TRUE, !.via = op[x].via]
    BY <1>2, <1>4
  <2>2. wire'[x].msg = wire[x].msg /\ wire'[x].size = wire[x].size /\ wire'[x].got = wire[x].got
    BY <1>2, <2>1 DEF Socket_
  <2>3. Moved(x, "write") /\ op'[x].left = op[x].left
    BY <1>4, GotoMoves DEF Inv, TransportTypeOK, Places, Sending, Wired
  <2> QED BY <1>1, <1>2, <2>2, <2>3 DEF Alone, Own, Moved, Asking, Wired
<1> QED BY <1>1, <1>3, <1>4 DEF Connect

\* A sequence of one value with more of that value.
LEMMA Repeated ==
  ASSUME NEW g \in Seq(Nat), NEW m \in Nat, NEW n \in Nat \ {0}, \A i \in DOMAIN g : g[i] = m
  PROVE  LET h == g \o [i \in 1..n |-> m] IN
           Len(h) = Len(g) + n /\ \A i \in DOMAIN h : h[i] = m
<1> DEFINE more == [i \in 1..n |-> m]
<1>1. more \in Seq(Nat) /\ Len(more) = n /\ \A i \in 1..n : more[i] = m
  OBVIOUS
<1> HIDE DEF more
<1>2. /\ g \o more \in Seq(Nat) /\ Len(g \o more) = Len(g) + n
      /\ \A i \in 1..(Len(g) + n) : (g \o more)[i] = IF i <= Len(g) THEN g[i] ELSE more[i - Len(g)]
  BY <1>1, ConcatProperties
<1>3. Len(g) \in Nat /\ DOMAIN g = 1..Len(g) /\ DOMAIN (g \o more) = 1..(Len(g) + n)
  BY <1>2, LenProperties
<1>4. \A i \in 1..(Len(g) + n) : (g \o more)[i] = m
  <2> SUFFICES ASSUME NEW i \in 1..(Len(g) + n) PROVE (g \o more)[i] = m
    OBVIOUS
  <2>1. CASE i <= Len(g)
    <3>1. (g \o more)[i] = g[i] /\ i \in DOMAIN g
      BY <1>2, <1>3, <2>1
    <3> QED BY <3>1
  <2>2. CASE ~(i <= Len(g))
    <3>1. i - Len(g) \in 1..n
      BY <1>3, <2>2
    <3>2. (g \o more)[i] = more[i - Len(g)]
      BY <1>2, <2>2
    <3> QED BY <1>1, <3>1, <3>2
  <2> QED BY <2>1, <2>2
<1> QED BY <1>2, <1>3, <1>4 DEF more

LEMMA AloneWrite ==
  ASSUME NEW x \in Thread, Inv, Alone(x), Write(x)
  PROVE  Alone(x)'
<1>1. /\ op[x].pc = "write" /\ fds' = fds /\ fds[op[x].fd] = x /\ wire \in [Thread -> Socket_]
  BY WriteEffect DEF Alone, Inv, TransportTypeOK
<1>2. /\ Len(wire[x].got) + op[x].left = op[x].size /\ op[x].size \in Nat /\ op[x].left \in Nat
      /\ wire[x].msg = op[x].msg /\ wire[x].size = op[x].size
      /\ wire[x].got \in Seq(Nat) /\ op[x] \in Op /\ wire[x] \in Socket_
  <2>1. op[x].size \in Nat /\ op[x].left \in Nat
    BY OpFields DEF Op
  <2> QED BY <1>1, <2>1, OpFields DEF Alone, Wired, Socket_
<1>3. CASE Goto(x, "close") /\ wire' = [wire EXCEPT ![x] = Cut(x)]
  <2>1. wire'[x] = Cut(x)
    BY <1>1, <1>3
  <2>2. Cut(x).msg = wire[x].msg /\ Cut(x).size = wire[x].size /\ Cut(x).got = wire[x].got /\ Cut(x).cut
    BY <1>2 DEF Cut, Socket_
  <2>3. Moved(x, "close")
    BY <1>3, GotoMoves DEF Inv, TransportTypeOK, Places, Sending, Wired
  <2>4. Own(x)' /\ Whole(x)'
    BY <2>1, <2>2 DEF Alone, Own, Whole
  <2> QED BY <1>2, <2>1, <2>2, <2>3, <2>4 DEF Alone, Moved, Asking, Wired
<1>4. ASSUME NEW n \in Nat \ {0}, n <= op[x].left,
             wire' = [wire EXCEPT ![x] = Taken(x, n)],
             Taken(x, n).got = wire[x].got \o [i \in 1..n |-> op[x].msg],
             op' = [op EXCEPT ![x] = Wrote(x, n)]
      PROVE  Alone(x)'
  <2>1. wire'[x] = Taken(x, n)
    BY <1>1, <1>4
  <2>2. Taken(x, n).msg = wire[x].msg /\ Taken(x, n).size = wire[x].size
    BY <1>1, <1>2 DEF Taken, Socket_
  <2>3. /\ op'[x].pc = IF n = op[x].left THEN "close" ELSE "write"
        /\ op'[x].left = op[x].left - n /\ op'[x].msg = op[x].msg /\ op'[x].size = op[x].size
        /\ op'[x].fd = op[x].fd
    <3>1. op'[x] = Wrote(x, n)
      BY <1>4 DEF Inv, TransportTypeOK
    <3> QED BY <1>2, <3>1 DEF Wrote, Op
  <2>4. \A i \in DOMAIN wire[x].got : wire[x].got[i] = op[x].msg
    BY <1>1, <1>2 DEF Alone, Own
  <2>5. /\ Len(Taken(x, n).got) = Len(wire[x].got) + n
        /\ \A i \in DOMAIN Taken(x, n).got : Taken(x, n).got[i] = op[x].msg
    <3>1. op[x].msg \in Nat
      BY <1>2 DEF Op
    <3> DEFINE g == wire[x].got
               h == g \o [i \in 1..n |-> op[x].msg]
    <3>2. g \in Seq(Nat) /\ \A i \in DOMAIN g : g[i] = op[x].msg
      BY <1>2, <2>4
    <3> HIDE DEF g
    <3>3. Len(h) = Len(g) + n /\ \A i \in DOMAIN h : h[i] = op[x].msg
      BY <3>1, <3>2, Repeated
    <3>4. Taken(x, n).got = h
      BY <1>4 DEF g
    <3> HIDE DEF h
    <3> QED BY <3>3, <3>4 DEF g
  <2>6. Len(wire[x].got) \in Nat
    BY <1>2, LenProperties
  <2>7. Own(x)'
    <3>1. Len(Taken(x, n).got) <= op[x].size
      BY SMTT(30), <1>2, <1>4, <2>5, <2>6
    <3> QED BY <1>2, <2>1, <2>2, <2>3, <2>5, <3>1 DEF Own
  <2>8. Len(Taken(x, n).got) + (op[x].left - n) = op[x].size
    BY SMTT(30), <1>2, <2>5, <2>6
  <2>9. CASE n = op[x].left
    <3>1. Len(Taken(x, n).got) = op[x].size
      BY <1>2, <2>5, <2>6, <2>9
    <3>2. Whole(x)'
      BY <1>2, <2>1, <2>2, <3>1 DEF Whole
    <3> QED BY <1>2, <2>1, <2>2, <2>3, <2>7, <2>9, <3>2 DEF Alone, Asking, Wired
  <2>10. CASE n # op[x].left
    BY <1>1, <1>2, <2>1, <2>2, <2>3, <2>7, <2>8, <2>10 DEF Alone, Asking, Wired
  <2> QED BY <2>9, <2>10
<1> QED BY <1>1, <1>3, <1>4, WriteEffect

LEMMA AloneStep ==
  ASSUME NEW x \in Thread, Thread = {x}
  PROVE  Inv /\ Alone(x) /\ [Step]_tvars => Alone(x)'
<1> SUFFICES ASSUME Inv, Alone(x), [Step]_tvars PROVE Alone(x)'
  OBVIOUS
<1>1. CASE Inside(x)
  BY <1>1, AloneMoving, AloneSocket, AloneConnect, AloneWrite DEF Inside
<1>2. CASE AgentTurns
  BY <1>2 DEF AgentTurns, Alone, Own, Whole
<1>3. CASE UNCHANGED tvars
  BY <1>3 DEF tvars, Alone, Own, Whole
<1> QED BY <1>1, <1>2, <1>3, AloneRequest DEF Step

LEMMA AloneInit ==
  ASSUME NEW x \in Thread, TInit
  PROVE  Alone(x)
BY DEF TInit, Alone, Own, Whole, Outside, NoSocket, Asking, Wired

LEMMA AloneWhole ==
  ASSUME NEW x \in Thread, Thread = {x}, Inv, Alone(x)
  PROVE  ArrivesWhole
BY DEF ArrivesWhole, Alone, Own, Whole, Inv

\* In a process of one thread, a connection carries its own message and no
\* more than that, and all of it unless a write failed.
THEOREM MessagesArriveWhole ==
  ASSUME NEW x, Thread = {x}
  PROVE  TSpec => []ArrivesWhole
<1>0. x \in Thread
  OBVIOUS
<1>1. TInit => Alone(x)
  BY <1>0, AloneInit
<1>2. Inv /\ Alone(x) /\ [TNext]_tvars => Alone(x)'
  BY <1>0, AloneStep, TNextSteps
<1>3. Inv /\ Alone(x) => ArrivesWhole
  BY <1>0, AloneWhole
<1> QED BY <1>1, <1>2, <1>3, InvHolds, PTL DEF TSpec
-----------------------------------------------------------------------------
(* The agent a connection is made to.                                      *)

\* How the address a could be got for the path p: it is of p's host, or it was
\* found for the host of a finished request, or taken in place of a name.
Found(p, a, via) == a = p.host \/ via = "stale" \/ (via = "copy" /\ p.host \in Name)

\* The address in the cache, the one a thread connects to, and those connected.
Routed(x) ==
  /\ cache.set => cache.addr = cache.host
  /\ op[x].pc \in Wired => op[x].path = wire[x].asked
  /\ op[x].pc \in {"fallback", "copy"} => op[x].path.host \in Name
  /\ op[x].pc = "connect" => Found(op[x].path, op[x].addr, op[x].via)
  /\ wire[x].linked => /\ wire[x].to.port = wire[x].asked.port
                       /\ Found(wire[x].asked, wire[x].to.host, wire[x].via)

LEMMA RoutedGoto ==
  ASSUME NEW x \in Thread, Inv, Routed(x), NEW pc \in Places \ {"connect"},
         wire' = wire, cache' = cache, Goto(x, pc),
         pc \in {"fallback", "copy"} => op[x].path.host \in Name,
         pc \in Wired => op[x].pc \in Wired
  PROVE  Routed(x)'
<1>1. Moved(x, pc) /\ op'[x].path = op[x].path
  BY GotoMoves DEF Inv, TransportTypeOK
<1> QED BY <1>1 DEF Routed, Moved

LEMMA RoutedMoving ==
  ASSUME NEW x \in Thread, Inv, Routed(x),
         \/ PreLookup(x) \/ Resolve(x) \/ PreStore(x) \/ Lookup(x) \/ Store(x) \/ Fallback(x)
         \/ Copy(x) \/ NoAddress(x) \/ CloseFailed(x) \/ Close(x) \/ FreeMessage(x)
  PROVE  Routed(x)'
<1> USE DEF Places, Sending, Wired
<1>0. op \in [Thread -> Op] /\ {"own", "cache", "stale", "copy"} \subseteq Via
  BY DEF Inv, TransportTypeOK, Via
<1>f. ASSUME NEW what, Fault(what) PROVE Routed(x)'
  BY <1>f DEF Fault, Routed
<1>l. ASSUME NEW h \in SUBSET {"msg", "packed"}, Left(x, h), wire' = wire,
             cache' = cache \/ StoreHost(x, op[x].path)
      PROVE  Routed(x)'
  <2>1. op'[x].pc = "out"
    BY <1>l, LeavingTyped DEF Left
  <2> QED BY <1>l, <2>1 DEF Routed, StoreHost
<1>r. ASSUME ReturnOf(x), wire' = wire, cache' = cache \/ StoreHost(x, op[x].path)
      PROVE  Routed(x)'
  <2>1. op[x].held \in SUBSET {"msg", "packed"}
    BY OpFields DEF Op
  <2> QED BY <1>0, <1>r, <1>l, <2>1, ReturnMoves
<1>m. ASSUME NEW m, op' = [op EXCEPT ![x] = Freed(op[x], m)], wire' = wire, cache' = cache
      PROVE  Routed(x)'
  <2>1. op[x].held \ {m} \in SUBSET {"msg", "packed"}
    BY OpFields DEF Op
  <2> QED BY <1>0, <1>m, <1>l, <2>1, FreedMoves
<1>a. ASSUME NEW a \in Hosts, NEW via \in Via, Addressed(x, a, via), wire' = wire,
             op[x].pc \in Wired, Found(op[x].path, a, via),
             cache' = cache \/ StoreHost(x, op[x].path)
      PROVE  Routed(x)'
  <2>1. /\ Moved(x, "connect") /\ op'[x].addr = a /\ op'[x].path = op[x].path
        /\ op'[x].via = via
    BY <1>0, <1>a, AddressedMoves DEF Hosts
  <2>2. cache'.set => cache'.addr = cache'.host
    BY <1>a DEF Routed, StoreHost
  <2> QED BY <1>a, <2>1, <2>2 DEF Routed, Moved
<1>1. CASE PreLookup(x)
  BY <1>1, <1>r, RoutedGoto DEF PreLookup, At
<1>2. CASE Resolve(x)
  BY <1>2, <1>r, RoutedGoto DEF Resolve, At
<1>3. CASE PreStore(x)
  BY <1>3, <1>f, <1>r DEF PreStore
<1>4. CASE Lookup(x)
  <2>1. op[x].pc = "lookup" /\ wire' = wire /\ cache' = cache
    BY <1>4 DEF Lookup, At
  <2>2. ASSUME TRUE \in Cached(op[x].path),
               Addressed(x, cache.addr, IF Alive(cache.owner) THEN "cache" ELSE "stale")
        PROVE  Routed(x)'
    <3>1. CASE Alive(cache.owner)
      <4>1. cache.addr = op[x].path.host
        BY <2>2, <3>1 DEF Cached, Routed
      <4> QED BY <1>0, <1>a, <2>1, <2>2, <3>1, <4>1, OpFields DEF Found
    <3>2. CASE ~Alive(cache.owner)
      BY <1>0, <1>a, <2>1, <2>2, <3>2, OpFields DEF Found
    <3> QED BY <3>1, <3>2
  <2>3. CASE Goto(x, "store")
    BY <2>1, <2>3, RoutedGoto
  <2>4. CASE op[x].path.host \in Name /\ Goto(x, "fallback")
    BY <2>1, <2>4, RoutedGoto
  <2> QED BY <1>4, <2>2, <2>3, <2>4 DEF Lookup
<1>5. CASE Store(x)
  BY <1>0, <1>5, <1>f, <1>a, OpFields DEF Store, At, Found
<1>6. CASE Fallback(x)
  <2>1. op[x].pc = "fallback" /\ op[x].path.host \in Name
    BY <1>6 DEF Fallback, At, Routed
  <2> QED BY <1>6, <1>f, <1>m, <2>1, RoutedGoto DEF Fallback
<1>11. CASE Copy(x)
  BY <1>0, <1>11, <1>a, OpFields DEF Copy, At, Routed, Found
<1>7. CASE NoAddress(x)
  BY <1>7, RoutedGoto DEF NoAddress, At
<1>8. CASE CloseFailed(x)
  BY <1>8, RoutedGoto DEF CloseFailed, At
<1>9. CASE Close(x)
  BY <1>9, RoutedGoto DEF Close, At
<1>10. CASE FreeMessage(x)
  BY <1>10, <1>f, <1>m DEF FreeMessage
<1> QED BY <1>1, <1>2, <1>3, <1>4, <1>5, <1>6, <1>7, <1>8, <1>9, <1>10, <1>11

LEMMA RoutedRequest ==
  ASSUME NEW x \in Thread, Inv, Routed(x),
         \/ \E s \in Settings, profiled \in BOOLEAN : BeginRequest(x, s, profiled)
         \/ \E s \in Settings : Configure(x, s)
         \/ EndRequest(x)
         \/ \E size \in {Small, Large} : Submit(x, size)
  PROVE  Routed(x)'
<1>0. op \in [Thread -> Op]
  BY DEF Inv, TransportTypeOK
<1>1. wire' = wire /\ cache' = cache
  BY DEF BeginRequest, Configure, EndRequest, Submit, At
<1>2. op' = op \/ op'[x].pc \in {"out", "socket", "rlookup"}
  <2>1. ASSUME NEW s \in Settings, NEW profiled, BeginRequest(x, s, profiled)
        PROVE  op' = op \/ op'[x].pc = "rlookup"
    <3>1. CASE op' = [op EXCEPT ![x].pc = "rlookup", ![x].path = s.path]
      <4>1. op'[x] = [op[x] EXCEPT !.pc = "rlookup", !.path = s.path]
        BY <1>0, <3>1
      <4> QED BY <4>1, OpFields DEF Op
    <3> QED BY <2>1, <3>1 DEF BeginRequest
  <2>2. ASSUME NEW size \in {Small, Large}, Submit(x, size)
        PROVE  op'[x].pc \in {"out", "socket"}
    <3>1. CASE Left(x, {})
      BY <3>1, LeavingTyped DEF Left
    <3>2. ASSUME NEW z, NEW m, op' = [op EXCEPT ![x] = Given(z, m)], Given(z, m).pc = "socket"
          PROVE  op'[x].pc = "socket"
      BY <1>0, <3>2
    <3> QED BY <2>2, <3>1, <3>2, SubmitEffect
  <2> QED BY <2>1, <2>2 DEF Configure, EndRequest
<1> QED BY <1>1, <1>2 DEF Routed, Wired

LEMMA RoutedSocket ==
  ASSUME NEW x \in Thread, Inv, Routed(x), Socket(x)
  PROVE  Routed(x)'
<1>1. CASE Goto(x, "free") /\ UNCHANGED <<fds, wire>>
  BY <1>1, RoutedGoto DEF Socket, At, Places, Sending, Wired
<1>2. CASE ~(Goto(x, "free") /\ UNCHANGED <<fds, wire>>)
  <2>1. PICK n \in Fd, pc \in {"connect", "lookup"} :
           /\ wire' = [wire EXCEPT ![x] = Opened(x)]
           /\ op' = [op EXCEPT ![x] = WithSocket(x, n, pc)]
           /\ (pc = "connect" => settings.path.host = Unix)
           /\ cache' = cache
    BY <1>2, SocketEffect
  <2>2. op[x] \in Op /\ op'[x] = WithSocket(x, n, pc) /\ wire'[x] = Opened(x)
    BY <2>1, OpFields DEF Inv, TransportTypeOK
  <2>3. /\ op'[x].pc = pc /\ op'[x].path = settings.path
        /\ op'[x].addr = Unix
    BY <2>2 DEF WithSocket, Op
  <2>4. Opened(x).asked = settings.path /\ ~Opened(x).linked
    BY DEF Opened, NoSocket
  <2> QED BY <2>1, <2>2, <2>3, <2>4 DEF Routed, Found
<1> QED BY <1>1, <1>2

LEMMA RoutedConnect ==
  ASSUME NEW x \in Thread, Inv, Alone(x), Routed(x), Connect(x)
  PROVE  Routed(x)'
<1>1. op[x].pc = "connect" /\ cache' = cache /\ fds[op[x].fd] = x
  BY DEF Connect, At, Alone, Asking
<1>2. op[x].path = wire[x].asked /\ Found(op[x].path, op[x].addr, op[x].via)
  BY <1>1 DEF Routed, Wired
<1>3. CASE Goto(x, "failed") /\ UNCHANGED wire
  BY <1>1, <1>3, RoutedGoto DEF Places, Sending, Wired
<1>4. CASE /\ Goto(x, "write")
           /\ wire' = [wire EXCEPT ![x].to = [host |-> op[x].addr, port |-> op[x].path.port],
                                   ![x].linked = TRUE, ![x].via = op[x].via]
  <2>1. wire[x] \in Socket_ /\ wire \in [Thread -> Socket_]
    BY OpFields DEF Inv, TransportTypeOK
  <2>2. wire'[x] = [wire[x] EXCEPT !.to = [host |-> op[x].addr, port |-> op[x].path.port],
                                   !.linked = TRUE, !.via = op[x].via]
    BY <1>4, <2>1
  <2>3. /\ wire'[x].asked = wire[x].asked /\ wire'[x].via = op[x].via
        /\ wire'[x].to = [host |-> op[x].addr, port |-> op[x].path.port]
    BY <2>1, <2>2 DEF Socket_
  <2>4. Moved(x, "write") /\ op'[x].path = op[x].path
    BY <1>4, GotoMoves DEF Inv, TransportTypeOK, Places, Sending, Wired
  <2> QED BY <1>1, <1>2, <2>3, <2>4 DEF Routed, Moved, Wired
<1> QED BY <1>1, <1>3, <1>4 DEF Connect

LEMMA RoutedWrite ==
  ASSUME NEW x \in Thread, Inv, Alone(x), Routed(x), Write(x)
  PROVE  Routed(x)'
<1>1. /\ op[x].pc = "write" /\ fds[op[x].fd] = x /\ cache' = cache
      /\ op[x] \in Op /\ wire[x] \in Socket_ /\ wire \in [Thread -> Socket_]
  BY WriteEffect, OpFields DEF Alone, Inv, TransportTypeOK
<1>2. ASSUME NEW r \in Socket_, wire' = [wire EXCEPT ![x] = r], r.asked = wire[x].asked,
             r.to = wire[x].to, r.linked = wire[x].linked, r.via = wire[x].via,
             op'[x].pc \in {"close", "write"}, op'[x].path = op[x].path
      PROVE  Routed(x)'
  <2>1. wire'[x] = r
    BY <1>1, <1>2
  <2> QED BY <1>1, <1>2, <2>1 DEF Routed, Wired
<1>3. CASE Goto(x, "close") /\ wire' = [wire EXCEPT ![x] = Cut(x)] /\ Cut(x) \in Socket_
  <2>1. /\ Cut(x).asked = wire[x].asked /\ Cut(x).to = wire[x].to
        /\ Cut(x).linked = wire[x].linked /\ Cut(x).via = wire[x].via
    BY <1>1 DEF Cut, Socket_
  <2>2. Moved(x, "close") /\ op'[x].path = op[x].path
    BY <1>3, GotoMoves DEF Inv, TransportTypeOK, Places, Sending, Wired
  <2> QED BY <1>2, <1>3, <2>1, <2>2 DEF Moved
<1>4. ASSUME NEW n \in Nat \ {0}, wire' = [wire EXCEPT ![x] = Taken(x, n)],
             Taken(x, n) \in Socket_, op' = [op EXCEPT ![x] = Wrote(x, n)]
      PROVE  Routed(x)'
  <2>1. /\ Taken(x, n).asked = wire[x].asked /\ Taken(x, n).to = wire[x].to
        /\ Taken(x, n).linked = wire[x].linked /\ Taken(x, n).via = wire[x].via
    BY <1>1 DEF Taken, Socket_
  <2>2. op'[x] = Wrote(x, n)
    BY <1>4 DEF Inv, TransportTypeOK
  <2>3. Wrote(x, n).pc \in {"close", "write"} /\ Wrote(x, n).path = op[x].path
    BY <1>1 DEF Wrote, Op
  <2> QED BY <1>2, <1>4, <2>1, <2>2, <2>3
<1> QED BY <1>1, <1>3, <1>4, WriteEffect

LEMMA RoutedStep ==
  ASSUME NEW x \in Thread, Thread = {x}
  PROVE  Inv /\ Alone(x) /\ Routed(x) /\ [Step]_tvars => Routed(x)'
<1> SUFFICES ASSUME Inv, Alone(x), Routed(x), [Step]_tvars PROVE Routed(x)'
  OBVIOUS
<1>1. CASE Inside(x)
  BY <1>1, RoutedMoving, RoutedSocket, RoutedConnect, RoutedWrite DEF Inside
<1>2. CASE AgentTurns
  BY <1>2 DEF AgentTurns, Routed
<1>3. CASE UNCHANGED tvars
  BY <1>3 DEF tvars, Routed
<1> QED BY <1>1, <1>2, <1>3, RoutedRequest DEF Step

LEMMA RoutedInit ==
  ASSUME NEW x \in Thread, TInit
  PROVE  Routed(x)
BY DEF TInit, Routed, Outside, NoSocket, Wired, EmptyCache

LEMMA RoutedAgent ==
  ASSUME NEW x \in Thread, Thread = {x}, Routed(x)
  PROVE  OwnAgent
BY DEF Routed, OwnAgent, Found

\* In a process of one thread, whatever messages and requests put in the cache,
\* a message goes to the port it was for, and to its host except in the two ways
\* OwnAgent names: through the host of a request that is over, and for a name
\* that is not in the cache.
THEOREM ConnectsToOwnAgent ==
  ASSUME NEW x, Thread = {x}
  PROVE  TSpec => []OwnAgent
<1>0. x \in Thread
  OBVIOUS
<1>1. TInit => Alone(x) /\ Routed(x)
  BY <1>0, AloneInit, RoutedInit
<1>2. Inv /\ Alone(x) /\ Routed(x) /\ [TNext]_tvars => Alone(x)' /\ Routed(x)'
  BY <1>0, AloneStep, RoutedStep, TNextSteps
<1>3. Routed(x) => OwnAgent
  BY <1>0, RoutedAgent
<1> QED BY <1>1, <1>2, <1>3, InvHolds, PTL DEF TSpec
=============================================================================
